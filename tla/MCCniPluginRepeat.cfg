SPECIFICATION Spec
CONSTANTS
    Containers = {"a", "b"}
    HostName <- MCHostName
    TempName <- MCTempName
    IfName = "eth0"
    Addrs = {"x", "y"}
    Gateway = "gw"
    DeviceMtu = 1500
    RouteMtu = 1450
    MaxAttempts = 2
    MaxOps = 3
    MaxFaults = 1
INVARIANT
    AddIsIdempotent
CHECK_DEADLOCK FALSE
