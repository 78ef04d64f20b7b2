SPECIFICATION Spec
CONSTANTS
    AddrBits = 2
    ByteSize = 4
    None = None
    Containers = {"lxc1", "lxc2"}
    Ips = {"a"}
    Buffer = 1
    MaxVeth = 2
    MaxFaults = 1
    MaxCrashes = 1
INVARIANTS
    HostIsReady
    AddedIsReachable
    NeverEmptyConfig
    RequestsAreServed
CHECK_DEADLOCK FALSE
PROPERTIES
    CallsAreAnswered
    DaemonComesUp
