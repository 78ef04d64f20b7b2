SPECIFICATION Spec
CONSTANTS
    r1 = r1
    r2 = r2
    a = a
    b = b
    Requests <- MCRequests
    Containers <- MCContainers
    Container <- Same
    EndpointIds = {1, 2}
    Users = {u1}
    Deletions = {d1, d2}
    Timeouts = TRUE
    MaxCalls = 1
INVARIANT
    OneEndpointPerContainer
CHECK_DEADLOCK FALSE
