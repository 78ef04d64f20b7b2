SPECIFICATION Spec
CONSTANTS
    r1 = r1
    r2 = r2
    a = a
    b = b
    Requests <- MCRequests
    Containers <- MCContainers
    Container <- Distinct
    EndpointIds = {1}
    Users = {u1}
    Deletions = {d1}
    Timeouts = TRUE
    MaxCalls = 1
INVARIANTS
    IdsAreExclusive
    DeletedStaysDetached
    QueuedStillRuns
    ReadyIsAttached
PROPERTIES
    CallIsAnswered
    DeletionEnds
CHECK_DEADLOCK FALSE
