SPECIFICATION Spec
CONSTANTS
    DurationMax = 7
    FloatMax = 5
    JitterUnit = 2
    NotANumber = NotANumber
    Names = {n1, n2}
    RequestedSpecs <- TwoKinds
    MaxInterval <- MCMaxInterval
    MaxUpdates = 3
    MaxIds = 2
    MaxErrors = 2
INVARIANTS
    TypeOK
    EntryIsLive
    StatusAgrees
    StopHookOnce
PROPERTIES
    JobUsesNewestSpec
    UpdateIsRun
    StopTerminates
CHECK_DEADLOCK FALSE
