SPECIFICATION Spec
CONSTANTS
    MaxEndpoints = 3
    MaxFaults = 2
    MaxCrashes = 2
INVARIANTS
    TypeOK
    CommittedSurvives
    RestoreIsStable
CHECK_DEADLOCK FALSE
