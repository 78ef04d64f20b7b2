SPECIFICATION Spec
CONSTANTS
    MaxEndpoints = 3
    MaxFaults = 2
    MaxCrashes = 2
INVARIANT
    FallsBackToBackup
CHECK_DEADLOCK FALSE
