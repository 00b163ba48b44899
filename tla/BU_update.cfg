SPECIFICATION AloneFairSpec
CONSTANTS
    Versions = {1, 2, 3}
    Bundled = 2
    MaxUpdates = 2
    MaxRepairs = 1
    MaxCrashes = 2
    MaxFails = 2
    MaxStuck = 1
    MaxFlaws = 1
INVARIANTS
    MarkerSurvivesFaults
    UnprovenIsPending
PROPERTIES
    ComesUp
CHECK_DEADLOCK FALSE
