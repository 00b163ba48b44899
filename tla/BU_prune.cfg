SPECIFICATION AloneSpec
CONSTANTS
    Versions = {1, 2, 3}
    Bundled = 2
    MaxUpdates = 1
    MaxRepairs = 0
    MaxCrashes = 1
    MaxFails = 1
    MaxStuck = 0
    MaxFlaws = 0
INVARIANTS
    MarkerInstalled
CHECK_DEADLOCK FALSE
