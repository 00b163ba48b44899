SPECIFICATION Spec
CONSTANTS
    Versions = {1, 2, 3}
    Bundled = 2
    MaxUpdates = 1
    MaxRepairs = 0
    MaxCrashes = 0
    MaxFails = 0
    MaxStuck = 0
    MaxFlaws = 0
INVARIANTS
    UnprovenIsPending
CHECK_DEADLOCK FALSE
