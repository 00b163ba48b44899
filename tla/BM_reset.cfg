SPECIFICATION AloneSpec
CONSTANTS
    Callers = {k1, k2}
    Kinds = {"start", "stop"}
    Respawns = {t1}
    MaxAttempts = 1
    MaxPolls = 1
    MaxCrashes = 1
    MaxFaults = 0
    MaxMissing = 0
    MaxDetaches = 0
SYMMETRY Same
INVARIANTS
    StoppedIsDown
CHECK_DEADLOCK FALSE
