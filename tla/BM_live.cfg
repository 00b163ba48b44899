SPECIFICATION FairSpec
CONSTANTS
    Callers = {k1, k2}
    Kinds = {"start", "ready"}
    Respawns = {t1}
    MaxAttempts = 3
    MaxPolls = 1
    MaxCrashes = 1
    MaxFaults = 1
    MaxMissing = 0
    MaxDetaches = 0
PROPERTIES
    CallsReturn
    Recovers
CHECK_DEADLOCK FALSE
