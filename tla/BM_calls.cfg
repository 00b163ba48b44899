SPECIFICATION Spec
CONSTANTS
    Callers = {k1, k2}
    Kinds = {"start", "restart", "ready", "stop"}
    Respawns = {t1}
    MaxAttempts = 2
    MaxPolls = 1
    MaxCrashes = 1
    MaxFaults = 1
    MaxMissing = 1
    MaxDetaches = 1
SYMMETRY Same
INVARIANTS
    NoLeaseAfterStop
    JoinedAreServed
PROPERTIES
    ReadyIsLeased
CHECK_DEADLOCK FALSE
