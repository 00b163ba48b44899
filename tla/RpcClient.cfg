SPECIFICATION Spec
CONSTANTS
    Clients = {c1, c2}
    Requests = {r1, r2}
    MaxAttempts = 2
INVARIANTS
    PendingOnlyWhenOpen
    NeverStranded
    TimerMeansNoSocket
PROPERTIES
    ClosedIsFinal
    LostConnectionResolves
    ConnectSettles
CHECK_DEADLOCK FALSE
