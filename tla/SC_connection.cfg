SPECIFICATION CanonicalSpec
CONSTANTS
    Clients = {c1, c2}
    MaxAttempts = 1
    Hellos = {h1, h2}
    Updates = upd
    NoClient = NoClient
    MaxChanges = 1
INVARIANTS
    AwaitedIsPending
PROPERTIES
    UsesRpcClient
    CallersAreAnswered
CHECK_DEADLOCK FALSE
