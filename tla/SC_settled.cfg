SPECIFICATION CanonicalSettledSpec
CONSTANTS
    Clients = {c1, c2}
    MaxAttempts = 1
    Hellos = {h1, h2}
    Updates = upd
    NoClient = NoClient
    MaxChanges = 2
INVARIANTS
    CapabilitiesCurrentWhenQuiet
PROPERTIES
    NewestUpdateWins
CHECK_DEADLOCK FALSE
