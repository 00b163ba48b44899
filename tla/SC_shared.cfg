SPECIFICATION Spec
CONSTANTS
    Clients = {c1, c2}
    MaxAttempts = 1
    Hellos = {h1, h2}
    Updates = upd
    NoClient = NoClient
    MaxChanges = 1
SYMMETRY HelloSymmetry
INVARIANTS
    OneSharedConnection
CHECK_DEADLOCK FALSE
