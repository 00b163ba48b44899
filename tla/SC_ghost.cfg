SPECIFICATION Spec
CONSTANTS
    Clients = {c1}
    MaxAttempts = 1
    Hellos = {h1, h2}
    Updates = upd
    NoClient = NoClient
    MaxChanges = 2
PROPERTIES
    ConnectedMeansGreeted
CHECK_DEADLOCK FALSE
