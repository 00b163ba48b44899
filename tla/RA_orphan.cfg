SPECIFICATION Spec
CONSTANTS
    Calls = {c1, c2}
    Quit = Quit
    Gateways = {g1, g2}
    Devices = {d1, d2}
    MaxRestarts = 1
    None = None
    Torn = Torn
SYMMETRY Same
INVARIANT NoOrphanGateway
CHECK_DEADLOCK FALSE
