SPECIFICATION Spec
CONSTANTS
    Slots = {f1, f2, f3}
    MaxTurns = 2
    None = None
SYMMETRY Same
INVARIANT NoOrphanOverlay
CHECK_DEADLOCK FALSE
