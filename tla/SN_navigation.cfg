SPECIFICATION OrderlySpec
CONSTANTS
    Sessions = {a, b, f}
    Flows = {f}
    News = {n1, n2, n3}
    Ops = {o1, o2, o3}
    Reopens = {w1}
    None = None
SYMMETRY Same
INVARIANTS
    ActiveIsOpened
    LastChoiceWins
PROPERTIES
    NothingStrays
CHECK_DEADLOCK FALSE
