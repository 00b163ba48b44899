SPECIFICATION GrowingSpec
CONSTANTS
    Nodes = {n1, n2}
    Layouts = {small, large}
    Default = small
    Keys = {k1}
    MaxHistory = 2
    MaxMutations = 6
INVARIANTS
    MergedMeansTheSame
    UndoThenRedo
CHECK_DEADLOCK FALSE
