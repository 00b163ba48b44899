SPECIFICATION LayoutSpec
CONSTANTS
    Nodes = {n1}
    Layouts = {small, large}
    Default = small
    Keys = {k1, k2}
    MaxHistory = 2
    MaxMutations = 4
INVARIANTS
    CommittedIsShown
CHECK_DEADLOCK FALSE
