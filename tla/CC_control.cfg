SPECIFICATION OrderlySpec
CONSTANTS
    Slots = {f1, f2, f3}
    MaxTurns = 2
    None = None
SYMMETRY Same
INVARIANTS
    ConsentBacksAccess
    FrameHasAccess
    LocksHaveOwners
    ControlIsShown
    NoOrphanOverlay
PROPERTY InputHasAuthority
CHECK_DEADLOCK FALSE
