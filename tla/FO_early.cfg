SPECIFICATION Spec
CONSTANTS
    Flows = {f1}
    MaxEdits = 2
    MaxMounts = 2
    MaxFaults = 1
    MaxWriteFaults = 0
    MaxCrashes = 1
INVARIANTS
    NoEditVanishes
CHECK_DEADLOCK FALSE
