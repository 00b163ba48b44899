SPECIFICATION PatientFairSpec
CONSTANTS
    Flows = {f1}
    MaxEdits = 1
    MaxMounts = 2
    MaxFaults = 1
    MaxWriteFaults = 1
    MaxCrashes = 1
INVARIANTS
    NoEditVanishes
    DiskFollowsMemory
PROPERTIES
    EditsArrive
CHECK_DEADLOCK FALSE
