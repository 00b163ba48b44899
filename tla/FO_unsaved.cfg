SPECIFICATION Spec
CONSTANTS
    Flows = {f1}
    MaxEdits = 2
    MaxMounts = 1
    MaxFaults = 0
    MaxWriteFaults = 0
    MaxCrashes = 0
PROPERTIES
    PersistedBeforeSent
CHECK_DEADLOCK FALSE
