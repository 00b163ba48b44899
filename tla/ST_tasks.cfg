SPECIFICATION BoundedSpec
CONSTANTS
    recurring = recurring
    oneShot = oneShot
    Tasks = {recurring, oneShot}
    Kind <- ReminderAndMonitor
    Once = {oneShot}
    Existing = {oneShot}
    Slots = {s1, s2}
    Reporters = {p1}
    Horizon = 1
    MaxRuns = 2
    MaxJobs = 1
    MaxOps = 2
    MaxAsks = 1
    MaxRestarts = 1
INVARIANTS
    TimerCoversPlan
    SingleActiveRun
PROPERTIES
    DueTaskRuns
CHECK_DEADLOCK FALSE
