SPECIFICATION FairSpec
CONSTANTS
    recurring = recurring
    oneShot = oneShot
    Tasks = {recurring}
    Kind <- MonitorAndReminder
    Once = {}
    Existing = {recurring}
    Slots = {s1}
    Reporters = {p1}
    Horizon = 1
    MaxRuns = 3
    MaxJobs = 1
    MaxOps = 3
    MaxAsks = 1
    MaxRestarts = 0
PROPERTIES
    EveryDueTaskRuns
CHECK_DEADLOCK FALSE
