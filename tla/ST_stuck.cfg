SPECIFICATION FairSpec
CONSTANTS
    recurring = recurring
    oneShot = oneShot
    Tasks = {recurring}
    Kind <- AgentAndReminder
    Once = {}
    Existing = {recurring}
    Slots = {s1, s2}
    Reporters = {p1}
    Horizon = 1
    MaxRuns = 2
    MaxJobs = 1
    MaxOps = 2
    MaxAsks = 1
    MaxRestarts = 1
PROPERTIES
    EveryDueTaskRuns
CHECK_DEADLOCK FALSE
