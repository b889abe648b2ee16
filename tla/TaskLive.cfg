SPECIFICATION FairSpec
CONSTANTS
    t1 = t1
    t2 = t2
    t3 = t3
    a1 = a1
    a2 = a2
    NoTask = NoTask
    NoRun = NoRun
    Agents = {a1, a2}
    Tasks <- TwoTasks
    AgentOf <- SameAgent
    ParentOf <- NoParents
    Runs = {r1, r2}
    MaxConcurrent = 2
    AgentMax <- OneEach
    MaxTurns = 1
    Slots = {1, 2}
    MaxStops = 0
    MaxEdits = 0
    MaxDefers = 0
    MaxAsks = 0
    MaxCrashes = 1
CHECK_DEADLOCK FALSE
PROPERTIES PoolSpec DueTaskIsTaken SlotsComeBack
