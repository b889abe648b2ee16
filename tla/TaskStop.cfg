SPECIFICATION Spec
CONSTANTS
    t1 = t1
    t2 = t2
    t3 = t3
    a1 = a1
    a2 = a2
    NoTask = NoTask
    NoRun = NoRun
    Agents = {a1, a2}
    Tasks <- OneTask
    AgentOf <- SameAgent
    ParentOf <- NoParents
    Runs = {r1, r2}
    MaxConcurrent = 1
    AgentMax <- OneEach
    MaxTurns = 1
    Slots = {1, 2}
    MaxStops = 2
    MaxEdits = 1
    MaxDefers = 1
    MaxAsks = 1
    MaxCrashes = 0
CHECK_DEADLOCK FALSE
SYMMETRY RunSymmetry
INVARIANTS StopClosesStartupWindow
