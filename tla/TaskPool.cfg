SPECIFICATION Spec
CONSTANTS
    t1 = t1
    t2 = t2
    t3 = t3
    a1 = a1
    a2 = a2
    NoTask = NoTask
    NoRun = NoRun
    Agents = {a1, a2}
    Tasks <- ThreeTasks
    AgentOf <- TwoAgents
    ParentOf <- Family
    Runs = {r1, r2, r3, r4}
    MaxConcurrent = 2
    AgentMax <- OneAndTwo
    MaxTurns = 1
    Slots = {1}
    MaxStops = 0
    MaxEdits = 0
    MaxDefers = 0
    MaxAsks = 0
    MaxCrashes = 0
CHECK_DEADLOCK FALSE
SYMMETRY PoolSymmetry
INVARIANTS TypeOK SlotOwned OneRunPerTask LastChildResumesParent
PROPERTY PoolSpec
