SPECIFICATION FairSpec
CONSTANTS
    Chats = {"c1"}
    Msgs = {m1, m2}
    NoMsg = NoMsg
    ChatOf <- OneChat
    Calls = {}
    Runs = {r1, r2}
    NoRun = NoRun
    Reqs = {q1}
    MaxId = 5
    MaxAsks = 0
    MaxStops = 1
    MaxUntyped = 0
    MaxCrashes = 1
CHECK_DEADLOCK FALSE
INVARIANTS TypeOK SupersededIsSilent
PROPERTIES SessionsSpec StopReachesTurns ExecutingEnds
