SPECIFICATION FairSpec
CONSTANTS
    Tools = 2
    Silent <- First
    Pipes = {p1}
    NoPipe = NoPipe
    Poller = poller
    Api = api
    MaxAttempts = 2
    MaxRequests = 1
    MaxFaults = 1
CHECK_DEADLOCK FALSE
INVARIANTS TypeOK NoGapAlone SentWasGiven
PROPERTY CompletedGetsOut
