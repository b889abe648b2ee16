SPECIFICATION Spec
CONSTANTS
    Tools = 2
    Silent <- None
    Pipes = {p1, p2}
    NoPipe = NoPipe
    Poller = poller
    Api = api
    MaxAttempts = 2
    MaxRequests = 0
    MaxFaults = 1
CHECK_DEADLOCK FALSE
INVARIANT SentIsWhole
