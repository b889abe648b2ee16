SPECIFICATION FairSpec
CONSTANTS
    Managers = {m1, m2}
    NoManager = NoManager
    Handlers = {h1}
    Configs = {"old", "new"}
    MaxRequests = 2
    MaxFaults = 1
    MaxNews = 1
CHECK_DEADLOCK FALSE
INVARIANTS TypeOK RunningIsMapped StoppedIsShown
PROPERTIES EnabledIsArmed DisabledEnds
