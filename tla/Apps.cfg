SPECIFICATION FairSpec
CONSTANTS
    app1 = app1
    Apps <- OneApp
    NoApp = NoApp
    Requests = {q1}
    Browsers = {b1}
    Sup = Sup
    NoPort = NoPort
    Ports <- PortRange
    MaxRestartAttempts = 1
    RestartPolicy <- Policies
INVARIANTS TypeOK PortsExclusive RestartsBounded
PROPERTY CrashIsHandled
CHECK_DEADLOCK FALSE
