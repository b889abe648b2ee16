SPECIFICATION FairSpec
CONSTANTS
    NoTask = NoTask
    Tasks = {t1}
    Mode <- Modes
    MaxEvaluations <- Budgets
    Expiring = {t1}
    Evals = {e1}
    Runs = {r1, r2}
    MaxStops = 1
    MaxDefers = 1
    MaxCrashes = 1
INVARIANTS TypeOK BudgetKept PendingIsHeard
PROPERTY ExpiredIsEnded
CHECK_DEADLOCK FALSE
