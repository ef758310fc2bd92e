CONSTANTS
    t1 = t1
    t2 = t2
    worker = worker
    api = api
    Task = {t1, t2}
    Deps <- MCDeps
    Refers = {t2}
    Unresolvable = {}
    Reconciler = {worker, api}
    Api = api
    PerGoalLimit = 1
    GlobalLimit = 2
    MaxReruns = 0
    Overlap = FALSE
    Crashes = {"worker", "api"}
SPECIFICATION FairSpec
PROPERTY
    GoalSettles
CHECK_DEADLOCK FALSE
