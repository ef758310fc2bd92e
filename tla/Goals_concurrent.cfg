CONSTANTS
    t1 = t1
    t2 = t2
    worker = worker
    api = api
    Task = {t1, t2}
    Deps <- MCDeps
    Refers = {t2}
    Unresolvable = {}
    Reconciler = {worker, api}
    Api = api
    PerGoalLimit = 1
    GlobalLimit = 2
    MaxReruns = 0
    Overlap = TRUE
    Crashes = {"worker"}
SPECIFICATION Spec
INVARIANTS
    GoalInv
CHECK_DEADLOCK FALSE
