CONSTANTS
    t1 = t1
    t2 = t2
    worker = worker
    api = api
    Task = {t1, t2}
    Deps <- MCDeps
    Refers = {t2}
    Unresolvable = {}
    Reconciler = {worker, api}
    Api = api
    PerGoalLimit = 1
    GlobalLimit = 2
    MaxReruns = 1
    Overlap = FALSE
    Crashes = {"worker"}
SPECIFICATION Spec

    
PROPERTIES
    RunsTidy
CHECK_DEADLOCK FALSE
