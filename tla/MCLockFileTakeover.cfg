SPECIFICATION Spec
CONSTANTS
    t1 = t1
    t2 = t2
    h1 = h1
    daemon = daemon
    hook = hook
    NoThread = NoThread
    Threads <- MCThreads
    ProcessOf <- MCProcessOf
    Waiting = {t1, h1}
    StaleAfter = 1
    MaxTime = 3
    MaxCrashes = 1
INVARIANTS
    MutualExclusion
CHECK_DEADLOCK FALSE
