SPECIFICATION Spec
CONSTANTS
    Procs = {p1, p2, p3}
    NoProc = NoProc
    MaxCrashes = 1
    MaxDepth = 2
INVARIANT OverlapOnlyAfterMisdelete
INVARIANT NoLeakedLock
PROPERTY BoundedWait
PROPERTY StaleLockRecovered
CHECK_DEADLOCK FALSE
