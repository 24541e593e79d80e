SPECIFICATION MetricsSpec
CONSTANTS
    Procs = {p1, p2, p3}
    NoProc = NoProc
    MaxCrashes = 0
    MaxDepth = 1
INVARIANT NoLostUpdate
CHECK_DEADLOCK FALSE
