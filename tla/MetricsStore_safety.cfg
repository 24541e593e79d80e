SPECIFICATION MetricsSpec
CONSTANTS
    Procs = {p1, p2, p3}
    NoProc = NoProc
    MaxCrashes = 1
    MaxDepth = 1
SYMMETRY ProcSymmetry
INVARIANT MetricsTypeOK
INVARIANT LostOnlyAfterMisdelete
INVARIANT NeverOvercounts
PROPERTY ImplementsCounter
CHECK_DEADLOCK FALSE
