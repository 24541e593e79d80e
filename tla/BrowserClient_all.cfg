SPECIFICATION MCSpec
CONSTANTS
    LogLength = 3
    BatchSize = 2
    RetryLimits = {0, 2}
    MaxAttempt = 2
    MaxOpen = 5
    p1 = p1
    p2 = p2
    p3 = p3
    e1 = e1
    e2 = e2
    r1 = r1
    c1 = c1
    Calls = {c1}
    Stream = Stream
    Installs = {p1, p2, p3, r1, e1, e2}
    InstallList <- MCInstallList
    FnOf <- MCFnOf
    Csrf = Csrf
    NoFn = NoFn
    CallOptions <- MCCallOptions
    Apps <- MCApps
    MaxClears = 1
INVARIANT NamedAtMostOnce
INVARIANT SkippedOnlyRefused
INVARIANT AbortStopsReading
INVARIANT ForgottenBounded
INVARIANT EachOnce
INVARIANT TokenOnUnsafe
INVARIANT CallerTold
PROPERTY AbortEnds
PROPERTY WithdrawsOwn
CHECK_DEADLOCK FALSE
