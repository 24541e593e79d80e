SPECIFICATION Spec
CONSTANT Conns = {c1, c2, c3}
INVARIANT WithdrawnBeforeDrain
INVARIANT CleanExitDrained
INVARIANT GoroutineJoined
INVARIANT ForcedOnlyAfterDeadline
PROPERTY SignalEndsProcess
CHECK_DEADLOCK FALSE
