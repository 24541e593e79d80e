SPECIFICATION Spec
CONSTANT Conns = {c1}
INVARIANT ReadyOnlyWhenServing
CHECK_DEADLOCK FALSE
