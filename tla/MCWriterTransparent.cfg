SPECIFICATION Spec
CONSTANT MaxSends = 3
INVARIANT Transparent
CHECK_DEADLOCK FALSE
