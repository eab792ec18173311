SPECIFICATION Spec
CONSTANT MaxSends = 6
INVARIANTS TypeOK BufferDrained IntactWhenAlone
PROPERTY PassesThrough
CHECK_DEADLOCK FALSE
