SPECIFICATION Spec
CONSTANTS
    p1 = p1  p2 = p2
    Nobody = Nobody
    Pid = {p1, p2}
    Slots = 2
    MaxMsg = 4
SYMMETRY Symm
INVARIANTS TypeOK OwnSocket
PROPERTIES OwnAnswer
CHECK_DEADLOCK FALSE
