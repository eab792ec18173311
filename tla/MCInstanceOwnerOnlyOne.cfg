SPECIFICATION Spec
CONSTANTS
    s1 = s1  s2 = s2  s3 = s3  s4 = s4
    Nobody = Nobody
    Proc = {s1, s2}
SYMMETRY Symm
INVARIANTS
    OnlyOneInstance
CHECK_DEADLOCK FALSE
