SPECIFICATION Spec
CONSTANTS
    Secure = {s1}
    Plain = {p1}
SYMMETRY Symmetry
INVARIANT TypeOK
CHECK_DEADLOCK FALSE
