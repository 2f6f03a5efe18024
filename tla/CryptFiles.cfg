SPECIFICATION Spec
CONSTANTS
    Secure = {s1, s2}
    Plain = {p1}
SYMMETRY Symmetry
INVARIANTS
    Exclusive
    ListedIsOpen
    SecretStaysSecret
CONSTRAINT OneMishap
CHECK_DEADLOCK FALSE
