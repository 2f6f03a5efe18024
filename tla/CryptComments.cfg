\* What the comments of crypt_file say and its code does not do: one of these
\* at a time, each is violated.
SPECIFICATION Spec
CONSTANTS
    Secure = {s1, s2}
    Plain = {p1}
SYMMETRY Symmetry
INVARIANT LockIsReleased
\* INVARIANT HeaderStays
\* INVARIANT SecureReadsClear
\* INVARIANT PassedIsListed
\* INVARIANT CreateFindsNoNode
\* INVARIANT SecretIsCiphered
CONSTRAINT OneMishap
CHECK_DEADLOCK FALSE
