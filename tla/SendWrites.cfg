SPECIFICATION SendingSpec
CONSTANTS
    Writes = {w1, w2}
INVARIANTS
    RefCountIsExact
    SendIsOutlived
    CancelledPacketIsHeld
PROPERTY CallsReturn
CHECK_DEADLOCK FALSE
