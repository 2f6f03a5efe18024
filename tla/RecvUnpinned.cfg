SPECIFICATION Spec
CONSTANTS
    Reads = {r1}
    Packets = {p1}
    None = None
    MaxRecvQueueSize = 1
    DispatchPinsFile = FALSE
SYMMETRY Symmetry
INVARIANT NoUseAfterFree
CHECK_DEADLOCK FALSE
