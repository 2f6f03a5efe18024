SPECIFICATION Spec
CONSTANTS
    Reads = {r1}
    Packets = {p1, p2}
    None = None
    MaxRecvQueueSize = 2
    DispatchPinsFile = TRUE
SYMMETRY Symmetry
INVARIANT AtMostOnePacketQueued
CHECK_DEADLOCK FALSE
