SPECIFICATION Spec
CONSTANTS
    Reads = {r1}
    Packets = {p1, p2}
    None = None
    MaxRecvQueueSize = 1
    DispatchPinsFile = TRUE
SYMMETRY Symmetry
INVARIANTS
    PacketHasOneOwner
    RecvQueueIsBounded
    NoStrandedWork
    NothingQueuedAfterUnbind
PROPERTY ImplementsDeliverySafely
ACTION_CONSTRAINT NoCopies
CHECK_DEADLOCK FALSE
