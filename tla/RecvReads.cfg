SPECIFICATION Spec
CONSTANTS
    Reads = {r1, r2}
    Packets = {p1}
    None = None
    MaxRecvQueueSize = 1
    DispatchPinsFile = TRUE
SYMMETRY Symmetry
INVARIANTS
    CountsAreExact
    PendingReadHasOneOwner
    CancelRoutineFindsRead
    NoUseAfterFree
PROPERTY ImplementsDeliverySafely
ACTION_CONSTRAINTS NoPower OnlyCopies
CHECK_DEADLOCK FALSE
