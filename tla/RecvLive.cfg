SPECIFICATION FairSpec
CONSTANTS
    Reads = {r1}
    Packets = {p1}
    None = None
    MaxRecvQueueSize = 1
    DispatchPinsFile = TRUE
PROPERTIES
    ImplementsDelivery
    TeardownCompletes
ACTION_CONSTRAINT NoPower
CHECK_DEADLOCK FALSE
