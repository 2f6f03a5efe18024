SPECIFICATION FairSpec
CONSTANTS
    Reads = {r1}
    Packets = {p1}
    None = None
    MaxRecvQueueSize = 1
    DispatchPinsFile = TRUE
INVARIANT LocalCopyIsFreed
\* INVARIANT CleanupLeavesNoRead
\* PROPERTY CancelledReadCompletes
CHECK_DEADLOCK FALSE
