SPECIFICATION FairSpec
CONSTANTS
    Writes = {w1}
PROPERTY CancelledWriteCompletes
\* INVARIANT CancelledPacketHasPool
\* INVARIANT CancelRoutineHasIrp
CONSTRAINT CancellableBuild
CHECK_DEADLOCK FALSE
