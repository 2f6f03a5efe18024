SPECIFICATION FairSpec
CONSTANTS
    Writes = {w1}
PROPERTIES
    CancelledWriteCompletes
CHECK_DEADLOCK FALSE
