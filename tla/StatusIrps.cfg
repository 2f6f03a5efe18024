SPECIFICATION FairSpec
CONSTANTS
    Irps = {i1, i2}
    None = None
    Statuses = {"RESET_START", "RESET_END", "MEDIA_CONNECT"}
INVARIANTS
    StatusIrpIsOwned
PROPERTIES
    CancelledStatusCompletes
CHECK_DEADLOCK FALSE
