SPECIFICATION FairSpec
CONSTANTS
    Irps = {i1}
    None = None
    Statuses = {"RESET_START", "RESET_END"}
PROPERTY UnbindCompletesStatus
\* INVARIANT ResetEndFindsFlag
CHECK_DEADLOCK FALSE
