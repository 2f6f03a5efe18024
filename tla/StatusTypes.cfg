SPECIFICATION Spec
CONSTANTS
    Irps = {i1, i2}
    None = None
    Statuses = {"RESET_START", "RESET_END", "MEDIA_CONNECT"}
INVARIANT TypeOK
CHECK_DEADLOCK FALSE
