SPECIFICATION Spec
CONSTANTS
    Conns = {c1, c2}
    Entries = {e1, e2}
    Ports = {p1}
    MaxClosedTime = 2
    MaxAge = 5
    Reuse = TRUE
    NoEntry = NoEntry
    NoPort = NoPort
SYMMETRY Symmetry
INVARIANTS EntryHasOneOwner
CHECK_DEADLOCK FALSE
