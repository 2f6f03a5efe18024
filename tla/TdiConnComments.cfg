SPECIFICATION Spec
CONSTANTS
    Conns = {c1, c2}
    Entries = {e1, e2}
    Ports = {p1}
    MaxClosedTime = 2
    MaxAge = 5
    Reuse = FALSE
    NoEntry = NoEntry
    NoPort = NoPort
SYMMETRY Symmetry
INVARIANT BothClosed
\* INVARIANT PacketFindsNewConnection
\* INVARIANT FreedInTime
\* INVARIANT UnloadFreesAll
\* INVARIANT WorkItemHasObject
CHECK_DEADLOCK FALSE
