SPECIFICATION Spec
CONSTANTS
    QueueSize = 3
    MaxRequests = 5
    NoPid = NoPid
    Pids = {p1}
    ThreadIds = {t1, t2}
    AllocResults = {TRUE}
    MaxEntries = 2
    NoThread = NoThread
SYMMETRY Symmetry
INVARIANT TypeOK
CHECK_DEADLOCK FALSE
