SPECIFICATION Spec
CONSTANTS
    QueueSize = 3
    MaxRequests = 4
    NoPid = NoPid
    Pids = {p1}
    ThreadIds = {t1, t2}
    AllocResults = {TRUE}
    MaxEntries = 2
    NoThread = NoThread
SYMMETRY Symmetry
INVARIANT EventOutlivesSignal
\* INVARIANT NamedThreadIsWoken
\* INVARIANT EventIsOfWaiter
\* INVARIANT EndedProcessIsForgotten
\* INVARIANT FreedOnce
CHECK_DEADLOCK FALSE
