SPECIFICATION Spec
CONSTANTS
    Contexts = {c1}
    Files = {f1}
    IoThreads = {w1}
    None = None
    SynchronousFiles = TRUE
    WaitOutlastsRequests = TRUE
    UnbindDuringBind = TRUE
    AtomicMediaFlags = TRUE
SYMMETRY Symmetry
INVARIANT ClosedByOneThread
CHECK_DEADLOCK FALSE
