SPECIFICATION Spec
CONSTANTS
    Contexts = {c1}
    Files = {f1}
    IoThreads = {w1}
    None = None
    SynchronousFiles = TRUE
    WaitOutlastsRequests = FALSE
    UnbindDuringBind = FALSE
    AtomicMediaFlags = TRUE
SYMMETRY Symmetry
INVARIANT RequestPinsBinding
CHECK_DEADLOCK FALSE
