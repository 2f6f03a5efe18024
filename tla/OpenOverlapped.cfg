SPECIFICATION FairSpec
CONSTANTS
    Contexts = {c1}
    Files = {f1}
    IoThreads = {w1, w2}
    None = None
    SynchronousFiles = FALSE
    WaitOutlastsRequests = TRUE
    UnbindDuringBind = FALSE
    AtomicMediaFlags = FALSE
INVARIANTS
    RefCountIsExact
    RequestPinsBinding
PROPERTY CallsReturn
CHECK_DEADLOCK FALSE
