SPECIFICATION Spec
CONSTANTS
    Contexts = {c1}
    Files = {f1}
    IoThreads = {w1, w2}
    None = None
    SynchronousFiles = FALSE
    WaitOutlastsRequests = TRUE
    UnbindDuringBind = FALSE
    AtomicMediaFlags = TRUE
SYMMETRY Symmetry
INVARIANT FreedContextIsUnassociated
\* INVARIANT NoUseAfterFree
CHECK_DEADLOCK FALSE
