SPECIFICATION Spec
CONSTANTS
    Contexts = {c1, c2}
    Files = {f1, f2}
    IoThreads = {w1, w2}
    None = None
    SynchronousFiles = TRUE
    WaitOutlastsRequests = TRUE
    UnbindDuringBind = FALSE
    AtomicMediaFlags = TRUE
SYMMETRY Symmetry
INVARIANTS
    NoUseAfterFree
    AssociationIsSound
    OneBindingIsFound
CHECK_DEADLOCK FALSE
