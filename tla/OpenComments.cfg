SPECIFICATION Spec
CONSTANTS
    Contexts = {c1}
    Files = {f1, f2}
    IoThreads = {w1, w2}
    None = None
    SynchronousFiles = TRUE
    WaitOutlastsRequests = TRUE
    UnbindDuringBind = FALSE
    AtomicMediaFlags = FALSE
SYMMETRY Symmetry
INVARIANT BusyDeviceHasFile
\* INVARIANT OpenedDeviceReceives
\* INVARIANT LowPowerBlocksQueries
\* INVARIANT PoweredUpEventIsD0
CHECK_DEADLOCK FALSE
