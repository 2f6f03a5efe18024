SPECIFICATION MCSpec
CONSTANTS
    ByteSize = 2
    RegionSize = 1
    VolumeSectors = 4
    NoRegion = NoRegion
    Irps = {1, 2, 3}
    Requests <- MCRequests
    Faults = {"alloc", "file", "lower", "handle"}
    Original = Original
    Blank = Blank
    NoIrp = NoIrp
    NoBitmap = NoBitmap
INVARIANTS
    ReadsAreCurrent
    BitmapIsExact
    RegionsInBitmap
    BitmapOutlivesThread
PROPERTIES
    DiskIsKept
    QueuedRequestEnds
CHECK_DEADLOCK FALSE
