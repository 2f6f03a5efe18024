SPECIFICATION MCSpec
CONSTANTS
    ByteSize = 2
    RegionSize = 1
    VolumeSectors = 4
    NoRegion = NoRegion
    Irps = {1, 2, 3}
    Requests <- MCRequests
    Faults = {"handle", "mapping", "online"}
    Original = Original
    Blank = Blank
    NoIrp = NoIrp
    NoBitmap = NoBitmap
INVARIANT DeviceOutlivesThread
\* INVARIANT BitmapIsExact
\* PROPERTY DiskIsKept
\* PROPERTY EveryRequestEnds
CHECK_DEADLOCK FALSE
