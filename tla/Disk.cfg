SPECIFICATION DiskFairSpec
CONSTANTS
    Sectors = 3
    Words = 2
    CountMax = 2
    Base = 2
    UINT32 = 32
    UINT64 = 256
    RamSizes = {3, 6, 36}
    Typed = {0, 2, 5, 16, 33}
    Requests <- SomeRequests
CHECK_DEADLOCK FALSE
INVARIANTS
    ReadTrue
    WriteDone
    OnlyNamed
PROPERTIES
    CallEnds
