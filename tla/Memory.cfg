SPECIFICATION MemSpec
CONSTANTS
    PAGE_SIZE = 2
    WordBits = 2
    Words = 2
    KernelEnd = 1
    NUM_PAGE_TABLES = 2
    Entries = 2
    VAddr = {3, 6, 13}
    Ranges <- Some
INVARIANTS
    FramesAccounted
    NoStaleTranslation
PROPERTIES
    RangeExact
