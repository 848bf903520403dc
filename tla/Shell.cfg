SPECIFICATION ShellSpec
CONSTANTS
    a = a
    b = b
    slash_a = slash_a
    KHEAP_START = 1
    KHEAP_SIZE = 5
    UINT32 = 64
    Name = {a, b}
    RawName = {a, slash_a}
    SnapName = {s}
    Path <- Paths
    TextLen = {1}
    NODE_SIZE = 1
    SNAP_SIZE = 1
    RootName = RootName
    NoSnap = NoSnap
    CwdMax = 2
    EditorMax = 2
    PathOf <- Parse
INVARIANTS
    ShellTypeOK
    WellLinked
    UniqueNames
    PwdIsCwd
PROPERTIES
    KeepsFsTrees
    ReadersOnlyAdd
    SavedAsTyped
    CdUpDropsLastName
