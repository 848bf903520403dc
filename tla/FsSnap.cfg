SPECIFICATION Spec
CONSTANTS
    a = a
    s = s
    t = t
    KHEAP_START = 1
    KHEAP_SIZE = 7
    UINT32 = 64
    Name = {a}
    RawName = {a}
    SnapName = {s, t}
    Path <- OneName
    TextLen = {1}
    NODE_SIZE = 1
    SNAP_SIZE = 1
    RootName = RootName
    NoSnap = NoSnap
SYMMETRY SnapSymmetry
INVARIANTS
    TreesApart
PROPERTIES
    SnapshotIsolation
