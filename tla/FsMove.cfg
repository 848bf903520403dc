SPECIFICATION Spec
CONSTANTS
    a = a
    s = s
    t = t
    KHEAP_START = 1
    KHEAP_SIZE = 5
    UINT32 = 64
    Name = {a}
    RawName = {}
    SnapName = {}
    Path <- OneName
    TextLen = {1}
    NODE_SIZE = 1
    SNAP_SIZE = 1
    RootName = RootName
    NoSnap = NoSnap
PROPERTIES
    MovedIsThere
