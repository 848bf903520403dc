SPECIFICATION Spec
CONSTANTS
    a = a
    s = s
    t = t
    KHEAP_START = 1
    KHEAP_SIZE = 11
    UINT32 = 64
    Name = {a}
    RawName = {}
    SnapName = {s}
    Path <- Here
    TextLen = {1}
    NODE_SIZE = 1
    SNAP_SIZE = 1
    RootName = RootName
    NoSnap = NoSnap
INVARIANTS
    EncryptedAtRest
PROPERTIES
    SnapshotFaithful
