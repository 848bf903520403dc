SPECIFICATION Spec
CONSTANTS
    KHEAP_START = 16
    KHEAP_SIZE = 8
    UINT32 = 32
    Request = {1, 2, 4}
INVARIANTS
    BlocksDisjoint
    BlocksInHeap
