------------------------------ MODULE KMalloc ------------------------------
(***************************************************************************)
(* The arithmetic of the kernel's bump allocator (arch/i386/mm/kmalloc.c). *)
(* The heap is one region of KHEAP_SIZE bytes; heap_offset counts the      *)
(* bytes handed out; nothing is ever given back.  The variables live in    *)
(* the modules that allocate (KHeap, Fs).                                  *)
(***************************************************************************)
EXTENDS Naturals

CONSTANTS
    KHEAP_START,    \* Address of the first byte of the heap.
    KHEAP_SIZE,     \* Bytes in the heap.
    UINT32          \* 2^32: addresses and sizes are uint32_t.

ASSUME HeapAssumption ==
    /\ KHEAP_START \in Nat \ {0}
    /\ KHEAP_SIZE \in Nat \ {0}
    /\ UINT32 \in Nat
    /\ KHEAP_START + KHEAP_SIZE < UINT32

\* The null pointer: no block of the heap has this address.
NULL == 0

\* The addresses of the heap.
HeapAddr == KHEAP_START .. (KHEAP_START + KHEAP_SIZE - 1)

\* Mutant of Fits: one byte too many.
FitsLoosely(offset, size) == (offset + size) % UINT32 <= KHEAP_SIZE

\* kmalloc's test.  The sum is computed in 32 bits, and it must stay
\* strictly below the size: the last byte of the heap is never used.
Fits(offset, size) == (offset + size) % UINT32 < KHEAP_SIZE

\* The address kmalloc returns when the request fits.
PtrAt(offset) == KHEAP_START + offset

\* A mutant of OffsetAfter: the last byte is handed out again.
OffsetShort(offset, size) == (offset + size - 1) % UINT32

\* heap_offset after a request that fits.
OffsetAfter(offset, size) == (offset + size) % UINT32
=============================================================================
