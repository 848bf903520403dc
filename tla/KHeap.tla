------------------------------- MODULE KHeap -------------------------------
(***************************************************************************)
(* The kernel heap and its two callers.  kernel_main allocates during boot *)
(* (fs_init, fs_bootstrap, task_create); after it executes sti, a keyboard *)
(* interrupt may run a whole shell command, whose handler allocates too.   *)
(* kmalloc takes no lock and does not disable interrupts: it reads         *)
(* heap_offset, tests it, and stores the sum, and an interrupt may fall    *)
(* between the read and the store.                                         *)
(***************************************************************************)
EXTENDS KMalloc

CONSTANT Request    \* The sizes the kernel asks for (sizeof(fs_node_t), ...).

\* What makes the 32-bit sum of kmalloc's test exact: no caller asks for
\* more than what separates the heap's size from 2^32.
ASSUME RequestAssumption ==
    /\ Request \subseteq Nat \ {0}
    /\ \A size \in Request : size + KHEAP_SIZE < UINT32

VARIABLES
    heap_offset,    \* The allocator's only state.
    eflags_if,      \* The interrupt flag: set by kernel_main's sti.
    booting,        \* kernel_main's request in progress, or NoRequest.
    blocks,         \* History: the blocks handed out and never freed.
    raced           \* History: an interrupt allocated inside a boot request.

vars == <<heap_offset, eflags_if, booting, blocks, raced>>

Block == [base : HeapAddr, size : Request]
NoRequest == [size |-> 0, offset |-> 0]

TypeOK ==
    /\ heap_offset \in 0 .. (KHEAP_SIZE - 1)
    /\ eflags_if \in BOOLEAN
    /\ \/ booting = NoRequest
       \/ booting \in [size : Request, offset : 0 .. (KHEAP_SIZE - 1)]
    /\ blocks \subseteq Block
    /\ raced \in BOOLEAN

Init ==
    /\ heap_offset = 0
    /\ eflags_if = FALSE
    /\ booting = NoRequest
    /\ blocks = {}
    /\ raced = FALSE

-----------------------------------------------------------------------------
\* kernel_main, before the tasks start: "sti".
Sti ==
    /\ ~eflags_if
    /\ booting = NoRequest
    /\ eflags_if' = TRUE
    /\ UNCHANGED <<heap_offset, booting, blocks, raced>>

\* kernel_main calls kmalloc: heap_offset is read into a register and tested;
\* a request that does not fit returns 0 and changes nothing.
KmallocBegin(size) ==
    /\ booting = NoRequest
    /\ Fits(heap_offset, size)
    /\ booting' = [size |-> size, offset |-> heap_offset]
    /\ UNCHANGED <<heap_offset, eflags_if, blocks, raced>>

\* ... and the sum is stored, whatever has happened to heap_offset since.
KmallocEnd ==
    /\ booting # NoRequest
    /\ heap_offset' = OffsetAfter(booting.offset, booting.size)
    /\ blocks' = blocks \cup {[base |-> PtrAt(booting.offset), size |-> booting.size]}
    /\ booting' = NoRequest
    /\ UNCHANGED <<eflags_if, raced>>

\* The keyboard interrupt's command allocates.  The stub has cleared the
\* interrupt flag, so this kmalloc runs to its end.
KmallocInIrq(size) ==
    /\ eflags_if
    /\ Fits(heap_offset, size)
    /\ heap_offset' = OffsetAfter(heap_offset, size)
    /\ blocks' = blocks \cup {[base |-> PtrAt(heap_offset), size |-> size]}
    /\ raced' = (raced \/ booting # NoRequest)
    /\ UNCHANGED <<eflags_if, booting>>

\* Nothing fits any more and nobody is inside kmalloc: every later call
\* returns 0.  The system goes on without its heap.
OutOfMemory ==
    /\ eflags_if
    /\ booting = NoRequest
    /\ \A size \in Request : ~Fits(heap_offset, size)
    /\ UNCHANGED vars

Next ==
    \/ Sti
    \/ \E size \in Request : KmallocBegin(size) \/ KmallocInIrq(size)
    \/ KmallocEnd
    \/ OutOfMemory

Spec == Init /\ [][Next]_vars

-----------------------------------------------------------------------------
Disjoint(b, c) == b.base + b.size <= c.base \/ c.base + c.size <= b.base

\* Two blocks of the heap never share a byte, as long as no interrupt has
\* allocated between the load and the store of a boot-time kmalloc: the
\* offset test and the 32-bit sum of kmalloc.c:18 are enough on their own.
BlocksDisjoint ==
    ~raced => \A b, c \in blocks : b = c \/ Disjoint(b, c)

\* A block never runs past the heap's last usable byte, even when interrupts
\* have raced: kmalloc.c:18 tests the same offset that line 23 hands out.
BlocksInHeap ==
    \A b \in blocks : b.base + b.size < KHEAP_START + KHEAP_SIZE

=============================================================================
