------------------------------- MODULE Memory -------------------------------
(***************************************************************************)
(* A caller of the frame allocator and of the page tables, as a kernel     *)
(* with user programs would have one: it maps the frames it got, and gives *)
(* a frame back when it has unmapped it.  Nothing in the repository calls  *)
(* these functions after the boot yet; the caller is external.             *)
(***************************************************************************)
EXTENDS PhysMem, Paging

CONSTANTS
    VAddr,          \* The addresses the caller maps at.
    Ranges          \* The ranges it marks as the user's.

\* The page tables reach as far as the bitmap, or further (2 GiB each).
ASSUME MemoryAssumption ==
    /\ MAX_FRAMES <= NUM_PAGE_TABLES * Entries
    /\ VAddr \subseteq Addr
    /\ Ranges \subseteq Addr \X Addr

memVars == <<physVars, pagingVars>>

MemInit == phys_init /\ paging_init

FrameOf(paddr) == paddr \div PAGE_SIZE

\* What the caller mapped: it knows which addresses have no entry.
Mapped == {FrameOf(Entry(p * PAGE_SIZE).paddr) : p \in
             {q \in moved : HasPte(q * PAGE_SIZE) /\ "PRESENT" \in Entry(q * PAGE_SIZE).flags}}

Alloc == op = Idle /\ phys_alloc_frame /\ UNCHANGED pagingVars

Free ==
    /\ op = Idle
    /\ \E addr \in {0, Half, Space - 1} \cup
                   {f * PAGE_SIZE + PAGE_SIZE - 1 : f \in Held \ Mapped} :
          phys_free_frame(addr)
    /\ UNCHANGED pagingVars

Map ==
    /\ \E v \in VAddr, f \in Held \ Mapped, offset \in {0, PAGE_SIZE - 1},
          user \in SUBSET {"USER"} :
          paging_map(v, f * PAGE_SIZE + offset, {"PRESENT", "RW"} \cup user)
    /\ UNCHANGED physVars

Unmap == (\E v \in VAddr : paging_unmap(v)) /\ UNCHANGED physVars

SetUser ==
    /\ \E r \in Ranges : paging_set_user_for_range(r[1], r[2])
    /\ UNCHANGED physVars

Processor == (\E p \in Page : Cache(p) \/ Evict(p)) /\ UNCHANGED physVars

MemNext ==
    \/ Alloc \/ Free \/ Map \/ Unmap \/ SetUser
    \/ PagingStep /\ UNCHANGED physVars
    \/ Processor

MemSpec == MemInit /\ [][MemNext]_memVars

-----------------------------------------------------------------------------
\* No translation in use at an address of the caller leads to a frame that it
\* has given back, and that another may have by now.
NoStaleFrame ==
    \A p \in moved : tlb[p] # NoEntry => FrameOf(tlb[p].paddr) \in Held \/ op # Idle

\* What the processor translates with is what the last calls left.
NoStaleTranslation == PagingTypeOK /\ TlbFresh /\ NoStaleFrame
=============================================================================
