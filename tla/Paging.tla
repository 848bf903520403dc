------------------------------- MODULE Paging -------------------------------
(***************************************************************************)
(* Page tables (mm/paging.c): an identity map of the lower half of the     *)
(* address space in tables that all exist from the start, and changes of   *)
(* single entries.  A change is a store and then invlpg; interrupts are on *)
(* and the processor caches translations whenever it likes.  Addresses are *)
(* those of a small machine with the same shape, and wrap as 32 bits do.   *)
(***************************************************************************)
EXTENDS PageSize

CONSTANTS
    NUM_PAGE_TABLES,    \* Half of the entries of the page directory.
    Entries             \* Entries of one table (1024).

ASSUME PagingAssumption == {NUM_PAGE_TABLES, Entries} \subseteq Nat \ {0}

VARIABLES
    page_tables,
    tlb,            \* External: the translation cached for each page.
    op,             \* The call in progress.
    moved           \* History: the pages that a caller mapped or unmapped.

pagingVars == <<page_tables, tlb, op, moved>>

Pages == 2 * NUM_PAGE_TABLES * Entries
Page == 0 .. Pages - 1
Space == Pages * PAGE_SIZE          \* 2^32.
Addr == 0 .. Space - 1
Half == Space \div 2                \* MAX_IDENTITY_MB.

Flag == {"PRESENT", "RW", "USER"}
NotPresent == [paddr |-> 0, flags |-> {}]
NoEntry == [paddr |-> Space, flags |-> {}]
Idle == [call |-> "none"]

pde_index(vaddr) == vaddr \div (PAGE_SIZE * Entries)
pte_index(vaddr) == (vaddr \div PAGE_SIZE) % Entries
Up(addr) == Down((addr + PAGE_SIZE - 1) % Space)

\* Where the entry of an address is, if it has one.
Pte(vaddr) == <<pde_index(vaddr), pte_index(vaddr)>>
HasPte(vaddr) == Pte(vaddr)[1] < NUM_PAGE_TABLES
Entry(vaddr) == page_tables[Pte(vaddr)[1]][Pte(vaddr)[2]]
Store(vaddr, entry) == [page_tables EXCEPT ![Pte(vaddr)[1]][Pte(vaddr)[2]] = entry]

\* The identity map, and the range marked as the user's at its end.
paging_init ==
    /\ page_tables = [t \in 0 .. NUM_PAGE_TABLES - 1 |-> [i \in 0 .. Entries - 1 |->
                        [paddr |-> (t * Entries + i) * PAGE_SIZE, flags |-> Flag]]]
    /\ tlb = [p \in Page |-> NoEntry]
    /\ op = Idle
    /\ moved = {}

-----------------------------------------------------------------------------
(* Mapping and unmapping *)

\* Mutant of Change: an entry that is not present is not flushed.
ChangeLazy(call, vaddr, entry) ==
    /\ op = Idle
    /\ page_tables' = IF HasPte(vaddr) THEN Store(vaddr, entry) ELSE page_tables
    /\ op' = IF HasPte(vaddr) /\ entry # NotPresent
             THEN [call |-> call, addr |-> vaddr] ELSE op
    /\ moved' = moved \cup {vaddr \div PAGE_SIZE}
    /\ UNCHANGED tlb

\* The store of an entry; the flush is still to come.
Change(call, vaddr, entry) ==
    /\ op = Idle
    /\ IF HasPte(vaddr)
       THEN /\ page_tables' = Store(vaddr, entry)
            /\ op' = [call |-> call, addr |-> vaddr]
       ELSE UNCHANGED <<page_tables, op>>
    /\ moved' = moved \cup {vaddr \div PAGE_SIZE}
    /\ UNCHANGED tlb

paging_map(vaddr, paddr, flags) ==
    Change("map", vaddr, [paddr |-> Down(paddr), flags |-> flags])

paging_unmap(vaddr) == Change("unmap", vaddr, NotPresent)

\* The page that invlpg names.
Flushed(vaddr) == vaddr \div PAGE_SIZE

Invlpg ==
    /\ op.call \in {"map", "unmap"}
    /\ tlb' = [tlb EXCEPT ![Flushed(op.addr)] = NoEntry]
    /\ op' = Idle
    /\ UNCHANGED <<page_tables, moved>>

-----------------------------------------------------------------------------
(* paging_set_user_for_range *)

\* Mutant of RangeEnd: the end is rounded down.
RangeEndDown(end) == Down(end)

\* The end, rounded up; behind the last page it wraps to 0.
RangeEnd(end) == Up(end)

paging_set_user_for_range(start, end) ==
    /\ op = Idle
    /\ end >= start
    /\ op' = [call |-> "range", start |-> start, end |-> end,
              addr |-> Down(start), at |-> "test"]
    /\ UNCHANGED <<page_tables, tlb, moved>>

NextPage == [op EXCEPT !.addr = @ + PAGE_SIZE, !.at = "test"]

RangeTest ==
    /\ op.call = "range" /\ op.at = "test"
    /\ op' = IF op.addr >= RangeEnd(op.end) THEN Idle
             ELSE IF HasPte(op.addr) THEN [op EXCEPT !.at = "store"]
             ELSE NextPage
    /\ UNCHANGED <<page_tables, tlb, moved>>

RangeStore ==
    /\ op.call = "range" /\ op.at = "store"
    /\ page_tables' = Store(op.addr, [Entry(op.addr) EXCEPT !.flags = @ \cup {"USER"}])
    /\ op' = [op EXCEPT !.at = "flush"]
    /\ UNCHANGED <<tlb, moved>>

RangeFlush ==
    /\ op.call = "range" /\ op.at = "flush"
    /\ tlb' = [tlb EXCEPT ![Flushed(op.addr)] = NoEntry]
    /\ op' = NextPage
    /\ UNCHANGED <<page_tables, moved>>

PagingStep == Invlpg \/ RangeTest \/ RangeStore \/ RangeFlush

-----------------------------------------------------------------------------
(* The processor *)

\* An entry that is present may be cached at any time, and dropped.
Cache(page) ==
    LET v == page * PAGE_SIZE
    IN  /\ HasPte(v) /\ "PRESENT" \in Entry(v).flags
        /\ tlb' = [tlb EXCEPT ![page] = Entry(v)]
        /\ UNCHANGED <<page_tables, op, moved>>

Evict(page) ==
    /\ tlb' = [tlb EXCEPT ![page] = NoEntry]
    /\ UNCHANGED <<page_tables, op, moved>>

-----------------------------------------------------------------------------
PteSet == [paddr : {p * PAGE_SIZE : p \in Page}, flags : SUBSET Flag]

PagingTypeOK ==
    /\ page_tables \in [0 .. NUM_PAGE_TABLES - 1 -> [0 .. Entries - 1 -> PteSet]]
    /\ tlb \in [Page -> PteSet \cup {NoEntry}]
    /\ op.call \in {"none", "map", "unmap", "range"}
    /\ moved \subseteq Page

\* When a call has returned, the processor uses no translation from before it,
\* whatever it cached while the call ran.
TlbFresh ==
    op = Idle => \A p \in Page :
        tlb[p] # NoEntry => tlb[p] = Entry(p * PAGE_SIZE)

\* Marking a range ends with every page that has a byte in it marked, but for
\* those without an entry; no page outside is marked on the way.  An end in
\* the last page of the address space wraps, and nothing is marked at all.
Covers(page) ==
    /\ (page + 1) * PAGE_SIZE > op.start
    /\ page * PAGE_SIZE < op.end
RangeExact ==
    [][ op.call = "range" => \A p \in 0 .. (Half \div PAGE_SIZE) - 1 :
            LET v == p * PAGE_SIZE
                marked == "USER" \in Entry(v).flags
            IN  /\ op' = Idle /\ Covers(p) /\ op.end <= Space - PAGE_SIZE => marked
                /\ "USER" \in Entry(v)'.flags => marked \/ Covers(p)
      ]_pagingVars
=============================================================================
