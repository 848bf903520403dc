------------------------------ MODULE PageSize ------------------------------
(***************************************************************************)
(* What the frame allocator and the page tables agree on.                  *)
(***************************************************************************)
EXTENDS Naturals

CONSTANT PAGE_SIZE      \* Bytes of a page, and of a frame (4096).

ASSUME PageSizeAssumption == PAGE_SIZE \in Nat \ {0}

\* The address of the first byte of the page that holds addr.
Down(addr) == addr - (addr % PAGE_SIZE)
=============================================================================
