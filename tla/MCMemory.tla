------------------------------ MODULE MCMemory ------------------------------
(***************************************************************************)
(* An instance of Memory for TLC: eight pages of two bytes, four of them   *)
(* with entries, and a bitmap of two words of two bits.                    *)
(***************************************************************************)
EXTENDS Memory

\* From inside the first page to inside the second; over the end of the tables;
\* empty; over the end of the address space.
Some == {<<1, 3>>, <<5, 13>>, <<6, 6>>, <<3, 15>>}
=============================================================================
