------------------------------ MODULE MCShell ------------------------------
(***************************************************************************)
(* An instance of Shell for TLC.                                           *)
(***************************************************************************)
EXTENDS Shell

CONSTANTS a, b, slash_a

Abs(comps) == [abs |-> TRUE, comps |-> comps]
Rel(comps) == [abs |-> FALSE, comps |-> comps]

\* A name in the root, and two in the current directory.
Paths == {Abs(<<a>>), Rel(<<a>>), Rel(<<b>>)}

\* The name "a" is the path a here; the name "/a" is the path a from the root.
Parse == [nm \in RawName |-> IF nm = a THEN Rel(<<a>>) ELSE Abs(<<a>>)]
=============================================================================
