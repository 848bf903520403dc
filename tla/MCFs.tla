-------------------------------- MODULE MCFs --------------------------------
(* Instances of Fs for TLC: the paths and the symmetry of names.            *)
EXTENDS FsViews, TLC

CONSTANTS a, s, t

Abs(comps) == [abs |-> TRUE, comps |-> comps]
Rel(comps) == [abs |-> FALSE, comps |-> comps]

\* "/", a name in the root and in the current directory, and one a level further
\* down.
OneName == {Abs(<<>>), Rel(<<a>>), Abs(<<a>>), Abs(<<a, a>>)}

SnapSymmetry == Permutations({s, t})

\* Names in the current directory only.
Here == {Rel(<<a>>)}
=============================================================================
