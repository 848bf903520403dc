------------------------------- MODULE MCDisk -------------------------------
(* An instance of Disk for TLC.                                             *)
EXTENDS Disk

\* Nothing; the last sector; up to it; past it; more than one command takes.
SomeRequests == {<<1, 0>>, <<2, 1>>, <<1, 2>>, <<2, 2>>, <<0, 3>>}
=============================================================================
