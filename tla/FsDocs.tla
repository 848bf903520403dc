------------------------------- MODULE FsDocs -------------------------------
(***************************************************************************)
(* What the help text of the shell says of the filesystem where the code   *)
(* does something else; a run refutes it.                                  *)
(***************************************************************************)
EXTENDS MCFs

\* "mv <old> <new>- move/rename file or directory": what is moved is in the
\* tree afterwards.
MovedIsThere ==
    [][\A p, q \in Path :
          /\ Resolve(p) \in Below(fs_root)
          /\ fs_rename(p, q)
          => Resolve(p) \in Below(fs_root)']_vars

=============================================================================
