------------------------------- MODULE FsCwd -------------------------------
(* The path of the current directory, as pwd, the prompt and cd .. see it.  *)
EXTENDS FsViews

\* How many components of a path MAX_PATH_LEN has room for.
CONSTANT CwdMax

ASSUME CwdAssumption == CwdMax \in Nat

\* A mutant of fs_getcwd: the names come out in the order of the walk.
CwdReversed ==
    LET up[k \in 0 .. CwdMax] ==
            IF k = 0 THEN [node |-> fs_cwd, path |-> <<>>]
            ELSE LET at == up[k - 1]
                 IN  IF at.node \in {NULL, fs_root} THEN at
                     ELSE [node |-> parent[at.node],
                           path |-> Append(at.path, name[at.node])]
    IN  up[CwdMax].path

\* fs_getcwd: the names on the way up from the current directory, to the live
\* root, to a node without a parent, or until the buffer is full.
fs_getcwd ==
    LET up[k \in 0 .. CwdMax] ==
            IF k = 0 THEN [node |-> fs_cwd, path |-> <<>>]
            ELSE LET at == up[k - 1]
                 IN  IF at.node \in {NULL, fs_root} THEN at
                     ELSE [node |-> parent[at.node],
                           path |-> <<name[at.node]>> \o at.path]
    IN  up[CwdMax].path

\* The path is that of the current directory, or at least its end if it is
\* longer than the buffer.  A current directory that has been removed, or
\* moved below itself, has none.
PwdIsCwd ==
    \A x \in Descents(fs_root) : x.node = fs_cwd =>
        fs_getcwd = IF Len(x.path) <= CwdMax THEN x.path
                    ELSE SubSeq(x.path, Len(x.path) - CwdMax + 1, Len(x.path))

=============================================================================
