------------------------------ MODULE FsTrees ------------------------------
(***************************************************************************)
(* What the filesystem promises, without nodes, links, a heap or a key: a  *)
(* tree is a function from paths to what is there, one tree is live, and a *)
(* snapshot is a tree that is kept.  Fs implements it (see FsViews).       *)
(*                                                                         *)
(* The current directory may be in no tree: it was removed, or moved below *)
(* itself.  What relative paths then lead to is out of sight, but it can   *)
(* be moved back into the tree.                                            *)
(***************************************************************************)
EXTENDS Naturals, SequencesExt

CONSTANTS
    Names,          \* The names that entries may have.
    TextLen,        \* Lengths of texts.
    SnapName,       \* Names of snapshots.
    First,          \* The tree that was there when the system started.
    Ok, Error

VARIABLES
    trees,          \* The live tree and the snapshots, by name.
    on,             \* The name of the live one.
    cwd,            \* The path of the current directory, if it is in the tree.
    ret,            \* The result of the last call ...
    out             \* ... and the length of the text it returned.

vars == <<trees, on, cwd, ret, out>>

Dir       == [is_dir |-> TRUE, len |-> 0]
File(len) == [is_dir |-> FALSE, len |-> len]

live == trees[on]

Under(t, q)  == {p \in DOMAIN t : IsPrefix(q, p)}
Inner(t)     == DOMAIN t \ {<<>>}
Dirs(t)      == {p \in DOMAIN t : t[p].is_dir}
Texts(t)     == {p \in DOMAIN t : t[p].len > 0}
Vacancies(t) == {Append(d, nm) : d \in Dirs(t), nm \in Names} \ DOMAIN t

\* The tree t without the paths of ps; and with e at the path p.
Without(t, ps) == [p \in DOMAIN t \ ps |-> t[p]]
With(t, p, e)  == [q \in DOMAIN t \cup {p} |-> IF q = p THEN e ELSE t[q]]

\* Where the path p is once q has become r, and the tree then.
MovedPath(p, q, r) == IF IsPrefix(q, p) THEN r \o SubSeq(p, Len(q) + 1, Len(p)) ELSE p
MovedTree(t, q, r) ==
    [p \in {MovedPath(x, q, r) : x \in DOMAIN t} |->
        t[CHOOSE x \in DOMAIN t : MovedPath(x, q, r) = p]]

Init ==
    /\ trees = [s \in {First} |-> [p \in {<<>>} |-> Dir]]
    /\ on = First
    /\ cwd = {<<>>}
    /\ ret = Ok
    /\ out = 0

-----------------------------------------------------------------------------
\* Any call may fail, for its arguments or for want of memory.
Succeed == ret' = Ok /\ out' = 0
Refuse  == ret' = Error /\ out' = 0 /\ UNCHANGED <<cwd, on, trees>>

\* Only the live tree changes, to one of ts, and it is still the live one.
LiveBecomes(ts) ==
    /\ UNCHANGED on
    /\ DOMAIN trees' = DOMAIN trees
    /\ \A s \in DOMAIN trees \ {on} : trees'[s] = trees[s]
    /\ live' \in ts

Read ==
    /\ ret' = Ok
    /\ UNCHANGED <<cwd, on, trees>>
    /\ out' \in {live[p].len : p \in Texts(live)}

Chdir ==
    /\ Succeed
    /\ UNCHANGED <<on, trees>>
    /\ cwd' \in {{d} : d \in Dirs(live)}

\* A new file, with a text or without, or a new directory.
Make ==
    LET now == live IN
    /\ Succeed
    /\ UNCHANGED cwd
    /\ LiveBecomes({With(now, q, e) : q \in Vacancies(now),
                        e \in {Dir} \cup {File(len) : len \in TextLen \cup {0}}})

\* No room for the text: the new file is there all the same, and empty.
MakeHalf ==
    LET now == live IN
    /\ ret' = Error /\ out' = 0
    /\ UNCHANGED cwd
    /\ LiveBecomes({With(now, q, File(0)) : q \in Vacancies(now)})

\* The editor's: a text in place of another one in the current directory.
Overwrite ==
    LET now == live IN
    /\ Succeed
    /\ UNCHANGED cwd
    /\ LiveBecomes({With(now, q, File(len)) : len \in TextLen,
                        q \in {p \in Inner(now) \ Dirs(now) : Front(p) \in cwd}})

\* A file or an empty directory goes.
Unlink ==
    LET now == live IN
    /\ Succeed
    /\ \E q \in Inner(now) :
          /\ Under(now, q) = {q}
          /\ LiveBecomes({Without(now, {q})})
          /\ cwd' = cwd \ {q}

\* All that is below q moves with it, the current directory too.
Move ==
    LET now == live IN
    /\ Succeed
    /\ \E q \in Inner(now), r \in Vacancies(now) :
          /\ ~IsPrefix(q, r)
          /\ LiveBecomes({MovedTree(now, q, r)})
          /\ cwd' = {MovedPath(c, q, r) : c \in cwd}

\* What is moved below itself, or by a relative path to where the tree does not
\* reach, is gone.
Lose ==
    LET now == live IN
    /\ Succeed
    /\ \E q \in Inner(now) :
          /\ cwd = {} \/ now[q].is_dir
          /\ LiveBecomes({Without(now, Under(now, q))})
          /\ cwd' = cwd \ Under(now, q)

\* Calls with relative paths outside the tree do not touch it ...
Outside ==
    /\ cwd = {}
    /\ ret' \in {Ok, Error} /\ out' \in TextLen \cup {0}
    /\ UNCHANGED <<cwd, on, trees>>

\* ... or put something there, at one new path and below it.  The current
\* directory may be part of that.
Recover ==
    LET now == live IN
    /\ cwd = {}
    /\ ret' \in {Ok, Error} /\ out' = 0
    /\ \E q \in Vacancies(now) \cap DOMAIN live' :
          /\ LiveBecomes({live'}) /\ now = Without(live', Under(live', q))
          /\ cwd' \in {{}} \cup {{d} : d \in Dirs(live') \cap Under(live', q)}

\* The snapshot has what the live tree has, though it may lack some of it.
Save ==
    LET now == live IN
    /\ Succeed
    /\ UNCHANGED <<cwd, on>>
    /\ \E s \in SnapName \ DOMAIN trees :
          /\ s \in DOMAIN trees'
          /\ trees = Without(trees', {s})
          /\ \A p \in DOMAIN trees'[s] :
                /\ p \in DOMAIN now
                /\ trees'[s][p] \in {now[p], [now[p] EXCEPT !.len = 0]}
                /\ p = <<>> \/ Front(p) \in DOMAIN trees'[s]

\* The snapshot becomes the live tree, and changes from now on.  The tree that
\* was live is kept if it is a snapshot.
Restore ==
    /\ Succeed
    /\ cwd' = {<<>>}
    /\ on' \in DOMAIN trees \ {First}
    /\ trees' = Without(trees, {First})

Next ==
    \/ Refuse \/ Read \/ Chdir \/ Make \/ MakeHalf \/ Overwrite \/ Unlink \/ Move
    \/ Lose \/ Outside \/ Recover \/ Save \/ Restore

Spec == Init /\ [][Next]_vars
=============================================================================
