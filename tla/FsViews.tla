------------------------------ MODULE FsViews ------------------------------
(***************************************************************************)
(* What the users of the filesystem see: the tree below a root as a set of *)
(* paths with what they hold; the abstract filesystem that Fs implements;  *)
(* and the properties that speak of whole trees, before and after a call.  *)
(***************************************************************************)
EXTENDS Fs, FiniteSets

\* A path with the node it leads to.
Place == [path : Seq(Name \cup RawName \cup {RootName}), node : HeapAddr]

\* The places one step further down than x.  A path without repetition has
\* fewer components than there are nodes.
Children(x) ==
    IF Len(x.path) < Cardinality(nodes)
    THEN {[path |-> Append(x.path, name[c]), node |-> c] : c \in Listed(x.node)}
    ELSE {}

\* The paths that start at r, each with the node it leads to.
Descents(r) ==
    LET down[level \in SUBSET Place] ==
            IF level = {} THEN {}
            ELSE level \cup down[UNION {Children(x) : x \in level}]
    IN  down[{[path |-> <<>>, node |-> r]}]

\* The nodes of the tree below r.
Below(r) == {x.node : x \in Descents(r)}

\* What that tree holds.
Entry(path, n) == [path |-> path, is_dir |-> is_dir[n], data |-> data[n]]
View(r) == {Entry(x.path, x.node) : x \in Descents(r)}

\* There is room left for any one node of the live tree, and for any one
\* file's contents.
Ample ==
    /\ Fits(heap_offset, NODE_SIZE)
    /\ \A n \in Below(fs_root) : Fits(heap_offset, data[n].len + 1)

-----------------------------------------------------------------------------
(* The abstract filesystem that Fs implements *)

\* The length of a text as a reader sees it; none if it is scrambled.
Legible(text, sealed) ==
    IF text = NoText THEN 0 ELSE IF text.sealed = sealed THEN text.len ELSE -1

\* The tree below r as a function from paths.
TreeAt(r) ==
    LET below == Descents(r)
    IN  [p \in {x.path : x \in below} |->
            LET n == (CHOOSE x \in below : x.path = p).node
            IN  [is_dir |-> is_dir[n], len |-> Legible(data[n], TRUE)]]

\* The name of the live tree, and the root of the tree s.
LiveName == IF \E i \in DOMAIN snaps : snaps[i].root = fs_root
            THEN snaps[CHOOSE i \in DOMAIN snaps : snaps[i].root = fs_root].name
            ELSE NoSnap
RootOf(s) == IF s = LiveName THEN fs_root
             ELSE snaps[CHOOSE i \in DOMAIN snaps : snaps[i].name = s].root

Trees == [s \in {snaps[i].name : i \in DOMAIN snaps} \cup {LiveName} |-> TreeAt(RootOf(s))]

\* The path of the current directory, if it is in the live tree.
CwdPath == {x.path : x \in {y \in Descents(fs_root) : y.node = fs_cwd}}

FT == INSTANCE FsTrees WITH
        Names <- Name \cup RawName, First <- NoSnap,
        trees <- Trees, on <- LiveName, cwd <- CwdPath, out <- Legible(out, FALSE)

-----------------------------------------------------------------------------
(* Invariants *)

\* The live tree and the snapshots are trees, without a cycle and without a
\* node in common; so the recursions of fs_find_walk and fs_clone_tree over
\* them end.  (fs_tree_walk starts at the current directory.)  The current
\* directory may be outside the live tree (removed, or moved below itself), but
\* it is never inside a snapshot that is not live.
TreesApart ==
    \A r \in SnapRoots \cup {fs_root} :
        /\ Cardinality(Descents(r)) = Cardinality(Below(r))
        /\ \A q \in (SnapRoots \cup {fs_root, fs_cwd}) \ {r} :
              q \in Below(r) \/ Below(q) \cap Below(r) = {}
        /\ fs_cwd \in Below(r) => r = fs_root

-----------------------------------------------------------------------------
(* Action properties *)

\* A snapshot that is not the live tree keeps its contents: no operation,
\* wherever the current directory is and whatever was moved, reaches it.
SnapshotIsolation ==
    [][\/ UNCHANGED tree
       \/ \A r \in SnapRoots \ {fs_root} : View(r)' = View(r)]_vars

\* The filesystem implements FsTrees: every call does to the trees that paths
\* show what an abstract one does, and nothing else.  What fails changes
\* nothing, but may leave an empty file; what is moved takes all that is below
\* it along, and the current directory with it; a snapshot that is not live
\* keeps its contents, and a restored tree is the one that was saved; what is
\* read is the text that was written.
KeepsFsTrees == FT!Spec

\* A snapshot that is recorded shows nothing the live tree does not have:
\* the same kinds under the same paths, and files whole or empty.  If the
\* heap never ran short, it shows all of it.
SnapshotFaithful ==
    [][\A r \in SnapRoots' \ SnapRoots :
          /\ \A e \in View(r)' : \E f \in View(fs_root) :
                /\ e.path = f.path /\ e.is_dir = f.is_dir
                /\ e.data \in {f.data, NoText}
          /\ Ample => View(r)' = View(fs_root)]_vars

=============================================================================
