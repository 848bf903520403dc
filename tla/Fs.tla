-------------------------------- MODULE Fs --------------------------------
(***************************************************************************)
(* The RAM filesystem (fs/fs.c): a tree of nodes in the kernel heap, the   *)
(* current directory, and snapshots, which are copies of the whole tree.   *)
(* A node is its heap address.  A directory's child/sibling list is the    *)
(* sequence kids[d], newest child first.  Nothing is ever freed: removed   *)
(* nodes stay in the heap.                                                 *)
(*                                                                         *)
(* A call of the shell runs with interrupts off and is one step, except    *)
(* the copy of the tree: fs_clone_tree is recursive and is modelled one    *)
(* call at a time (clone.todo is its stack); no other operation starts     *)
(* until it is over.                                                       *)
(***************************************************************************)
EXTENDS KMalloc, Integers, SequencesExt

CONSTANTS
    Name,           \* Names a path component can spell (no '/').
    RawName,        \* Names the editor passes whole: they may hold a '/'.
    SnapName,       \* Names of snapshots.
    Path,           \* The paths callers pass: from the root or from the
                    \* current directory (abs), and the components.  The
                    \* relative path without components is the empty string.
    TextLen,        \* Lengths of the texts written to files.
    NODE_SIZE,      \* sizeof(fs_node_t)
    SNAP_SIZE,      \* sizeof(snap_t)
    RootName,       \* "/", the name of the root node.
    NoSnap          \* No snapshot is being made.

ASSUME FsAssumption ==
    /\ RootName \notin Name \cup RawName
    /\ NoSnap \notin SnapName
    /\ Path \subseteq [abs : BOOLEAN, comps : Seq(Name)]
    /\ TextLen \subseteq Nat \ {0}
    /\ NODE_SIZE \in Nat \ {0}
    /\ SNAP_SIZE \in Nat \ {0}
    /\ NODE_SIZE < KHEAP_SIZE
    /\ NODE_SIZE + KHEAP_SIZE < UINT32
    /\ SNAP_SIZE + KHEAP_SIZE < UINT32
    /\ \A len \in TextLen : len + 1 + KHEAP_SIZE < UINT32

VARIABLES
    heap_offset,    \* kmalloc's bump pointer.
    nodes,          \* Addresses of the nodes allocated so far.
    name,           \* The fields of the node at each address ...
    is_dir,
    data,           \* ... data and size together: the file's contents ...
    parent,
    kids,           \* ... child and sibling: the directory's list of children.
    fs_root,
    fs_cwd,
    snaps,          \* The list at snap_head, newest first.
    clone,          \* The fs_snap_create in progress, or NoClone.
    ret,            \* The last result: Ok or Error.
    out             \* The text the last fs_read returned.

tree == <<nodes, name, is_dir, data, parent, kids>>
vars == <<heap_offset, tree, fs_root, fs_cwd, snaps, clone, ret, out>>

Ok    == 0
Error == -1

\* A file's contents: their length, and whether the bytes are encrypted.
Content == [len : TextLen, sealed : BOOLEAN]
NoText  == [len |-> 0, sealed |-> FALSE]

\* crypto_apply XORs the key in: applied twice it gives the text back.
Crypt(text) == [text EXCEPT !.sealed = ~@]
Plain(len)  == [len |-> len, sealed |-> FALSE]

Frame   == [sibs : Seq(HeapAddr), into : HeapAddr \cup {NULL}]
NoClone == [snap |-> NoSnap, root |-> NULL, todo |-> <<>>]

TypeOK ==
    /\ heap_offset \in 0 .. (KHEAP_SIZE - 1)
    /\ nodes \subseteq HeapAddr
    /\ name \in [HeapAddr -> Name \cup RawName \cup {RootName}]
    /\ is_dir \in [HeapAddr -> BOOLEAN]
    /\ data \in [HeapAddr -> Content \cup {NoText}]
    /\ parent \in [HeapAddr -> HeapAddr \cup {NULL}]
    /\ kids \in [HeapAddr -> Seq(HeapAddr)]
    /\ fs_root \in nodes
    /\ fs_cwd \in nodes
    /\ snaps \in Seq([name : SnapName, root : HeapAddr])
    /\ clone \in [snap : SnapName \cup {NoSnap}, root : HeapAddr \cup {NULL},
                  todo : Seq(Frame)]
    /\ ret \in {Ok, Error}
    /\ out \in Content \cup {NoText}

\* fs_init on an empty heap.
Init ==
    /\ heap_offset = NODE_SIZE
    /\ fs_root = PtrAt(0)
    /\ fs_cwd = fs_root
    /\ nodes = {fs_root}
    /\ name = [n \in HeapAddr |-> RootName]
    /\ is_dir = [n \in HeapAddr |-> n = fs_root]
    /\ data = [n \in HeapAddr |-> NoText]
    /\ parent = [n \in HeapAddr |-> IF n = fs_root THEN fs_root ELSE NULL]
    /\ kids = [n \in HeapAddr |-> <<>>]
    /\ snaps = <<>>
    /\ clone = NoClone
    /\ ret = Ok
    /\ out = NoText

-----------------------------------------------------------------------------
(* Lookup *)

Listed(d) == ToSet(kids[d])

\* fs_find_in_dir: the first child with this name.
Lookup(d, nm) ==
    LET hits == {i \in DOMAIN kids[d] : name[kids[d][i]] = nm}
    IN  IF hits = {} THEN NULL
        ELSE kids[d][CHOOSE i \in hits : \A j \in hits : i <= j]

Start(p) == IF p.abs THEN fs_root ELSE fs_cwd

\* The node the first n components of p lead to, if they lead anywhere.
Walk(p, n) ==
    LET at[i \in 0 .. n] ==
            IF i = 0 THEN Start(p)
            ELSE IF at[i - 1] = NULL THEN NULL
            ELSE Lookup(at[i - 1], p.comps[i])
    IN  IF at[n] \in nodes THEN at[n] ELSE NULL

\* fs_resolve(path, 0, ...).
Resolve(p) ==
    IF p.comps = <<>>
    THEN IF p.abs THEN fs_root ELSE NULL
    ELSE LET d == Walk(p, Len(p.comps) - 1)
         IN  IF d = NULL THEN NULL ELSE Lookup(d, p.comps[Len(p.comps)])

\* A mutant of Vacant: nobody looks whether the name is taken.
VacantUnchecked(p) ==
    IF p.comps = <<>> THEN {}
    ELSE LET d == Walk(p, Len(p.comps) - 1)
         IN  IF d # NULL /\ is_dir[d]
             THEN {[dir |-> d, name |-> p.comps[Len(p.comps)]]}
             ELSE {}

\* fs_resolve(path, 1, last) as its callers use it: the directory and the
\* name under which path may be created; none when path exists already (last
\* is then empty), or when what it would be created in is not a directory.
Vacant(p) ==
    IF p.comps = <<>> THEN {}
    ELSE LET d  == Walk(p, Len(p.comps) - 1)
             nm == p.comps[Len(p.comps)]
         IN  IF d # NULL /\ is_dir[d] /\ Lookup(d, nm) = NULL
             THEN {[dir |-> d, name |-> nm]}
             ELSE {}

-----------------------------------------------------------------------------
(* Building blocks *)

Quiet == clone = NoClone

\* fs_new_node, and the caller's linking of the node at the head of d's list.
NewNode(d, nm, dir, text) ==
    LET n == PtrAt(heap_offset)
    IN  /\ nodes' = nodes \cup {n}
        /\ name' = [name EXCEPT ![n] = nm]
        /\ is_dir' = [is_dir EXCEPT ![n] = dir]
        /\ data' = [data EXCEPT ![n] = text]
        /\ parent' = [parent EXCEPT ![n] = d]
        /\ kids' = [kids EXCEPT ![d] = <<n>> \o @]

Linked(n) == parent[n] # NULL /\ n \in Listed(parent[n])

\* A mutant of Detached: only a first child leaves its list.
DetachedFirst(n) ==
    IF Linked(n) /\ Head(kids[parent[n]]) = n
    THEN [kids EXCEPT ![parent[n]] = Tail(@)]
    ELSE kids

\* fs_detach_from_parent: a node that its parent lists leaves that list.
Detached(n) ==
    IF Linked(n)
    THEN [kids EXCEPT ![parent[n]] = RemoveAt(@, CHOOSE i \in DOMAIN @ : @[i] = n)]
    ELSE kids

\* Every operation that finds fault with its arguments returns -1.
Fail ==
    /\ ret' = Error
    /\ out' = NoText
    /\ UNCHANGED <<heap_offset, tree, fs_root, fs_cwd, snaps, clone>>

\* A new file at v with the contents text.  The node is linked before the
\* buffer is allocated: when only the buffer does not fit, the call fails and
\* leaves an empty file.
NewFile(v, text) ==
    LET offset == OffsetAfter(heap_offset, NODE_SIZE)
        stored == Fits(offset, text.len + 1)
    IN  /\ Fits(heap_offset, NODE_SIZE)
        /\ NewNode(v.dir, v.name, FALSE, IF stored THEN text ELSE NoText)
        /\ heap_offset' = IF stored THEN OffsetAfter(offset, text.len + 1) ELSE offset
        /\ ret' = IF stored THEN Ok ELSE Error
        /\ out' = NoText
        /\ UNCHANGED <<fs_root, fs_cwd, snaps, clone>>

\* A new node without contents.
NewEmpty(v, dir) ==
    /\ Fits(heap_offset, NODE_SIZE)
    /\ NewNode(v.dir, v.name, dir, NoText)
    /\ heap_offset' = OffsetAfter(heap_offset, NODE_SIZE)
    /\ ret' = Ok
    /\ out' = NoText
    /\ UNCHANGED <<fs_root, fs_cwd, snaps, clone>>

NoRoom(p) == Vacant(p) = {} \/ ~Fits(heap_offset, NODE_SIZE)

-----------------------------------------------------------------------------
(* Files and directories *)

fs_mkdir(p) ==
    /\ Quiet
    /\ \/ \E v \in Vacant(p) : NewEmpty(v, TRUE)
       \/ NoRoom(p) /\ Fail

\* A file that exists is not updated: last is empty and the call fails.
fs_touch(p) ==
    /\ Quiet
    /\ \/ \E v \in Vacant(p) : NewEmpty(v, FALSE)
       \/ NoRoom(p) /\ Fail

\* Nor is it overwritten.
fs_write(p, len) ==
    /\ Quiet
    /\ \/ \E v \in Vacant(p) : NewFile(v, Crypt(Plain(len)))
       \/ NoRoom(p) /\ Fail

\* The editor's save: nm is looked up in the current directory as it stands,
\* and the file found is overwritten in a new buffer.
fs_write_cwd(nm, len) ==
    LET n == Lookup(fs_cwd, nm)
    IN  /\ Quiet
        /\ \/ /\ n = NULL
              /\ NewFile([dir |-> fs_cwd, name |-> nm], Crypt(Plain(len)))
           \/ /\ n # NULL
              /\ ~is_dir[n]
              /\ Fits(heap_offset, len + 1)
              /\ data' = [data EXCEPT ![n] = Crypt(Plain(len))]
              /\ heap_offset' = OffsetAfter(heap_offset, len + 1)
              /\ ret' = Ok
              /\ out' = NoText
              /\ UNCHANGED <<nodes, name, is_dir, parent, kids, fs_root, fs_cwd,
                             snaps, clone>>
           \/ /\ IF n = NULL THEN ~Fits(heap_offset, NODE_SIZE)
                 ELSE is_dir[n] \/ ~Fits(heap_offset, len + 1)
              /\ Fail

\* A mutant of fs_read: the bytes come back as they are stored.
ReadRaw(p) ==
    LET n == Resolve(p)
    IN  /\ Quiet
        /\ n # NULL /\ ~is_dir[n] /\ data[n] # NoText
        /\ Fits(heap_offset, data[n].len + 1)
        /\ heap_offset' = OffsetAfter(heap_offset, data[n].len + 1)
        /\ out' = data[n]
        /\ ret' = Ok
        /\ UNCHANGED <<tree, fs_root, fs_cwd, snaps, clone>>

\* Decrypts into a new buffer, which is never freed.
fs_read(p) ==
    LET n == Resolve(p)
        readable == n # NULL /\ ~is_dir[n] /\ data[n] # NoText
                        /\ Fits(heap_offset, data[n].len + 1)
    IN  /\ Quiet
        /\ \/ /\ readable
              /\ heap_offset' = OffsetAfter(heap_offset, data[n].len + 1)
              /\ out' = Crypt(data[n])
              /\ ret' = Ok
              /\ UNCHANGED <<tree, fs_root, fs_cwd, snaps, clone>>
           \/ ~readable /\ Fail

fs_chdir(p) ==
    LET n == Resolve(p)
        found == n # NULL /\ is_dir[n]
    IN  /\ Quiet
        /\ \/ /\ found
              /\ fs_cwd' = n
              /\ ret' = Ok
              /\ out' = NoText
              /\ UNCHANGED <<heap_offset, tree, fs_root, snaps, clone>>
           \/ ~found /\ Fail

\* Unlinks n; its memory, and what it holds, stay.
Drop(n) ==
    /\ kids' = Detached(n)
    /\ parent' = IF Linked(n) THEN [parent EXCEPT ![n] = NULL] ELSE parent
    /\ ret' = Ok
    /\ out' = NoText
    /\ UNCHANGED <<heap_offset, nodes, name, is_dir, data, fs_root, fs_cwd,
                   snaps, clone>>

fs_unlink(p) ==
    LET n == Resolve(p)
        removable == n # NULL /\ ~is_dir[n] /\ parent[n] # NULL
    IN  /\ Quiet
        /\ \/ removable /\ Drop(n)
           \/ ~removable /\ Fail

\* The current directory may be removed.
fs_rmdir(p) ==
    LET n == Resolve(p)
        removable == n # NULL /\ is_dir[n] /\ kids[n] = <<>> /\ n # fs_root
    IN  /\ Quiet
        /\ \/ removable /\ Drop(n)
           \/ ~removable /\ Fail

\* A mutant of Relink: the node is linked in its new place only.
RelinkTwice(n, d, nm) ==
    /\ kids' = [kids EXCEPT ![d] = <<n>> \o @]
    /\ name' = [name EXCEPT ![n] = nm]
    /\ parent' = [parent EXCEPT ![n] = d]
    /\ ret' = Ok
    /\ out' = NoText
    /\ UNCHANGED <<heap_offset, nodes, is_dir, data, fs_root, fs_cwd, snaps, clone>>

\* n leaves its directory and becomes the first child of d under the name nm.
Relink(n, d, nm) ==
    /\ kids' = [Detached(n) EXCEPT ![d] = <<n>> \o @]
    /\ name' = [name EXCEPT ![n] = nm]
    /\ parent' = [parent EXCEPT ![n] = d]
    /\ ret' = Ok
    /\ out' = NoText
    /\ UNCHANGED <<heap_offset, nodes, is_dir, data, fs_root, fs_cwd, snaps, clone>>

\* Mutant of fs_rename: the source is unlinked before the destination is
\* looked at.
RenameEarly(old, new) ==
    LET n == Resolve(old)
    IN  /\ Quiet
        /\ n # NULL /\ n # fs_root
        /\ \/ \E v \in Vacant(new) : Relink(n, v.dir, v.name)
           \/ /\ Vacant(new) = {}
              /\ kids' = Detached(n)
              /\ ret' = Error
              /\ out' = NoText
              /\ UNCHANGED <<heap_offset, nodes, name, is_dir, data, parent, fs_root,
                             fs_cwd, snaps, clone>>

\* Nothing keeps a directory from being moved below itself.
fs_rename(old, new) ==
    LET n == Resolve(old)
        movable == n # NULL /\ n # fs_root
    IN  /\ Quiet
        /\ \/ /\ movable
              /\ \E v \in Vacant(new) : Relink(n, v.dir, v.name)
           \/ /\ ~movable \/ Vacant(new) = {}
              /\ Fail

\* Copies the encrypted bytes as they are.
fs_copy(src, dst) ==
    LET n == Resolve(src)
        copyable == n # NULL /\ ~is_dir[n]
    IN  /\ Quiet
        /\ \/ /\ copyable
              /\ \E v \in Vacant(dst) :
                    IF data[n] = NoText THEN NewEmpty(v, FALSE)
                    ELSE NewFile(v, data[n])
           \/ /\ ~copyable \/ NoRoom(dst)
              /\ Fail

-----------------------------------------------------------------------------
(* Snapshots *)

SnapNamed(s) == {i \in DOMAIN snaps : snaps[i].name = s}

\* fs_snap_create up to its call of fs_clone_tree(fs_root, NULL).
fs_snap_create(s) ==
    /\ Quiet
    /\ \/ /\ SnapNamed(s) = {}
          /\ clone' = [snap |-> s, root |-> NULL,
                       todo |-> <<[sibs |-> <<fs_root>>, into |-> NULL]>>]
          /\ UNCHANGED <<heap_offset, tree, fs_root, fs_cwd, snaps, ret, out>>
       \/ SnapNamed(s) # {} /\ Fail

\* A mutant of Push: the last of the nodes is taken for the end of the list.
PushShort(sibs, into, stack) ==
    IF Len(sibs) <= 1 THEN stack
    ELSE <<[sibs |-> sibs, into |-> into]>> \o stack

\* The stack with one more call on top: on the first of sibs, whose copy's
\* parent is into.  There is no call when there is no node to copy.
Push(sibs, into, stack) ==
    IF sibs = <<>> THEN stack
    ELSE <<[sibs |-> sibs, into |-> into]>> \o stack

\* One call of fs_clone_tree: copies a node and its data, then (before any
\* older call) its children and its next sibling.  Without room for the node
\* the call returns NULL, and neither its children nor its siblings are
\* copied; without room for the data the copy is an empty file.
fs_clone_tree ==
    LET frame  == Head(clone.todo)
        orig   == Head(frame.sibs)
        copy   == PtrAt(heap_offset)
        offset == OffsetAfter(heap_offset, NODE_SIZE)
        text   == IF is_dir[orig] THEN NoText ELSE data[orig]
        stored == text # NoText /\ Fits(offset, text.len + 1)
    IN  /\ clone.todo # <<>>
        /\ \/ /\ ~Fits(heap_offset, NODE_SIZE)
              /\ clone' = [clone EXCEPT !.todo = Tail(@)]
              /\ UNCHANGED <<heap_offset, tree>>
           \/ /\ Fits(heap_offset, NODE_SIZE)
              /\ nodes' = nodes \cup {copy}
              /\ name' = [name EXCEPT ![copy] = name[orig]]
              /\ is_dir' = [is_dir EXCEPT ![copy] = is_dir[orig]]
              /\ data' = [data EXCEPT ![copy] = IF stored THEN text ELSE NoText]
              /\ parent' = [parent EXCEPT ![copy] = frame.into]
              /\ kids' = IF frame.into = NULL THEN kids
                         ELSE [kids EXCEPT ![frame.into] = Append(@, copy)]
              /\ heap_offset' =
                    IF stored THEN OffsetAfter(offset, text.len + 1) ELSE offset
              /\ clone' = [clone EXCEPT
                    !.root = IF frame.into = NULL THEN copy ELSE @,
                    !.todo = Push(kids[orig], copy,
                                  Push(Tail(frame.sibs), frame.into, Tail(@)))]
        /\ UNCHANGED <<fs_root, fs_cwd, snaps, ret, out>>

\* The rest of fs_snap_create: records the copy, if there is one, whatever
\* part of the tree it holds.
SnapCreateEnd ==
    LET recorded == clone.root # NULL /\ Fits(heap_offset, SNAP_SIZE)
    IN  /\ ~Quiet
        /\ clone.todo = <<>>
        /\ clone' = NoClone
        /\ parent' = IF clone.root = NULL THEN parent
                     ELSE [parent EXCEPT ![clone.root] = clone.root]
        /\ \/ /\ recorded
              /\ snaps' = <<[name |-> clone.snap, root |-> clone.root]>> \o snaps
              /\ heap_offset' = OffsetAfter(heap_offset, SNAP_SIZE)
              /\ ret' = Ok
           \/ /\ ~recorded
              /\ ret' = Error
              /\ UNCHANGED <<snaps, heap_offset>>
        /\ out' = NoText
        /\ UNCHANGED <<nodes, name, is_dir, data, kids, fs_root, fs_cwd>>

\* A mutant of fs_snap_restore: the current directory stays in the old tree.
RestoreRoot(s) ==
    /\ Quiet
    /\ \E i \in SnapNamed(s) :
          /\ fs_root' = snaps[i].root
          /\ ret' = Ok
          /\ out' = NoText
          /\ UNCHANGED <<heap_offset, tree, fs_cwd, snaps, clone>>

\* The snapshot's own tree becomes the live one; the tree that was live is
\* kept only if it is a snapshot itself.
fs_snap_restore(s) ==
    /\ Quiet
    /\ \/ \E i \in SnapNamed(s) :
            /\ fs_root' = snaps[i].root
            /\ fs_cwd' = snaps[i].root
            /\ ret' = Ok
            /\ out' = NoText
            /\ UNCHANGED <<heap_offset, tree, snaps, clone>>
       \/ SnapNamed(s) = {} /\ Fail

-----------------------------------------------------------------------------
Next ==
    \/ \E p \in Path :
        \/ fs_mkdir(p) \/ fs_touch(p) \/ fs_read(p) \/ fs_chdir(p)
        \/ fs_unlink(p) \/ fs_rmdir(p)
        \/ \E len \in TextLen : fs_write(p, len)
        \/ \E q \in Path : fs_rename(p, q) \/ fs_copy(p, q)
    \/ \E nm \in RawName, len \in TextLen : fs_write_cwd(nm, len)
    \/ \E s \in SnapName : fs_snap_create(s) \/ fs_snap_restore(s)
    \/ fs_clone_tree
    \/ SnapCreateEnd

Spec == Init /\ [][Next]_vars

-----------------------------------------------------------------------------
(* Invariants *)

SnapRoots == {snaps[i].root : i \in DOMAIN snaps}

\* The two directions of the links agree: what a directory lists is a node
\* whose parent it is, and a node that has a parent other than itself is in
\* that parent's list.  fs_detach_from_parent relies on it: a node that its
\* parent did not list would be linked twice by fs_rename (fs.c:478-482).
WellLinked ==
    /\ \A d \in HeapAddr : \A k \in Listed(d) :
          /\ d \in nodes /\ is_dir[d]
          /\ k \in nodes /\ parent[k] = d
    /\ \A n \in nodes : parent[n] \notin {NULL, n} => n \in Listed(parent[n])

\* No directory lists a name twice, so that a path leads to one node: the
\* create, copy and rename paths each make their own check (fs.c:190, 233,
\* 261, 473, 501), and the snapshot's copy makes none.
UniqueNames ==
    \A d \in HeapAddr : \A i, j \in DOMAIN kids[d] :
        name[kids[d][i]] = name[kids[d][j]] => i = j

\* The live root and the snapshots' roots are in nobody's list: with
\* WellLinked, their trees have no cycle and share no node.  fs_rename may
\* close a cycle (mv a a/b), but only off these trees (fs.c:476).
RootsUnlisted ==
    \A d \in HeapAddr : Listed(d) \cap (SnapRoots \cup {fs_root}) = {}

\* Two nodes never share a byte, and all lie in the used part of the heap.
NodesApart ==
    \A m \in nodes :
        /\ m + NODE_SIZE <= PtrAt(heap_offset)
        /\ \A n \in nodes : m < n => m + NODE_SIZE <= n

\* Files hold only encrypted bytes, whatever operation put them there, and
\* fs_read returns only decrypted ones: cp and snapshots must not apply the
\* key a second time (fs.c:90, 246, 277, 296, 513).
EncryptedAtRest ==
    /\ \A n \in HeapAddr : data[n] # NoText => data[n].sealed
    /\ ~out.sealed

\* The current directory is a directory, and so are all the roots.
DirsAreDirs ==
    \A n \in SnapRoots \cup {fs_root, fs_cwd} : n \in nodes /\ is_dir[n]

=============================================================================
