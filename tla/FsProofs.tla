------------------------------ MODULE FsProofs ------------------------------
(***************************************************************************)
(* The filesystem and the sessions at the shell, proved for every heap     *)
(* size, set of names, paths, texts and snapshots, and every size of the   *)
(* editor's buffer.  First come the structural invariants of Fs; then the  *)
(* commands: each is an operation of the filesystem, or none, so that the  *)
(* invariants carry over; cd .. alone makes a path that no caller passed.  *)
(***************************************************************************)
EXTENDS Shell, Lemmas

\* A call of fs_clone_tree waiting on the stack: the nodes left to copy have
\* names of their own, different from those copied already.
FrameOK(f) ==
    /\ ToSet(f.sibs) \subseteq nodes
    /\ OneToOne(f.sibs, name)
    /\ f.into = NULL => f.sibs = <<fs_root>>
    /\ f.into # NULL =>
          /\ f.into \in nodes /\ is_dir[f.into]
          /\ \A x \in ToSet(f.sibs), y \in Listed(f.into) : name[x] # name[y]

\* The directory a call fills.
Into == [f \in Frame |-> f.into]

\* The copy in progress: its calls are well formed, each fills a directory of
\* its own, and the copy of the root is in nobody's list.
CloneOK ==
    /\ clone.snap = NoSnap => clone = NoClone
    /\ clone.root # NULL =>
          /\ clone.root \in nodes /\ is_dir[clone.root]
          /\ \A d \in HeapAddr : clone.root \notin Listed(d)
    /\ \A f \in ToSet(clone.todo) : FrameOK(f) /\ f.sibs # <<>>
    /\ OneToOne(clone.todo, Into)

Links == WellLinked /\ UniqueNames /\ RootsUnlisted /\ DirsAreDirs

IInv == TypeOK /\ NodesApart /\ Links /\ CloneOK

-----------------------------------------------------------------------------
LEMMA Constants ==
    /\ HeapAddr \subseteq Nat
    /\ NULL \notin HeapAddr
    /\ \A n \in HeapAddr : n >= KHEAP_START /\ n < KHEAP_START + KHEAP_SIZE
    /\ KHEAP_START \in Nat /\ KHEAP_SIZE \in Nat /\ UINT32 \in Nat
    /\ NODE_SIZE \in Nat /\ NODE_SIZE > 0 /\ SNAP_SIZE \in Nat /\ SNAP_SIZE > 0
  BY HeapAssumption, FsAssumption DEF HeapAddr, NULL

\* A sum below the modulus is not wrapped.
LEMMA ModBelow ==
    ASSUME NEW a \in Nat, NEW m \in Nat, a < m
    PROVE  a % m = a
  OBVIOUS

\* kmalloc's test and sum are exact for a request that cannot wrap.
LEMMA NoWrap ==
    ASSUME NEW offset \in 0 .. (KHEAP_SIZE - 1), NEW size \in Nat,
           size + KHEAP_SIZE < UINT32
    PROVE  /\ Fits(offset, size) <=> offset + size < KHEAP_SIZE
           /\ OffsetAfter(offset, size) = offset + size
  <1>1. offset + size \in Nat /\ offset + size < UINT32
    BY Constants
  <1>2. (offset + size) % UINT32 = offset + size
    BY <1>1, ModBelow, Constants
  <1> QED
    BY <1>2 DEF Fits, OffsetAfter

\* Where the next node goes when it fits: an address of the heap that holds
\* no node, that nobody lists and that lists nothing.
LEMMA FreshNode ==
    ASSUME IInv, Fits(heap_offset, NODE_SIZE)
    PROVE  LET n == PtrAt(heap_offset)
           IN  /\ n \in HeapAddr /\ n \notin nodes /\ n # NULL
               /\ kids[n] = <<>>
               /\ \A d \in HeapAddr : n \notin Listed(d)
               /\ heap_offset + NODE_SIZE \in 0 .. (KHEAP_SIZE - 1)
               /\ OffsetAfter(heap_offset, NODE_SIZE) = heap_offset + NODE_SIZE
  <1> DEFINE n == PtrAt(heap_offset)
  <1>1. heap_offset \in 0 .. (KHEAP_SIZE - 1) /\ heap_offset \in Nat
    BY Constants DEF IInv, TypeOK
  <1>2. /\ heap_offset + NODE_SIZE < KHEAP_SIZE
        /\ OffsetAfter(heap_offset, NODE_SIZE) = heap_offset + NODE_SIZE
    BY <1>1, NoWrap, FsAssumption, Constants
  <1>3. n \in HeapAddr /\ n # NULL
    BY <1>1, Constants, HeapAssumption DEF PtrAt, HeapAddr
  <1>4. n \notin nodes
    <2>1. \A m \in nodes : m + NODE_SIZE <= n /\ m \in Nat
      BY Constants DEF IInv, NodesApart, TypeOK
    <2> QED
      BY <2>1, <1>1, Constants
  <1>5. \A d \in HeapAddr : n \notin Listed(d)
    BY <1>4 DEF IInv, Links, WellLinked
  <1>6. kids[n] = <<>>
    <2>1. kids[n] \in Seq(HeapAddr)
      BY <1>3 DEF IInv, TypeOK
    <2>2. Listed(n) = {}
      BY <1>3, <1>4 DEF IInv, Links, WellLinked
    <2>3. ASSUME kids[n] # <<>> PROVE FALSE
      <3>1. 1 \in DOMAIN kids[n]
        BY <2>1, <2>3, EmptySeq, LenProperties
      <3> QED
        BY <3>1, <2>2 DEF Listed, ToSet
    <2> QED
      BY <2>3
  <1> QED
    BY <1>1, <1>2, <1>3, <1>4, <1>5, <1>6, Constants

-----------------------------------------------------------------------------
(* Adding a node *)

\* A fresh node n is added; d, if it is a node, lists it next to what it
\* listed before; no other list changes.
LEMMA LinksAdd ==
    ASSUME TypeOK, Links,
           NEW n \in HeapAddr, n \notin nodes, kids[n] = <<>>,
           NEW d \in HeapAddr \cup {NULL}, d # NULL => d \in nodes /\ is_dir[d],
           NEW nm \in Name \cup RawName \cup {RootName}, NEW dir \in BOOLEAN,
           NEW list \in Seq(HeapAddr),
           d # NULL => /\ ToSet(list) = Listed(d) \cup {n}
                       /\ OneToOne(list, name'),
           nodes' = nodes \cup {n},
           name' = [name EXCEPT ![n] = nm],
           is_dir' = [is_dir EXCEPT ![n] = dir],
           parent' = [parent EXCEPT ![n] = d],
           kids' = IF d = NULL THEN kids ELSE [kids EXCEPT ![d] = list],
           UNCHANGED <<fs_root, fs_cwd, snaps>>
    PROVE  Links'
  <1> USE DEF Links
  <1>1. \A x \in HeapAddr : kids'[x] = IF x = d THEN list ELSE kids[x]
    BY Constants DEF TypeOK
  <1>2. /\ d # NULL => ToSet(kids'[d]) = Listed(d) \cup {n}
        /\ \A x \in HeapAddr : x # d => ToSet(kids'[x]) = Listed(x)
    BY <1>1, Constants DEF Listed
  <1>a. \A x \in HeapAddr : ToSet(kids'[x]) \subseteq Listed(x) \cup {n}
    BY <1>2, Constants
  <1>b. \A x \in HeapAddr : Listed(x) \subseteq ToSet(kids'[x])
    BY <1>2, Constants
  <1>3. /\ \A x \in HeapAddr \ {n} : parent'[x] = parent[x] /\ is_dir'[x] = is_dir[x]
                                        /\ name'[x] = name[x]
        /\ parent'[n] = d
    BY DEF TypeOK
  <1>4. \A x \in HeapAddr : n \notin Listed(x)
    BY DEF WellLinked
  <1>5. WellLinked'
    <2>1. ASSUME NEW x \in HeapAddr, NEW k \in ToSet(kids'[x])
          PROVE  x \in nodes' /\ is_dir'[x] /\ k \in nodes' /\ parent'[k] = x
      <3>1. CASE k = n
        <4>1. x = d /\ x # n
          BY <1>2, <1>4, <3>1, Constants
        <4> QED
          BY <3>1, <4>1, <1>3, Constants
      <3>2. CASE k # n
        <4>1. k \in Listed(x)
          BY <1>a, <2>1, <3>2
        <4>2. x \in nodes /\ is_dir[x] /\ k \in nodes /\ parent[k] = x
          BY <4>1 DEF WellLinked
        <4> QED
          BY <3>2, <4>2, <1>3 DEF TypeOK
      <3> QED
        BY <3>1, <3>2
    <2>2. ASSUME NEW m \in nodes', parent'[m] \notin {NULL, m}
          PROVE  m \in ToSet(kids'[parent'[m]])
      <3>1. CASE m = n
        <4>1. d \in HeapAddr /\ parent'[m] = d
          BY <3>1, <2>2, <1>3
        <4> QED
          BY <3>1, <4>1, <1>2, Constants
      <3>2. CASE m # n
        <4>1. m \in nodes /\ parent'[m] = parent[m] /\ parent[m] \in HeapAddr
          BY <3>2, <2>2, <1>3 DEF TypeOK
        <4>2. m \in Listed(parent[m])
          BY <4>1, <2>2 DEF WellLinked
        <4> QED
          BY <4>1, <4>2, <1>b
      <3> QED
        BY <3>1, <3>2
    <2> QED
      BY <2>1, <2>2 DEF WellLinked, Listed
  <1>6. UniqueNames'
    <2>1. ASSUME NEW x \in HeapAddr PROVE OneToOne(kids'[x], name')
      <3>1. CASE x = d
        BY <3>1, <1>1, Constants
      <3>2. CASE x # d
        <4>1. OneToOne(kids[x], name)
          BY DEF UniqueNames, OneToOne
        <4>2. \A y \in ToSet(kids[x]) : name'[y] = name[y]
          BY <1>3, <1>4 DEF Listed, WellLinked, TypeOK
        <4> QED
          <5>1. kids'[x] = kids[x]
            BY <3>2, <1>1
          <5>2. OneToOne(kids[x], name')
            BY <4>1, <4>2 DEF OneToOne, ToSet
          <5> QED
            BY <5>1, <5>2
      <3> QED
        BY <3>1, <3>2
    <2> QED
      BY <2>1 DEF UniqueNames, OneToOne
  <1>7. DirsAreDirs'
    BY <1>3, SMTT(20) DEF DirsAreDirs, SnapRoots, TypeOK
  <1>8. RootsUnlisted'
    <2>1. n \notin SnapRoots \cup {fs_root}
      BY DEF DirsAreDirs
    <2>2. \A x \in HeapAddr : ToSet(kids'[x]) \cap (SnapRoots \cup {fs_root}) = {}
      BY <2>1, <1>a DEF RootsUnlisted
    <2> QED
      BY <2>2 DEF RootsUnlisted, SnapRoots, Listed
  <1> QED
    BY <1>5, <1>6, <1>7, <1>8

\* The nodes stay apart when one is added at the bump pointer h, which then
\* moves to g or beyond ...
LEMMA ApartAdd ==
    ASSUME NEW N, N \subseteq HeapAddr,
           NEW h \in Nat, NEW g \in Nat, h + NODE_SIZE <= g,
           \A m \in N : /\ m + NODE_SIZE <= PtrAt(h)
                        /\ \A n \in N : m < n => m + NODE_SIZE <= n
    PROVE  \A m \in N \cup {PtrAt(h)} :
              /\ m + NODE_SIZE <= PtrAt(g)
              /\ \A n \in N \cup {PtrAt(h)} : m < n => m + NODE_SIZE <= n
  <1> DEFINE new == PtrAt(h)
  <1>1. new \in Nat /\ PtrAt(g) \in Nat /\ new + NODE_SIZE <= PtrAt(g)
    BY Constants DEF PtrAt
  <1>2. \A m \in N : m \in Nat /\ m + NODE_SIZE <= new /\ ~(new < m)
    BY <1>1, Constants
  <1>3. \A m \in N : m + NODE_SIZE <= PtrAt(g)
    BY <1>1, <1>2, Constants
  <1> HIDE DEF new
  <1>4. ~(new < new)
    BY <1>1
  <1> QED
    BY <1>1, <1>2, <1>3, <1>4 DEF new

\* ... and when only the bump pointer moves.
LEMMA ApartSame ==
    ASSUME NEW N, N \subseteq HeapAddr,
           NEW h \in Nat, NEW g \in Nat, h <= g,
           \A m \in N : m + NODE_SIZE <= PtrAt(h)
    PROVE  \A m \in N : m + NODE_SIZE <= PtrAt(g)
  <1>1. PtrAt(h) \in Nat /\ PtrAt(g) \in Nat /\ PtrAt(h) <= PtrAt(g)
    BY Constants DEF PtrAt
  <1>2. \A m \in N : m \in Nat
    BY Constants
  <1> QED
    BY <1>1, <1>2, Constants

-----------------------------------------------------------------------------
(* Lookup *)

\* A lookup finds the child with the name, and fails only if there is none.
LEMMA LookupFacts ==
    ASSUME TypeOK, Links, NEW d \in HeapAddr, NEW nm
    PROVE  /\ Lookup(d, nm) = NULL => \A k \in Listed(d) : name[k] # nm
           /\ Lookup(d, nm) # NULL => /\ Lookup(d, nm) \in Listed(d)
                                      /\ name[Lookup(d, nm)] = nm
  <1> DEFINE hits == {i \in DOMAIN kids[d] : name[kids[d][i]] = nm}
             first == CHOOSE i \in hits : \A j \in hits : i <= j
  <1>1. kids[d] \in Seq(HeapAddr) /\ DOMAIN kids[d] = 1 .. Len(kids[d])
        /\ Len(kids[d]) \in Nat
    BY LenProperties DEF TypeOK
  <1>2. \A i, j \in hits : i = j
    BY DEF Links, UniqueNames
  <1>3. CASE hits = {}
    <2>1. Lookup(d, nm) = NULL
      BY <1>3 DEF Lookup
    <2> QED
      BY <2>1, <1>3 DEF Listed, ToSet
  <1>4. CASE hits # {}
    <2>1. PICK i \in hits : TRUE
      BY <1>4
    <2>2. i \in Nat /\ i <= i
      BY <1>1
    <2>3. \A j \in hits : i <= j
      BY <1>2, <2>2
    <2>4. first \in hits
      BY <2>1, <2>3
    <2>5. Lookup(d, nm) = kids[d][first]
      BY <1>4 DEF Lookup
    <2> HIDE DEF first
    <2>6. kids[d][first] \in HeapAddr /\ first \in DOMAIN kids[d] /\ name[kids[d][first]] = nm
      BY <2>4, <1>1, ElementOfSeq
    <2> QED
      BY <2>5, <2>6, Constants DEF Listed, ToSet
  <1> QED
    BY <1>3, <1>4

\* A path resolves to the root, to a listed node, or to nothing.
LEMMA ResolveFacts ==
    ASSUME TypeOK, Links, NEW p, Resolve(p) # NULL
    PROVE  /\ Resolve(p) \in nodes
           /\ Resolve(p) = fs_root \/ \E d \in HeapAddr : Resolve(p) \in Listed(d)
  <1>1. CASE p.comps = <<>>
    BY <1>1 DEF Resolve, TypeOK
  <1>2. CASE p.comps # <<>>
    <2> DEFINE d == Walk(p, Len(p.comps) - 1)
               last == p.comps[Len(p.comps)]
    <2>1. Resolve(p) = IF d = NULL THEN NULL ELSE Lookup(d, last)
      BY <1>2 DEF Resolve
    <2>2. d \in nodes \cup {NULL}
      BY DEF Walk
    <2> HIDE DEF d, last
    <2>3. d \in HeapAddr /\ Resolve(p) = Lookup(d, last)
      BY <2>1, <2>2 DEF TypeOK
    <2>4. Resolve(p) \in Listed(d)
      BY <2>3, LookupFacts
    <2> QED
      BY <2>3, <2>4 DEF Links, WellLinked
  <1> QED
    BY <1>1, <1>2

\* The paths that can be spelled: those callers pass, and any others.
AnyPath == [abs : BOOLEAN, comps : Seq(Name)]

\* Where a path may be created: in a directory that does not list its name.
LEMMA VacantFacts ==
    ASSUME TypeOK, Links, NEW p \in AnyPath, NEW v \in Vacant(p)
    PROVE  /\ v.dir \in nodes /\ is_dir[v.dir]
           /\ v.name \in Name
           /\ \A k \in Listed(v.dir) : name[k] # v.name
  <1> DEFINE d == Walk(p, Len(p.comps) - 1)
             last == p.comps[Len(p.comps)]
  <1>1. p.comps # <<>>
    BY DEF Vacant
  <1>2. d # NULL /\ is_dir[d] /\ Lookup(d, last) = NULL
        /\ v = [dir |-> d, name |-> last]
    BY <1>1 DEF Vacant
  <1>3. d \in nodes \cup {NULL}
    BY DEF Walk
  <1>4. last \in Name
    <2>1. p.comps \in Seq(Name)
      BY DEF AnyPath
    <2>2. Len(p.comps) \in 1 .. Len(p.comps)
      BY <1>1, <2>1, EmptySeq, LenProperties
    <2> QED
      BY <2>1, <2>2, ElementOfSeq
  <1> HIDE DEF d, last
  <1>5. \A k \in Listed(d) : name[k] # last
    BY <1>2, <1>3, LookupFacts DEF TypeOK
  <1> QED
    BY <1>2, <1>3, <1>4, <1>5

-----------------------------------------------------------------------------
(* What each kind of step preserves *)

Results == ret \in {Ok, Error} /\ out \in Content \cup {NoText}

\* A new node, first in the list of a directory that has no such name.
LEMMA NewNodeInv ==
    ASSUME IInv, Fits(heap_offset, NODE_SIZE), Quiet,
           NEW d \in nodes, is_dir[d], NEW nm \in Name \cup RawName,
           \A k \in Listed(d) : name[k] # nm,
           NEW dir \in BOOLEAN, NEW text \in Content \cup {NoText},
           NewNode(d, nm, dir, text),
           heap_offset' \in 0 .. (KHEAP_SIZE - 1),
           heap_offset + NODE_SIZE <= heap_offset',
           UNCHANGED <<fs_root, fs_cwd, snaps, clone>>, Results'
    PROVE  IInv'
  <1> DEFINE n == PtrAt(heap_offset)
             list == <<n>> \o kids[d]
  <1>1. TypeOK /\ Links /\ NodesApart
    BY DEF IInv
  <1>2. /\ n \in HeapAddr /\ n \notin nodes /\ n # NULL /\ kids[n] = <<>>
        /\ \A x \in HeapAddr : n \notin Listed(x)
    BY FreshNode
  <1>3. d \in HeapAddr /\ kids[d] \in Seq(HeapAddr)
    BY <1>1 DEF TypeOK
  <1>4. /\ nodes' = nodes \cup {n}
        /\ name' = [name EXCEPT ![n] = nm]
        /\ is_dir' = [is_dir EXCEPT ![n] = dir]
        /\ data' = [data EXCEPT ![n] = text]
        /\ parent' = [parent EXCEPT ![n] = d]
        /\ kids' = [kids EXCEPT ![d] = list]
    BY DEF NewNode
  <1> HIDE DEF n
  <1>5. list \in Seq(HeapAddr) /\ ToSet(list) = Listed(d) \cup {n}
    BY <1>2, <1>3, HeadInsertion DEF Listed
  <1>6. OneToOne(list, name')
    <2>1. \A x \in Listed(d) : name'[x] = name[x]
      BY <1>1, <1>2, <1>3, <1>4 DEF Links, WellLinked, TypeOK
    <2>2. name'[n] = nm
      BY <1>1, <1>2, <1>4 DEF TypeOK
    <2>3. OneToOne(kids[d], name)
      BY <1>1, <1>3 DEF Links, UniqueNames, OneToOne
    <2>4. OneToOne(kids[d], name')
      BY <2>1, <2>3 DEF OneToOne, ToSet, Listed
    <2>5. \A x \in ToSet(kids[d]) : name'[x] # name'[n]
      BY <2>1, <2>2 DEF Listed
    <2> QED
      BY <2>4, <2>5, <1>2, <1>3, HeadOneToOne
  <1>7. Links'
    <2>1. kids' = IF d = NULL THEN kids ELSE [kids EXCEPT ![d] = list]
      BY <1>3, <1>4, Constants
    <2>2. UNCHANGED <<fs_root, fs_cwd, snaps>>
      OBVIOUS
    <2> HIDE DEF list
    <2> QED
      BY <1>1, <1>2, <1>3, <1>4, <1>5, <1>6, <2>1, <2>2, LinksAdd
  <1>8. NodesApart'
    <2>1. nodes \subseteq HeapAddr /\ heap_offset \in Nat
      BY <1>1, Constants DEF TypeOK
    <2>2. heap_offset' \in Nat
      BY Constants
    <2> QED
      BY <1>1, <1>4, <2>1, <2>2, ApartAdd DEF NodesApart, n
  <1>9. TypeOK'
    <2>1. nodes' \subseteq HeapAddr /\ fs_root' \in nodes' /\ fs_cwd' \in nodes'
      BY <1>1, <1>2, <1>4 DEF TypeOK
    <2>2. name' \in [HeapAddr -> Name \cup RawName \cup {RootName}]
      BY <1>1, <1>4 DEF TypeOK
    <2>3. is_dir' \in [HeapAddr -> BOOLEAN]
      BY <1>1, <1>4 DEF TypeOK
    <2>4. data' \in [HeapAddr -> Content \cup {NoText}]
      BY <1>1, <1>4 DEF TypeOK
    <2>5. parent' \in [HeapAddr -> HeapAddr \cup {NULL}]
      BY <1>1, <1>3, <1>4 DEF TypeOK
    <2>6. kids' \in [HeapAddr -> Seq(HeapAddr)]
      BY <1>1, <1>4, <1>5 DEF TypeOK
    <2>7. /\ snaps' \in Seq([name : SnapName, root : HeapAddr])
          /\ clone' \in [snap : SnapName \cup {NoSnap}, root : HeapAddr \cup {NULL},
                         todo : Seq(Frame)]
      BY <1>1 DEF TypeOK
    <2> QED
      BY <2>1, <2>2, <2>3, <2>4, <2>5, <2>6, <2>7 DEF TypeOK, Results
  <1>10. CloneOK'
    BY DEF Quiet, CloneOK, NoClone, ToSet, OneToOne
  <1> QED
    BY <1>7, <1>8, <1>9, <1>10 DEF IInv

\* The tree stays as it is: only contents, the root, the current directory
\* and the heap change.  The new root is the old one or a snapshot's.
LEMMA SameTreeInv ==
    ASSUME IInv, Quiet,
           UNCHANGED <<nodes, name, is_dir, parent, kids, snaps, clone>>,
           fs_root' \in SnapRoots \cup {fs_root},
           fs_cwd' \in nodes, is_dir[fs_cwd'],
           data' \in [HeapAddr -> Content \cup {NoText}],
           heap_offset' \in 0 .. (KHEAP_SIZE - 1), heap_offset <= heap_offset',
           Results'
    PROVE  IInv'
  <1>1. TypeOK /\ Links /\ NodesApart
    BY DEF IInv
  <1>2. NodesApart'
    <2>1. nodes \subseteq HeapAddr /\ heap_offset \in Nat /\ heap_offset' \in Nat
      BY <1>1, Constants DEF TypeOK
    <2> QED
      BY <1>1, <2>1, ApartSame DEF NodesApart
  <1>3. DirsAreDirs' /\ fs_root' \in nodes'
    BY <1>1 DEF Links, DirsAreDirs, SnapRoots
  <1>4. WellLinked' /\ UniqueNames' /\ RootsUnlisted'
    BY <1>1 DEF Links, WellLinked, UniqueNames, RootsUnlisted, SnapRoots, Listed
  <1>5. TypeOK'
    BY <1>1, <1>3 DEF TypeOK, Results
  <1>6. CloneOK'
    BY DEF Quiet, CloneOK, NoClone, ToSet, OneToOne
  <1> QED
    BY <1>2, <1>3, <1>4, <1>5, <1>6 DEF IInv, Links

\* After fs_detach_from_parent nobody lists n, and nothing else has changed.
LEMMA DetachedFacts ==
    ASSUME IInv, NEW n \in nodes
    PROVE  /\ Detached(n) \in [HeapAddr -> Seq(HeapAddr)]
           /\ \A x \in HeapAddr : /\ ToSet(Detached(n)[x]) = Listed(x) \ {n}
                                  /\ OneToOne(Detached(n)[x], name)
  <1>1. TypeOK /\ Links
    BY DEF IInv
  <1>2. \A x \in HeapAddr : kids[x] \in Seq(HeapAddr) /\ OneToOne(kids[x], name)
    BY <1>1 DEF TypeOK, Links, UniqueNames, OneToOne
  <1>3. \A x \in HeapAddr : n \in Listed(x) => x = parent[n]
    BY <1>1 DEF Links, WellLinked
  <1>4. CASE ~Linked(n)
    <2>1. \A x \in HeapAddr : n \notin Listed(x)
      BY <1>3, <1>4, Constants DEF Linked
    <2>2. Detached(n) = kids
      BY <1>4 DEF Detached
    <2> QED
      BY <1>1, <1>2, <2>1, <2>2 DEF TypeOK, Listed
  <1>5. CASE Linked(n)
    <2> DEFINE d == parent[n]
               rest == RemoveAt(kids[d], CHOOSE i \in DOMAIN kids[d] : kids[d][i] = n)
    <2>1. d \in HeapAddr /\ n \in ToSet(kids[d])
      <3>1. n \in HeapAddr
        BY <1>1 DEF TypeOK
      <3> QED
        BY <1>1, <1>5, <3>1 DEF Linked, Listed, TypeOK
    <2>2. Detached(n) = [kids EXCEPT ![d] = rest]
      BY <1>5 DEF Detached
    <2>3. /\ rest \in Seq(HeapAddr)
          /\ ToSet(rest) = ToSet(kids[d]) \ {n}
          /\ OneToOne(rest, name)
      BY <1>2, <2>1, RemovalOneToOne
    <2> HIDE DEF rest
    <2>4. Detached(n) \in [HeapAddr -> Seq(HeapAddr)]
      BY <1>1, <2>2, <2>3 DEF TypeOK
    <2>5. \A x \in HeapAddr : Detached(n)[x] = IF x = d THEN rest ELSE kids[x]
      BY <1>1, <2>2 DEF TypeOK
    <2>6. \A x \in HeapAddr : ToSet(Detached(n)[x]) = Listed(x) \ {n}
      BY <1>3, <2>3, <2>5 DEF Listed
    <2>7. \A x \in HeapAddr : OneToOne(Detached(n)[x], name)
      BY <1>2, <2>3, <2>5
    <2> QED
      BY <2>4, <2>6, <2>7
  <1> QED
    BY <1>4, <1>5

\* A node that is not a root is unlinked.
LEMMA DropInv ==
    ASSUME IInv, Quiet, NEW n \in nodes, Drop(n)
    PROVE  IInv'
  <1> DEFINE rest == Detached(n)
  <1>1. TypeOK /\ Links /\ NodesApart
    BY DEF IInv
  <1>2. /\ rest \in [HeapAddr -> Seq(HeapAddr)]
        /\ \A x \in HeapAddr : ToSet(rest[x]) = Listed(x) \ {n} /\ OneToOne(rest[x], name)
    BY DetachedFacts
  <1> HIDE DEF rest
  <1>3. /\ kids' = rest
        /\ parent' = IF Linked(n) THEN [parent EXCEPT ![n] = NULL] ELSE parent
        /\ Results'
        /\ UNCHANGED <<heap_offset, nodes, name, is_dir, data, fs_root, fs_cwd,
                       snaps, clone>>
    BY DEF Drop, rest, Results
  <1>4. n \in HeapAddr
    BY <1>1 DEF TypeOK
  <1>5. /\ parent' \in [HeapAddr -> HeapAddr \cup {NULL}]
        /\ \A x \in HeapAddr : x # n => parent'[x] = parent[x]
        /\ parent'[n] \in {NULL, parent[n]}
        /\ Linked(n) => parent'[n] = NULL
    BY <1>1, <1>3, <1>4 DEF TypeOK
  <1>6. WellLinked'
    <2>1. ASSUME NEW x \in HeapAddr, NEW k \in ToSet(rest[x])
          PROVE  x \in nodes' /\ is_dir'[x] /\ k \in nodes' /\ parent'[k] = x
      <3>1. k \in Listed(x) /\ k # n
        BY <1>2, <2>1
      <3>2. x \in nodes /\ is_dir[x] /\ k \in nodes /\ parent[k] = x
        BY <1>1, <3>1 DEF Links, WellLinked
      <3> QED
        BY <1>1, <1>3, <1>5, <3>1, <3>2 DEF TypeOK
    <2>2. ASSUME NEW m \in nodes, parent'[m] \notin {NULL, m}
          PROVE  m \in ToSet(rest[parent'[m]])
      <3>1. m # n
        <4>1. parent[n] \notin {NULL, n} => Linked(n)
          BY <1>1 DEF Links, WellLinked, Linked
        <4> QED
          BY <1>5, <2>2, <4>1
      <3>2. parent'[m] = parent[m] /\ m \in Listed(parent[m]) /\ parent[m] \in HeapAddr
        BY <1>1, <1>5, <2>2, <3>1 DEF Links, WellLinked, TypeOK
      <3> QED
        BY <1>2, <3>1, <3>2
    <2> QED
      BY <1>3, <2>1, <2>2 DEF WellLinked, Listed
  <1>7. UniqueNames'
    BY <1>2, <1>3 DEF UniqueNames, OneToOne
  <1>8. DirsAreDirs'
    BY <1>1, <1>3 DEF Links, DirsAreDirs, SnapRoots
  <1>9. RootsUnlisted'
    <2>1. \A x \in HeapAddr : ToSet(rest[x]) \cap (SnapRoots \cup {fs_root}) = {}
      BY <1>1, <1>2 DEF Links, RootsUnlisted
    <2> QED
      BY <1>3, <2>1 DEF RootsUnlisted, SnapRoots, Listed
  <1>10. NodesApart' /\ CloneOK'
    BY <1>1, <1>3 DEF NodesApart, CloneOK, Quiet, NoClone, ToSet, OneToOne
  <1>11. TypeOK'
    BY <1>1, <1>2, <1>3, <1>5 DEF TypeOK, Results
  <1> QED
    BY <1>6, <1>7, <1>8, <1>9, <1>10, <1>11 DEF IInv, Links

\* A node that is listed somewhere, and is therefore not a root, moves to a
\* directory that does not list its new name.
LEMMA RelinkInv ==
    ASSUME IInv, Quiet,
           NEW n \in nodes, n \notin SnapRoots \cup {fs_root},
           NEW d \in nodes, is_dir[d], NEW nm \in Name,
           \A k \in Listed(d) : name[k] # nm,
           Relink(n, d, nm)
    PROVE  IInv'
  <1> DEFINE rest == Detached(n)
             list == <<n>> \o rest[d]
  <1>1. TypeOK /\ Links /\ NodesApart
    BY DEF IInv
  <1>2. /\ rest \in [HeapAddr -> Seq(HeapAddr)]
        /\ \A x \in HeapAddr : ToSet(rest[x]) = Listed(x) \ {n} /\ OneToOne(rest[x], name)
    BY DetachedFacts
  <1> HIDE DEF rest
  <1>3. /\ kids' = [rest EXCEPT ![d] = list]
        /\ name' = [name EXCEPT ![n] = nm]
        /\ parent' = [parent EXCEPT ![n] = d]
        /\ Results'
        /\ UNCHANGED <<heap_offset, nodes, is_dir, data, fs_root, fs_cwd, snaps, clone>>
    BY DEF Relink, rest, Results
  <1>4. n \in HeapAddr /\ d \in HeapAddr /\ rest[d] \in Seq(HeapAddr)
    BY <1>1, <1>2 DEF TypeOK
  <1>5. list \in Seq(HeapAddr) /\ ToSet(list) = ToSet(rest[d]) \cup {n}
    BY <1>4, HeadInsertion
  <1>6. /\ \A x \in HeapAddr : x # n => parent'[x] = parent[x] /\ name'[x] = name[x]
        /\ parent'[n] = d /\ name'[n] = nm
    BY <1>1, <1>3, <1>4 DEF TypeOK
  <1>7. ASSUME NEW x \in HeapAddr, NEW k \in ToSet(rest[x])
        PROVE  k \in HeapAddr /\ k # n /\ name'[k] = name[k]
    <2>1. k \in Listed(x) /\ k # n
      BY <1>2, <1>7
    <2>2. k \in HeapAddr
      BY <1>1, <2>1 DEF Links, WellLinked, TypeOK
    <2> QED
      BY <1>6, <2>1, <2>2
  <1>8. OneToOne(list, name')
    <2>1. OneToOne(rest[d], name')
      <3>1. OneToOne(rest[d], name) /\ \A y \in ToSet(rest[d]) : name'[y] = name[y]
        BY <1>2, <1>4, <1>7
      <3> QED
        BY <3>1 DEF OneToOne, ToSet
    <2>2. \A x \in ToSet(rest[d]) : name'[x] # name'[n]
      BY <1>2, <1>4, <1>6, <1>7
    <2> QED
      BY <1>4, <2>1, <2>2, HeadOneToOne
  <1> HIDE DEF list
  <1>9. /\ kids'[d] = list
        /\ \A x \in HeapAddr : x # d => kids'[x] = rest[x]
    BY <1>2, <1>3, <1>4
  <1>10. WellLinked'
    <2>1. ASSUME NEW x \in HeapAddr, NEW k \in ToSet(kids'[x])
          PROVE  x \in nodes' /\ is_dir'[x] /\ k \in nodes' /\ parent'[k] = x
      <3>1. CASE k = n
        <4>1. x = d
          BY <1>2, <1>9, <2>1, <3>1
        <4> QED
          BY <1>3, <1>6, <3>1, <4>1
      <3>2. CASE k # n
        <4>1. k \in Listed(x)
          BY <1>2, <1>5, <1>9, <2>1, <3>2
        <4>2. x \in nodes /\ is_dir[x] /\ k \in nodes /\ parent[k] = x
          BY <1>1, <4>1 DEF Links, WellLinked
        <4> QED
          BY <1>1, <1>3, <1>6, <3>2, <4>2 DEF TypeOK
      <3> QED
        BY <3>1, <3>2
    <2>2. ASSUME NEW m \in nodes, parent'[m] \notin {NULL, m}
          PROVE  m \in ToSet(kids'[parent'[m]])
      <3>1. CASE m = n
        BY <1>5, <1>6, <1>9, <3>1
      <3>2. CASE m # n
        <4>1. parent'[m] = parent[m] /\ m \in Listed(parent[m]) /\ parent[m] \in HeapAddr
          BY <1>1, <1>6, <2>2, <3>2 DEF Links, WellLinked, TypeOK
        <4>2. m \in ToSet(rest[parent[m]])
          BY <1>2, <3>2, <4>1
        <4> QED
          BY <1>5, <1>9, <4>1, <4>2
      <3> QED
        BY <3>1, <3>2
    <2> QED
      BY <1>3, <2>1, <2>2 DEF WellLinked, Listed
  <1>11. UniqueNames'
    <2>1. ASSUME NEW x \in HeapAddr PROVE OneToOne(kids'[x], name')
      <3>1. CASE x = d
        BY <1>8, <1>9, <3>1
      <3>2. CASE x # d
        <4>1. OneToOne(rest[x], name) /\ \A y \in ToSet(rest[x]) : name'[y] = name[y]
          BY <1>2, <1>7
        <4>2. OneToOne(rest[x], name')
          BY <4>1 DEF OneToOne, ToSet
        <4> QED
          BY <1>9, <3>2, <4>2
      <3> QED
        BY <3>1, <3>2
    <2> QED
      BY <2>1 DEF UniqueNames, OneToOne
  <1>12. DirsAreDirs'
    BY <1>1, <1>3 DEF Links, DirsAreDirs, SnapRoots
  <1>13. RootsUnlisted'
    <2>1. ASSUME NEW x \in HeapAddr
          PROVE  ToSet(kids'[x]) \cap (SnapRoots \cup {fs_root}) = {}
      <3>1. ToSet(rest[x]) \cap (SnapRoots \cup {fs_root}) = {}
        BY <1>1, <1>2 DEF Links, RootsUnlisted
      <3>2. CASE x = d
        BY <1>5, <1>9, <3>1, <3>2
      <3>3. CASE x # d
        BY <1>9, <3>1, <3>3
      <3> QED
        BY <3>2, <3>3
    <2> QED
      BY <1>3, <2>1 DEF RootsUnlisted, SnapRoots, Listed
  <1>14. NodesApart' /\ CloneOK'
    BY <1>1, <1>3 DEF NodesApart, CloneOK, Quiet, NoClone, ToSet, OneToOne
  <1>15. TypeOK'
    <2>1. /\ kids' \in [HeapAddr -> Seq(HeapAddr)]
          /\ name' \in [HeapAddr -> Name \cup RawName \cup {RootName}]
          /\ parent' \in [HeapAddr -> HeapAddr \cup {NULL}]
      BY <1>1, <1>2, <1>3, <1>4, <1>5 DEF TypeOK
    <2> QED
      BY <1>1, <1>3, <2>1 DEF TypeOK, Results
  <1> QED
    BY <1>10, <1>11, <1>12, <1>13, <1>14, <1>15 DEF IInv, Links

-----------------------------------------------------------------------------
(* The copy of the tree *)

\* A buffer that fits moves the bump pointer within the heap.
LEMMA Stored ==
    ASSUME NEW offset \in 0 .. (KHEAP_SIZE - 1), NEW len \in TextLen,
           Fits(offset, len + 1)
    PROVE  /\ OffsetAfter(offset, len + 1) \in 0 .. (KHEAP_SIZE - 1)
           /\ offset <= OffsetAfter(offset, len + 1)
  <1>1. len \in Nat /\ len + 1 \in Nat /\ len + 1 + KHEAP_SIZE < UINT32
    BY FsAssumption
  <1>2. offset + (len + 1) < KHEAP_SIZE /\ OffsetAfter(offset, len + 1) = offset + (len + 1)
    BY <1>1, NoWrap
  <1> QED
    BY <1>1, <1>2, Constants

\* What is on the stack after a push.
LEMMA PushFacts ==
    ASSUME NEW stack \in Seq(Frame), OneToOne(stack, Into),
           NEW sibs \in Seq(HeapAddr), NEW into \in HeapAddr \cup {NULL},
           \A f \in ToSet(stack) : f.into # into
    PROVE  /\ Push(sibs, into, stack) \in Seq(Frame)
           /\ \A f \in ToSet(Push(sibs, into, stack)) :
                 \/ f \in ToSet(stack)
                 \/ f = [sibs |-> sibs, into |-> into] /\ sibs # <<>>
           /\ OneToOne(Push(sibs, into, stack), Into)
  <1>1. CASE sibs = <<>>
    BY <1>1 DEF Push
  <1>2. CASE sibs # <<>>
    <2> DEFINE new == [sibs |-> sibs, into |-> into]
    <2>1. Push(sibs, into, stack) = <<new>> \o stack
      BY <1>2 DEF Push
    <2>2. new \in Frame /\ Into[new] = into
      BY DEF Frame, Into
    <2>3. \A f \in ToSet(stack) : f \in Frame
      BY ElementOfSeq DEF ToSet
    <2>4. \A f \in ToSet(stack) : Into[f] # Into[new]
      BY <2>2, <2>3 DEF Into
    <2> HIDE DEF new
    <2>5. <<new>> \o stack \in Seq(Frame) /\ ToSet(<<new>> \o stack) = ToSet(stack) \cup {new}
      BY <2>2, HeadInsertion
    <2>6. OneToOne(<<new>> \o stack, Into)
      BY <2>2, <2>4, HeadOneToOne
    <2> QED
      BY <1>2, <2>1, <2>5, <2>6 DEF new
  <1> QED
    BY <1>1, <1>2

\* The first element of a list without repetition, and the rest.
LEMMA HeadAndTail ==
    ASSUME NEW S, NEW s \in Seq(S), s # <<>>, NEW f, OneToOne(s, f)
    PROVE  /\ Head(s) \in S /\ Head(s) \in ToSet(s)
           /\ Tail(s) \in Seq(S)
           /\ ToSet(Tail(s)) \subseteq ToSet(s)
           /\ OneToOne(Tail(s), f)
           /\ \A x \in ToSet(Tail(s)) : f[x] # f[Head(s)]
  <1> DEFINE t == Tail(s)
  <1>1. /\ Len(s) \in Nat /\ Len(s) > 0 /\ DOMAIN s = 1 .. Len(s)
    BY EmptySeq, LenProperties
  <1>2. /\ Head(s) = s[1] /\ Head(s) \in S
        /\ t \in Seq(S) /\ Len(t) = Len(s) - 1
        /\ \A i \in 1 .. Len(t) : t[i] = s[i + 1]
    BY HeadTailProperties
  <1>3. DOMAIN t = 1 .. (Len(s) - 1)
    BY <1>2, LenProperties
  <1> HIDE DEF t
  <1>4. 1 \in DOMAIN s
    BY <1>1
  <1>5. \A i \in DOMAIN t : i + 1 \in DOMAIN s /\ i + 1 # 1 /\ t[i] = s[i + 1]
    BY <1>1, <1>2, <1>3
  <1>6. Head(s) \in ToSet(s) /\ ToSet(t) \subseteq ToSet(s)
    BY <1>2, <1>4, <1>5 DEF ToSet
  <1>7. OneToOne(t, f)
    <2> SUFFICES ASSUME NEW i \in DOMAIN t, NEW j \in DOMAIN t, f[t[i]] = f[t[j]]
                 PROVE  i = j
      BY DEF OneToOne
    <2>1. i + 1 = j + 1
      BY <1>5 DEF OneToOne
    <2> QED
      BY <2>1, <1>3
  <1>8. \A x \in ToSet(t) : f[x] # f[Head(s)]
    BY <1>2, <1>4, <1>5, SMTT(20) DEF ToSet, OneToOne
  <1> QED
    BY <1>2, <1>6, <1>7, <1>8 DEF t

\* A call without room for its node is dropped from the stack.
LEMMA CloneDropInv ==
    ASSUME IInv, clone.todo # <<>>,
           clone' = [clone EXCEPT !.todo = Tail(@)],
           UNCHANGED <<heap_offset, tree, fs_root, fs_cwd, snaps, ret, out>>
    PROVE  IInv'
  <1>1. TypeOK /\ Links /\ NodesApart /\ CloneOK
    BY DEF IInv
  <1>2. /\ clone.todo \in Seq(Frame)
        /\ clone \in [snap : SnapName \cup {NoSnap}, root : HeapAddr \cup {NULL},
                      todo : Seq(Frame)]
    BY <1>1 DEF TypeOK
  <1>3. /\ Tail(clone.todo) \in Seq(Frame)
        /\ ToSet(Tail(clone.todo)) \subseteq ToSet(clone.todo)
        /\ OneToOne(Tail(clone.todo), Into)
    BY <1>1, <1>2, HeadAndTail DEF CloneOK
  <1>4. /\ clone'.todo = Tail(clone.todo)
        /\ clone'.root = clone.root /\ clone'.snap = clone.snap
        /\ clone' \in [snap : SnapName \cup {NoSnap}, root : HeapAddr \cup {NULL},
                       todo : Seq(Frame)]
    BY <1>2, <1>3
  <1>5. clone.snap # NoSnap
    BY <1>1 DEF CloneOK, NoClone
  <1>6. UNCHANGED <<heap_offset, nodes, name, is_dir, data, parent, kids, fs_root,
                    fs_cwd, snaps, ret, out>>
    BY DEF tree
  <1>7. TypeOK' /\ NodesApart' /\ Links'
    BY <1>1, <1>4, <1>6 DEF TypeOK, NodesApart, Links, WellLinked, UniqueNames,
      RootsUnlisted, DirsAreDirs, SnapRoots, Listed
  <1>8. \A f : FrameOK(f) => FrameOK(f)'
    BY <1>6 DEF FrameOK, Listed
  <1>9. CloneOK'
    BY <1>1, <1>3, <1>4, <1>5, <1>6, <1>8 DEF CloneOK, Listed
  <1> QED
    BY <1>7, <1>9 DEF IInv

\* A call with room copies the first of its nodes.
LEMMA CloneCopyInv ==
    ASSUME IInv, clone.todo # <<>>, Fits(heap_offset, NODE_SIZE), fs_clone_tree
    PROVE  IInv'
  <1> DEFINE frame  == Head(clone.todo)
             stack  == Tail(clone.todo)
             offset == OffsetAfter(heap_offset, NODE_SIZE)
  <1>a. PICK orig, left, into, copy, below :
           /\ orig = Head(frame.sibs) /\ left = Tail(frame.sibs)
           /\ into = frame.into /\ copy = PtrAt(heap_offset)
           /\ below = kids[orig]
    OBVIOUS
  <1> DEFINE text   == IF is_dir[orig] THEN NoText ELSE data[orig]
             stored == text # NoText /\ Fits(offset, text.len + 1)
             list   == IF into = NULL THEN <<>> ELSE Append(kids[into], copy)
  <1>1. TypeOK /\ Links /\ NodesApart /\ CloneOK
    BY DEF IInv
  <1>2. /\ clone.todo \in Seq(Frame) /\ OneToOne(clone.todo, Into)
        /\ clone \in [snap : SnapName \cup {NoSnap}, root : HeapAddr \cup {NULL},
                      todo : Seq(Frame)]
    BY <1>1 DEF TypeOK, CloneOK
  <1>3. /\ frame \in Frame /\ frame \in ToSet(clone.todo)
        /\ stack \in Seq(Frame) /\ ToSet(stack) \subseteq ToSet(clone.todo)
        /\ OneToOne(stack, Into)
        /\ \A f \in ToSet(stack) : Into[f] # Into[frame]
    BY <1>2, HeadAndTail
  <1>4. /\ FrameOK(frame) /\ frame.sibs # <<>> /\ frame.sibs \in Seq(HeapAddr)
        /\ into \in HeapAddr \cup {NULL}
        /\ \A f \in ToSet(stack) : FrameOK(f) /\ f.sibs # <<>> /\ f \in Frame
    <2>1. \A f \in ToSet(stack) : f \in Frame
      BY <1>3, ElementOfSeq DEF ToSet
    <2> QED
      BY <1>1, <1>3, <1>a, <2>1 DEF CloneOK, Frame
  <1>5. \A f \in ToSet(stack) : f.into # into
    BY <1>3, <1>4, <1>a DEF Into
  <1>6. /\ orig \in ToSet(frame.sibs) /\ left \in Seq(HeapAddr)
        /\ ToSet(left) \subseteq ToSet(frame.sibs)
        /\ OneToOne(left, name)
        /\ \A x \in ToSet(left) : name[x] # name[orig]
    BY <1>4, <1>a, HeadAndTail DEF FrameOK
  <1>7. orig \in nodes /\ orig \in HeapAddr
    BY <1>1, <1>4, <1>6 DEF FrameOK, TypeOK
  <1>8. /\ copy \in HeapAddr /\ copy \notin nodes /\ copy # NULL /\ kids[copy] = <<>>
        /\ \A x \in HeapAddr : copy \notin Listed(x)
        /\ offset = heap_offset + NODE_SIZE /\ offset \in 0 .. (KHEAP_SIZE - 1)
    BY <1>a, FreshNode
  <1> HIDE DEF frame, stack, offset, text, stored, list
  <1>9. /\ nodes' = nodes \cup {copy}
        /\ name' = [name EXCEPT ![copy] = name[orig]]
        /\ is_dir' = [is_dir EXCEPT ![copy] = is_dir[orig]]
        /\ data' = [data EXCEPT ![copy] = IF stored THEN text ELSE NoText]
        /\ parent' = [parent EXCEPT ![copy] = into]
        /\ kids' = IF into = NULL THEN kids ELSE [kids EXCEPT ![into] = Append(@, copy)]
        /\ heap_offset' = IF stored THEN OffsetAfter(offset, text.len + 1) ELSE offset
        /\ clone' = [clone EXCEPT !.root = IF into = NULL THEN copy ELSE @,
                                  !.todo = Push(below, copy, Push(left, into, stack))]
        /\ UNCHANGED <<fs_root, fs_cwd, snaps, ret, out>>
    BY <1>a DEF fs_clone_tree, frame, stack, offset, text, stored
  <1>10. kids' = IF into = NULL THEN kids ELSE [kids EXCEPT ![into] = list]
    BY <1>1, <1>4, <1>9 DEF list, TypeOK
  <1>11. /\ name[orig] \in Name \cup RawName \cup {RootName}
         /\ is_dir[orig] \in BOOLEAN
         /\ data[orig] \in Content \cup {NoText}
         /\ below = kids[orig] /\ below \in Seq(HeapAddr)
    BY <1>1, <1>7, <1>a DEF TypeOK
  <1>12. /\ \A x \in HeapAddr : x # copy => name'[x] = name[x] /\ is_dir'[x] = is_dir[x]
         /\ name'[copy] = name[orig] /\ is_dir'[copy] = is_dir[orig]
    BY <1>1, <1>8, <1>9 DEF TypeOK
  <1>13. nodes \subseteq HeapAddr /\ \A x \in nodes : x # copy
    BY <1>1, <1>8 DEF TypeOK
  <1>14. ASSUME into # NULL
         PROVE  /\ into \in nodes /\ is_dir[into] /\ into \in HeapAddr
                /\ kids[into] \in Seq(HeapAddr)
                /\ list = Append(kids[into], copy)
                /\ ToSet(list) = Listed(into) \cup {copy}
                /\ \A y \in Listed(into) : y \in nodes /\ name[y] # name[orig]
    <2>1. into \in nodes /\ is_dir[into] /\ into \in HeapAddr
          /\ \A y \in Listed(into) : name[y] # name[orig]
      BY <1>4, <1>6, <1>13, <1>14, <1>a DEF FrameOK
    <2>2. kids[into] \in Seq(HeapAddr) /\ \A y \in Listed(into) : y \in nodes
      BY <1>1, <2>1 DEF TypeOK, Links, WellLinked
    <2>3. list = Append(kids[into], copy)
      BY <1>14 DEF list
    <2>4. ToSet(list) = Listed(into) \cup {copy}
      BY <1>8, <2>2, <2>3, TailInsertion DEF Listed
    <2> QED
      BY <2>1, <2>2, <2>3, <2>4
  <1>15. ASSUME into # NULL PROVE OneToOne(list, name')
    <2>1. OneToOne(kids[into], name)
      BY <1>1, <1>14, <1>15 DEF Links, UniqueNames, OneToOne
    <2>2. \A y \in ToSet(kids[into]) : name'[y] = name[y] /\ name'[y] # name'[copy]
      BY <1>12, <1>13, <1>14, <1>15 DEF Listed
    <2>3. OneToOne(kids[into], name')
      BY <2>1, <2>2 DEF OneToOne, ToSet
    <2>4. kids[into] \in Seq(HeapAddr) /\ list = Append(kids[into], copy)
      BY <1>14, <1>15
    <2>5. \A y \in ToSet(kids[into]) : name'[y] # name'[copy]
      BY <2>2
    <2>6. OneToOne(Append(kids[into], copy), name')
      BY <1>8, <2>3, <2>4, <2>5, TailOneToOne
    <2> QED
      BY <2>4, <2>6
  <1>16. list \in Seq(HeapAddr)
    <2>1. CASE into = NULL
      BY <2>1, EmptySeq DEF list
    <2>2. CASE into # NULL
      BY <2>2, <1>8, <1>14, TailInsertion
    <2> QED
      BY <2>1, <2>2
  <1>17. Links'
    <2>1. into # NULL => into \in nodes /\ is_dir[into]
      BY <1>14
    <2>2. into # NULL => /\ ToSet(list) = Listed(into) \cup {copy}
                         /\ OneToOne(list, name')
      BY <1>14, <1>15
    <2> QED
      BY <1>1, <1>4, <1>8, <1>9, <1>10, <1>11, <1>16, <2>1, <2>2, LinksAdd
  <1>18. heap_offset' \in 0 .. (KHEAP_SIZE - 1) /\ heap_offset + NODE_SIZE <= heap_offset'
    <2>1. CASE stored
      <3>1. text \in Content /\ Fits(offset, text.len + 1)
        BY <1>11, <2>1 DEF stored, text
      <3>2. text.len \in TextLen
        BY <3>1 DEF Content
      <3>3. /\ OffsetAfter(offset, text.len + 1) \in 0 .. (KHEAP_SIZE - 1)
            /\ offset <= OffsetAfter(offset, text.len + 1)
        BY <1>8, <3>1, <3>2, Stored
      <3> QED
        BY <1>8, <1>9, <2>1, <3>3
    <2>2. CASE ~stored
      <3>1. heap_offset' = offset /\ offset <= offset
        BY <1>8, <1>9, <2>2, Constants
      <3> QED
        BY <1>8, <3>1
    <2> QED
      BY <2>1, <2>2
  <1>19. NodesApart'
    <2>1. heap_offset \in Nat /\ heap_offset' \in Nat
      BY <1>1, <1>18, Constants DEF TypeOK
    <2> QED
      BY <1>1, <1>9, <1>13, <1>18, <2>1, <1>a, ApartAdd DEF NodesApart
  <1>20. \A x \in HeapAddr : x # into => Listed(x)' = Listed(x)
    BY <1>1, <1>4, <1>10 DEF Listed, TypeOK
  <1>21. Listed(copy)' = {}
    <2>1. copy # into
      BY <1>8, <1>14
    <2>2. Listed(copy) = {}
      BY <1>8 DEF Listed, ToSet
    <2> QED
      BY <1>8, <1>20, <2>1, <2>2
  <1>22. ASSUME NEW f \in ToSet(stack) PROVE FrameOK(f)'
    <2>1. FrameOK(f) /\ f.into # into
      BY <1>4, <1>5, <1>22
    <2>2. \A x \in ToSet(f.sibs) : name'[x] = name[x] /\ x \in nodes'
      BY <1>9, <1>12, <1>13, <2>1 DEF FrameOK
    <2>3. OneToOne(f.sibs, name')
      BY <2>1, <2>2 DEF FrameOK, OneToOne, ToSet
    <2>4. ASSUME f.into # NULL
          PROVE  /\ f.into \in nodes' /\ is_dir'[f.into]
                 /\ \A x \in ToSet(f.sibs), y \in Listed(f.into)' : name'[x] # name'[y]
      <3>1. f.into \in nodes /\ f.into \in HeapAddr /\ is_dir[f.into]
        BY <1>13, <2>1, <2>4 DEF FrameOK
      <3>2. Listed(f.into)' = Listed(f.into)
        BY <1>20, <2>1, <3>1
      <3>3. \A y \in Listed(f.into) : y \in nodes /\ name'[y] = name[y]
        BY <1>1, <1>12, <1>13, <3>1 DEF Links, WellLinked
      <3> QED
        BY <1>9, <1>12, <1>13, <2>1, <2>2, <2>4, <3>1, <3>2, <3>3 DEF FrameOK
    <2> QED
      BY <1>9, <2>1, <2>2, <2>3, <2>4 DEF FrameOK
  <1>23. ASSUME left # <<>> PROVE FrameOK([sibs |-> left, into |-> into])'
    <2>1. into # NULL
      <3>1. into = NULL => frame.sibs = <<fs_root>>
        BY <1>4, <1>a DEF FrameOK
      <3>2. frame.sibs = <<fs_root>> => left = <<>>
        BY <1>a
      <3> QED
        BY <1>23, <3>1, <3>2
    <2>2. \A x \in ToSet(left) : name'[x] = name[x] /\ x \in nodes'
      BY <1>4, <1>6, <1>9, <1>12, <1>13 DEF FrameOK
    <2>3. OneToOne(left, name')
      BY <1>6, <2>2 DEF OneToOne, ToSet
    <2>4. Listed(into)' = Listed(into) \cup {copy}
      BY <1>1, <1>10, <1>14, <2>1 DEF Listed, TypeOK
    <2>5. \A x \in ToSet(left), y \in Listed(into) : name'[x] # name'[y]
      <3>1. \A x \in ToSet(left), y \in Listed(into) : name[x] # name[y]
        BY <1>4, <1>6, <2>1, <1>a DEF FrameOK
      <3> QED
        BY <1>12, <1>13, <1>14, <2>1, <2>2, <3>1
    <2>6. \A x \in ToSet(left) : name'[x] # name'[copy]
      BY <1>6, <1>12, <2>2
    <2> QED
      BY <1>9, <1>12, <1>13, <1>14, <2>1, <2>2, <2>3, <2>4, <2>5, <2>6 DEF FrameOK
  <1>24. ASSUME below # <<>> PROVE FrameOK([sibs |-> below, into |-> copy])'
    <2>1. \A x \in ToSet(below) : x \in nodes
      BY <1>1, <1>7, <1>11 DEF Links, WellLinked, Listed
    <2>2. \A x \in ToSet(below) : name'[x] = name[x] /\ x \in nodes'
      BY <1>9, <1>12, <1>13, <2>1
    <2>3. OneToOne(below, name')
      <3>1. OneToOne(below, name)
        BY <1>1, <1>7, <1>11 DEF Links, UniqueNames, OneToOne
      <3> QED
        BY <2>2, <3>1 DEF OneToOne, ToSet
    <2>4. is_dir[orig]
      <3>1. 1 \in DOMAIN below
        BY <1>11, <1>24, EmptySeq, LenProperties
      <3>2. below[1] \in Listed(orig)
        BY <1>11, <3>1 DEF Listed, ToSet
      <3> QED
        BY <1>1, <1>7, <3>2 DEF Links, WellLinked
    <2> QED
      BY <1>8, <1>9, <1>12, <1>21, <2>2, <2>3, <2>4 DEF FrameOK
  <1>25. /\ clone'.todo = Push(below, copy, Push(left, into, stack))
         /\ clone'.root = IF into = NULL THEN copy ELSE clone.root
         /\ clone'.snap = clone.snap
    BY <1>2, <1>9
  <1>26. /\ clone'.todo \in Seq(Frame)
         /\ OneToOne(clone'.todo, Into)
         /\ \A f \in ToSet(clone'.todo) : FrameOK(f)' /\ f.sibs # <<>>
    <2> DEFINE lower == Push(left, into, stack)
    <2>1. /\ lower \in Seq(Frame)
          /\ \A f \in ToSet(lower) :
                f \in ToSet(stack) \/ (f = [sibs |-> left, into |-> into] /\ left # <<>>)
          /\ OneToOne(lower, Into)
      BY <1>3, <1>4, <1>5, <1>6, PushFacts
    <2>2. \A f \in ToSet(lower) : f.into # copy
      <3>1. \A f \in ToSet(stack) : f.into # copy
        BY <1>4, <1>8 DEF FrameOK
      <3>2. into # copy
        BY <1>8, <1>14
      <3> QED
        BY <2>1, <3>1, <3>2
    <2> HIDE DEF lower
    <2>3. /\ Push(below, copy, lower) \in Seq(Frame)
          /\ \A f \in ToSet(Push(below, copy, lower)) :
                \/ f \in ToSet(lower)
                \/ f = [sibs |-> below, into |-> copy] /\ below # <<>>
          /\ OneToOne(Push(below, copy, lower), Into)
      BY <1>8, <1>11, <2>1, <2>2, PushFacts
    <2>4. clone'.todo = Push(below, copy, lower)
      BY <1>25 DEF lower
    <2>5. ASSUME NEW f \in ToSet(clone'.todo) PROVE FrameOK(f)' /\ f.sibs # <<>>
      <3>1. CASE f \in ToSet(stack)
        BY <1>4, <1>22, <3>1
      <3>2. CASE f = [sibs |-> left, into |-> into] /\ left # <<>>
        BY <1>23, <3>2
      <3>3. CASE f = [sibs |-> below, into |-> copy] /\ below # <<>>
        BY <1>24, <3>3
      <3> QED
        BY <2>1, <2>3, <2>4, <2>5, <3>1, <3>2, <3>3
    <2> QED
      BY <2>3, <2>4, <2>5
  <1>27. clone'.root # NULL =>
            /\ clone'.root \in nodes' /\ is_dir'[clone'.root]
            /\ \A x \in HeapAddr : clone'.root \notin Listed(x)'
    <2>1. CASE into = NULL
      <3>1. orig = fs_root
        BY <1>4, <2>1, <1>a DEF FrameOK
      <3>2. is_dir[orig]
        BY <1>1, <3>1 DEF Links, DirsAreDirs
      <3>3. \A x \in HeapAddr : Listed(x)' = Listed(x)
        BY <1>20, <2>1, Constants
      <3>4. \A x \in HeapAddr : copy \notin Listed(x)'
        BY <1>8, <3>3
      <3>5. copy \in nodes' /\ is_dir'[copy]
        BY <1>9, <1>12, <3>2
      <3>6. clone'.root = copy
        BY <1>25, <2>1
      <3> QED
        BY <3>4, <3>5, <3>6
    <2>2. CASE into # NULL
      <3>1. clone'.root = clone.root
        BY <1>25, <2>2
      <3>2. clone.root # NULL => clone.root \in nodes /\ clone.root # copy /\ is_dir[clone.root]
        BY <1>1, <1>13 DEF CloneOK
      <3>3. Listed(into)' = Listed(into) \cup {copy}
        BY <1>1, <1>10, <1>14, <2>2 DEF Listed, TypeOK
      <3>4. clone.root # NULL => \A x \in HeapAddr : clone.root \notin Listed(x)'
        BY <1>1, <1>20, <3>2, <3>3 DEF CloneOK
      <3> QED
        BY <1>9, <1>12, <1>13, <3>1, <3>2, <3>4
    <2> QED
      BY <2>1, <2>2
  <1>28. CloneOK'
    <2>1. clone.snap # NoSnap
      BY <1>1 DEF CloneOK, NoClone
    <2> QED
      BY <1>25, <1>26, <1>27, <2>1 DEF CloneOK
  <1>29. TypeOK'
    <2>1. nodes' \subseteq HeapAddr /\ fs_root' \in nodes' /\ fs_cwd' \in nodes'
      BY <1>1, <1>8, <1>9 DEF TypeOK
    <2>2. /\ name' \in [HeapAddr -> Name \cup RawName \cup {RootName}]
          /\ parent' \in [HeapAddr -> HeapAddr \cup {NULL}]
      BY <1>1, <1>4, <1>9, <1>11 DEF TypeOK
    <2>3. is_dir' \in [HeapAddr -> BOOLEAN]
      BY <1>1, <1>9, <1>11 DEF TypeOK
    <2>4. data' \in [HeapAddr -> Content \cup {NoText}]
      <3>1. text \in Content \cup {NoText}
        BY <1>11 DEF text
      <3> QED
        BY <1>1, <1>9, <3>1 DEF TypeOK
    <2>5. kids' \in [HeapAddr -> Seq(HeapAddr)]
      BY <1>1, <1>10, <1>16 DEF TypeOK
    <2>6. clone' \in [snap : SnapName \cup {NoSnap}, root : HeapAddr \cup {NULL},
                      todo : Seq(Frame)]
      BY <1>2, <1>8, <1>9, <1>25, <1>26
    <2>7. /\ snaps' \in Seq([name : SnapName, root : HeapAddr])
          /\ ret' \in {Ok, Error} /\ out' \in Content \cup {NoText}
      BY <1>1, <1>9 DEF TypeOK
    <2> QED
      BY <1>18, <2>1, <2>2, <2>3, <2>4, <2>5, <2>6, <2>7 DEF TypeOK
  <1> QED
    BY <1>17, <1>19, <1>28, <1>29 DEF IInv

\* fs_snap_create starts the copy at the root.
LEMMA CloneBegins ==
    ASSUME IInv, NEW s \in SnapName, SnapNamed(s) = {},
           clone' = [snap |-> s, root |-> NULL,
                     todo |-> <<[sibs |-> <<fs_root>>, into |-> NULL]>>],
           UNCHANGED <<heap_offset, tree, fs_root, fs_cwd, snaps, ret, out>>
    PROVE  IInv'
  <1>f. PICK f : f = [sibs |-> <<fs_root>>, into |-> NULL]
    OBVIOUS
  <1>1. TypeOK /\ Links /\ NodesApart
    BY DEF IInv
  <1>2. UNCHANGED <<heap_offset, nodes, name, is_dir, data, parent, kids, fs_root,
                    fs_cwd, snaps, ret, out>>
    BY DEF tree
  <1>3. fs_root \in nodes /\ fs_root \in HeapAddr
    BY <1>1 DEF TypeOK
  <1>4. <<fs_root>> \in Seq(HeapAddr) /\ f \in Frame /\ <<f>> \in Seq(Frame)
    BY <1>3, <1>f DEF Frame
  <1>5. \A x, g : DOMAIN <<x>> = {1} /\ ToSet(<<x>>) = {x} /\ OneToOne(<<x>>, g)
    BY DEF ToSet, OneToOne
  <1>6. f.sibs = <<fs_root>> /\ f.into = NULL /\ <<fs_root>> # <<>>
    BY <1>f
  <1>7. FrameOK(f)'
    BY <1>2, <1>3, <1>5, <1>6 DEF FrameOK
  <1>8. clone'.todo = <<f>> /\ clone'.root = NULL /\ clone'.snap = s
    BY <1>f
  <1>9. CloneOK'
    <2>1. clone'.snap # NoSnap
      BY <1>8, FsAssumption
    <2>2. ToSet(clone'.todo) = {f} /\ OneToOne(clone'.todo, Into)
      BY <1>5, <1>8
    <2>3. \A g \in ToSet(clone'.todo) : FrameOK(g)' /\ g.sibs # <<>>
      BY <1>6, <1>7, <2>2
    <2> QED
      BY <1>8, <2>1, <2>2, <2>3 DEF CloneOK
  <1>10. clone' \in [snap : SnapName \cup {NoSnap}, root : HeapAddr \cup {NULL},
                     todo : Seq(Frame)]
    BY <1>4, <1>f
  <1>11. TypeOK' /\ NodesApart' /\ Links'
    BY <1>1, <1>2, <1>10 DEF TypeOK, NodesApart, Links, WellLinked, UniqueNames,
      RootsUnlisted, DirsAreDirs, SnapRoots, Listed
  <1> QED
    BY <1>9, <1>11 DEF IInv

\* The copy is over: its root becomes its own parent, and a snapshot's root
\* if the snapshot is recorded.
LEMMA SnapCreateEndInv ==
    ASSUME IInv, SnapCreateEnd
    PROVE  IInv'
  <1>1. TypeOK /\ Links /\ NodesApart /\ CloneOK
    BY DEF IInv
  <1>2. /\ clone' = NoClone /\ Results'
        /\ parent' = IF clone.root = NULL THEN parent
                     ELSE [parent EXCEPT ![clone.root] = clone.root]
        /\ UNCHANGED <<nodes, name, is_dir, data, kids, fs_root, fs_cwd>>
    BY DEF SnapCreateEnd, Results, Content, NoText
  <1>3. /\ clone.root \in HeapAddr \cup {NULL}
        /\ clone.root # NULL =>
              /\ clone.root \in nodes /\ is_dir[clone.root] /\ clone.root \in HeapAddr
              /\ \A d \in HeapAddr : clone.root \notin Listed(d)
    BY <1>1 DEF CloneOK, TypeOK
  <1>4. heap_offset' \in 0 .. (KHEAP_SIZE - 1) /\ heap_offset <= heap_offset'
    <2>1. heap_offset \in 0 .. (KHEAP_SIZE - 1)
      BY <1>1 DEF TypeOK
    <2>2. CASE heap_offset' = heap_offset
      BY <2>1, <2>2, Constants
    <2>3. CASE /\ Fits(heap_offset, SNAP_SIZE)
               /\ heap_offset' = OffsetAfter(heap_offset, SNAP_SIZE)
      <3>1. /\ heap_offset + SNAP_SIZE < KHEAP_SIZE
            /\ heap_offset' = heap_offset + SNAP_SIZE
        BY <2>1, <2>3, NoWrap, FsAssumption, Constants
      <3> QED
        BY <2>1, <3>1, Constants
    <2> QED
      BY <2>2, <2>3 DEF SnapCreateEnd
  <1>5. /\ snaps' \in Seq([name : SnapName, root : HeapAddr])
        /\ SnapRoots' \subseteq SnapRoots \cup ({clone.root} \ {NULL})
    <2>1. CASE UNCHANGED snaps
      BY <1>1, <2>1 DEF TypeOK, SnapRoots
    <2>2. CASE /\ clone.root # NULL
               /\ snaps' = <<[name |-> clone.snap, root |-> clone.root]>> \o snaps
      <3> DEFINE new == [name |-> clone.snap, root |-> clone.root]
                 S   == [name : SnapName, root : HeapAddr]
      <3>1. clone.snap \in SnapName
        BY <1>1, <2>2 DEF TypeOK, CloneOK, NoClone
      <3>2. new \in S /\ snaps \in Seq(S) /\ new.root = clone.root
        BY <1>1, <1>3, <2>2, <3>1 DEF TypeOK
      <3> HIDE DEF new, S
      <3>3. snaps' \in Seq(S) /\ ToSet(snaps') = ToSet(snaps) \cup {new}
        <4>1. snaps' = <<new>> \o snaps
          BY <2>2 DEF new
        <4> QED
          BY <3>2, <4>1, HeadInsertion
      <3>4. SnapRoots = {x.root : x \in ToSet(snaps)}
        BY DEF SnapRoots, ToSet
      <3>5. SnapRoots' = {x.root : x \in ToSet(snaps')}
        BY DEF SnapRoots, ToSet
      <3> QED
        BY <2>2, <3>2, <3>3, <3>4, <3>5 DEF S
    <2> QED
      BY <2>1, <2>2 DEF SnapCreateEnd
  <1>6. NodesApart'
    <2>1. nodes \subseteq HeapAddr /\ heap_offset \in Nat /\ heap_offset' \in Nat
      BY <1>1, <1>4, Constants DEF TypeOK
    <2> QED
      BY <1>1, <1>2, <1>4, <2>1, ApartSame DEF NodesApart
  <1>7. /\ parent' \in [HeapAddr -> HeapAddr \cup {NULL}]
        /\ \A x \in HeapAddr : x # clone.root => parent'[x] = parent[x]
        /\ clone.root # NULL => parent'[clone.root] = clone.root
    BY <1>1, <1>2, <1>3 DEF TypeOK
  <1>8. UniqueNames' /\ \A d \in HeapAddr : ToSet(kids'[d]) = Listed(d)
    BY <1>1, <1>2 DEF Links, UniqueNames, Listed
  <1>9. WellLinked'
    <2>1. ASSUME NEW d \in HeapAddr, NEW k \in Listed(d)
          PROVE  d \in nodes' /\ is_dir'[d] /\ k \in nodes' /\ parent'[k] = d
      <3>1. d \in nodes /\ is_dir[d] /\ k \in nodes /\ parent[k] = d
        BY <1>1, <2>1 DEF Links, WellLinked
      <3>2. k # clone.root /\ k \in HeapAddr
        BY <1>1, <1>3, <2>1, <3>1, Constants DEF TypeOK
      <3> QED
        BY <1>2, <1>7, <3>1, <3>2
    <2>2. ASSUME NEW m \in nodes, parent'[m] \notin {NULL, m}
          PROVE  m \in ToSet(kids'[parent'[m]])
      <3>1. m \in HeapAddr /\ m # NULL
        BY <1>1, Constants DEF TypeOK
      <3>2. m # clone.root
        BY <1>7, <2>2, <3>1
      <3>3. parent'[m] = parent[m] /\ parent[m] \in HeapAddr
        BY <1>1, <1>7, <2>2, <3>1, <3>2 DEF TypeOK
      <3> QED
        BY <1>1, <1>8, <2>2, <3>3 DEF Links, WellLinked
    <2> QED
      BY <1>2, <1>8, <2>1, <2>2 DEF WellLinked, Listed
  <1>10. RootsUnlisted'
    <2>1. ASSUME NEW d \in HeapAddr, NEW r \in SnapRoots' \cup {fs_root}
          PROVE  r \notin Listed(d)
      BY <1>1, <1>3, <1>5, <2>1 DEF Links, RootsUnlisted
    <2> QED
      BY <1>2, <1>8, <2>1 DEF RootsUnlisted, Listed
  <1>11. DirsAreDirs'
    BY <1>1, <1>2, <1>3, <1>5 DEF Links, DirsAreDirs
  <1>12. CloneOK'
    BY <1>2 DEF CloneOK, NoClone, ToSet, OneToOne
  <1>13. TypeOK'
    <2>1. /\ name' \in [HeapAddr -> Name \cup RawName \cup {RootName}]
          /\ is_dir' \in [HeapAddr -> BOOLEAN]
          /\ data' \in [HeapAddr -> Content \cup {NoText}]
          /\ kids' \in [HeapAddr -> Seq(HeapAddr)]
          /\ nodes' \subseteq HeapAddr /\ fs_root' \in nodes' /\ fs_cwd' \in nodes'
      BY <1>1, <1>2 DEF TypeOK
    <2>2. clone' \in [snap : SnapName \cup {NoSnap}, root : HeapAddr \cup {NULL},
                      todo : Seq(Frame)]
      BY <1>2 DEF NoClone
    <2> QED
      BY <1>2, <1>4, <1>5, <1>7, <2>1, <2>2 DEF TypeOK, Results
  <1> QED
    BY <1>6, <1>8, <1>9, <1>10, <1>11, <1>12, <1>13 DEF IInv, Links

-----------------------------------------------------------------------------
(* Every action *)

LEMMA FailInv ==
    ASSUME IInv, Quiet, Fail
    PROVE  IInv'
  <1>1. /\ UNCHANGED <<heap_offset, nodes, name, is_dir, data, parent, kids,
                       fs_root, fs_cwd, snaps, clone>>
        /\ Results'
    BY DEF Fail, tree, Results, Content, NoText
  <1>2. /\ fs_root \in SnapRoots \cup {fs_root}
        /\ fs_cwd \in nodes /\ is_dir[fs_cwd]
        /\ data \in [HeapAddr -> Content \cup {NoText}]
        /\ heap_offset \in 0 .. (KHEAP_SIZE - 1) /\ heap_offset <= heap_offset
    BY Constants DEF IInv, TypeOK, Links, DirsAreDirs
  <1> QED
    BY <1>1, <1>2, SameTreeInv

LEMMA NewFileInv ==
    ASSUME IInv, Quiet, NEW d \in nodes, is_dir[d], NEW nm \in Name \cup RawName,
           \A k \in Listed(d) : name[k] # nm,
           NEW text \in Content, NewFile([dir |-> d, name |-> nm], text)
    PROVE  IInv'
  <1> DEFINE offset == OffsetAfter(heap_offset, NODE_SIZE)
             stored == Fits(offset, text.len + 1)
             kept   == IF stored THEN text ELSE NoText
  <1>1. /\ Fits(heap_offset, NODE_SIZE)
        /\ NewNode(d, nm, FALSE, kept)
        /\ heap_offset' = IF stored THEN OffsetAfter(offset, text.len + 1) ELSE offset
        /\ UNCHANGED <<fs_root, fs_cwd, snaps, clone>>
        /\ Results'
    BY DEF NewFile, Results, Content, NoText
  <1>2. offset = heap_offset + NODE_SIZE /\ offset \in 0 .. (KHEAP_SIZE - 1)
    BY <1>1, FreshNode
  <1>3. kept \in Content \cup {NoText}
    OBVIOUS
  <1>4. text.len \in TextLen
    BY DEF Content
  <1> HIDE DEF offset, kept
  <1>5. heap_offset' \in 0 .. (KHEAP_SIZE - 1) /\ heap_offset + NODE_SIZE <= heap_offset'
    <2>1. CASE stored
      <3>1. /\ OffsetAfter(offset, text.len + 1) \in 0 .. (KHEAP_SIZE - 1)
            /\ offset <= OffsetAfter(offset, text.len + 1)
        BY <1>2, <1>4, <2>1, Stored
      <3> QED
        BY <1>1, <1>2, <2>1, <3>1
    <2>2. CASE ~stored
      <3>1. heap_offset' = offset /\ offset <= offset
        BY <1>1, <1>2, <2>2, Constants
      <3> QED
        BY <1>2, <3>1
    <2> QED
      BY <2>1, <2>2
  <1> QED
    BY <1>1, <1>3, <1>5, NewNodeInv

LEMMA NewEmptyInv ==
    ASSUME IInv, Quiet, NEW p \in AnyPath, NEW v \in Vacant(p), NEW dir \in BOOLEAN,
           NewEmpty(v, dir)
    PROVE  IInv'
  <1>1. /\ v.dir \in nodes /\ is_dir[v.dir] /\ v.name \in Name
        /\ \A k \in Listed(v.dir) : name[k] # v.name
    BY VacantFacts DEF IInv
  <1>2. /\ Fits(heap_offset, NODE_SIZE)
        /\ NewNode(v.dir, v.name, dir, NoText)
        /\ heap_offset' = OffsetAfter(heap_offset, NODE_SIZE)
        /\ UNCHANGED <<fs_root, fs_cwd, snaps, clone>>
        /\ Results'
    BY DEF NewEmpty, Results, Content, NoText
  <1>3. /\ heap_offset' = heap_offset + NODE_SIZE
        /\ heap_offset' \in 0 .. (KHEAP_SIZE - 1)
    BY <1>2, FreshNode
  <1>4. heap_offset + NODE_SIZE \in Nat
    BY Constants DEF IInv, TypeOK
  <1>5. heap_offset + NODE_SIZE <= heap_offset'
    BY <1>3, <1>4
  <1> QED
    BY <1>1, <1>2, <1>3, <1>5, NewNodeInv

LEMMA NewFileAtInv ==
    ASSUME IInv, Quiet, NEW p \in AnyPath, NEW v \in Vacant(p), NEW text \in Content,
           NewFile(v, text)
    PROVE  IInv'
  <1>1. /\ v.dir \in nodes /\ is_dir[v.dir] /\ v.name \in Name
        /\ \A k \in Listed(v.dir) : name[k] # v.name
    BY VacantFacts DEF IInv
  <1>2. v = [dir |-> v.dir, name |-> v.name]
    BY DEF Vacant
  <1> QED
    BY <1>1, <1>2, NewFileInv

\* Only the heap pointer, the contents of a file or the results change.
LEMMA BufferInv ==
    ASSUME IInv, Quiet, NEW len \in TextLen, Fits(heap_offset, len + 1),
           heap_offset' = OffsetAfter(heap_offset, len + 1),
           data' \in [HeapAddr -> Content \cup {NoText}],
           UNCHANGED <<nodes, name, is_dir, parent, kids, fs_root, fs_cwd, snaps, clone>>,
           Results'
    PROVE  IInv'
  <1>1. heap_offset \in 0 .. (KHEAP_SIZE - 1)
    BY DEF IInv, TypeOK
  <1>2. heap_offset' \in 0 .. (KHEAP_SIZE - 1) /\ heap_offset <= heap_offset'
    BY <1>1, Stored
  <1>3. /\ fs_root' \in SnapRoots \cup {fs_root}
        /\ fs_cwd' \in nodes /\ is_dir[fs_cwd']
    BY DEF IInv, TypeOK, Links, DirsAreDirs
  <1> QED
    BY <1>2, <1>3, SameTreeInv

LEMMA CryptFacts ==
    /\ \A text \in Content : Crypt(text) \in Content
    /\ \A len \in TextLen : Plain(len) \in Content
    /\ NoText \notin Content
  BY FsAssumption DEF Crypt, Plain, Content, NoText

LEMMA InitIInv == Init => IInv
  <1> SUFFICES ASSUME Init PROVE IInv
    OBVIOUS
  <1>1. fs_root \in HeapAddr /\ fs_root \in Nat /\ fs_root # NULL
    BY Constants, HeapAssumption, FsAssumption DEF Init, PtrAt, HeapAddr, NULL
  <1>2. /\ nodes = {fs_root} /\ fs_cwd = fs_root
        /\ name = [n \in HeapAddr |-> RootName]
        /\ is_dir = [n \in HeapAddr |-> n = fs_root]
        /\ data = [n \in HeapAddr |-> NoText]
        /\ parent = [n \in HeapAddr |-> IF n = fs_root THEN fs_root ELSE NULL]
        /\ kids = [n \in HeapAddr |-> <<>>]
        /\ snaps = <<>> /\ clone = NoClone /\ ret = Ok /\ out = NoText
    BY DEF Init
  <1>3. \A x \in HeapAddr : DOMAIN kids[x] = {} /\ Listed(x) = {}
    BY <1>2 DEF Listed, ToSet
  <1>4. TypeOK
    <2>1. heap_offset \in 0 .. (KHEAP_SIZE - 1)
      BY FsAssumption, Constants DEF Init
    <2>2. clone \in [snap : SnapName \cup {NoSnap}, root : HeapAddr \cup {NULL},
                     todo : Seq(Frame)]
      BY <1>2 DEF NoClone
    <2>3. is_dir \in [HeapAddr -> BOOLEAN]
      BY <1>2
    <2> QED
      BY <1>1, <1>2, <2>1, <2>2, <2>3 DEF TypeOK
  <1>5. NodesApart
    <2>1. PtrAt(heap_offset) = fs_root + NODE_SIZE /\ ~(fs_root < fs_root)
          /\ fs_root + NODE_SIZE <= fs_root + NODE_SIZE
      BY Constants DEF Init, PtrAt
    <2> QED
      BY <1>2, <2>1 DEF NodesApart
  <1>6. SnapRoots = {}
    BY <1>2 DEF SnapRoots
  <1>7. WellLinked
    BY <1>1, <1>2, <1>3 DEF WellLinked
  <1>8. UniqueNames /\ RootsUnlisted /\ DirsAreDirs
    BY <1>1, <1>2, <1>3, <1>6 DEF UniqueNames, RootsUnlisted, DirsAreDirs
  <1>9. CloneOK
    BY <1>2 DEF CloneOK, NoClone, ToSet, OneToOne
  <1> QED
    BY <1>4, <1>5, <1>7, <1>8, <1>9 DEF IInv, Links

\* A change of the current directory, by any path at all (cd .. makes its own).
LEMMA ChdirInv ==
    ASSUME IInv, NEW p, fs_chdir(p)
    PROVE  IInv'
  <1>1. TypeOK /\ Links
    BY DEF IInv
  <1>2. CASE Quiet /\ Fail
    BY <1>2, FailInv
  <1>3. CASE /\ Resolve(p) # NULL /\ is_dir[Resolve(p)]
             /\ fs_cwd' = Resolve(p)
             /\ ret' = Ok
             /\ out' = NoText
             /\ UNCHANGED <<heap_offset, tree, fs_root, snaps, clone>>
    <2>1. Quiet /\ Results'
      BY <1>3 DEF fs_chdir, Results
    <2>2. /\ UNCHANGED <<nodes, name, is_dir, parent, kids, snaps, clone>>
          /\ data' \in [HeapAddr -> Content \cup {NoText}]
          /\ fs_root' \in SnapRoots \cup {fs_root}
          /\ heap_offset' \in 0 .. (KHEAP_SIZE - 1)
      BY <1>1, <1>3 DEF tree, TypeOK
    <2>3. heap_offset <= heap_offset'
      BY <1>1, <1>3, Constants DEF TypeOK
    <2>4. fs_cwd' \in nodes /\ is_dir[fs_cwd']
      BY <1>1, <1>3, ResolveFacts
    <2> QED
      BY <2>1, <2>2, <2>3, <2>4, SameTreeInv
  <1> QED
    BY <1>2, <1>3 DEF fs_chdir

LEMMA MkdirInv ==
    ASSUME IInv, NEW p \in AnyPath, fs_mkdir(p)
    PROVE  IInv'
  BY NewEmptyInv, FailInv DEF fs_mkdir

LEMMA WriteInv ==
    ASSUME IInv, NEW p \in AnyPath, NEW len \in TextLen, fs_write(p, len)
    PROVE  IInv'
  BY NewFileAtInv, FailInv, CryptFacts DEF fs_write

LEMMA ReadInv ==
    ASSUME IInv, NEW p, fs_read(p)
    PROVE  IInv'
  <1> DEFINE n == Resolve(p)
  <1>0. TypeOK /\ Links
    BY DEF IInv
  <1>1. CASE Quiet /\ Fail
    BY <1>1, FailInv
  <1>2. CASE /\ n # NULL /\ data[n] # NoText /\ Fits(heap_offset, data[n].len + 1)
             /\ heap_offset' = OffsetAfter(heap_offset, data[n].len + 1)
             /\ out' = Crypt(data[n])
             /\ ret' = Ok
             /\ UNCHANGED <<tree, fs_root, fs_cwd, snaps, clone>>
    <2>1. data[n] \in Content
      BY <1>0, <1>2, ResolveFacts DEF TypeOK
    <2>2. data[n].len \in TextLen /\ out' \in Content
      BY <1>2, <2>1, CryptFacts DEF Content
    <2>3. Quiet /\ Results'
      BY <1>2, <2>2 DEF fs_read, Results
    <2>4. /\ UNCHANGED <<nodes, name, is_dir, parent, kids, fs_root, fs_cwd, snaps, clone>>
          /\ data' \in [HeapAddr -> Content \cup {NoText}]
      BY <1>0, <1>2 DEF tree, TypeOK
    <2> QED
      BY <1>2, <2>2, <2>3, <2>4, BufferInv
  <1> QED
    BY <1>1, <1>2 DEF fs_read
LEMMA NextIInv == IInv /\ [Next]_vars => IInv'
  <1> SUFFICES ASSUME IInv, [Next]_vars PROVE IInv'
    OBVIOUS
  <1>1. TypeOK /\ Links
    BY DEF IInv
  <1>2. ASSUME NEW p \in Path, Resolve(p) # NULL PROVE Resolve(p) \in nodes
    BY <1>1, <1>2, ResolveFacts
  <1>x. Path \subseteq AnyPath
    BY FsAssumption DEF AnyPath
  <1>3. ASSUME NEW p \in Path, fs_mkdir(p) PROVE IInv'
    BY <1>3, <1>x, MkdirInv
  <1>4. ASSUME NEW p \in Path, fs_touch(p) PROVE IInv'
    BY <1>4, <1>x, NewEmptyInv, FailInv DEF fs_touch
  <1>5. ASSUME NEW p \in Path, NEW len \in TextLen, fs_write(p, len) PROVE IInv'
    BY <1>5, <1>x, WriteInv
  <1>6. ASSUME NEW nm \in RawName, NEW len \in TextLen, fs_write_cwd(nm, len) PROVE IInv'
    <2> DEFINE n    == Lookup(fs_cwd, nm)
               text == Crypt(Plain(len))
    <2>1. /\ fs_cwd \in nodes /\ fs_cwd \in HeapAddr /\ is_dir[fs_cwd]
          /\ text \in Content
      BY <1>1, CryptFacts DEF TypeOK, Links, DirsAreDirs
    <2>2. CASE n = NULL /\ NewFile([dir |-> fs_cwd, name |-> nm], text)
      <3>1. \A k \in Listed(fs_cwd) : name[k] # nm
        BY <1>1, <2>1, <2>2, LookupFacts
      <3> QED
        BY <1>6, <2>1, <2>2, <3>1, NewFileInv DEF fs_write_cwd
    <2>3. CASE /\ n # NULL /\ Fits(heap_offset, len + 1)
               /\ data' = [data EXCEPT ![n] = text]
               /\ heap_offset' = OffsetAfter(heap_offset, len + 1)
               /\ ret' = Ok
               /\ out' = NoText
               /\ UNCHANGED <<nodes, name, is_dir, parent, kids, fs_root, fs_cwd,
                              snaps, clone>>
      <3>1. data' \in [HeapAddr -> Content \cup {NoText}]
        BY <1>1, <2>1, <2>3 DEF TypeOK
      <3>2. Quiet /\ Results'
        BY <1>6, <2>3 DEF fs_write_cwd, Results
      <3> QED
        BY <2>3, <3>1, <3>2, BufferInv
    <2>4. CASE Quiet /\ Fail
      BY <2>4, FailInv
    <2> QED
      BY <1>6, <2>2, <2>3, <2>4 DEF fs_write_cwd
  <1>7. ASSUME NEW p \in Path, fs_read(p) PROVE IInv'
    BY <1>7, ReadInv
  <1>8. ASSUME NEW p \in Path, fs_chdir(p) PROVE IInv'
    BY <1>8, ChdirInv
  <1>9. ASSUME NEW p \in Path, fs_unlink(p) \/ fs_rmdir(p) PROVE IInv'
    <2>1. CASE Quiet /\ Fail
      BY <2>1, FailInv
    <2>2. CASE Quiet /\ Resolve(p) # NULL /\ Drop(Resolve(p))
      BY <1>2, <2>2, DropInv
    <2> QED
      BY <1>9, <2>1, <2>2 DEF fs_unlink, fs_rmdir
  <1>10. ASSUME NEW p \in Path, NEW q \in Path, fs_rename(p, q) PROVE IInv'
    <2>1. CASE Quiet /\ Fail
      BY <2>1, FailInv
    <2>2. ASSUME Quiet, Resolve(p) # NULL, Resolve(p) # fs_root,
                 NEW v \in Vacant(q), Relink(Resolve(p), v.dir, v.name)
          PROVE  IInv'
      <3>1. /\ v.dir \in nodes /\ is_dir[v.dir] /\ v.name \in Name
            /\ \A k \in Listed(v.dir) : name[k] # v.name
        BY <1>x, <1>1, VacantFacts
      <3>2. Resolve(p) \in nodes /\ Resolve(p) \notin SnapRoots \cup {fs_root}
        BY <1>1, <2>2, ResolveFacts DEF Links, RootsUnlisted
      <3> QED
        BY <2>2, <3>1, <3>2, RelinkInv
    <2> QED
      BY <1>10, <2>1, <2>2 DEF fs_rename
  <1>11. ASSUME NEW p \in Path, NEW q \in Path, fs_copy(p, q) PROVE IInv'
    <2>1. CASE Quiet /\ Fail
      BY <2>1, FailInv
    <2>2. ASSUME Quiet, NEW v \in Vacant(q), NewEmpty(v, FALSE) PROVE IInv'
      BY <1>x, <2>2, NewEmptyInv
    <2>3. ASSUME Quiet, Resolve(p) # NULL, data[Resolve(p)] # NoText,
                 NEW v \in Vacant(q), NewFile(v, data[Resolve(p)])
          PROVE  IInv'
      <3>1. data[Resolve(p)] \in Content
        BY <1>1, <1>2, <2>3 DEF TypeOK
      <3> QED
        BY <1>x, <2>3, <3>1, NewFileAtInv
    <2> QED
      BY <1>11, <2>1, <2>2, <2>3 DEF fs_copy
  <1>12. ASSUME NEW s \in SnapName, fs_snap_create(s) PROVE IInv'
    BY <1>12, CloneBegins, FailInv DEF fs_snap_create
  <1>13. ASSUME NEW s \in SnapName, fs_snap_restore(s) PROVE IInv'
    <2>1. CASE Quiet /\ Fail
      BY <2>1, FailInv
    <2>2. ASSUME NEW i \in SnapNamed(s),
                 fs_root' = snaps[i].root, fs_cwd' = snaps[i].root,
                 ret' = Ok, out' = NoText,
                 UNCHANGED <<heap_offset, tree, snaps, clone>>
          PROVE  IInv'
      <3>1. Quiet /\ Results'
        BY <1>13, <2>2 DEF fs_snap_restore, Results
      <3>2. snaps[i].root \in SnapRoots
        BY <2>2 DEF SnapNamed, SnapRoots
      <3>3. /\ fs_root' \in SnapRoots \cup {fs_root}
            /\ fs_cwd' \in nodes /\ is_dir[fs_cwd']
        BY <1>1, <2>2, <3>2 DEF Links, DirsAreDirs
      <3>4. /\ UNCHANGED <<nodes, name, is_dir, parent, kids, snaps, clone>>
            /\ data' \in [HeapAddr -> Content \cup {NoText}]
            /\ heap_offset' \in 0 .. (KHEAP_SIZE - 1)
        BY <1>1, <2>2 DEF tree, TypeOK
      <3>5. heap_offset <= heap_offset'
        BY <1>1, <2>2, Constants DEF TypeOK
      <3> QED
        BY <3>1, <3>3, <3>4, <3>5, SameTreeInv
    <2> QED
      BY <1>13, <2>1, <2>2 DEF fs_snap_restore
  <1>14. CASE fs_clone_tree
    <2>1. clone.todo # <<>>
      BY <1>14 DEF fs_clone_tree
    <2>2. CASE Fits(heap_offset, NODE_SIZE)
      BY <1>14, <2>1, <2>2, CloneCopyInv
    <2>3. CASE ~Fits(heap_offset, NODE_SIZE)
      <3>1. /\ clone' = [clone EXCEPT !.todo = Tail(@)]
            /\ UNCHANGED <<heap_offset, tree, fs_root, fs_cwd, snaps, ret, out>>
        BY <1>14, <2>3 DEF fs_clone_tree
      <3> QED
        BY <2>1, <3>1, CloneDropInv
    <2> QED
      BY <2>2, <2>3
  <1>15. CASE SnapCreateEnd
    BY <1>15, SnapCreateEndInv
  <1>16. CASE UNCHANGED vars
    <2>1. UNCHANGED <<heap_offset, nodes, name, is_dir, data, parent, kids, fs_root,
                      fs_cwd, snaps, clone, ret, out>>
      BY <1>16 DEF vars, tree
    <2>2. \A f : FrameOK(f) => FrameOK(f)'
      BY <2>1 DEF FrameOK, Listed
    <2>3. CloneOK'
      BY <2>1, <2>2 DEF IInv, CloneOK, Listed
    <2> QED
      BY <2>1, <2>3 DEF IInv, TypeOK, NodesApart, Links, WellLinked, UniqueNames,
        RootsUnlisted, DirsAreDirs, SnapRoots, Listed
  <1> QED
    BY <1>3, <1>4, <1>5, <1>6, <1>7, <1>8, <1>9, <1>10, <1>11, <1>12, <1>13,
      <1>14, <1>15, <1>16 DEF Next

LEMMA Inductive == Spec => []IInv
  BY InitIInv, NextIInv, PTL DEF Spec

-----------------------------------------------------------------------------
(* The theorems *)

\* Every variable keeps its type: no operation of fs.c makes a child list hold
\* anything but nodes, a root or current directory that is no node, or a bump
\* pointer beyond the heap.
THEOREM TypeCorrect == Spec => []TypeOK
  BY Inductive, PTL DEF IInv

\* fs_new_node's and fs_clone_tree's nodes never share a byte.
THEOREM Apart == Spec => []NodesApart
  BY Inductive, PTL DEF IInv

\* A directory's list and its children's parent pointers always agree, through
\* every create, remove, rename, copy, snapshot and restore.
THEOREM TwoWayLinks == Spec => []WellLinked
  BY Inductive, PTL DEF IInv, Links

\* No directory ever lists a name twice, not even a directory of a snapshot.
THEOREM NamesUnique == Spec => []UniqueNames
  BY Inductive, PTL DEF IInv, Links

\* The live root and the snapshots' roots are never in a directory's list,
\* whatever fs_rename moves.
THEOREM RootsAtTop == Spec => []RootsUnlisted
  BY Inductive, PTL DEF IInv, Links

\* The roots and the current directory are always directories.
THEOREM RootsAreDirs == Spec => []DirsAreDirs
  BY Inductive, PTL DEF IInv, Links

-----------------------------------------------------------------------------
(* The contents of files *)

\* Contents may be stored at an address when they are encrypted, or none.
Sealed(text) == text # NoText => text.sealed

LEMMA StoreSealed ==
    ASSUME TypeOK, EncryptedAtRest, NEW n, NEW text, Sealed(text),
           data' = [data EXCEPT ![n] = text], ~out'.sealed
    PROVE  EncryptedAtRest'
  BY DEF EncryptedAtRest, Sealed, TypeOK

LEMMA NewFileSealed ==
    ASSUME TypeOK, EncryptedAtRest, NEW v, NEW text, text.sealed, NewFile(v, text)
    PROVE  EncryptedAtRest'
  <1>1. PICK kept \in {text, NoText} :
           data' = [data EXCEPT ![PtrAt(heap_offset)] = kept]
    BY DEF NewFile, NewNode
  <1>2. Sealed(kept) /\ ~out'.sealed
    BY DEF Sealed, NewFile, NoText
  <1> QED
    BY <1>1, <1>2, StoreSealed

LEMMA NewEmptySealed ==
    ASSUME TypeOK, EncryptedAtRest, NEW v, NEW dir, NewEmpty(v, dir)
    PROVE  EncryptedAtRest'
  <1>1. Sealed(NoText) /\ ~out'.sealed
    BY DEF Sealed, NewEmpty, NoText
  <1>2. data' = [data EXCEPT ![PtrAt(heap_offset)] = NoText]
    BY DEF NewEmpty, NewNode
  <1> QED
    BY <1>1, <1>2, StoreSealed

LEMMA InitSealed == Init => EncryptedAtRest
  BY DEF Init, EncryptedAtRest, NoText

LEMMA ChdirSealed ==
    ASSUME EncryptedAtRest, NEW p, fs_chdir(p)
    PROVE  EncryptedAtRest'
  BY DEF fs_chdir, Fail, tree, NoText, EncryptedAtRest

LEMMA CreateSealed ==
    ASSUME TypeOK, EncryptedAtRest, NEW p,
           fs_mkdir(p) \/ fs_touch(p) \/ \E len : fs_write(p, len)
    PROVE  EncryptedAtRest'
  <1>1. \A len : Crypt(Plain(len)).sealed
    BY DEF Crypt, Plain
  <1>2. Fail => EncryptedAtRest'
    BY DEF Fail, tree, NoText, EncryptedAtRest
  <1> QED
    BY <1>1, <1>2, NewEmptySealed, NewFileSealed DEF fs_mkdir, fs_touch, fs_write

LEMMA ReadSealed ==
    ASSUME IInv, EncryptedAtRest, NEW p, fs_read(p)
    PROVE  EncryptedAtRest'
  <1>1. TypeOK /\ Links
    BY DEF IInv
  <1>2. CASE Fail
    BY <1>2 DEF Fail, tree, NoText, EncryptedAtRest
  <1>3. CASE /\ Resolve(p) # NULL /\ data[Resolve(p)] # NoText
             /\ out' = Crypt(data[Resolve(p)])
             /\ UNCHANGED tree
    <2>1. data[Resolve(p)] \in Content /\ data[Resolve(p)].sealed
      BY <1>1, <1>3, ResolveFacts DEF TypeOK, EncryptedAtRest
    <2>2. ~out'.sealed
      BY <1>3, <2>1 DEF Crypt, Content
    <2> QED
      BY <1>3, <2>2 DEF tree, EncryptedAtRest
  <1> QED
    BY <1>2, <1>3 DEF fs_read

LEMMA NextSealed == IInv /\ EncryptedAtRest /\ [Next]_vars => EncryptedAtRest'
  <1> SUFFICES ASSUME IInv, EncryptedAtRest, [Next]_vars PROVE EncryptedAtRest'
    OBVIOUS
  <1>1. TypeOK /\ Links
    BY DEF IInv
  <1>2. ASSUME NEW p \in Path, Resolve(p) # NULL PROVE Resolve(p) \in HeapAddr
    BY <1>1, <1>2, ResolveFacts DEF TypeOK
  <1>3. ASSUME UNCHANGED data, ~out'.sealed PROVE EncryptedAtRest'
    BY <1>3 DEF EncryptedAtRest
  <1>4. Fail => EncryptedAtRest'
    BY <1>3 DEF Fail, tree, NoText
  <1>5. \A len : Crypt(Plain(len)).sealed
    BY DEF Crypt, Plain
  <1>6. ASSUME NEW p \in Path,
               \/ fs_mkdir(p) \/ fs_touch(p)
               \/ \E len \in TextLen : fs_write(p, len)
        PROVE  EncryptedAtRest'
    BY <1>1, <1>6, CreateSealed
  <1>7. ASSUME NEW nm \in RawName, NEW len \in TextLen, fs_write_cwd(nm, len)
        PROVE  EncryptedAtRest'
    <2> DEFINE text == Crypt(Plain(len))
    <2>1. CASE NewFile([dir |-> fs_cwd, name |-> nm], text)
      BY <1>1, <1>5, <2>1, NewFileSealed
    <2>2. CASE data' = [data EXCEPT ![Lookup(fs_cwd, nm)] = text] /\ out' = NoText
      BY <1>1, <1>5, <2>2, StoreSealed DEF Sealed, NoText
    <2> QED
      BY <1>4, <1>7, <2>1, <2>2 DEF fs_write_cwd
  <1>8. ASSUME NEW p \in Path, fs_read(p) PROVE EncryptedAtRest'
    BY <1>8, ReadSealed
  <1>9. ASSUME NEW p \in Path, fs_chdir(p) \/ fs_unlink(p) \/ fs_rmdir(p)
        PROVE  EncryptedAtRest'
    BY <1>3, <1>4, <1>9 DEF fs_chdir, fs_unlink, fs_rmdir, Drop, tree, NoText
  <1>10. ASSUME NEW p \in Path, NEW q \in Path, fs_rename(p, q) PROVE EncryptedAtRest'
    BY <1>3, <1>4, <1>10 DEF fs_rename, Relink, NoText
  <1>11. ASSUME NEW p \in Path, NEW q \in Path, fs_copy(p, q) PROVE EncryptedAtRest'
    <2>1. ASSUME Resolve(p) # NULL, data[Resolve(p)] # NoText
          PROVE  data[Resolve(p)].sealed
      BY <1>2, <2>1 DEF EncryptedAtRest
    <2> QED
      BY <1>1, <1>4, <1>11, <2>1, NewEmptySealed, NewFileSealed DEF fs_copy
  <1>12. ASSUME NEW s \in SnapName, fs_snap_create(s) \/ fs_snap_restore(s)
         PROVE  EncryptedAtRest'
    BY <1>3, <1>4, <1>12 DEF fs_snap_create, fs_snap_restore, tree, NoText,
      EncryptedAtRest
  <1>13. CASE fs_clone_tree
    <2> DEFINE orig == Head(Head(clone.todo).sibs)
               text == IF is_dir[orig] THEN NoText ELSE data[orig]
    <2>1. UNCHANGED out
      BY <1>13 DEF fs_clone_tree
    <2>2. CASE UNCHANGED tree
      BY <2>1, <2>2 DEF tree, EncryptedAtRest
    <2>3. CASE ~UNCHANGED tree
      <3>1. orig \in HeapAddr
        <4>1. clone.todo # <<>> /\ clone.todo \in Seq(Frame)
          BY <1>1, <1>13 DEF fs_clone_tree, TypeOK
        <4>2. OneToOne(clone.todo, Into)
          BY DEF IInv, CloneOK
        <4>3. Head(clone.todo) \in ToSet(clone.todo) /\ Head(clone.todo) \in Frame
          BY <4>1, <4>2, HeadAndTail
        <4>4. FrameOK(Head(clone.todo)) /\ Head(clone.todo).sibs # <<>>
          BY <4>3 DEF IInv, CloneOK
        <4>5. Head(clone.todo).sibs \in Seq(HeapAddr)
          BY <4>3 DEF Frame
        <4> QED
          BY <4>4, <4>5, HeadAndTail DEF FrameOK
      <3>2. PICK kept \in {text, NoText} :
               data' = [data EXCEPT ![PtrAt(heap_offset)] = kept]
        BY <1>13, <2>3 DEF fs_clone_tree, tree
      <3>3. Sealed(kept)
        BY <3>1 DEF Sealed, EncryptedAtRest
      <3> QED
        BY <1>1, <2>1, <3>2, <3>3, StoreSealed DEF EncryptedAtRest
    <2> QED
      BY <2>2, <2>3
  <1>14. CASE SnapCreateEnd
    BY <1>3, <1>14 DEF SnapCreateEnd, NoText
  <1>15. CASE UNCHANGED vars
    BY <1>15 DEF vars, tree, EncryptedAtRest
  <1> QED
    BY <1>6, <1>7, <1>8, <1>9, <1>10, <1>11, <1>12, <1>13, <1>14, <1>15 DEF Next

\* Files hold only encrypted bytes and fs_read hands out only plain ones, for
\* any sequence of writes, copies and snapshots.
THEOREM Encrypted == Spec => []EncryptedAtRest
  BY InitSealed, NextSealed, Inductive, PTL DEF Spec

-----------------------------------------------------------------------------
(* fs_getcwd *)

FsName == Name \cup RawName \cup {RootName}
CwdStart == [node |-> fs_cwd, path |-> <<>>]
UpFrom(at) ==
    IF at.node \in {NULL, fs_root} THEN at
    ELSE [node |-> parent[at.node], path |-> <<name[at.node]>> \o at.path]
Ascent(f, n) == f = [k \in 0 .. n |-> IF k = 0 THEN CwdStart ELSE UpFrom(f[k - 1])]

\* The walk of fs_getcwd exists, however long it is.
LEMMA AscentExists == ASSUME NEW n \in Nat PROVE \E f : Ascent(f, n)
  <1> SUFFICES ASSUME NEW bad \in {m \in Nat : ~\E f : Ascent(f, m)},
                      \A m \in {m \in Nat : ~\E f : Ascent(f, m)} : bad <= m
               PROVE  FALSE
    BY LeastNat
  <1>1. CASE bad = 0
    <2> DEFINE g == [k \in 0 .. 0 |-> CwdStart]
    <2>1. g = [k \in 0 .. 0 |-> IF k = 0 THEN CwdStart ELSE UpFrom(g[k - 1])]
      OBVIOUS
    <2> HIDE DEF g
    <2>2. Ascent(g, 0)
      BY <2>1 DEF Ascent
    <2> QED
      BY <1>1, <2>2
  <1>2. CASE bad # 0
    <2>1. bad - 1 \in Nat /\ ~(bad <= bad - 1)
      BY <1>2
    <2>2. PICK f : Ascent(f, bad - 1)
      BY <2>1
    <2> DEFINE g == [k \in 0 .. bad |-> IF k = bad THEN UpFrom(f[bad - 1]) ELSE f[k]]
    <2>3. ASSUME NEW k \in 0 .. bad
          PROVE  g[k] = IF k = 0 THEN CwdStart ELSE UpFrom(g[k - 1])
      <3>1. CASE k = bad
        BY <1>2, <2>1, <3>1
      <3>2. CASE k # bad
        <4>1. k \in 0 .. (bad - 1) /\ (k # 0 => k - 1 \in 0 .. bad /\ k - 1 # bad)
          BY <1>2, <3>2
        <4>2. f[k] = IF k = 0 THEN CwdStart ELSE UpFrom(f[k - 1])
          BY <2>2, <4>1 DEF Ascent
        <4>3. g[k] = f[k] /\ (k # 0 => g[k - 1] = f[k - 1])
          BY <3>2, <4>1
        <4> HIDE DEF g
        <4> QED
          BY <4>2, <4>3
      <3> QED
        BY <3>1, <3>2
    <2>4. g = [k \in 0 .. bad |-> g[k]]
      OBVIOUS
    <2> HIDE DEF g
    <2>5. g = [k \in 0 .. bad |-> IF k = 0 THEN CwdStart ELSE UpFrom(g[k - 1])]
      BY <2>3, <2>4
    <2>6. Ascent(g, bad)
      BY <2>5 DEF Ascent
    <2> QED
      BY <2>6
  <1> QED
    BY <1>1, <1>2

LEMMA GetcwdIs == \E f : Ascent(f, CwdMax) /\ fs_getcwd = f[CwdMax].path
  <1>1. \E f : Ascent(f, CwdMax)
    BY AscentExists, CwdAssumption
  <1>2. \E f : f = [k \in 0 .. CwdMax |->
                      IF k = 0 THEN [node |-> fs_cwd, path |-> <<>>]
                      ELSE LET at == f[k - 1]
                           IN  IF at.node \in {NULL, fs_root} THEN at
                               ELSE [node |-> parent[at.node],
                                     path |-> <<name[at.node]>> \o at.path]]
    BY <1>1 DEF Ascent, UpFrom, CwdStart
  <1> QED
    BY <1>2 DEF Ascent, UpFrom, CwdStart, fs_getcwd

\* The path is a sequence of names, and fits in the buffer.
LEMMA GetcwdPath ==
    ASSUME TypeOK
    PROVE  fs_getcwd \in Seq(FsName) /\ Len(fs_getcwd) <= CwdMax
  <1>0. CwdMax \in Nat
    BY CwdAssumption
  <1>1. PICK f : Ascent(f, CwdMax) /\ fs_getcwd = f[CwdMax].path
    BY GetcwdIs
  <1>2. /\ f[0] = CwdStart
        /\ \A k \in 0 .. CwdMax : k # 0 => f[k] = UpFrom(f[k - 1])
    BY <1>0, <1>1 DEF Ascent
  <1> DEFINE good(k) == /\ f[k].node \in HeapAddr \cup {NULL}
                        /\ f[k].path \in Seq(FsName) /\ Len(f[k].path) <= k
             bads == {k \in Nat : k <= CwdMax /\ ~good(k)}
  <1>3. bads = {}
    <2> SUFFICES ASSUME bads # {} PROVE FALSE
      OBVIOUS
    <2>1. PICK k \in bads : \A m \in bads : k <= m
      BY LeastNat
    <2>2. CASE k = 0
      <3>1. f[0].node \in HeapAddr /\ f[0].path = <<>>
        BY <1>2 DEF CwdStart, TypeOK
      <3>2. <<>> \in Seq(FsName) /\ Len(<<>>) = 0
        OBVIOUS
      <3> QED
        BY <2>1, <2>2, <3>1, <3>2
    <2>3. CASE k # 0
      <3> DEFINE at == f[k - 1]
      <3>1. k - 1 \in Nat /\ k - 1 <= CwdMax /\ ~(k <= k - 1)
        BY <1>0, <2>1, <2>3
      <3>2. /\ at.node \in HeapAddr \cup {NULL}
            /\ at.path \in Seq(FsName) /\ Len(at.path) <= k - 1
        BY <2>1, <3>1
      <3>3. f[k] = UpFrom(at)
        BY <1>0, <1>2, <2>1, <2>3
      <3> HIDE DEF at
      <3>4. CASE at.node \in {NULL, fs_root}
        <4>1. f[k] = at /\ Len(at.path) \in Nat
          BY <3>2, <3>3, <3>4, LenProperties DEF UpFrom
        <4>2. Len(at.path) <= k
          BY <2>1, <3>2, <4>1
        <4> QED
          BY <2>1, <3>2, <4>1, <4>2
      <3>5. CASE at.node \notin {NULL, fs_root}
        <4>1. at.node \in HeapAddr
          BY <3>2, <3>5
        <4>2. parent[at.node] \in HeapAddr \cup {NULL} /\ name[at.node] \in FsName
          BY <4>1 DEF TypeOK, FsName
        <4>3. f[k] = [node |-> parent[at.node], path |-> <<name[at.node]>> \o at.path]
          BY <3>3, <3>5 DEF UpFrom
        <4> DEFINE longer == <<name[at.node]>> \o at.path
        <4>4. longer \in Seq(FsName) /\ Len(longer) = 1 + Len(at.path)
          <5>1. <<name[at.node]>> \in Seq(FsName) /\ Len(<<name[at.node]>>) = 1
            BY <4>2
          <5> QED
            BY <3>2, <5>1, ConcatProperties
        <4>5. f[k].path = longer /\ f[k].node = parent[at.node]
          BY <4>3
        <4> HIDE DEF longer
        <4>6. Len(longer) <= k
          BY <2>1, <3>2, <4>4, LenProperties
        <4> QED
          BY <2>1, <4>2, <4>4, <4>5, <4>6
      <3> QED
        BY <3>4, <3>5
    <2> QED
      BY <2>2, <2>3
  <1>4. good(CwdMax)
    BY <1>0, <1>3
  <1> QED
    BY <1>1, <1>4

LEMMA GetcwdSame ==
    ASSUME UNCHANGED <<fs_cwd, fs_root, parent, name>>
    PROVE  fs_getcwd' = fs_getcwd
  BY DEF fs_getcwd

-----------------------------------------------------------------------------
(* Sessions *)

SessionOK ==
    /\ current_user \in users
    /\ editor \in [active : BOOLEAN, name : RawName \cup {RootName},
                   len : 0 .. (EditorMax - 1)]
    /\ editor.active => editor.name \in RawName

ShellIInv == IInv /\ EncryptedAtRest /\ SessionOK

\* What a command does to the filesystem.
FsStep == Next \/ (\E p : fs_chdir(p)) \/ UNCHANGED vars

-----------------------------------------------------------------------------
LEMMA SaveStep == SessionOK /\ EditorEscape => Next
  <1> SUFFICES ASSUME SessionOK, EditorEscape PROVE Next
    OBVIOUS
  <1>1. /\ editor.name \in RawName
        /\ editor.len \in 0 .. (EditorMax - 1)
        /\ editor_save_file
    BY DEF SessionOK, EditorEscape
  <1>2. PathOf[editor.name] \in Path
    BY <1>1, ShellAssumption
  <1>3. editor.len # 0 => editor.len \in TextLen
    BY <1>1, ShellAssumption
  <1> QED
    BY <1>1, <1>2, <1>3 DEF editor_save_file, Next

LEMMA CommandStep == SessionOK /\ [ShellNext]_shell_vars => FsStep
  <1> SUFFICES ASSUME SessionOK, [ShellNext]_shell_vars PROVE FsStep
    OBVIOUS
  <1>1. CASE mkdir \/ touch \/ cat \/ write \/ rm \/ rmdir
    BY <1>1 DEF mkdir, touch, cat, write, rm, rmdir, Permitted, Given, FsStep, Next
  <1>2. CASE mv \/ cp
    BY <1>2 DEF mv, cp, Permitted, Given, FsStep, Next
  <1>3. CASE snap_create \/ snap_restore
    BY <1>3 DEF snap_create, snap_restore, Permitted, FsStep, Next
  <1>4. CASE cmd_cd_up \/ \E p \in Given : cmd_cd(p)
    BY <1>4 DEF cmd_cd_up, cmd_cd, FsStep
  <1>5. CASE (\E u \in users : cmd_login(u)) \/ (\E nm \in RawName : editor_start(nm))
    BY <1>5 DEF cmd_login, editor_start, FsStep
  <1>6. CASE EditorType \/ EditorErase
    BY <1>6 DEF EditorType, EditorErase, FsStep
  <1>7. CASE EditorEscape
    BY <1>7, SaveStep DEF FsStep
  <1>8. CASE fs_clone_tree \/ SnapCreateEnd
    BY <1>8 DEF FsStep, Next
  <1>9. CASE UNCHANGED shell_vars
    BY <1>9 DEF shell_vars, FsStep
  <1> QED
    BY <1>1, <1>2, <1>3, <1>4, <1>5, <1>6, <1>7, <1>8, <1>9 DEF ShellNext

LEMMA SessionNext == SessionOK /\ [ShellNext]_shell_vars => SessionOK'
  <1> SUFFICES ASSUME SessionOK, [ShellNext]_shell_vars PROVE SessionOK'
    OBVIOUS
  <1> USE ShellAssumption DEF SessionOK, users
  <1>1. CASE UNCHANGED session
    BY <1>1 DEF session
  <1>2. ASSUME NEW u \in users, cmd_login(u) PROVE SessionOK'
    BY <1>2 DEF cmd_login
  <1>3. ASSUME NEW nm \in RawName, editor_start(nm) PROVE SessionOK'
    BY <1>3 DEF editor_start
  <1>4. CASE EditorType
    BY <1>4 DEF EditorType
  <1>5. CASE EditorErase
    BY <1>5 DEF EditorErase
  <1>6. CASE EditorEscape
    BY <1>6 DEF EditorEscape, EditorOff
  <1>7. CASE UNCHANGED shell_vars
    BY <1>1, <1>7 DEF shell_vars
  <1> QED
    BY <1>1, <1>2, <1>3, <1>4, <1>5, <1>6, <1>7 DEF ShellNext

LEMMA ShellInductive == ShellSpec => []ShellIInv
  <1>1. ShellInit => ShellIInv
    <2>1. ShellInit => SessionOK
      BY ShellAssumption DEF ShellInit, SessionOK, EditorOff, users, perms
    <2> QED
      BY <2>1, InitIInv, InitSealed DEF ShellInit, ShellIInv
  <1>2. ShellIInv /\ [ShellNext]_shell_vars => ShellIInv'
    <2> SUFFICES ASSUME ShellIInv, [ShellNext]_shell_vars PROVE ShellIInv'
      OBVIOUS
    <2>1. FsStep /\ SessionOK'
      BY CommandStep, SessionNext DEF ShellIInv
    <2>2. CASE [Next]_vars
      BY <2>1, <2>2, NextIInv, NextSealed DEF ShellIInv
    <2>3. ASSUME NEW p, fs_chdir(p) PROVE ShellIInv'
      BY <2>1, <2>3, ChdirInv, ChdirSealed DEF ShellIInv
    <2> QED
      BY <2>1, <2>2, <2>3 DEF FsStep
  <1> QED
    BY <1>1, <1>2, PTL DEF ShellSpec

-----------------------------------------------------------------------------
(* Saving *)

\* What SavedAsTyped asks of a save of len characters under the name nm.
SavedUnder(nm, len) ==
    \E n \in Listed(fs_cwd)' :
        /\ name'[n] = nm
        /\ data'[n] = Crypt(Plain(len))
        /\ \A m \in nodes \ {n} : data'[m] = data[m]

\* A file that is made: it is the new first child of the current directory.
LEMMA NewFileStored ==
    ASSUME IInv, NEW nm \in RawName, NEW len \in TextLen,
           NewFile([dir |-> fs_cwd, name |-> nm], Crypt(Plain(len))), ret' = Ok
    PROVE  SavedUnder(nm, len)
  <1> DEFINE n == PtrAt(heap_offset)
  <1>1. n \in HeapAddr /\ n \notin nodes
    BY FreshNode DEF NewFile
  <1>2. fs_cwd \in HeapAddr /\ kids[fs_cwd] \in Seq(HeapAddr) /\ fs_cwd' = fs_cwd
    BY DEF IInv, TypeOK, NewFile
  <1>3. /\ kids' = [kids EXCEPT ![fs_cwd] = <<n>> \o @]
        /\ name' = [name EXCEPT ![n] = nm]
        /\ data' = [data EXCEPT ![n] = Crypt(Plain(len))]
    <2> DEFINE v == [dir |-> fs_cwd, name |-> nm]
               text == Crypt(Plain(len))
               stored == Fits(OffsetAfter(heap_offset, NODE_SIZE), text.len + 1)
    <2>1. v.dir = fs_cwd /\ v.name = nm
      OBVIOUS
    <2>2. NewNode(v.dir, v.name, FALSE, IF stored THEN text ELSE NoText)
      BY DEF NewFile
    <2>3. stored
      BY DEF NewFile, Ok, Error
    <2> HIDE DEF v, text, stored
    <2> QED
      BY <2>1, <2>2, <2>3 DEF NewNode, text
  <1> HIDE DEF n
  <1>4. kids'[fs_cwd'] = <<n>> \o kids[fs_cwd]
    BY <1>2, <1>3 DEF IInv, TypeOK
  <1>5. n \in Listed(fs_cwd)'
    BY <1>1, <1>2, <1>4, HeadInsertion DEF Listed
  <1>6. /\ name'[n] = nm
        /\ data'[n] = Crypt(Plain(len))
        /\ \A m \in nodes \ {n} : data'[m] = data[m]
    BY <1>1, <1>3 DEF IInv, TypeOK
  <1> QED
    BY <1>5, <1>6 DEF SavedUnder

\* A file that is overwritten: it stays where the lookup found it.
LEMMA OldFileStored ==
    ASSUME IInv, NEW nm, NEW len, Lookup(fs_cwd, nm) # NULL,
           data' = [data EXCEPT ![Lookup(fs_cwd, nm)] = Crypt(Plain(len))],
           UNCHANGED <<name, kids, fs_cwd>>
    PROVE  SavedUnder(nm, len)
  <1> DEFINE n == Lookup(fs_cwd, nm)
  <1>1. n \in Listed(fs_cwd) /\ name[n] = nm /\ n \in HeapAddr
    <2>1. TypeOK /\ Links /\ fs_cwd \in HeapAddr
      BY DEF IInv, TypeOK
    <2>2. n \in Listed(fs_cwd) /\ name[n] = nm
      BY <2>1, LookupFacts
    <2> QED
      BY <2>1, <2>2 DEF Links, WellLinked, TypeOK
  <1>2. n \in Listed(fs_cwd)'
    BY <1>1 DEF Listed
  <1> HIDE DEF n
  <1>3. data' = [data EXCEPT ![n] = Crypt(Plain(len))]
    BY DEF n
  <1>4. /\ name'[n] = nm
        /\ data'[n] = Crypt(Plain(len))
        /\ \A m \in nodes \ {n} : data'[m] = data[m]
    BY <1>1, <1>3 DEF IInv, TypeOK
  <1> QED
    BY <1>2, <1>4 DEF SavedUnder

\* Only ESC turns the editor off.
LEMMA OnlyEscapeLeaves ==
    ASSUME SessionOK, [ShellNext]_shell_vars, editor.active, ~editor'.active
    PROVE  EditorEscape
  <1>1. ~ UNCHANGED session
    BY DEF session
  <1>2. ~ Prompt
    BY DEF Prompt
  <1>3. ~ EditorType /\ ~ EditorErase
    BY DEF EditorType, EditorErase, SessionOK
  <1> QED
    BY <1>1, <1>2, <1>3 DEF ShellNext, shell_vars

-----------------------------------------------------------------------------
(* The theorems *)

\* The types of the session and of the filesystem below it: no command makes
\* the current directory or a root anything but a directory, and the text in
\* the editor leaves a byte for its end.
THEOREM SessionTypes == ShellSpec => []ShellTypeOK
  BY ShellInductive, PTL DEF ShellIInv, IInv, Links, SessionOK, ShellTypeOK

\* The links of the tree agree both ways through every session, cd .. and the
\* editor's names included.
THEOREM SessionLinks == ShellSpec => []WellLinked
  BY ShellInductive, PTL DEF ShellIInv, IInv, Links

\* Neither a command nor the editor makes two entries of one name.
THEOREM SessionNames == ShellSpec => []UniqueNames
  BY ShellInductive, PTL DEF ShellIInv, IInv, Links

\* What users write, copy, edit and save in snapshots is encrypted, and cat
\* shows it decrypted.
THEOREM SessionSealed == ShellSpec => []EncryptedAtRest
  BY ShellInductive, PTL DEF ShellIInv

\* A save that reports no error leaves the whole text under the editor's name
\* in the current directory, whether the file was there or not, and touches no
\* other file.
THEOREM SavesWhole == ShellSpec => SavedAsTyped
  <1>1. ASSUME ShellIInv, [ShellNext]_shell_vars,
               editor.active, ~editor'.active, editor.len > 0, ret' = Ok
        PROVE  SavedUnder(editor.name, editor.len)
    <2> DEFINE nm == editor.name
               len == editor.len
               n == Lookup(fs_cwd, nm)
    <2>1. EditorEscape
      BY <1>1, OnlyEscapeLeaves DEF ShellIInv
    <2>2. nm \in RawName /\ len \in TextLen /\ len # 0
      BY <1>1, ShellAssumption DEF ShellIInv, SessionOK
    <2>3. fs_write_cwd(nm, len)
      BY <2>1, <2>2 DEF EditorEscape, editor_save_file
    <2>4. CASE NewFile([dir |-> fs_cwd, name |-> nm], Crypt(Plain(len)))
      BY <1>1, <2>2, <2>4, NewFileStored DEF ShellIInv
    <2>5. CASE /\ n # NULL
               /\ data' = [data EXCEPT ![n] = Crypt(Plain(len))]
               /\ UNCHANGED <<name, kids, fs_cwd>>
      BY <1>1, <2>5, OldFileStored DEF ShellIInv
    <2>6. ~ Fail
      BY <1>1 DEF Fail, Ok, Error
    <2> QED
      BY <2>3, <2>4, <2>5, <2>6 DEF fs_write_cwd
  <1>2. ShellIInv /\ [ShellNext]_shell_vars =>
            [editor.active /\ ~editor'.active /\ editor.len > 0 /\ ret' = Ok =>
               \E n \in Listed(fs_cwd)' :
                   /\ name'[n] = editor.name
                   /\ data'[n] = Crypt(Plain(editor.len))
                   /\ \A m \in nodes \ {n} : data'[m] = data[m]]_shell_vars
    BY <1>1 DEF SavedUnder
  <1> QED
    BY <1>2, ShellInductive, PTL DEF ShellSpec, SavedAsTyped
=============================================================================
