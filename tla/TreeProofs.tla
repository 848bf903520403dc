----------------------------- MODULE TreeProofs -----------------------------
(***************************************************************************)
(* Whole trees.  What Descents finds by a recursion over sets of paths is  *)
(* first put as walks: functions from positions to nodes, each listed by   *)
(* the one before.  That a node has one parent makes a walk to it unique;  *)
(* that every node has the colour of the directory that lists it keeps the *)
(* trees apart.                                                            *)
(***************************************************************************)
EXTENDS FsProofs, FiniteSetTheorems

\* What Descents is about: lists and names have their types, and the nodes
\* are finitely many.
NamedLists ==
    /\ nodes \subseteq HeapAddr
    /\ name \in [HeapAddr -> FsName]
    /\ kids \in [HeapAddr -> Seq(HeapAddr)]

LEMMA TypesOfLists ==
    TypeOK => NamedLists /\ \A d \in HeapAddr : Listed(d) \subseteq HeapAddr
  BY ElementOfSeq DEF TypeOK, NamedLists, FsName, Listed, ToSet

LEMMA NodeCount ==
    ASSUME nodes \subseteq HeapAddr
    PROVE  IsFiniteSet(nodes) /\ Cardinality(nodes) \in Nat
  <1>1. KHEAP_START \in Int /\ KHEAP_START + KHEAP_SIZE - 1 \in Int
    BY Constants
  <1>2. IsFiniteSet(HeapAddr)
    BY <1>1, FS_Interval DEF HeapAddr
  <1> QED
    BY <1>2, FS_Subset, FS_CardinalityType

-----------------------------------------------------------------------------
(* Descents *)

\* The places one step further down than those in S.
Next1(S) == UNION {Children(x) : x \in S}

\* A chain of places, each a step further down than the one before.
Chain(c, k) ==
    /\ c \in [0 .. k -> Place]
    /\ \A i \in 1 .. k : c[i] \in Children(c[i - 1])

Reach(S) == {x \in Place : \E k \in Nat : \E c : Chain(c, k) /\ c[0] \in S /\ x = c[k]}

LEMMA ChildrenArePlaces ==
    ASSUME NamedLists, NEW x \in Place
    PROVE  /\ Children(x) \subseteq Place
           /\ \A y \in Children(x) : Len(y.path) = Len(x.path) + 1
           /\ Len(x.path) >= Cardinality(nodes) => Children(x) = {}
           /\ Len(x.path) \in Nat
  <1>1. x.path \in Seq(FsName) /\ x.node \in HeapAddr
    BY DEF Place, FsName
  <1>2. Len(x.path) \in Nat /\ Cardinality(nodes) \in Nat
    BY <1>1, LenProperties, NodeCount DEF NamedLists
  <1>3. Listed(x.node) \subseteq HeapAddr
    BY <1>1, ElementOfSeq DEF NamedLists, Listed, ToSet
  <1>4. ASSUME NEW y \in Children(x) PROVE y \in Place /\ Len(y.path) = Len(x.path) + 1
    <2>1. PICK n \in Listed(x.node) : y = [path |-> Append(x.path, name[n]), node |-> n]
      BY <1>4 DEF Children
    <2>2. n \in HeapAddr /\ name[n] \in FsName
      BY <1>3, <2>1 DEF NamedLists
    <2>3. Append(x.path, name[n]) \in Seq(FsName) /\ Len(Append(x.path, name[n])) = Len(x.path) + 1
      BY <1>1, <2>2, AppendProperties
    <2> QED
      BY <2>1, <2>2, <2>3 DEF Place, FsName
  <1> QED
    BY <1>2, <1>4 DEF Children

\* Reach satisfies the equation that defines Descents' recursion.
LEMMA ReachStep ==
    ASSUME NamedLists, NEW S \in SUBSET Place
    PROVE  /\ Next1(S) \in SUBSET Place
           /\ Reach(S) = IF S = {} THEN {} ELSE S \cup Reach(Next1(S))
           /\ Reach(S) \in SUBSET Place
  <1>1. Next1(S) \in SUBSET Place
    BY ChildrenArePlaces DEF Next1
  <1>2. ASSUME NEW x \in S PROVE x \in Reach(S)
    <2> DEFINE c == [i \in 0 .. 0 |-> x]
    <2>1. Chain(c, 0) /\ c[0] \in S /\ x = c[0]
      BY <1>2 DEF Chain
    <2> HIDE DEF c
    <2> QED
      BY <2>1 DEF Reach
  <1>3. ASSUME NEW x \in Reach(Next1(S)) PROVE x \in Reach(S)
    <2>0. PICK k \in Nat : \E c : Chain(c, k) /\ c[0] \in Next1(S) /\ x = c[k]
      BY <1>3 DEF Reach
    <2>1. PICK c : Chain(c, k) /\ c[0] \in Next1(S) /\ x = c[k]
      BY <2>0
    <2>2. PICK s \in S : c[0] \in Children(s)
      BY <2>1 DEF Next1
    <2> DEFINE e == [i \in 0 .. (k + 1) |-> IF i = 0 THEN s ELSE c[i - 1]]
    <2>3. e \in [0 .. (k + 1) -> Place]
      BY <2>1, <2>2 DEF Chain
    <2>4. ASSUME NEW i \in 1 .. (k + 1) PROVE e[i] \in Children(e[i - 1])
      <3>1. CASE i = 1
        BY <2>2, <3>1
      <3>2. CASE i # 1
        <4>1. i - 1 \in 1 .. k /\ i - 1 \in 0 .. (k + 1) /\ i - 1 # 0
          BY <3>2
        <4>2. e[i] = c[i - 1] /\ e[i - 1] = c[(i - 1) - 1]
          BY <4>1
        <4> QED
          BY <2>1, <4>1, <4>2 DEF Chain
      <3> QED
        BY <3>1, <3>2
    <2>5. e[0] = s /\ e[k + 1] = c[k] /\ k + 1 \in Nat
      OBVIOUS
    <2> HIDE DEF e
    <2>6. Chain(e, k + 1)
      BY <2>3, <2>4 DEF Chain
    <2> QED
      BY <1>3, <2>1, <2>2, <2>5, <2>6 DEF Reach
  <1>4. ASSUME NEW x \in Reach(S) PROVE x \in S \cup Reach(Next1(S))
    <2>0. PICK k \in Nat : \E c : Chain(c, k) /\ c[0] \in S /\ x = c[k]
      BY <1>4 DEF Reach
    <2>1. PICK c : Chain(c, k) /\ c[0] \in S /\ x = c[k]
      BY <2>0
    <2>2. CASE k = 0
      BY <2>1, <2>2
    <2>3. CASE k # 0
      <3>1. k - 1 \in Nat /\ 1 \in 1 .. k
        BY <2>3
      <3> DEFINE e == [i \in 0 .. (k - 1) |-> c[i + 1]]
      <3>2. e \in [0 .. (k - 1) -> Place]
        BY <2>1, <3>1 DEF Chain
      <3>3. ASSUME NEW i \in 1 .. (k - 1) PROVE e[i] \in Children(e[i - 1])
        <4>1. i + 1 \in 1 .. k /\ i \in 0 .. (k - 1) /\ i - 1 \in 0 .. (k - 1)
              /\ (i + 1) - 1 = i /\ (i - 1) + 1 = i
          OBVIOUS
        <4>2. e[i] = c[i + 1] /\ e[i - 1] = c[i]
          BY <4>1
        <4> QED
          BY <2>1, <4>1, <4>2 DEF Chain
      <3>4. e[0] = c[1] /\ e[k - 1] = c[k]
        BY <3>1
      <3> HIDE DEF e
      <3>5. Chain(e, k - 1)
        BY <3>2, <3>3 DEF Chain
      <3>6. c[1] \in Children(c[1 - 1]) /\ 1 - 1 = 0
        BY <2>1, <3>1 DEF Chain
      <3>7. e[0] \in Next1(S)
        BY <2>1, <3>4, <3>6 DEF Next1
      <3> QED
        BY <1>4, <2>1, <3>1, <3>4, <3>5, <3>7 DEF Reach
    <2> QED
      BY <2>2, <2>3
  <1>5. CASE S = {}
    <2>1. Next1({}) = {}
      BY DEF Next1
    <2>2. Reach({}) = {}
      BY DEF Reach
    <2> QED
      BY <1>1, <1>5, <2>2
  <1>6. CASE S # {}
    <2>1. Reach(S) = S \cup Reach(Next1(S))
      BY <1>2, <1>3, <1>4
    <2>2. Reach(S) \in SUBSET Place
      BY DEF Reach
    <2> QED
      BY <1>1, <1>6, <2>1, <2>2
  <1> QED
    BY <1>5, <1>6

Recursion(f) ==
    f = [level \in SUBSET Place |->
            IF level = {} THEN {}
            ELSE level \cup f[UNION {Children(x) : x \in level}]]

LEMMA RecursionExists == NamedLists => \E f : Recursion(f)
  <1> SUFFICES ASSUME NamedLists PROVE \E f : Recursion(f)
    OBVIOUS
  <1> DEFINE f == [S \in SUBSET Place |-> Reach(S)]
  <1>1. ASSUME NEW S \in SUBSET Place
        PROVE  f[S] = IF S = {} THEN {} ELSE S \cup f[UNION {Children(x) : x \in S}]
    <2>1. Next1(S) \in SUBSET Place /\ f[Next1(S)] = Reach(Next1(S)) /\ f[S] = Reach(S)
      BY ReachStep
    <2>2. f[S] = IF S = {} THEN {} ELSE S \cup f[Next1(S)]
      BY <2>1, ReachStep
    <2> QED
      BY <2>2 DEF Next1
  <1>2. f = [S \in SUBSET Place |-> f[S]]
    OBVIOUS
  <1> HIDE DEF f
  <1>3. f = [S \in SUBSET Place |-> IF S = {} THEN {} ELSE S \cup f[UNION {Children(x) : x \in S}]]
    BY <1>1, <1>2
  <1> QED
    BY <1>3 DEF Recursion

LEMMA RecursionIsReach ==
    ASSUME NamedLists, NEW f, Recursion(f), NEW S \in SUBSET Place
    PROVE  f[S] = Reach(S)
  <1> DEFINE N == Cardinality(nodes)
             Bad(m) == \E T \in SUBSET Place : f[T] # Reach(T) /\ \A x \in T : Len(x.path) + m >= N
             bads == {m \in Nat : Bad(m)}
  <1>1. N \in Nat
    BY NodeCount DEF NamedLists
  <1>2. ASSUME f[S] # Reach(S) PROVE FALSE
    <2>1. \A x \in S : Len(x.path) + N >= N
      BY <1>1, ChildrenArePlaces
    <2>2. N \in bads
      BY <1>1, <1>2, <2>1
    <2>3. bads \in SUBSET Nat /\ bads # {}
      BY <2>2
    <2> HIDE DEF bads
    <2>4. PICK m \in bads : \A j \in bads : m <= j
      BY <2>3, LeastNat
    <2> USE DEF bads
    <2>5. PICK T \in SUBSET Place : f[T] # Reach(T) /\ \A x \in T : Len(x.path) + m >= N
      BY <2>4
    <2>6. m \in Nat
      BY <2>4
    <2> HIDE DEF bads, Bad, N
    <2>7. f[T] = IF T = {} THEN {} ELSE T \cup f[Next1(T)]
      BY DEF Recursion, Next1
    <2>8. Next1(T) \in SUBSET Place
      BY ReachStep
    <2>9. f[Next1(T)] # Reach(Next1(T))
      BY <2>5, <2>7, ReachStep
    <2>10. CASE m = 0
      <3>1. \A x \in T : Len(x.path) >= N
        BY <2>5, <2>10, ChildrenArePlaces
      <3>2. Next1(T) = {}
        BY <3>1, ChildrenArePlaces DEF Next1, N
      <3>3. f[{}] = {} /\ Reach({}) = {}
        BY ReachStep DEF Recursion
      <3> QED
        BY <2>9, <3>2, <3>3
    <2>11. CASE m # 0
      <3>1. m - 1 \in Nat /\ ~(m <= m - 1)
        BY <2>6, <2>11
      <3>2. ASSUME NEW y \in Next1(T) PROVE Len(y.path) + (m - 1) >= N
        <4>1. PICK x \in T : y \in Children(x)
          BY <3>2 DEF Next1
        <4>2. Len(y.path) = Len(x.path) + 1 /\ Len(x.path) \in Nat
          BY <4>1, ChildrenArePlaces
        <4> QED
          BY <1>1, <2>5, <2>6, <4>2
      <3>3. m - 1 \in bads
        BY <2>8, <2>9, <3>1, <3>2 DEF bads, Bad
      <3> QED
        BY <2>4, <3>1, <3>3
    <2> QED
      BY <2>10, <2>11
  <1> QED
    BY <1>2

LEMMA DescentsIsReach ==
    ASSUME NamedLists, NEW r \in HeapAddr
    PROVE  Descents(r) = Reach({[path |-> <<>>, node |-> r]})
  <1> DEFINE f == CHOOSE f : Recursion(f)
  <1>1. Recursion(f)
    BY RecursionExists
  <1>2. Descents(r) = f[{[path |-> <<>>, node |-> r]}]
    BY DEF Descents, Recursion
  <1> HIDE DEF f
  <1>3. {[path |-> <<>>, node |-> r]} \in SUBSET Place
    <2>1. <<>> \in Seq(FsName)
      OBVIOUS
    <2> QED
      BY <2>1 DEF Place, FsName
  <1> QED
    BY <1>1, <1>2, <1>3, RecursionIsReach

-----------------------------------------------------------------------------
(* Descents as walks *)

\* The walks of k steps that start at r.
Trails(r, k) ==
    {w \in [0 .. k -> HeapAddr] : w[0] = r /\ \A i \in 1 .. k : w[i] \in Listed(w[i - 1])}

\* The names on a walk after its start, and where its first k steps lead.
Spelled(w, k) == [i \in 1 .. k |-> name[w[i]]]
PlaceAt(w, k) == [path |-> Spelled(w, k), node |-> w[k]]

LEMMA SpelledFacts ==
    ASSUME NamedLists, NEW k \in Nat, NEW w \in [0 .. k -> HeapAddr], NEW i \in 0 .. k
    PROVE  /\ Spelled(w, i) \in Seq(FsName)
           /\ Len(Spelled(w, i)) = i
           /\ \A j \in 1 .. i : Spelled(w, i)[j] = name[w[j]]
           /\ PlaceAt(w, i) \in Place
  <1>1. \A j \in 1 .. i : name[w[j]] \in FsName
    BY DEF NamedLists
  <1>2. i \in Nat /\ w[i] \in HeapAddr
    OBVIOUS
  <1>3. Spelled(w, i) \in [1 .. i -> FsName]
    BY <1>1 DEF Spelled
  <1>4. Spelled(w, i) \in Seq(FsName) /\ Len(Spelled(w, i)) = i
    BY <1>2, <1>3, LenProperties
  <1>5. PlaceAt(w, i) \in Place
    BY <1>2, <1>4 DEF PlaceAt, Place, FsName
  <1> QED
    BY <1>3, <1>4, <1>5 DEF Spelled

LEMMA SpelledNext ==
    ASSUME NamedLists, NEW k \in Nat, NEW w \in [0 .. k -> HeapAddr], NEW i \in 1 .. k
    PROVE  Spelled(w, i) = Append(Spelled(w, i - 1), name[w[i]])
  <1> DEFINE s == Spelled(w, i)
             t == Append(Spelled(w, i - 1), name[w[i]])
  <1>1. i - 1 \in 0 .. k /\ i \in 0 .. k /\ name[w[i]] \in FsName
    BY DEF NamedLists
  <1>2. /\ s \in Seq(FsName) /\ Len(s) = i
        /\ \A j \in 1 .. i : s[j] = name[w[j]]
    BY <1>1, SpelledFacts
  <1>3. /\ Spelled(w, i - 1) \in Seq(FsName) /\ Len(Spelled(w, i - 1)) = i - 1
        /\ \A j \in 1 .. (i - 1) : Spelled(w, i - 1)[j] = name[w[j]]
    BY <1>1, SpelledFacts
  <1>4. /\ t \in Seq(FsName) /\ Len(t) = i /\ t[i] = name[w[i]]
        /\ \A j \in 1 .. (i - 1) : t[j] = name[w[j]]
    BY <1>1, <1>3, AppendProperties
  <1> HIDE DEF s, t
  <1>5. \A j \in 1 .. i : s[j] = t[j]
    BY <1>2, <1>4
  <1>6. s = t
    BY <1>2, <1>4, <1>5, SeqEqual
  <1> QED
    BY <1>6 DEF s, t

\* What is found below r are the ends of the walks from r.
LEMMA FoundByWalk ==
    ASSUME NamedLists, NEW r \in HeapAddr, NEW x \in Descents(r)
    PROVE  \E k \in 0 .. Cardinality(nodes) : \E w \in Trails(r, k) : x = PlaceAt(w, k)
  <1> DEFINE top == [path |-> <<>>, node |-> r]
             N == Cardinality(nodes)
  <1>0. x \in Reach({top})
    BY DescentsIsReach
  <1>1. PICK k \in Nat : \E c : Chain(c, k) /\ c[0] \in {top} /\ x = c[k]
    BY <1>0 DEF Reach
  <1>2. PICK c : Chain(c, k) /\ c[0] = top /\ x = c[k]
    BY <1>1
  <1> DEFINE w == [i \in 0 .. k |-> c[i].node]
  <1>3. w \in [0 .. k -> HeapAddr] /\ c \in [0 .. k -> Place]
    BY <1>2 DEF Chain, Place
  <1>4. w[0] = r /\ N \in Nat
    BY <1>2, NodeCount DEF NamedLists
  <1>5. ASSUME NEW i \in 1 .. k
        PROVE  /\ w[i] \in Listed(w[i - 1])
               /\ c[i] = [path |-> Append(c[i - 1].path, name[w[i]]), node |-> w[i]]
               /\ Len(c[i - 1].path) < N
    <2>1. c[i] \in Children(c[i - 1])
      BY <1>2 DEF Chain
    <2>2. i \in 0 .. k /\ i - 1 \in 0 .. k
      OBVIOUS
    <2>3. w[i] = c[i].node /\ w[i - 1] = c[i - 1].node
      BY <2>2
    <2>4. Len(c[i - 1].path) < N
      BY <2>1 DEF Children
    <2>5. PICK n \in Listed(c[i - 1].node) :
              c[i] = [path |-> Append(c[i - 1].path, name[n]), node |-> n]
      BY <2>1 DEF Children
    <2> HIDE DEF w
    <2> QED
      BY <2>3, <2>4, <2>5
  <1> HIDE DEF w, N
  <1>6. w \in Trails(r, k)
    BY <1>3, <1>4, <1>5 DEF Trails
  <1> DEFINE bads == {i \in Nat : i <= k /\ c[i] # PlaceAt(w, i)}
  <1>7. bads = {}
    <2> SUFFICES ASSUME bads # {} PROVE FALSE
      OBVIOUS
    <2>1. PICK i \in bads : \A j \in bads : i <= j
      BY LeastNat
    <2>2. CASE i = 0
      <3>1. Spelled(w, 0) = <<>>
        BY DEF Spelled
      <3> QED
        BY <1>2, <1>4, <2>1, <2>2, <3>1 DEF PlaceAt
    <2>3. CASE i # 0
      <3>1. i \in 1 .. k /\ i - 1 \in Nat /\ i - 1 <= k /\ ~(i <= i - 1)
        BY <2>1, <2>3
      <3>2. c[i - 1].path = Spelled(w, i - 1)
        <4>1. c[i - 1] = PlaceAt(w, i - 1)
          BY <2>1, <3>1
        <4> QED
          BY <4>1 DEF PlaceAt
      <3>3. c[i] = [path |-> Append(Spelled(w, i - 1), name[w[i]]), node |-> w[i]]
        <4>1. c[i] = [path |-> Append(c[i - 1].path, name[w[i]]), node |-> w[i]]
          BY <1>5, <3>1
        <4> QED
          BY <3>2, <4>1
      <3>4. c[i] = PlaceAt(w, i)
        BY <1>3, <3>1, <3>3, SpelledNext DEF PlaceAt
      <3> QED
        BY <2>1, <3>4
    <2> QED
      BY <2>2, <2>3
  <1>8. \A i \in 0 .. k : c[i] = PlaceAt(w, i)
    BY <1>7
  <1>9. k <= N
    <2>1. CASE k = 0
      BY <1>4, <2>1
    <2>2. CASE k # 0
      <3>1. k \in 1 .. k /\ k - 1 \in 0 .. k
        BY <2>2
      <3>2. Len(c[k - 1].path) < N
        BY <1>5, <3>1
      <3>3. Len(Spelled(w, k - 1)) = k - 1
        BY <1>3, <3>1, SpelledFacts
      <3>4. c[k - 1].path = Spelled(w, k - 1)
        <4>1. c[k - 1] = PlaceAt(w, k - 1)
          BY <1>8, <3>1
        <4> QED
          BY <4>1 DEF PlaceAt
      <3> QED
        BY <1>4, <3>1, <3>2, <3>3, <3>4
    <2> QED
      BY <2>1, <2>2
  <1>10. x = PlaceAt(w, k) /\ k \in 0 .. N
    BY <1>2, <1>4, <1>8, <1>9
  <1> QED
    BY <1>6, <1>10 DEF N

LEMMA WalkIsFound ==
    ASSUME NamedLists, NEW r \in HeapAddr, NEW k \in 0 .. Cardinality(nodes),
           NEW w \in Trails(r, k)
    PROVE  PlaceAt(w, k) \in Descents(r)
  <1> DEFINE top == [path |-> <<>>, node |-> r]
             c == [i \in 0 .. k |-> PlaceAt(w, i)]
             N == Cardinality(nodes)
  <1>1. N \in Nat /\ k \in Nat /\ k <= N
    BY NodeCount DEF NamedLists
  <1>2. /\ w \in [0 .. k -> HeapAddr] /\ w[0] = r
        /\ \A i \in 1 .. k : w[i] \in Listed(w[i - 1])
    BY DEF Trails
  <1>3. c \in [0 .. k -> Place]
    BY <1>1, <1>2, SpelledFacts
  <1>4. ASSUME NEW i \in 1 .. k PROVE c[i] \in Children(c[i - 1])
    <2>1. i \in 0 .. k /\ i - 1 \in 0 .. k /\ i - 1 < N
      BY <1>1
    <2>2. c[i] = PlaceAt(w, i) /\ c[i - 1] = PlaceAt(w, i - 1)
      BY <2>1
    <2>3. Len(Spelled(w, i - 1)) = i - 1
      BY <1>1, <1>2, <2>1, SpelledFacts
    <2>4. Spelled(w, i) = Append(Spelled(w, i - 1), name[w[i]])
      BY <1>1, <1>2, SpelledNext
    <2>5. w[i] \in Listed(w[i - 1])
      BY <1>2
    <2> HIDE DEF c
    <2> QED
      BY <2>1, <2>2, <2>3, <2>4, <2>5 DEF Children, PlaceAt
  <1>5. c[0] = top /\ c[k] = PlaceAt(w, k)
    <2>1. Spelled(w, 0) = <<>>
      BY DEF Spelled
    <2> QED
      BY <1>1, <1>2, <2>1 DEF PlaceAt
  <1> HIDE DEF c
  <1>6. Chain(c, k)
    BY <1>3, <1>4 DEF Chain
  <1>7. PlaceAt(w, k) \in Place
    BY <1>1, <1>2, SpelledFacts
  <1>8. PlaceAt(w, k) \in Reach({top})
    BY <1>1, <1>5, <1>6, <1>7 DEF Reach
  <1> QED
    BY <1>8, DescentsIsReach

-----------------------------------------------------------------------------
(* A node has one walk that leads to it *)

Unlisted(r) == \A d \in HeapAddr : r \notin Listed(d)

LEMMA TrailFacts ==
    ASSUME NEW r, NEW k \in Nat, NEW w \in Trails(r, k)
    PROVE  /\ w \in [0 .. k -> HeapAddr] /\ w[0] = r
           /\ \A i \in 0 .. k : w[i] \in HeapAddr
           /\ \A i \in 1 .. k : i - 1 \in 0 .. k /\ w[i - 1] \in HeapAddr
                                /\ w[i] \in Listed(w[i - 1])
  BY DEF Trails

LEMMA TrailPrefix ==
    ASSUME NEW r, NEW k \in Nat, NEW w \in Trails(r, k), NEW i \in 0 .. k
    PROVE  \E v \in Trails(r, i) : v[i] = w[i] /\ \A j \in 0 .. i : v[j] = w[j]
  <1>1. /\ w \in [0 .. k -> HeapAddr] /\ w[0] = r
        /\ \A j \in 1 .. k : w[j] \in Listed(w[j - 1])
    BY DEF Trails
  <1> DEFINE v == [j \in 0 .. i |-> w[j]]
  <1>2. v \in [0 .. i -> HeapAddr] /\ v[0] = r /\ v[i] = w[i] /\ \A j \in 0 .. i : v[j] = w[j]
    BY <1>1
  <1>3. ASSUME NEW j \in 1 .. i PROVE v[j] \in Listed(v[j - 1])
    <2>1. j \in 1 .. k /\ j \in 0 .. i /\ j - 1 \in 0 .. i
      OBVIOUS
    <2> QED
      BY <1>1, <2>1
  <1> HIDE DEF v
  <1>4. v \in Trails(r, i)
    BY <1>2, <1>3 DEF Trails
  <1> QED
    BY <1>2, <1>4

\* Two walks to one node have their ends in common.
LEMMA ClimbTogether ==
    ASSUME TypeOK, WellLinked, NEW r, NEW q, NEW k \in Nat, NEW l \in Nat, k <= l,
           NEW w \in Trails(r, k), NEW v \in Trails(q, l), w[k] = v[l]
    PROVE  \A i \in 0 .. k : w[k - i] = v[l - i]
  <1> DEFINE bads == {i \in Nat : i <= k /\ w[k - i] # v[l - i]}
  <1>1. bads = {}
    <2> SUFFICES ASSUME bads # {} PROVE FALSE
      OBVIOUS
    <2>1. PICK i \in bads : \A j \in bads : i <= j
      BY LeastNat
    <2>2. CASE i = 0
      <3>1. k - 0 = k /\ l - 0 = l
        OBVIOUS
      <3> QED
        BY <2>1, <2>2, <3>1
    <2>3. CASE i # 0
      <3>1. i \in Nat /\ i - 1 \in Nat /\ i - 1 <= k /\ ~(i <= i - 1)
        BY <2>1, <2>3
      <3>2. w[k - (i - 1)] = v[l - (i - 1)]
        BY <2>1, <3>1
      <3>3. /\ k - (i - 1) \in 1 .. k /\ (k - (i - 1)) - 1 = k - i
            /\ l - (i - 1) \in 1 .. l /\ (l - (i - 1)) - 1 = l - i
        BY <2>1, <2>3
      <3>4. w[k - (i - 1)] \in Listed(w[k - i]) /\ w[k - i] \in HeapAddr
        <4>1. \A j \in 1 .. k : w[j - 1] \in HeapAddr /\ w[j] \in Listed(w[j - 1])
          BY TrailFacts
        <4> QED
          BY <3>3, <4>1
      <3>5. v[l - (i - 1)] \in Listed(v[l - i]) /\ v[l - i] \in HeapAddr
        <4>1. \A j \in 1 .. l : v[j - 1] \in HeapAddr /\ v[j] \in Listed(v[j - 1])
          BY TrailFacts
        <4> QED
          BY <3>3, <4>1
      <3>6. w[k - i] = v[l - i]
        BY <3>2, <3>4, <3>5 DEF WellLinked
      <3> QED
        BY <2>1, <3>6
    <2> QED
      BY <2>2, <2>3
  <1> HIDE DEF bads
  <1>2. ASSUME NEW i \in 0 .. k, w[k - i] # v[l - i] PROVE FALSE
    <2>1. i \in Nat /\ i <= k
      OBVIOUS
    <2>2. i \in bads
      BY <1>2, <2>1 DEF bads
    <2> QED
      BY <1>1, <2>2
  <1> QED
    BY <1>2

\* Of two walks to one node, one from a node that nobody lists, the other is
\* the same one or its end.
LEMMA TwoWalks ==
    ASSUME TypeOK, WellLinked, NEW r \in HeapAddr, Unlisted(r), NEW q,
           NEW k \in Nat, NEW l \in Nat,
           NEW w \in Trails(r, k), NEW v \in Trails(q, l), w[k] = v[l]
    PROVE  \/ k = l /\ w = v /\ r = q
           \/ l < k /\ q = w[k - l]
  <1>0. ASSUME k <= l PROVE \A i \in 0 .. k : w[k - i] = v[l - i]
    BY <1>0, ClimbTogether
  <1>00. ASSUME l <= k PROVE \A i \in 0 .. l : v[l - i] = w[k - i]
    <2>1. v[l] = w[k]
      OBVIOUS
    <2> QED
      BY <1>00, <2>1, ClimbTogether
  <1>1. CASE k < l
    <2>1. k \in 0 .. k /\ k - k = 0 /\ l - k \in 1 .. l
      BY <1>1
    <2>2. w[k - k] = v[l - k]
      BY <1>0, <1>1, <2>1
    <2>3. w[0] = r
      BY DEF Trails
    <2>4. \A i \in 1 .. l : v[i - 1] \in HeapAddr /\ v[i] \in Listed(v[i - 1])
      BY TrailFacts
    <2>5. v[l - k] \in Listed(v[(l - k) - 1]) /\ v[(l - k) - 1] \in HeapAddr
      BY <2>1, <2>4
    <2>6. r \in Listed(v[(l - k) - 1])
      BY <2>1, <2>2, <2>3, <2>5
    <2> QED
      BY <2>5, <2>6 DEF Unlisted
  <1>2. CASE k = l
    <2>1. \A i \in 0 .. k : w[k - i] = v[l - i]
      BY <1>0, <1>2
    <2>2. w \in [0 .. k -> HeapAddr] /\ v \in [0 .. l -> HeapAddr]
      BY DEF Trails
    <2>3. \A j \in 0 .. k : w[j] = v[j]
      <3> SUFFICES ASSUME NEW j \in 0 .. k PROVE w[j] = v[j]
        OBVIOUS
      <3>1. k - j \in 0 .. k /\ k - (k - j) = j
        OBVIOUS
      <3> QED
        BY <1>2, <2>1, <3>1
    <2>4. w = v
      BY <1>2, <2>2, <2>3
    <2> QED
      BY <1>2, <2>4 DEF Trails
  <1>3. CASE l < k
    <2>1. l \in 0 .. l /\ l - l = 0
      OBVIOUS
    <2>2. v[l - l] = w[k - l]
      BY <1>00, <1>3, <2>1
    <2>3. v[0] = q
      BY DEF Trails
    <2> QED
      BY <1>3, <2>1, <2>2, <2>3
  <1> QED
    BY <1>1, <1>2, <1>3

LEMMA OneWalk ==
    ASSUME TypeOK, WellLinked, NEW r \in HeapAddr, Unlisted(r),
           NEW k \in Nat, NEW l \in Nat,
           NEW w \in Trails(r, k), NEW v \in Trails(r, l), w[k] = v[l]
    PROVE  k = l /\ w = v
  <1>1. (k = l /\ w = v) \/ l < k
    BY TwoWalks
  <1>2. (l = k /\ v = w) \/ k < l
    <2>1. v[l] = w[k]
      OBVIOUS
    <2> QED
      BY <2>1, TwoWalks
  <1> QED
    BY <1>1, <1>2

\* A walk from such a node visits no node twice, so it is shorter than there
\* are nodes.
LEMMA WalksEnd ==
    ASSUME TypeOK, WellLinked, NEW r \in nodes, Unlisted(r),
           NEW k \in Nat, NEW w \in Trails(r, k)
    PROVE  k < Cardinality(nodes)
  <1>1. w \in [0 .. k -> HeapAddr] /\ w[0] = r /\ r \in HeapAddr
    BY DEF Trails, TypeOK
  <1>2. ASSUME NEW i \in 0 .. k PROVE w[i] \in nodes
    <2>1. CASE i = 0
      BY <1>1, <2>1
    <2>2. CASE i # 0
      <3>1. i \in 1 .. k
        BY <2>2
      <3>2. w[i] \in Listed(w[i - 1]) /\ w[i - 1] \in HeapAddr
        BY <3>1, TrailFacts
      <3> QED
        BY <3>2 DEF WellLinked
    <2> QED
      BY <2>1, <2>2
  <1>3. ASSUME NEW i \in 0 .. k, NEW j \in 0 .. k, w[i] = w[j] PROVE i = j
    <2>1. PICK a \in Trails(r, i) : a[i] = w[i]
      BY TrailPrefix
    <2>2. PICK b \in Trails(r, j) : b[j] = w[j]
      BY TrailPrefix
    <2>3. i \in Nat /\ j \in Nat /\ a[i] = b[j]
      BY <1>3, <2>1, <2>2
    <2> QED
      BY <1>1, <2>3, OneWalk
  <1> DEFINE f == [i \in 0 .. k |-> w[i]]
  <1>4. f \in Injection(0 .. k, nodes)
    BY <1>2, <1>3 DEF Injection, IsInjective
  <1> HIDE DEF f
  <1>5. IsFiniteSet(nodes) /\ Cardinality(nodes) \in Nat
    BY NodeCount DEF TypeOK
  <1>6. Cardinality(0 .. k) <= Cardinality(nodes)
    BY <1>4, <1>5, FS_Injection
  <1>7. Cardinality(0 .. k) = k + 1
    BY FS_Interval
  <1> QED
    BY <1>5, <1>6, <1>7

\* So every walk counts in Descents.
LEMMA Found ==
    ASSUME TypeOK, WellLinked, NEW r \in nodes, Unlisted(r)
    PROVE  /\ \A k \in Nat : \A w \in Trails(r, k) : PlaceAt(w, k) \in Descents(r)
           /\ \A x \in Descents(r) : \E k \in Nat : \E w \in Trails(r, k) : x = PlaceAt(w, k)
  <1>1. NamedLists /\ r \in HeapAddr /\ Cardinality(nodes) \in Nat
    BY TypesOfLists, NodeCount DEF TypeOK
  <1>2. ASSUME NEW k \in Nat, NEW w \in Trails(r, k) PROVE PlaceAt(w, k) \in Descents(r)
    <2>1. k \in 0 .. Cardinality(nodes)
      BY <1>1, WalksEnd
    <2> QED
      BY <1>1, <2>1, WalkIsFound
  <1>3. ASSUME NEW x \in Descents(r)
        PROVE  \E k \in Nat : \E w \in Trails(r, k) : x = PlaceAt(w, k)
    <2>1. PICK k \in 0 .. Cardinality(nodes) : \E w \in Trails(r, k) : x = PlaceAt(w, k)
      BY <1>1, FoundByWalk
    <2>2. k \in Nat
      BY <1>1
    <2> QED
      BY <2>1, <2>2
  <1> QED
    BY <1>2, <1>3

\* A node is found once, so a tree has as many paths as nodes.
LEMMA PathsAreNodes ==
    ASSUME TypeOK, WellLinked, NEW r \in nodes, Unlisted(r)
    PROVE  /\ \A x, y \in Descents(r) : x.node = y.node => x = y
           /\ Cardinality(Descents(r)) = Cardinality(Below(r))
  <1>1. r \in HeapAddr
    BY DEF TypeOK
  <1>2. ASSUME NEW x \in Descents(r), NEW y \in Descents(r), x.node = y.node
        PROVE  x = y
    <2>1. PICK k \in Nat : \E w \in Trails(r, k) : x = PlaceAt(w, k)
      BY Found
    <2>2. PICK w \in Trails(r, k) : x = PlaceAt(w, k)
      BY <2>1
    <2>3. PICK l \in Nat : \E v \in Trails(r, l) : y = PlaceAt(v, l)
      BY Found
    <2>4. PICK v \in Trails(r, l) : y = PlaceAt(v, l)
      BY <2>3
    <2>5. w[k] = v[l]
      BY <1>2, <2>2, <2>4 DEF PlaceAt
    <2>6. k = l /\ w = v
      BY <1>1, <2>5, OneWalk
    <2> QED
      BY <2>2, <2>4, <2>6
  <1> DEFINE f == [x \in Descents(r) |-> x.node]
  <1>3. f \in [Descents(r) -> Below(r)]
    BY DEF Below
  <1>4. f \in Injection(Descents(r), Below(r))
    BY <1>2, <1>3 DEF Injection, IsInjective
  <1>5. f \in Surjection(Descents(r), Below(r))
    BY <1>3 DEF Surjection, Below
  <1> HIDE DEF f
  <1>6. Below(r) \subseteq HeapAddr
    <2> SUFFICES ASSUME NEW x \in Descents(r) PROVE x.node \in HeapAddr
      BY DEF Below
    <2>1. PICK k \in Nat : \E w \in Trails(r, k) : x = PlaceAt(w, k)
      BY Found
    <2>2. PICK w \in Trails(r, k) : x = PlaceAt(w, k)
      BY <2>1
    <2>3. k \in 0 .. k
      OBVIOUS
    <2> QED
      BY <2>2, <2>3, TrailFacts DEF PlaceAt
  <1>7. IsFiniteSet(HeapAddr)
    <2>1. KHEAP_START \in Int /\ KHEAP_START + KHEAP_SIZE - 1 \in Int
      BY Constants
    <2> QED
      BY <2>1, FS_Interval DEF HeapAddr
  <1>8. IsFiniteSet(Below(r))
    BY <1>6, <1>7, FS_Subset
  <1>9. Cardinality(Descents(r)) = Cardinality(Below(r))
    BY <1>4, <1>5, <1>8, FS_Injection
  <1> QED
    BY <1>2, <1>9

-----------------------------------------------------------------------------
(* Where a path leads *)

Stride(p, f, i) ==
    IF i = 0 THEN Start(p)
    ELSE IF f[i - 1] = NULL THEN NULL ELSE Lookup(f[i - 1], p.comps[i])
Strides(p, f, n) == f = [i \in 0 .. n |-> Stride(p, f, i)]

\* The walk along the components of a path exists, however long it is.
LEMMA StridesExist == ASSUME NEW p, NEW n \in Nat PROVE \E f : Strides(p, f, n)
  <1> SUFFICES ASSUME NEW bad \in {m \in Nat : ~\E f : Strides(p, f, m)},
                      \A m \in {m \in Nat : ~\E f : Strides(p, f, m)} : bad <= m
               PROVE  FALSE
    BY LeastNat
  <1>1. CASE bad = 0
    <2> DEFINE g == [i \in 0 .. 0 |-> Start(p)]
    <2>1. g = [i \in 0 .. 0 |-> Stride(p, g, i)]
      BY DEF Stride
    <2> HIDE DEF g
    <2>2. Strides(p, g, 0)
      BY <2>1 DEF Strides
    <2> QED
      BY <1>1, <2>2
  <1>2. CASE bad # 0
    <2>1. bad - 1 \in Nat /\ ~(bad <= bad - 1)
      BY <1>2
    <2>2. PICK f : Strides(p, f, bad - 1)
      BY <2>1
    <2> DEFINE g == [i \in 0 .. bad |-> IF i = bad THEN Stride(p, f, bad) ELSE f[i]]
    <2>3. ASSUME NEW i \in 0 .. bad PROVE g[i] = Stride(p, g, i)
      <3>1. i # 0 => g[i - 1] = f[i - 1]
        <4>1. i # 0 => i - 1 \in 0 .. bad /\ i - 1 # bad
          OBVIOUS
        <4> QED
          BY <4>1
      <3>2. Stride(p, g, i) = Stride(p, f, i)
        BY <3>1 DEF Stride
      <3>3. CASE i = bad
        BY <3>2, <3>3
      <3>4. CASE i # bad
        <4>1. i \in 0 .. (bad - 1)
          BY <3>4
        <4>2. f[i] = Stride(p, f, i)
          BY <2>2, <4>1 DEF Strides
        <4> QED
          BY <3>2, <3>4, <4>2
      <3> QED
        BY <3>3, <3>4
    <2>4. g = [i \in 0 .. bad |-> g[i]]
      OBVIOUS
    <2> HIDE DEF g
    <2>5. g = [i \in 0 .. bad |-> Stride(p, g, i)]
      BY <2>3, <2>4
    <2>6. Strides(p, g, bad)
      BY <2>5 DEF Strides
    <2> QED
      BY <2>6
  <1> QED
    BY <1>1, <1>2

LEMMA WalkIs ==
    ASSUME NEW p, NEW n \in Nat
    PROVE  \E f : /\ f[0] = Start(p)
                  /\ \A i \in 1 .. n : f[i] = IF f[i - 1] = NULL THEN NULL
                                              ELSE Lookup(f[i - 1], p.comps[i])
                  /\ Walk(p, n) = IF f[n] \in nodes THEN f[n] ELSE NULL
  <1>1. \E f : Strides(p, f, n)
    BY StridesExist
  <1>2. \E f : f = [i \in 0 .. n |->
                      IF i = 0 THEN Start(p)
                      ELSE IF f[i - 1] = NULL THEN NULL
                      ELSE Lookup(f[i - 1], p.comps[i])]
    BY <1>1 DEF Strides, Stride
  <1> DEFINE at == CHOOSE f : f = [i \in 0 .. n |->
                      IF i = 0 THEN Start(p)
                      ELSE IF f[i - 1] = NULL THEN NULL
                      ELSE Lookup(f[i - 1], p.comps[i])]
  <1>3. at = [i \in 0 .. n |->
                      IF i = 0 THEN Start(p)
                      ELSE IF at[i - 1] = NULL THEN NULL
                      ELSE Lookup(at[i - 1], p.comps[i])]
    BY <1>2
  <1>4. Walk(p, n) = IF at[n] \in nodes THEN at[n] ELSE NULL
    BY DEF Walk
  <1> HIDE DEF at
  <1>5. at[0] = Start(p)
    BY <1>3
  <1>6. \A i \in 1 .. n : at[i] = IF at[i - 1] = NULL THEN NULL
                                  ELSE Lookup(at[i - 1], p.comps[i])
    BY <1>3
  <1> QED
    BY <1>4, <1>5, <1>6

-----------------------------------------------------------------------------
(* Colours *)

Roots == SnapRoots \cup {fs_root}

\* Every node has the colour of the directory that lists it, and every root is
\* of a colour of its own.  What a path leads to has the live root's colour.
\* The copy in progress has its own, that of its root once there is one.
Coloured(col) ==
    /\ col \in [HeapAddr -> HeapAddr]
    /\ \A r \in Roots : col[r] = r
    /\ \A d \in HeapAddr : \A n \in Listed(d) : col[n] = col[d]
    /\ col[fs_cwd] = fs_root
    /\ clone.root # NULL => col[clone.root] = clone.root /\ clone.root \notin Roots
    /\ \A f \in ToSet(clone.todo) :
          IF f.into = NULL THEN clone.root = NULL
          ELSE clone.root # NULL /\ col[f.into] = clone.root

LEMMA LookupColour ==
    ASSUME TypeOK, Links, NEW col, Coloured(col), NEW d \in HeapAddr, NEW nm,
           Lookup(d, nm) # NULL
    PROVE  /\ Lookup(d, nm) \in nodes /\ Lookup(d, nm) \in HeapAddr
           /\ Lookup(d, nm) \in Listed(d)
           /\ col[Lookup(d, nm)] = col[d]
  <1>1. Lookup(d, nm) \in Listed(d)
    BY LookupFacts
  <1>2. Lookup(d, nm) \in nodes
    BY <1>1 DEF Links, WellLinked
  <1> QED
    BY <1>1, <1>2 DEF TypeOK, Coloured

LEMMA WalkColour ==
    ASSUME TypeOK, Links, NEW col, Coloured(col), NEW p, NEW n \in Nat,
           Walk(p, n) # NULL
    PROVE  Walk(p, n) \in nodes /\ col[Walk(p, n)] = fs_root
  <1>1. PICK f : /\ f[0] = Start(p)
                 /\ \A i \in 1 .. n : f[i] = IF f[i - 1] = NULL THEN NULL
                                             ELSE Lookup(f[i - 1], p.comps[i])
                 /\ Walk(p, n) = IF f[n] \in nodes THEN f[n] ELSE NULL
    BY WalkIs
  <1> DEFINE good(i) == f[i] # NULL => f[i] \in HeapAddr /\ col[f[i]] = fs_root
             bads == {i \in Nat : i <= n /\ ~good(i)}
  <1>2. bads = {}
    <2> SUFFICES ASSUME bads # {} PROVE FALSE
      OBVIOUS
    <2>1. PICK i \in bads : \A m \in bads : i <= m
      BY LeastNat
    <2>2. CASE i = 0
      <3>1. Start(p) \in {fs_root, fs_cwd} /\ fs_root \in HeapAddr /\ fs_cwd \in HeapAddr
        BY DEF Start, TypeOK
      <3>2. col[fs_root] = fs_root /\ col[fs_cwd] = fs_root
        BY DEF Coloured, Roots
      <3> QED
        BY <1>1, <2>1, <2>2, <3>1, <3>2
    <2>3. CASE i # 0
      <3>1. i \in 1 .. n /\ i - 1 \in Nat /\ i - 1 <= n /\ ~(i <= i - 1)
        BY <2>1, <2>3
      <3>2. good(i - 1)
        BY <2>1, <3>1
      <3>3. f[i] # NULL /\ ~(f[i] \in HeapAddr /\ col[f[i]] = fs_root)
        BY <2>1
      <3>4. f[i - 1] # NULL /\ f[i] = Lookup(f[i - 1], p.comps[i])
        BY <1>1, <3>1, <3>3
      <3>5. f[i - 1] \in HeapAddr /\ col[f[i - 1]] = fs_root
        BY <3>2, <3>4
      <3>6. Lookup(f[i - 1], p.comps[i]) # NULL
        BY <3>3, <3>4
      <3>7. f[i] \in HeapAddr /\ col[f[i]] = col[f[i - 1]]
        BY <3>4, <3>5, <3>6, LookupColour
      <3> QED
        BY <3>3, <3>5, <3>7
    <2> QED
      BY <2>2, <2>3
  <1>3. good(n)
    BY <1>2
  <1>4. f[n] \in nodes /\ Walk(p, n) = f[n]
    BY <1>1
  <1>5. f[n] # NULL
    BY <1>4, Constants DEF TypeOK
  <1> QED
    BY <1>3, <1>4, <1>5

\* The number of components that lead to the directory of the last one.
LEMMA LastComponent ==
    ASSUME NEW p, p.comps \in Seq(FsName), p.comps # <<>>
    PROVE  Len(p.comps) - 1 \in Nat
  BY EmptySeq, LenProperties

LEMMA ResolveColour ==
    ASSUME TypeOK, Links, NEW col, Coloured(col), NEW p, p.comps \in Seq(FsName),
           Resolve(p) # NULL
    PROVE  Resolve(p) \in nodes /\ Resolve(p) \in HeapAddr /\ col[Resolve(p)] = fs_root
  <1>1. CASE p.comps = <<>>
    BY <1>1 DEF Resolve, TypeOK, Coloured, Roots
  <1>2. CASE p.comps # <<>>
    <2> DEFINE d == Walk(p, Len(p.comps) - 1)
               last == p.comps[Len(p.comps)]
    <2>1. d # NULL /\ Resolve(p) = Lookup(d, last)
      BY <1>2 DEF Resolve
    <2>2. d \in nodes /\ col[d] = fs_root
      BY <1>2, <2>1, LastComponent, WalkColour
    <2> HIDE DEF d, last
    <2>3. d \in HeapAddr
      BY <2>2 DEF TypeOK
    <2>4. Lookup(d, last) # NULL
      BY <2>1
    <2> QED
      BY <2>1, <2>2, <2>3, <2>4, LookupColour
  <1> QED
    BY <1>1, <1>2

LEMMA VacantColour ==
    ASSUME TypeOK, Links, NEW col, Coloured(col), NEW p, p.comps \in Seq(FsName),
           NEW v \in Vacant(p)
    PROVE  v.dir \in nodes /\ v.dir \in HeapAddr /\ col[v.dir] = fs_root
  <1> DEFINE d == Walk(p, Len(p.comps) - 1)
             last == p.comps[Len(p.comps)]
  <1>1. p.comps # <<>>
    BY DEF Vacant
  <1>2. d # NULL /\ v = [dir |-> d, name |-> last]
    BY <1>1 DEF Vacant
  <1>3. d \in nodes /\ col[d] = fs_root
    BY <1>1, <1>2, LastComponent, WalkColour
  <1> HIDE DEF d, last
  <1> QED
    BY <1>2, <1>3 DEF TypeOK

-----------------------------------------------------------------------------
(* What each kind of step does to the colours *)

\* The nodes of a saved tree keep what they list and what they are.
Keep(col) ==
    \A n \in nodes : col[n] \in SnapRoots \ {fs_root} =>
        /\ kids'[n] = kids[n]
        /\ name'[n] = name[n]
        /\ is_dir'[n] = is_dir[n]
        /\ data'[n] = data[n]

Harmless(col) == Keep(col) /\ \E c : Coloured(c)'

LEMMA RootsAreNodes ==
    ASSUME TypeOK, Links
    PROVE  Roots \subseteq nodes /\ Roots \subseteq HeapAddr /\ fs_root \in Roots
           /\ SnapRoots \subseteq Roots
  BY DEF TypeOK, Links, DirsAreDirs, Roots

\* The same colours do when every list still keeps to its own.
LEMMA SameColours ==
    ASSUME NEW col, Coloured(col), Quiet, clone' = clone, Roots' \subseteq Roots,
           \A d \in HeapAddr : \A n \in Listed(d)' : col[n] = col[d],
           col[fs_cwd'] = fs_root'
    PROVE  \E c : Coloured(c)'
  <1>1. clone' = NoClone /\ ToSet(clone'.todo) = {}
    BY DEF Quiet, NoClone, ToSet
  <1>2. Coloured(col)'
    BY <1>1 DEF Coloured, NoClone
  <1> QED
    BY <1>2

LEMMA SameTreeHarmless ==
    ASSUME NEW col, Coloured(col), Quiet,
           UNCHANGED <<name, is_dir, kids, snaps, clone>>,
           fs_root' \in Roots, col[fs_cwd'] = fs_root',
           \A n \in nodes : col[n] \in SnapRoots \ {fs_root} => data'[n] = data[n]
    PROVE  Harmless(col)
  <1>1. Roots' \subseteq Roots
    BY DEF Roots, SnapRoots
  <1>2. \A d \in HeapAddr : \A n \in Listed(d)' : col[n] = col[d]
    BY DEF Coloured, Listed
  <1>3. \E c : Coloured(c)'
    BY <1>1, <1>2, SameColours
  <1> QED
    BY <1>3 DEF Harmless, Keep

LEMMA FailHarmless ==
    ASSUME NEW col, Coloured(col), Quiet, Fail
    PROVE  Harmless(col)
  <1>1. UNCHANGED <<name, is_dir, kids, data, snaps, clone, fs_root, fs_cwd>>
    BY DEF Fail, tree
  <1>2. fs_root' \in Roots /\ col[fs_cwd'] = fs_root'
    BY <1>1 DEF Roots, Coloured
  <1> QED
    BY <1>1, <1>2, SameTreeHarmless

\* A new node takes the colour of its directory.
LEMMA NewNodeHarmless ==
    ASSUME IInv, NEW col, Coloured(col), Quiet, Fits(heap_offset, NODE_SIZE),
           NEW d \in nodes, col[d] = fs_root, NEW nm, NEW dir, NEW text,
           NewNode(d, nm, dir, text), UNCHANGED <<fs_root, fs_cwd, snaps, clone>>
    PROVE  Harmless(col)
  <1> DEFINE n == PtrAt(heap_offset)
             list == <<n>> \o kids[d]
  <1>c. PICK c : c = [col EXCEPT ![n] = fs_root]
    OBVIOUS
  <1>1. TypeOK /\ Links
    BY DEF IInv
  <1>2. /\ n \in HeapAddr /\ n \notin nodes
        /\ \A x \in HeapAddr : n \notin Listed(x)
    BY FreshNode
  <1>3. d \in HeapAddr /\ kids[d] \in Seq(HeapAddr)
    BY <1>1 DEF TypeOK
  <1>4. /\ name' = [name EXCEPT ![n] = nm]
        /\ is_dir' = [is_dir EXCEPT ![n] = dir]
        /\ data' = [data EXCEPT ![n] = text]
        /\ kids' = [kids EXCEPT ![d] = list]
    BY DEF NewNode
  <1> HIDE DEF n
  <1>5. ToSet(list) = Listed(d) \cup {n}
    BY <1>2, <1>3, HeadInsertion DEF Listed
  <1> HIDE DEF list
  <1>6. /\ kids'[d] = list
        /\ \A x \in HeapAddr : x # d => kids'[x] = kids[x]
    BY <1>1, <1>3, <1>4 DEF TypeOK
  <1>7. /\ c \in [HeapAddr -> HeapAddr] /\ c[n] = fs_root
        /\ \A x \in HeapAddr : x # n => c[x] = col[x]
    BY <1>c, <1>1, <1>2 DEF TypeOK, Coloured
  <1>8. Keep(col)
    <2> SUFFICES ASSUME NEW m \in nodes, col[m] \in SnapRoots \ {fs_root}
                 PROVE  /\ kids'[m] = kids[m] /\ name'[m] = name[m]
                        /\ is_dir'[m] = is_dir[m] /\ data'[m] = data[m]
      BY DEF Keep
    <2>1. m # n /\ m # d /\ m \in HeapAddr
      BY <1>1, <1>2 DEF TypeOK
    <2> QED
      BY <1>1, <1>4, <1>6, <2>1 DEF TypeOK
  <1>9. Roots \subseteq nodes /\ Roots \subseteq HeapAddr /\ Roots' = Roots
        /\ fs_cwd \in nodes /\ fs_cwd \in HeapAddr
    <2>1. Roots' = Roots
      BY DEF Roots, SnapRoots
    <2> QED
      BY <1>1, <2>1, RootsAreNodes DEF TypeOK
  <1>10. \A r \in Roots' : c[r] = r
    BY <1>2, <1>7, <1>9 DEF Coloured
  <1>11. c[fs_cwd'] = fs_root'
    BY <1>2, <1>7, <1>9 DEF Coloured
  <1>12. ASSUME NEW x \in HeapAddr, NEW k \in Listed(x)' PROVE c[k] = c[x]
    <2>1. CASE k = n
      <3>1. x = d
        BY <1>2, <1>6, <1>12, <2>1 DEF Listed
      <3> QED
        BY <1>2, <1>3, <1>7, <2>1, <3>1
    <2>2. CASE k # n
      <3>1. k \in Listed(x)
        BY <1>5, <1>6, <1>12, <2>2 DEF Listed
      <3>2. x \in nodes /\ k \in nodes
        BY <1>1, <3>1 DEF Links, WellLinked
      <3>3. c[k] = col[k] /\ c[x] = col[x]
        BY <1>1, <1>2, <1>7, <3>2 DEF TypeOK
      <3> QED
        BY <3>1, <3>3 DEF Coloured
    <2> QED
      BY <2>1, <2>2
  <1>13. Coloured(c)'
    <2>1. clone' = NoClone /\ ToSet(clone'.todo) = {}
      BY DEF Quiet, NoClone, ToSet
    <2> QED
      BY <1>7, <1>10, <1>11, <1>12, <2>1 DEF Coloured, NoClone
  <1> QED
    BY <1>8, <1>13 DEF Harmless

\* A node leaves its list ...
LEMMA DropHarmless ==
    ASSUME IInv, NEW col, Coloured(col), Quiet, NEW n \in nodes, col[n] = fs_root,
           Drop(n)
    PROVE  Harmless(col)
  <1>1. /\ kids' = Detached(n)
        /\ UNCHANGED <<nodes, name, is_dir, data, fs_root, fs_cwd, snaps, clone>>
    BY DEF Drop
  <1>2. \A x \in HeapAddr : Listed(x)' \subseteq Listed(x)
    BY <1>1, DetachedFacts DEF Listed
  <1>3. Roots' \subseteq Roots /\ col[fs_cwd'] = fs_root'
    BY <1>1 DEF Roots, SnapRoots, Coloured
  <1>4. \E c : Coloured(c)'
    <2>1. \A d \in HeapAddr : \A k \in Listed(d)' : col[k] = col[d]
      BY <1>2 DEF Coloured
    <2> QED
      BY <1>1, <1>3, <2>1, SameColours
  <1>5. Keep(col)
    <2> SUFFICES ASSUME NEW m \in nodes, col[m] \in SnapRoots \ {fs_root}
                 PROVE  kids'[m] = kids[m]
      BY <1>1 DEF Keep
    <2>1. n \in HeapAddr /\ m \in HeapAddr
      BY DEF IInv, TypeOK
    <2>2. Linked(n) => parent[n] # m
      <3>1. ASSUME Linked(n), parent[n] = m PROVE FALSE
        <4>1. n \in Listed(m)
          BY <3>1 DEF Linked
        <4>2. col[n] = col[m]
          BY <2>1, <4>1 DEF Coloured
        <4> QED
          BY <4>2
      <3> QED
        BY <3>1
    <2> QED
      BY <1>1, <2>1, <2>2 DEF Detached, IInv, TypeOK
  <1> QED
    BY <1>4, <1>5 DEF Harmless

\* ... and may move to another one of its tree.
LEMMA RelinkHarmless ==
    ASSUME IInv, NEW col, Coloured(col), Quiet, NEW n \in nodes, col[n] = fs_root,
           NEW d \in nodes, col[d] = fs_root, NEW nm, Relink(n, d, nm)
    PROVE  Harmless(col)
  <1> DEFINE rest == Detached(n)
             list == <<n>> \o rest[d]
  <1>1. /\ kids' = [rest EXCEPT ![d] = list]
        /\ name' = [name EXCEPT ![n] = nm]
        /\ UNCHANGED <<nodes, is_dir, data, fs_root, fs_cwd, snaps, clone>>
    BY DEF Relink
  <1>2. /\ rest \in [HeapAddr -> Seq(HeapAddr)]
        /\ \A x \in HeapAddr : ToSet(rest[x]) = Listed(x) \ {n}
    BY DetachedFacts
  <1>3. n \in HeapAddr /\ d \in HeapAddr
    BY DEF IInv, TypeOK
  <1>4. ToSet(list) = (Listed(d) \ {n}) \cup {n}
    <2>1. rest[d] \in Seq(HeapAddr) /\ ToSet(rest[d]) = Listed(d) \ {n}
      BY <1>2, <1>3
    <2> QED
      BY <1>3, <2>1, HeadInsertion
  <1> HIDE DEF list
  <1>5. /\ kids'[d] = list
        /\ \A x \in HeapAddr : x # d => kids'[x] = rest[x]
    BY <1>1, <1>2, <1>3
  <1>6. \A x \in HeapAddr : \A k \in Listed(x)' : col[k] = col[x]
    <2> SUFFICES ASSUME NEW x \in HeapAddr, NEW k \in Listed(x)' PROVE col[k] = col[x]
      OBVIOUS
    <2>1. CASE x = d
      <3>1. k = n \/ k \in Listed(d)
        BY <1>4, <1>5, <2>1 DEF Listed
      <3> QED
        BY <1>3, <2>1, <3>1 DEF Coloured
    <2>2. CASE x # d
      <3>1. k \in Listed(x)
        BY <1>2, <1>5, <2>2 DEF Listed
      <3> QED
        BY <3>1 DEF Coloured
    <2> QED
      BY <2>1, <2>2
  <1>7. \E c : Coloured(c)'
    <2>1. Roots' \subseteq Roots /\ col[fs_cwd'] = fs_root'
      BY <1>1 DEF Roots, SnapRoots, Coloured
    <2> QED
      BY <1>1, <1>6, <2>1, SameColours
  <1>8. Keep(col)
    <2> SUFFICES ASSUME NEW m \in nodes, col[m] \in SnapRoots \ {fs_root}
                 PROVE  kids'[m] = kids[m] /\ name'[m] = name[m]
      BY <1>1 DEF Keep
    <2>1. n # m /\ d # m /\ m \in HeapAddr
      BY DEF IInv, TypeOK
    <2>2. name'[m] = name[m]
      BY <1>1, <1>3, <2>1 DEF IInv, TypeOK
    <2>3. Linked(n) => parent[n] # m
      <3>1. ASSUME Linked(n), parent[n] = m PROVE FALSE
        <4>1. n \in Listed(m)
          BY <3>1 DEF Linked
        <4>2. col[n] = col[m]
          BY <2>1, <4>1 DEF Coloured
        <4> QED
          BY <4>2
      <3> QED
        BY <3>1
    <2>4. rest[m] = kids[m]
      BY <2>1, <2>3 DEF Detached, IInv, TypeOK
    <2> QED
      BY <1>5, <2>1, <2>2, <2>4
  <1> QED
    BY <1>7, <1>8 DEF Harmless

\* A step of fs_clone_tree that copies a node: the copy is a node of its own,
\* which the directory filled lists; the calls left are older ones, which fill
\* other directories, the rest of the siblings, and the copy's children.
CopyStep(into, copy) ==
    /\ copy \in HeapAddr /\ copy # NULL /\ copy \notin nodes
    /\ \A d \in HeapAddr : copy \notin Listed(d)
    /\ \E f \in ToSet(clone.todo) : f.into = into
    /\ into # NULL => into \in nodes /\ into \in HeapAddr
    /\ \A n \in HeapAddr : n # copy =>
          name'[n] = name[n] /\ is_dir'[n] = is_dir[n] /\ data'[n] = data[n]
    /\ \A d \in HeapAddr : d # into => kids'[d] = kids[d]
    /\ into # NULL => Listed(into)' = Listed(into) \cup {copy}
    /\ clone'.root = IF into = NULL THEN copy ELSE clone.root
    /\ \A f \in ToSet(clone'.todo) :
          \/ f \in ToSet(clone.todo) /\ f.into # into
          \/ f.into = into /\ into # NULL
          \/ f.into = copy
    /\ UNCHANGED <<fs_root, fs_cwd, snaps>>

\* x waits on the stack to be copied into d.
Waits(x, d, stack) == \E f \in ToSet(stack) : f.into = d /\ x \in ToSet(f.sibs)

LEMMA PushWaits ==
    ASSUME NEW stack \in Seq(Frame), NEW sibs \in Seq(HeapAddr),
           NEW into \in HeapAddr \cup {NULL}
    PROVE  \A x, d : Waits(x, d, Push(sibs, into, stack)) <=>
                        Waits(x, d, stack) \/ (d = into /\ x \in ToSet(sibs))
  <1>1. CASE sibs = <<>>
    <2>1. Push(sibs, into, stack) = stack /\ ToSet(sibs) = {}
      BY <1>1 DEF Push, ToSet
    <2> QED
      BY <2>1
  <1>2. CASE sibs # <<>>
    <2> DEFINE new == [sibs |-> sibs, into |-> into]
    <2>1. Push(sibs, into, stack) = <<new>> \o stack
      BY <1>2 DEF Push
    <2>2. new \in Frame /\ new.into = into /\ new.sibs = sibs
      BY DEF Frame
    <2> HIDE DEF new
    <2>3. ToSet(<<new>> \o stack) = ToSet(stack) \cup {new}
      BY <2>2, HeadInsertion
    <2> QED
      BY <2>1, <2>2, <2>3 DEF Waits
  <1> QED
    BY <1>1, <1>2

LEMMA HeadOrTail ==
    ASSUME NEW S, NEW s \in Seq(S), s # <<>>
    PROVE  ToSet(s) = ToSet(Tail(s)) \cup {Head(s)}
  <1> DEFINE t == Tail(s)
  <1>1. /\ Len(s) \in Nat /\ Len(s) > 0 /\ DOMAIN s = 1 .. Len(s)
    BY EmptySeq, LenProperties
  <1>2. /\ Head(s) = s[1]
        /\ t \in Seq(S) /\ Len(t) = Len(s) - 1
        /\ \A i \in 1 .. Len(t) : t[i] = s[i + 1]
    BY HeadTailProperties
  <1>3. DOMAIN t = 1 .. (Len(s) - 1)
    BY <1>2, LenProperties
  <1> HIDE DEF t
  <1>4. ASSUME NEW i \in DOMAIN s PROVE s[i] \in ToSet(t) \cup {Head(s)}
    <2>1. CASE i = 1
      BY <1>2, <2>1
    <2>2. CASE i # 1
      <3>1. i - 1 \in DOMAIN t /\ i - 1 \in 1 .. Len(t) /\ (i - 1) + 1 = i
        BY <1>1, <1>2, <1>3, <2>2
      <3>2. t[i - 1] = s[i]
        BY <1>2, <3>1
      <3> QED
        BY <3>1, <3>2 DEF ToSet
    <2> QED
      BY <2>1, <2>2
  <1>5. ASSUME NEW i \in DOMAIN t PROVE t[i] \in ToSet(s)
    <2>1. i \in 1 .. Len(t) /\ i + 1 \in DOMAIN s
      BY <1>1, <1>2, <1>3
    <2> QED
      BY <1>2, <2>1 DEF ToSet
  <1>6. Head(s) \in ToSet(s)
    BY <1>1, <1>2 DEF ToSet
  <1> QED
    BY <1>4, <1>5, <1>6 DEF ToSet, t

\* What the copy is a copy of, how much of it there was room for, and what
\* waits afterwards.
CopyOf(orig, into, copy) ==
    /\ orig \in nodes /\ orig \in HeapAddr /\ Waits(orig, into, clone.todo)
    /\ into = NULL => orig = fs_root
    /\ nodes' = nodes \cup {copy}
    /\ name'[copy] = name[orig] /\ is_dir'[copy] = is_dir[orig]
    /\ data'[copy] \in {data[orig], NoText}
    /\ is_dir[orig] => data'[copy] = NoText
    /\ \/ data'[copy] = data[orig]
       \/ is_dir[orig]
       \/ ~Fits(heap_offset', data[orig].len + 1)
    /\ \A x, d : Waits(x, d, clone'.todo) <=>
          \/ d = copy /\ x \in Listed(orig)
          \/ d = into /\ x # orig /\ Waits(x, into, clone.todo)
          \/ d # into /\ Waits(x, d, clone.todo)

LEMMA CopySteps ==
    ASSUME IInv, clone.todo # <<>>, Fits(heap_offset, NODE_SIZE), fs_clone_tree
    PROVE  \E orig, into, copy : CopyStep(into, copy) /\ CopyOf(orig, into, copy)
  <1> DEFINE frame  == Head(clone.todo)
             stack  == Tail(clone.todo)
             offset == OffsetAfter(heap_offset, NODE_SIZE)
  <1>a. PICK orig, left, into, copy, below :
           /\ orig = Head(frame.sibs) /\ left = Tail(frame.sibs)
           /\ into = frame.into /\ copy = PtrAt(heap_offset)
           /\ below = kids[orig]
    OBVIOUS
  <1> DEFINE text   == IF is_dir[orig] THEN NoText ELSE data[orig]
             stored == text # NoText /\ Fits(offset, text.len + 1)
             lower  == Push(left, into, stack)
  <1>1. TypeOK /\ Links /\ CloneOK
    BY DEF IInv
  <1>2. /\ clone.todo \in Seq(Frame) /\ OneToOne(clone.todo, Into)
        /\ clone \in [snap : SnapName \cup {NoSnap}, root : HeapAddr \cup {NULL},
                      todo : Seq(Frame)]
    BY <1>1 DEF TypeOK, CloneOK
  <1>3. /\ frame \in Frame /\ frame \in ToSet(clone.todo)
        /\ stack \in Seq(Frame) /\ ToSet(stack) \subseteq ToSet(clone.todo)
        /\ OneToOne(stack, Into)
        /\ \A f \in ToSet(stack) : Into[f] # Into[frame]
    BY <1>2, HeadAndTail
  <1>4. /\ FrameOK(frame) /\ frame.sibs # <<>> /\ frame.sibs \in Seq(HeapAddr)
        /\ into \in HeapAddr \cup {NULL}
        /\ \A f \in ToSet(stack) : FrameOK(f) /\ f \in Frame
    <2>1. \A f \in ToSet(stack) : f \in Frame
      BY <1>3, ElementOfSeq DEF ToSet
    <2> QED
      BY <1>1, <1>3, <1>a, <2>1 DEF CloneOK, Frame
  <1>5. \A f \in ToSet(stack) : f.into # into
    BY <1>3, <1>4, <1>a DEF Into
  <1>6. orig \in ToSet(frame.sibs) /\ left \in Seq(HeapAddr)
    BY <1>4, <1>a, HeadAndTail DEF FrameOK
  <1>7. orig \in HeapAddr /\ below \in Seq(HeapAddr)
    BY <1>1, <1>4, <1>6, <1>a DEF FrameOK, TypeOK
  <1>8. /\ copy \in HeapAddr /\ copy \notin nodes /\ copy # NULL
        /\ \A d \in HeapAddr : copy \notin Listed(d)
    BY <1>a, FreshNode
  <1>9. into # NULL => into \in nodes /\ into \in HeapAddr
    BY <1>1, <1>4, <1>a DEF FrameOK, TypeOK
  <1> HIDE DEF frame, stack, offset, text, stored
  <1>10. left # <<>> => into # NULL
    <2>1. into = NULL => frame.sibs = <<fs_root>>
      BY <1>4, <1>a DEF FrameOK
    <2>2. frame.sibs = <<fs_root>> => left = <<>>
      BY <1>a
    <2> QED
      BY <2>1, <2>2
  <1>11. /\ name' = [name EXCEPT ![copy] = name[orig]]
         /\ is_dir' = [is_dir EXCEPT ![copy] = is_dir[orig]]
         /\ data' = [data EXCEPT ![copy] = IF stored THEN text ELSE NoText]
         /\ kids' = IF into = NULL THEN kids ELSE [kids EXCEPT ![into] = Append(@, copy)]
         /\ clone' = [clone EXCEPT !.root = IF into = NULL THEN copy ELSE @,
                                   !.todo = Push(below, copy, Push(left, into, stack))]
         /\ UNCHANGED <<fs_root, fs_cwd, snaps>>
    BY <1>a DEF fs_clone_tree, frame, stack, offset, text, stored
  <1>12. \A n \in HeapAddr : n # copy =>
            name'[n] = name[n] /\ is_dir'[n] = is_dir[n] /\ data'[n] = data[n]
    BY <1>1, <1>11 DEF TypeOK
  <1>13. \A d \in HeapAddr : d # into => kids'[d] = kids[d]
    BY <1>1, <1>11 DEF TypeOK
  <1>14. into # NULL => Listed(into)' = Listed(into) \cup {copy}
    <2> SUFFICES ASSUME into # NULL PROVE ToSet(kids'[into]) = Listed(into) \cup {copy}
      BY DEF Listed
    <2>1. kids[into] \in Seq(HeapAddr) /\ kids'[into] = Append(kids[into], copy)
      BY <1>1, <1>9, <1>11 DEF TypeOK
    <2> QED
      BY <1>8, <2>1, TailInsertion DEF Listed
  <1>15. /\ clone'.root = IF into = NULL THEN copy ELSE clone.root
         /\ clone'.todo = Push(below, copy, lower)
    BY <1>2, <1>11
  <1>16. \A f \in ToSet(lower) :
            f \in ToSet(stack) \/ (f = [sibs |-> left, into |-> into] /\ left # <<>>)
    BY <1>3, <1>4, <1>5, <1>6, PushFacts
  <1>17. lower \in Seq(Frame) /\ OneToOne(lower, Into)
    BY <1>3, <1>4, <1>5, <1>6, PushFacts
  <1>18. \A f \in ToSet(lower) : f.into # copy
    <2>1. \A f \in ToSet(stack) : f.into # copy
      BY <1>4, <1>8 DEF FrameOK
    <2> QED
      BY <1>8, <1>9, <1>16, <2>1
  <1> HIDE DEF lower
  <1>19. \A f \in ToSet(clone'.todo) :
            \/ f \in ToSet(lower)
            \/ f = [sibs |-> below, into |-> copy]
    BY <1>7, <1>8, <1>15, <1>17, <1>18, PushFacts
  <1>20. \A f \in ToSet(clone'.todo) :
            \/ f \in ToSet(clone.todo) /\ f.into # into
            \/ f.into = into /\ into # NULL
            \/ f.into = copy
    BY <1>3, <1>5, <1>10, <1>16, <1>19
  <1>21. \E f \in ToSet(clone.todo) : f.into = into
    BY <1>3, <1>a
  <1>22. CopyStep(into, copy)
    BY <1>8, <1>9, <1>11, <1>12, <1>13, <1>14, <1>15, <1>20, <1>21 DEF CopyStep
  <1>23. orig \in nodes /\ Waits(orig, into, clone.todo) /\ (into = NULL => orig = fs_root)
    <2>1. orig \in nodes /\ Waits(orig, into, clone.todo)
      BY <1>3, <1>4, <1>6, <1>a DEF FrameOK, Waits
    <2>2. into = NULL => frame.sibs = <<fs_root>>
      BY <1>4, <1>a DEF FrameOK
    <2>3. frame.sibs = <<fs_root>> => orig = fs_root
      BY <1>a
    <2> QED
      BY <2>1, <2>2, <2>3
  <1>24. /\ name'[copy] = name[orig] /\ is_dir'[copy] = is_dir[orig]
         /\ data'[copy] = IF stored THEN text ELSE NoText
    BY <1>1, <1>8, <1>11 DEF TypeOK
  <1>25. /\ nodes' = nodes \cup {copy}
         /\ heap_offset' = IF stored THEN OffsetAfter(offset, text.len + 1) ELSE offset
    BY <1>a DEF fs_clone_tree, frame, offset, text, stored
  <1>26. /\ data'[copy] \in {data[orig], NoText}
         /\ is_dir[orig] => data'[copy] = NoText
         /\ \/ data'[copy] = data[orig]
            \/ is_dir[orig]
            \/ ~Fits(heap_offset', data[orig].len + 1)
    BY <1>24, <1>25 DEF text, stored
  <1>27. \A x : Waits(x, into, clone.todo) <=> x \in ToSet(frame.sibs)
    <2>1. \A f \in ToSet(clone.todo) : f.into = into => f = frame
      <3>1. ToSet(clone.todo) = ToSet(stack) \cup {frame}
        BY <1>2, HeadOrTail DEF frame, stack
      <3> QED
        BY <1>5, <3>1
    <2> QED
      BY <1>3, <1>a, <2>1 DEF Waits
  <1>28. \A x : x \in ToSet(left) <=> x \in ToSet(frame.sibs) /\ x # orig
    <2>1. OneToOne(frame.sibs, name)
      BY <1>4 DEF FrameOK
    <2>2. ToSet(frame.sibs) = ToSet(left) \cup {orig}
      BY <1>4, <1>a, HeadOrTail
    <2>3. \A y \in ToSet(left) : name[y] # name[orig]
      BY <1>4, <1>a, <2>1, HeadAndTail
    <2> QED
      BY <2>2, <2>3
  <1>29. \A x, d : d # into => (Waits(x, d, clone.todo) <=> Waits(x, d, stack))
    <2>1. ToSet(clone.todo) = ToSet(stack) \cup {frame}
      BY <1>2, HeadOrTail DEF frame, stack
    <2> QED
      BY <1>a, <2>1 DEF Waits
  <1>30. ASSUME NEW x, NEW d
         PROVE  Waits(x, d, clone'.todo) <=>
                   \/ d = copy /\ x \in Listed(orig)
                   \/ d = into /\ x # orig /\ Waits(x, into, clone.todo)
                   \/ d # into /\ Waits(x, d, clone.todo)
    <2>1. Waits(x, d, clone'.todo) <=>
             Waits(x, d, Push(left, into, stack)) \/ (d = copy /\ x \in ToSet(below))
      BY <1>7, <1>8, <1>15, <1>17, PushWaits DEF lower
    <2>2. Waits(x, d, Push(left, into, stack)) <=>
             Waits(x, d, stack) \/ (d = into /\ x \in ToSet(left))
      BY <1>3, <1>4, <1>6, PushWaits
    <2>3. ~Waits(x, into, stack)
      BY <1>5 DEF Waits
    <2>4. ToSet(below) = Listed(orig)
      BY <1>a DEF Listed
    <2> QED
      BY <1>27, <1>28, <1>29, <2>1, <2>2, <2>3, <2>4
  <1>31. CopyOf(orig, into, copy)
    BY <1>7, <1>23, <1>24, <1>25, <1>26, <1>30 DEF CopyOf
  <1> QED
    BY <1>22, <1>31

LEMMA CopyHarmless ==
    ASSUME IInv, NEW col, Coloured(col), NEW into, NEW copy, CopyStep(into, copy)
    PROVE  Harmless(col)
  <1> USE DEF CopyStep
  <1>1. TypeOK /\ Links /\ CloneOK
    BY DEF IInv
  <1>2. Roots \subseteq nodes /\ Roots \subseteq HeapAddr /\ fs_root \in Roots /\ Roots' = Roots
        /\ fs_cwd \in nodes /\ fs_cwd \in HeapAddr
    <2>1. Roots' = Roots
      BY DEF Roots, SnapRoots
    <2> QED
      BY <1>1, <2>1, RootsAreNodes DEF TypeOK
  <1>3. IF into = NULL THEN clone.root = NULL ELSE clone.root # NULL /\ col[into] = clone.root
    BY DEF Coloured
  <1>4. clone.root # NULL => /\ clone.root \in nodes /\ clone.root \in HeapAddr
                             /\ clone.root \notin Roots /\ col[clone.root] = clone.root
    BY <1>1 DEF CloneOK, TypeOK, Coloured
  <1>c. PICK c : c = [col EXCEPT ![copy] = IF into = NULL THEN copy ELSE clone.root]
    OBVIOUS
  <1>5. /\ c \in [HeapAddr -> HeapAddr]
        /\ c[copy] = IF into = NULL THEN copy ELSE clone.root
        /\ \A n \in HeapAddr : n # copy => c[n] = col[n]
    BY <1>c, <1>3, <1>4 DEF Coloured
  <1>6. clone'.root # NULL /\ c[clone'.root] = clone'.root /\ clone'.root \notin Roots'
        /\ c[copy] = clone'.root
    BY <1>2, <1>3, <1>4, <1>5
  <1>7. Keep(col)
    <2> SUFFICES ASSUME NEW n \in nodes, col[n] \in SnapRoots \ {fs_root}
                 PROVE  /\ kids'[n] = kids[n] /\ name'[n] = name[n]
                        /\ is_dir'[n] = is_dir[n] /\ data'[n] = data[n]
      BY DEF Keep
    <2>1. n # copy /\ n \in HeapAddr
      BY <1>1 DEF TypeOK
    <2>2. n # into
      <3>1. into # NULL => col[into] \notin SnapRoots
        BY <1>3, <1>4 DEF Roots
      <3> QED
        BY <2>1, <3>1, Constants
    <2> QED
      BY <2>1, <2>2
  <1>8. \A r \in Roots' : c[r] = r
    BY <1>2, <1>5 DEF Coloured
  <1>9. c[fs_cwd'] = fs_root'
    BY <1>2, <1>5 DEF Coloured
  <1>10. ASSUME NEW d \in HeapAddr, NEW n \in Listed(d)' PROVE c[n] = c[d]
    <2>1. CASE n = copy
      <3>1. d = into
        BY <1>10, <2>1 DEF Listed
      <3>2. into # NULL /\ into # copy
        BY <3>1, Constants
      <3> QED
        BY <1>3, <1>5, <2>1, <3>1, <3>2
    <2>2. CASE n # copy
      <3>1. n \in Listed(d)
        <4>1. CASE d = into
          <5>1. into # NULL
            BY <4>1, Constants
          <5> QED
            BY <1>10, <2>2, <4>1, <5>1
        <4>2. CASE d # into
          BY <1>10, <4>2 DEF Listed
        <4> QED
          BY <4>1, <4>2
      <3>2. d \in nodes /\ n \in nodes
        BY <1>1, <3>1 DEF Links, WellLinked
      <3>3. c[n] = col[n] /\ c[d] = col[d]
        BY <1>1, <1>5, <3>2 DEF TypeOK
      <3> QED
        BY <3>1, <3>3 DEF Coloured
    <2> QED
      BY <2>1, <2>2
  <1>11. ASSUME NEW f \in ToSet(clone'.todo)
         PROVE  f.into # NULL /\ c[f.into] = clone'.root
    <2>1. CASE f \in ToSet(clone.todo) /\ f.into # into
      <3>1. FrameOK(f)
        BY <1>1, <2>1 DEF CloneOK
      <3>2. IF f.into = NULL THEN clone.root = NULL
            ELSE clone.root # NULL /\ col[f.into] = clone.root
        BY <2>1 DEF Coloured
      <3>3. f.into # NULL
        <4>1. ASSUME f.into = NULL PROVE FALSE
          <5>1. into # NULL /\ clone.root = NULL
            BY <2>1, <3>2, <4>1
          <5> QED
            BY <1>3, <5>1
        <4> QED
          BY <4>1
      <3>4. clone.root # NULL /\ into # NULL
        BY <1>3, <3>2, <3>3
      <3>5. f.into \in nodes /\ f.into \in HeapAddr /\ f.into # copy
        BY <1>1, <3>1, <3>3 DEF FrameOK, TypeOK
      <3> QED
        BY <1>5, <3>2, <3>3, <3>4, <3>5
    <2>2. CASE f.into = into /\ into # NULL
      <3>1. into # copy
        OBVIOUS
      <3> QED
        BY <1>3, <1>5, <2>2, <3>1
    <2>3. CASE f.into = copy
      BY <1>6, <2>3
    <2> QED
      BY <1>11, <2>1, <2>2, <2>3
  <1>12. Coloured(c)'
    BY <1>5, <1>6, <1>8, <1>9, <1>10, <1>11 DEF Coloured
  <1> QED
    BY <1>7, <1>12 DEF Harmless

\* The end of fs_snap_create adds at most the copy to the saved roots.
LEMMA EndRoots ==
    ASSUME TypeOK, SnapCreateEnd
    PROVE  /\ SnapRoots \subseteq SnapRoots'
           /\ SnapRoots' \subseteq SnapRoots \cup ({clone.root} \ {NULL})
  <1>1. CASE UNCHANGED snaps
    BY <1>1 DEF SnapRoots
  <1>2. CASE /\ clone.root # NULL
             /\ snaps' = <<[name |-> clone.snap, root |-> clone.root]>> \o snaps
    <2> DEFINE new == [name |-> clone.snap, root |-> clone.root]
               S   == [name : SnapName \cup {NoSnap}, root : HeapAddr]
    <2>1. new \in S /\ new.root = clone.root
      BY <1>2 DEF TypeOK
    <2>2. snaps \in Seq(S)
      <3>1. [name : SnapName, root : HeapAddr] \subseteq S
        OBVIOUS
      <3> HIDE DEF S
      <3> QED
        BY <3>1, SeqMonotonic DEF TypeOK
    <2> HIDE DEF new, S
    <2>3. ToSet(snaps') = ToSet(snaps) \cup {new}
      <3>1. snaps' = <<new>> \o snaps
        BY <1>2 DEF new
      <3> QED
        BY <2>1, <2>2, <3>1, HeadInsertion
    <2>4. SnapRoots = {x.root : x \in ToSet(snaps)}
      BY DEF SnapRoots, ToSet
    <2>5. SnapRoots' = {x.root : x \in ToSet(snaps')}
      BY DEF SnapRoots, ToSet
    <2> QED
      BY <1>2, <2>1, <2>3, <2>4, <2>5
  <1> QED
    BY <1>1, <1>2 DEF SnapCreateEnd

LEMMA SnapCreateEndHarmless ==
    ASSUME IInv, NEW col, Coloured(col), SnapCreateEnd
    PROVE  Harmless(col)
  <1>1. TypeOK
    BY DEF IInv
  <1>2. /\ clone' = NoClone
        /\ UNCHANGED <<name, is_dir, data, kids, fs_root, fs_cwd>>
    BY DEF SnapCreateEnd
  <1>3. SnapRoots' \subseteq SnapRoots \cup ({clone.root} \ {NULL})
    BY <1>1, EndRoots
  <1>4. \A r \in Roots' : col[r] = r
    BY <1>2, <1>3 DEF Coloured, Roots
  <1>5. \A d \in HeapAddr : \A n \in Listed(d)' : col[n] = col[d]
    BY <1>2 DEF Coloured, Listed
  <1>6. clone'.root = NULL /\ ToSet(clone'.todo) = {}
    BY <1>2 DEF NoClone, ToSet
  <1>7. Coloured(col)'
    BY <1>2, <1>4, <1>5, <1>6 DEF Coloured
  <1> QED
    BY <1>2, <1>7 DEF Harmless, Keep

LEMMA CloneBeginsHarmless ==
    ASSUME IInv, NEW col, Coloured(col), NEW s,
           clone' = [snap |-> s, root |-> NULL,
                     todo |-> <<[sibs |-> <<fs_root>>, into |-> NULL]>>],
           UNCHANGED <<tree, fs_root, fs_cwd, snaps>>
    PROVE  Harmless(col)
  <1>1. UNCHANGED <<name, is_dir, data, kids, fs_root, fs_cwd, snaps>>
    BY DEF tree
  <1>2. clone'.root = NULL /\ \A f \in ToSet(clone'.todo) : f.into = NULL
    BY DEF ToSet
  <1>3. Coloured(col)'
    BY <1>1, <1>2 DEF Coloured, Roots, SnapRoots, Listed
  <1> QED
    BY <1>1, <1>3 DEF Harmless, Keep

LEMMA CloneHarmless ==
    ASSUME IInv, NEW col, Coloured(col), fs_clone_tree
    PROVE  Harmless(col)
  <1>1. clone.todo # <<>>
    BY DEF fs_clone_tree
  <1>2. CASE Fits(heap_offset, NODE_SIZE)
    <2>1. \E orig, into, copy : CopyStep(into, copy) /\ CopyOf(orig, into, copy)
      BY <1>1, <1>2, CopySteps
    <2> QED
      BY <2>1, CopyHarmless
  <1>3. CASE ~Fits(heap_offset, NODE_SIZE)
    <2>1. /\ clone' = [clone EXCEPT !.todo = Tail(@)]
          /\ UNCHANGED <<name, is_dir, data, kids, fs_root, fs_cwd, snaps>>
      BY <1>3 DEF fs_clone_tree, tree
    <2>2. clone \in [snap : SnapName \cup {NoSnap}, root : HeapAddr \cup {NULL},
                     todo : Seq(Frame)]
      BY DEF IInv, TypeOK
    <2>3. clone'.root = clone.root /\ clone'.todo = Tail(clone.todo)
      BY <2>1, <2>2
    <2>4. ToSet(Tail(clone.todo)) \subseteq ToSet(clone.todo)
      BY <1>1, <2>2, HeadAndTail DEF IInv, CloneOK
    <2>5. Coloured(col)'
      BY <2>1, <2>3, <2>4 DEF Coloured, Roots, SnapRoots, Listed
    <2> QED
      BY <2>1, <2>5 DEF Harmless, Keep
  <1> QED
    BY <1>2, <1>3

LEMMA ChdirHarmless ==
    ASSUME IInv, NEW col, Coloured(col), NEW p, p.comps \in Seq(FsName), fs_chdir(p)
    PROVE  Harmless(col)
  <1>1. CASE Quiet /\ Fail
    BY <1>1, FailHarmless
  <1>2. CASE /\ Quiet /\ Resolve(p) # NULL
             /\ fs_cwd' = Resolve(p)
             /\ UNCHANGED <<heap_offset, tree, fs_root, snaps, clone>>
    <2>1. col[Resolve(p)] = fs_root
      BY <1>2, ResolveColour DEF IInv
    <2>2. UNCHANGED <<name, is_dir, kids, data, snaps, clone, fs_root>>
      BY <1>2 DEF tree
    <2>3. fs_root' \in Roots /\ col[fs_cwd'] = fs_root'
      BY <1>2, <2>1, <2>2 DEF Roots
    <2> QED
      BY <1>2, <2>2, <2>3, SameTreeHarmless
  <1> QED
    BY <1>1, <1>2 DEF fs_chdir

\* Files and directories are made in the live tree.
LEMMA MakeHarmless ==
    ASSUME IInv, NEW col, Coloured(col), Quiet, NEW d \in nodes, col[d] = fs_root, NEW nm
    PROVE  /\ \A dir : NewEmpty([dir |-> d, name |-> nm], dir) => Harmless(col)
           /\ \A text : NewFile([dir |-> d, name |-> nm], text) => Harmless(col)
  <1> DEFINE v == [dir |-> d, name |-> nm]
  <1>1. v.dir = d /\ v.name = nm
    OBVIOUS
  <1> HIDE DEF v
  <1>2. ASSUME NEW dir, NewEmpty(v, dir) PROVE Harmless(col)
    <2>1. /\ Fits(heap_offset, NODE_SIZE)
          /\ NewNode(d, nm, dir, NoText)
          /\ UNCHANGED <<fs_root, fs_cwd, snaps, clone>>
      BY <1>1, <1>2 DEF NewEmpty
    <2> QED
      BY <2>1, NewNodeHarmless
  <1>3. ASSUME NEW text, NewFile(v, text) PROVE Harmless(col)
    <2>1. /\ Fits(heap_offset, NODE_SIZE)
          /\ \E kept : NewNode(d, nm, FALSE, kept)
          /\ UNCHANGED <<fs_root, fs_cwd, snaps, clone>>
      BY <1>1, <1>3 DEF NewFile
    <2> QED
      BY <2>1, NewNodeHarmless
  <1> QED
    BY <1>2, <1>3 DEF v

LEMMA MakeAtHarmless ==
    ASSUME IInv, NEW col, Coloured(col), Quiet, NEW p, p.comps \in Seq(FsName),
           NEW v \in Vacant(p)
    PROVE  /\ \A dir : NewEmpty(v, dir) => Harmless(col)
           /\ \A text : NewFile(v, text) => Harmless(col)
  <1>1. v.dir \in nodes /\ col[v.dir] = fs_root
    BY VacantColour DEF IInv
  <1>2. v = [dir |-> v.dir, name |-> v.name]
    BY DEF Vacant
  <1> QED
    BY <1>1, <1>2, MakeHarmless

LEMMA NextHarmless ==
    ASSUME IInv, NEW col, Coloured(col), FsStep,
           \A p : fs_chdir(p) => Next \/ p.comps \in Seq(FsName)
    PROVE  Harmless(col)
  <1>1. TypeOK /\ Links
    BY DEF IInv
  <1>2. ASSUME NEW p \in Path PROVE p.comps \in Seq(FsName)
    <2>1. p.comps \in Seq(Name) /\ Name \subseteq FsName
      BY FsAssumption DEF FsName
    <2> QED
      BY <2>1, SeqMonotonic
  <1>3. ASSUME NEW p \in Path, fs_mkdir(p) \/ fs_touch(p) \/ \E len \in TextLen : fs_write(p, len)
        PROVE  Harmless(col)
    <2>1. Quiet
      BY <1>3 DEF fs_mkdir, fs_touch, fs_write
    <2>2. CASE Fail
      BY <2>1, <2>2, FailHarmless
    <2>3. CASE \E v \in Vacant(p) : \/ \E dir : NewEmpty(v, dir)
                                    \/ \E text : NewFile(v, text)
      BY <1>2, <2>1, <2>3, MakeAtHarmless
    <2> QED
      BY <1>3, <2>2, <2>3 DEF fs_mkdir, fs_touch, fs_write
  <1>4. ASSUME NEW nm \in RawName, NEW len \in TextLen, fs_write_cwd(nm, len)
        PROVE  Harmless(col)
    <2> DEFINE n    == Lookup(fs_cwd, nm)
               text == Crypt(Plain(len))
    <2>1. Quiet /\ fs_cwd \in nodes /\ fs_cwd \in HeapAddr /\ col[fs_cwd] = fs_root
      BY <1>1, <1>4 DEF TypeOK, Coloured, fs_write_cwd
    <2>2. CASE NewFile([dir |-> fs_cwd, name |-> nm], text)
      BY <2>1, <2>2, MakeHarmless
    <2>3. CASE /\ n # NULL
               /\ data' = [data EXCEPT ![n] = text]
               /\ UNCHANGED <<nodes, name, is_dir, parent, kids, fs_root, fs_cwd,
                              snaps, clone>>
      <3>1. n \in HeapAddr /\ col[n] = fs_root
        BY <1>1, <2>1, <2>3, LookupColour
      <3> HIDE DEF n, text
      <3>2. \A m \in nodes : col[m] \in SnapRoots \ {fs_root} => data'[m] = data[m]
        BY <1>1, <2>3, <3>1 DEF TypeOK
      <3>3. fs_root' \in Roots /\ col[fs_cwd'] = fs_root'
        BY <2>1, <2>3 DEF Roots
      <3> QED
        BY <2>1, <2>3, <3>2, <3>3, SameTreeHarmless
    <2>4. CASE Fail
      BY <2>1, <2>4, FailHarmless
    <2> QED
      BY <1>4, <2>2, <2>3, <2>4 DEF fs_write_cwd
  <1>5. ASSUME NEW p \in Path, fs_read(p) PROVE Harmless(col)
    <2>1. Quiet
      BY <1>5 DEF fs_read
    <2>2. CASE Fail
      BY <2>1, <2>2, FailHarmless
    <2>3. CASE UNCHANGED <<tree, fs_root, fs_cwd, snaps, clone>>
      <3>1. UNCHANGED <<name, is_dir, kids, data, snaps, clone, fs_root, fs_cwd>>
        BY <2>3 DEF tree
      <3>2. fs_root' \in Roots /\ col[fs_cwd'] = fs_root'
        BY <3>1 DEF Roots, Coloured
      <3> QED
        BY <2>1, <3>1, <3>2, SameTreeHarmless
    <2> QED
      BY <1>5, <2>2, <2>3 DEF fs_read
  <1>6. ASSUME NEW p \in Path, fs_unlink(p) \/ fs_rmdir(p) PROVE Harmless(col)
    <2>1. CASE Quiet /\ Fail
      BY <2>1, FailHarmless
    <2>2. CASE Quiet /\ Resolve(p) # NULL /\ Drop(Resolve(p))
      <3>1. Resolve(p) \in nodes /\ col[Resolve(p)] = fs_root
        BY <1>1, <1>2, <2>2, ResolveColour
      <3> QED
        BY <2>2, <3>1, DropHarmless
    <2> QED
      BY <1>6, <2>1, <2>2 DEF fs_unlink, fs_rmdir
  <1>7. ASSUME NEW p \in Path, NEW q \in Path, fs_rename(p, q) PROVE Harmless(col)
    <2>1. CASE Quiet /\ Fail
      BY <2>1, FailHarmless
    <2>2. ASSUME Quiet, Resolve(p) # NULL, NEW v \in Vacant(q),
                 Relink(Resolve(p), v.dir, v.name)
          PROVE  Harmless(col)
      <3>1. Resolve(p) \in nodes /\ col[Resolve(p)] = fs_root
        BY <1>1, <1>2, <2>2, ResolveColour
      <3>2. v.dir \in nodes /\ col[v.dir] = fs_root
        BY <1>1, <1>2, VacantColour
      <3> QED
        BY <2>2, <3>1, <3>2, RelinkHarmless
    <2> QED
      BY <1>7, <2>1, <2>2 DEF fs_rename
  <1>8. ASSUME NEW p \in Path, NEW q \in Path, fs_copy(p, q) PROVE Harmless(col)
    <2>1. CASE Quiet /\ Fail
      BY <2>1, FailHarmless
    <2>2. CASE Quiet /\ \E v \in Vacant(q) : \/ \E dir : NewEmpty(v, dir)
                                             \/ \E text : NewFile(v, text)
      BY <1>2, <2>2, MakeAtHarmless
    <2> QED
      BY <1>8, <2>1, <2>2 DEF fs_copy
  <1>9. ASSUME NEW s \in SnapName, fs_snap_create(s) PROVE Harmless(col)
    <2>1. CASE Quiet /\ Fail
      BY <2>1, FailHarmless
    <2>2. CASE ~ Fail
      <3>1. /\ clone' = [snap |-> s, root |-> NULL,
                         todo |-> <<[sibs |-> <<fs_root>>, into |-> NULL]>>]
            /\ UNCHANGED <<tree, fs_root, fs_cwd, snaps>>
        BY <1>9, <2>2 DEF fs_snap_create
      <3> QED
        BY <3>1, CloneBeginsHarmless
    <2> QED
      BY <1>9, <2>1, <2>2 DEF fs_snap_create
  <1>10. ASSUME NEW s \in SnapName, fs_snap_restore(s) PROVE Harmless(col)
    <2>1. CASE Quiet /\ Fail
      BY <2>1, FailHarmless
    <2>2. ASSUME Quiet, NEW i \in SnapNamed(s),
                 fs_root' = snaps[i].root, fs_cwd' = snaps[i].root,
                 UNCHANGED <<heap_offset, tree, snaps, clone>>
          PROVE  Harmless(col)
      <3>1. snaps[i].root \in Roots
        BY <2>2 DEF SnapNamed, SnapRoots, Roots
      <3>2. col[snaps[i].root] = snaps[i].root
        BY <3>1 DEF Coloured
      <3>3. UNCHANGED <<name, is_dir, kids, data, snaps, clone>>
        BY <2>2 DEF tree
      <3>4. fs_root' \in Roots /\ col[fs_cwd'] = fs_root'
        BY <2>2, <3>1, <3>2
      <3> QED
        BY <2>2, <3>3, <3>4, SameTreeHarmless
    <2> QED
      BY <1>10, <2>1, <2>2 DEF fs_snap_restore
  <1>11. ASSUME NEW p \in Path, fs_chdir(p) PROVE Harmless(col)
    BY <1>2, <1>11, ChdirHarmless
  <1>12. CASE Next
    BY <1>3, <1>4, <1>5, <1>6, <1>7, <1>8, <1>9, <1>10, <1>11, <1>12, CloneHarmless,
      SnapCreateEndHarmless DEF Next
  <1>13. CASE ~Next /\ \E p : fs_chdir(p)
    BY <1>13, ChdirHarmless
  <1>14. CASE UNCHANGED vars
    <2>1. UNCHANGED <<name, is_dir, kids, data, snaps, clone, fs_root, fs_cwd>>
      BY <1>14 DEF vars, tree
    <2>2. Coloured(col)'
      BY <2>1 DEF Coloured, Roots, SnapRoots, Listed
    <2> QED
      BY <2>1, <2>2 DEF Harmless, Keep
  <1> QED
    BY <1>12, <1>13, <1>14 DEF FsStep

LEMMA InitColoured == Init => \E c : Coloured(c)
  <1> SUFFICES ASSUME Init PROVE \E c : Coloured(c)
    OBVIOUS
  <1>1. PICK r : r = fs_root
    OBVIOUS
  <1>2. fs_root \in HeapAddr
    BY InitIInv DEF IInv, TypeOK
  <1> DEFINE c == [n \in HeapAddr |-> r]
  <1>3. c \in [HeapAddr -> HeapAddr] /\ \A n \in HeapAddr : c[n] = fs_root
    BY <1>1, <1>2
  <1> HIDE DEF c
  <1>4. \A d \in HeapAddr : Listed(d) = {}
    BY DEF Init, Listed, ToSet
  <1>5. Roots = {fs_root}
    BY DEF Init, Roots, SnapRoots
  <1>6. fs_cwd = fs_root /\ clone.root = NULL /\ ToSet(clone.todo) = {}
    BY DEF Init, NoClone, ToSet
  <1>7. Coloured(c)
    BY <1>2, <1>3, <1>4, <1>5, <1>6 DEF Coloured
  <1> QED
    BY <1>7

-----------------------------------------------------------------------------
(* The trees stay apart *)

LEMMA TrailColour ==
    ASSUME TypeOK, WellLinked, NEW col, Coloured(col), NEW r \in nodes, NEW k \in Nat,
           NEW w \in Trails(r, k), NEW i \in 0 .. k
    PROVE  w[i] \in nodes /\ w[i] \in HeapAddr /\ col[w[i]] = col[r]
  <1> DEFINE bads == {j \in Nat : j <= k /\ ~(w[j] \in nodes /\ col[w[j]] = col[r])}
  <1>1. bads = {}
    <2> SUFFICES ASSUME bads # {} PROVE FALSE
      OBVIOUS
    <2>1. PICK j \in bads : \A m \in bads : j <= m
      BY LeastNat
    <2>2. CASE j = 0
      BY <2>1, <2>2, TrailFacts
    <2>3. CASE j # 0
      <3>1. j \in 1 .. k /\ j - 1 \in Nat /\ j - 1 <= k /\ ~(j <= j - 1)
        BY <2>1, <2>3
      <3>2. col[w[j - 1]] = col[r]
        BY <2>1, <3>1
      <3>3. w[j - 1] \in HeapAddr /\ w[j] \in Listed(w[j - 1])
        BY <3>1, TrailFacts
      <3>4. w[j] \in nodes /\ col[w[j]] = col[w[j - 1]]
        BY <3>3 DEF WellLinked, Coloured
      <3> QED
        BY <2>1, <3>2, <3>4
    <2> QED
      BY <2>2, <2>3
  <1>2. w[i] \in nodes /\ col[w[i]] = col[r]
    BY <1>1
  <1> QED
    BY <1>2 DEF TypeOK

LEMMA RootsUnlistedAll ==
    ASSUME TypeOK, Links, NEW r \in Roots
    PROVE  r \in nodes /\ r \in HeapAddr /\ Unlisted(r)
  BY RootsAreNodes DEF Links, RootsUnlisted, Roots, Unlisted

\* A node below a root is where a walk ends, and is of the root's colour.
LEMMA BelowFacts ==
    ASSUME TypeOK, Links, NEW r \in Roots, NEW n \in Below(r)
    PROVE  \E k \in Nat : \E w \in Trails(r, k) : w[k] = n
  <1>1. r \in nodes /\ r \in HeapAddr /\ Unlisted(r)
    BY RootsUnlistedAll
  <1>2. PICK x \in Descents(r) : x.node = n
    BY DEF Below
  <1>3. PICK k \in Nat : \E w \in Trails(r, k) : x = PlaceAt(w, k)
    BY <1>1, Found DEF Links
  <1> QED
    BY <1>2, <1>3 DEF PlaceAt

LEMMA WalkEndsBelow ==
    ASSUME TypeOK, Links, NEW r \in Roots, NEW k \in Nat, NEW w \in Trails(r, k)
    PROVE  w[k] \in Below(r)
  <1>1. r \in nodes /\ r \in HeapAddr /\ Unlisted(r)
    BY RootsUnlistedAll
  <1>2. PlaceAt(w, k) \in Descents(r)
    BY <1>1, Found DEF Links
  <1> QED
    BY <1>2 DEF Below, PlaceAt

\* What a walk from elsewhere shares with a root's tree, it entered at its start.
LEMMA MeetsBelow ==
    ASSUME TypeOK, Links, NEW r \in Roots, NEW q, r # q, NEW k \in Nat, NEW l \in Nat,
           NEW w \in Trails(r, k), NEW v \in Trails(q, l), w[k] = v[l]
    PROVE  l < k /\ q = w[k - l]
  <1>1. r \in HeapAddr /\ Unlisted(r) /\ WellLinked
    BY RootsUnlistedAll DEF Links
  <1>2. (k = l /\ w = v /\ r = q) \/ (l < k /\ q = w[k - l])
    BY <1>1, TwoWalks
  <1> QED
    BY <1>2

LEMMA ApartByColour ==
    ASSUME TypeOK, Links, NEW col, Coloured(col)
    PROVE  TreesApart
  <1>1. SUFFICES ASSUME NEW r \in Roots
                 PROVE  /\ Cardinality(Descents(r)) = Cardinality(Below(r))
                        /\ \A q \in (Roots \cup {fs_cwd}) \ {r} :
                              q \in Below(r) \/ Below(q) \cap Below(r) = {}
                        /\ fs_cwd \in Below(r) => r = fs_root
    BY DEF TreesApart, Roots
  <1>2. r \in nodes /\ r \in HeapAddr /\ Unlisted(r) /\ col[r] = r /\ WellLinked
    BY RootsUnlistedAll DEF Coloured, Links
  <1>3. Cardinality(Descents(r)) = Cardinality(Below(r))
    BY <1>2, PathsAreNodes
  <1>4. ASSUME NEW q \in Roots \cup {fs_cwd}, q # r,
               NEW n, n \in Below(q), n \in Below(r)
        PROVE  q \in Below(r)
    <2>1. q \in HeapAddr /\ NamedLists
      BY RootsAreNodes, TypesOfLists DEF TypeOK
    <2>2. PICK k \in Nat : \E w \in Trails(r, k) : w[k] = n
      BY <1>4, BelowFacts
    <2>3. PICK w \in Trails(r, k) : w[k] = n
      BY <2>2
    <2>4. PICK y \in Descents(q) : y.node = n
      BY <1>4 DEF Below
    <2>5. PICK l \in Nat : \E v \in Trails(q, l) : y = PlaceAt(v, l)
      <3>1. PICK l \in 0 .. Cardinality(nodes) : \E v \in Trails(q, l) : y = PlaceAt(v, l)
        BY <2>1, <2>4, FoundByWalk
      <3>2. l \in Nat
        BY <2>1, NodeCount DEF NamedLists
      <3> QED
        BY <3>1, <3>2
    <2>6. PICK v \in Trails(q, l) : y = PlaceAt(v, l)
      BY <2>5
    <2>7. w[k] = v[l] /\ r # q
      BY <1>4, <2>3, <2>4, <2>6 DEF PlaceAt
    <2>8. l < k /\ q = w[k - l]
      <3>1. \A ww \in Trails(r, k), vv \in Trails(q, l) :
               ww[k] = vv[l] => l < k /\ q = ww[k - l]
        BY <2>7, MeetsBelow
      <3> QED
        BY <2>7, <3>1
    <2>9. k - l \in 0 .. k /\ k - l \in Nat
      BY <2>8
    <2>10. PICK u \in Trails(r, k - l) : u[k - l] = w[k - l]
      BY <2>9, TrailPrefix
    <2> QED
      BY <2>8, <2>9, <2>10, WalkEndsBelow
  <1>5. ASSUME fs_cwd \in Below(r) PROVE r = fs_root
    <2>1. PICK k \in Nat : \E w \in Trails(r, k) : w[k] = fs_cwd
      BY <1>5, BelowFacts
    <2>2. PICK w \in Trails(r, k) : w[k] = fs_cwd
      BY <2>1
    <2>3. k \in 0 .. k
      OBVIOUS
    <2>4. col[w[k]] = col[r]
      BY <1>2, <2>3, TrailColour
    <2> QED
      BY <1>2, <2>2, <2>4 DEF Coloured
  <1>6. \A q \in (Roots \cup {fs_cwd}) \ {r} : q \in Below(r) \/ Below(q) \cap Below(r) = {}
    BY <1>4
  <1> QED
    BY <1>3, <1>5, <1>6

TreeInv == IInv /\ \E c : Coloured(c)

LEMMA StepHarmless ==
    TreeInv /\ [Next]_vars => TreeInv' /\ \E c : Coloured(c) /\ Keep(c)
  <1> SUFFICES ASSUME TreeInv, [Next]_vars
               PROVE  TreeInv' /\ \E c : Coloured(c) /\ Keep(c)
    OBVIOUS
  <1>1. IInv /\ IInv'
    BY NextIInv DEF TreeInv
  <1>2. PICK c : Coloured(c)
    BY DEF TreeInv
  <1>3. CASE Next
    <2>1. \A p : fs_chdir(p) => Next \/ p.comps \in Seq(FsName)
      BY <1>3
    <2>2. FsStep
      BY <1>3 DEF FsStep
    <2>3. Harmless(c)
      BY <1>1, <1>2, <2>1, <2>2, NextHarmless
    <2> QED
      BY <1>1, <1>2, <2>3 DEF Harmless, TreeInv
  <1>4. CASE UNCHANGED vars
    <2>1. UNCHANGED <<name, is_dir, kids, data, snaps, clone, fs_root, fs_cwd>>
      BY <1>4 DEF vars, tree
    <2>2. Coloured(c)'
      BY <1>2, <2>1 DEF Coloured, Roots, SnapRoots, Listed
    <2>3. Keep(c)
      BY <2>1 DEF Keep
    <2> QED
      BY <1>1, <1>2, <2>2, <2>3 DEF TreeInv
  <1> QED
    BY <1>3, <1>4

LEMMA TreeInductive == Spec => []TreeInv
  <1>1. Init => TreeInv
    BY InitIInv, InitColoured DEF TreeInv
  <1>2. TreeInv /\ [Next]_vars => TreeInv'
    BY StepHarmless
  <1> QED
    BY <1>1, <1>2, PTL DEF Spec

\* The live tree and the snapshots are trees without a node in common, for
\* every sequence of calls and every size of the heap: fs_rename may close a
\* cycle, and removed directories may go on growing, but off these trees.
THEOREM TreesStayApart == Spec => []TreesApart
  <1>1. TreeInv => TreesApart
    <2> SUFFICES ASSUME TreeInv PROVE TreesApart
      OBVIOUS
    <2>1. PICK c : Coloured(c)
      BY DEF TreeInv
    <2> QED
      BY <2>1, ApartByColour DEF TreeInv, IInv
  <1> QED
    BY <1>1, TreeInductive, PTL

-----------------------------------------------------------------------------
(* Saved trees keep their contents *)

\* Only the end of fs_snap_create records a snapshot.
LEMMA SnapsAddedAtEnd == [Next]_vars => UNCHANGED snaps \/ SnapCreateEnd
  <1> SUFFICES ASSUME [Next]_vars, ~SnapCreateEnd PROVE UNCHANGED snaps
    OBVIOUS
  <1>1. ASSUME NEW p \in Path,
               \/ fs_mkdir(p) \/ fs_touch(p) \/ fs_read(p) \/ fs_chdir(p)
               \/ fs_unlink(p) \/ fs_rmdir(p)
               \/ \E len \in TextLen : fs_write(p, len)
        PROVE  UNCHANGED snaps
    BY <1>1 DEF fs_mkdir, fs_touch, fs_read, fs_chdir, fs_unlink, fs_rmdir, fs_write,
      NewEmpty, NewFile, Drop, Fail
  <1>2. ASSUME NEW p \in Path, NEW q \in Path, fs_rename(p, q) \/ fs_copy(p, q)
        PROVE  UNCHANGED snaps
    BY <1>2 DEF fs_rename, fs_copy, Relink, NewEmpty, NewFile, Fail
  <1>3. ASSUME NEW nm \in RawName, NEW len \in TextLen, fs_write_cwd(nm, len)
        PROVE  UNCHANGED snaps
    BY <1>3 DEF fs_write_cwd, NewFile, Fail
  <1>4. ASSUME NEW s \in SnapName, fs_snap_create(s) \/ fs_snap_restore(s)
        PROVE  UNCHANGED snaps
    BY <1>4 DEF fs_snap_create, fs_snap_restore, Fail
  <1>5. CASE fs_clone_tree
    BY <1>5 DEF fs_clone_tree
  <1>6. CASE UNCHANGED vars
    BY <1>6 DEF vars
  <1> QED
    BY <1>1, <1>2, <1>3, <1>4, <1>5, <1>6 DEF Next

LEMMA SnapsStay == TypeOK /\ [Next]_vars => SnapRoots \subseteq SnapRoots'
  <1> SUFFICES ASSUME TypeOK, [Next]_vars PROVE SnapRoots \subseteq SnapRoots'
    OBVIOUS
  <1>1. CASE UNCHANGED snaps
    BY <1>1 DEF SnapRoots
  <1>2. CASE SnapCreateEnd
    BY <1>2, EndRoots
  <1> QED
    BY <1>1, <1>2, SnapsAddedAtEnd

\* What FoundByWalk and WalkIsFound say of a tree, in any state.
FoundAt(r) ==
    /\ \A k \in Nat : \A w \in Trails(r, k) : PlaceAt(w, k) \in Descents(r)
    /\ \A x \in Descents(r) : \E k \in Nat : \E w \in Trails(r, k) : x = PlaceAt(w, k)

LEMMA RootsFound == IInv => \A r \in Roots : FoundAt(r)
  <1> SUFFICES ASSUME IInv, NEW r \in Roots PROVE FoundAt(r)
    OBVIOUS
  <1>1. TypeOK /\ Links /\ WellLinked
    BY DEF IInv, Links
  <1>2. r \in nodes /\ r \in HeapAddr /\ Unlisted(r)
    BY <1>1, RootsUnlistedAll
  <1> QED
    BY <1>1, <1>2, Found DEF FoundAt

\* The walks in a tree that keeps its lists are the same before and after.
LEMMA TrailsKept ==
    ASSUME TypeOK, WellLinked, NEW col, Coloured(col), Keep(col),
           NEW r \in SnapRoots \ {fs_root}, r \in nodes, NEW k \in Nat
    PROVE  /\ \A w \in Trails(r, k)' : w \in Trails(r, k)
           /\ \A w \in Trails(r, k) :
                 /\ w \in Trails(r, k)'
                 /\ \A i \in 0 .. k : w[i] \in nodes /\ w[i] \in HeapAddr /\ col[w[i]] = r
                                      /\ name'[w[i]] = name[w[i]]
                                      /\ is_dir'[w[i]] = is_dir[w[i]]
                                      /\ data'[w[i]] = data[w[i]]
  <1>1. col[r] = r
    BY DEF Coloured, Roots
  <1>2. \A n \in nodes : col[n] = r => /\ Listed(n)' = Listed(n)
                                       /\ name'[n] = name[n]
                                       /\ is_dir'[n] = is_dir[n]
                                       /\ data'[n] = data[n]
    BY DEF Keep, Listed
  <1>3. ASSUME NEW w \in Trails(r, k)
        PROVE  /\ w \in Trails(r, k)'
               /\ \A i \in 0 .. k : w[i] \in nodes /\ w[i] \in HeapAddr /\ col[w[i]] = r
    <2>1. \A i \in 0 .. k : w[i] \in nodes /\ w[i] \in HeapAddr /\ col[w[i]] = r
      BY <1>1, TrailColour
    <2>2. ASSUME NEW i \in 1 .. k PROVE w[i] \in Listed(w[i - 1])'
      <3>1. w[i] \in Listed(w[i - 1]) /\ i - 1 \in 0 .. k
        BY TrailFacts
      <3> QED
        BY <1>2, <2>1, <3>1
    <2>3. w \in [0 .. k -> HeapAddr] /\ w[0] = r
      BY DEF Trails
    <2> QED
      BY <2>1, <2>2, <2>3 DEF Trails
  <1>4. ASSUME NEW w \in Trails(r, k)' PROVE w \in Trails(r, k)
    <2>1. w \in [0 .. k -> HeapAddr] /\ w[0] = r /\ \A i \in 1 .. k : w[i] \in Listed(w[i - 1])'
      BY DEF Trails
    <2> DEFINE bads == {j \in Nat : j <= k /\ ~(w[j] \in nodes /\ col[w[j]] = r)}
    <2>2. bads = {}
      <3> SUFFICES ASSUME bads # {} PROVE FALSE
        OBVIOUS
      <3>1. PICK j \in bads : \A m \in bads : j <= m
        BY LeastNat
      <3>2. CASE j = 0
        BY <1>1, <2>1, <3>1, <3>2
      <3>3. CASE j # 0
        <4>1. j \in 1 .. k /\ j - 1 \in Nat /\ j - 1 <= k /\ ~(j <= j - 1)
          BY <3>1, <3>3
        <4>2. w[j - 1] \in nodes /\ col[w[j - 1]] = r
          BY <3>1, <4>1
        <4>3. w[j] \in Listed(w[j - 1]) /\ w[j - 1] \in HeapAddr
          BY <1>2, <2>1, <4>1, <4>2 DEF TypeOK
        <4>4. w[j] \in nodes /\ col[w[j]] = col[w[j - 1]]
          BY <4>3 DEF WellLinked, Coloured
        <4> QED
          BY <3>1, <4>2, <4>4
      <3> QED
        BY <3>2, <3>3
    <2>3. ASSUME NEW i \in 1 .. k PROVE w[i] \in Listed(w[i - 1])
      <3>1. i - 1 \in Nat /\ i - 1 <= k
        OBVIOUS
      <3>2. w[i - 1] \in nodes /\ col[w[i - 1]] = r
        BY <2>2, <3>1
      <3> QED
        BY <1>2, <2>1, <3>2
    <2> QED
      BY <2>1, <2>3 DEF Trails
  <1>5. ASSUME NEW w \in Trails(r, k), NEW i \in 0 .. k
        PROVE  /\ name'[w[i]] = name[w[i]]
               /\ is_dir'[w[i]] = is_dir[w[i]]
               /\ data'[w[i]] = data[w[i]]
    BY <1>2, <1>3, <1>5
  <1> QED
    BY <1>3, <1>4, <1>5

LEMMA ViewKept ==
    ASSUME TypeOK, WellLinked, NEW col, Coloured(col), Keep(col),
           NEW r \in SnapRoots \ {fs_root}, r \in nodes, FoundAt(r), FoundAt(r)'
    PROVE  View(r)' = View(r)
  <1>1. ASSUME NEW k \in Nat, NEW w \in Trails(r, k)
        PROVE  /\ PlaceAt(w, k)' = PlaceAt(w, k)
               /\ is_dir'[w[k]] = is_dir[w[k]]
               /\ data'[w[k]] = data[w[k]]
    <2>1. \A i \in 0 .. k : /\ name'[w[i]] = name[w[i]]
                            /\ is_dir'[w[i]] = is_dir[w[i]]
                            /\ data'[w[i]] = data[w[i]]
      BY TrailsKept
    <2>2. Spelled(w, k)' = Spelled(w, k)
      BY <2>1 DEF Spelled
    <2> QED
      BY <2>1, <2>2 DEF PlaceAt
  <1>2. \A k \in Nat : \A w : w \in Trails(r, k)' <=> w \in Trails(r, k)
    BY TrailsKept
  <1>3. ASSUME NEW x \in Descents(r)
        PROVE  /\ x \in Descents(r)'
               /\ is_dir'[x.node] = is_dir[x.node]
               /\ data'[x.node] = data[x.node]
    <2>1. PICK k \in Nat : \E w \in Trails(r, k) : x = PlaceAt(w, k)
      BY <1>3 DEF FoundAt
    <2>2. PICK w \in Trails(r, k) : x = PlaceAt(w, k)
      BY <2>1
    <2>3. x = PlaceAt(w, k)' /\ w \in Trails(r, k)'
      BY <1>1, <1>2, <2>2
    <2>4. x \in Descents(r)'
      BY <2>3 DEF FoundAt
    <2>5. x.node = w[k]
      BY <2>2 DEF PlaceAt
    <2> QED
      BY <1>1, <2>4, <2>5
  <1>4. ASSUME NEW x \in Descents(r)' PROVE x \in Descents(r)
    <2>1. PICK k \in Nat : \E w \in Trails(r, k)' : x = PlaceAt(w, k)'
      BY <1>4 DEF FoundAt
    <2>2. PICK w \in Trails(r, k)' : x = PlaceAt(w, k)'
      BY <2>1
    <2>3. w \in Trails(r, k)
      BY <1>2, <2>2
    <2>4. x = PlaceAt(w, k)
      BY <1>1, <2>2, <2>3
    <2> QED
      BY <2>3, <2>4 DEF FoundAt
  <1>5. Descents(r)' = Descents(r)
    BY <1>3, <1>4
  <1>6. \A x \in Descents(r) : Entry(x.path, x.node)' = Entry(x.path, x.node)
    BY <1>3 DEF Entry
  <1> QED
    BY <1>5, <1>6 DEF View

\* No call, wherever the current directory is and whatever was moved or
\* removed before, changes what a saved tree shows.
THEOREM SavedTreesKept == Spec => SnapshotIsolation
  <1>1. (IInv => \A r \in Roots : FoundAt(r))'
    BY RootsFound, PTL
  <1>2. TreeInv /\ [Next]_vars =>
            [\/ UNCHANGED tree
             \/ \A r \in SnapRoots \ {fs_root} : View(r)' = View(r)]_vars
    <2> SUFFICES ASSUME TreeInv, [Next]_vars, NEW r \in SnapRoots \ {fs_root}
                 PROVE  View(r)' = View(r)
      OBVIOUS
    <2>1. IInv /\ IInv' /\ \E c : Coloured(c) /\ Keep(c)
      BY StepHarmless DEF TreeInv
    <2>2. PICK c : Coloured(c) /\ Keep(c)
      BY <2>1
    <2>3. TypeOK /\ Links /\ WellLinked
      BY <2>1 DEF IInv, Links
    <2>4. r \in Roots /\ r \in nodes
      BY <2>3, RootsAreNodes DEF Roots
    <2>5. r \in Roots'
      BY <2>3, SnapsStay DEF Roots
    <2>6. FoundAt(r) /\ FoundAt(r)'
      BY <1>1, <2>1, <2>4, <2>5, RootsFound
    <2> QED
      BY <2>2, <2>3, <2>4, <2>6, ViewKept
  <1> QED
    BY <1>2, TreeInductive, PTL DEF Spec, SnapshotIsolation


-----------------------------------------------------------------------------
(* The path of the current directory *)

\* The last j names on a walk of k steps.
LastNames(w, k, j) == [i \in 1 .. j |-> name[w[k - j + i]]]

LEMMA LastNamesFacts ==
    ASSUME NamedLists, NEW k \in Nat, NEW w \in [0 .. k -> HeapAddr], NEW j \in 0 .. k
    PROVE  /\ LastNames(w, k, j) \in Seq(FsName) /\ Len(LastNames(w, k, j)) = j
           /\ \A i \in 1 .. j : LastNames(w, k, j)[i] = name[w[k - j + i]]
           /\ j # 0 => LastNames(w, k, j)
                           = <<name[w[k - j + 1]]>> \o LastNames(w, k, j - 1)
  <1>1. ASSUME NEW m \in 0 .. k
        PROVE  /\ LastNames(w, k, m) \in Seq(FsName) /\ Len(LastNames(w, k, m)) = m
               /\ \A i \in 1 .. m : LastNames(w, k, m)[i] = name[w[k - m + i]]
    <2>1. \A i \in 1 .. m : k - m + i \in 0 .. k /\ name[w[k - m + i]] \in FsName
      BY DEF NamedLists
    <2>2. LastNames(w, k, m) \in [1 .. m -> FsName]
      BY <2>1 DEF LastNames
    <2>3. m \in Nat
      OBVIOUS
    <2> QED
      BY <2>2, <2>3, LenProperties DEF LastNames
  <1>2. CASE j # 0
    <2>1. /\ j - 1 \in 0 .. k /\ k - j + 1 \in 0 .. k
          /\ \A i \in 1 .. (j - 1) : k - (j - 1) + i = k - j + (i + 1)
      BY <1>2
    <2>2. name[w[k - j + 1]] \in FsName
      BY <2>1 DEF NamedLists
    <2>3. LastNames(w, k, j - 1) \in Seq(FsName) /\ Len(LastNames(w, k, j - 1)) = j - 1
      BY <1>1, <2>1
    <2> DEFINE s == LastNames(w, k, j)
               t == <<name[w[k - j + 1]]>> \o LastNames(w, k, j - 1)
    <2>4. /\ t \in Seq(FsName) /\ t[1] = name[w[k - j + 1]]
          /\ DOMAIN t = 1 .. j
          /\ \A i \in 1 .. (j - 1) : t[i + 1] = LastNames(w, k, j - 1)[i]
      BY <2>2, <2>3, HeadInsertion
    <2>5. s \in Seq(FsName) /\ Len(s) = j /\ \A i \in 1 .. j : s[i] = name[w[k - j + i]]
      BY <1>1
    <2>6. Len(t) = j
      BY <1>2, <2>4, LenProperties
    <2>7. \A i \in 1 .. (j - 1) : t[i + 1] = name[w[k - j + (i + 1)]]
      BY <1>1, <2>1, <2>4
    <2> HIDE DEF s, t
    <2>8. ASSUME NEW i \in 1 .. j PROVE s[i] = t[i]
      <3>1. CASE i = 1
        BY <2>4, <2>5, <3>1
      <3>2. CASE i # 1
        <4>1. i - 1 \in 1 .. (j - 1) /\ (i - 1) + 1 = i
          BY <3>2
        <4>2. t[(i - 1) + 1] = name[w[k - j + ((i - 1) + 1)]]
          BY <2>7, <4>1
        <4> QED
          BY <2>5, <4>1, <4>2
      <3> QED
        BY <3>1, <3>2
    <2>9. s = t
      BY <2>4, <2>5, <2>6, <2>8, SeqEqual
    <2> QED
      BY <1>1, <2>9 DEF s, t
  <1> QED
    BY <1>1, <1>2

\* fs_getcwd goes the walk from the live root back, as far as the buffer goes.
LEMMA AscentOfWalk ==
    ASSUME TypeOK, Links, NEW k \in Nat, NEW w \in Trails(fs_root, k), w[k] = fs_cwd,
           NEW f, NEW n \in Nat, Ascent(f, n), NEW j \in 0 .. n
    PROVE  f[j] = IF j <= k THEN [node |-> w[k - j], path |-> LastNames(w, k, j)]
                  ELSE [node |-> fs_root, path |-> LastNames(w, k, k)]
  <1> DEFINE good(i) == f[i] = IF i <= k
                               THEN [node |-> w[k - i], path |-> LastNames(w, k, i)]
                               ELSE [node |-> fs_root, path |-> LastNames(w, k, k)]
             bads == {i \in Nat : i <= n /\ ~good(i)}
  <1>0. NamedLists /\ w \in [0 .. k -> HeapAddr] /\ w[0] = fs_root
    BY TypesOfLists DEF Trails
  <1>1. bads = {}
    <2> SUFFICES ASSUME bads # {} PROVE FALSE
      OBVIOUS
    <2>1. PICK b \in bads : \A m \in bads : b <= m
      BY LeastNat
    <2>2. CASE b = 0
      <3>1. f[0] = CwdStart
        BY DEF Ascent
      <3>2. LastNames(w, k, 0) = <<>> /\ k - 0 = k
        BY DEF LastNames
      <3>3. good(0)
        BY <3>1, <3>2 DEF CwdStart
      <3> QED
        BY <2>1, <2>2, <3>3
    <2>3. CASE b # 0
      <3>1. b \in 1 .. n /\ b - 1 \in Nat /\ b - 1 <= n /\ ~(b <= b - 1)
        BY <2>1, <2>3
      <3>2. good(b - 1)
        BY <2>1, <3>1
      <3>3. f[b] = UpFrom(f[b - 1])
        BY <3>1 DEF Ascent
      <3>4. CASE b <= k
        <4> DEFINE at == w[k - (b - 1)]
        <4>1. /\ k - (b - 1) \in 1 .. k /\ b - 1 <= k /\ b \in 0 .. k
              /\ k - b \in 0 .. k /\ (k - (b - 1)) - 1 = k - b /\ k - b + 1 = k - (b - 1)
          BY <3>1, <3>4
        <4>2. at \in HeapAddr /\ w[k - b] \in HeapAddr /\ at \in Listed(w[k - b])
          BY <4>1 DEF Trails
        <4>3. parent[at] = w[k - b] /\ at # fs_root
          BY <4>2 DEF Links, WellLinked, RootsUnlisted
        <4>4. at \notin {NULL, fs_root}
          BY <4>2, <4>3, Constants
        <4>5. f[b - 1] = [node |-> at, path |-> LastNames(w, k, b - 1)]
          BY <3>2, <4>1
        <4>6. LastNames(w, k, b) = <<name[w[k - b + 1]]>> \o LastNames(w, k, b - 1)
          <5>1. ASSUME NEW m \in 0 .. k, m # 0
                PROVE  LastNames(w, k, m) = <<name[w[k - m + 1]]>> \o LastNames(w, k, m - 1)
            BY <1>0, <5>1, LastNamesFacts
          <5> QED
            BY <2>3, <4>1, <5>1
        <4>7. w[k - b + 1] = at
          BY <4>1
        <4> HIDE DEF at
        <4>8. f[b] = [node |-> w[k - b], path |-> LastNames(w, k, b)]
          <5>1. f[b - 1].node = at /\ f[b - 1].path = LastNames(w, k, b - 1)
            BY <4>5
          <5>2. f[b] = [node |-> parent[at], path |-> <<name[at]>> \o LastNames(w, k, b - 1)]
            BY <3>3, <4>4, <5>1 DEF UpFrom
          <5>3. LastNames(w, k, b) = <<name[at]>> \o LastNames(w, k, b - 1)
            BY <4>6, <4>7
          <5> QED
            BY <4>3, <5>2, <5>3
        <4> QED
          BY <2>1, <3>4, <4>8
      <3>5. CASE ~(b <= k)
        <4>1. f[b - 1] = [node |-> fs_root, path |-> LastNames(w, k, k)]
          <5>1. CASE b - 1 <= k
            <6>1. b - 1 = k /\ k - (b - 1) = 0
              BY <3>1, <3>5, <5>1
            <6> QED
              BY <1>0, <3>2, <6>1
          <5>2. CASE ~(b - 1 <= k)
            BY <3>2, <5>2
          <5> QED
            BY <5>1, <5>2
        <4>2. f[b] = f[b - 1]
          BY <3>3, <4>1 DEF UpFrom
        <4> QED
          BY <2>1, <3>5, <4>1, <4>2
      <3> QED
        BY <3>4, <3>5
    <2> QED
      BY <2>2, <2>3
  <1>2. j \in Nat /\ j <= n
    OBVIOUS
  <1>3. good(j)
    BY <1>1, <1>2
  <1> QED
    BY <1>3

\* What it finds: the names of that walk, as many as there is room for.
LEMMA GetcwdOfWalk ==
    ASSUME TypeOK, Links, NEW k \in Nat, NEW w \in Trails(fs_root, k), w[k] = fs_cwd
    PROVE  fs_getcwd = IF k <= CwdMax THEN Spelled(w, k) ELSE LastNames(w, k, CwdMax)
  <1>1. PICK f : Ascent(f, CwdMax) /\ fs_getcwd = f[CwdMax].path
    BY GetcwdIs
  <1>2. CwdMax \in Nat /\ CwdMax \in 0 .. CwdMax
    BY CwdAssumption
  <1>3. f[CwdMax] = IF CwdMax <= k
                    THEN [node |-> w[k - CwdMax], path |-> LastNames(w, k, CwdMax)]
                    ELSE [node |-> fs_root, path |-> LastNames(w, k, k)]
    BY <1>1, <1>2, AscentOfWalk
  <1>4. LastNames(w, k, k) = Spelled(w, k)
    <2>1. \A i \in 1 .. k : k - k + i = i
      OBVIOUS
    <2> QED
      BY <2>1 DEF LastNames, Spelled
  <1>5. CASE CwdMax = k
    BY <1>1, <1>3, <1>4, <1>5
  <1>6. CASE CwdMax < k
    BY <1>1, <1>2, <1>3, <1>6
  <1>7. CASE k < CwdMax
    BY <1>1, <1>2, <1>3, <1>4, <1>7
  <1> QED
    BY <1>2, <1>5, <1>6, <1>7

\* PwdIsCwd: whatever was moved, restored or removed, the path that pwd and
\* the prompt show is the one that leads to the current directory, or its end.
THEOREM PathShown == ShellSpec => []PwdIsCwd
  <1>1. TypeOK /\ Links => PwdIsCwd
    <2> SUFFICES ASSUME TypeOK, Links, NEW x \in Descents(fs_root), x.node = fs_cwd
                 PROVE  fs_getcwd = IF Len(x.path) <= CwdMax THEN x.path
                           ELSE SubSeq(x.path, Len(x.path) - CwdMax + 1, Len(x.path))
      BY DEF PwdIsCwd
    <2>1. NamedLists /\ fs_root \in nodes /\ Unlisted(fs_root) /\ CwdMax \in Nat
      BY TypesOfLists, CwdAssumption DEF TypeOK, Links, RootsUnlisted, Unlisted
    <2>2. PICK k \in Nat : \E w \in Trails(fs_root, k) : x = PlaceAt(w, k)
      BY <2>1, Found DEF Links
    <2>3. PICK w \in Trails(fs_root, k) : x = PlaceAt(w, k)
      BY <2>2
    <2>4. x.path = Spelled(w, k) /\ w[k] = fs_cwd
      BY <2>3 DEF PlaceAt
    <2>5. w \in [0 .. k -> HeapAddr] /\ k \in 0 .. k
      BY DEF Trails
    <2>6. /\ Spelled(w, k) \in Seq(FsName) /\ Len(Spelled(w, k)) = k
          /\ \A i \in 1 .. k : Spelled(w, k)[i] = name[w[i]]
      BY <2>1, <2>5, SpelledFacts
    <2>7. fs_getcwd = IF k <= CwdMax THEN Spelled(w, k) ELSE LastNames(w, k, CwdMax)
      BY <2>4, GetcwdOfWalk
    <2>8. CASE k <= CwdMax
      BY <2>4, <2>6, <2>7, <2>8
    <2>9. CASE ~(k <= CwdMax)
      <3> DEFINE s == LastNames(w, k, CwdMax)
                 t == SubSeq(Spelled(w, k), k - CwdMax + 1, k)
      <3>1. CwdMax \in 0 .. k
        BY <2>1, <2>9
      <3>2. s \in Seq(FsName) /\ Len(s) = CwdMax
            /\ \A i \in 1 .. CwdMax : s[i] = name[w[k - CwdMax + i]]
        BY <2>1, <2>5, <3>1, LastNamesFacts
      <3>3. /\ t \in Seq(FsName) /\ Len(t) = CwdMax
            /\ \A i \in 1 .. CwdMax : t[i] = name[w[k - CwdMax + i]]
        <4>1. /\ k - CwdMax + 1 \in 1 .. (k + 1)
              /\ \A i \in 1 .. CwdMax : /\ k - CwdMax + i \in 1 .. k
                                        /\ (k - CwdMax + 1) + i - 1 = k - CwdMax + i
          BY <3>1
        <4>2. k - (k - CwdMax + 1) + 1 = CwdMax
          BY <3>1
        <4> HIDE DEF t
        <4>3. /\ t \in Seq(FsName) /\ Len(t) = CwdMax
              /\ \A i \in 1 .. CwdMax : t[i] = Spelled(w, k)[(k - CwdMax + 1) + i - 1]
          BY <2>1, <2>6, <3>1, <4>1, <4>2, SubSeqProperties DEF t
        <4> QED
          BY <2>6, <4>1, <4>3
      <3> HIDE DEF s, t
      <3>4. s = t
        BY <3>2, <3>3, SeqEqual
      <3> QED
        BY <2>4, <2>6, <2>7, <2>9, <3>4 DEF s, t
    <2> QED
      BY <2>8, <2>9
  <1>2. ShellIInv => PwdIsCwd
    BY <1>1 DEF ShellIInv, IInv
  <1> QED
    BY <1>2, ShellInductive, PTL


-----------------------------------------------------------------------------
(* cd .. *)

LEMMA LookupListed ==
    ASSUME TypeOK, Links, NEW d \in HeapAddr, NEW n \in Listed(d)
    PROVE  Lookup(d, name[n]) = n
  <1>1. Lookup(d, name[n]) # NULL
    BY LookupFacts
  <1>2. Lookup(d, name[n]) \in Listed(d) /\ name[Lookup(d, name[n])] = name[n]
    BY <1>1, LookupFacts
  <1>3. PICK i \in DOMAIN kids[d] : kids[d][i] = Lookup(d, name[n])
    BY <1>2, ElementOfSeq DEF Listed, ToSet
  <1>4. PICK j \in DOMAIN kids[d] : kids[d][j] = n
    BY ElementOfSeq DEF Listed, ToSet
  <1> QED
    BY <1>2, <1>3, <1>4 DEF Links, UniqueNames

\* The names on a walk from the live root lead where the walk does.
LEMMA ResolveSpelled ==
    ASSUME TypeOK, Links, NEW k \in Nat, NEW w \in Trails(fs_root, k), NEW m \in 0 .. k,
           NEW p, p.abs, p.comps = Spelled(w, m)
    PROVE  Resolve(p) = w[m]
  <1>1. /\ NamedLists /\ w \in [0 .. k -> HeapAddr] /\ w[0] = fs_root
        /\ \A i \in 1 .. k : w[i] \in HeapAddr /\ w[i - 1] \in HeapAddr
                             /\ w[i] \in Listed(w[i - 1])
    BY TypesOfLists DEF Trails
  <1>2. /\ p.comps \in Seq(FsName) /\ Len(p.comps) = m
        /\ \A i \in 1 .. m : p.comps[i] = name[w[i]]
    <2>1. /\ Spelled(w, m) \in Seq(FsName) /\ Len(Spelled(w, m)) = m
          /\ \A i \in 1 .. m : Spelled(w, m)[i] = name[w[i]]
      BY <1>1, SpelledFacts
    <2> QED
      BY <2>1
  <1>3. CASE m = 0
    <2>1. p.comps = <<>>
      BY <1>3 DEF Spelled
    <2> QED
      BY <1>1, <1>3, <2>1 DEF Resolve
  <1>4. CASE m # 0
    <2>1. m - 1 \in Nat /\ m \in 1 .. k /\ m \in 1 .. m /\ p.comps # <<>>
      BY <1>2, <1>4
    <2>2. PICK f : /\ f[0] = Start(p)
                   /\ \A i \in 1 .. (m - 1) : f[i] = IF f[i - 1] = NULL THEN NULL
                                                     ELSE Lookup(f[i - 1], p.comps[i])
                   /\ Walk(p, m - 1) = IF f[m - 1] \in nodes THEN f[m - 1] ELSE NULL
      BY <2>1, WalkIs
    <2> DEFINE bads == {i \in Nat : i <= m - 1 /\ f[i] # w[i]}
    <2>3. bads = {}
      <3> SUFFICES ASSUME bads # {} PROVE FALSE
        OBVIOUS
      <3>1. PICK i \in bads : \A j \in bads : i <= j
        BY LeastNat
      <3>2. CASE i = 0
        BY <1>1, <2>2, <3>1, <3>2 DEF Start
      <3>3. CASE i # 0
        <4>1. /\ i \in 1 .. (m - 1) /\ i \in 1 .. k /\ i \in 1 .. m
              /\ i - 1 \in Nat /\ i - 1 <= m - 1 /\ ~(i <= i - 1)
          BY <3>1, <3>3
        <4>2. f[i - 1] = w[i - 1]
          BY <3>1, <4>1
        <4>3. w[i - 1] \in HeapAddr /\ w[i] \in Listed(w[i - 1])
          BY <1>1, <4>1
        <4>4. f[i] = Lookup(w[i - 1], name[w[i]])
          BY <1>2, <2>2, <4>1, <4>2, <4>3, Constants
        <4>5. f[i] = w[i]
          BY <4>3, <4>4, LookupListed
        <4> QED
          BY <3>1, <4>5
      <3> QED
        BY <3>2, <3>3
    <2>4. f[m - 1] = w[m - 1]
      BY <2>1, <2>3
    <2>5. w[m - 1] \in HeapAddr /\ w[m] \in Listed(w[m - 1])
      BY <1>1, <2>1
    <2>6. w[m - 1] \in nodes /\ w[m - 1] # NULL
      BY <2>5, Constants DEF Links, WellLinked
    <2>7. Walk(p, m - 1) = w[m - 1]
      BY <2>2, <2>4, <2>6
    <2>8. Resolve(p) = Lookup(w[m - 1], name[w[m]])
      BY <1>2, <2>1, <2>6, <2>7 DEF Resolve
    <2> QED
      BY <2>5, <2>8, LookupListed
  <1> QED
    BY <1>3, <1>4

\* A path from the live root that leads anywhere spells a walk.
LEMMA ResolvedWalk ==
    ASSUME TypeOK, Links, NEW p, p.abs, p.comps \in Seq(FsName), Resolve(p) # NULL,
           NEW m \in Nat, Len(p.comps) = m
    PROVE  \E w \in Trails(fs_root, m) : w[m] = Resolve(p) /\ Spelled(w, m) = p.comps
  <1>1. NamedLists /\ fs_root \in HeapAddr
    BY TypesOfLists DEF TypeOK
  <1>2. CASE m = 0
    <2> DEFINE w == [i \in 0 .. 0 |-> fs_root]
    <2>1. w \in Trails(fs_root, 0) /\ w[0] = fs_root
      BY <1>1 DEF Trails
    <2>2. p.comps = <<>>
      BY <1>2, EmptySeq
    <2>3. Spelled(w, 0) = <<>>
      BY DEF Spelled
    <2>4. Resolve(p) = fs_root
      BY <2>2 DEF Resolve
    <2> QED
      BY <1>2, <2>1, <2>2, <2>3, <2>4
  <1>3. CASE m # 0
    <2>1. m - 1 \in Nat /\ m \in 1 .. m /\ p.comps # <<>> /\ (m - 1) + 1 = m
      BY <1>3
    <2>2. PICK f : /\ f[0] = Start(p)
                   /\ \A i \in 1 .. (m - 1) : f[i] = IF f[i - 1] = NULL THEN NULL
                                                     ELSE Lookup(f[i - 1], p.comps[i])
                   /\ Walk(p, m - 1) = IF f[m - 1] \in nodes THEN f[m - 1] ELSE NULL
      BY <2>1, WalkIs
    <2>3. /\ Walk(p, m - 1) # NULL
          /\ Resolve(p) = Lookup(Walk(p, m - 1), p.comps[m])
      BY <2>1 DEF Resolve
    <2>4. /\ f[m - 1] # NULL
          /\ Resolve(p) = Lookup(f[m - 1], p.comps[m])
      BY <2>2, <2>3
    \* No step of the walk led nowhere: the last one would have, too.
    <2>5. \A j \in 0 .. (m - 1) : f[(m - 1) - j] # NULL
      <3> DEFINE bads == {j \in Nat : j <= m - 1 /\ f[(m - 1) - j] = NULL}
      <3>1. bads = {}
        <4> SUFFICES ASSUME bads # {} PROVE FALSE
          OBVIOUS
        <4>1. PICK j \in bads : \A i \in bads : j <= i
          BY LeastNat
        <4>2. j # 0
          BY <2>1, <2>4, <4>1
        <4>3. j - 1 \in Nat /\ j - 1 <= m - 1 /\ ~(j <= j - 1)
          BY <2>1, <4>1, <4>2
        <4> PICK i : i = (m - 1) - (j - 1)
          OBVIOUS
        <4>4. i \in 1 .. (m - 1) /\ i - 1 = (m - 1) - j
          BY <2>1, <4>1, <4>3
        <4>5. f[i] = NULL
          BY <2>2, <4>1, <4>4
        <4> QED
          BY <4>1, <4>3, <4>5
      <3>2. \A j \in 0 .. (m - 1) : f[(m - 1) - j] = NULL => j \in bads
        OBVIOUS
      <3> HIDE DEF bads
      <3> QED
        BY <3>1, <3>2
    <2>6. \A i \in 0 .. (m - 1) : f[i] # NULL
      <3> SUFFICES ASSUME NEW i \in 0 .. (m - 1) PROVE f[i] # NULL
        OBVIOUS
      <3>1. (m - 1) - i \in 0 .. (m - 1) /\ (m - 1) - ((m - 1) - i) = i
        BY <2>1
      <3> QED
        BY <2>5, <3>1
    <2>7. \A i \in 0 .. (m - 1) : f[i] \in HeapAddr
      <3> DEFINE bads == {i \in Nat : i <= m - 1 /\ f[i] \notin HeapAddr}
      <3>1. bads = {}
        <4> SUFFICES ASSUME bads # {} PROVE FALSE
          OBVIOUS
        <4>1. PICK i \in bads : \A j \in bads : i <= j
          BY LeastNat
        <4>2. CASE i = 0
          BY <1>1, <2>2, <4>1, <4>2 DEF Start
        <4>3. CASE i # 0
          <5>1. /\ i \in 1 .. (m - 1) /\ i \in 0 .. (m - 1)
                /\ i - 1 \in Nat /\ i - 1 <= m - 1 /\ ~(i <= i - 1)
            BY <4>1, <4>3
          <5>2. f[i - 1] \in HeapAddr
            BY <4>1, <5>1
          <5>3. Lookup(f[i - 1], p.comps[i]) # NULL /\ f[i] = Lookup(f[i - 1], p.comps[i])
            BY <2>2, <2>6, <5>1, <5>2, Constants
          <5>4. f[i] \in Listed(f[i - 1])
            BY <5>2, <5>3, LookupFacts
          <5> QED
            BY <4>1, <5>2, <5>4, TypesOfLists
        <4> QED
          BY <4>2, <4>3
      <3> QED
        BY <3>1
    <2> DEFINE w == [i \in 0 .. m |-> IF i = m THEN Resolve(p) ELSE f[i]]
    <2>8. \A i \in 0 .. (m - 1) : i \in 0 .. m /\ i # m /\ w[i] = f[i] /\ w[i] \in HeapAddr
      BY <2>1, <2>7
    <2>9. w[m] = Resolve(p)
      BY <2>1
    <2>10. \A i \in 1 .. m : w[i] \in Listed(w[i - 1]) /\ name[w[i]] = p.comps[i]
      <3> SUFFICES ASSUME NEW i \in 1 .. m
                   PROVE  w[i] \in Listed(w[i - 1]) /\ name[w[i]] = p.comps[i]
        OBVIOUS
      <3>1. i - 1 \in 0 .. (m - 1) /\ w[i - 1] = f[i - 1] /\ f[i - 1] \in HeapAddr
        <4>1. i - 1 \in 0 .. (m - 1)
          OBVIOUS
        <4> QED
          BY <2>7, <2>8, <4>1
      <3>2. w[i] = Lookup(f[i - 1], p.comps[i]) /\ w[i] # NULL
        <4>1. CASE i = m
          BY <2>4, <2>9, <4>1
        <4>2. CASE i # m
          <5>1. i \in 1 .. (m - 1) /\ i \in 0 .. (m - 1)
            BY <4>2
          <5> HIDE DEF w
          <5> QED
            BY <2>2, <2>6, <2>8, <3>1, <5>1, Constants
        <4> QED
          BY <4>1, <4>2
      <3> HIDE DEF w
      <3> QED
        BY <3>1, <3>2, LookupFacts
    <2>11. w[0] = fs_root /\ DOMAIN w = 0 .. m /\ w = [i \in 0 .. m |-> w[i]]
      BY <2>1, <2>2, <2>8 DEF Start
    <2>12. w[m] \in HeapAddr
      <3>1. w[m] \in Listed(w[m - 1]) /\ w[m - 1] \in HeapAddr
        BY <2>1, <2>8, <2>10
      <3> HIDE DEF w
      <3> QED
        BY <3>1, TypesOfLists
    <2> HIDE DEF w
    <2>13. w \in Trails(fs_root, m)
      <3>1. \A i \in 0 .. m : w[i] \in HeapAddr
        BY <2>8, <2>12
      <3>2. w \in [0 .. m -> HeapAddr]
        BY <2>11, <3>1
      <3> QED
        BY <2>10, <2>11, <3>2 DEF Trails
    <2>14. Spelled(w, m) = p.comps
      <3>1. w \in [0 .. m -> HeapAddr] /\ m \in 0 .. m
        BY <2>13 DEF Trails
      <3>2. /\ Spelled(w, m) \in Seq(FsName) /\ Len(Spelled(w, m)) = m
            /\ \A i \in 1 .. m : Spelled(w, m)[i] = name[w[i]]
        BY <1>1, <3>1, SpelledFacts
      <3> DEFINE s == Spelled(w, m)
                 t == p.comps
      <3>3. Len(t) = Len(s) /\ \A i \in 1 .. m : s[i] = t[i]
        BY <2>10, <3>2
      <3>4. s \in Seq(FsName) /\ t \in Seq(FsName) /\ Len(s) = m
        BY <3>2
      <3> HIDE DEF s, t
      <3>5. s = t
        BY <3>3, <3>4, SeqEqual
      <3> QED
        BY <3>5 DEF s, t
    <2> QED
      BY <2>9, <2>13, <2>14
  <1> QED
    BY <1>2, <1>3

LEMMA CdUpNames == TypeOK => CdUpTarget \in Seq(FsName)
  <1> SUFFICES ASSUME TypeOK PROVE CdUpTarget \in Seq(FsName)
    OBVIOUS
  <1>1. fs_getcwd \in Seq(FsName)
    BY GetcwdPath
  <1>2. PICK n \in Nat : n = Len(fs_getcwd)
    BY <1>1, LenProperties
  <1>3. \A i \in 1 .. n - 1 : fs_getcwd[i] \in FsName
    BY <1>1, <1>2, ElementOfSeq
  <1> QED
    BY <1>2, <1>3, SubSeqProperties DEF CdUpTarget

\* GetcwdOfWalk after a step.
GetcwdSpells ==
    \A k \in Nat : \A w \in Trails(fs_root, k) :
        w[k] = fs_cwd =>
            fs_getcwd = IF k <= CwdMax THEN Spelled(w, k) ELSE LastNames(w, k, CwdMax)

LEMMA CwdSpells == TypeOK /\ Links => GetcwdSpells
  BY GetcwdOfWalk DEF GetcwdSpells

LEMMA CwdSpellsNext == (TypeOK /\ Links => GetcwdSpells)'
  BY CwdSpells, PTL

\* What pwd shows after cd .. is what it showed before, short of a name.
LEMMA CdUpShows ==
    ASSUME TypeOK, Links, TypeOK', Links', cmd_cd_up, ret' = Ok
    PROVE  fs_getcwd' = CdUpTarget
  <1> PICK p : p = [abs |-> TRUE, comps |-> CdUpTarget]
    OBVIOUS
  <1>1. p.abs /\ p.comps = CdUpTarget /\ p.comps \in Seq(FsName)
    BY CdUpNames
  <1>2. /\ Resolve(p) # NULL /\ fs_cwd' = Resolve(p)
        /\ UNCHANGED <<tree, fs_root>>
    BY DEF cmd_cd_up, fs_chdir, Fail, Ok, Error
  <1>3. PICK m \in Nat : m = Len(p.comps)
    BY <1>1, LenProperties
  <1>4. m <= CwdMax
    <2>1. fs_getcwd \in Seq(FsName) /\ Len(fs_getcwd) <= CwdMax /\ CwdMax \in Nat
      BY GetcwdPath, CwdAssumption
    <2>2. PICK n \in Nat : n = Len(fs_getcwd)
      BY <2>1, LenProperties
    <2>3. \A i \in 1 .. n - 1 : fs_getcwd[i] \in FsName
      BY <2>1, <2>2, ElementOfSeq
    <2>4. m = IF 1 <= n - 1 THEN (n - 1) - 1 + 1 ELSE 0
      BY <1>1, <1>3, <2>2, <2>3, SubSeqProperties DEF CdUpTarget
    <2> QED
      BY <2>1, <2>2, <2>4
  <1>5. PICK w \in Trails(fs_root, m) : w[m] = Resolve(p) /\ Spelled(w, m) = p.comps
    BY <1>1, <1>2, <1>3, ResolvedWalk
  <1>6. w \in Trails(fs_root, m)' /\ w[m] = fs_cwd' /\ Spelled(w, m)' = Spelled(w, m)
    BY <1>2, <1>5 DEF Trails, Listed, Spelled, tree
  <1>7. fs_getcwd' = IF m <= CwdMax THEN Spelled(w, m)' ELSE LastNames(w, m, CwdMax)'
    BY <1>6, CwdSpellsNext DEF GetcwdSpells
  <1> QED
    BY <1>1, <1>4, <1>5, <1>6, <1>7

\* Where the path is not cut, cd .. reaches the directory that lists this one.
LEMMA CdUpParent ==
    ASSUME TypeOK, Links, cmd_cd_up
    PROVE  \A x \in Descents(fs_root) :
              x.node = fs_cwd /\ fs_cwd # fs_root /\ Len(x.path) <= CwdMax =>
                  ret' = Ok /\ fs_cwd' = parent[fs_cwd]
  <1> SUFFICES ASSUME NEW x \in Descents(fs_root),
                      x.node = fs_cwd, fs_cwd # fs_root, Len(x.path) <= CwdMax
               PROVE  ret' = Ok /\ fs_cwd' = parent[fs_cwd]
    OBVIOUS
  <1>1. NamedLists /\ fs_root \in nodes /\ Unlisted(fs_root)
    BY TypesOfLists DEF TypeOK, Links, RootsUnlisted, Unlisted
  <1>2. PICK k \in Nat : \E w \in Trails(fs_root, k) : x = PlaceAt(w, k)
    BY <1>1, Found DEF Links
  <1>3. PICK w \in Trails(fs_root, k) : x = PlaceAt(w, k)
    BY <1>2
  <1>4. x.path = Spelled(w, k) /\ w[k] = fs_cwd
    BY <1>3 DEF PlaceAt
  <1>5. w \in [0 .. k -> HeapAddr] /\ w[0] = fs_root
    BY DEF Trails
  <1>6. /\ k - 1 \in 0 .. k /\ k \in 0 .. k /\ k \in 1 .. k
        /\ w[k - 1] \in HeapAddr /\ fs_cwd \in Listed(w[k - 1])
    <2>1. k # 0
      BY <1>4, <1>5
    <2>2. k \in 1 .. k
      BY <2>1
    <2> QED
      BY <1>4, <1>5, <2>2 DEF Trails
  <1>7. /\ w[k - 1] \in nodes /\ is_dir[w[k - 1]] /\ parent[fs_cwd] = w[k - 1]
        /\ w[k - 1] # NULL
    BY <1>6, Constants DEF Links, WellLinked
  <1>8. /\ Spelled(w, k) \in Seq(FsName) /\ Len(Spelled(w, k)) = k
        /\ \A i \in 1 .. k : Spelled(w, k)[i] = name[w[i]]
    BY <1>1, <1>5, <1>6, SpelledFacts
  <1>9. /\ Spelled(w, k - 1) \in Seq(FsName) /\ Len(Spelled(w, k - 1)) = k - 1
        /\ \A i \in 1 .. (k - 1) : Spelled(w, k - 1)[i] = name[w[i]]
    BY <1>1, <1>5, <1>6, SpelledFacts
  <1>10. fs_getcwd = Spelled(w, k)
    BY <1>4, <1>8, GetcwdOfWalk
  <1>11. CdUpTarget = Spelled(w, k - 1)
    <2> DEFINE t == SubSeq(Spelled(w, k), 1, k - 1)
               s == Spelled(w, k - 1)
    <2>1. \A i \in 1 .. (k - 1) : i \in 1 .. k /\ Spelled(w, k)[i] \in FsName /\ 1 + i - 1 = i
      BY <1>6, <1>8, ElementOfSeq
    <2>2. (k - 1) - 1 + 1 = k - 1
      BY <1>6
    <2>3. /\ t \in Seq(FsName) /\ Len(t) = (IF 1 <= k - 1 THEN (k - 1) - 1 + 1 ELSE 0)
          /\ \A i \in 1 .. ((k - 1) - 1 + 1) : t[i] = Spelled(w, k)[1 + i - 1]
      BY <1>6, <2>1, SubSeqProperties
    <2> HIDE DEF t, s
    <2>4. Len(t) = k - 1 /\ \A i \in 1 .. (k - 1) : t[i] = name[w[i]]
      <3>1. Len(t) = k - 1
        BY <1>6, <2>3
      <3>2. \A i \in 1 .. (k - 1) : t[i] = Spelled(w, k)[i]
        BY <2>1, <2>2, <2>3
      <3> QED
        BY <1>8, <2>1, <3>1, <3>2
    <2>5. s = t
      BY <1>9, <2>3, <2>4, SeqEqual DEF s
    <2> QED
      BY <1>8, <1>10, <2>5 DEF CdUpTarget, s, t
  <1> DEFINE p == [abs |-> TRUE, comps |-> CdUpTarget]
  <1>12. Resolve(p) = w[k - 1]
    <2>1. p.abs /\ p.comps = Spelled(w, k - 1)
      BY <1>11
    <2> HIDE DEF p
    <2> QED
      BY <1>6, <2>1, ResolveSpelled
  <1>13. fs_chdir(p)
    BY DEF cmd_cd_up
  <1> HIDE DEF p
  <1> QED
    BY <1>7, <1>12, <1>13 DEF fs_chdir

\* CdUpDropsLastName: however long the path, the text that pwd shows loses its
\* last name or nothing changes; and a text that is not cut leads, short of its
\* last name, to the directory that lists the current one, so that cd .. goes
\* up and never fails where there is a way up.
THEOREM CdUpGoesUp == ShellSpec => CdUpDropsLastName
  <1> DEFINE A == Prompt /\ cmd_cd_up =>
                    /\ \/ ret' = Ok
                          /\ fs_getcwd' = SubSeq(fs_getcwd, 1, Len(fs_getcwd) - 1)
                       \/ ret' # Ok /\ fs_cwd' = fs_cwd
                    /\ \A x \in Descents(fs_root) :
                          x.node = fs_cwd /\ fs_cwd # fs_root /\ Len(x.path) <= CwdMax =>
                              ret' = Ok /\ fs_cwd' = parent[fs_cwd]
  <1>1. ShellIInv /\ ShellIInv' => A
    <2> SUFFICES ASSUME TypeOK, Links, TypeOK', Links', cmd_cd_up
                 PROVE  \/ ret' = Ok /\ fs_getcwd' = CdUpTarget
                        \/ ret' # Ok /\ fs_cwd' = fs_cwd
      BY CdUpParent DEF ShellIInv, IInv, CdUpTarget
    <2>1. CASE ret' = Ok
      BY <2>1, CdUpShows
    <2>2. CASE ret' # Ok
      BY <2>2 DEF cmd_cd_up, fs_chdir, Fail
    <2> QED
      BY <2>1, <2>2
  <1> HIDE DEF A
  <1>2. ShellSpec => [][A]_shell_vars
    BY <1>1, ShellInductive, PTL DEF ShellSpec
  <1> QED
    BY <1>2 DEF A, CdUpDropsLastName

-----------------------------------------------------------------------------
(* Who may only read *)

\* A guest is never logged in while a snapshot is being copied.
GuestQuiet == current_user = "guest" => Quiet

\* What a guest's command does to the directories: nothing, or a new file.
SameDirectories == UNCHANGED <<nodes, name, is_dir, kids, fs_root, snaps, clone>>
OneNewFile ==
    \E d \in nodes : \E nm, text :
        /\ Fits(heap_offset, NODE_SIZE)
        /\ NewNode(d, nm, FALSE, text)
        /\ UNCHANGED <<fs_root, snaps, clone>>

LEMMA MakesOneFile ==
    ASSUME IInv
    PROVE  /\ \A p \in Path : \A v \in Vacant(p) :
                /\ NewEmpty(v, FALSE) => OneNewFile
                /\ \A text : NewFile(v, text) => OneNewFile
           /\ \A nm, text : NewFile([dir |-> fs_cwd, name |-> nm], text) => OneNewFile
  <1>1. ASSUME NEW v, v.dir \in nodes, NewEmpty(v, FALSE) PROVE OneNewFile
    BY <1>1 DEF NewEmpty, OneNewFile
  <1>2. ASSUME NEW v, v.dir \in nodes, NEW text, NewFile(v, text) PROVE OneNewFile
    BY <1>2 DEF NewFile, OneNewFile
  <1>3. ASSUME NEW p \in Path, NEW v \in Vacant(p) PROVE v.dir \in nodes
    <2>1. p \in AnyPath
      BY FsAssumption DEF AnyPath
    <2> QED
      BY <2>1, VacantFacts DEF IInv
  <1>4. ASSUME NEW nm PROVE [dir |-> fs_cwd, name |-> nm].dir \in nodes
    BY DEF IInv, TypeOK
  <1> QED
    BY <1>1, <1>2, <1>3, <1>4

LEMMA GuestStep ==
    ASSUME IInv, SessionOK, GuestQuiet, current_user = "guest", [ShellNext]_shell_vars
    PROVE  SameDirectories \/ OneNewFile
  <1>1. perms[current_user] = {"read"}
    BY DEF perms
  <1>2. "write" \notin perms[current_user] /\ "snap" \notin perms[current_user]
    BY <1>1
  <1>3. Quiet
    BY DEF GuestQuiet
  <1>4. Fail \/ UNCHANGED vars => SameDirectories
    BY DEF Fail, vars, tree, SameDirectories
  <1>5. ASSUME NEW p \in Path, fs_touch(p) PROVE SameDirectories \/ OneNewFile
    BY <1>4, <1>5, MakesOneFile DEF fs_touch
  <1>6. ASSUME NEW p \in Path, fs_read(p) PROVE SameDirectories
    BY <1>4, <1>6 DEF fs_read, tree, SameDirectories
  <1>7. ASSUME NEW p \in Path, NEW q \in Path, fs_copy(p, q)
        PROVE  SameDirectories \/ OneNewFile
    BY <1>4, <1>7, MakesOneFile DEF fs_copy
  <1>8. ASSUME NEW p, fs_chdir(p) PROVE SameDirectories
    BY <1>4, <1>8 DEF fs_chdir, tree, SameDirectories
  <1>9. ASSUME NEW nm, NEW len, fs_write_cwd(nm, len)
        PROVE  SameDirectories \/ OneNewFile
    <2>1. CASE NewFile([dir |-> fs_cwd, name |-> nm], Crypt(Plain(len)))
      BY <2>1, MakesOneFile
    <2>2. CASE UNCHANGED <<nodes, name, is_dir, parent, kids, fs_root, fs_cwd, snaps, clone>>
      BY <2>2 DEF SameDirectories
    <2> QED
      BY <1>4, <1>9, <2>1, <2>2 DEF fs_write_cwd
  <1>10. CASE mkdir \/ write \/ rm \/ rmdir \/ mv \/ snap_create \/ snap_restore
    <2>1. UNCHANGED vars
      BY <1>2, <1>10 DEF mkdir, write, rm, rmdir, mv, snap_create, snap_restore, Permitted
    <2> QED
      BY <1>4, <2>1
  <1>11. CASE touch
    BY <1>5, <1>11 DEF touch
  <1>12. CASE cat
    BY <1>4, <1>6, <1>12 DEF cat, Permitted
  <1>13. CASE cp
    BY <1>4, <1>7, <1>13 DEF cp, Permitted, Given
  <1>14. CASE cmd_cd_up \/ \E p \in Given : cmd_cd(p)
    BY <1>8, <1>14 DEF cmd_cd_up, cmd_cd
  <1>15. CASE (\E u \in users : cmd_login(u)) \/ (\E nm \in RawName : editor_start(nm))
    BY <1>4, <1>15 DEF cmd_login, editor_start
  <1>16. CASE EditorType \/ EditorErase
    BY <1>4, <1>16 DEF EditorType, EditorErase
  <1>17. CASE EditorEscape
    <2>1. editor.name \in RawName /\ editor_save_file
      BY <1>17 DEF EditorEscape, SessionOK
    <2>2. PathOf[editor.name] \in Path
      BY <2>1, ShellAssumption
    <2> QED
      BY <1>5, <1>9, <2>1, <2>2 DEF editor_save_file
  <1>18. CASE fs_clone_tree \/ SnapCreateEnd
    BY <1>3, <1>18 DEF Quiet, NoClone, fs_clone_tree, SnapCreateEnd
  <1>19. CASE UNCHANGED shell_vars
    BY <1>4, <1>19 DEF shell_vars
  <1> QED
    BY <1>10, <1>11, <1>12, <1>13, <1>14, <1>15, <1>16, <1>17, <1>18, <1>19 DEF ShellNext

LEMMA GuestQuietNext ==
    ShellIInv /\ GuestQuiet /\ [ShellNext]_shell_vars => GuestQuiet'
  <1> SUFFICES ASSUME ShellIInv, GuestQuiet, [ShellNext]_shell_vars, current_user' = "guest"
               PROVE  Quiet'
    BY DEF GuestQuiet
  <1>1. CASE current_user = "guest"
    <2>1. UNCHANGED clone
      BY <1>1, GuestStep DEF ShellIInv, SameDirectories, OneNewFile
    <2> QED
      BY <1>1, <2>1 DEF GuestQuiet, Quiet
  <1>2. CASE current_user # "guest"
    <2>1. Prompt /\ \E u \in users : cmd_login(u)
      BY <1>2 DEF ShellNext, session, shell_vars, editor_start, EditorType, EditorErase,
                  EditorEscape
    <2>2. Quiet /\ UNCHANGED clone
      BY <2>1 DEF Prompt, cmd_login, vars
    <2> QED
      BY <2>2 DEF Quiet
  <1> QED
    BY <1>1, <1>2

LEMMA GuestInductive == ShellSpec => [](ShellIInv /\ GuestQuiet)
  <1>1. ShellInit => GuestQuiet
    BY DEF ShellInit, GuestQuiet
  <1> QED
    BY <1>1, GuestQuietNext, ShellInductive, PTL DEF ShellSpec

\* A file more, that lists nothing: what was found is found still, and what is
\* found now besides is that file.
LEMMA GrownByFile ==
    ASSUME IInv, IInv', OneNewFile, FoundAt(fs_root), FoundAt(fs_root)'
    PROVE  /\ Descents(fs_root) \subseteq Descents(fs_root)'
           /\ \A x \in Descents(fs_root)' \ Descents(fs_root) : ~is_dir'[x.node]
  <1>0. TypeOK /\ Links /\ WellLinked /\ TypeOK' /\ Links' /\ WellLinked'
    BY DEF IInv, Links
  <1>a. PICK d \in nodes : \E nm, text :
            /\ Fits(heap_offset, NODE_SIZE)
            /\ NewNode(d, nm, FALSE, text)
            /\ UNCHANGED <<fs_root, snaps, clone>>
    BY DEF OneNewFile
  <1>1. PICK nm, text :
            /\ Fits(heap_offset, NODE_SIZE)
            /\ NewNode(d, nm, FALSE, text)
            /\ UNCHANGED <<fs_root, snaps, clone>>
    BY <1>a
  <1> DEFINE n == PtrAt(heap_offset)
  <1>2. PICK c : c = n
    OBVIOUS
  <1>3. /\ c \in HeapAddr /\ c \notin nodes
        /\ \A x \in HeapAddr : c \notin Listed(x)
    BY <1>1, <1>2, FreshNode
  <1>4. d \in HeapAddr /\ kids[d] \in Seq(HeapAddr)
    BY <1>0 DEF TypeOK
  <1>5. /\ name' = [name EXCEPT ![c] = nm]
        /\ is_dir' = [is_dir EXCEPT ![c] = FALSE]
        /\ kids' = [kids EXCEPT ![d] = <<c>> \o kids[d]]
    BY <1>1, <1>2 DEF NewNode
  <1> HIDE DEF n
  <1>6. \A x \in HeapAddr : x # c => name'[x] = name[x]
    BY <1>0, <1>5 DEF TypeOK
  <1>7. is_dir'[c] = FALSE
    BY <1>0, <1>3, <1>5 DEF TypeOK
  <1>8. Listed(d)' = Listed(d) \cup {c} /\ \A x \in HeapAddr : x # d => Listed(x)' = Listed(x)
    <2>1. ToSet(<<c>> \o kids[d]) = Listed(d) \cup {c}
      BY <1>3, <1>4, HeadInsertion DEF Listed
    <2>2. kids'[d] = <<c>> \o kids[d] /\ \A x \in HeapAddr : x # d => kids'[x] = kids[x]
      BY <1>0, <1>4, <1>5 DEF TypeOK
    <2> QED
      BY <2>1, <2>2 DEF Listed
  <1>9. Listed(c)' = {}
    BY <1>0, <1>3, <1>7 DEF WellLinked
  <1>10. fs_root' = fs_root /\ fs_root # c /\ fs_root \in HeapAddr
    BY <1>0, <1>1, <1>3 DEF TypeOK
  <1>11. \A x \in HeapAddr : \A m \in Listed(x) : m \in HeapAddr /\ m # c
    BY <1>0, <1>3, TypesOfLists
  <1>12. ASSUME NEW k \in Nat, NEW w \in Trails(fs_root, k)
         PROVE  w \in Trails(fs_root, k)' /\ PlaceAt(w, k)' = PlaceAt(w, k)
    <2>1. /\ w \in [0 .. k -> HeapAddr] /\ w[0] = fs_root
          /\ \A i \in 1 .. k : w[i - 1] \in HeapAddr /\ w[i] \in Listed(w[i - 1])
      BY DEF Trails
    <2>2. w \in Trails(fs_root, k)'
      BY <1>8, <1>10, <2>1 DEF Trails
    <2>3. \A i \in 1 .. k : name'[w[i]] = name[w[i]]
      BY <1>6, <1>11, <2>1
    <2>4. Spelled(w, k)' = Spelled(w, k)
      BY <2>3 DEF Spelled
    <2> QED
      BY <2>2, <2>4 DEF PlaceAt
  <1>13. ASSUME NEW k \in Nat, NEW w \in Trails(fs_root, k)', w[k] # c
         PROVE  w \in Trails(fs_root, k)
    <2>1. /\ w \in [0 .. k -> HeapAddr] /\ w[0] = fs_root
          /\ \A i \in 1 .. k : w[i - 1] \in HeapAddr /\ w[i] \in Listed(w[i - 1])'
      BY <1>10 DEF Trails
    <2>2. ASSUME NEW i \in 0 .. k PROVE w[i] # c
      <3>1. CASE i = k
        BY <1>13, <3>1
      <3>2. CASE i # k
        <4>1. i + 1 \in 1 .. k /\ (i + 1) - 1 = i
          BY <3>2
        <4>2. w[i + 1] \in Listed(w[i])'
          BY <2>1, <4>1
        <4> QED
          BY <1>9, <4>2
      <3> QED
        BY <3>1, <3>2
    <2>3. ASSUME NEW i \in 1 .. k PROVE w[i] \in Listed(w[i - 1])
      <3>1. w[i] # c /\ w[i - 1] \in HeapAddr /\ w[i] \in Listed(w[i - 1])'
        BY <2>1, <2>2
      <3> QED
        BY <1>8, <3>1
    <2> QED
      BY <2>1, <2>3 DEF Trails
  <1>14. ASSUME NEW x \in Descents(fs_root) PROVE x \in Descents(fs_root)'
    <2>1. PICK k \in Nat : \E w \in Trails(fs_root, k) : x = PlaceAt(w, k)
      BY <1>14 DEF FoundAt
    <2>2. PICK w \in Trails(fs_root, k) : x = PlaceAt(w, k)
      BY <2>1
    <2> QED
      BY <1>12, <2>2 DEF FoundAt
  <1>15. ASSUME NEW x \in Descents(fs_root)', x \notin Descents(fs_root)
         PROVE  ~is_dir'[x.node]
    <2>1. PICK k \in Nat : \E w \in Trails(fs_root, k)' : x = PlaceAt(w, k)'
      BY <1>15 DEF FoundAt
    <2>2. PICK w \in Trails(fs_root, k)' : x = PlaceAt(w, k)'
      BY <2>1
    <2>3. CASE w[k] = c
      BY <1>7, <2>2, <2>3 DEF PlaceAt
    <2>4. CASE w[k] # c
      <3>1. w \in Trails(fs_root, k) /\ x = PlaceAt(w, k)
        BY <1>12, <1>13, <2>2, <2>4
      <3> QED
        BY <1>15, <3>1 DEF FoundAt
    <2> QED
      BY <2>3, <2>4
  <1> QED
    BY <1>14, <1>15

\* ReadersOnlyAdd: whatever command the permission checks of shell.c let a
\* guest run, and whatever a guest types into the editor, no path of the live
\* tree goes and no directory comes, and the saved trees are not touched.
THEOREM GuestsOnlyAdd == ShellSpec => ReadersOnlyAdd
  <1> DEFINE A == current_user = "guest" =>
                    /\ fs_root' = fs_root /\ snaps' = snaps
                    /\ Descents(fs_root) \subseteq Descents(fs_root)'
                    /\ \A x \in Descents(fs_root)' \ Descents(fs_root) : ~is_dir'[x.node]
  <1>1. (IInv => \A r \in Roots : FoundAt(r))'
    BY RootsFound, PTL
  <1>2. /\ ShellIInv /\ GuestQuiet
        /\ (ShellIInv /\ GuestQuiet)'
        /\ [ShellNext]_shell_vars
        => A
    <2> SUFFICES ASSUME IInv, SessionOK, GuestQuiet, IInv', [ShellNext]_shell_vars,
                        current_user = "guest"
                 PROVE  /\ fs_root' = fs_root /\ snaps' = snaps
                        /\ Descents(fs_root) \subseteq Descents(fs_root)'
                        /\ \A x \in Descents(fs_root)' \ Descents(fs_root) :
                              ~is_dir'[x.node]
      BY DEF ShellIInv
    <2>1. CASE SameDirectories
      <3>1. Descents(fs_root)' = Descents(fs_root)
        BY <2>1 DEF SameDirectories, Descents, Children, Listed
      <3> QED
        BY <2>1, <3>1 DEF SameDirectories
    <2>2. CASE OneNewFile
      <3>1. fs_root' = fs_root /\ snaps' = snaps
        BY <2>2 DEF OneNewFile
      <3>2. FoundAt(fs_root) /\ FoundAt(fs_root)'
        <4>1. fs_root \in Roots /\ (fs_root \in Roots)'
          BY DEF Roots
        <4> QED
          BY <1>1, <4>1, RootsFound
      <3> QED
        BY <2>2, <3>1, <3>2, GrownByFile
    <2> QED
      BY <2>1, <2>2, GuestStep
  <1> HIDE DEF A
  <1>3. ShellSpec => [][A]_shell_vars
    BY <1>2, GuestInductive, PTL DEF ShellSpec
  <1> QED
    BY <1>3 DEF A, ReadersOnlyAdd

-----------------------------------------------------------------------------
(* What a snapshot holds *)

\* A directory holds no text.
HoldNothing == \A n \in nodes : is_dir[n] => data[n] = NoText

LEMMA NewHoldsNothing ==
    ASSUME TypeOK, HoldNothing, Fits(heap_offset, NODE_SIZE),
           NEW d, NEW nm, NEW dir \in BOOLEAN, NEW text, dir => text = NoText,
           PtrAt(heap_offset) \in HeapAddr, NewNode(d, nm, dir, text)
    PROVE  HoldNothing'
  <1> DEFINE n == PtrAt(heap_offset)
  <1>1. /\ nodes' = nodes \cup {n}
        /\ is_dir' = [is_dir EXCEPT ![n] = dir]
        /\ data' = [data EXCEPT ![n] = text]
    BY DEF NewNode
  <1>2. n \in HeapAddr
    OBVIOUS
  <1> HIDE DEF n
  <1>3. ASSUME NEW m \in nodes', is_dir'[m] PROVE data'[m] = NoText
    <2>1. CASE m = n
      BY <1>1, <1>2, <1>3, <2>1 DEF TypeOK
    <2>2. CASE m # n
      BY <1>1, <1>3, <2>2 DEF TypeOK, HoldNothing
    <2> QED
      BY <2>1, <2>2
  <1> QED
    BY <1>3 DEF HoldNothing

LEMMA NextHoldsNothing == IInv /\ HoldNothing /\ [Next]_vars => HoldNothing'
  <1> SUFFICES ASSUME IInv, HoldNothing, [Next]_vars PROVE HoldNothing'
    OBVIOUS
  <1>0. TypeOK
    BY DEF IInv
  <1>1. ASSUME UNCHANGED <<nodes, is_dir, data>> PROVE HoldNothing'
    BY <1>1 DEF HoldNothing
  <1>2. ASSUME NEW v, NEW dir \in BOOLEAN, NewEmpty(v, dir) PROVE HoldNothing'
    <2>1. /\ Fits(heap_offset, NODE_SIZE) /\ NewNode(v.dir, v.name, dir, NoText)
      BY <1>2 DEF NewEmpty
    <2>2. PtrAt(heap_offset) \in HeapAddr
      BY <2>1, FreshNode
    <2> QED
      BY <1>0, <2>1, <2>2, NewHoldsNothing
  <1>3. ASSUME NEW v, NEW text, NewFile(v, text) PROVE HoldNothing'
    <2>1. PICK kept : NewNode(v.dir, v.name, FALSE, kept)
      BY <1>3 DEF NewFile
    <2>2. Fits(heap_offset, NODE_SIZE)
      BY <1>3 DEF NewFile
    <2>3. PtrAt(heap_offset) \in HeapAddr
      BY <2>2, FreshNode
    <2> QED
      BY <1>0, <2>1, <2>2, <2>3, NewHoldsNothing
  <1>4. Fail => HoldNothing'
    BY <1>1 DEF Fail, tree
  <1>5. ASSUME NEW p \in Path,
               \/ fs_mkdir(p) \/ fs_touch(p) \/ \E len \in TextLen : fs_write(p, len)
        PROVE  HoldNothing'
    BY <1>2, <1>3, <1>4, <1>5 DEF fs_mkdir, fs_touch, fs_write
  <1>6. ASSUME NEW p \in Path,
               fs_read(p) \/ fs_chdir(p) \/ fs_unlink(p) \/ fs_rmdir(p)
        PROVE  HoldNothing'
    <2>1. UNCHANGED <<nodes, is_dir, data>>
      BY <1>6 DEF fs_read, fs_chdir, fs_unlink, fs_rmdir, Drop, Fail, tree
    <2> QED
      BY <1>1, <2>1
  <1>7. ASSUME NEW p \in Path, NEW q \in Path, fs_rename(p, q) PROVE HoldNothing'
    <2>1. UNCHANGED <<nodes, is_dir, data>>
      BY <1>7 DEF fs_rename, Relink, Fail, tree
    <2> QED
      BY <1>1, <2>1
  <1>8. ASSUME NEW p \in Path, NEW q \in Path, fs_copy(p, q) PROVE HoldNothing'
    BY <1>2, <1>3, <1>4, <1>8 DEF fs_copy
  <1>9. ASSUME NEW nm \in RawName, NEW len \in TextLen, fs_write_cwd(nm, len)
        PROVE  HoldNothing'
    <2> DEFINE n == Lookup(fs_cwd, nm)
    <2>1. CASE NewFile([dir |-> fs_cwd, name |-> nm], Crypt(Plain(len)))
      BY <1>3, <2>1
    <2>2. CASE /\ ~is_dir[n]
               /\ data' = [data EXCEPT ![n] = Crypt(Plain(len))]
               /\ UNCHANGED <<nodes, is_dir>>
      <3> HIDE DEF n
      <3> QED
        BY <1>0, <2>2 DEF HoldNothing, TypeOK
    <2> QED
      BY <1>4, <1>9, <2>1, <2>2 DEF fs_write_cwd
  <1>10. ASSUME NEW s \in SnapName, fs_snap_create(s) \/ fs_snap_restore(s)
         PROVE  HoldNothing'
    <2>1. UNCHANGED <<nodes, is_dir, data>>
      BY <1>10 DEF fs_snap_create, fs_snap_restore, Fail, tree
    <2> QED
      BY <1>1, <2>1
  <1>11. CASE fs_clone_tree
    <2>1. CASE ~Fits(heap_offset, NODE_SIZE)
      BY <1>1, <1>11, <2>1 DEF fs_clone_tree, tree
    <2>2. CASE Fits(heap_offset, NODE_SIZE)
      <3>1. \E orig, into, copy : CopyStep(into, copy) /\ CopyOf(orig, into, copy)
        BY <1>11, <2>2, CopySteps DEF fs_clone_tree
      <3>2. PICK orig, into, copy : CopyStep(into, copy) /\ CopyOf(orig, into, copy)
        BY <3>1
      <3>3. ASSUME NEW m \in nodes', is_dir'[m] PROVE data'[m] = NoText
        <4>1. CASE m = copy
          BY <3>2, <3>3, <4>1 DEF CopyOf
        <4>2. CASE m # copy
          <5>1. m \in nodes /\ m \in HeapAddr
            BY <1>0, <3>2, <3>3, <4>2 DEF CopyOf, TypeOK
          <5> QED
            BY <3>2, <3>3, <4>2, <5>1 DEF CopyStep, HoldNothing
        <4> QED
          BY <4>1, <4>2
      <3> QED
        BY <3>3 DEF HoldNothing
    <2> QED
      BY <2>1, <2>2
  <1>12. CASE SnapCreateEnd
    BY <1>1, <1>12 DEF SnapCreateEnd
  <1>13. CASE UNCHANGED vars
    BY <1>1, <1>13 DEF vars, tree
  <1> QED
    BY <1>5, <1>6, <1>7, <1>8, <1>9, <1>10, <1>11, <1>12, <1>13 DEF Next

-----------------------------------------------------------------------------
\* made are the nodes of the copy so far, and src tells what each is a copy of:
\* the copy hangs together as its original does, nothing else lists its nodes,
\* and what waits to be copied into one of its directories is in the original's.
Matches(made, src) ==
    /\ made \subseteq nodes /\ fs_root \notin made
    /\ IF clone.root = NULL THEN made = {}
       ELSE clone.root \in made /\ src[clone.root] = fs_root
    /\ \A d \in HeapAddr : \A n \in Listed(d) : n \in made <=> d \in made
    /\ \A d \in made :
          /\ src[d] \in nodes \ made /\ src[d] \in Below(fs_root)
          /\ is_dir[d] = is_dir[src[d]] /\ data[d] \in {data[src[d]], NoText}
          /\ \A n \in Listed(d) : src[n] \in Listed(src[d]) /\ name[n] = name[src[n]]
          /\ \A x : Waits(x, d, clone.todo) => x \in Listed(src[d])
    /\ \A f \in ToSet(clone.todo) : IF f.into = NULL THEN made = {} ELSE f.into \in made

\* Nothing is left out: what is not copied yet waits.
Full(made, src) ==
    \A d \in made :
        /\ data[d] = data[src[d]]
        /\ \A m \in Listed(src[d]) :
              Waits(m, d, clone.todo) \/ \E n \in Listed(d) : src[n] = m

CopyInv == \E made, src : Matches(made, src) /\ (Ample => Full(made, src))

LEMMA TrailExtended ==
    ASSUME NEW r, NEW k \in Nat, NEW w \in Trails(r, k), NEW m \in Listed(w[k]),
           m \in HeapAddr
    PROVE  \E v \in Trails(r, k + 1) : v[k + 1] = m /\ \A i \in 0 .. k : v[i] = w[i]
  <1> DEFINE v == [i \in 0 .. (k + 1) |-> IF i = k + 1 THEN m ELSE w[i]]
  <1>1. /\ w \in [0 .. k -> HeapAddr] /\ w[0] = r
        /\ \A i \in 1 .. k : w[i] \in Listed(w[i - 1])
    BY DEF Trails
  <1>2. /\ v \in [0 .. (k + 1) -> HeapAddr] /\ v[0] = r /\ v[k + 1] = m
        /\ \A i \in 0 .. k : v[i] = w[i]
    BY <1>1
  <1>3. ASSUME NEW i \in 1 .. (k + 1) PROVE v[i] \in Listed(v[i - 1])
    <2>1. CASE i = k + 1
      <3>1. i - 1 = k /\ k \in 0 .. k
        BY <2>1
      <3> QED
        BY <1>2, <2>1, <3>1
    <2>2. CASE i # k + 1
      <3>1. i \in 1 .. k /\ i \in 0 .. k /\ i - 1 \in 0 .. k
        BY <2>2
      <3> QED
        BY <1>1, <1>2, <3>1
    <2> QED
      BY <2>1, <2>2
  <1> HIDE DEF v
  <1>4. v \in Trails(r, k + 1)
    BY <1>2, <1>3 DEF Trails
  <1> QED
    BY <1>2, <1>4

LEMMA BelowListed ==
    ASSUME TypeOK, Links, NEW r \in Roots
    PROVE  /\ r \in Below(r)
           /\ \A n \in Below(r) : \A m \in Listed(n) : m \in Below(r)
           /\ Below(r) \subseteq nodes
  <1>1. r \in HeapAddr /\ r \in nodes
    BY RootsUnlistedAll
  <1>2. r \in Below(r)
    <2> DEFINE w == [i \in 0 .. 0 |-> r]
    <2>1. w \in Trails(r, 0) /\ w[0] = r
      BY <1>1 DEF Trails
    <2> HIDE DEF w
    <2> QED
      BY <2>1, WalkEndsBelow
  <1>3. ASSUME NEW n \in Below(r), NEW m \in Listed(n) PROVE m \in Below(r)
    <2>1. PICK k \in Nat : \E w \in Trails(r, k) : w[k] = n
      BY BelowFacts
    <2>2. PICK w \in Trails(r, k) : w[k] = n
      BY <2>1
    <2>3. n \in HeapAddr
      BY <2>2 DEF Trails
    <2>4. m \in HeapAddr
      BY <2>3, TypesOfLists
    <2>5. PICK v \in Trails(r, k + 1) : v[k + 1] = m
      BY <2>2, <2>4, TrailExtended
    <2> QED
      BY <2>5, WalkEndsBelow
  <1>4. ASSUME NEW n \in Below(r) PROVE n \in nodes
    <2>1. PICK k \in Nat : \E w \in Trails(r, k) : w[k] = n
      BY BelowFacts
    <2>2. PICK w \in Trails(r, k) : w[k] = n
      BY <2>1
    <2>3. CASE k = 0
      BY <1>1, <2>2, <2>3 DEF Trails
    <2>4. CASE k # 0
      <3>1. k \in 1 .. k
        BY <2>4
      <3>2. w[k - 1] \in HeapAddr /\ w[k] \in Listed(w[k - 1])
        BY <3>1, TrailFacts
      <3> QED
        BY <2>2, <3>2 DEF Links, WellLinked
    <2> QED
      BY <2>3, <2>4
  <1> QED
    BY <1>2, <1>3, <1>4

\* Room that is left now was left before.
LEMMA RoomBefore ==
    ASSUME NEW g \in 0 .. (KHEAP_SIZE - 1), NEW h \in 0 .. (KHEAP_SIZE - 1), g <= h,
           NEW size \in Nat, size + KHEAP_SIZE < UINT32, Fits(h, size)
    PROVE  Fits(g, size)
  BY NoWrap, Constants

-----------------------------------------------------------------------------
(* The copy, one call at a time *)

LEMMA TextSize ==
    ASSUME TypeOK, NEW n \in HeapAddr
    PROVE  /\ data[n].len + 1 \in Nat /\ data[n].len + 1 + KHEAP_SIZE < UINT32
           /\ NODE_SIZE + KHEAP_SIZE < UINT32 /\ NODE_SIZE \in Nat
  <1>1. data[n] \in Content \cup {NoText}
    BY DEF TypeOK
  <1>2. data[n].len \in TextLen \/ data[n].len = 0
    BY <1>1 DEF Content, NoText
  <1>3. \A len \in TextLen : len \in Nat /\ len + 1 + KHEAP_SIZE < UINT32
    BY FsAssumption
  <1>4. NODE_SIZE \in Nat \ {0} /\ NODE_SIZE + KHEAP_SIZE < UINT32
    BY FsAssumption
  <1> QED
    BY <1>2, <1>3, <1>4, Constants

LEMMA HeapGrows ==
    ASSUME IInv, fs_clone_tree, TypeOK'
    PROVE  heap_offset <= heap_offset'
  <1>a. heap_offset \in 0 .. (KHEAP_SIZE - 1) /\ heap_offset' \in 0 .. (KHEAP_SIZE - 1)
    BY DEF IInv, TypeOK
  <1>b. clone.todo # <<>> /\ (~Fits(heap_offset, NODE_SIZE) => heap_offset' = heap_offset)
    BY Zenon DEF fs_clone_tree
  <1>0. /\ heap_offset \in 0 .. (KHEAP_SIZE - 1) /\ heap_offset \in Nat /\ clone.todo # <<>>
        /\ heap_offset' \in Nat
    BY <1>a, <1>b, Constants
  <1>1. CASE ~Fits(heap_offset, NODE_SIZE)
    BY <1>0, <1>1, <1>b
  <1>2. CASE Fits(heap_offset, NODE_SIZE)
    <2> DEFINE orig   == Head(Head(clone.todo).sibs)
               text   == IF is_dir[orig] THEN NoText ELSE data[orig]
               offset == OffsetAfter(heap_offset, NODE_SIZE)
               stored == text # NoText /\ Fits(offset, text.len + 1)
    <2>1. heap_offset' = IF stored THEN OffsetAfter(offset, text.len + 1) ELSE offset
      BY <1>2 DEF fs_clone_tree
    <2>2. /\ offset = heap_offset + NODE_SIZE /\ offset \in 0 .. (KHEAP_SIZE - 1)
          /\ NODE_SIZE \in Nat
      BY <1>2, FreshNode, Constants
    <2>3. orig \in HeapAddr
      <3>1. /\ clone.todo \in Seq(Frame) /\ OneToOne(clone.todo, Into)
            /\ \A f \in ToSet(clone.todo) : FrameOK(f) /\ f.sibs # <<>>
        BY DEF IInv, TypeOK, CloneOK
      <3>2. Head(clone.todo) \in Frame /\ Head(clone.todo) \in ToSet(clone.todo)
        BY <1>0, <3>1, HeadAndTail
      <3> QED
        BY <3>1, <3>2, HeadAndTail DEF FrameOK, Frame
    <2>4. /\ text.len + 1 \in Nat /\ text.len + 1 + KHEAP_SIZE < UINT32
      <3>1. NoText.len = 0 /\ 0 + 1 \in Nat /\ 0 + 1 + KHEAP_SIZE < UINT32
        BY FsAssumption, Constants DEF NoText
      <3> HIDE DEF orig
      <3> QED
        BY <2>3, <3>1, TextSize DEF IInv
    <2> HIDE DEF text, offset
    <2>5. OffsetAfter(offset, text.len + 1) = offset + (text.len + 1)
      BY <2>2, <2>4, NoWrap
    <2> QED
      BY <1>0, <2>1, <2>2, <2>4, <2>5
  <1> QED
    BY <1>1, <1>2

\* What a call of the clone finds: the original is below the root, apart from the
\* copy, and in the list that the directory copied into is a copy of.
LEMMA CopyFacts ==
    ASSUME IInv, NEW made, NEW src, Matches(made, src),
           NEW orig, NEW into, NEW copy, CopyStep(into, copy), CopyOf(orig, into, copy)
    PROVE  /\ IF into = NULL THEN made = {} ELSE into \in made
           /\ orig \notin made /\ orig # into /\ orig \in Below(fs_root)
           /\ into # NULL => orig \in Listed(src[into])
           /\ orig \in nodes /\ orig \in HeapAddr /\ orig # copy
           /\ Listed(copy) = {} /\ copy # into
           /\ \A d \in made : /\ d \in nodes /\ d \in HeapAddr /\ d # copy
                               /\ src[d] \in nodes /\ src[d] \in HeapAddr /\ src[d] # copy
                               /\ src[d] \notin made /\ src[d] # into
  <1>0. TypeOK /\ Links /\ NULL \notin HeapAddr /\ fs_root \in nodes
    BY Constants DEF IInv, TypeOK
  <1>1. /\ copy \in HeapAddr /\ copy # NULL /\ copy \notin nodes
        /\ \A d \in HeapAddr : copy \notin Listed(d)
        /\ \A n \in HeapAddr : n # copy =>
              name'[n] = name[n] /\ is_dir'[n] = is_dir[n] /\ data'[n] = data[n]
        /\ \A d \in HeapAddr : d # into => Listed(d)' = Listed(d)
        /\ into # NULL => Listed(into)' = Listed(into) \cup {copy}
        /\ fs_root' = fs_root
    BY DEF CopyStep, Listed
  <1>2. IF into = NULL THEN made = {} ELSE into \in made
    <2>1. PICK f \in ToSet(clone.todo) : f.into = into
      BY DEF CopyStep
    <2> QED
      BY <2>1 DEF Matches
  <1>3. \A d \in made : d \in nodes /\ d \in HeapAddr /\ d # copy
                        /\ src[d] \in nodes /\ src[d] \in HeapAddr /\ src[d] # copy
                        /\ src[d] \notin made /\ src[d] # into
    <2> SUFFICES ASSUME NEW d \in made
                 PROVE  /\ d \in nodes /\ d \in HeapAddr /\ d # copy
                        /\ src[d] \in nodes /\ src[d] \in HeapAddr /\ src[d] # copy
                        /\ src[d] \notin made /\ src[d] # into
      OBVIOUS
    <2>1. d \in nodes /\ src[d] \in nodes /\ src[d] \notin made
      BY DEF Matches
    <2>2. d \in HeapAddr /\ src[d] \in HeapAddr
      BY <1>0, <2>1 DEF TypeOK
    <2>3. into \in made
      BY <1>2
    <2> QED
      BY <1>1, <2>1, <2>2, <2>3
  <1>4. into # NULL => orig \in Listed(src[into])
    BY <1>2 DEF Matches, CopyOf
  <1>5. orig \in nodes /\ orig \in HeapAddr /\ orig # copy
    BY <1>1 DEF CopyOf
  <1>6. orig \notin made /\ orig # into
    <2>1. CASE into = NULL
      BY <1>0, <1>2, <1>5, <2>1
    <2>2. CASE into # NULL
      BY <1>2, <1>3, <1>4, <2>2 DEF Matches
    <2> QED
      BY <2>1, <2>2
  <1>7. orig \in Below(fs_root)
    <2>1. fs_root \in Roots
      BY DEF Roots
    <2>2. CASE into = NULL
      BY <1>0, <2>1, <2>2, BelowListed DEF CopyOf
    <2>3. CASE into # NULL
      <3>1. src[into] \in Below(fs_root)
        BY <1>2, <2>3 DEF Matches
      <3> QED
        BY <1>0, <1>4, <2>1, <2>3, <3>1, BelowListed
    <2> QED
      BY <2>2, <2>3
  <1>8. Listed(copy) = {} /\ copy # into
    <2>1. Listed(copy) = {}
      BY <1>0, <1>1 DEF Links, WellLinked
    <2>2. copy # into
      BY <1>1, <1>2, <1>3
    <2> QED
      BY <2>1, <2>2
  <1> QED
    BY <1>2, <1>3, <1>4, <1>5, <1>6, <1>7, <1>8

LEMMA CopyMatches ==
    ASSUME IInv, IInv', NEW made, NEW src, Matches(made, src),
           NEW orig, NEW into, NEW copy, CopyStep(into, copy), CopyOf(orig, into, copy),
           \A n \in Below(fs_root) : n \in Below(fs_root)'
    PROVE  Matches(made \cup {copy},
                   [n \in made \cup {copy} |-> IF n = copy THEN orig ELSE src[n]])'
  <1> DEFINE made2 == made \cup {copy}
  <1>a. PICK m2, s2 : /\ m2 = made2
                      /\ s2 = [n \in made2 |-> IF n = copy THEN orig ELSE src[n]]
    OBVIOUS
  <1>0. TypeOK /\ Links /\ TypeOK' /\ NULL \notin HeapAddr /\ fs_root \in nodes
    BY Constants DEF IInv, TypeOK
  <1>1. /\ copy \in HeapAddr /\ copy # NULL /\ copy \notin nodes
        /\ \A d \in HeapAddr : copy \notin Listed(d)
        /\ \A n \in HeapAddr : n # copy =>
              name'[n] = name[n] /\ is_dir'[n] = is_dir[n] /\ data'[n] = data[n]
        /\ \A d \in HeapAddr : d # into => Listed(d)' = Listed(d)
        /\ into # NULL => Listed(into)' = Listed(into) \cup {copy}
        /\ fs_root' = fs_root
    BY DEF CopyStep, Listed
  <1>2. IF into = NULL THEN made = {} ELSE into \in made
    BY CopyFacts
  <1>3. \A d \in made : d \in nodes /\ d \in HeapAddr /\ d # copy
                        /\ src[d] \in nodes /\ src[d] \in HeapAddr /\ src[d] # copy
                        /\ src[d] \notin made /\ src[d] # into
    BY CopyFacts
  <1>4. into # NULL => orig \in Listed(src[into])
    BY CopyFacts
  <1>5. orig \in nodes /\ orig \in HeapAddr /\ orig # copy
    BY CopyFacts
  <1>6. orig \notin made /\ orig # into
    BY CopyFacts
  <1>7. orig \in Below(fs_root)
    BY CopyFacts
  <1>8. Listed(copy) = {} /\ Listed(copy)' = {} /\ copy # into
    <2>1. Listed(copy) = {} /\ copy # into
      BY CopyFacts
    <2> QED
      BY <1>1, <2>1
  <1>9. /\ m2 = made \cup {copy}
        /\ s2[copy] = orig /\ \A d \in made : s2[d] = src[d]
    BY <1>a, <1>3
  <1>10. m2 \subseteq nodes' /\ fs_root' \notin m2
    BY <1>0, <1>1, <1>9 DEF Matches, CopyOf
  <1>11. clone'.root # NULL /\ clone'.root \in m2 /\ s2[clone'.root] = fs_root'
    <2>1. CASE into = NULL
      BY <1>1, <1>9, <2>1 DEF CopyStep, CopyOf
    <2>2. CASE into # NULL
      <3>1. clone.root # NULL /\ clone.root \in made /\ src[clone.root] = fs_root
        BY <1>2, <2>2 DEF Matches
      <3> QED
        BY <1>1, <1>9, <2>2, <3>1 DEF CopyStep
    <2> QED
      BY <2>1, <2>2
  <1>12. ASSUME NEW d \in HeapAddr, NEW n \in Listed(d)' PROVE n \in m2 <=> d \in m2
    <2>1. CASE n = copy
      <3>1. d = into
        BY <1>1, <1>12, <2>1
      <3>2. into # NULL
        BY <1>0, <3>1
      <3> QED
        BY <1>2, <1>9, <2>1, <3>1, <3>2
    <2>2. CASE n # copy
      <3>1. n \in Listed(d)
        BY <1>0, <1>1, <1>12, <2>2
      <3>2. d # copy
        BY <1>8, <3>1
      <3> QED
        BY <1>9, <2>2, <3>1, <3>2 DEF Matches
    <2> QED
      BY <2>1, <2>2
  <1>13. ASSUME NEW d \in m2
         PROVE  /\ s2[d] \in nodes' \ m2 /\ s2[d] \in Below(fs_root)'
                /\ is_dir'[d] = is_dir'[s2[d]] /\ data'[d] \in {data'[s2[d]], NoText}
                /\ \A n \in Listed(d)' : /\ s2[n] \in Listed(s2[d])'
                                         /\ name'[n] = name'[s2[n]]
                /\ \A x : Waits(x, d, clone'.todo) => x \in Listed(s2[d])'
    <2>1. CASE d = copy
      <3>1. s2[d] = orig /\ orig \in nodes' /\ orig \notin m2
        BY <1>5, <1>6, <1>9, <2>1 DEF CopyOf
      <3>2. /\ is_dir'[copy] = is_dir'[orig] /\ data'[copy] \in {data'[orig], NoText}
            /\ Listed(orig)' = Listed(orig)
        BY <1>1, <1>5, <1>6 DEF CopyOf
      <3>3. ASSUME NEW x, Waits(x, copy, clone'.todo) PROVE x \in Listed(orig)
        <4>1. ~Waits(x, copy, clone.todo)
          <5> SUFFICES ASSUME NEW f \in ToSet(clone.todo), f.into = copy PROVE FALSE
            BY DEF Waits
          <5>1. copy \in made
            BY <1>1 DEF Matches
          <5> QED
            BY <1>3, <5>1
        <4> QED
          BY <1>8, <3>3, <4>1 DEF CopyOf
      <3> QED
        BY <1>7, <1>8, <2>1, <3>1, <3>2, <3>3
    <2>2. CASE d # copy
      <3>1. d \in made /\ s2[d] = src[d]
        BY <1>9, <2>2
      <3>2. /\ src[d] \in nodes' /\ src[d] \notin m2 /\ src[d] \in Below(fs_root)'
            /\ Listed(src[d])' = Listed(src[d])
        BY <1>1, <1>3, <1>9, <3>1 DEF Matches, CopyOf
      <3>3. is_dir'[d] = is_dir'[src[d]] /\ data'[d] \in {data'[src[d]], NoText}
        BY <1>1, <1>3, <3>1 DEF Matches
      <3>4. ASSUME NEW n \in Listed(d)'
            PROVE  s2[n] \in Listed(src[d]) /\ name'[n] = name'[s2[n]]
        <4>1. CASE n = copy
          <5>1. d = into /\ into # NULL
            BY <1>0, <1>1, <1>3, <3>1, <3>4, <4>1
          <5>2. s2[n] = orig /\ name'[copy] = name'[orig]
            BY <1>1, <1>5, <1>9, <4>1 DEF CopyOf
          <5> QED
            BY <1>4, <4>1, <5>1, <5>2
        <4>2. CASE n # copy
          <5>1. n \in Listed(d) /\ d \in HeapAddr
            BY <1>0, <1>1, <1>3, <3>1, <3>4, <4>2
          <5>2. n \in made /\ s2[n] = src[n] /\ src[n] \in Listed(src[d])
                /\ name[n] = name[src[n]]
            BY <1>9, <3>1, <5>1 DEF Matches
          <5> QED
            BY <1>1, <1>3, <5>2
        <4> QED
          BY <4>1, <4>2
      <3>5. ASSUME NEW x, Waits(x, d, clone'.todo) PROVE x \in Listed(src[d])
        <4>1. Waits(x, d, clone.todo)
          BY <2>2, <3>5 DEF CopyOf
        <4> QED
          BY <3>1, <4>1 DEF Matches
      <3> QED
        BY <3>1, <3>2, <3>3, <3>4, <3>5
    <2> QED
      BY <2>1, <2>2
  <1>14. ASSUME NEW f \in ToSet(clone'.todo) PROVE f.into # NULL /\ f.into \in m2
    <2>1. CASE f \in ToSet(clone.todo) /\ f.into # into
      BY <1>2, <1>9, <2>1 DEF Matches
    <2>2. CASE f.into = into /\ into # NULL
      BY <1>2, <1>9, <2>2
    <2>3. CASE f.into = copy
      BY <1>1, <1>9, <2>3
    <2> QED
      BY <1>14, <2>1, <2>2, <2>3 DEF CopyStep
  <1>15. Matches(m2, s2)'
    BY <1>10, <1>11, <1>12, <1>13, <1>14 DEF Matches
  <1> QED
    BY <1>a, <1>15

LEMMA CopyFull ==
    ASSUME IInv, IInv', HoldNothing, NEW made, NEW src, Matches(made, src), Full(made, src),
           NEW orig, NEW into, NEW copy, CopyStep(into, copy), CopyOf(orig, into, copy),
           \A n \in Below(fs_root) : n \in Below(fs_root)', Ample'
    PROVE  Full(made \cup {copy},
                [n \in made \cup {copy} |-> IF n = copy THEN orig ELSE src[n]])'
  <1> DEFINE made2 == made \cup {copy}
  <1>a. PICK m2, s2 : /\ m2 = made2
                      /\ s2 = [n \in made2 |-> IF n = copy THEN orig ELSE src[n]]
    OBVIOUS
  <1>1. /\ copy \in HeapAddr /\ copy \notin nodes
        /\ \A n \in HeapAddr : n # copy => data'[n] = data[n]
        /\ \A d \in HeapAddr : d # into => Listed(d)' = Listed(d)
        /\ into # NULL => Listed(into)' = Listed(into) \cup {copy}
    BY DEF CopyStep, Listed
  <1>2. /\ IF into = NULL THEN made = {} ELSE into \in made
        /\ orig \notin made /\ orig \in Below(fs_root)
        /\ Listed(copy) = {}
        /\ \A d \in made : src[d] # into /\ src[d] # copy /\ d # copy /\ d \in HeapAddr
    BY CopyFacts
  <1>3. \A d \in made : src[d] \in HeapAddr
    BY DEF Matches, IInv, TypeOK
  <1>4. orig \in nodes /\ orig \in HeapAddr /\ orig # copy /\ orig # into
    <2>1. orig \in nodes /\ orig \in HeapAddr /\ orig # copy
      BY <1>1 DEF CopyOf
    <2> QED
      BY <1>2, <2>1, Constants
  <1>5. m2 = made \cup {copy} /\ s2[copy] = orig /\ \A d \in made : s2[d] = src[d]
    BY <1>a, <1>2
  <1>6. data'[copy] = data'[orig]
    <2>1. data'[orig] = data[orig]
      BY <1>1, <1>4
    <2>2. CASE is_dir[orig]
      BY <1>4, <2>1, <2>2 DEF CopyOf, HoldNothing
    <2>3. Fits(heap_offset', data[orig].len + 1)
      BY <1>2, <2>1 DEF Ample
    <2> QED
      BY <2>1, <2>2, <2>3 DEF CopyOf
  <1>7. ASSUME NEW d \in m2
        PROVE  /\ data'[d] = data'[s2[d]]
               /\ \A m \in Listed(s2[d])' : \/ Waits(m, d, clone'.todo)
                                            \/ \E n \in Listed(d)' : s2[n] = m
    <2>1. CASE d = copy
      BY <1>1, <1>4, <1>5, <1>6, <2>1 DEF CopyOf
    <2>2. CASE d # copy
      <3>1. d \in made /\ s2[d] = src[d] /\ d \in HeapAddr
        BY <1>2, <1>5, <2>2
      <3>2. data'[d] = data'[src[d]]
        BY <1>1, <1>2, <1>3, <3>1 DEF Full
      <3>3. ASSUME NEW m \in Listed(src[d])'
            PROVE  Waits(m, d, clone'.todo) \/ \E n \in Listed(d)' : s2[n] = m
        <4>1. m \in Listed(src[d])
          BY <1>1, <1>2, <1>3, <3>1, <3>3
        <4>2. CASE \E n \in Listed(d) : src[n] = m
          <5>1. PICK n \in Listed(d) : src[n] = m
            BY <4>2
          <5>2. n \in made
            BY <3>1, <5>1 DEF Matches
          <5>3. n \in Listed(d)'
            <6>1. CASE d = into
              <7>1. into # NULL
                BY <3>1, <6>1, Constants
              <7> QED
                BY <1>1, <5>1, <6>1, <7>1
            <6>2. CASE d # into
              BY <1>1, <3>1, <5>1, <6>2
            <6> QED
              BY <6>1, <6>2
          <5> QED
            BY <1>5, <5>1, <5>2, <5>3
        <4>3. CASE Waits(m, d, clone.todo)
          <5>1. CASE d # into
            BY <4>3, <5>1 DEF CopyOf
          <5>2. CASE d = into /\ m # orig
            BY <4>3, <5>2 DEF CopyOf
          <5>3. CASE d = into /\ m = orig
            <6>1. copy \in Listed(d)' /\ s2[copy] = m
              BY <1>1, <1>5, <3>1, <5>3, Constants
            <6> QED
              BY <6>1
          <5> QED
            BY <5>1, <5>2, <5>3
        <4> QED
          BY <3>1, <4>1, <4>2, <4>3 DEF Full
      <3> QED
        BY <3>1, <3>2, <3>3
    <2> QED
      BY <2>1, <2>2
  <1>8. Full(m2, s2)'
    BY <1>7 DEF Full
  <1> QED
    BY <1>a, <1>8

WalksBelow == \A r \in Roots : \A k \in Nat : \A w \in Trails(r, k) : w[k] \in Below(r)

LEMMA WalksEndBelow == IInv => WalksBelow
  BY WalkEndsBelow DEF IInv, WalksBelow

LEMMA WalksEndBelowNext == IInv' => WalksBelow'
  BY WalksEndBelow, PTL

LEMMA CopyKept ==
    ASSUME IInv, IInv', HoldNothing, CopyInv, fs_clone_tree
    PROVE  CopyInv'
  <1>0. /\ TypeOK /\ TypeOK' /\ clone.todo # <<>>
        /\ heap_offset \in 0 .. (KHEAP_SIZE - 1) /\ heap_offset' \in 0 .. (KHEAP_SIZE - 1)
    BY DEF IInv, TypeOK, fs_clone_tree
  <1>1. PICK made, src : Matches(made, src) /\ (Ample => Full(made, src))
    BY DEF CopyInv
  <1>2. CASE ~Fits(heap_offset, NODE_SIZE)
    <2>1. /\ clone' = [clone EXCEPT !.todo = Tail(@)]
          /\ UNCHANGED <<heap_offset, nodes, name, is_dir, data, kids, fs_root>>
      BY <1>2 DEF fs_clone_tree, tree
    <2>2. clone'.root = clone.root /\ clone'.todo = Tail(clone.todo)
      BY <1>0, <2>1 DEF TypeOK
    <2>3. ToSet(clone'.todo) \subseteq ToSet(clone.todo)
      BY <1>0, <2>2, HeadAndTail DEF IInv, TypeOK, CloneOK
    <2>4. Below(fs_root)' = Below(fs_root) /\ \A d : Listed(d)' = Listed(d)
      BY <2>1 DEF Below, Descents, Children, Listed
    <2>5. \A x, d : Waits(x, d, clone'.todo) => Waits(x, d, clone.todo)
      BY <2>3 DEF Waits
    <2>6. Matches(made, src)'
      BY <1>1, <2>1, <2>2, <2>3, <2>4, <2>5 DEF Matches
    <2>7. ~Ample'
      BY <1>2, <2>1 DEF Ample
    <2> QED
      BY <2>6, <2>7 DEF CopyInv
  <1>3. CASE Fits(heap_offset, NODE_SIZE)
    <2>1. \E orig, into, copy : CopyStep(into, copy) /\ CopyOf(orig, into, copy)
      BY <1>0, <1>3, CopySteps
    <2>2. PICK orig, into, copy : CopyStep(into, copy) /\ CopyOf(orig, into, copy)
      BY <2>1
    <2>3. WalksBelow' /\ \A n \in Below(fs_root) :
                              \E k \in Nat : \E w \in Trails(fs_root, k) : w[k] = n
      BY BelowFacts, WalksEndBelowNext DEF IInv, Roots
    <2>4. ASSUME NEW n \in Below(fs_root) PROVE n \in Below(fs_root)'
      <3>1. fs_root' = fs_root /\ fs_root \in Roots /\ fs_root' \in Roots'
        BY <2>2 DEF CopyStep, Roots
      <3>2. PICK k \in Nat : \E w \in Trails(fs_root, k) : w[k] = n
        BY <2>3, <3>1
      <3>3. PICK w \in Trails(fs_root, k) : w[k] = n
        BY <3>2
      <3>4. ASSUME NEW d \in HeapAddr, NEW m \in Listed(d) PROVE m \in Listed(d)'
        BY <2>2, <3>4, Constants DEF CopyStep, Listed
      <3>5. w \in Trails(fs_root, k)'
        <4>1. /\ w \in [0 .. k -> HeapAddr] /\ w[0] = fs_root'
              /\ \A i \in 1 .. k : w[i - 1] \in HeapAddr /\ w[i] \in Listed(w[i - 1])
          BY <3>1, TrailFacts
        <4> QED
          BY <3>4, <4>1 DEF Trails
      <3> QED
        BY <2>3, <3>1, <3>3, <3>5 DEF WalksBelow
    <2>5. Matches(made \cup {copy},
                  [n \in made \cup {copy} |-> IF n = copy THEN orig ELSE src[n]])'
      <3>1. \A n \in Below(fs_root) : n \in Below(fs_root)'
        BY <2>4
      <3> QED
        BY <1>1, <2>2, <3>1, CopyMatches
    <2>6. ASSUME Ample' PROVE Ample
      <3>1. heap_offset <= heap_offset'
        BY <1>0, HeapGrows
      <3>2. Fits(heap_offset', NODE_SIZE)
        BY <2>6 DEF Ample
      <3>3. NODE_SIZE \in Nat /\ NODE_SIZE + KHEAP_SIZE < UINT32
        BY FsAssumption, Constants
      <3>4. Fits(heap_offset, NODE_SIZE)
        BY <1>0, <3>1, <3>2, <3>3, RoomBefore
      <3>5. ASSUME NEW n \in Below(fs_root) PROVE Fits(heap_offset, data[n].len + 1)
        <4>1. n \in nodes /\ n \in HeapAddr
          BY BelowListed DEF IInv, Roots, TypeOK
        <4>2. data'[n] = data[n]
          BY <2>2, <4>1 DEF CopyStep
        <4>3. Fits(heap_offset', data[n].len + 1)
          BY <2>4, <2>6, <4>2 DEF Ample
        <4>4. data[n].len + 1 \in Nat /\ data[n].len + 1 + KHEAP_SIZE < UINT32
          BY <1>0, <4>1, TextSize
        <4> QED
          BY <1>0, <3>1, <4>3, <4>4, RoomBefore
      <3> QED
        BY <3>4, <3>5 DEF Ample
    <2>7. Ample' => Full(made \cup {copy},
                         [n \in made \cup {copy} |-> IF n = copy THEN orig ELSE src[n]])'
      BY <1>1, <2>2, <2>4, <2>6, CopyFull
    <2> QED
      BY <2>5, <2>7 DEF CopyInv
  <1> QED
    BY <1>2, <1>3

\* Before the first node is copied, and when no copy is being made.
NoneCopied == clone.root = NULL /\ \A f \in ToSet(clone.todo) : f.into = NULL

LEMMA NothingCopied == NoneCopied => CopyInv
  <1> SUFFICES ASSUME NoneCopied PROVE CopyInv
    OBVIOUS
  <1>1. PICK src : src = [n \in {} |-> n]
    OBVIOUS
  <1>2. Matches({}, src) /\ Full({}, src)
    <2>1. \A d \in HeapAddr : \A n \in Listed(d) : n \in {} <=> d \in {}
      OBVIOUS
    <2> QED
      BY <2>1 DEF NoneCopied, Matches, Full
  <1> QED
    BY <1>2 DEF CopyInv

LEMMA NothingCopiedNext == NoneCopied' => CopyInv'
  BY NothingCopied, PTL

LEMMA NextCopies == IInv /\ IInv' /\ HoldNothing /\ CopyInv /\ [Next]_vars => CopyInv'
  <1> SUFFICES ASSUME IInv, IInv', HoldNothing, CopyInv, [Next]_vars PROVE CopyInv'
    OBVIOUS
  <1>1. ASSUME Quiet, UNCHANGED clone PROVE CopyInv'
    <2>1. clone'.root = NULL /\ ToSet(clone'.todo) = {}
      BY <1>1 DEF Quiet, NoClone, ToSet
    <2> QED
      BY <2>1, NothingCopiedNext DEF NoneCopied
  <1>2. ASSUME NEW p \in Path,
               \/ fs_mkdir(p) \/ fs_touch(p) \/ fs_read(p) \/ fs_chdir(p)
               \/ fs_unlink(p) \/ fs_rmdir(p)
               \/ \E len \in TextLen : fs_write(p, len)
        PROVE  Quiet /\ UNCHANGED clone
    BY <1>2 DEF fs_mkdir, fs_touch, fs_read, fs_chdir, fs_unlink, fs_rmdir, fs_write,
      NewEmpty, NewFile, Drop, Fail
  <1>3. ASSUME NEW p \in Path, NEW q \in Path, fs_rename(p, q) \/ fs_copy(p, q)
        PROVE  Quiet /\ UNCHANGED clone
    BY <1>3 DEF fs_rename, fs_copy, Relink, NewEmpty, NewFile, Fail
  <1>4. ASSUME NEW nm \in RawName, NEW len \in TextLen, fs_write_cwd(nm, len)
        PROVE  Quiet /\ UNCHANGED clone
    BY <1>4 DEF fs_write_cwd, NewFile, Fail
  <1>5. ASSUME NEW s \in SnapName, fs_snap_restore(s)
        PROVE  Quiet /\ UNCHANGED clone
    BY <1>5 DEF fs_snap_restore, Fail
  <1>6. ASSUME NEW s \in SnapName, fs_snap_create(s) PROVE CopyInv'
    <2>1. CASE clone' = [snap |-> s, root |-> NULL,
                         todo |-> <<[sibs |-> <<fs_root>>, into |-> NULL]>>]
      <3>1. clone'.root = NULL /\ \A f \in ToSet(clone'.todo) : f.into = NULL
        BY <2>1 DEF ToSet
      <3> QED
        BY <3>1, NothingCopiedNext DEF NoneCopied
    <2>2. CASE Quiet /\ Fail
      BY <1>1, <2>2 DEF Fail
    <2> QED
      BY <1>6, <2>1, <2>2 DEF fs_snap_create
  <1>7. CASE fs_clone_tree
    BY <1>7, CopyKept
  <1>8. CASE SnapCreateEnd
    <2>1. clone'.root = NULL /\ ToSet(clone'.todo) = {}
      BY <1>8 DEF SnapCreateEnd, NoClone, ToSet
    <2> QED
      BY <2>1, NothingCopiedNext DEF NoneCopied
  <1>9. CASE UNCHANGED vars
    <2>1. /\ UNCHANGED <<heap_offset, nodes, name, is_dir, data, kids, fs_root, clone>>
      BY <1>9 DEF vars, tree
    <2>2. /\ Below(fs_root)' = Below(fs_root) /\ \A d : Listed(d)' = Listed(d)
          /\ Ample' <=> Ample
      BY <2>1 DEF Below, Descents, Children, Listed, Ample
    <2>3. PICK made, src : Matches(made, src) /\ (Ample => Full(made, src))
      BY DEF CopyInv
    <2>4. Matches(made, src)' /\ (Full(made, src) => Full(made, src)')
      BY <2>1, <2>2, <2>3 DEF Matches, Full
    <2> QED
      BY <2>2, <2>3, <2>4 DEF CopyInv
  <1> QED
    BY <1>1, <1>2, <1>3, <1>4, <1>5, <1>6, <1>7, <1>8, <1>9 DEF Next

LEMMA CopyInductive == Spec => [](IInv /\ HoldNothing /\ CopyInv)
  <1>1. Init => IInv /\ HoldNothing /\ CopyInv
    <2> SUFFICES ASSUME Init PROVE HoldNothing /\ CopyInv
      BY InitIInv
    <2>1. HoldNothing
      <3>1. nodes \subseteq HeapAddr
        BY InitIInv DEF IInv, TypeOK
      <3> QED
        BY <3>1 DEF Init, HoldNothing
    <2>2. clone.root = NULL /\ ToSet(clone.todo) = {}
      BY DEF Init, NoClone, ToSet
    <2> QED
      BY <2>1, <2>2, NothingCopied DEF NoneCopied
  <1>2. IInv /\ HoldNothing /\ CopyInv /\ [Next]_vars => (IInv /\ HoldNothing /\ CopyInv)'
    BY NextIInv, NextHoldsNothing, NextCopies
  <1> QED
    BY <1>1, <1>2, PTL DEF Spec

\* A walk in the copy follows a walk in the live tree.
LEMMA CopyWalks ==
    ASSUME TypeOK, NEW made, NEW src, Matches(made, src), clone.root # NULL,
           NEW k \in Nat, NEW w \in Trails(clone.root, k)
    PROVE  /\ \A i \in 0 .. k : w[i] \in made /\ src[w[i]] \in HeapAddr
           /\ [i \in 0 .. k |-> src[w[i]]] \in Trails(fs_root, k)
  <1>0. /\ w[0] = clone.root /\ clone.root \in made /\ src[clone.root] = fs_root
        /\ \A i \in 1 .. k : w[i - 1] \in HeapAddr /\ w[i] \in Listed(w[i - 1])
    BY TrailFacts DEF Matches
  <1>1. ASSUME NEW i \in 0 .. k PROVE w[i] \in made
    <2> DEFINE bads == {j \in Nat : j <= k /\ w[j] \notin made}
    <2> SUFFICES ASSUME bads # {} PROVE FALSE
      OBVIOUS
    <2>1. PICK j \in bads : \A m \in bads : j <= m
      BY LeastNat
    <2>2. CASE j = 0
      BY <1>0, <2>1, <2>2
    <2>3. CASE j # 0
      <3>1. j \in 1 .. k /\ j - 1 \in Nat /\ j - 1 <= k /\ ~(j <= j - 1)
        BY <2>1, <2>3
      <3>2. w[j - 1] \in made
        BY <2>1, <3>1
      <3> QED
        BY <1>0, <2>1, <3>1, <3>2 DEF Matches
    <2> QED
      BY <2>2, <2>3
  <1>2. ASSUME NEW i \in 0 .. k PROVE src[w[i]] \in HeapAddr
    BY <1>1 DEF Matches, TypeOK
  <1>3. ASSUME NEW i \in 1 .. k
        PROVE  src[w[i]] \in Listed(src[w[i - 1]])
    <2>1. i - 1 \in 0 .. k
      OBVIOUS
    <2>2. w[i - 1] \in made
      BY <1>1, <2>1
    <2> QED
      BY <1>0, <2>2 DEF Matches
  <1> DEFINE v == [i \in 0 .. k |-> src[w[i]]]
  <1>4. v \in [0 .. k -> HeapAddr] /\ v[0] = fs_root
    BY <1>0, <1>2
  <1>5. ASSUME NEW i \in 1 .. k PROVE v[i] \in Listed(v[i - 1])
    BY <1>3
  <1>6. v \in Trails(fs_root, k)
    <2> HIDE DEF v
    <2> QED
      BY <1>4, <1>5 DEF Trails
  <1> QED
    BY <1>1, <1>2, <1>6

\* When nothing is left out and nothing waits, every walk in the live tree has
\* a walk in the copy that follows it.
LEMMA WalksCopied ==
    ASSUME TypeOK, NEW made, NEW src, Matches(made, src), Full(made, src),
           clone.root # NULL, clone.todo = <<>>
    PROVE  \A k \in Nat : \A v \in Trails(fs_root, k) :
              \E w \in Trails(clone.root, k) : \A i \in 0 .. k : v[i] = src[w[i]]
  <1> DEFINE good(k) == \A v \in Trails(fs_root, k) :
                  \E w \in Trails(clone.root, k) : \A i \in 0 .. k : v[i] = src[w[i]]
             bads == {k \in Nat : ~good(k)}
  <1> SUFFICES ASSUME bads # {} PROVE FALSE
    OBVIOUS
  <1>1. PICK k \in bads : \A j \in bads : k <= j
    BY LeastNat
  <1>2. PICK v \in Trails(fs_root, k) :
            ~\E w \in Trails(clone.root, k) : \A i \in 0 .. k : v[i] = src[w[i]]
    BY <1>1
  <1>3. k \in Nat /\ clone.root \in made /\ src[clone.root] = fs_root /\ v[0] = fs_root
        /\ clone.root \in HeapAddr
    BY <1>1, TrailFacts DEF Matches, TypeOK
  <1>4. CASE k = 0
    <2> DEFINE w == [i \in 0 .. 0 |-> clone.root]
    <2>1. w \in Trails(clone.root, 0) /\ w[0] = clone.root
      BY <1>3 DEF Trails
    <2> HIDE DEF w
    <2> QED
      BY <1>2, <1>3, <1>4, <2>1
  <1>5. CASE k # 0
    <2>1. k - 1 \in Nat /\ k - 1 \in 0 .. k /\ k \in 1 .. k /\ ~(k <= k - 1)
      BY <1>3, <1>5
    <2>2. good(k - 1)
      BY <1>1, <2>1
    <2>3. PICK u \in Trails(fs_root, k - 1) : \A j \in 0 .. (k - 1) : v[j] = u[j]
      BY <1>3, <2>1, TrailPrefix
    <2>4. PICK w \in Trails(clone.root, k - 1) : \A i \in 0 .. (k - 1) : u[i] = src[w[i]]
      BY <2>2, <2>3
    <2>5. /\ w[k - 1] \in made /\ v[k - 1] = src[w[k - 1]] /\ v[k] \in Listed(v[k - 1])
          /\ w[k - 1] \in HeapAddr
      <3>1. k - 1 \in 0 .. (k - 1)
        BY <2>1
      <3>2. w[k - 1] \in made
        BY <2>1, <3>1, CopyWalks
      <3> QED
        BY <1>2, <1>3, <2>1, <2>3, <2>4, <3>1, <3>2, TrailFacts DEF Matches, TypeOK
    <2>6. PICK n \in Listed(w[k - 1]) : src[n] = v[k]
      <3>1. ToSet(clone.todo) = {}
        BY DEF ToSet
      <3>2. ~Waits(v[k], w[k - 1], clone.todo)
        BY <3>1 DEF Waits
      <3>3. \A m \in Listed(src[w[k - 1]]) :
                Waits(m, w[k - 1], clone.todo) \/ \E n \in Listed(w[k - 1]) : src[n] = m
        BY <2>5 DEF Full
      <3> QED
        BY <2>5, <3>2, <3>3
    <2>7. n \in HeapAddr
      BY <2>5, TypesOfLists
    <2>8. PICK t \in Trails(clone.root, (k - 1) + 1) :
              t[(k - 1) + 1] = n /\ \A i \in 0 .. (k - 1) : t[i] = w[i]
      BY <2>1, <2>7, TrailExtended
    <2>9. t \in Trails(clone.root, k) /\ t[k] = n /\ (k - 1) + 1 = k
      BY <1>3, <2>8
    <2>10. ASSUME NEW i \in 0 .. k PROVE v[i] = src[t[i]]
      <3>1. CASE i = k
        BY <2>6, <2>9, <3>1
      <3>2. CASE i # k
        <4>1. i \in 0 .. (k - 1)
          BY <1>3, <3>2
        <4> QED
          BY <2>3, <2>4, <2>8, <4>1
      <3> QED
        BY <3>1, <3>2
    <2> QED
      BY <1>2, <2>9, <2>10
  <1> QED
    BY <1>4, <1>5

LEMMA RecordedFaithfully ==
    ASSUME IInv, CopyInv, SnapCreateEnd, NEW r \in SnapRoots' \ SnapRoots,
           FoundAt(r)', FoundAt(fs_root)
    PROVE  /\ \A e \in View(r)' : \E f \in View(fs_root) :
                 /\ e.path = f.path /\ e.is_dir = f.is_dir
                 /\ e.data \in {f.data, NoText}
           /\ Ample => View(r)' = View(fs_root)
  <1>1. r = clone.root /\ clone.root # NULL /\ clone.todo = <<>> /\ TypeOK
    BY EndRoots DEF IInv, SnapCreateEnd
  <1>2. UNCHANGED <<name, is_dir, data, kids>>
    BY DEF SnapCreateEnd
  <1>3. \A k \in Nat : \A w : w \in Trails(r, k)' <=> w \in Trails(r, k)
    BY <1>2 DEF Trails, Listed
  <1>4. PICK made, src : Matches(made, src) /\ (Ample => Full(made, src))
    BY DEF CopyInv
  <1>5. ASSUME NEW k \in Nat, NEW w \in Trails(r, k), NEW v \in Trails(fs_root, k),
               \A i \in 0 .. k : v[i] = src[w[i]]
        PROVE  /\ PlaceAt(w, k)'.path = PlaceAt(v, k).path
               /\ w[k] \in made
               /\ is_dir'[w[k]] = is_dir[v[k]] /\ data'[w[k]] \in {data[v[k]], NoText}
               /\ Full(made, src) => data'[w[k]] = data[v[k]]
    <2>0. w \in Trails(clone.root, k) /\ Matches(made, src)
      BY <1>1, <1>4
    <2>1. \A i \in 0 .. k : w[i] \in made
      BY <1>1, <2>0, CopyWalks
    <2>2. ASSUME NEW i \in 1 .. k PROVE name'[w[i]] = name[v[i]]
      <3>1. i - 1 \in 0 .. k /\ i \in 0 .. k
        OBVIOUS
      <3>2. w[i - 1] \in made /\ w[i] \in Listed(w[i - 1])
        BY <2>1, <3>1, TrailFacts
      <3>3. name[w[i]] = name[src[w[i]]]
        BY <1>4, <3>2 DEF Matches
      <3> QED
        BY <1>2, <1>5, <3>1, <3>3
    <2>3. Spelled(w, k)' = Spelled(v, k)
      BY <2>2 DEF Spelled
    <2>4. k \in 0 .. k
      OBVIOUS
    <2> QED
      BY <1>2, <1>4, <1>5, <2>1, <2>3, <2>4 DEF PlaceAt, Matches, Full
  <1>6. ASSUME NEW x \in Descents(r)'
        PROVE  \E y \in Descents(fs_root) :
                  /\ y.path = x.path
                  /\ is_dir'[x.node] = is_dir[y.node]
                  /\ data'[x.node] \in {data[y.node], NoText}
                  /\ Full(made, src) => data'[x.node] = data[y.node]
    <2>1. PICK k \in Nat : \E w \in Trails(r, k)' : x = PlaceAt(w, k)'
      BY <1>6 DEF FoundAt
    <2>2. PICK w \in Trails(r, k)' : x = PlaceAt(w, k)'
      BY <2>1
    <2>3. w \in Trails(r, k)
      BY <1>3, <2>2
    <2>4. [i \in 0 .. k |-> src[w[i]]] \in Trails(fs_root, k)
      BY <1>1, <1>4, <2>3, CopyWalks
    <2>5. PICK v \in Trails(fs_root, k) : \A i \in 0 .. k : v[i] = src[w[i]]
      BY <2>4
    <2>6. PlaceAt(v, k) \in Descents(fs_root)
      BY DEF FoundAt
    <2>7. x.node = w[k] /\ PlaceAt(v, k).node = v[k]
      BY <2>2 DEF PlaceAt
    <2> QED
      BY <1>5, <2>2, <2>3, <2>5, <2>6, <2>7
  <1>7. ASSUME NEW y \in Descents(fs_root), Full(made, src)
        PROVE  \E x \in Descents(r)' :
                  /\ y.path = x.path
                  /\ is_dir'[x.node] = is_dir[y.node]
                  /\ data'[x.node] = data[y.node]
    <2>1. PICK k \in Nat : \E v \in Trails(fs_root, k) : y = PlaceAt(v, k)
      BY <1>7 DEF FoundAt
    <2>2. PICK v \in Trails(fs_root, k) : y = PlaceAt(v, k)
      BY <2>1
    <2>3. PICK w \in Trails(clone.root, k) : \A i \in 0 .. k : v[i] = src[w[i]]
      BY <1>1, <1>4, <1>7, WalksCopied
    <2>4. w \in Trails(r, k) /\ w \in Trails(r, k)'
      BY <1>1, <1>3, <2>3
    <2>5. PlaceAt(w, k)' \in Descents(r)'
      BY <2>4 DEF FoundAt
    <2>6. y.node = v[k] /\ PlaceAt(w, k)'.node = w[k]
      BY <2>2 DEF PlaceAt
    <2> QED
      BY <1>5, <1>7, <2>2, <2>3, <2>4, <2>5, <2>6
  <1>8. ASSUME NEW e \in View(r)'
        PROVE  \E f \in View(fs_root) : /\ e.path = f.path /\ e.is_dir = f.is_dir
                                        /\ e.data \in {f.data, NoText}
                                        /\ Full(made, src) => e = f
    <2>1. PICK x \in Descents(r)' : e = Entry(x.path, x.node)'
      BY <1>8 DEF View
    <2>2. PICK y \in Descents(fs_root) :
                  /\ y.path = x.path
                  /\ is_dir'[x.node] = is_dir[y.node]
                  /\ data'[x.node] \in {data[y.node], NoText}
                  /\ Full(made, src) => data'[x.node] = data[y.node]
      BY <1>6
    <2>3. Entry(y.path, y.node) \in View(fs_root)
      BY DEF View
    <2> QED
      BY <2>1, <2>2, <2>3 DEF Entry
  <1>9. ASSUME Full(made, src), NEW f \in View(fs_root) PROVE f \in View(r)'
    <2>1. PICK y \in Descents(fs_root) : f = Entry(y.path, y.node)
      BY <1>9 DEF View
    <2>2. PICK x \in Descents(r)' : /\ y.path = x.path
                                    /\ is_dir'[x.node] = is_dir[y.node]
                                    /\ data'[x.node] = data[y.node]
      BY <1>7, <1>9
    <2>3. Entry(x.path, x.node)' \in View(r)'
      BY DEF View
    <2> QED
      BY <2>1, <2>2, <2>3 DEF Entry
  <1>10. ASSUME Ample PROVE View(r)' = View(fs_root)
    <2>1. Full(made, src)
      BY <1>4, <1>10
    <2>2. \A e \in View(r)' : e \in View(fs_root)
      BY <1>8, <2>1
    <2> QED
      BY <1>9, <2>1, <2>2
  <1> QED
    BY <1>8, <1>10

\* What fs_snap_create records is the live tree: nothing in it that is not in
\* the live tree, and all of it as long as the heap had room.
THEOREM SavedAsItWas == Spec => SnapshotFaithful
  <1>1. (IInv => \A r \in Roots : FoundAt(r))'
    BY RootsFound, PTL
  <1>2. IInv /\ IInv' /\ CopyInv /\ [Next]_vars =>
            [\A r \in SnapRoots' \ SnapRoots :
                /\ \A e \in View(r)' : \E f \in View(fs_root) :
                      /\ e.path = f.path /\ e.is_dir = f.is_dir
                      /\ e.data \in {f.data, NoText}
                /\ Ample => View(r)' = View(fs_root)]_vars
    <2> SUFFICES ASSUME IInv, IInv', CopyInv, [Next]_vars,
                        NEW r \in SnapRoots' \ SnapRoots
                 PROVE  /\ \A e \in View(r)' : \E f \in View(fs_root) :
                              /\ e.path = f.path /\ e.is_dir = f.is_dir
                              /\ e.data \in {f.data, NoText}
                        /\ Ample => View(r)' = View(fs_root)
      OBVIOUS
    <2>1. SnapCreateEnd
      <3>1. CASE UNCHANGED snaps
        BY <3>1 DEF SnapRoots
      <3> QED
        BY <3>1, SnapsAddedAtEnd
    <2>2. r \in Roots' /\ fs_root \in Roots
      BY DEF Roots
    <2>3. FoundAt(r)' /\ FoundAt(fs_root)
      BY <1>1, <2>2, RootsFound
    <2> QED
      BY <2>1, <2>3, RecordedFaithfully
  <1> QED
    BY <1>2, CopyInductive, PTL DEF Spec, SnapshotFaithful
=============================================================================
