--------------------------- MODULE FsTreesProofs ---------------------------
(***************************************************************************)
(* Fs implements FsTrees: every call does to the trees that paths show     *)
(* what an abstract one does.                                              *)
(*                                                                         *)
(* A tree is first put as the least set of places (a path and the node it  *)
(* leads to) that has the root and, with a node, all that the node lists.  *)
(* Over such sets, without a variable of Fs, it is proved once what a new  *)
(* leaf, a cut and a move make of a tree.  Then there is one lemma for     *)
(* each call: which of these it does to the live tree, that the other      *)
(* trees stay, and where the current directory is afterwards, whether it   *)
(* was in the tree or not.  The invariant adds to that of TreeProofs that  *)
(* snapshots have names and roots of their own.                            *)
(***************************************************************************)
EXTENDS TreeProofs

-----------------------------------------------------------------------------
(* Prefixes of paths *)

LEMMA PrefixIs ==
    ASSUME NEW S, NEW q \in Seq(S), NEW p \in Seq(S)
    PROVE  IsPrefix(q, p) <=> Len(q) <= Len(p) /\ \A i \in 1 .. Len(q) : q[i] = p[i]
  <1>1. Len(q) \in Nat /\ Len(p) \in Nat
    BY LenProperties
  <1>2. SubSeq(q, 1, Len(q)) = q
    BY SubSeqFull
  <1>3. ASSUME Len(q) <= Len(p)
        PROVE  /\ SubSeq(p, 1, Len(q)) \in Seq(S) /\ Len(SubSeq(p, 1, Len(q))) = Len(q)
               /\ \A i \in 1 .. Len(q) : SubSeq(p, 1, Len(q))[i] = p[i]
    <2>1. \A i \in 1 .. Len(q) : p[i] \in S
      BY <1>1, <1>3, ElementOfSeq
    <2>2. /\ SubSeq(p, 1, Len(q)) \in Seq(S)
          /\ Len(SubSeq(p, 1, Len(q))) = IF 1 <= Len(q) THEN Len(q) - 1 + 1 ELSE 0
          /\ \A i \in 1 .. Len(q) - 1 + 1 : SubSeq(p, 1, Len(q))[i] = p[1 + i - 1]
      BY <1>1, <2>1, SubSeqProperties
    <2> QED
      BY <1>1, <2>2
  <1>4. ASSUME Len(q) <= Len(p), \A i \in 1 .. Len(q) : q[i] = p[i]
        PROVE  SubSeq(p, 1, Len(q)) = q
    <2> PICK t : t = SubSeq(p, 1, Len(q))
      OBVIOUS
    <2>1. t \in Seq(S) /\ Len(t) = Len(q) /\ \A i \in 1 .. Len(t) : t[i] = q[i]
      BY <1>3, <1>4
    <2> QED
      BY <2>1, SeqEqual
  <1> QED
    BY <1>2, <1>3, <1>4 DEF IsPrefix

LEMMA PrefixOfSelf ==
    ASSUME NEW q \in Seq(FsName)
    PROVE  IsPrefix(q, q)
  BY PrefixIs, LenProperties

LEMMA PrefixOfLonger ==
    ASSUME NEW q \in Seq(FsName), NEW p \in Seq(FsName), NEW t \in Seq(FsName),
           Len(t) = Len(p) + 1, \A i \in 1 .. Len(p) : t[i] = p[i]
    PROVE  /\ IsPrefix(q, t) <=> IsPrefix(q, p) \/ q = t
           /\ ~IsPrefix(t, p)
  <1>2. Len(q) \in Nat /\ Len(p) \in Nat
    BY LenProperties
  <1>3. IsPrefix(q, t) <=> Len(q) <= Len(t) /\ \A i \in 1 .. Len(q) : q[i] = t[i]
    BY PrefixIs
  <1>4. IsPrefix(q, p) <=> Len(q) <= Len(p) /\ \A i \in 1 .. Len(q) : q[i] = p[i]
    BY PrefixIs
  <1>5. ASSUME Len(q) <= Len(p) PROVE IsPrefix(q, t) <=> IsPrefix(q, p) \/ q = t
    BY <1>2, <1>3, <1>4, <1>5
  <1>6. ASSUME ~(Len(q) <= Len(p)) PROVE IsPrefix(q, t) <=> IsPrefix(q, p) \/ q = t
    <2>1. ~IsPrefix(q, p)
      BY <1>4, <1>6
    <2>2. ASSUME IsPrefix(q, t) PROVE q = t
      <3>1. Len(q) = Len(t) /\ \A i \in 1 .. Len(q) : q[i] = t[i]
        BY <1>2, <1>3, <1>6, <2>2
      <3> QED
        BY <3>1, SeqEqual
    <2>3. IsPrefix(t, t)
      BY PrefixOfSelf
    <2> QED
      BY <2>1, <2>2, <2>3
  <1>7. ~IsPrefix(t, p)
    <2>1. IsPrefix(t, p) <=> Len(t) <= Len(p) /\ \A i \in 1 .. Len(t) : t[i] = p[i]
      BY PrefixIs
    <2> QED
      BY <1>2, <2>1
  <1> QED
    BY <1>5, <1>6, <1>7

LEMMA PrefixOfNone ==
    ASSUME NEW q \in Seq(FsName), NEW t \in Seq(FsName)
    PROVE  Len(t) = 0 => (IsPrefix(q, t) <=> q = t) /\ IsPrefix(t, q)
  <1>2. Len(q) \in Nat
    BY LenProperties
  <1>3. IsPrefix(q, t) <=> Len(q) <= Len(t) /\ \A i \in 1 .. Len(q) : q[i] = t[i]
    BY PrefixIs
  <1>4. IsPrefix(t, q) <=> Len(t) <= Len(q) /\ \A i \in 1 .. Len(t) : t[i] = q[i]
    BY PrefixIs
  <1>5. (Len(q) = 0 <=> q = <<>>) /\ (Len(t) = 0 <=> t = <<>>)
    BY EmptySeq
  <1> QED
    BY <1>2, <1>3, <1>4, <1>5

LEMMA PrefixOfEmpty ==
    ASSUME NEW q \in Seq(FsName)
    PROVE  /\ IsPrefix(q, <<>>) <=> q = <<>>
           /\ IsPrefix(<<>>, q)
  <1>1. <<>> \in Seq(FsName) /\ Len(<<>>) = 0
    OBVIOUS
  <1> QED
    BY <1>1, PrefixOfNone

LEMMA PrefixOfAppend ==
    ASSUME NEW q \in Seq(FsName), NEW p \in Seq(FsName), NEW c \in FsName
    PROVE  /\ Append(p, c) \in Seq(FsName) /\ Append(p, c) # <<>>
           /\ IsPrefix(q, Append(p, c)) <=> IsPrefix(q, p) \/ q = Append(p, c)
           /\ ~IsPrefix(Append(p, c), p)
  <1>1. /\ Append(p, c) \in Seq(FsName) /\ Len(Append(p, c)) = Len(p) + 1
        /\ \A i \in 1 .. Len(p) : Append(p, c)[i] = p[i]
        /\ Append(p, c) # <<>>
    BY AppendProperties
  <1> QED
    BY <1>1, PrefixOfLonger

LEMMA FrontOfAppend ==
    ASSUME NEW p \in Seq(FsName), NEW c \in FsName
    PROVE  Front(Append(p, c)) = p
  <1>1. Append(p, c) \in Seq(FsName) /\ Len(Append(p, c)) = Len(p) + 1 /\ Len(p) \in Nat
        /\ \A i \in 1 .. Len(p) : Append(p, c)[i] = p[i]
    BY AppendProperties, LenProperties
  <1> PICK t : t = Append(p, c)
    OBVIOUS
  <1>2. Front(t) = SubSeq(t, 1, Len(p))
    BY <1>1 DEF Front
  <1>3. SubSeq(t, 1, Len(p)) = [i \in 1 .. Len(p) |-> t[i]]
    BY <1>1
  <1>4. SubSeq(t, 1, Len(p)) = [i \in 1 .. Len(p) |-> p[i]]
    BY <1>1, <1>3
  <1>5. p = [i \in 1 .. Len(p) |-> p[i]]
    BY <1>1
  <1> QED
    BY <1>2, <1>4, <1>5

LEMMA SameAppend ==
    ASSUME NEW p \in Seq(FsName), NEW c \in FsName, NEW q \in Seq(FsName), NEW d \in FsName
    PROVE  Append(p, c) = Append(q, d) => p = q /\ c = d
  BY AppendInjective

-----------------------------------------------------------------------------
(* Trees as sets of places *)

Top(r) == [path |-> <<>>, node |-> r]
Down(x, c, nm) == [path |-> Append(x.path, nm[c]), node |-> c]

\* P is the tree below r of the lists L and the names nm: it has r, with what
\* it has it has all that is listed there, and nothing else; and in the lists
\* a node is once, r nowhere, and no name twice.
Tree(P, L, nm, r) ==
    /\ P \subseteq Place /\ r \in HeapAddr
    /\ L \in [HeapAddr -> SUBSET HeapAddr] /\ nm \in [HeapAddr -> FsName]
    /\ \A d, e \in HeapAddr : \A c \in L[d] : c \in L[e] => d = e
    /\ \A d \in HeapAddr : r \notin L[d]
    /\ \A d \in HeapAddr : \A b, c \in L[d] : nm[b] = nm[c] => b = c
    /\ Top(r) \in P
    /\ \A x \in P : \A c \in L[x.node] : Down(x, c, nm) \in P
    /\ \A S \in SUBSET P :
          Top(r) \in S /\ (\A x \in S : \A c \in L[x.node] : Down(x, c, nm) \in S) => P \subseteq S

LEMMA PlaceFacts ==
    ASSUME NEW x \in Place
    PROVE  /\ x.path \in Seq(FsName) /\ x.node \in HeapAddr
           /\ x = [path |-> x.path, node |-> x.node]
  BY DEF Place, FsName

LEMMA DownFacts ==
    ASSUME NEW P, NEW L, NEW nm, NEW r, Tree(P, L, nm, r), NEW x \in P, NEW c \in L[x.node]
    PROVE  /\ Down(x, c, nm) \in P
           /\ Down(x, c, nm).node = c /\ Down(x, c, nm).path = Append(x.path, nm[c])
           /\ x.path \in Seq(FsName) /\ x.node \in HeapAddr
           /\ c \in HeapAddr /\ nm[c] \in FsName /\ c # r
  <1>1. x \in Place
    BY DEF Tree
  <1>2. x.node \in HeapAddr /\ x.path \in Seq(FsName)
    BY <1>1, PlaceFacts
  <1> QED
    BY <1>2 DEF Tree, Down

\* What is true of the root, and of each node that is listed where it is true,
\* is true of the whole tree.
LEMMA TreeInduction ==
    ASSUME NEW P, NEW L, NEW nm, NEW r, Tree(P, L, nm, r), NEW S, Top(r) \in S,
           \A x \in P \cap S : \A c \in L[x.node] : Down(x, c, nm) \in S
    PROVE  P \subseteq S
  <1>1. P \cap S \in SUBSET P /\ Top(r) \in P \cap S
    BY DEF Tree
  <1>2. \A x \in P \cap S : \A c \in L[x.node] : Down(x, c, nm) \in P \cap S
    BY DEF Tree
  <1> QED
    BY <1>1, <1>2 DEF Tree

LEMMA LastStep ==
    ASSUME NEW P, NEW L, NEW nm, NEW r, Tree(P, L, nm, r), NEW x \in P
    PROVE  x = Top(r) \/ \E y \in P : \E c \in L[y.node] : x = Down(y, c, nm)
  <1> DEFINE S == {x1 \in P : x1 = Top(r) \/ \E y \in P : \E c \in L[y.node] : x1 = Down(y, c, nm)}
  <1>1. Top(r) \in S
    BY DEF Tree
  <1>2. ASSUME NEW y \in P \cap S, NEW c \in L[y.node] PROVE Down(y, c, nm) \in S
    BY <1>2, DownFacts
  <1>3. P \subseteq S
    <2> HIDE DEF S
    <2> QED
      BY <1>1, <1>2, TreeInduction
  <1> QED
    BY <1>3

\* A path leads to one node, ...
LEMMA PathOnce ==
    ASSUME NEW P, NEW L, NEW nm, NEW r, Tree(P, L, nm, r)
    PROVE  \A x, y \in P : x.path = y.path => x = y
  <1> DEFINE S == {x \in P : \A y \in P : y.path = x.path => y = x}
  <1>1. Top(r) \in S
    <2>1. Top(r) \in P /\ Top(r).path = <<>>
      BY DEF Tree, Top
    <2>2. ASSUME NEW y \in P, y.path = <<>> PROVE y = Top(r)
      <3>1. CASE \E x \in P : \E c \in L[x.node] : y = Down(x, c, nm)
        <4>1. PICK x \in P : \E c \in L[x.node] : y = Down(x, c, nm)
          BY <3>1
        <4>2. PICK c \in L[x.node] : y = Down(x, c, nm)
          BY <4>1
        <4>3. x.path \in Seq(FsName) /\ nm[c] \in FsName /\ y.path = Append(x.path, nm[c])
          BY <4>2, DownFacts
        <4> QED
          BY <2>2, <4>3, AppendProperties
      <3> QED
        BY <3>1, LastStep
    <2> QED
      BY <2>1, <2>2
  <1>2. ASSUME NEW x \in P \cap S, NEW c \in L[x.node] PROVE Down(x, c, nm) \in S
    <2>1. /\ Down(x, c, nm) \in P /\ Down(x, c, nm).path = Append(x.path, nm[c])
          /\ x.path \in Seq(FsName) /\ nm[c] \in FsName /\ x.node \in HeapAddr
      BY <1>2, DownFacts
    <2>2. ASSUME NEW y \in P, y.path = Append(x.path, nm[c]) PROVE y = Down(x, c, nm)
      <3>1. y # Top(r)
        BY <2>1, <2>2, AppendProperties DEF Top
      <3>2. PICK z \in P : \E b \in L[z.node] : y = Down(z, b, nm)
        BY <3>1, LastStep
      <3>3. PICK b \in L[z.node] : y = Down(z, b, nm)
        BY <3>2
      <3>4. y.path = Append(z.path, nm[b]) /\ z.path \in Seq(FsName) /\ nm[b] \in FsName
        BY <3>3, DownFacts
      <3>5. z.path = x.path /\ nm[b] = nm[c]
        <4>1. Append(z.path, nm[b]) = Append(x.path, nm[c])
          BY <2>2, <3>4
        <4>2. /\ z.path \in Seq(FsName) /\ x.path \in Seq(FsName)
              /\ nm[b] \in FsName /\ nm[c] \in FsName
          BY <2>1, <3>4
        <4>3. Append(z.path, nm[b]) = Append(x.path, nm[c]) => z.path = x.path /\ nm[b] = nm[c]
          BY <4>2, SameAppend
        <4> QED
          BY <4>1, <4>3
      <3>6. z = x
        BY <1>2, <3>5
      <3>7. b = c
        BY <2>1, <3>5, <3>6 DEF Tree
      <3> QED
        BY <3>3, <3>6, <3>7
    <2> QED
      BY <2>1, <2>2
  <1>3. P \subseteq S
    <2> HIDE DEF S
    <2> QED
      BY <1>1, <1>2, TreeInduction
  <1> QED
    BY <1>3

\* ... and to a node leads one path.
LEMMA NodeOnce ==
    ASSUME NEW P, NEW L, NEW nm, NEW r, Tree(P, L, nm, r)
    PROVE  \A x, y \in P : x.node = y.node => x = y
  <1> DEFINE S == {x \in P : \A y \in P : y.node = x.node => y = x}
  <1>1. Top(r) \in S
    <2>1. Top(r) \in P /\ Top(r).node = r
      BY DEF Tree, Top
    <2>2. ASSUME NEW y \in P, y.node = r PROVE y = Top(r)
      <3>1. CASE \E x \in P : \E c \in L[x.node] : y = Down(x, c, nm)
        BY <2>2, <3>1, DownFacts
      <3> QED
        BY <3>1, LastStep
    <2> QED
      BY <2>1, <2>2
  <1>2. ASSUME NEW x \in P \cap S, NEW c \in L[x.node] PROVE Down(x, c, nm) \in S
    <2>1. /\ Down(x, c, nm) \in P /\ Down(x, c, nm).node = c /\ c # r /\ x.node \in HeapAddr
      BY <1>2, DownFacts
    <2>2. ASSUME NEW y \in P, y.node = c PROVE y = Down(x, c, nm)
      <3>1. y # Top(r)
        BY <2>1, <2>2 DEF Top
      <3>2. PICK z \in P : \E b \in L[z.node] : y = Down(z, b, nm)
        BY <3>1, LastStep
      <3>3. PICK b \in L[z.node] : y = Down(z, b, nm)
        BY <3>2
      <3>4. y.node = b /\ z.node \in HeapAddr
        BY <3>3, DownFacts
      <3>5. z.node = x.node
        BY <1>2, <2>1, <2>2, <3>3, <3>4 DEF Tree
      <3> QED
        BY <1>2, <2>2, <3>3, <3>4, <3>5
    <2> QED
      BY <2>1, <2>2
  <1>3. P \subseteq S
    <2> HIDE DEF S
    <2> QED
      BY <1>1, <1>2, TreeInduction
  <1> QED
    BY <1>3

\* The beginning of a path is a path.
LEMMA PathsBegin ==
    ASSUME NEW P, NEW L, NEW nm, NEW r, Tree(P, L, nm, r), NEW q \in Seq(FsName)
    PROVE  \A x \in P : IsPrefix(q, x.path) => \E y \in P : y.path = q
  <1> DEFINE S == {x \in P : IsPrefix(q, x.path) => \E y \in P : y.path = q}
  <1>1. Top(r) \in S
    <2>1. Top(r) \in P /\ Top(r).path = <<>>
      BY DEF Tree, Top
    <2>2. IsPrefix(q, <<>>) => q = <<>>
      BY PrefixOfEmpty
    <2> QED
      BY <2>1, <2>2
  <1>2. ASSUME NEW x \in P \cap S, NEW c \in L[x.node] PROVE Down(x, c, nm) \in S
    <2> PICK y : y = Down(x, c, nm)
      OBVIOUS
    <2>1. y \in P /\ y.path = Append(x.path, nm[c]) /\ x.path \in Seq(FsName) /\ nm[c] \in FsName
      BY <1>2, DownFacts
    <2>2. IsPrefix(q, Append(x.path, nm[c])) => IsPrefix(q, x.path) \/ q = Append(x.path, nm[c])
      BY <2>1, PrefixOfAppend
    <2> QED
      BY <1>2, <2>1, <2>2
  <1>3. P \subseteq S
    <2> HIDE DEF S
    <2> QED
      BY <1>1, <1>2, TreeInduction
  <1> QED
    BY <1>3

-----------------------------------------------------------------------------
(* Trees before and after a change of the lists *)

\* Lists and names that stay as they are along a tree have the same tree.
LEMMA TreeSame ==
    ASSUME NEW P, NEW L, NEW nm, NEW r, Tree(P, L, nm, r),
           NEW Q, NEW M, NEW mm, Tree(Q, M, mm, r),
           \A x \in P : M[x.node] = L[x.node] /\ \A c \in L[x.node] : mm[c] = nm[c]
    PROVE  Q = P
  <1>0. Top(r) \in P /\ Top(r) \in Q
    BY DEF Tree
  <1>1. ASSUME NEW x \in P \cap Q, NEW c \in L[x.node] PROVE Down(x, c, nm) \in Q
    <2>1. Down(x, c, mm) \in Q /\ mm[c] = nm[c]
      BY <1>1, DownFacts
    <2> QED
      BY <2>1 DEF Down
  <1>2. P \subseteq Q
    BY <1>0, <1>1, TreeInduction
  <1>3. ASSUME NEW x \in Q \cap P, NEW c \in M[x.node] PROVE Down(x, c, mm) \in P
    <2>1. Down(x, c, nm) \in P /\ mm[c] = nm[c]
      BY <1>3, DownFacts
    <2> QED
      BY <2>1 DEF Down
  <1>4. Q \subseteq P
    BY <1>0, <1>3, TreeInduction
  <1> QED
    BY <1>2, <1>4

\* The places that are not below the path q.
Off(P, q) == {x \in P : ~IsPrefix(q, x.path)}

\* What is listed at the places off z's path is listed still, but for z's node.
Lacks(P, L, M, z) ==
    \A x \in P : ~IsPrefix(z.path, x.path) => M[x.node] = L[x.node] \ {z.node}

\* A tree whose lists lack a node of another one's has that one's places but
\* those below the path of this node.
LEMMA TreeCut ==
    ASSUME NEW P, NEW L, NEW nm, NEW r, Tree(P, L, nm, r),
           NEW Q, NEW M, NEW mm, Tree(Q, M, mm, r),
           NEW z \in P, z.path # <<>>,
           Lacks(P \cap Q, L, M, z),
           \A c \in HeapAddr \ {z.node} : mm[c] = nm[c]
    PROVE  Q = Off(P, z.path)
  <1> DEFINE q == z.path
             n == z.node
             R == Off(P, q)
  <1>0. q \in Seq(FsName) /\ Top(r) \in P /\ Top(r) \in Q /\ Top(r).path = <<>>
    <2>1. z \in Place
      BY DEF Tree
    <2> QED
      BY <2>1, PlaceFacts DEF Tree, Top
  <1>1. Top(r) \in R
    <2>1. IsPrefix(q, <<>>) => q = <<>>
      BY <1>0, PrefixOfEmpty
    <2> QED
      BY <1>0, <2>1 DEF Off
  <1>2. ASSUME NEW x \in Q \cap R, NEW c \in M[x.node] PROVE Down(x, c, mm) \in R
    <2>1. x \in P /\ ~IsPrefix(q, x.path) /\ c \in L[x.node] /\ c # n
      BY <1>2 DEF Off, Lacks
    <2>2. Down(x, c, nm) \in P /\ Down(x, c, nm).path = Append(x.path, nm[c])
      BY <2>1, DownFacts
    <2>3. Down(x, c, nm).node = c /\ x.path \in Seq(FsName) /\ c \in HeapAddr /\ nm[c] \in FsName
      BY <2>1, DownFacts
    <2>4. Down(x, c, mm) = Down(x, c, nm)
      BY <2>1, <2>3 DEF Down
    <2>5. q # Append(x.path, nm[c])
      <3>1. Down(x, c, nm).path = z.path => Down(x, c, nm) = z
        BY <2>2, PathOnce
      <3> QED
        BY <2>1, <2>2, <2>3, <3>1
    <2>6. ~IsPrefix(q, Append(x.path, nm[c]))
      BY <1>0, <2>1, <2>3, <2>5, PrefixOfAppend
    <2> QED
      BY <2>2, <2>4, <2>6 DEF Off
  <1>3. Q \subseteq R
    <2> HIDE DEF R
    <2> QED
      BY <1>1, <1>2, TreeInduction
  <1> DEFINE S == {x \in P : x \in R => x \in Q}
  <1>4. Top(r) \in S
    BY <1>0
  <1>5. ASSUME NEW x \in P \cap S, NEW c \in L[x.node] PROVE Down(x, c, nm) \in S
    <2>1. /\ Down(x, c, nm) \in P /\ Down(x, c, nm).path = Append(x.path, nm[c])
          /\ Down(x, c, nm).node = c
      BY <1>5, DownFacts
    <2>2. x.path \in Seq(FsName) /\ c \in HeapAddr /\ nm[c] \in FsName
      BY <1>5, DownFacts
    <2>3. ASSUME Down(x, c, nm) \in R PROVE Down(x, c, nm) \in Q
      <3>1. ~IsPrefix(q, Append(x.path, nm[c]))
        BY <2>1, <2>3 DEF Off
      <3>2. ~IsPrefix(q, x.path)
        BY <1>0, <2>2, <3>1, PrefixOfAppend
      <3>3. x \in Q
        BY <1>5, <3>2 DEF Off
      <3>4. c # n
        <4>1. ASSUME c = n PROVE FALSE
          <5>1. Down(x, c, nm) = z
            BY <2>1, <4>1, NodeOnce
          <5>2. IsPrefix(q, q)
            BY <1>0, PrefixOfSelf
          <5> QED
            BY <2>1, <3>1, <5>1, <5>2
        <4> QED
          BY <4>1
      <3>5. c \in M[x.node] /\ mm[c] = nm[c]
        BY <1>5, <2>2, <3>2, <3>3, <3>4 DEF Lacks
      <3>6. Down(x, c, mm) \in Q
        BY <3>3, <3>5, DownFacts
      <3> QED
        BY <3>5, <3>6 DEF Down
    <2> QED
      BY <2>1, <2>3
  <1>6. P \subseteq S
    <2> HIDE DEF S
    <2> QED
      BY <1>4, <1>5, TreeInduction
  <1> QED
    BY <1>3, <1>6 DEF Off

\* Below a node that lists nothing there is only itself.
LEMMA UnderLeaf ==
    ASSUME NEW P, NEW L, NEW nm, NEW r, Tree(P, L, nm, r), NEW z \in P
    PROVE  \A x \in P : IsPrefix(z.path, x.path) => x = z \/ L[z.node] # {}
  <1> DEFINE S == {x \in P : IsPrefix(z.path, x.path) => x = z \/ L[z.node] # {}}
  <1>0. z.path \in Seq(FsName)
    <2>1. z \in Place
      BY DEF Tree
    <2> QED
      BY <2>1, PlaceFacts
  <1>1. Top(r) \in S
    <2>1. Top(r) \in P /\ Top(r).path = <<>>
      BY DEF Tree, Top
    <2>2. IsPrefix(z.path, <<>>) => z.path = <<>>
      BY <1>0, PrefixOfEmpty
    <2>3. z.path = <<>> => Top(r) = z
      BY <2>1, PathOnce
    <2> QED
      BY <2>1, <2>2, <2>3
  <1>2. ASSUME NEW x \in P \cap S, NEW c \in L[x.node] PROVE Down(x, c, nm) \in S
    <2>1. Down(x, c, nm) \in P /\ Down(x, c, nm).path = Append(x.path, nm[c])
      BY <1>2, DownFacts
    <2>2. x.path \in Seq(FsName) /\ nm[c] \in FsName
      BY <1>2, DownFacts
    <2>3. IsPrefix(z.path, Append(x.path, nm[c])) => IsPrefix(z.path, x.path) \/ z.path = Append(x.path, nm[c])
      BY <1>0, <2>2, PrefixOfAppend
    <2>4. z.path = Append(x.path, nm[c]) => Down(x, c, nm) = z
      BY <2>1, PathOnce
    <2>5. x = z => L[z.node] # {}
      BY <1>2
    <2> QED
      BY <1>2, <2>1, <2>3, <2>4, <2>5
  <1>3. P \subseteq S
    <2> HIDE DEF S
    <2> QED
      BY <1>1, <1>2, TreeInduction
  <1> QED
    BY <1>3

\* A path whose last name nobody has in its directory leads nowhere.
LEMMA VacantPath ==
    ASSUME NEW P, NEW L, NEW nm, NEW r, Tree(P, L, nm, r), NEW x \in P, NEW a \in FsName,
           \A c \in L[x.node] : nm[c] # a
    PROVE  \A y \in P : y.path # Append(x.path, a)
  <1> SUFFICES ASSUME NEW y \in P, y.path = Append(x.path, a) PROVE FALSE
    OBVIOUS
  <1>0. x.path \in Seq(FsName)
    <2>1. x \in Place
      BY DEF Tree
    <2> QED
      BY <2>1, PlaceFacts
  <1>1. y # Top(r)
    <2>1. Append(x.path, a) # <<>>
      BY <1>0, PrefixOfAppend
    <2> QED
      BY <2>1 DEF Top
  <1>2. PICK w \in P : \E c \in L[w.node] : y = Down(w, c, nm)
    BY <1>1, LastStep
  <1>3. PICK c \in L[w.node] : y = Down(w, c, nm)
    BY <1>2
  <1>4. y.path = Append(w.path, nm[c]) /\ w.path \in Seq(FsName) /\ nm[c] \in FsName
    BY <1>3, DownFacts
  <1>5. Append(w.path, nm[c]) = Append(x.path, a)
    BY <1>4
  <1>6. Append(w.path, nm[c]) = Append(x.path, a) => w.path = x.path /\ nm[c] = a
    <2>1. w.path \in Seq(FsName) /\ nm[c] \in FsName
      BY <1>4
    <2> QED
      BY <1>0, <2>1, SameAppend
  <1>7. w = x
    BY <1>5, <1>6, PathOnce
  <1> QED
    BY <1>5, <1>6, <1>7

\* The path of every node but the root has a last name.
LEMMA InnerPath ==
    ASSUME NEW P, NEW L, NEW nm, NEW r, Tree(P, L, nm, r), NEW z \in P, z.node # r
    PROVE  z.path # <<>> /\ z.path \in Seq(FsName)
  <1>1. Top(r) \in P /\ Top(r).path = <<>> /\ Top(r).node = r /\ z \in Place
    BY DEF Tree, Top
  <1> QED
    BY <1>1, PathOnce, PlaceFacts

-----------------------------------------------------------------------------
(* Where paths are moved *)

\* The abstract specification has its own copies of the library's operators.
LEMMA SameOperators == \A q, p : (FT!IsPrefix(q, p) <=> IsPrefix(q, p)) /\ FT!Front(p) = Front(p)
  BY DEF FT!IsPrefix, IsPrefix, FT!Front, Front

LEMMA MovedCases ==
    ASSUME NEW q, NEW p, NEW a
    PROVE  /\ IsPrefix(q, p) => FT!MovedPath(p, q, a) = a \o SubSeq(p, Len(q) + 1, Len(p))
           /\ ~IsPrefix(q, p) => FT!MovedPath(p, q, a) = p
  <1>1. FT!IsPrefix(q, p) <=> IsPrefix(q, p)
    BY SameOperators
  <1> QED
    BY <1>1 DEF FT!MovedPath

LEMMA MovedIs ==
    ASSUME NEW q \in Seq(FsName), NEW p \in Seq(FsName), NEW a \in Seq(FsName), IsPrefix(q, p)
    PROVE  \E t \in Seq(FsName) :
              /\ t = FT!MovedPath(p, q, a)
              /\ Len(t) = Len(a) + (Len(p) - Len(q))
              /\ \A i \in 1 .. Len(a) : t[i] = a[i]
              /\ \A i \in 1 .. (Len(p) - Len(q)) : t[Len(a) + i] = p[Len(q) + i]
  <1>1. Len(q) \in Nat /\ Len(p) \in Nat /\ Len(a) \in Nat /\ Len(q) <= Len(p)
    BY LenProperties, PrefixIs
  <1> PICK s : s = SubSeq(p, Len(q) + 1, Len(p))
    OBVIOUS
  <1>2. /\ s \in Seq(FsName) /\ Len(s) = Len(p) - Len(q)
        /\ \A i \in 1 .. (Len(p) - Len(q)) : s[i] = p[Len(q) + i]
    <2>1. \A i \in (Len(q) + 1) .. Len(p) : p[i] \in FsName
      <3>1. \A i \in (Len(q) + 1) .. Len(p) : i \in 1 .. Len(p)
        BY <1>1
      <3> QED
        BY <3>1, ElementOfSeq
    <2>2. Len(q) + 1 \in Int /\ Len(p) \in Int
      BY <1>1
    <2>3. /\ s \in Seq(FsName)
          /\ Len(s) = IF Len(q) + 1 <= Len(p) THEN Len(p) - (Len(q) + 1) + 1 ELSE 0
          /\ \A i \in 1 .. Len(p) - (Len(q) + 1) + 1 : s[i] = p[Len(q) + 1 + i - 1]
      BY <2>1, <2>2, SubSeqProperties
    <2> QED
      BY <1>1, <2>3
  <1> PICK t : t = a \o s
    OBVIOUS
  <1>3. /\ t \in Seq(FsName) /\ Len(t) = Len(a) + Len(s)
        /\ \A i \in 1 .. Len(a) + Len(s) : t[i] = IF i <= Len(a) THEN a[i] ELSE s[i - Len(a)]
    BY <1>2, ConcatProperties
  <1>4. t = FT!MovedPath(p, q, a)
    BY MovedCases
  <1>5. \A i \in 1 .. Len(a) : t[i] = a[i]
    BY <1>1, <1>2, <1>3
  <1>6. ASSUME NEW i \in 1 .. (Len(p) - Len(q)) PROVE t[Len(a) + i] = p[Len(q) + i]
    <2>1. Len(a) + i \in 1 .. Len(a) + Len(s) /\ ~(Len(a) + i <= Len(a)) /\ Len(a) + i - Len(a) = i
      BY <1>1, <1>2
    <2> QED
      BY <1>2, <1>3, <2>1
  <1> QED
    BY <1>2, <1>3, <1>4, <1>5, <1>6

LEMMA MovedSelf ==
    ASSUME NEW q \in Seq(FsName), NEW a \in Seq(FsName)
    PROVE  FT!MovedPath(q, q, a) = a
  <1>1. IsPrefix(q, q) /\ Len(q) \in Nat /\ Len(a) \in Nat
    BY PrefixOfSelf, LenProperties
  <1>2. PICK t \in Seq(FsName) :
              /\ t = FT!MovedPath(q, q, a)
              /\ Len(t) = Len(a) + (Len(q) - Len(q))
              /\ \A i \in 1 .. Len(a) : t[i] = a[i]
    BY <1>1, MovedIs
  <1>3. Len(t) = Len(a) /\ \A i \in 1 .. Len(t) : t[i] = a[i]
    BY <1>1, <1>2
  <1> QED
    BY <1>2, <1>3, SeqEqual

\* A longer path moves as the shorter one does.
Follows(p2, p, c, q, a) == FT!MovedPath(p2, q, a) = Append(FT!MovedPath(p, q, a), c)

LEMMA MovedLonger ==
    ASSUME NEW q \in Seq(FsName), NEW p \in Seq(FsName), NEW p2 \in Seq(FsName),
           NEW a \in Seq(FsName), NEW c \in FsName, IsPrefix(q, p), IsPrefix(q, p2),
           Len(p2) = Len(p) + 1, p2[Len(p) + 1] = c, \A i \in 1 .. Len(p) : p2[i] = p[i]
    PROVE  Follows(p2, p, c, q, a)
  <1>2. Len(q) <= Len(p) /\ Len(q) \in Nat /\ Len(p) \in Nat /\ Len(a) \in Nat
    BY PrefixIs, LenProperties
  <1>3. PICK t \in Seq(FsName) :
              /\ t = FT!MovedPath(p, q, a)
              /\ Len(t) = Len(a) + (Len(p) - Len(q))
              /\ \A i \in 1 .. Len(a) : t[i] = a[i]
              /\ \A i \in 1 .. (Len(p) - Len(q)) : t[Len(a) + i] = p[Len(q) + i]
    BY MovedIs
  <1>4. PICK t2 \in Seq(FsName) :
              /\ t2 = FT!MovedPath(p2, q, a)
              /\ Len(t2) = Len(a) + (Len(p2) - Len(q))
              /\ \A i \in 1 .. Len(a) : t2[i] = a[i]
              /\ \A i \in 1 .. (Len(p2) - Len(q)) : t2[Len(a) + i] = p2[Len(q) + i]
    BY MovedIs
  <1>5. PICK t3 \in Seq(FsName) :
              /\ t3 = Append(t, c)
              /\ Len(t3) = Len(t) + 1 /\ t3[Len(t) + 1] = c
              /\ \A i \in 1 .. Len(t) : t3[i] = t[i]
    <2>1. /\ Append(t, c) \in Seq(FsName)
          /\ Len(Append(t, c)) = Len(t) + 1 /\ Append(t, c)[Len(t) + 1] = c
          /\ \A i \in 1 .. Len(t) : Append(t, c)[i] = t[i]
      BY AppendProperties
    <2> QED
      BY <2>1
  <1>6. Len(t) = Len(a) + (Len(p) - Len(q)) /\ Len(t2) = Len(t) + 1 /\ Len(t3) = Len(t) + 1
        /\ Len(t) \in Nat
    BY <1>2, <1>3, <1>4, <1>5, LenProperties
  <1>7. ASSUME NEW i \in 1 .. Len(t2) PROVE t2[i] = t3[i]
    <2>1. CASE i <= Len(a)
      <3>1. i \in 1 .. Len(a) /\ i \in 1 .. Len(t)
        BY <1>2, <1>6, <2>1
      <3> QED
        BY <1>3, <1>4, <1>5, <3>1
    <2>2. CASE ~(i <= Len(a))
      <3> PICK j : j = i - Len(a)
        OBVIOUS
      <3>1. j \in 1 .. (Len(p2) - Len(q)) /\ Len(a) + j = i
        BY <1>2, <1>6, <2>2
      <3>2. t2[i] = p2[Len(q) + j]
        BY <1>4, <3>1
      <3>3. CASE i = Len(t2)
        <4>1. Len(q) + j = Len(p) + 1 /\ i = Len(t) + 1
          BY <1>2, <1>6, <3>1, <3>3
        <4> QED
          BY <1>5, <3>2, <4>1
      <3>4. CASE i # Len(t2)
        <4>1. i \in 1 .. Len(t)
          <5>1. i \in 1 .. (Len(t) + 1) /\ i # Len(t) + 1
            BY <1>6, <3>4
          <5> QED
            BY <1>6, <5>1
        <4>2. j \in 1 .. (Len(p) - Len(q)) /\ Len(q) + j \in 1 .. Len(p)
          BY <1>2, <1>6, <3>1, <4>1
        <4>3. t[i] = p[Len(q) + j]
          BY <1>3, <3>1, <4>2
        <4> QED
          BY <1>5, <3>2, <4>1, <4>2, <4>3
      <3> QED
        BY <3>3, <3>4
    <2> QED
      BY <2>1, <2>2
  <1>8. t2 = t3
    BY <1>6, <1>7, SeqEqual
  <1> QED
    BY <1>3, <1>4, <1>5, <1>8 DEF Follows

LEMMA MovedAppend ==
    ASSUME NEW q \in Seq(FsName), NEW p \in Seq(FsName), NEW a \in Seq(FsName), NEW c \in FsName
    PROVE  IsPrefix(q, p) => Follows(Append(p, c), p, c, q, a)
  <1> SUFFICES ASSUME IsPrefix(q, p)
               PROVE  Follows(Append(p, c), p, c, q, a)
    OBVIOUS
  <1>1. /\ Append(p, c) \in Seq(FsName) /\ Len(Append(p, c)) = Len(p) + 1
        /\ Append(p, c)[Len(p) + 1] = c
        /\ \A i \in 1 .. Len(p) : Append(p, c)[i] = p[i]
    BY AppendProperties
  <1>2. IsPrefix(q, Append(p, c))
    BY PrefixOfAppend
  <1>3. PICK p2 \in Seq(FsName) : /\ p2 = Append(p, c) /\ Len(p2) = Len(p) + 1
                                  /\ p2[Len(p) + 1] = c /\ IsPrefix(q, p2)
                                  /\ \A i \in 1 .. Len(p) : p2[i] = p[i]
    BY <1>1, <1>2
  <1>4. Len(p2) = Len(p) + 1 /\ p2[Len(p) + 1] = c /\ IsPrefix(q, p2)
        /\ \A i \in 1 .. Len(p) : p2[i] = p[i]
    BY <1>3
  <1>5. Follows(p2, p, c, q, a)
    BY <1>4, MovedLonger
  <1> QED
    BY <1>3, <1>5

\* A place after what was at the path q has gone to a.
Moved(x, q, a) == [path |-> FT!MovedPath(x.path, q, a), node |-> x.node]

\* The node of z leaves the directory that lists it for that of y, which is not
\* below it: all the places at or below the path of z move along.
LEMMA TreeMoved ==
    ASSUME NEW P, NEW L, NEW nm, NEW r, Tree(P, L, nm, r),
           NEW Q, NEW M, NEW mm, Tree(Q, M, mm, r),
           NEW y \in P, NEW z \in P, z.path # <<>>, ~IsPrefix(z.path, y.path),
           M[y.node] = L[y.node] \cup {z.node},
           \A d \in HeapAddr \ {y.node} : M[d] = L[d] \ {z.node},
           \A c \in HeapAddr \ {z.node} : mm[c] = nm[c]
    PROVE  Q = {Moved(x, z.path, Append(y.path, mm[z.node])) : x \in P}
  <1> PICK q : q = z.path
    OBVIOUS
  <1> PICK n : n = z.node
    OBVIOUS
  <1> PICK a : a = Append(y.path, mm[n])
    OBVIOUS
  <1> DEFINE R == {Moved(x, q, a) : x \in P}
  <1>0. /\ q \in Seq(FsName) /\ n \in HeapAddr /\ y.path \in Seq(FsName) /\ y.node \in HeapAddr
        /\ mm[n] \in FsName
    <2>1. z \in Place /\ y \in Place
      BY DEF Tree
    <2> QED
      BY <2>1, PlaceFacts DEF Tree
  <1>1. a \in Seq(FsName)
    BY <1>0, PrefixOfAppend
  <1>2. Top(r) \in P /\ Top(r) \in Q /\ Top(r).path = <<>> /\ ~IsPrefix(q, <<>>)
    BY <1>0, PrefixOfEmpty DEF Tree, Top
  \* What is listed before and after: the place moves with its directory.
  <1>3. ASSUME NEW x \in P, NEW c \in L[x.node], c # n
        PROVE  /\ Down(x, c, nm) \in P
               /\ c \in M[x.node]
               /\ Moved(Down(x, c, nm), q, a) = Down(Moved(x, q, a), c, mm)
    <2>1. Down(x, c, nm) \in P /\ Down(x, c, nm).path = Append(x.path, nm[c]) /\ Down(x, c, nm).node = c
      BY DownFacts
    <2>2. x.path \in Seq(FsName) /\ x.node \in HeapAddr /\ c \in HeapAddr /\ nm[c] \in FsName
      BY DownFacts
    <2>3. c \in M[x.node] /\ mm[c] = nm[c]
      BY <1>3, <2>2
    <2>4. q # Append(x.path, nm[c])
      <3>1. Down(x, c, nm).path = z.path => Down(x, c, nm) = z
        BY <2>1, PathOnce
      <3> QED
        BY <1>3, <2>1, <3>1
    <2>5. IsPrefix(q, Append(x.path, nm[c])) <=> IsPrefix(q, x.path)
      BY <1>0, <2>2, <2>4, PrefixOfAppend
    <2>6. FT!MovedPath(Append(x.path, nm[c]), q, a) = Append(FT!MovedPath(x.path, q, a), nm[c])
      <3>1. q \in Seq(FsName) /\ x.path \in Seq(FsName) /\ nm[c] \in FsName
        BY <1>0, <2>2
      <3>2. IsPrefix(q, x.path) => FT!MovedPath(Append(x.path, nm[c]), q, a)
                                       = Append(FT!MovedPath(x.path, q, a), nm[c])
        <4> PICK p : p = x.path
          OBVIOUS
        <4> PICK b : b = nm[c]
          OBVIOUS
        <4>1. p \in Seq(FsName) /\ b \in FsName /\ q \in Seq(FsName) /\ a \in Seq(FsName)
          BY <1>1, <3>1
        <4>2. IsPrefix(q, p) => Follows(Append(p, b), p, b, q, a)
          BY <4>1, MovedAppend
        <4> QED
          BY <4>2 DEF Follows
      <3>3. ~IsPrefix(q, x.path) => FT!MovedPath(x.path, q, a) = x.path
        BY MovedCases
      <3>4. ~IsPrefix(q, Append(x.path, nm[c])) =>
                FT!MovedPath(Append(x.path, nm[c]), q, a) = Append(x.path, nm[c])
        <4>1. PICK p : p = Append(x.path, nm[c])
          OBVIOUS
        <4>2. ~IsPrefix(q, p) => FT!MovedPath(p, q, a) = p
          BY MovedCases
        <4> QED
          BY <4>1, <4>2
      <3> QED
        BY <2>5, <3>2, <3>3, <3>4
    <2> QED
      BY <2>1, <2>3, <2>6 DEF Moved, Down
  <1>4. Moved(z, q, a) = [path |-> a, node |-> n] /\ Moved(y, q, a) = y
    <2>1. FT!MovedPath(z.path, q, a) = a
      BY <1>0, <1>1, MovedSelf
    <2>2. FT!MovedPath(y.path, q, a) = y.path
      BY MovedCases
    <2>3. y = [path |-> y.path, node |-> y.node]
      BY PlaceFacts DEF Tree
    <2> QED
      BY <2>1, <2>2, <2>3 DEF Moved
  <1>5. Q \subseteq R
    <2>1. Top(r) \in R
      <3>1. Moved(Top(r), q, a) = Top(r)
        BY <1>2, MovedCases DEF Moved, Top
      <3> QED
        BY <1>2, <3>1
    <2>2. ASSUME NEW w \in Q \cap R, NEW c \in M[w.node] PROVE Down(w, c, mm) \in R
      <3>1. PICK x \in P : w = Moved(x, q, a)
        BY <2>2
      <3>2. w.node = x.node /\ x.node \in HeapAddr
        BY <3>1, PlaceFacts DEF Moved, Tree
      <3>3. CASE c # n
        <4>1. c \in L[x.node]
          BY <2>2, <3>2, <3>3
        <4> QED
          BY <1>3, <3>1, <3>3, <4>1
      <3>4. CASE c = n
        <4>1. x.node = y.node
          BY <2>2, <3>2, <3>4
        <4>2. x = y
          BY <4>1, NodeOnce
        <4>3. Down(w, c, mm) = [path |-> a, node |-> n]
          BY <1>4, <3>1, <3>4, <4>2 DEF Down
        <4> QED
          BY <1>4, <4>3
      <3> QED
        BY <3>3, <3>4
    <2> HIDE DEF R
    <2> QED
      BY <2>1, <2>2, TreeInduction
  <1>6. Off(P, q) \subseteq Q
    <2> DEFINE S == {x \in P : ~IsPrefix(q, x.path) => x \in Q}
    <2>1. Top(r) \in S
      BY <1>2
    <2>2. ASSUME NEW x \in P \cap S, NEW c \in L[x.node] PROVE Down(x, c, nm) \in S
      <3>1. Down(x, c, nm) \in P /\ Down(x, c, nm).path = Append(x.path, nm[c]) /\ Down(x, c, nm).node = c
        BY <2>2, DownFacts
      <3>2. x.path \in Seq(FsName) /\ c \in HeapAddr /\ nm[c] \in FsName
        BY <2>2, DownFacts
      <3>3. ASSUME ~IsPrefix(q, Append(x.path, nm[c])) PROVE Down(x, c, nm) \in Q
        <4>1. ~IsPrefix(q, x.path)
          BY <1>0, <3>2, <3>3, PrefixOfAppend
        <4>2. c # n
          <5>1. ASSUME c = n PROVE FALSE
            <6>1. Down(x, c, nm) = z
              BY <3>1, <5>1, NodeOnce
            <6>2. IsPrefix(q, q)
              BY <1>0, PrefixOfSelf
            <6> QED
              BY <3>1, <3>3, <6>1, <6>2
          <5> QED
            BY <5>1
        <4>3. c \in M[x.node] /\ mm[c] = nm[c] /\ x \in Q
          BY <1>3, <2>2, <3>2, <4>1, <4>2
        <4>4. Down(x, c, mm) \in Q
          BY <4>3, DownFacts
        <4> QED
          BY <4>3, <4>4 DEF Down
      <3> QED
        BY <3>1, <3>3
    <2>3. P \subseteq S
      <3> HIDE DEF S
      <3> QED
        BY <2>1, <2>2, TreeInduction
    <2> QED
      BY <2>3 DEF Off
  <1>7. R \subseteq Q
    <2> DEFINE S == {x \in P : Moved(x, q, a) \in Q}
    <2>1. y \in Q
      BY <1>6 DEF Off
    <2>2. Moved(z, q, a) \in Q
      <3>1. Down(y, n, mm) \in Q
        BY <2>1, DownFacts
      <3> QED
        BY <1>4, <3>1 DEF Down
    <2>3. Top(r) \in S
      <3>1. Moved(Top(r), q, a) = Top(r)
        BY <1>2, MovedCases DEF Moved, Top
      <3> QED
        BY <1>2, <3>1
    <2>4. ASSUME NEW x \in P \cap S, NEW c \in L[x.node] PROVE Down(x, c, nm) \in S
      <3>1. Down(x, c, nm) \in P /\ Down(x, c, nm).node = c
        BY <2>4, DownFacts
      <3>2. CASE c = n
        <4>1. Down(x, c, nm) = z
          BY <3>1, <3>2, NodeOnce
        <4> QED
          BY <2>2, <3>1, <4>1
      <3>3. CASE c # n
        <4>1. c \in M[x.node] /\ Moved(Down(x, c, nm), q, a) = Down(Moved(x, q, a), c, mm)
          BY <1>3, <2>4, <3>3
        <4>2. Moved(x, q, a) \in Q /\ Moved(x, q, a).node = x.node
          BY <2>4 DEF Moved
        <4>3. Down(Moved(x, q, a), c, mm) \in Q
          BY <4>1, <4>2, DownFacts
        <4> QED
          BY <3>1, <4>1, <4>3
      <3> QED
        BY <3>2, <3>3
    <2>5. P \subseteq S
      <3> HIDE DEF S
      <3> QED
        BY <2>3, <2>4, TreeInduction
    <2> QED
      BY <2>5
  <1> QED
    BY <1>5, <1>7

-----------------------------------------------------------------------------
(* Trees as functions of paths *)

\* What the places of P show when the nodes hold what E says.
Shape(P, E) == [p \in {x.path : x \in P} |-> E[(CHOOSE x \in P : x.path = p).node]]

OnePath(P) == \A x, y \in P : x.path = y.path => x = y

\* g has the paths of P, and at them what E says of their nodes.
Shows(g, P, E) ==
    /\ g = [p \in DOMAIN g |-> g[p]]
    /\ DOMAIN g = {x.path : x \in P}
    /\ \A x \in P : g[x.path] = E[x.node]

LEMMA ShapeShows ==
    ASSUME NEW P, NEW E, OnePath(P)
    PROVE  Shows(Shape(P, E), P, E)
  <1>1. DOMAIN Shape(P, E) = {x.path : x \in P}
        /\ Shape(P, E) = [p \in DOMAIN Shape(P, E) |-> Shape(P, E)[p]]
    BY DEF Shape
  <1>2. ASSUME NEW x \in P PROVE Shape(P, E)[x.path] = E[x.node]
    <2>1. (CHOOSE y \in P : y.path = x.path) = x
      <3>1. \E y \in P : y.path = x.path
        OBVIOUS
      <3>2. (CHOOSE y \in P : y.path = x.path) \in P
            /\ (CHOOSE y \in P : y.path = x.path).path = x.path
        BY <3>1
      <3> QED
        BY <3>2 DEF OnePath
    <2> QED
      BY <2>1 DEF Shape
  <1> QED
    BY <1>1, <1>2 DEF Shows

LEMMA ShowsOnce ==
    ASSUME NEW P, NEW E, NEW f, NEW g, Shows(f, P, E), Shows(g, P, E)
    PROVE  f = g
  <1>1. DOMAIN f = DOMAIN g /\ DOMAIN f = {x.path : x \in P}
    BY DEF Shows
  <1>2. ASSUME NEW p \in DOMAIN f PROVE f[p] = g[p]
    <2>1. PICK x \in P : p = x.path
      BY <1>1
    <2> QED
      BY <2>1 DEF Shows
  <1>3. f = [p \in DOMAIN f |-> f[p]] /\ g = [p \in DOMAIN g |-> g[p]]
    BY DEF Shows
  <1> QED
    BY <1>1, <1>2, <1>3

LEMMA ShapeSame ==
    ASSUME NEW P, NEW E, NEW F, OnePath(P), \A x \in P : F[x.node] = E[x.node]
    PROVE  Shape(P, F) = Shape(P, E)
  <1>1. Shows(Shape(P, E), P, E) /\ Shows(Shape(P, F), P, F)
    BY ShapeShows
  <1>2. Shows(Shape(P, F), P, E)
    BY <1>1 DEF Shows
  <1> QED
    BY <1>1, <1>2, ShowsOnce

LEMMA WithShows ==
    ASSUME NEW P, NEW E, NEW z, NEW F, NEW g, Shows(g, P, E), OnePath(P \cup {z}),
           \A x \in P \ {z} : F[x.node] = E[x.node]
    PROVE  Shows(FT!With(g, z.path, F[z.node]), P \cup {z}, F)
  <1> PICK f : f = FT!With(g, z.path, F[z.node])
    OBVIOUS
  <1>1. DOMAIN g = {x.path : x \in P} /\ \A x \in P : g[x.path] = E[x.node]
    BY DEF Shows
  <1>2. f = [p \in {x.path : x \in P} \cup {z.path} |-> IF p = z.path THEN F[z.node] ELSE g[p]]
    BY <1>1 DEF FT!With
  <1>3. f = [p \in DOMAIN f |-> f[p]] /\ DOMAIN f = {x.path : x \in P} \cup {z.path}
    BY <1>2
  <1>4. ASSUME NEW x \in P \cup {z} PROVE f[x.path] = F[x.node]
    <2>1. CASE x = z
      BY <1>2, <2>1
    <2>2. CASE x # z
      <3>1. x \in P /\ x.path # z.path
        BY <2>2 DEF OnePath
      <3>2. f[x.path] = g[x.path]
        BY <1>2, <3>1
      <3> QED
        BY <1>1, <2>2, <3>1, <3>2
    <2> QED
      BY <2>1, <2>2
  <1> QED
    BY <1>3, <1>4 DEF Shows

LEMMA WithoutShows ==
    ASSUME NEW P, NEW E, NEW q, NEW F, NEW g, Shows(g, P, E),
           \A x \in Off(P, q) : F[x.node] = E[x.node]
    PROVE  Shows(FT!Without(g, FT!Under(g, q)), Off(P, q), F)
  <1> PICK f : f = FT!Without(g, FT!Under(g, q))
    OBVIOUS
  <1>1. DOMAIN g = {x.path : x \in P} /\ \A x \in P : g[x.path] = E[x.node]
    BY DEF Shows
  <1>2. FT!Under(g, q) = {p \in DOMAIN g : IsPrefix(q, p)}
    BY SameOperators DEF FT!Under
  <1>3. f = [p \in DOMAIN g \ FT!Under(g, q) |-> g[p]]
    BY DEF FT!Without
  <1>4. f = [p \in DOMAIN f |-> f[p]] /\ DOMAIN f = DOMAIN g \ FT!Under(g, q)
    BY <1>3
  <1>5. ASSUME NEW x \in Off(P, q) PROVE x.path \in DOMAIN f /\ f[x.path] = F[x.node]
    <2>1. x \in P /\ ~IsPrefix(q, x.path)
      BY DEF Off
    <2>2. x.path \in DOMAIN g \ FT!Under(g, q)
      BY <1>1, <1>2, <2>1
    <2>3. f[x.path] = g[x.path]
      BY <1>3, <2>2
    <2> QED
      BY <1>1, <1>4, <2>1, <2>2, <2>3
  <1>6. ASSUME NEW p \in DOMAIN f PROVE \E x \in Off(P, q) : p = x.path
    <2>1. p \in DOMAIN g /\ ~IsPrefix(q, p)
      BY <1>2, <1>4
    <2>2. PICK x \in P : p = x.path
      BY <1>1, <2>1
    <2> QED
      BY <2>1, <2>2 DEF Off
  <1>7. DOMAIN f = {x.path : x \in Off(P, q)}
    BY <1>5, <1>6
  <1> QED
    BY <1>4, <1>5, <1>7 DEF Shows

LEMMA MovedShows ==
    ASSUME NEW P, NEW E, NEW g, Shows(g, P, E), NEW q, NEW a,
           OnePath({Moved(x, q, a) : x \in P}), \A x, y \in P : x.node = y.node => x = y,
           NEW F, \A x \in P : F[x.node] = E[x.node]
    PROVE  Shows(FT!MovedTree(g, q, a), {Moved(x, q, a) : x \in P}, F)
  <1> PICK f : f = FT!MovedTree(g, q, a)
    OBVIOUS
  <1> DEFINE to(p) == FT!MovedPath(p, q, a)
             Q == {Moved(x, q, a) : x \in P}
  <1>1. DOMAIN g = {x.path : x \in P} /\ \A x \in P : g[x.path] = E[x.node]
    BY DEF Shows
  <1>2. f = [p \in {to(x) : x \in DOMAIN g} |-> g[CHOOSE x \in DOMAIN g : to(x) = p]]
    BY DEF FT!MovedTree
  <1>3. ASSUME NEW x \in P, NEW y \in P, to(x.path) = to(y.path) PROVE x = y
    <2>1. Moved(x, q, a) \in Q /\ Moved(y, q, a) \in Q
          /\ Moved(x, q, a).path = Moved(y, q, a).path
          /\ Moved(x, q, a).node = x.node /\ Moved(y, q, a).node = y.node
      BY <1>3 DEF Moved
    <2> QED
      BY <2>1 DEF OnePath
  <1> HIDE DEF to
  <1>4. f = [p \in DOMAIN f |-> f[p]] /\ DOMAIN f = {to(x) : x \in DOMAIN g}
    BY <1>2
  <1>5. ASSUME NEW x \in P PROVE to(x.path) \in DOMAIN f /\ f[to(x.path)] = F[x.node]
    <2>1. x.path \in DOMAIN g /\ to(x.path) \in DOMAIN f
      BY <1>1, <1>4
    <2>2. PICK p : p = CHOOSE u \in DOMAIN g : to(u) = to(x.path)
      OBVIOUS
    <2>3. p \in DOMAIN g /\ to(p) = to(x.path)
      BY <2>1, <2>2
    <2>4. PICK y \in P : p = y.path
      BY <1>1, <2>3
    <2>5. y = x
      BY <1>3, <2>3, <2>4
    <2>6. f[to(x.path)] = g[p]
      BY <1>2, <1>4, <2>1, <2>2
    <2> QED
      BY <1>1, <2>1, <2>4, <2>5, <2>6
  <1>6. ASSUME NEW w \in Q PROVE w.path \in DOMAIN f /\ f[w.path] = F[w.node]
    <2>1. PICK x \in P : w = Moved(x, q, a)
      OBVIOUS
    <2>2. w.path = to(x.path) /\ w.node = x.node
      BY <2>1 DEF Moved, to
    <2> QED
      BY <1>5, <2>2
  <1>7. ASSUME NEW p \in DOMAIN f PROVE \E w \in Q : p = w.path
    <2>1. PICK x \in P : p = to(x.path)
      BY <1>1, <1>4
    <2>2. Moved(x, q, a) \in Q /\ Moved(x, q, a).path = p
      BY <2>1 DEF Moved, to
    <2> QED
      BY <2>2
  <1> HIDE DEF Q
  <1>8. DOMAIN f = {w.path : w \in Q}
    BY <1>6, <1>7
  <1> QED
    BY <1>4, <1>6, <1>8 DEF Shows, Q

-----------------------------------------------------------------------------
(* The trees below the roots *)

Lists   == [d \in HeapAddr |-> Listed(d)]
Entries == [n \in HeapAddr |-> [is_dir |-> is_dir[n], len |-> Legible(data[n], TRUE)]]

TreeOK(r) == Tree(Descents(r), Lists, name, r)

LEMMA PlaceDown ==
    ASSUME NamedLists, NEW r, NEW k \in Nat, NEW w \in Trails(r, k)
    PROVE  /\ PlaceAt(w, 0) = Top(r)
           /\ \A i \in 1 .. k : PlaceAt(w, i) = Down(PlaceAt(w, i - 1), w[i], name)
           /\ \A i \in 0 .. k : PlaceAt(w, i) \in Place
  <1>1. w \in [0 .. k -> HeapAddr] /\ w[0] = r
    BY TrailFacts
  <1>2. Spelled(w, 0) = <<>>
    <2>1. 0 \in 0 .. k
      OBVIOUS
    <2>2. Spelled(w, 0) \in Seq(FsName) /\ Len(Spelled(w, 0)) = 0
      BY <1>1, <2>1, SpelledFacts
    <2> QED
      BY <2>2, EmptySeq
  <1>3. ASSUME NEW i \in 1 .. k
        PROVE  PlaceAt(w, i) = Down(PlaceAt(w, i - 1), w[i], name)
    <2>1. Spelled(w, i) = Append(Spelled(w, i - 1), name[w[i]])
      BY <1>1, SpelledNext
    <2> QED
      BY <2>1 DEF PlaceAt, Down
  <1> QED
    BY <1>1, <1>2, <1>3, SpelledFacts DEF PlaceAt, Top

TreesOK == \A r \in Roots : TreeOK(r)

LEMMA TreesAre == IInv => TreesOK
  <1> USE DEF TreesOK
  <1> SUFFICES ASSUME IInv, NEW r \in Roots PROVE TreeOK(r)
    OBVIOUS
  <1> PICK P : P = Descents(r)
    OBVIOUS
  <1> PICK L : L = Lists
    OBVIOUS
  <1>1. TypeOK /\ Links /\ NamedLists
    BY TypesOfLists DEF IInv
  <1>2. r \in nodes /\ r \in HeapAddr /\ Unlisted(r) /\ WellLinked
    BY <1>1, RootsUnlistedAll DEF Links
  <1>3. /\ \A k \in Nat : \A w \in Trails(r, k) : PlaceAt(w, k) \in P
        /\ \A x \in P : \E k \in Nat : \E w \in Trails(r, k) : x = PlaceAt(w, k)
    BY <1>1, <1>2, Found
  <1>4. ASSUME NEW x \in P PROVE x \in Place
    <2>1. PICK k \in Nat : \E w \in Trails(r, k) : x = PlaceAt(w, k)
      BY <1>3
    <2>2. PICK w \in Trails(r, k) : x = PlaceAt(w, k)
      BY <2>1
    <2>3. k \in 0 .. k
      OBVIOUS
    <2> QED
      BY <1>1, <2>2, <2>3, PlaceDown
  <1>5. /\ L \in [HeapAddr -> SUBSET HeapAddr]
        /\ name \in [HeapAddr -> FsName]
        /\ \A d \in HeapAddr : L[d] = Listed(d)
    BY <1>1, TypesOfLists DEF Lists, NamedLists
  <1>6. \A d, e \in HeapAddr : \A c \in L[d] : c \in L[e] => d = e
    BY <1>2, <1>5 DEF WellLinked
  <1>7. \A d \in HeapAddr : r \notin L[d]
    BY <1>2, <1>5 DEF Unlisted
  <1>8. ASSUME NEW d \in HeapAddr, NEW b \in L[d], NEW c \in L[d], name[b] = name[c]
        PROVE  b = c
    <2>1. \E i \in DOMAIN kids[d] : kids[d][i] = b
      BY <1>5 DEF Listed, ToSet
    <2>2. \E j \in DOMAIN kids[d] : kids[d][j] = c
      BY <1>5 DEF Listed, ToSet
    <2> QED
      BY <1>1, <1>8, <2>1, <2>2 DEF Links, UniqueNames
  <1>9. Top(r) \in P
    <2> DEFINE w == [i \in 0 .. 0 |-> r]
    <2>1. w \in Trails(r, 0)
      BY <1>2 DEF Trails
    <2>2. PlaceAt(w, 0) = Top(r)
      BY <1>1, <2>1, PlaceDown
    <2>3. PlaceAt(w, 0) \in P
      BY <1>3, <2>1
    <2> QED
      BY <2>2, <2>3
  <1>10. ASSUME NEW x \in P, NEW c \in L[x.node] PROVE Down(x, c, name) \in P
    <2>1. PICK k \in Nat : \E w \in Trails(r, k) : x = PlaceAt(w, k)
      BY <1>3
    <2>2. PICK w \in Trails(r, k) : x = PlaceAt(w, k)
      BY <2>1
    <2>3. w[k] = x.node /\ w[k] \in HeapAddr
      <3>1. k \in 0 .. k
        OBVIOUS
      <3> QED
        BY <2>2, <3>1, TrailFacts DEF PlaceAt
    <2>4. c \in Listed(w[k]) /\ c \in HeapAddr
      BY <1>5, <2>3
    <2>5. PICK v \in Trails(r, k + 1) : v[k + 1] = c /\ \A i \in 0 .. k : v[i] = w[i]
      BY <2>4, TrailExtended
    <2>6. PlaceAt(v, k) = x
      <3>1. v[k] = w[k] /\ \A i \in 1 .. k : v[i] = w[i]
        BY <2>5
      <3>2. Spelled(v, k) = Spelled(w, k)
        BY <3>1 DEF Spelled
      <3> QED
        BY <2>2, <3>1, <3>2 DEF PlaceAt
    <2>7. k + 1 \in 1 .. (k + 1) /\ k + 1 - 1 = k /\ k + 1 \in Nat
      OBVIOUS
    <2>8. PlaceAt(v, k + 1) = Down(PlaceAt(v, k), v[k + 1], name)
      BY <1>1, <2>7, PlaceDown
    <2> QED
      BY <1>3, <2>5, <2>6, <2>7, <2>8
  <1>11. ASSUME NEW S \in SUBSET P, Top(r) \in S,
                \A x \in S : \A c \in L[x.node] : Down(x, c, name) \in S,
                NEW y \in P
         PROVE  y \in S
    <2>1. PICK k \in Nat : \E w \in Trails(r, k) : y = PlaceAt(w, k)
      BY <1>3
    <2>2. PICK w \in Trails(r, k) : y = PlaceAt(w, k)
      BY <2>1
    <2> DEFINE bads == {j \in Nat : j <= k /\ PlaceAt(w, j) \notin S}
    <2>3. bads = {}
      <3> SUFFICES ASSUME bads # {} PROVE FALSE
        OBVIOUS
      <3>1. PICK j \in bads : \A m \in bads : j <= m
        BY LeastNat
      <3>2. j # 0
        BY <1>1, <1>11, <3>1, PlaceDown
      <3>3. j \in 1 .. k /\ j - 1 \in Nat /\ j - 1 <= k /\ ~(j <= j - 1)
        BY <3>1, <3>2
      <3>4. PlaceAt(w, j - 1) \in S
        BY <3>1, <3>3
      <3>5. w[j] \in Listed(w[j - 1]) /\ w[j - 1] \in HeapAddr
        BY <3>3, TrailFacts
      <3>6. w[j] \in L[PlaceAt(w, j - 1).node]
        BY <1>5, <3>5 DEF PlaceAt
      <3>7. PlaceAt(w, j) = Down(PlaceAt(w, j - 1), w[j], name)
        BY <1>1, <3>3, PlaceDown
      <3> QED
        BY <1>11, <3>1, <3>4, <3>6, <3>7
    <2> QED
      BY <2>2, <2>3
  <1>12. Tree(P, L, name, r)
    BY <1>2, <1>4, <1>5, <1>6, <1>7, <1>8, <1>9, <1>10, <1>11 DEF Tree
  <1> QED
    BY <1>12 DEF TreeOK

LEMMA TreesAreNext == IInv' => TreesOK'
  BY TreesAre, PTL

ShapeOK(r) == TreeAt(r) = Shape(Descents(r), Entries)

ShapesOK == \A r \in Roots : ShapeOK(r)

LEMMA ShapesAre == IInv => ShapesOK
  <1> USE DEF ShapesOK
  <1> SUFFICES ASSUME IInv, NEW r \in Roots PROVE ShapeOK(r)
    OBVIOUS
  <1> PICK P : P = Descents(r)
    OBVIOUS
  <1>1. Tree(P, Lists, name, r)
    BY TreesAre DEF TreesOK, TreeOK
  <1>2. \A x \in P : x.node \in HeapAddr
    BY <1>1, PlaceFacts DEF Tree
  <1> DEFINE at(p) == (CHOOSE x \in P : x.path = p).node
             D == {x.path : x \in P}
  <1>3. ASSUME NEW p \in D PROVE at(p) \in HeapAddr
    <2>1. \E x \in P : x.path = p
      OBVIOUS
    <2> QED
      BY <1>2, <2>1
  <1>4. TreeAt(r) = [p \in D |-> [is_dir |-> is_dir[at(p)], len |-> Legible(data[at(p)], TRUE)]]
    BY DEF TreeAt
  <1>5. Shape(P, Entries) = [p \in D |-> Entries[at(p)]]
    BY DEF Shape
  <1> HIDE DEF at, D
  <1>6. ASSUME NEW p \in D
        PROVE  Entries[at(p)] = [is_dir |-> is_dir[at(p)], len |-> Legible(data[at(p)], TRUE)]
    BY <1>3 DEF Entries
  <1>8. TreeAt(r) = Shape(P, Entries)
    BY <1>4, <1>5, <1>6
  <1> QED
    BY <1>8 DEF ShapeOK

LEMMA ShapesAreNext == IInv' => ShapesOK'
  BY ShapesAre, PTL

\* A tree whose nodes stay as they are is the same tree.
LEMMA TreeKept ==
    ASSUME NEW r, TreeOK(r), TreeOK(r)', ShapeOK(r), ShapeOK(r)',
           \A x \in Descents(r) :
              /\ Lists'[x.node] = Lists[x.node]
              /\ \A c \in Lists[x.node] : name'[c] = name[c]
              /\ Entries'[x.node] = Entries[x.node]
    PROVE  Descents(r)' = Descents(r) /\ TreeAt(r)' = TreeAt(r)
  <1>1. PICK P : P = Descents(r)
    OBVIOUS
  <1>2. PICK Q : Q = Descents(r)'
    OBVIOUS
  <1>3. PICK L : L = Lists
    OBVIOUS
  <1>4. PICK M : M = Lists'
    OBVIOUS
  <1>5. PICK nm : nm = name
    OBVIOUS
  <1>6. PICK mm : mm = name'
    OBVIOUS
  <1>7. PICK E : E = Entries
    OBVIOUS
  <1>8. PICK F : F = Entries'
    OBVIOUS
  <1>9. Tree(P, L, nm, r) /\ Tree(Q, M, mm, r)
    BY <1>1, <1>2, <1>3, <1>4, <1>5, <1>6 DEF TreeOK
  <1>10. \A x \in P : M[x.node] = L[x.node] /\ (\A c \in L[x.node] : mm[c] = nm[c])
                      /\ F[x.node] = E[x.node]
    BY <1>1, <1>3, <1>4, <1>5, <1>6, <1>7, <1>8
  <1>11. Q = P
    BY <1>9, <1>10, TreeSame
  <1>12. OnePath(P)
    BY <1>9, PathOnce DEF OnePath
  <1>13. Shape(P, F) = Shape(P, E)
    BY <1>10, <1>12, ShapeSame
  <1> QED
    BY <1>1, <1>2, <1>7, <1>8, <1>11, <1>13 DEF ShapeOK

\* A node of a tree has the colour of its root.
LEMMA TreeColour ==
    ASSUME IInv, NEW col, Coloured(col), NEW r \in Roots, NEW x \in Descents(r)
    PROVE  x.node \in nodes /\ x.node \in HeapAddr /\ col[x.node] = r
  <1>1. TypeOK /\ Links /\ WellLinked
    BY DEF IInv, Links
  <1>2. r \in nodes /\ r \in HeapAddr /\ Unlisted(r) /\ col[r] = r
    BY <1>1, RootsUnlistedAll DEF Coloured
  <1>3. PICK k \in Nat : \E w \in Trails(r, k) : x = PlaceAt(w, k)
    BY <1>1, <1>2, Found
  <1>4. PICK w \in Trails(r, k) : x = PlaceAt(w, k)
    BY <1>3
  <1>5. k \in 0 .. k
    OBVIOUS
  <1>6. w[k] \in nodes /\ w[k] \in HeapAddr /\ col[w[k]] = col[r]
    BY <1>1, <1>2, <1>5, TrailColour
  <1> QED
    BY <1>2, <1>4, <1>6 DEF PlaceAt

LEMMA SavedKept ==
    ASSUME IInv, IInv', NEW col, Coloured(col), Keep(col), NEW r \in SnapRoots \ {fs_root},
           r \in Roots'
    PROVE  TreeAt(r)' = TreeAt(r)
  <1>1. r \in Roots
    BY DEF Roots
  <1>2. TreeOK(r) /\ TreeOK(r)' /\ ShapeOK(r) /\ ShapeOK(r)'
    BY <1>1, TreesAre, TreesAreNext, ShapesAre, ShapesAreNext DEF TreesOK, ShapesOK
  <1>3. ASSUME NEW x \in Descents(r)
        PROVE  /\ Lists'[x.node] = Lists[x.node]
               /\ \A c \in Lists[x.node] : name'[c] = name[c]
               /\ Entries'[x.node] = Entries[x.node]
    <2>1. x.node \in nodes /\ x.node \in HeapAddr /\ col[x.node] = r
      BY <1>1, TreeColour
    <2>2. kids'[x.node] = kids[x.node] /\ is_dir'[x.node] = is_dir[x.node]
          /\ data'[x.node] = data[x.node]
      BY <2>1 DEF Keep
    <2>3. Lists'[x.node] = Lists[x.node] /\ Lists[x.node] = Listed(x.node)
      BY <2>1, <2>2 DEF Lists, Listed
    <2>4. Entries'[x.node] = Entries[x.node]
      BY <2>1, <2>2 DEF Entries
    <2>5. ASSUME NEW c \in Listed(x.node) PROVE name'[c] = name[c]
      <3>1. c \in nodes /\ col[c] = r
        BY <2>1, <2>5 DEF IInv, Links, WellLinked, Coloured
      <3> QED
        BY <3>1 DEF Keep
    <2> QED
      BY <2>3, <2>4, <2>5
  <1> QED
    BY <1>2, <1>3, TreeKept

-----------------------------------------------------------------------------
(* The live tree among the others *)

\* No two snapshots have a name or a root in common, and the one that is being
\* made has a name of its own.
SnapsApart ==
    /\ \A i, j \in DOMAIN snaps :
          snaps[i].name = snaps[j].name \/ snaps[i].root = snaps[j].root => i = j
    /\ ~Quiet => SnapNamed(clone.snap) = {}

LiveTree == TreeAt(fs_root)

TreesNamed ==
    /\ DOMAIN Trees = {snaps[i].name : i \in DOMAIN snaps} \cup {LiveName}
    /\ \A s \in DOMAIN Trees : \A r : r = RootOf(s) => Trees[s] = TreeAt(r)
    /\ FT!live = LiveTree
    /\ \A s \in DOMAIN Trees \ {LiveName} : RootOf(s) \in SnapRoots \ {fs_root}

LEMMA NamesAndRoots == SnapsApart => TreesNamed
  <1> SUFFICES ASSUME SnapsApart PROVE TreesNamed
    OBVIOUS
  <1>1. /\ DOMAIN Trees = {snaps[i].name : i \in DOMAIN snaps} \cup {LiveName}
        /\ \A s \in DOMAIN Trees : Trees[s] = TreeAt(RootOf(s))
    BY DEF Trees
  <1>2. FT!live = LiveTree
    <2>1. RootOf(LiveName) = fs_root
      BY DEF RootOf
    <2> QED
      BY <1>1, <2>1 DEF FT!live, LiveTree
  <1>3. ASSUME NEW s \in DOMAIN Trees \ {LiveName} PROVE RootOf(s) \in SnapRoots \ {fs_root}
    <2>1. \E i \in DOMAIN snaps : snaps[i].name = s
      BY <1>1, <1>3
    <2>2. PICK i \in DOMAIN snaps : i = CHOOSE j \in DOMAIN snaps : snaps[j].name = s
      BY <2>1
    <2>3. snaps[i].name = s
      BY <2>1, <2>2
    <2>4. RootOf(s) = snaps[i].root
      BY <1>3, <2>2 DEF RootOf
    <2>5. snaps[i].root \in SnapRoots
      BY DEF SnapRoots
    <2>6. ASSUME snaps[i].root = fs_root PROVE FALSE
      <3>1. PICK j \in DOMAIN snaps : j = CHOOSE k \in DOMAIN snaps : snaps[k].root = fs_root
        BY <2>6
      <3>2. snaps[j].root = fs_root
        BY <2>6, <3>1
      <3>3. LiveName = snaps[j].name
        BY <2>6, <3>1 DEF LiveName
      <3>4. i = j
        BY <2>6, <3>2 DEF SnapsApart
      <3> QED
        BY <1>3, <2>3, <3>3, <3>4
    <2> QED
      BY <2>4, <2>5, <2>6
  <1> QED
    BY <1>1, <1>2, <1>3 DEF TreesNamed

LEMMA NamesAndRootsNext == SnapsApart' => TreesNamed'
  BY NamesAndRoots, PTL

\* Nothing but the live tree changes.
OnlyLive ==
    /\ UNCHANGED LiveName
    /\ DOMAIN Trees' = DOMAIN Trees
    /\ \A s \in DOMAIN Trees \ {LiveName} : Trees'[s] = Trees[s]
    /\ FT!live = LiveTree /\ FT!live' = LiveTree'

LEMMA LiveNameKept ==
    UNCHANGED <<fs_root, snaps>> => UNCHANGED LiveName /\ \A s : RootOf(s)' = RootOf(s)
  BY DEF LiveName, RootOf

LEMMA OnlyLiveChanges ==
    ASSUME IInv, IInv', SnapsApart, SnapsApart', NEW col, Coloured(col), Keep(col),
           UNCHANGED <<fs_root, snaps>>
    PROVE  OnlyLive
  <1>1. UNCHANGED LiveName /\ \A s : RootOf(s)' = RootOf(s)
    BY LiveNameKept
  <1>2. TreesNamed /\ TreesNamed'
    BY NamesAndRoots, NamesAndRootsNext
  <1>3. DOMAIN Trees' = DOMAIN Trees
    <2>1. DOMAIN Trees = {snaps[i].name : i \in DOMAIN snaps} \cup {LiveName}
      BY <1>2 DEF TreesNamed
    <2>2. DOMAIN Trees' = {snaps'[i].name : i \in DOMAIN snaps'} \cup {LiveName'}
      BY <1>2 DEF TreesNamed
    <2> QED
      BY <1>1, <2>1, <2>2
  <1>4. ASSUME NEW s \in DOMAIN Trees \ {LiveName} PROVE Trees'[s] = Trees[s]
    <2>1. PICK r : r = RootOf(s)
      OBVIOUS
    <2>2. r \in SnapRoots \ {fs_root} /\ r \in Roots'
      BY <1>2, <2>1 DEF TreesNamed, Roots, SnapRoots
    <2>3. TreeAt(r)' = TreeAt(r)
      BY <2>2, SavedKept
    <2>4. Trees[s] = TreeAt(r)
      BY <1>2, <2>1 DEF TreesNamed
    <2>5. r = RootOf(s)' /\ s \in DOMAIN Trees'
      BY <1>1, <1>3, <2>1
    <2>6. Trees'[s] = TreeAt(r)'
      BY <1>2, <2>5 DEF TreesNamed
    <2> QED
      BY <2>3, <2>4, <2>6
  <1>5. FT!live = LiveTree /\ FT!live' = LiveTree'
    BY <1>2 DEF TreesNamed
  <1> QED
    BY <1>1, <1>3, <1>4, <1>5 DEF OnlyLive

-----------------------------------------------------------------------------
(* What a change of the lists does to the tree that paths show *)

\* The paths of P that lead to the node n.
At(P, n) == {x.path : x \in {y \in P : y.node = n}}

\* Q is the tree P with the place z and all that is below it.
Grown(P, Q, z) ==
    /\ z \in Q /\ z.path # <<>>
    /\ P = Off(Q, z.path)
    /\ \A x \in P : x.path # z.path

LEMMA TreeUncut ==
    ASSUME NEW P, NEW L, NEW nm, NEW r, Tree(P, L, nm, r),
           NEW Q, NEW M, NEW mm, Tree(Q, M, mm, r),
           NEW z \in Q, z.path # <<>>,
           \A x \in P \cap Q : L[x.node] = M[x.node] \ {z.node},
           \A c \in HeapAddr \ {z.node} : mm[c] = nm[c]
    PROVE  P = Off(Q, z.path)
  <1>1. Lacks(Q \cap P, M, L, z)
    BY DEF Lacks
  <1>2. \A c \in HeapAddr \ {z.node} : nm[c] = mm[c]
    OBVIOUS
  <1> QED
    BY <1>1, <1>2, TreeCut

\* A node that was not in the tree is listed in it.
LEMMA Gained ==
    ASSUME NEW P, NEW L, NEW nm, NEW r, Tree(P, L, nm, r),
           NEW Q, NEW M, NEW mm, Tree(Q, M, mm, r),
           NEW y \in P, NEW n \in HeapAddr, \A x \in P : x.node # n,
           M[y.node] = L[y.node] \cup {n},
           \A d \in HeapAddr \ {y.node} : M[d] = L[d] \ {n},
           \A c \in HeapAddr \ {n} : mm[c] = nm[c]
    PROVE  Grown(P, Q, Down(y, n, mm))
  <1>0. Top(r) \in P /\ Top(r) \in Q
    BY DEF Tree
  <1>1. ASSUME NEW x \in P, NEW c \in L[x.node]
        PROVE  /\ c \in HeapAddr /\ c # n /\ c \in M[x.node] /\ x.node \in HeapAddr
               /\ Down(x, c, nm) = Down(x, c, mm)
    <2>1. Down(x, c, nm) \in P /\ Down(x, c, nm).node = c /\ c \in HeapAddr /\ x.node \in HeapAddr
      BY DownFacts
    <2>2. c # n
      BY <2>1
    <2> QED
      BY <2>1, <2>2 DEF Down
  <1>2. P \subseteq Q
    <2>1. ASSUME NEW x \in P \cap Q, NEW c \in L[x.node] PROVE Down(x, c, nm) \in Q
      <3>1. c \in M[x.node] /\ Down(x, c, nm) = Down(x, c, mm)
        BY <1>1
      <3>2. Down(x, c, mm) \in Q
        BY <3>1, DownFacts
      <3> QED
        BY <3>1, <3>2
    <2> QED
      BY <1>0, <2>1, TreeInduction
  <1>3. PICK z : z = Down(y, n, mm)
    OBVIOUS
  <1>4. /\ z \in Q /\ z.node = n /\ z.path = Append(y.path, mm[n])
        /\ y.path \in Seq(FsName) /\ mm[n] \in FsName
    <2>1. y \in Q /\ n \in M[y.node]
      BY <1>2
    <2> QED
      BY <1>3, <2>1, DownFacts
  <1>5. z.path # <<>>
    BY <1>4, PrefixOfAppend
  <1>6. ASSUME NEW x \in Q \cap P PROVE L[x.node] = M[x.node] \ {n}
    <2>1. x.node \in HeapAddr
      BY PlaceFacts DEF Tree
    <2>2. n \notin L[x.node]
      BY <1>1
    <2> QED
      BY <2>1, <2>2
  <1>7. P = Off(Q, z.path)
    <2>1. \A x \in P \cap Q : L[x.node] = M[x.node] \ {z.node}
      BY <1>4, <1>6
    <2>2. \A c \in HeapAddr \ {z.node} : mm[c] = nm[c]
      BY <1>4
    <2>3. z \in Q
      BY <1>4
    <2> QED
      BY <1>5, <2>1, <2>2, <2>3, TreeUncut
  <1>8. ASSUME NEW x \in P PROVE x.path # z.path
    BY <1>2, <1>4, PathOnce
  <1> QED
    BY <1>3, <1>4, <1>5, <1>7, <1>8 DEF Grown

\* A tree that grows by a node that lists nothing grows by one place.
LEMMA GrownByLeaf ==
    ASSUME NEW P, NEW Q, NEW M, NEW mm, NEW r, Tree(Q, M, mm, r), NEW z, Grown(P, Q, z),
           M[z.node] = {}
    PROVE  Q = P \cup {z}
  <1>1. z \in Q /\ P = Off(Q, z.path)
    BY DEF Grown
  <1>2. \A x \in Q : IsPrefix(z.path, x.path) => x = z \/ M[z.node] # {}
    BY <1>1, UnderLeaf
  <1> QED
    BY <1>1, <1>2 DEF Off

LEMMA LeafShows ==
    ASSUME NEW P, NEW Q, NEW z, Grown(P, Q, z), Q = P \cup {z}, OnePath(Q), NEW E, NEW F,
           NEW g, NEW h, Shows(g, P, E), Shows(h, Q, F), \A x \in P : F[x.node] = E[x.node]
    PROVE  h = FT!With(g, z.path, F[z.node]) /\ z.path \notin DOMAIN g
  <1>1. Shows(FT!With(g, z.path, F[z.node]), P \cup {z}, F)
    BY WithShows
  <1> PICK f : f = FT!With(g, z.path, F[z.node])
    OBVIOUS
  <1>2. h = f
    BY <1>1, ShowsOnce
  <1>3. z.path \notin DOMAIN g
    BY DEF Shows, Grown
  <1> QED
    BY <1>2, <1>3

LEMMA GainShows ==
    ASSUME NEW P, NEW Q, NEW z, Grown(P, Q, z), NEW E, NEW F,
           NEW g, NEW h, Shows(g, P, E), Shows(h, Q, F), \A x \in P : F[x.node] = E[x.node]
    PROVE  /\ g = FT!Without(h, FT!Under(h, z.path))
           /\ z.path \notin DOMAIN g /\ z.path \in DOMAIN h
  <1> PICK q : q = z.path
    OBVIOUS
  <1> PICK f : f = FT!Without(h, FT!Under(h, q))
    OBVIOUS
  <1>0. P = Off(Q, q) /\ \A x \in Off(Q, q) : E[x.node] = F[x.node]
    BY DEF Grown
  <1>1. Shows(f, Off(Q, q), E)
    BY <1>0, WithoutShows
  <1>2. g = f
    BY <1>0, <1>1, ShowsOnce
  <1>3. z.path \notin DOMAIN g /\ z.path \in DOMAIN h
    BY DEF Shows, Grown
  <1> QED
    BY <1>2, <1>3

LEMMA CutShows ==
    ASSUME NEW P, NEW Q, NEW q, Q = Off(P, q), NEW E, NEW F,
           NEW g, NEW h, Shows(g, P, E), Shows(h, Q, F), \A x \in P : F[x.node] = E[x.node]
    PROVE  /\ h = FT!Without(g, FT!Under(g, q))
           /\ \A n : At(Q, n) = At(P, n) \ FT!Under(g, q)
  <1> PICK f : f = FT!Without(g, FT!Under(g, q))
    OBVIOUS
  <1>1. Shows(f, Off(P, q), F)
    <2>1. \A x \in Off(P, q) : F[x.node] = E[x.node]
      BY DEF Off
    <2> QED
      BY <2>1, WithoutShows
  <1>2. h = f
    BY <1>1, ShowsOnce
  <1>3. FT!Under(g, q) = {p \in {x.path : x \in P} : IsPrefix(q, p)}
    BY SameOperators DEF FT!Under, Shows
  <1>4. \A n : At(Q, n) = At(P, n) \ FT!Under(g, q)
    BY <1>3 DEF At, Off
  <1> QED
    BY <1>2, <1>4

\* The places, the tree and the paths of a node are those before, moved.
MovedAll(P, q, a) == {Moved(x, q, a) : x \in P}
MoveShown(P, Q, g, h, q, a) ==
    /\ h = FT!MovedTree(g, q, a)
    /\ \A n : At(Q, n) = {FT!MovedPath(c, q, a) : c \in At(P, n)}

LEMMA MoveShows ==
    ASSUME NEW P, NEW q, NEW a, NEW Q, Q = MovedAll(P, q, a), OnePath(Q),
           \A x, y \in P : x.node = y.node => x = y,
           NEW E, NEW F, NEW g, NEW h, Shows(g, P, E), Shows(h, Q, F),
           \A x \in P : F[x.node] = E[x.node]
    PROVE  MoveShown(P, Q, g, h, q, a)
  <1> PICK f : f = FT!MovedTree(g, q, a)
    OBVIOUS
  <1>1. Shows(f, {Moved(x, q, a) : x \in P}, F)
    BY MovedShows DEF MovedAll
  <1>2. h = f
    BY <1>1, ShowsOnce DEF MovedAll
  <1> DEFINE to(p) == FT!MovedPath(p, q, a)
  <1>3. \A x \in P : /\ Moved(x, q, a) \in Q
                      /\ Moved(x, q, a).path = to(x.path) /\ Moved(x, q, a).node = x.node
    BY DEF Moved, MovedAll
  <1>4. \A w \in Q : \E x \in P : w.path = to(x.path) /\ w.node = x.node
    BY DEF Moved, MovedAll
  <1> HIDE DEF to
  <1>5. ASSUME NEW n PROVE At(Q, n) = {to(c) : c \in At(P, n)}
    <2>1. ASSUME NEW p \in At(Q, n) PROVE p \in {to(c) : c \in At(P, n)}
      <3>1. PICK w \in Q : w.node = n /\ p = w.path
        BY <2>1 DEF At
      <3>2. PICK x \in P : w.path = to(x.path) /\ w.node = x.node
        BY <1>4
      <3>3. x.path \in At(P, n)
        BY <3>1, <3>2 DEF At
      <3> QED
        BY <3>1, <3>2, <3>3
    <2>2. ASSUME NEW c \in At(P, n) PROVE to(c) \in At(Q, n)
      <3>1. PICK x \in P : x.node = n /\ c = x.path
        BY <2>2 DEF At
      <3>2. PICK w \in Q : w.path = to(x.path) /\ w.node = x.node
        BY <1>3
      <3> QED
        BY <3>1, <3>2 DEF At
    <2> QED
      BY <2>1, <2>2
  <1> QED
    BY <1>2, <1>5 DEF to, MoveShown

\* Where something may be put.
LEMMA VacancyAt ==
    ASSUME NEW P, NEW E, NEW g, Shows(g, P, E), NEW y \in P, E[y.node].is_dir,
           NEW a \in Name \cup RawName, Append(y.path, a) \notin DOMAIN g
    PROVE  Append(y.path, a) \in FT!Vacancies(g)
  <1>1. y.path \in FT!Dirs(g)
    BY DEF Shows, FT!Dirs
  <1> QED
    BY <1>1 DEF FT!Vacancies

-----------------------------------------------------------------------------
(* The live tree and the current directory *)

LiveShown ==
    /\ Tree(Descents(fs_root), Lists, name, fs_root)
    /\ Shows(LiveTree, Descents(fs_root), Entries)

LEMMA LiveIs == IInv => LiveShown
  <1> SUFFICES ASSUME IInv PROVE LiveShown
    OBVIOUS
  <1>1. fs_root \in Roots
    BY DEF Roots
  <1>2. TreeOK(fs_root) /\ ShapeOK(fs_root)
    BY <1>1, TreesAre, ShapesAre DEF TreesOK, ShapesOK
  <1>3. OnePath(Descents(fs_root))
    BY <1>2, PathOnce DEF TreeOK, OnePath
  <1>4. Shows(Shape(Descents(fs_root), Entries), Descents(fs_root), Entries)
    BY <1>3, ShapeShows
  <1> QED
    BY <1>2, <1>4 DEF TreeOK, ShapeOK, LiveShown, LiveTree

LEMMA LiveIsNext == IInv' => LiveShown'
  BY LiveIs, PTL

\* Whether the current directory is in the live tree.
InTree == fs_cwd \in Below(fs_root)

LEMMA OutOfTree == ~InTree => CwdPath = {}
  BY DEF InTree, CwdPath, Below

LEMMA RootBelow ==
    IInv => /\ fs_root \in Below(fs_root)
            /\ \A n \in Below(fs_root) : n \in HeapAddr /\ \A m \in Listed(n) : m \in Below(fs_root)
  <1> SUFFICES ASSUME IInv
               PROVE  /\ fs_root \in Below(fs_root)
                      /\ \A n \in Below(fs_root) : n \in HeapAddr /\ \A m \in Listed(n) : m \in Below(fs_root)
    OBVIOUS
  <1>1. TypeOK /\ Links /\ fs_root \in Roots
    BY DEF IInv, Roots
  <1> QED
    BY <1>1, BelowListed DEF TypeOK

\* What a path leads to from a place in the tree is in the tree.
LEMMA WalkBelow ==
    ASSUME IInv, NEW p, Start(p) \in Below(fs_root), NEW n \in Nat, Walk(p, n) # NULL
    PROVE  Walk(p, n) \in Below(fs_root)
  <1>0. TypeOK /\ Links
    BY DEF IInv
  <1>1. PICK f : /\ f[0] = Start(p)
                 /\ \A i \in 1 .. n : f[i] = IF f[i - 1] = NULL THEN NULL
                                             ELSE Lookup(f[i - 1], p.comps[i])
                 /\ Walk(p, n) = IF f[n] \in nodes THEN f[n] ELSE NULL
    BY WalkIs
  <1> DEFINE good(i) == f[i] # NULL => f[i] \in Below(fs_root)
             bads == {i \in Nat : i <= n /\ ~good(i)}
  <1>2. bads = {}
    <2> SUFFICES ASSUME bads # {} PROVE FALSE
      OBVIOUS
    <2>1. PICK i \in bads : \A m \in bads : i <= m
      BY LeastNat
    <2>2. CASE i = 0
      BY <1>1, <2>1, <2>2
    <2>3. CASE i # 0
      <3>1. i \in 1 .. n /\ i - 1 \in Nat /\ i - 1 <= n /\ ~(i <= i - 1)
        BY <2>1, <2>3
      <3>2. good(i - 1)
        BY <2>1, <3>1
      <3>3. f[i] # NULL /\ f[i] \notin Below(fs_root)
        BY <2>1
      <3>4. f[i - 1] # NULL /\ f[i] = Lookup(f[i - 1], p.comps[i])
        BY <1>1, <3>1, <3>3
      <3>5. f[i - 1] \in HeapAddr /\ f[i - 1] \in Below(fs_root)
        BY <3>2, <3>4, RootBelow
      <3>6. Lookup(f[i - 1], p.comps[i]) # NULL
        BY <3>3, <3>4
      <3>7. f[i] \in Listed(f[i - 1])
        BY <1>0, <3>4, <3>5, <3>6, LookupFacts
      <3> QED
        BY <3>3, <3>5, <3>7, RootBelow
    <2> QED
      BY <2>2, <2>3
  <1>3. good(n)
    BY <1>2
  <1>4. f[n] \in nodes /\ Walk(p, n) = f[n]
    BY <1>1
  <1>5. f[n] # NULL
    BY <1>0, <1>4, Constants DEF TypeOK
  <1> QED
    BY <1>3, <1>4, <1>5

LEMMA StartBelow == IInv /\ InTree => \A p : Start(p) \in Below(fs_root)
  BY RootBelow DEF InTree, Start

LEMMA ResolveBelow ==
    ASSUME IInv, InTree, NEW p, p.comps \in Seq(FsName), Resolve(p) # NULL
    PROVE  Resolve(p) \in Below(fs_root)
  <1>1. CASE p.comps = <<>>
    BY <1>1, RootBelow DEF Resolve
  <1>2. CASE p.comps # <<>>
    <2> DEFINE d == Walk(p, Len(p.comps) - 1)
               last == p.comps[Len(p.comps)]
    <2>1. d # NULL /\ Resolve(p) = Lookup(d, last)
      BY <1>2 DEF Resolve
    <2>2. d \in Below(fs_root)
      BY <1>2, <2>1, LastComponent, StartBelow, WalkBelow
    <2> HIDE DEF d, last
    <2>3. d \in HeapAddr
      BY <2>2, RootBelow
    <2>4. Lookup(d, last) \in Listed(d)
      BY <2>1, <2>3, LookupFacts DEF IInv
    <2> QED
      BY <2>1, <2>2, <2>4, RootBelow
  <1> QED
    BY <1>1, <1>2

LEMMA VacantBelow ==
    ASSUME IInv, InTree, NEW p, p.comps \in Seq(FsName), NEW v \in Vacant(p)
    PROVE  v.dir \in Below(fs_root)
  <1> DEFINE d == Walk(p, Len(p.comps) - 1)
             last == p.comps[Len(p.comps)]
  <1>1. p.comps # <<>>
    BY DEF Vacant
  <1>2. d # NULL /\ v = [dir |-> d, name |-> last]
    BY <1>1 DEF Vacant
  <1>3. d \in Below(fs_root)
    BY <1>1, <1>2, LastComponent, StartBelow, WalkBelow
  <1> HIDE DEF d, last
  <1> QED
    BY <1>2, <1>3

LEMMA PathNames == \A p \in Path : p.comps \in Seq(FsName)
  <1> SUFFICES ASSUME NEW p \in Path PROVE p.comps \in Seq(FsName)
    OBVIOUS
  <1>1. p.comps \in Seq(Name) /\ Name \subseteq FsName
    BY FsAssumption DEF FsName
  <1> QED
    BY <1>1, SeqMonotonic

-----------------------------------------------------------------------------
(* One step, seen through the live tree *)

\* The live tree before a step (its places, the lists, the names, what the
\* nodes hold, the tree that paths show) and after it.
Before(P, L, nm, E, g) ==
    P = Descents(fs_root) /\ L = Lists /\ nm = name /\ E = Entries /\ g = LiveTree
After(Q, M, mm, F, h) ==
    /\ Q = Descents(fs_root)' /\ M = Lists' /\ mm = name' /\ F = Entries' /\ h = LiveTree'

LEMMA BeforeExists == \E P, L, nm, E, g : Before(P, L, nm, E, g)
  BY DEF Before

LEMMA AfterExists == \E Q, M, mm, F, h : After(Q, M, mm, F, h)
  BY DEF After

LEMMA BeforeFacts ==
    ASSUME IInv, NEW P, NEW L, NEW nm, NEW E, NEW g, Before(P, L, nm, E, g)
    PROVE  /\ Tree(P, L, nm, fs_root) /\ Shows(g, P, E)
           /\ Below(fs_root) = {x.node : x \in P}
           /\ \A n : At(P, n) = {x.path : x \in {y \in Descents(fs_root) : y.node = n}}
           /\ CwdPath = At(P, fs_cwd)
           /\ OnePath(P) /\ \A x, y \in P : x.node = y.node => x = y
  <1>1. Tree(P, L, nm, fs_root) /\ Shows(g, P, E)
    BY LiveIs DEF LiveShown, Before
  <1>2. Below(fs_root) = {x.node : x \in P}
    BY DEF Below, Before
  <1>3. /\ \A n : At(P, n) = {x.path : x \in {y \in Descents(fs_root) : y.node = n}}
        /\ CwdPath = At(P, fs_cwd)
    BY DEF CwdPath, At, Before
  <1> QED
    BY <1>1, <1>2, <1>3, PathOnce, NodeOnce DEF OnePath

CwdShown == CwdPath = At(Descents(fs_root), fs_cwd)

LEMMA CwdIs == CwdShown
  BY DEF CwdShown, CwdPath, At

LEMMA CwdIsNext == CwdShown'
  BY CwdIs, PTL

LEMMA AfterFacts ==
    ASSUME IInv', UNCHANGED fs_root, NEW Q, NEW M, NEW mm, NEW F, NEW h, After(Q, M, mm, F, h)
    PROVE  /\ Tree(Q, M, mm, fs_root) /\ Shows(h, Q, F)
           /\ CwdPath' = At(Q, fs_cwd')
           /\ OnePath(Q) /\ \A x, y \in Q : x.node = y.node => x = y
  <1>1. LiveShown' /\ CwdShown'
    BY LiveIsNext, CwdIsNext
  <1>2. Tree(Q, M, mm, fs_root) /\ Shows(h, Q, F)
    BY <1>1 DEF LiveShown, After
  <1>3. CwdPath' = At(Q, fs_cwd')
    BY <1>1 DEF CwdShown, After
  <1> QED
    BY <1>2, <1>3, PathOnce, NodeOnce DEF OnePath

TreesShaped == Trees = [s \in DOMAIN Trees |-> Trees[s]]

LEMMA TreesAreShaped == TreesShaped
  BY DEF TreesShaped, Trees

LEMMA TreesAreShapedNext == TreesShaped'
  BY TreesAreShaped, PTL

LEMMA NoTreeChanges ==
    ASSUME OnlyLive, LiveTree' = LiveTree
    PROVE  UNCHANGED <<LiveName, Trees>>
  <1>1. TreesShaped /\ TreesShaped'
    BY TreesAreShaped, TreesAreShapedNext
  <1>2. Trees'[LiveName] = Trees[LiveName]
    BY DEF OnlyLive, FT!live
  <1>3. \A s \in DOMAIN Trees : Trees'[s] = Trees[s]
    BY <1>2 DEF OnlyLive
  <1>4. DOMAIN Trees' = DOMAIN Trees /\ LiveName' = LiveName
    BY DEF OnlyLive
  <1> PICK t : t = Trees
    OBVIOUS
  <1> PICK u : u = Trees'
    OBVIOUS
  <1>5. t = [s \in DOMAIN t |-> t[s]] /\ u = [s \in DOMAIN u |-> u[s]]
    BY <1>1 DEF TreesShaped
  <1>6. DOMAIN u = DOMAIN t /\ \A s \in DOMAIN t : u[s] = t[s]
    BY <1>3, <1>4
  <1>7. u = t
    BY <1>5, <1>6
  <1> QED
    BY <1>4, <1>7

\* A step that does nothing to the nodes of the live tree does nothing to it.
LEMMA NothingHere ==
    ASSUME IInv, IInv', OnlyLive, UNCHANGED fs_root,
           \A n \in Below(fs_root) :
              /\ Lists'[n] = Lists[n]
              /\ \A c \in Lists[n] : name'[c] = name[c]
              /\ Entries'[n] = Entries[n]
    PROVE  /\ UNCHANGED <<LiveName, Trees>>
           /\ UNCHANGED fs_cwd => UNCHANGED CwdPath
           /\ Descents(fs_root)' = Descents(fs_root)
  <1>1. PICK P, L, nm, E, g : Before(P, L, nm, E, g)
    BY BeforeExists
  <1>2. PICK Q, M, mm, F, h : After(Q, M, mm, F, h)
    BY AfterExists
  <1> PICK r : r = fs_root
    OBVIOUS
  <1>3. Tree(P, L, nm, r) /\ Shows(g, P, E) /\ Below(fs_root) = {x.node : x \in P}
        /\ CwdPath = At(P, fs_cwd)
    BY <1>1, BeforeFacts
  <1>4. Tree(Q, M, mm, r) /\ Shows(h, Q, F) /\ CwdPath' = At(Q, fs_cwd')
    BY <1>2, AfterFacts
  <1>5. \A x \in P : /\ M[x.node] = L[x.node] /\ \A c \in L[x.node] : mm[c] = nm[c]
                     /\ F[x.node] = E[x.node]
    BY <1>1, <1>2, <1>3 DEF Before, After
  <1>6. Q = P
    BY <1>3, <1>4, <1>5, TreeSame
  <1>7. Shows(h, P, E)
    BY <1>4, <1>5, <1>6 DEF Shows
  <1>8. h = g
    BY <1>3, <1>7, ShowsOnce
  <1>9. LiveTree' = LiveTree /\ Descents(fs_root)' = Descents(fs_root)
    BY <1>1, <1>2, <1>6, <1>8 DEF Before, After
  <1> QED
    BY <1>3, <1>4, <1>6, <1>9, NoTreeChanges

\* The live tree becomes what paths show after the step.
LEMMA BecomesAfter ==
    ASSUME OnlyLive, NEW ts, LiveTree' \in ts
    PROVE  FT!LiveBecomes(ts)
  BY DEF OnlyLive, FT!LiveBecomes

\* e is put where nothing was.
Put(e) ==
    \E q \in FT!Vacancies(FT!live) : FT!LiveBecomes({FT!With(FT!live, q, e)})

LEMMA AddedNode ==
    ASSUME IInv, IInv', OnlyLive, Fits(heap_offset, NODE_SIZE),
           NEW d \in nodes, is_dir[d], NEW nn \in Name \cup RawName, NEW dir, NEW text,
           NewNode(d, nn, dir, text), UNCHANGED <<fs_root, fs_cwd>>
    PROVE  /\ UNCHANGED CwdPath
           /\ d \in Below(fs_root) => Put([is_dir |-> dir, len |-> Legible(text, TRUE)])
           /\ d \notin Below(fs_root) => UNCHANGED <<LiveName, Trees>>
  <1>1. PICK P, L, nm, E, g : Before(P, L, nm, E, g)
    BY BeforeExists
  <1>2. PICK Q, M, mm, F, h : After(Q, M, mm, F, h)
    BY AfterExists
  <1> PICK r : r = fs_root
    OBVIOUS
  <1>3. Tree(P, L, nm, r) /\ Shows(g, P, E) /\ Below(fs_root) = {x.node : x \in P}
        /\ CwdPath = At(P, fs_cwd)
    BY <1>1, BeforeFacts
  <1>4. Tree(Q, M, mm, r) /\ Shows(h, Q, F) /\ CwdPath' = At(Q, fs_cwd) /\ OnePath(Q)
    BY <1>2, AfterFacts
  <1>5. PICK n : n = PtrAt(heap_offset)
    OBVIOUS
  <1>6. /\ n \in HeapAddr /\ n \notin nodes /\ kids[n] = <<>> /\ \A x \in HeapAddr : n \notin Listed(x)
        /\ TypeOK
    BY <1>5, FreshNode DEF IInv
  <1>7. /\ d \in HeapAddr /\ d # n
        /\ name' = [name EXCEPT ![n] = nn] /\ is_dir' = [is_dir EXCEPT ![n] = dir]
        /\ data' = [data EXCEPT ![n] = text] /\ kids' = [kids EXCEPT ![d] = <<n>> \o @]
    BY <1>5, <1>6 DEF NewNode, TypeOK
  <1>8. /\ \A x \in HeapAddr \ {d} : M[x] = L[x]
        /\ M[d] = L[d] \cup {n} /\ M[n] = {} /\ \A x \in HeapAddr : n \notin L[x]
    <2>1. kids \in [HeapAddr -> Seq(HeapAddr)]
      BY <1>6 DEF TypeOK
    <2>2. \A x \in HeapAddr \ {d} : kids'[x] = kids[x]
      BY <1>7, <2>1
    <2>3. kids'[d] = <<n>> \o kids[d] /\ kids[d] \in Seq(HeapAddr)
      BY <1>7, <2>1
    <2>4. ToSet(<<n>> \o kids[d]) = ToSet(kids[d]) \cup {n}
      BY <1>6, <2>3, HeadInsertion
    <2>5. ToSet(kids[n]) = {}
      BY <1>6 DEF ToSet
    <2> QED
      BY <1>1, <1>2, <1>6, <1>7, <2>2, <2>3, <2>4, <2>5 DEF Before, After, Lists, Listed
  <1>9. mm[n] = nn /\ \A c \in HeapAddr \ {n} : mm[c] = nm[c]
    BY <1>1, <1>2, <1>6, <1>7 DEF Before, After, TypeOK
  <1>10. /\ F[n] = [is_dir |-> dir, len |-> Legible(text, TRUE)]
         /\ \A c \in HeapAddr \ {n} : F[c] = E[c]
         /\ E[d].is_dir
    <2>1. /\ is_dir'[n] = dir /\ data'[n] = text
          /\ \A c \in HeapAddr \ {n} : is_dir'[c] = is_dir[c] /\ data'[c] = data[c]
      BY <1>6, <1>7 DEF TypeOK
    <2> QED
      BY <1>1, <1>2, <1>6, <1>7, <2>1 DEF Before, After, Entries
  <1>11. \A x \in P : x.node # n /\ x.node \in HeapAddr
    <2>1. \A m \in Below(fs_root) : m \in nodes /\ m \in HeapAddr
      BY <1>6, BelowListed, RootBelow DEF IInv, Roots
    <2> QED
      BY <1>3, <1>6, <2>1
  <1>12. CASE d \notin Below(fs_root)
    <2>1. ASSUME NEW m \in Below(fs_root)
          PROVE  /\ Lists'[m] = Lists[m]
                 /\ \A c \in Lists[m] : name'[c] = name[c]
                 /\ Entries'[m] = Entries[m]
      <3>1. m \in HeapAddr /\ m # d /\ m # n
        BY <1>3, <1>11, <1>12
      <3>2. M[m] = L[m] /\ F[m] = E[m] /\ n \notin L[m] /\ L[m] \subseteq HeapAddr
        BY <1>3, <1>8, <1>10, <3>1 DEF Tree
      <3> QED
        BY <1>1, <1>2, <1>9, <3>2 DEF Before, After
    <2>2. /\ UNCHANGED <<LiveName, Trees>>
          /\ UNCHANGED fs_cwd => UNCHANGED CwdPath
      BY <2>1, NothingHere
    <2> QED
      BY <1>12, <2>2
  <1>13. CASE d \in Below(fs_root)
    <2>1. PICK y \in P : y.node = d
      BY <1>3, <1>13
    <2>2. PICK z : z = Down(y, n, mm)
      OBVIOUS
    <2>3. Grown(P, Q, z)
      <3>1. M[y.node] = L[y.node] \cup {n}
        BY <1>8, <2>1
      <3>2. \A x \in HeapAddr \ {y.node} : M[x] = L[x] \ {n}
        BY <1>8, <2>1
      <3>3. \A x \in P : x.node # n
        BY <1>11
      <3>4. \A c \in HeapAddr \ {n} : mm[c] = nm[c]
        BY <1>9
      <3>5. Grown(P, Q, Down(y, n, mm))
        BY <1>3, <1>4, <1>6, <3>1, <3>2, <3>3, <3>4, Gained
      <3> QED
        BY <2>2, <3>5
    <2>4. z.node = n /\ z.path = Append(y.path, nn)
      BY <1>9, <2>2 DEF Down
    <2>5. Q = P \cup {z}
      BY <1>4, <1>8, <2>3, <2>4, GrownByLeaf
    <2>6. \A x \in P : F[x.node] = E[x.node]
      BY <1>10, <1>11
    <2>7. h = FT!With(g, z.path, F[z.node]) /\ z.path \notin DOMAIN g
      BY <1>3, <1>4, <2>3, <2>5, <2>6, LeafShows
    <2>8. z.path \in FT!Vacancies(g)
      <3>1. E[y.node].is_dir /\ Append(y.path, nn) \notin DOMAIN g
        BY <1>10, <2>1, <2>4, <2>7
      <3>2. Append(y.path, nn) \in FT!Vacancies(g)
        BY <1>3, <3>1, VacancyAt
      <3> QED
        BY <2>4, <3>2
    <2>9. FT!live = g /\ LiveTree' = h
      BY <1>1, <1>2 DEF OnlyLive, Before, After
    <2>10. FT!LiveBecomes({FT!With(FT!live, z.path, F[z.node])})
      BY <2>7, <2>9, BecomesAfter
    <2>11. Put(F[n])
      BY <2>4, <2>8, <2>9, <2>10 DEF Put
    <2>12. At(Q, fs_cwd) = At(P, fs_cwd)
      <3>1. fs_cwd # n
        BY <1>6 DEF TypeOK
      <3> QED
        BY <2>4, <2>5, <3>1 DEF At
    <2> QED
      BY <1>3, <1>4, <1>10, <1>13, <2>11, <2>12
  <1> QED
    BY <1>12, <1>13

\* What the nodes are stays as it is.
LEMMA SameEntries ==
    ASSUME UNCHANGED <<is_dir, data>>
    PROVE  Entries' = Entries
  BY DEF Entries

LEMMA EntryAt ==
    ASSUME IInv, NEW z \in Descents(fs_root)
    PROVE  /\ z.path \in DOMAIN LiveTree
           /\ LiveTree[z.path] = Entries[z.node]
           /\ z.node \in HeapAddr /\ z.node \in nodes
           /\ Entries[z.node].is_dir = is_dir[z.node]
           /\ Entries[z.node].len = Legible(data[z.node], TRUE)
           /\ z.node # fs_root => z.path # <<>>
           /\ z.path \in Seq(FsName)
  <1>1. LiveShown
    BY LiveIs
  <1>2. z.path \in DOMAIN LiveTree /\ LiveTree[z.path] = Entries[z.node]
    BY <1>1 DEF LiveShown, Shows
  <1>3. z.node \in HeapAddr /\ z.path \in Seq(FsName) /\ (z.node # fs_root => z.path # <<>>)
    <2>1. Tree(Descents(fs_root), Lists, name, fs_root)
      BY <1>1 DEF LiveShown
    <2>2. z \in Place
      BY <2>1 DEF Tree
    <2>3. z.node # fs_root => z.path # <<>>
      BY <2>1, InnerPath
    <2> QED
      BY <2>2, <2>3, PlaceFacts
  <1>4. z.node \in nodes
    <2>1. z.node \in Below(fs_root)
      BY DEF Below
    <2> QED
      BY <2>1, BelowListed DEF IInv, Roots
  <1>5. Entries[z.node] = [is_dir |-> is_dir[z.node], len |-> Legible(data[z.node], TRUE)]
    BY <1>3 DEF Entries
  <1> QED
    BY <1>2, <1>3, <1>4, <1>5

LEMMA CutWhere ==
    ASSUME NEW P, NEW L, NEW nm, NEW r, Tree(P, L, nm, r),
           NEW Q, NEW M, NEW mm, Tree(Q, M, mm, r),
           NEW z \in P, z.path # <<>>, Lacks(P, L, M, z),
           \A c \in HeapAddr \ {z.node} : mm[c] = nm[c]
    PROVE  Q = Off(P, z.path)
  <1>1. Lacks(P \cap Q, L, M, z)
    BY DEF Lacks
  <1> QED
    BY <1>1, TreeCut

\* What is listed no more leaves the tree with all that is below it.
LEMMA CutAway ==
    ASSUME IInv, IInv', OnlyLive, UNCHANGED <<fs_root, fs_cwd, is_dir, data>>,
           NEW z \in Descents(fs_root), z.node # fs_root,
           Lacks(Descents(fs_root), Lists, Lists', z),
           \A c \in HeapAddr \ {z.node} : name'[c] = name[c]
    PROVE  /\ FT!LiveBecomes({FT!Without(FT!live, FT!Under(FT!live, z.path))})
           /\ CwdPath' = CwdPath \ FT!Under(FT!live, z.path)
           /\ z.path \in FT!Inner(FT!live)
  <1>1. PICK P, L, nm, E, g : Before(P, L, nm, E, g)
    BY BeforeExists
  <1>2. PICK Q, M, mm, F, h : After(Q, M, mm, F, h)
    BY AfterExists
  <1> PICK r : r = fs_root
    OBVIOUS
  <1>3. Tree(P, L, nm, r) /\ Shows(g, P, E) /\ CwdPath = At(P, fs_cwd)
    BY <1>1, BeforeFacts
  <1>4. Tree(Q, M, mm, r) /\ Shows(h, Q, F) /\ CwdPath' = At(Q, fs_cwd)
    BY <1>2, AfterFacts
  <1>5. F = E
    BY <1>1, <1>2, SameEntries DEF Before, After
  <1>6. z \in P /\ z.path # <<>> /\ z.path \in DOMAIN g
    BY <1>1, EntryAt DEF Before
  <1>7. Lacks(P, L, M, z) /\ \A c \in HeapAddr \ {z.node} : mm[c] = nm[c]
    BY <1>1, <1>2 DEF Before, After
  <1>8. Q = Off(P, z.path)
    BY <1>3, <1>4, <1>6, <1>7, CutWhere
  <1>9. /\ h = FT!Without(g, FT!Under(g, z.path))
        /\ \A n : At(Q, n) = At(P, n) \ FT!Under(g, z.path)
    BY <1>3, <1>4, <1>5, <1>8, CutShows
  <1>10. FT!live = g /\ LiveTree' = h
    BY <1>1, <1>2 DEF OnlyLive, Before, After
  <1>11. FT!LiveBecomes({FT!Without(FT!live, FT!Under(FT!live, z.path))})
    BY <1>9, <1>10, BecomesAfter
  <1> QED
    BY <1>3, <1>4, <1>6, <1>9, <1>10, <1>11 DEF FT!Inner

\* What is listed elsewhere moves with all that is below it.
LEMMA MovedAway ==
    ASSUME IInv, IInv', OnlyLive, UNCHANGED <<fs_root, fs_cwd, is_dir, data>>,
           NEW z \in Descents(fs_root), z.node # fs_root,
           NEW y \in Descents(fs_root), ~IsPrefix(z.path, y.path), is_dir[y.node],
           Lists'[y.node] = Lists[y.node] \cup {z.node},
           \A d \in HeapAddr \ {y.node} : Lists'[d] = Lists[d] \ {z.node},
           \A c \in HeapAddr \ {z.node} : name'[c] = name[c],
           NEW nn \in Name, name'[z.node] = nn, \A c \in Lists[y.node] : name[c] # nn
    PROVE  \E q \in FT!Inner(FT!live), a \in FT!Vacancies(FT!live) :
              /\ ~IsPrefix(q, a)
              /\ FT!LiveBecomes({FT!MovedTree(FT!live, q, a)})
              /\ CwdPath' = {FT!MovedPath(c, q, a) : c \in CwdPath}
  <1>1. PICK P, L, nm, E, g : Before(P, L, nm, E, g)
    BY BeforeExists
  <1>2. PICK Q, M, mm, F, h : After(Q, M, mm, F, h)
    BY AfterExists
  <1> PICK r : r = fs_root
    OBVIOUS
  <1>3. Tree(P, L, nm, r) /\ Shows(g, P, E) /\ CwdPath = At(P, fs_cwd)
        /\ \A x, w \in P : x.node = w.node => x = w
    BY <1>1, BeforeFacts
  <1>4. Tree(Q, M, mm, r) /\ Shows(h, Q, F) /\ CwdPath' = At(Q, fs_cwd) /\ OnePath(Q)
    BY <1>2, AfterFacts
  <1>5. F = E
    BY <1>1, <1>2, SameEntries DEF Before, After
  <1>6. /\ z \in P /\ z.path # <<>> /\ z.path \in DOMAIN g /\ z.path \in Seq(FsName)
        /\ y \in P /\ y.path \in Seq(FsName) /\ E[y.node].is_dir
    BY <1>1, EntryAt DEF Before
  <1>7. /\ M[y.node] = L[y.node] \cup {z.node}
        /\ \A d \in HeapAddr \ {y.node} : M[d] = L[d] \ {z.node}
        /\ \A c \in HeapAddr \ {z.node} : mm[c] = nm[c]
        /\ mm[z.node] = nn /\ \A c \in L[y.node] : nm[c] # nn
        /\ nn \in FsName
    BY <1>1, <1>2 DEF Before, After, FsName
  <1>8. Q = {Moved(x, z.path, Append(y.path, mm[z.node])) : x \in P}
    BY <1>3, <1>4, <1>6, <1>7, TreeMoved
  <1> PICK q : q = z.path
    OBVIOUS
  <1> PICK a : a = Append(y.path, nn)
    OBVIOUS
  <1>9. MoveShown(P, Q, g, h, q, a)
    <2>1. Q = MovedAll(P, q, a)
      BY <1>7, <1>8 DEF MovedAll
    <2>2. \A x \in P : F[x.node] = E[x.node]
      BY <1>5
    <2> QED
      BY <1>3, <1>4, <2>1, <2>2, MoveShows
  <1>10. FT!live = g /\ LiveTree' = h
    BY <1>1, <1>2 DEF OnlyLive, Before, After
  <1>11. FT!LiveBecomes({FT!MovedTree(FT!live, q, a)})
    BY <1>9, <1>10, BecomesAfter DEF MoveShown
  <1>12. \A x \in P : x.path # a
    BY <1>3, <1>6, <1>7, VacantPath
  <1>13. a \notin DOMAIN g
    BY <1>3, <1>12 DEF Shows
  <1>14. a \in FT!Vacancies(g)
    <2>1. nn \in Name \cup RawName /\ Append(y.path, nn) \notin DOMAIN g
      BY <1>13
    <2> QED
      BY <1>3, <1>6, <2>1, VacancyAt
  <1>15. ~IsPrefix(q, a)
    <2>1. q # a
      BY <1>6, <1>13
    <2> QED
      BY <1>6, <1>7, <2>1, PrefixOfAppend
  <1>16. q \in FT!Inner(g)
    BY <1>6 DEF FT!Inner
  <1>17. q \in FT!Inner(FT!live) /\ a \in FT!Vacancies(FT!live)
    BY <1>10, <1>14, <1>16
  <1>18. CwdPath' = {FT!MovedPath(c, q, a) : c \in CwdPath}
    BY <1>3, <1>4, <1>9 DEF MoveShown
  <1> QED
    BY <1>11, <1>15, <1>17, <1>18

\* What was out of the tree is listed in it, with all that is below it.
LEMMA GainedBack ==
    ASSUME IInv, IInv', OnlyLive, UNCHANGED <<fs_root, fs_cwd, is_dir, data>>, ~InTree,
           NEW n \in HeapAddr, n \notin Below(fs_root),
           NEW y \in Descents(fs_root), is_dir[y.node],
           Lists'[y.node] = Lists[y.node] \cup {n},
           \A d \in HeapAddr \ {y.node} : Lists'[d] = Lists[d] \ {n},
           \A c \in HeapAddr \ {n} : name'[c] = name[c],
           NEW nn \in Name, name'[n] = nn
    PROVE  \E q \in FT!Vacancies(FT!live) \cap DOMAIN FT!live' :
              /\ FT!LiveBecomes({FT!live'})
              /\ FT!live = FT!Without(FT!live', FT!Under(FT!live', q))
              /\ CwdPath' \in {{}} \cup {{d} : d \in FT!Dirs(FT!live') \cap FT!Under(FT!live', q)}
  <1>1. PICK P, L, nm, E, g : Before(P, L, nm, E, g)
    BY BeforeExists
  <1>2. PICK Q, M, mm, F, h : After(Q, M, mm, F, h)
    BY AfterExists
  <1> PICK r : r = fs_root
    OBVIOUS
  <1>3. Tree(P, L, nm, r) /\ Shows(g, P, E) /\ Below(fs_root) = {x.node : x \in P}
    BY <1>1, BeforeFacts
  <1>4. Tree(Q, M, mm, r) /\ Shows(h, Q, F) /\ CwdPath' = At(Q, fs_cwd)
        /\ \A x, w \in Q : x.node = w.node => x = w
    BY <1>2, AfterFacts
  <1>5. F = E
    BY <1>1, <1>2, SameEntries DEF Before, After
  <1>6. y \in P /\ y.path \in Seq(FsName) /\ E[y.node].is_dir
    BY <1>1, EntryAt DEF Before
  <1>7. /\ M[y.node] = L[y.node] \cup {n}
        /\ \A d \in HeapAddr \ {y.node} : M[d] = L[d] \ {n}
        /\ \A c \in HeapAddr \ {n} : mm[c] = nm[c]
        /\ mm[n] = nn
        /\ \A x \in P : x.node # n
    BY <1>1, <1>2, <1>3 DEF Before, After
  <1>8. Grown(P, Q, Down(y, n, mm))
    BY <1>3, <1>4, <1>6, <1>7, Gained
  <1>9. PICK z : z = Down(y, n, mm)
    OBVIOUS
  <1> PICK q : q = z.path
    OBVIOUS
  <1>10. Grown(P, Q, z) /\ q = Append(y.path, nn)
    BY <1>7, <1>8, <1>9 DEF Down
  <1>11. g = FT!Without(h, FT!Under(h, q)) /\ q \notin DOMAIN g /\ q \in DOMAIN h
    <2>1. \A x \in P : F[x.node] = E[x.node]
      BY <1>5
    <2>2. Shows(g, P, E) /\ Shows(h, Q, F) /\ Grown(P, Q, z)
      BY <1>3, <1>4, <1>10
    <2>3. /\ g = FT!Without(h, FT!Under(h, z.path))
          /\ z.path \notin DOMAIN g /\ z.path \in DOMAIN h
      BY <2>1, <2>2, GainShows
    <2> QED
      BY <2>3
  <1>12. FT!live = g /\ FT!live' = h /\ LiveTree' = h
    BY <1>1, <1>2 DEF OnlyLive, Before, After
  <1>13. FT!LiveBecomes({h})
    BY <1>12, BecomesAfter
  <1>14. q \in FT!Vacancies(g)
    <2>1. nn \in Name \cup RawName /\ Append(y.path, nn) \notin DOMAIN g
      BY <1>10, <1>11
    <2> QED
      BY <1>3, <1>6, <1>10, <2>1, VacancyAt
  <1>15. ASSUME NEW x \in Q, x.node = fs_cwd
         PROVE  x.path \in FT!Dirs(h) \cap FT!Under(h, q) /\ At(Q, fs_cwd) = {x.path}
    <2>1. x \notin P
      BY <1>3, <1>15 DEF InTree
    <2>2. IsPrefix(q, x.path)
      BY <1>10, <2>1 DEF Grown, Off
    <2>3. x.path \in DOMAIN h /\ h[x.path] = F[fs_cwd]
      BY <1>4, <1>15 DEF Shows
    <2>4. F[fs_cwd].is_dir
      <3>1. fs_cwd \in HeapAddr /\ is_dir[fs_cwd]
        BY DEF IInv, TypeOK, Links, DirsAreDirs
      <3> QED
        BY <1>1, <1>5, <3>1 DEF Before, Entries
    <2>5. x.path \in FT!Dirs(h)
      BY <2>3, <2>4 DEF FT!Dirs
    <2>6. x.path \in FT!Under(h, q)
      BY <2>2, <2>3, SameOperators DEF FT!Under
    <2>7. At(Q, fs_cwd) = {x.path}
      BY <1>4, <1>15 DEF At
    <2> QED
      BY <2>5, <2>6, <2>7
  <1>16. CwdPath' \in {{}} \cup {{d} : d \in FT!Dirs(h) \cap FT!Under(h, q)}
    <2>1. CASE At(Q, fs_cwd) = {}
      BY <1>4, <2>1
    <2>2. CASE At(Q, fs_cwd) # {}
      <3>1. PICK x \in Q : x.node = fs_cwd
        BY <2>2 DEF At
      <3> QED
        BY <1>4, <1>15, <3>1
    <2> QED
      BY <2>1, <2>2
  <1> QED
    BY <1>11, <1>12, <1>13, <1>14, <1>16

-----------------------------------------------------------------------------
(* What the calls do to the trees *)

\* A result without a text.
Answer(r) == ret' = r /\ out' = NoText

LEMMA AnswerIs == \A r : Answer(r) => ret' = r /\ Legible(out, FALSE)' = 0
  BY DEF Answer, Legible

\* What a node of the tree is listed by is in the tree.
LEMMA ListedBelow ==
    ASSUME IInv, NEW d \in HeapAddr, NEW n \in Listed(d), n \in Below(fs_root)
    PROVE  d \in Below(fs_root)
  <1>1. PICK P, L, nm, E, g : Before(P, L, nm, E, g)
    BY BeforeExists
  <1>2. Tree(P, L, nm, fs_root) /\ Below(fs_root) = {x.node : x \in P}
    BY <1>1, BeforeFacts
  <1>3. PICK z \in P : z.node = n
    BY <1>2
  <1>4. n # fs_root
    BY DEF IInv, Links, RootsUnlisted
  <1>5. PICK y \in P : \E c \in L[y.node] : z = Down(y, c, nm)
    <2>1. z # Top(fs_root)
      BY <1>3, <1>4 DEF Top
    <2> QED
      BY <1>2, <2>1, LastStep
  <1>6. y.node \in HeapAddr /\ n \in L[y.node]
    <2>1. PICK c \in L[y.node] : z = Down(y, c, nm)
      BY <1>5
    <2>2. c = n
      BY <1>3, <2>1 DEF Down
    <2>3. y.node \in HeapAddr
      BY <1>2, PlaceFacts DEF Tree
    <2> QED
      BY <2>1, <2>2, <2>3
  <1>7. n \in Listed(y.node)
    BY <1>1, <1>6 DEF Before, Lists
  <1>8. y.node = d
    BY <1>6, <1>7 DEF IInv, Links, WellLinked
  <1> QED
    BY <1>2, <1>8

\* A node without children that is listed no more: the path is gone.
LEMMA DropShows ==
    ASSUME IInv, IInv', OnlyLive, NEW n \in nodes, n # fs_root, Listed(n) = {}, Drop(n)
    PROVE  /\ n \in Below(fs_root) => FT!Unlink
           /\ n \notin Below(fs_root) => UNCHANGED <<CwdPath, LiveName, Trees>>
  <1>0. /\ Answer(Ok) /\ UNCHANGED <<fs_root, fs_cwd, is_dir, data, name>>
        /\ \A x \in HeapAddr : Lists'[x] = Lists[x] \ {n}
    <2>1. kids' = Detached(n)
      BY DEF Drop
    <2>2. \A x \in HeapAddr : Listed(x)' = Listed(x) \ {n}
      BY <2>1, DetachedFacts DEF Listed
    <2> QED
      BY <2>2 DEF Drop, Answer, Lists
  <1>1. CASE n \in Below(fs_root)
    <2>1. PICK z \in Descents(fs_root) : z.node = n
      BY <1>1 DEF Below
    <2>2. Lacks(Descents(fs_root), Lists, Lists', z)
      BY <1>0, <2>1, EntryAt DEF Lacks
    <2>3. \A c \in HeapAddr \ {z.node} : name'[c] = name[c]
      BY <1>0
    <2>4. /\ FT!LiveBecomes({FT!Without(FT!live, FT!Under(FT!live, z.path))})
          /\ CwdPath' = CwdPath \ FT!Under(FT!live, z.path)
          /\ z.path \in FT!Inner(FT!live)
      BY <1>0, <2>1, <2>2, <2>3, CutAway
    <2>5. FT!Under(FT!live, z.path) = {z.path}
      <3>1. FT!live = LiveTree
        BY DEF OnlyLive
      <3>2. Tree(Descents(fs_root), Lists, name, fs_root) /\ Lists[z.node] = {}
        BY <2>1, LiveIs, EntryAt DEF LiveShown, Lists
      <3>3. \A x \in Descents(fs_root) : IsPrefix(z.path, x.path) => x = z
        BY <3>2, UnderLeaf
      <3>4. DOMAIN LiveTree = {x.path : x \in Descents(fs_root)}
        BY LiveIs DEF LiveShown, Shows
      <3>5. IsPrefix(z.path, z.path)
        BY EntryAt, PrefixOfSelf
      <3>6. \A p \in DOMAIN LiveTree : IsPrefix(z.path, p) <=> p = z.path
        BY <3>3, <3>4, <3>5
      <3> QED
        BY <3>1, <3>4, <3>6, SameOperators DEF FT!Under
    <2>6. ret' = Ok /\ Legible(out, FALSE)' = 0
      BY <1>0, AnswerIs
    <2> QED
      BY <1>1, <2>4, <2>5, <2>6 DEF FT!Unlink, FT!Succeed
  <1>2. CASE n \notin Below(fs_root)
    <2>1. ASSUME NEW m \in Below(fs_root)
          PROVE  /\ Lists'[m] = Lists[m]
                 /\ \A c \in Lists[m] : name'[c] = name[c]
                 /\ Entries'[m] = Entries[m]
      <3>1. m \in HeapAddr /\ n \notin Listed(m)
        BY <1>2, RootBelow
      <3>2. Lists[m] = Listed(m)
        BY <3>1 DEF Lists
      <3> QED
        BY <1>0, <3>1, <3>2, SameEntries
    <2>2. /\ UNCHANGED <<LiveName, Trees>>
          /\ UNCHANGED fs_cwd => UNCHANGED CwdPath
      BY <1>0, <2>1, NothingHere
    <2> QED
      BY <1>0, <1>2, <2>2
  <1> QED
    BY <1>1, <1>2

LEMMA WrittenLen ==
    ASSUME NEW len \in TextLen
    PROVE  Legible(Crypt(Plain(len)), TRUE) = len
  BY FsAssumption DEF Legible, Crypt, Plain, NoText

LEMMA OverwriteIs ==
    ASSUME OnlyLive, FT!Succeed, UNCHANGED CwdPath, NEW len \in TextLen, NEW q,
           q \in FT!Inner(FT!live), q \notin FT!Dirs(FT!live), FT!Front(q) \in CwdPath,
           LiveTree' = FT!With(FT!live, q, FT!File(len))
    PROVE  FT!Overwrite
  <1>1. FT!live' = FT!With(FT!live, q, FT!File(len))
    BY DEF OnlyLive
  <1>2. /\ UNCHANGED LiveName
        /\ DOMAIN Trees' = DOMAIN Trees
        /\ \A s \in DOMAIN Trees \ {LiveName} : Trees'[s] = Trees[s]
    BY DEF OnlyLive
  <1> QED
    BY <1>1, <1>2 DEF FT!Overwrite, FT!LiveBecomes

\* A file of the current directory gets another text.
LEMMA OverwriteShows ==
    ASSUME IInv, IInv', OnlyLive, UNCHANGED <<fs_root, fs_cwd, nodes, name, is_dir, kids>>,
           NEW n \in Listed(fs_cwd), ~is_dir[n], NEW len \in TextLen,
           data' = [data EXCEPT ![n] = Crypt(Plain(len))], Answer(Ok)
    PROVE  /\ InTree => FT!Overwrite
           /\ ~InTree => UNCHANGED <<CwdPath, LiveName, Trees>>
  <1>0. /\ fs_cwd \in HeapAddr /\ n \in HeapAddr /\ n # fs_root
        /\ data \in [HeapAddr -> Content \cup {NoText}] /\ is_dir \in [HeapAddr -> BOOLEAN]
    BY DEF IInv, TypeOK, Links, WellLinked, RootsUnlisted
  <1>1. Lists' = Lists
    BY DEF Lists, Listed
  <1>2. /\ \A m \in HeapAddr \ {n} : Entries'[m] = Entries[m]
        /\ Entries'[n] = [is_dir |-> FALSE, len |-> len]
    <2>1. /\ data'[n] = Crypt(Plain(len))
          /\ \A m \in HeapAddr \ {n} : data'[m] = data[m]
      BY <1>0
    <2>2. \A m \in HeapAddr : Entries'[m] = [is_dir |-> is_dir'[m], len |-> Legible(data'[m], TRUE)]
      BY DEF Entries, Legible
    <2>3. \A m \in HeapAddr : Entries[m] = [is_dir |-> is_dir[m], len |-> Legible(data[m], TRUE)]
      BY DEF Entries
    <2>4. Legible(data'[n], TRUE) = len
      BY <2>1, WrittenLen
    <2>5. /\ Entries'[n] = [is_dir |-> is_dir'[n], len |-> Legible(data'[n], TRUE)]
          /\ is_dir'[n] = FALSE
      BY <1>0, <2>2
    <2>6. Entries'[n] = [is_dir |-> FALSE, len |-> len]
      BY <2>4, <2>5
    <2>7. ASSUME NEW m \in HeapAddr \ {n} PROVE Entries'[m] = Entries[m]
      <3>1. is_dir'[m] = is_dir[m] /\ data'[m] = data[m] /\ m \in HeapAddr
        BY <2>1
      <3>2. Entries'[m] = [is_dir |-> is_dir'[m], len |-> Legible(data'[m], TRUE)]
        BY <2>2, <3>1
      <3>3. Entries[m] = [is_dir |-> is_dir[m], len |-> Legible(data[m], TRUE)]
        BY <2>3, <3>1
      <3> QED
        BY <3>1, <3>2, <3>3
    <2> QED
      BY <2>6, <2>7
  <1>3. CASE ~InTree
    <2>1. n \notin Below(fs_root)
      BY <1>0, <1>3, ListedBelow DEF InTree
    <2>2. ASSUME NEW m \in Below(fs_root)
          PROVE  /\ Lists'[m] = Lists[m]
                 /\ \A c \in Lists[m] : name'[c] = name[c]
                 /\ Entries'[m] = Entries[m]
      <3>1. m \in HeapAddr /\ m # n
        BY <2>1, RootBelow
      <3> QED
        BY <1>1, <1>2, <3>1
    <2>3. /\ UNCHANGED <<LiveName, Trees>>
          /\ UNCHANGED fs_cwd => UNCHANGED CwdPath
      BY <2>2, NothingHere
    <2> QED
      BY <1>3, <2>3
  <1>4. CASE InTree
    <2>1. PICK P, L, nm, E, g : Before(P, L, nm, E, g)
      BY BeforeExists
    <2>2. PICK Q, M, mm, F, h : After(Q, M, mm, F, h)
      BY AfterExists
    <2> PICK r : r = fs_root
      OBVIOUS
    <2>3. /\ Tree(P, L, nm, r) /\ Shows(g, P, E) /\ CwdPath = At(P, fs_cwd)
          /\ Below(fs_root) = {x.node : x \in P}
          /\ OnePath(P) /\ \A x, w \in P : x.node = w.node => x = w
      BY <2>1, BeforeFacts
    <2>4. Tree(Q, M, mm, r) /\ Shows(h, Q, F) /\ CwdPath' = At(Q, fs_cwd)
      BY <2>2, AfterFacts
    <2>5. PICK y \in P : y.node = fs_cwd
      BY <1>4, <2>3 DEF InTree
    <2>6. PICK z : z = Down(y, n, nm)
      OBVIOUS
    <2>7. /\ z \in P /\ z.node = n /\ z.path = Append(y.path, nm[n])
          /\ y.path \in Seq(FsName) /\ nm[n] \in FsName
      <3>1. n \in L[y.node]
        BY <1>0, <2>1, <2>5 DEF Before, Lists
      <3> QED
        BY <2>3, <2>6, <3>1, DownFacts
    <2>8. Q = P
      <3>1. M = L /\ mm = nm
        BY <1>1, <2>1, <2>2 DEF Before, After
      <3>2. \A x \in P : M[x.node] = L[x.node] /\ \A c \in L[x.node] : mm[c] = nm[c]
        BY <3>1
      <3> QED
        BY <2>3, <2>4, <3>2, TreeSame
    <2>9. /\ \A x \in P \ {z} : F[x.node] = E[x.node]
          /\ F[z.node] = FT!File(len) /\ ~E[n].is_dir
      <3>1. \A x \in P \ {z} : x.node \in HeapAddr /\ x.node # n
        BY <2>3, <2>7, PlaceFacts DEF Tree
      <3>2. E[n].is_dir = is_dir[n]
        BY <1>0, <2>1 DEF Before, Entries
      <3> QED
        BY <1>2, <2>1, <2>2, <2>7, <3>1, <3>2 DEF Before, After, FT!File
    <2>10. h = FT!With(g, z.path, F[z.node])
      <3>1. P \cup {z} = P
        BY <2>7
      <3>2. OnePath(P \cup {z})
        BY <2>3, <3>1
      <3>3. Shows(FT!With(g, z.path, F[z.node]), P \cup {z}, F)
        BY <2>3, <2>9, <3>2, WithShows
      <3>4. Shows(FT!With(g, z.path, F[z.node]), P, F)
        BY <3>1, <3>3
      <3>5. Shows(h, P, F)
        BY <2>4, <2>8
      <3> QED
        BY <3>4, <3>5, ShowsOnce
    <2>11. FT!live = g /\ LiveTree' = h
      BY <2>1, <2>2 DEF OnlyLive, Before, After
    <2>12. z.path \in FT!Inner(FT!live) /\ z.path \notin FT!Dirs(FT!live) /\ FT!Front(z.path) \in CwdPath
      <3>1. z.path \in DOMAIN g /\ g[z.path] = E[n]
        BY <2>3, <2>7 DEF Shows
      <3>2. z.path # <<>> /\ Front(z.path) = y.path
        <4>1. z.path # <<>>
          BY <2>7, PrefixOfAppend
        <4> QED
          BY <2>7, <4>1, FrontOfAppend
      <3>3. y.path \in CwdPath
        BY <2>3, <2>5 DEF At
      <3> QED
        BY <2>9, <2>11, <3>1, <3>2, <3>3, SameOperators DEF FT!Inner, FT!Dirs
    <2>16. CwdPath' = CwdPath
      BY <2>3, <2>4, <2>8
    <2>17. ret' = Ok /\ Legible(out, FALSE)' = 0
      BY AnswerIs
    <2>18. FT!Succeed
      BY <2>17 DEF FT!Succeed
    <2>19. FT!Overwrite
      BY <2>9, <2>10, <2>11, <2>12, <2>16, <2>18, OverwriteIs
    <2> QED
      BY <1>4, <2>19
  <1> QED
    BY <1>3, <1>4

\* Where a renamed node is listed afterwards.
Relinked(n, d, nn) ==
    /\ UNCHANGED <<fs_root, fs_cwd, is_dir, data>> /\ Answer(Ok)
    /\ Lists'[d] = Lists[d] \cup {n}
    /\ \A x \in HeapAddr \ {d} : Lists'[x] = Lists[x] \ {n}
    /\ \A c \in HeapAddr \ {n} : name'[c] = name[c]
    /\ name'[n] = nn

LEMMA RelinkLists ==
    ASSUME IInv, NEW n \in nodes, NEW d \in nodes, NEW nn, Relink(n, d, nn)
    PROVE  Relinked(n, d, nn)
  <1>1. PICK rest : rest = Detached(n)
    OBVIOUS
  <1>2. /\ rest \in [HeapAddr -> Seq(HeapAddr)]
        /\ \A x \in HeapAddr : ToSet(rest[x]) = Listed(x) \ {n}
    BY <1>1, DetachedFacts
  <1>3. /\ kids' = [rest EXCEPT ![d] = <<n>> \o rest[d]]
        /\ name' = [name EXCEPT ![n] = nn]
        /\ UNCHANGED <<fs_root, fs_cwd, is_dir, data>> /\ Answer(Ok)
    BY <1>1 DEF Relink, Answer
  <1>4. /\ n \in HeapAddr /\ d \in HeapAddr /\ rest[d] \in Seq(HeapAddr)
        /\ name \in [HeapAddr -> FsName]
    BY <1>2 DEF IInv, TypeOK, FsName
  <1>5. ToSet(<<n>> \o rest[d]) = ToSet(rest[d]) \cup {n}
    BY <1>4, HeadInsertion
  <1>6. /\ kids'[d] = <<n>> \o rest[d]
        /\ \A x \in HeapAddr \ {d} : kids'[x] = rest[x]
    BY <1>2, <1>3, <1>4
  <1>7. /\ \A x \in HeapAddr : Lists'[x] = ToSet(kids'[x])
        /\ \A x \in HeapAddr : Lists[x] = Listed(x)
    BY DEF Lists, Listed
  <1>8. Lists'[d] = Lists[d] \cup {n}
    <2>1. Lists'[d] = ToSet(rest[d]) \cup {n}
      BY <1>4, <1>5, <1>6, <1>7
    <2>2. ToSet(rest[d]) = Lists[d] \ {n}
      BY <1>2, <1>4, <1>7
    <2> QED
      BY <2>1, <2>2
  <1>9. \A x \in HeapAddr \ {d} : Lists'[x] = Lists[x] \ {n}
    BY <1>2, <1>6, <1>7
  <1>10. (\A c \in HeapAddr \ {n} : name'[c] = name[c]) /\ name'[n] = nn
    BY <1>3, <1>4
  <1> QED
    BY <1>3, <1>8, <1>9, <1>10 DEF Relinked

\* It is listed below itself, or out of the tree: what was below it is gone.
LEMMA RelinkLoses ==
    ASSUME IInv, IInv', OnlyLive, NEW n \in nodes, n # fs_root, n \in Below(fs_root),
           NEW d \in nodes, is_dir[d], NEW nn, Relinked(n, d, nn),
           \/ d \notin Below(fs_root) /\ CwdPath = {}
           \/ \E z, y \in Descents(fs_root) :
                 z.node = n /\ y.node = d /\ IsPrefix(z.path, y.path)
    PROVE  FT!Lose
  <1>1. PICK z \in Descents(fs_root) : z.node = n
    BY DEF Below
  <1>2. /\ Tree(Descents(fs_root), Lists, name, fs_root)
        /\ Shows(LiveTree, Descents(fs_root), Entries) /\ FT!live = LiveTree
    BY LiveIs DEF LiveShown, OnlyLive
  <1>3. \A x, w \in Descents(fs_root) : x.node = w.node => x = w
    BY <1>2, NodeOnce
  <1>4. Lacks(Descents(fs_root), Lists, Lists', z)
    <2>1. ASSUME NEW x \in Descents(fs_root), ~IsPrefix(z.path, x.path) PROVE x.node # d
      <3>1. CASE d \notin Below(fs_root)
        BY <3>1 DEF Below
      <3>2. ASSUME NEW w \in Descents(fs_root), NEW y \in Descents(fs_root),
                   w.node = n, y.node = d, IsPrefix(w.path, y.path)
            PROVE  x.node # d
        BY <1>1, <1>3, <2>1, <3>2
      <3> QED
        BY <3>1, <3>2
    <2>2. \A x \in Descents(fs_root) : x.node \in HeapAddr
      BY EntryAt
    <2> QED
      BY <1>1, <2>1, <2>2 DEF Lacks, Relinked
  <1>5. /\ FT!LiveBecomes({FT!Without(FT!live, FT!Under(FT!live, z.path))})
        /\ CwdPath' = CwdPath \ FT!Under(FT!live, z.path)
        /\ z.path \in FT!Inner(FT!live)
    <2>1. UNCHANGED <<fs_root, fs_cwd, is_dir, data>>
          /\ \A c \in HeapAddr \ {z.node} : name'[c] = name[c]
      BY <1>1 DEF Relinked
    <2> QED
      BY <1>1, <1>4, <2>1, CutAway
  <1>6. CwdPath = {} \/ FT!live[z.path].is_dir
    <2>1. FT!live[z.path].is_dir = is_dir[n]
      BY <1>1, <1>2, EntryAt
    <2>2. ASSUME NEW w \in Descents(fs_root), NEW y \in Descents(fs_root),
                 w.node = n, y.node = d, IsPrefix(w.path, y.path)
          PROVE  is_dir[n]
      <3>1. w = z
        BY <1>1, <1>3, <2>2
      <3>2. y = z \/ Lists[n] # {}
        BY <1>1, <1>2, <2>2, <3>1, UnderLeaf
      <3>3. CASE y = z
        BY <1>1, <2>2, <3>3
      <3>4. CASE Lists[n] # {}
        <4>1. n \in HeapAddr
          BY DEF IInv, TypeOK
        <4>2. PICK k \in Listed(n) : TRUE
          BY <3>4, <4>1 DEF Lists
        <4> QED
          BY <4>1, <4>2 DEF IInv, Links, WellLinked
      <3> QED
        BY <3>2, <3>3, <3>4
    <2> QED
      BY <2>1, <2>2
  <1>7. FT!Succeed
    BY AnswerIs DEF FT!Succeed, Relinked
  <1> QED
    BY <1>5, <1>6, <1>7 DEF FT!Lose

\* A node is renamed.
LEMMA RelinkShows ==
    ASSUME IInv, IInv', OnlyLive, NEW n \in nodes, n # fs_root,
           NEW d \in nodes, is_dir[d], NEW nn \in Name, \A k \in Listed(d) : name[k] # nn,
           Relink(n, d, nn), InTree => n \in Below(fs_root) /\ d \in Below(fs_root)
    PROVE  FT!Move \/ FT!Lose \/ FT!Recover \/ FT!Outside
  <1>1. Relinked(n, d, nn)
    BY RelinkLists
  <1>2. /\ n \in HeapAddr /\ d \in HeapAddr
        /\ UNCHANGED <<fs_root, fs_cwd, is_dir, data>>
        /\ ret' = Ok /\ Legible(out, FALSE)' = 0
        /\ \A c \in HeapAddr \ {n} : name'[c] = name[c]
    BY <1>1, AnswerIs DEF Relinked, IInv, TypeOK
  <1>3. CASE n \in Below(fs_root) /\ d \in Below(fs_root)
    <2>1. PICK z \in Descents(fs_root) : z.node = n
      BY <1>3 DEF Below
    <2>2. PICK y \in Descents(fs_root) : y.node = d
      BY <1>3 DEF Below
    <2>3. CASE IsPrefix(z.path, y.path)
      <3>1. FT!Lose
        BY <1>1, <1>3, <2>1, <2>2, <2>3, RelinkLoses
      <3> QED
        BY <3>1
    <2>4. CASE ~IsPrefix(z.path, y.path)
      <3>1. /\ Lists'[y.node] = Lists[y.node] \cup {z.node}
            /\ \A x \in HeapAddr \ {y.node} : Lists'[x] = Lists[x] \ {z.node}
            /\ \A c \in HeapAddr \ {z.node} : name'[c] = name[c]
            /\ name'[z.node] = nn
        BY <1>1, <2>1, <2>2 DEF Relinked
      <3>2. \A c \in Lists[y.node] : name[c] # nn
        BY <1>2, <2>2 DEF Lists
      <3>3. z.node # fs_root /\ is_dir[y.node]
        BY <2>1, <2>2
      <3>4. \E q \in FT!Inner(FT!live), a \in FT!Vacancies(FT!live) :
              /\ ~IsPrefix(q, a)
              /\ FT!LiveBecomes({FT!MovedTree(FT!live, q, a)})
              /\ CwdPath' = {FT!MovedPath(c, q, a) : c \in CwdPath}
        BY <1>2, <2>4, <3>1, <3>2, <3>3, MovedAway
      <3>5. FT!Move
        BY <1>2, <3>4, SameOperators DEF FT!Move, FT!Succeed
      <3> QED
        BY <3>5
    <2> QED
      BY <2>3, <2>4
  <1>4. CASE n \in Below(fs_root) /\ d \notin Below(fs_root)
    <2>1. CwdPath = {}
      BY <1>4, OutOfTree
    <2>2. FT!Lose
      BY <1>1, <1>4, <2>1, RelinkLoses
    <2> QED
      BY <2>2
  <1>5. CASE n \notin Below(fs_root) /\ d \in Below(fs_root)
    <2>1. PICK y \in Descents(fs_root) : y.node = d
      BY <1>5 DEF Below
    <2>2. /\ Lists'[y.node] = Lists[y.node] \cup {n}
          /\ \A x \in HeapAddr \ {y.node} : Lists'[x] = Lists[x] \ {n}
          /\ name'[n] = nn
      BY <1>1, <2>1 DEF Relinked
    <2>3. ~InTree /\ CwdPath = {} /\ is_dir[y.node]
      BY <1>5, <2>1, OutOfTree
    <2>4. \E q \in FT!Vacancies(FT!live) \cap DOMAIN FT!live' :
              /\ FT!LiveBecomes({FT!live'})
              /\ FT!live = FT!Without(FT!live', FT!Under(FT!live', q))
              /\ CwdPath' \in {{}} \cup {{c} : c \in FT!Dirs(FT!live') \cap FT!Under(FT!live', q)}
      BY <1>2, <1>5, <2>2, <2>3, GainedBack
    <2>5. FT!Recover
      BY <1>2, <2>3, <2>4 DEF FT!Recover
    <2> QED
      BY <2>5
  <1>6. CASE n \notin Below(fs_root) /\ d \notin Below(fs_root)
    <2>1. ASSUME NEW m \in Below(fs_root)
          PROVE  /\ Lists'[m] = Lists[m]
                 /\ \A c \in Lists[m] : name'[c] = name[c]
                 /\ Entries'[m] = Entries[m]
      <3>1. m \in HeapAddr /\ m # d /\ n \notin Listed(m) /\ Listed(m) \subseteq HeapAddr
        <4>1. m \in HeapAddr /\ \A c \in Listed(m) : c \in Below(fs_root) /\ c \in HeapAddr
          BY RootBelow
        <4> QED
          BY <1>6, <4>1
      <3>2. Lists[m] = Listed(m)
        BY <3>1 DEF Lists
      <3>3. Lists'[m] = Lists[m] \ {n}
        BY <1>1, <3>1 DEF Relinked
      <3> QED
        BY <1>2, <3>1, <3>2, <3>3, SameEntries
    <2>2. /\ UNCHANGED <<LiveName, Trees>>
          /\ UNCHANGED fs_cwd => UNCHANGED CwdPath
      BY <1>2, <2>1, NothingHere
    <2>3. CwdPath = {}
      BY <1>6, OutOfTree
    <2>4. FT!Outside
      BY <1>2, <2>2, <2>3 DEF FT!Outside
    <2> QED
      BY <2>4
  <1> QED
    BY <1>3, <1>4, <1>5, <1>6

\* The links and the contents stay as they are: so do the trees.
LEMMA StaysShows ==
    ASSUME IInv, IInv', OnlyLive, UNCHANGED <<fs_root, name, is_dir, data, kids>>
    PROVE  /\ UNCHANGED <<LiveName, Trees>>
           /\ UNCHANGED fs_cwd => UNCHANGED CwdPath
           /\ Descents(fs_root)' = Descents(fs_root)
  <1>1. Lists' = Lists
    BY DEF Lists, Listed
  <1>2. Entries' = Entries
    BY SameEntries
  <1>3. \A n \in Below(fs_root) :
              /\ Lists'[n] = Lists[n]
              /\ \A c \in Lists[n] : name'[c] = name[c]
              /\ Entries'[n] = Entries[n]
    BY <1>1, <1>2
  <1> QED
    BY <1>3, NothingHere

LEMMA FailShows ==
    ASSUME IInv, IInv', OnlyLive, Fail
    PROVE  FT!Refuse
  <1>1. /\ UNCHANGED <<fs_root, fs_cwd, name, is_dir, data, kids>>
        /\ Answer(Error)
    BY DEF Fail, tree, Answer
  <1>2. /\ UNCHANGED <<LiveName, Trees>>
        /\ UNCHANGED fs_cwd => UNCHANGED CwdPath
    BY <1>1, StaysShows
  <1>3. ret' = Error /\ Legible(out, FALSE)' = 0
    BY <1>1, AnswerIs
  <1> QED
    BY <1>1, <1>2, <1>3 DEF FT!Refuse

LEMMA ReadLen ==
    ASSUME NEW text \in Content, text.sealed
    PROVE  /\ Crypt(text).sealed = FALSE /\ Crypt(text).len = text.len /\ Crypt(text) # NoText
           /\ text # NoText /\ text.len \in TextLen /\ text.len \in Nat /\ text.len > 0
           /\ Legible(text, TRUE) = text.len
           /\ Legible(Crypt(text), FALSE) = text.len
  <1>1. /\ text = [len |-> text.len, sealed |-> text.sealed]
        /\ text.len \in TextLen /\ text.sealed = TRUE
    BY DEF Content
  <1>2. text.len \in Nat /\ text.len > 0
    BY <1>1, FsAssumption
  <1>3. Crypt(text).len = text.len /\ Crypt(text).sealed = ~text.sealed
    BY DEF Crypt, Content
  <1>4. Crypt(text).sealed = FALSE /\ Crypt(text).len = text.len
    BY <1>1, <1>3
  <1>5. NoText.len = 0
    BY DEF NoText
  <1>6. text # NoText /\ Crypt(text) # NoText
    BY <1>2, <1>4, <1>5
  <1>7. Legible(text, TRUE) = text.len /\ Legible(Crypt(text), FALSE) = text.len
    BY <1>1, <1>4, <1>6 DEF Legible
  <1> QED
    BY <1>1, <1>2, <1>4, <1>6, <1>7

\* What is read is the text of a file in the tree, unless the path starts
\* outside.
LEMMA ReadShows ==
    ASSUME IInv, IInv', OnlyLive, EncryptedAtRest, NEW p, p.comps \in Seq(FsName), fs_read(p)
    PROVE  FT!Refuse \/ FT!Read \/ FT!Outside
  <1>1. CASE Fail
    BY <1>1, FailShows
  <1>2. CASE /\ Resolve(p) # NULL /\ data[Resolve(p)] # NoText
             /\ out' = Crypt(data[Resolve(p)]) /\ ret' = Ok
             /\ UNCHANGED <<tree, fs_root, fs_cwd, snaps, clone>>
    <2>1. PICK n : n = Resolve(p)
      OBVIOUS
    <2>2. n \in HeapAddr
      BY <1>2, <2>1, ResolveFacts DEF IInv, TypeOK
    <2>3. data[n] \in Content /\ data[n].sealed
      BY <1>2, <2>1, <2>2 DEF IInv, TypeOK, EncryptedAtRest
    <2>4. /\ data[n].len \in TextLen /\ data[n].len > 0 /\ Legible(data[n], TRUE) = data[n].len
          /\ Legible(out, FALSE)' = data[n].len
      <3>1. Legible(out', FALSE) = data[n].len
        BY <1>2, <2>1, <2>3, ReadLen
      <3>2. Legible(out, FALSE)' = Legible(out', FALSE)
        BY DEF Legible
      <3> QED
        BY <2>3, <3>1, <3>2, ReadLen
    <2>5. UNCHANGED <<CwdPath, LiveName, Trees>>
      <3>1. UNCHANGED <<fs_root, fs_cwd, name, is_dir, data, kids>>
        BY <1>2 DEF tree
      <3> QED
        BY <3>1, StaysShows
    <2>6. CASE n \in Below(fs_root)
      <3>1. PICK z \in Descents(fs_root) : z.node = n
        BY <2>6 DEF Below
      <3>2. z.path \in DOMAIN LiveTree /\ LiveTree[z.path].len = data[n].len
        BY <2>4, <3>1, EntryAt
      <3>3. FT!live = LiveTree
        BY DEF OnlyLive
      <3>4. z.path \in FT!Texts(FT!live) /\ FT!live[z.path].len = data[n].len
        BY <2>4, <3>2, <3>3 DEF FT!Texts
      <3>5. Legible(out, FALSE)' \in {FT!live[q].len : q \in FT!Texts(FT!live)}
        BY <2>4, <3>4
      <3>6. FT!Read
        BY <1>2, <2>5, <3>5 DEF FT!Read
      <3> QED
        BY <3>6
    <2>7. CASE n \notin Below(fs_root)
      <3>1. CwdPath = {}
        BY <1>2, <2>1, <2>7, ResolveBelow, OutOfTree
      <3>2. FT!Outside
        BY <1>2, <2>4, <2>5, <3>1 DEF FT!Outside
      <3> QED
        BY <3>2
    <2> QED
      BY <2>6, <2>7
  <1> QED
    BY <1>1, <1>2 DEF fs_read

LEMMA ChdirShows ==
    ASSUME IInv, IInv', OnlyLive, NEW p, p.comps \in Seq(FsName), fs_chdir(p)
    PROVE  FT!Refuse \/ FT!Chdir \/ FT!Outside
  <1>1. CASE Fail
    BY <1>1, FailShows
  <1>2. CASE /\ Resolve(p) # NULL /\ is_dir[Resolve(p)] /\ fs_cwd' = Resolve(p) /\ Answer(Ok)
             /\ UNCHANGED <<tree, fs_root>>
    <2>1. UNCHANGED <<LiveName, Trees>> /\ Descents(fs_root)' = Descents(fs_root)
      <3>1. UNCHANGED <<fs_root, name, is_dir, data, kids>>
        BY <1>2 DEF tree
      <3> QED
        BY <3>1, StaysShows
    <2>2. CwdPath' = At(Descents(fs_root), fs_cwd')
      BY <2>1, CwdIsNext DEF CwdShown, At
    <2>3. ret' = Ok /\ Legible(out, FALSE)' = 0
      BY <1>2, AnswerIs
    <2>4. ASSUME NEW z \in Descents(fs_root), z.node = fs_cwd' PROVE FT!Chdir
      <3>1. \A x \in Descents(fs_root) : x.node = z.node => x = z
        BY LiveIs, NodeOnce DEF LiveShown
      <3>2. CwdPath' = {z.path}
        BY <2>2, <2>4, <3>1 DEF At
      <3>3. z.path \in FT!Dirs(FT!live)
        <4>1. z.path \in DOMAIN LiveTree /\ LiveTree[z.path].is_dir = is_dir[z.node]
          BY EntryAt
        <4>2. is_dir[z.node]
          BY <1>2, <2>4
        <4>3. FT!live = LiveTree
          BY DEF OnlyLive
        <4> QED
          BY <4>1, <4>2, <4>3 DEF FT!Dirs
      <3>4. CwdPath' \in {{d} : d \in FT!Dirs(FT!live)}
        BY <3>2, <3>3
      <3> QED
        BY <2>1, <2>3, <3>4 DEF FT!Chdir, FT!Succeed
    <2>5. CASE fs_cwd' \notin Below(fs_root)
      <3>1. CwdPath = {}
        BY <1>2, <2>5, ResolveBelow, OutOfTree
      <3>2. CwdPath' = {}
        BY <2>2, <2>5 DEF At, Below
      <3>3. FT!Outside
        BY <2>1, <2>3, <3>1, <3>2 DEF FT!Outside
      <3> QED
        BY <3>3
    <2> QED
      BY <2>4, <2>5 DEF Below
  <1> QED
    BY <1>1, <1>2 DEF fs_chdir, Answer

LEMMA MakeIs ==
    ASSUME FT!Succeed, UNCHANGED CwdPath, NEW e,
           e = FT!Dir \/ \E len \in TextLen \cup {0} : e = FT!File(len), Put(e)
    PROVE  FT!Make
  <1>1. PICK q \in FT!Vacancies(FT!live) : FT!LiveBecomes({FT!With(FT!live, q, e)})
    BY DEF Put
  <1>2. FT!live' = FT!With(FT!live, q, e)
    BY <1>1 DEF FT!LiveBecomes
  <1>3. e \in {FT!Dir} \cup {FT!File(len) : len \in TextLen \cup {0}}
    OBVIOUS
  <1>4. /\ UNCHANGED LiveName
        /\ DOMAIN Trees' = DOMAIN Trees
        /\ \A s \in DOMAIN Trees \ {LiveName} : Trees'[s] = Trees[s]
    BY <1>1 DEF FT!LiveBecomes
  <1> QED
    BY <1>2, <1>3, <1>4 DEF FT!Make, FT!LiveBecomes

LEMMA MakeHalfIs ==
    ASSUME ret' = Error, Legible(out, FALSE)' = 0, UNCHANGED CwdPath, Put(FT!File(0))
    PROVE  FT!MakeHalf
  <1>1. PICK q \in FT!Vacancies(FT!live) : FT!LiveBecomes({FT!With(FT!live, q, FT!File(0))})
    BY DEF Put
  <1>2. FT!live' = FT!With(FT!live, q, FT!File(0))
    BY <1>1 DEF FT!LiveBecomes
  <1>3. /\ UNCHANGED LiveName
        /\ DOMAIN Trees' = DOMAIN Trees
        /\ \A s \in DOMAIN Trees \ {LiveName} : Trees'[s] = Trees[s]
    BY <1>1 DEF FT!LiveBecomes
  <1> QED
    BY <1>2, <1>3 DEF FT!MakeHalf, FT!LiveBecomes

\* What is made in a directory of the tree is there, with what was written.
MakesAt(v) ==
    /\ v.dir \in nodes /\ is_dir[v.dir] /\ v.name \in Name \cup RawName
    /\ InTree => v.dir \in Below(fs_root)

LEMMA NewEmptyShows ==
    ASSUME IInv, IInv', OnlyLive, NEW v, MakesAt(v), NEW dir \in BOOLEAN, NewEmpty(v, dir)
    PROVE  FT!Make \/ FT!Outside
  <1>1. /\ Fits(heap_offset, NODE_SIZE) /\ NewNode(v.dir, v.name, dir, NoText)
        /\ Answer(Ok) /\ UNCHANGED <<fs_root, fs_cwd>>
    BY DEF NewEmpty, Answer
  <1>2. /\ UNCHANGED CwdPath
        /\ v.dir \in Below(fs_root) => Put([is_dir |-> dir, len |-> Legible(NoText, TRUE)])
        /\ v.dir \notin Below(fs_root) => UNCHANGED <<LiveName, Trees>>
    BY <1>1, AddedNode DEF MakesAt
  <1>3. ret' = Ok /\ Legible(out, FALSE)' = 0 /\ Legible(NoText, TRUE) = 0
    BY <1>1, AnswerIs DEF Legible
  <1>4. CASE v.dir \in Below(fs_root)
    <2>1. PICK e : e = [is_dir |-> dir, len |-> 0]
      OBVIOUS
    <2>2. Put(e)
      BY <1>2, <1>3, <1>4, <2>1
    <2>3. e = FT!Dir \/ \E len \in TextLen \cup {0} : e = FT!File(len)
      BY <2>1 DEF FT!Dir, FT!File
    <2>4. FT!Succeed
      BY <1>3 DEF FT!Succeed
    <2> QED
      BY <1>2, <2>2, <2>3, <2>4, MakeIs
  <1>5. CASE v.dir \notin Below(fs_root)
    <2>1. CwdPath = {}
      BY <1>5, OutOfTree DEF MakesAt
    <2>2. FT!Outside
      BY <1>2, <1>3, <1>5, <2>1 DEF FT!Outside
    <2> QED
      BY <2>2
  <1> QED
    BY <1>4, <1>5

LEMMA NewFileShows ==
    ASSUME IInv, IInv', OnlyLive, NEW v, MakesAt(v), NEW text \in Content, text.sealed,
           NewFile(v, text)
    PROVE  FT!Make \/ FT!MakeHalf \/ FT!Outside
  <1>1. PICK kept \in {text, NoText}, r \in {Ok, Error} :
           /\ Fits(heap_offset, NODE_SIZE) /\ NewNode(v.dir, v.name, FALSE, kept)
           /\ Answer(r) /\ UNCHANGED <<fs_root, fs_cwd>>
           /\ r = Error => kept = NoText
    <2>1. Ok # Error
      BY DEF Ok, Error
    <2>2. CASE Fits(OffsetAfter(heap_offset, NODE_SIZE), text.len + 1)
      <3>1. /\ Fits(heap_offset, NODE_SIZE) /\ NewNode(v.dir, v.name, FALSE, text)
            /\ Answer(Ok) /\ UNCHANGED <<fs_root, fs_cwd>>
        BY <2>2 DEF NewFile, Answer
      <3> QED
        BY <2>1, <3>1
    <2>3. CASE ~Fits(OffsetAfter(heap_offset, NODE_SIZE), text.len + 1)
      <3>1. /\ Fits(heap_offset, NODE_SIZE) /\ NewNode(v.dir, v.name, FALSE, NoText)
            /\ Answer(Error) /\ UNCHANGED <<fs_root, fs_cwd>>
        BY <2>3 DEF NewFile, Answer
      <3> QED
        BY <3>1
    <2> QED
      BY <2>2, <2>3
  <1>2. /\ UNCHANGED CwdPath
        /\ v.dir \in Below(fs_root) => Put([is_dir |-> FALSE, len |-> Legible(kept, TRUE)])
        /\ v.dir \notin Below(fs_root) => UNCHANGED <<LiveName, Trees>>
    BY <1>1, AddedNode DEF MakesAt
  <1>3. ret' = r /\ Legible(out, FALSE)' = 0
    BY <1>1, AnswerIs
  <1>4. Legible(kept, TRUE) \in TextLen \cup {0} /\ (r = Error => Legible(kept, TRUE) = 0)
    <2>1. Legible(NoText, TRUE) = 0
      BY DEF Legible
    <2>2. Legible(text, TRUE) \in TextLen
      BY ReadLen
    <2> QED
      BY <1>1, <2>1, <2>2
  <1>5. CASE v.dir \in Below(fs_root)
    <2>1. PICK len \in TextLen \cup {0} : len = Legible(kept, TRUE)
      BY <1>4
    <2>2. PICK e : e = FT!File(len)
      OBVIOUS
    <2>3. Put(e)
      BY <1>2, <1>5, <2>1, <2>2 DEF FT!File
    <2>4. CASE r = Ok
      <3>1. FT!Succeed
        BY <1>3, <2>4 DEF FT!Succeed
      <3> QED
        BY <1>2, <2>2, <2>3, <3>1, MakeIs
    <2>5. CASE r = Error
      <3>1. Put(FT!File(0))
        BY <1>4, <2>1, <2>2, <2>3, <2>5
      <3> QED
        BY <1>2, <1>3, <2>5, <3>1, MakeHalfIs
    <2> QED
      BY <2>4, <2>5
  <1>6. CASE v.dir \notin Below(fs_root)
    <2>1. CwdPath = {}
      BY <1>6, OutOfTree DEF MakesAt
    <2>2. FT!Outside
      BY <1>1, <1>2, <1>3, <1>6, <2>1 DEF FT!Outside
    <2> QED
      BY <2>2
  <1> QED
    BY <1>5, <1>6

-----------------------------------------------------------------------------
(* Snapshots *)

LEMMA SameTree ==
    ASSUME NEW r, UNCHANGED <<nodes, name, is_dir, data, kids>>
    PROVE  TreeAt(r)' = TreeAt(r)
  BY DEF TreeAt, Descents, Children, Listed

\* The trees by name are those of the snapshots, and the live one.
SavedTrees ==
    /\ DOMAIN Trees = {e.name : e \in ToSet(snaps)} \cup {LiveName}
    /\ \A e \in ToSet(snaps) : \A r : r = e.root => Trees[e.name] = TreeAt(r)
    /\ Trees[LiveName] = LiveTree
    /\ \A e \in ToSet(snaps) :
          e.name \in SnapName /\ e.name # NoSnap /\ (e.root = fs_root <=> e.name = LiveName)
    /\ (\A e \in ToSet(snaps) : e.root # fs_root) => LiveName = NoSnap

LEMMA SavedTreesAre == IInv /\ SnapsApart => SavedTrees
  <1> SUFFICES ASSUME IInv, SnapsApart PROVE SavedTrees
    OBVIOUS
  <1>1. TreesNamed
    BY NamesAndRoots
  <1>2. ASSUME NEW i \in DOMAIN snaps, snaps[i].root = fs_root PROVE LiveName = snaps[i].name
    <2>1. PICK j : j = CHOOSE k \in DOMAIN snaps : snaps[k].root = fs_root
      OBVIOUS
    <2>2. j \in DOMAIN snaps /\ snaps[j].root = fs_root
      BY <1>2, <2>1
    <2>3. LiveName = snaps[j].name
      BY <1>2, <2>1 DEF LiveName
    <2> QED
      BY <1>2, <2>2, <2>3 DEF SnapsApart
  <1>3. (\A i \in DOMAIN snaps : snaps[i].root # fs_root) => LiveName = NoSnap
    BY DEF LiveName
  <1>4. ASSUME NEW i \in DOMAIN snaps
        PROVE  /\ snaps[i].name \in SnapName /\ snaps[i].name # NoSnap
               /\ snaps[i].name = LiveName => snaps[i].root = fs_root
    <2>1. snaps[i].name \in SnapName /\ snaps[i].name # NoSnap
      <3>1. snaps[i] \in [name : SnapName, root : HeapAddr]
        <4>1. PICK S : S = [name : SnapName, root : HeapAddr]
          OBVIOUS
        <4>2. snaps \in Seq(S)
          BY <4>1 DEF IInv, TypeOK
        <4> QED
          BY <4>1, <4>2, ElementOfSeq, LenProperties
      <3> QED
        BY <3>1, FsAssumption
    <2>2. ASSUME snaps[i].name = LiveName PROVE snaps[i].root = fs_root
      <3>1. PICK j \in DOMAIN snaps : snaps[j].root = fs_root
        BY <1>3, <2>1, <2>2
      <3>2. snaps[j].name = snaps[i].name
        BY <1>2, <2>2, <3>1
      <3> QED
        BY <3>1, <3>2 DEF SnapsApart
    <2> QED
      BY <2>1, <2>2
  <1>5. ASSUME NEW i \in DOMAIN snaps, NEW r, r = snaps[i].root
        PROVE  Trees[snaps[i].name] = TreeAt(r)
    <2>1. r = RootOf(snaps[i].name)
      <3>1. CASE snaps[i].name = LiveName
        BY <1>4, <1>5, <3>1 DEF RootOf
      <3>2. CASE snaps[i].name # LiveName
        <4>1. PICK j : j = CHOOSE k \in DOMAIN snaps : snaps[k].name = snaps[i].name
          OBVIOUS
        <4>2. j \in DOMAIN snaps /\ snaps[j].name = snaps[i].name
          BY <4>1
        <4>3. j = i
          BY <4>2 DEF SnapsApart
        <4>4. RootOf(snaps[i].name) = snaps[j].root
          BY <3>2, <4>1 DEF RootOf
        <4> QED
          BY <1>5, <4>3, <4>4
      <3> QED
        BY <3>1, <3>2
    <2>2. snaps[i].name \in DOMAIN Trees
      BY <1>1 DEF TreesNamed
    <2> QED
      BY <1>1, <2>1, <2>2 DEF TreesNamed
  <1>6. Trees[LiveName] = LiveTree
    BY <1>1 DEF TreesNamed, FT!live
  <1>7. /\ ToSet(snaps) = {snaps[i] : i \in DOMAIN snaps}
        /\ {e.name : e \in ToSet(snaps)} = {snaps[i].name : i \in DOMAIN snaps}
    BY DEF ToSet
  <1>8. DOMAIN Trees = {e.name : e \in ToSet(snaps)} \cup {LiveName}
    BY <1>1, <1>7 DEF TreesNamed
  <1> QED
    BY <1>2, <1>3, <1>4, <1>5, <1>6, <1>7, <1>8 DEF SavedTrees

LEMMA SavedTreesAreNext == (IInv /\ SnapsApart)' => SavedTrees'
  BY SavedTreesAre, PTL

\* The place of the root of a tree.
LEMMA AtTop ==
    ASSUME NEW P, NEW L, NEW nm, NEW r, Tree(P, L, nm, r)
    PROVE  At(P, r) = {<<>>}
  <1>1. Top(r) \in P
    BY DEF Tree
  <1>2. Top(r).node = r /\ Top(r).path = <<>>
    BY DEF Top
  <1>3. \A x \in P : x.node = r => x = Top(r)
    BY <1>1, <1>2, NodeOnce
  <1> QED
    BY <1>1, <1>2, <1>3 DEF At

\* A snapshot becomes the live tree.
LEMMA RestoreShows ==
    ASSUME IInv, IInv', SnapsApart, SnapsApart', NEW e \in ToSet(snaps),
           fs_root' = e.root, fs_cwd' = e.root, Answer(Ok), UNCHANGED <<tree, snaps>>
    PROVE  FT!Restore
  <1>1. SavedTrees /\ SavedTrees'
    BY SavedTreesAre, SavedTreesAreNext
  <1>2. LiveName' = e.name /\ e.name # NoSnap
    BY <1>1 DEF SavedTrees
  <1> DEFINE names == {x.name : x \in ToSet(snaps)}
  <1>3. DOMAIN Trees' = names
    BY <1>1, <1>2 DEF SavedTrees
  <1>4. DOMAIN Trees \ {NoSnap} = names
    <2>1. DOMAIN Trees = names \cup {LiveName} /\ NoSnap \notin names
      BY <1>1 DEF SavedTrees
    <2>2. LiveName \in names \/ LiveName = NoSnap
      BY <1>1 DEF SavedTrees
    <2> QED
      BY <2>1, <2>2
  <1>5. ASSUME NEW x \in ToSet(snaps) PROVE Trees'[x.name] = Trees[x.name]
    <2>1. PICK r : r = x.root
      OBVIOUS
    <2>2. Trees[x.name] = TreeAt(r) /\ Trees'[x.name] = TreeAt(r)'
      BY <1>1, <2>1 DEF SavedTrees
    <2>3. TreeAt(r)' = TreeAt(r)
      BY SameTree DEF tree
    <2> QED
      BY <2>2, <2>3
  <1>6. Trees' = FT!Without(Trees, {NoSnap})
    <2>1. \A s \in DOMAIN Trees' : Trees'[s] = Trees[s]
      BY <1>3, <1>5
    <2>2. Trees' = [s \in DOMAIN Trees' |-> Trees'[s]]
      BY TreesAreShapedNext DEF TreesShaped
    <2>3. FT!Without(Trees, {NoSnap}) = [s \in DOMAIN Trees \ {NoSnap} |-> Trees[s]]
      BY DEF FT!Without
    <2> QED
      BY <1>3, <1>4, <2>1, <2>2, <2>3
  <1>7. CwdPath' = {<<>>}
    <2>1. PICK Q, M, mm, r :
             Q = Descents(fs_root)' /\ M = Lists' /\ mm = name' /\ r = fs_root'
      OBVIOUS
    <2>2. Tree(Q, M, mm, r)
      BY <2>1, LiveIsNext DEF LiveShown
    <2>3. CwdPath' = At(Q, r)
      BY <2>1, CwdIsNext DEF CwdShown
    <2> QED
      BY <2>2, <2>3, AtTop
  <1>8. FT!Succeed
    BY AnswerIs DEF FT!Succeed
  <1>9. LiveName' \in DOMAIN Trees \ {NoSnap}
    BY <1>2, <1>4
  <1> QED
    BY <1>6, <1>7, <1>8, <1>9 DEF FT!Restore

\* A step of the copy does not show yet.
LEMMA CloneShows ==
    ASSUME IInv, IInv', OnlyLive, NEW col, Coloured(col), fs_clone_tree
    PROVE  UNCHANGED <<CwdPath, LiveName, Trees, ret, out>>
  <1>1. clone.todo # <<>> /\ UNCHANGED <<fs_root, fs_cwd, snaps, ret, out>>
    BY DEF fs_clone_tree
  <1>2. CASE ~Fits(heap_offset, NODE_SIZE)
    <2>1. UNCHANGED <<name, is_dir, data, kids>>
      BY <1>2 DEF fs_clone_tree, tree
    <2> QED
      BY <1>1, <2>1, StaysShows
  <1>3. CASE Fits(heap_offset, NODE_SIZE)
    <2>1. PICK into, copy : CopyStep(into, copy)
      BY <1>1, <1>3, CopySteps
    <2>2. ASSUME NEW m \in Below(fs_root)
          PROVE  /\ Lists'[m] = Lists[m]
                 /\ \A c \in Lists[m] : name'[c] = name[c]
                 /\ Entries'[m] = Entries[m]
      <3>1. m \in nodes /\ m \in HeapAddr /\ col[m] = fs_root /\ fs_root \in Roots
        BY TreeColour DEF Below, Roots
      <3>2. m # copy /\ \A c \in Listed(m) : c # copy /\ c \in HeapAddr
        BY <2>1, <3>1 DEF CopyStep, IInv, Links, WellLinked, TypeOK
      <3>3. m # into
        <4>1. PICK f \in ToSet(clone.todo) : f.into = into
          BY <2>1 DEF CopyStep
        <4>2. into # NULL => col[into] \notin Roots
          BY <4>1 DEF Coloured
        <4> QED
          BY <3>1, <4>2, Constants
      <3>4. /\ kids'[m] = kids[m] /\ is_dir'[m] = is_dir[m] /\ data'[m] = data[m]
            /\ \A c \in Listed(m) : name'[c] = name[c]
        BY <2>1, <3>1, <3>2, <3>3 DEF CopyStep
      <3>5. Lists'[m] = Lists[m] /\ Lists[m] = Listed(m)
        BY <3>1, <3>4 DEF Lists, Listed
      <3>6. Entries'[m] = Entries[m]
        <4>1. Entries'[m] = [is_dir |-> is_dir'[m], len |-> Legible(data'[m], TRUE)]
          BY <3>1 DEF Entries, Legible
        <4>2. Entries[m] = [is_dir |-> is_dir[m], len |-> Legible(data[m], TRUE)]
          BY <3>1 DEF Entries
        <4> QED
          BY <3>4, <4>1, <4>2
      <3> QED
        BY <3>4, <3>5, <3>6
    <2> QED
      BY <1>1, <2>2, NothingHere
  <1> QED
    BY <1>2, <1>3

LEMMA RootsFoundNext == IInv' => (\A r \in Roots : FoundAt(r))'
  BY RootsFound, PTL

\* What is recorded: each path of the copy is one of the live tree.
Copies(h, g) ==
    \A p \in DOMAIN h :
        /\ p \in DOMAIN g
        /\ h[p] \in {g[p], [g[p] EXCEPT !.len = 0]}
        /\ p = <<>> \/ FT!Front(p) \in DOMAIN h

LEMMA RecordShows ==
    ASSUME IInv, IInv', CopyInv, SnapCreateEnd, NEW r \in SnapRoots' \ SnapRoots
    PROVE  Copies(TreeAt(r)', LiveTree)
  <1>1. r \in Roots' /\ fs_root \in Roots
    BY DEF Roots
  <1>2. \A e \in View(r)' : \E f \in View(fs_root) :
                 /\ e.path = f.path /\ e.is_dir = f.is_dir
                 /\ e.data \in {f.data, NoText}
    <2>1. FoundAt(r)' /\ FoundAt(fs_root)
      BY <1>1, RootsFound, RootsFoundNext
    <2> QED
      BY <2>1, RecordedFaithfully
  <1>3. PICK Q, M, mm, F, h : /\ Q = Descents(r)' /\ M = Lists' /\ mm = name' /\ F = Entries'
                              /\ h = TreeAt(r)'
    OBVIOUS
  <1>4. Tree(Q, M, mm, r)
    BY <1>1, <1>3, TreesAreNext DEF TreesOK, TreeOK
  <1>5. Shows(h, Q, F)
    <2>1. h = Shape(Q, F)
      BY <1>1, <1>3, ShapesAreNext DEF ShapesOK, ShapeOK
    <2>2. OnePath(Q)
      BY <1>4, PathOnce DEF OnePath
    <2> QED
      BY <2>1, <2>2, ShapeShows
  <1>6. ASSUME NEW x \in Q
        PROVE  /\ x.path \in DOMAIN LiveTree
               /\ F[x.node] \in {LiveTree[x.path], [LiveTree[x.path] EXCEPT !.len = 0]}
    <2>1. Entry(x.path, x.node)' \in View(r)'
      BY <1>3 DEF View
    <2>2. PICK f \in View(fs_root) :
              /\ x.path = f.path /\ is_dir'[x.node] = f.is_dir
              /\ data'[x.node] \in {f.data, NoText}
      <3>1. PICK f \in View(fs_root) :
              /\ Entry(x.path, x.node)'.path = f.path /\ Entry(x.path, x.node)'.is_dir = f.is_dir
              /\ Entry(x.path, x.node)'.data \in {f.data, NoText}
        BY <1>2, <2>1
      <3>2. Entry(x.path, x.node)' = [path |-> x.path, is_dir |-> is_dir'[x.node],
                                      data |-> data'[x.node]]
        BY DEF Entry
      <3> QED
        BY <3>1, <3>2
    <2>3. PICK y \in Descents(fs_root) :
              f = [path |-> y.path, is_dir |-> is_dir[y.node], data |-> data[y.node]]
      BY DEF View, Entry
    <2>4. x.path = y.path /\ is_dir'[x.node] = is_dir[y.node]
          /\ data'[x.node] \in {data[y.node], NoText}
      BY <2>2, <2>3
    <2>5. /\ y.path \in DOMAIN LiveTree /\ y.node \in HeapAddr
          /\ LiveTree[y.path] = Entries[y.node]
      BY EntryAt
    <2>6. Entries[y.node] = [is_dir |-> is_dir[y.node], len |-> Legible(data[y.node], TRUE)]
      BY <2>5 DEF Entries
    <2>7. F[x.node] = [is_dir |-> is_dir'[x.node], len |-> Legible(data'[x.node], TRUE)]
      <3>1. x.node \in HeapAddr
        BY <1>4, PlaceFacts DEF Tree
      <3> QED
        BY <1>3, <3>1 DEF Entries, Legible
    <2>8. CASE data'[x.node] = data[y.node]
      BY <2>4, <2>5, <2>6, <2>7, <2>8
    <2>9. CASE data'[x.node] = NoText
      <3>1. Legible(NoText, TRUE) = 0
        BY DEF Legible
      <3>2. F[x.node] = [is_dir |-> is_dir[y.node], len |-> 0]
        BY <2>4, <2>7, <2>9, <3>1
      <3>3. [LiveTree[x.path] EXCEPT !.len = 0] = [is_dir |-> is_dir[y.node], len |-> 0]
        BY <2>4, <2>5, <2>6
      <3> QED
        BY <2>4, <2>5, <3>2, <3>3
    <2> QED
      BY <2>4, <2>8, <2>9
  <1>7. ASSUME NEW x \in Q PROVE x.path = <<>> \/ Front(x.path) \in DOMAIN h
    <2>1. CASE x = Top(r)
      BY <2>1 DEF Top
    <2>2. ASSUME NEW y \in Q, NEW c \in M[y.node], x = Down(y, c, mm)
          PROVE  Front(x.path) \in DOMAIN h
      <3>1. /\ Down(y, c, mm).path = Append(y.path, mm[c])
            /\ y.path \in Seq(FsName) /\ mm[c] \in FsName
        BY <1>4, DownFacts
      <3>2. Front(x.path) = y.path
        BY <2>2, <3>1, FrontOfAppend
      <3> QED
        BY <1>5, <3>2 DEF Shows
    <2> QED
      BY <1>4, <2>1, <2>2, LastStep
  <1>8. Copies(h, LiveTree)
    <2>1. ASSUME NEW p \in DOMAIN h
          PROVE  /\ p \in DOMAIN LiveTree
                 /\ h[p] \in {LiveTree[p], [LiveTree[p] EXCEPT !.len = 0]}
                 /\ p = <<>> \/ FT!Front(p) \in DOMAIN h
      <3>1. PICK x \in Q : p = x.path
        BY <1>5 DEF Shows
      <3>2. h[p] = F[x.node]
        BY <1>5, <3>1 DEF Shows
      <3> QED
        BY <1>6, <1>7, <3>1, <3>2, SameOperators
    <2> QED
      BY <2>1 DEF Copies
  <1> QED
    BY <1>3, <1>8

\* The end of a copy: what is recorded is one more tree, which the live one
\* does not share.
LEMMA RecordedTrees ==
    ASSUME IInv, IInv', SnapsApart, SnapsApart', NEW s, NEW k \in HeapAddr, k # fs_root,
           s \in SnapName, \A e \in ToSet(snaps) : e.name # s,
           ToSet(snaps)' = ToSet(snaps) \cup {[name |-> s, root |-> k]},
           UNCHANGED <<nodes, name, is_dir, data, kids, fs_root>>
    PROVE  /\ UNCHANGED LiveName
           /\ s \in DOMAIN Trees' /\ s \notin DOMAIN Trees
           /\ Trees = FT!Without(Trees', {s})
           /\ Trees'[s] = TreeAt(k)'
  <1>1. SavedTrees /\ SavedTrees'
    BY SavedTreesAre, SavedTreesAreNext
  <1>2. PICK new : new = [name |-> s, root |-> k]
    OBVIOUS
  <1>3. /\ ToSet(snaps)' = ToSet(snaps) \cup {new} /\ new.name = s /\ new.root = k
    BY <1>2
  <1>4. LiveName' = LiveName
    <2>1. CASE \E e \in ToSet(snaps) : e.root = fs_root
      <3>1. PICK e \in ToSet(snaps) : e.root = fs_root
        BY <2>1
      <3>2. e.name = LiveName
        BY <1>1, <3>1 DEF SavedTrees
      <3>3. e \in ToSet(snaps)' /\ e.root = fs_root'
        BY <1>3, <3>1
      <3>4. e.name = LiveName'
        BY <1>1, <3>3 DEF SavedTrees
      <3> QED
        BY <3>2, <3>4
    <2>2. CASE \A e \in ToSet(snaps) : e.root # fs_root
      <3>1. LiveName = NoSnap
        BY <1>1, <2>2 DEF SavedTrees
      <3>2. \A e \in ToSet(snaps)' : e.root # fs_root'
        BY <1>3, <2>2
      <3>3. LiveName' = NoSnap
        BY <1>1, <3>2 DEF SavedTrees
      <3> QED
        BY <3>1, <3>3
    <2> QED
      BY <2>1, <2>2
  <1>5. /\ DOMAIN Trees' = DOMAIN Trees \cup {s} /\ s \notin DOMAIN Trees
    <2>1. DOMAIN Trees = {e.name : e \in ToSet(snaps)} \cup {LiveName}
      BY <1>1 DEF SavedTrees
    <2>2. DOMAIN Trees' = {e.name : e \in ToSet(snaps)'} \cup {LiveName}
      BY <1>1, <1>4 DEF SavedTrees
    <2>3. {e.name : e \in ToSet(snaps)'} = {e.name : e \in ToSet(snaps)} \cup {s}
      BY <1>3
    <2>4. s \notin {e.name : e \in ToSet(snaps)}
      OBVIOUS
    <2>5. s # LiveName
      <3>1. s # NoSnap
        BY FsAssumption
      <3>2. LiveName = NoSnap \/ \E e \in ToSet(snaps) : e.name = LiveName
        BY <1>1 DEF SavedTrees
      <3> QED
        BY <3>1, <3>2
    <2> QED
      BY <2>1, <2>2, <2>3, <2>4, <2>5
  <1>6. ASSUME NEW e \in ToSet(snaps) PROVE Trees'[e.name] = Trees[e.name]
    <2>1. PICK r : r = e.root
      OBVIOUS
    <2>2. e \in ToSet(snaps)'
      BY <1>3
    <2>3. Trees[e.name] = TreeAt(r) /\ Trees'[e.name] = TreeAt(r)'
      BY <1>1, <2>1, <2>2 DEF SavedTrees
    <2>4. TreeAt(r)' = TreeAt(r)
      BY SameTree
    <2> QED
      BY <2>3, <2>4
  <1>7. Trees'[LiveName] = Trees[LiveName]
    <2>1. Trees[LiveName] = LiveTree /\ Trees'[LiveName] = LiveTree'
      BY <1>1, <1>4 DEF SavedTrees
    <2>2. LiveTree' = LiveTree
      <3>1. PICK r : r = fs_root
        OBVIOUS
      <3>2. LiveTree = TreeAt(r)
        BY <3>1 DEF LiveTree
      <3>3. LiveTree' = TreeAt(r)'
        BY <3>1 DEF LiveTree
      <3> QED
        BY <3>2, <3>3, SameTree
    <2> QED
      BY <2>1, <2>2
  <1>8. \A x \in DOMAIN Trees : Trees'[x] = Trees[x]
    <2>1. DOMAIN Trees = {e.name : e \in ToSet(snaps)} \cup {LiveName}
      BY <1>1 DEF SavedTrees
    <2> QED
      BY <1>6, <1>7, <2>1
  <1>9. Trees = FT!Without(Trees', {s})
    <2>1. Trees = [x \in DOMAIN Trees |-> Trees[x]]
      BY TreesAreShaped DEF TreesShaped
    <2>2. FT!Without(Trees', {s}) = [x \in DOMAIN Trees' \ {s} |-> Trees'[x]]
      BY DEF FT!Without
    <2>3. DOMAIN Trees' \ {s} = DOMAIN Trees
      BY <1>5
    <2> QED
      BY <1>8, <2>1, <2>2, <2>3
  <1>10. Trees'[s] = TreeAt(k)'
    BY <1>1, <1>3 DEF SavedTrees
  <1> QED
    BY <1>4, <1>5, <1>9, <1>10

LEMMA SaveIs ==
    ASSUME FT!Succeed, UNCHANGED <<CwdPath, LiveName>>, NEW s \in SnapName,
           s \notin DOMAIN Trees, s \in DOMAIN Trees', Trees = FT!Without(Trees', {s}),
           Copies(Trees'[s], FT!live)
    PROVE  FT!Save
  <1>1. \A p \in DOMAIN Trees'[s] :
                /\ p \in DOMAIN FT!live
                /\ Trees'[s][p] \in {FT!live[p], [FT!live[p] EXCEPT !.len = 0]}
                /\ p = <<>> \/ FT!Front(p) \in DOMAIN Trees'[s]
    BY DEF Copies
  <1> QED
    BY <1>1 DEF FT!Save

LEMMA SaveShows ==
    ASSUME IInv, IInv', SnapsApart, SnapsApart', CopyInv, NEW col, Coloured(col),
           NEW k, k = clone.root, k # NULL, SnapCreateEnd, ret' = Ok
    PROVE  FT!Save
  <1>1. PICK s : s = clone.snap
    OBVIOUS
  <1>2. /\ UNCHANGED <<nodes, name, is_dir, data, kids, fs_root, fs_cwd>>
        /\ Answer(Ok) /\ ~Quiet
        /\ snaps' = <<[name |-> s, root |-> k]>> \o snaps
    BY <1>1 DEF SnapCreateEnd, Answer, Ok, Error
  <1>3. s \in SnapName /\ k \in HeapAddr /\ k \notin Roots
    BY <1>1, <1>2 DEF IInv, CloneOK, Quiet, TypeOK, Coloured
  <1>4. ToSet(snaps)' = ToSet(snaps) \cup {[name |-> s, root |-> k]}
    <2>1. PICK S : S = [name : SnapName, root : HeapAddr]
      OBVIOUS
    <2>2. PICK new : new = [name |-> s, root |-> k]
      OBVIOUS
    <2>3. new \in S /\ snaps \in Seq(S)
      BY <1>3, <2>1, <2>2 DEF IInv, TypeOK
    <2>4. ToSet(<<new>> \o snaps) = ToSet(snaps) \cup {new}
      BY <2>3, HeadInsertion
    <2>5. ToSet(snaps)' = ToSet(snaps')
      BY DEF ToSet
    <2> QED
      BY <1>2, <2>2, <2>4, <2>5
  <1>5. /\ \A e \in ToSet(snaps) : e.name # s
        /\ k # fs_root
    <2>1. \A i \in DOMAIN snaps : snaps[i].name # s
      BY <1>1, <1>2 DEF SnapsApart, SnapNamed
    <2> QED
      BY <1>3, <2>1 DEF ToSet, Roots
  <1>6. /\ UNCHANGED LiveName
        /\ s \in DOMAIN Trees' /\ s \notin DOMAIN Trees
        /\ Trees = FT!Without(Trees', {s})
        /\ Trees'[s] = TreeAt(k)'
    BY <1>2, <1>3, <1>4, <1>5, RecordedTrees
  <1>7. k \in SnapRoots' \ SnapRoots
    <2>1. SnapRoots' = {e.root : e \in ToSet(snaps)'}
      BY DEF SnapRoots, ToSet
    <2>2. [name |-> s, root |-> k] \in ToSet(snaps)'
      BY <1>4
    <2>3. k \in SnapRoots'
      BY <2>1, <2>2
    <2> QED
      BY <1>3, <2>3 DEF Roots
  <1>8. Copies(TreeAt(k)', LiveTree)
    BY <1>7, RecordShows
  <1>9. FT!live = LiveTree
    BY NamesAndRoots DEF TreesNamed
  <1>10. CwdPath' = CwdPath
    BY <1>2 DEF CwdPath, Descents, Children, Listed
  <1>11. FT!Succeed
    BY <1>2, AnswerIs DEF FT!Succeed
  <1>12. Copies(Trees'[s], FT!live)
    BY <1>6, <1>8, <1>9
  <1> QED
    BY <1>3, <1>6, <1>10, <1>11, <1>12, SaveIs

\* The end of a copy that is not recorded.
LEMMA UnsavedShows ==
    ASSUME IInv, IInv', OnlyLive, SnapCreateEnd, ret' # Ok
    PROVE  FT!Refuse
  <1>1. /\ UNCHANGED <<fs_root, fs_cwd, name, is_dir, data, kids>>
        /\ Answer(Error)
    BY DEF SnapCreateEnd, Answer
  <1>2. /\ UNCHANGED <<LiveName, Trees>>
        /\ UNCHANGED fs_cwd => UNCHANGED CwdPath
    BY <1>1, StaysShows
  <1>3. ret' = Error /\ Legible(out, FALSE)' = 0
    BY <1>1, AnswerIs
  <1> QED
    BY <1>1, <1>2, <1>3 DEF FT!Refuse

-----------------------------------------------------------------------------
(* Every call does what an abstract one does *)

\* What one step of the filesystem shows.
Shown ==
    \/ FT!Next
    \/ UNCHANGED <<CwdPath, LiveName, Trees, ret, out>>

LEMMA MakesAtVacant ==
    ASSUME IInv, NEW p \in Path, NEW v \in Vacant(p)
    PROVE  MakesAt(v)
  <1>1. p \in AnyPath /\ p.comps \in Seq(FsName)
    BY FsAssumption, PathNames DEF AnyPath
  <1>2. v.dir \in nodes /\ is_dir[v.dir] /\ v.name \in Name
    BY <1>1, VacantFacts DEF IInv
  <1>3. InTree => v.dir \in Below(fs_root)
    BY <1>1, VacantBelow
  <1> QED
    BY <1>2, <1>3 DEF MakesAt

LEMMA PlainSealed ==
    ASSUME NEW len \in TextLen
    PROVE  Crypt(Plain(len)) \in Content /\ Crypt(Plain(len)).sealed
  <1>1. Crypt(Plain(len)) \in Content
    BY CryptFacts
  <1>2. Crypt(Plain(len)).sealed
    BY DEF Crypt, Plain
  <1> QED
    BY <1>1, <1>2

LEMMA CreateShows ==
    ASSUME IInv, IInv', OnlyLive, EncryptedAtRest, NEW p \in Path,
           \/ fs_mkdir(p) \/ fs_touch(p)
           \/ \E len \in TextLen : fs_write(p, len)
           \/ \E src : fs_copy(src, p)
    PROVE  FT!Next
  <1>1. CASE Fail
    BY <1>1, FailShows DEF FT!Next
  <1>2. ASSUME NEW v \in Vacant(p), NEW dir \in BOOLEAN, NewEmpty(v, dir) PROVE FT!Next
    <2>1. FT!Make \/ FT!Outside
      BY <1>2, MakesAtVacant, NewEmptyShows
    <2> QED
      BY <2>1 DEF FT!Next
  <1>3. ASSUME NEW v \in Vacant(p), NEW text \in Content, text.sealed, NewFile(v, text)
        PROVE  FT!Next
    <2>1. FT!Make \/ FT!MakeHalf \/ FT!Outside
      BY <1>3, MakesAtVacant, NewFileShows
    <2> QED
      BY <2>1 DEF FT!Next
  <1>4. CASE fs_mkdir(p) \/ fs_touch(p)
    BY <1>1, <1>2, <1>4 DEF fs_mkdir, fs_touch
  <1>5. ASSUME NEW len \in TextLen, fs_write(p, len) PROVE FT!Next
    <2>1. Fail \/ \E v \in Vacant(p) : NewFile(v, Crypt(Plain(len)))
      BY <1>5 DEF fs_write
    <2> QED
      BY <1>1, <1>3, <2>1, PlainSealed
  <1>6. ASSUME NEW src, fs_copy(src, p) PROVE FT!Next
    <2>1. PICK n : n = Resolve(src)
      OBVIOUS
    <2>2. \/ Fail
          \/ /\ n # NULL
             /\ \E v \in Vacant(p) : IF data[n] = NoText THEN NewEmpty(v, FALSE)
                                     ELSE NewFile(v, data[n])
      BY <1>6, <2>1 DEF fs_copy
    <2>3. ASSUME n # NULL, data[n] # NoText PROVE data[n] \in Content /\ data[n].sealed
      <3>1. n \in HeapAddr
        BY <2>1, <2>3, ResolveFacts DEF IInv, TypeOK
      <3> QED
        BY <2>3, <3>1 DEF IInv, TypeOK, EncryptedAtRest
    <2> QED
      BY <1>1, <1>2, <1>3, <2>2, <2>3
  <1> QED
    BY <1>4, <1>5, <1>6

LEMMA EditShows ==
    ASSUME IInv, IInv', OnlyLive, NEW nm \in RawName, NEW len \in TextLen, fs_write_cwd(nm, len)
    PROVE  FT!Next
  <1>1. PICK n : n = Lookup(fs_cwd, nm)
    OBVIOUS
  <1>2. CASE Fail
    BY <1>2, FailShows DEF FT!Next
  <1>3. CASE NewFile([dir |-> fs_cwd, name |-> nm], Crypt(Plain(len)))
    <2>1. PICK v : v = [dir |-> fs_cwd, name |-> nm]
      OBVIOUS
    <2>2. v.dir = fs_cwd /\ v.name = nm
      BY <2>1
    <2>3. fs_cwd \in nodes /\ is_dir[fs_cwd]
      BY DEF IInv, Links, DirsAreDirs
    <2>4. MakesAt(v)
      BY <2>2, <2>3 DEF MakesAt, InTree
    <2>5. NewFile(v, Crypt(Plain(len)))
      BY <1>3, <2>1
    <2>6. FT!Make \/ FT!MakeHalf \/ FT!Outside
      BY <2>4, <2>5, PlainSealed, NewFileShows
    <2> QED
      BY <2>6 DEF FT!Next
  <1>4. CASE /\ n # NULL /\ ~is_dir[n] /\ Answer(Ok)
             /\ data' = [data EXCEPT ![n] = Crypt(Plain(len))]
             /\ UNCHANGED <<fs_root, fs_cwd, nodes, name, is_dir, kids>>
    <2>1. n \in Listed(fs_cwd)
      BY <1>1, <1>4, LookupFacts DEF IInv, TypeOK
    <2>2. /\ InTree => FT!Overwrite
          /\ ~InTree => UNCHANGED <<CwdPath, LiveName, Trees>>
      BY <1>4, <2>1, OverwriteShows
    <2>3. CASE InTree
      BY <2>2, <2>3 DEF FT!Next
    <2>4. CASE ~InTree
      <3>1. FT!Outside
        BY <1>4, <2>2, <2>4, OutOfTree, AnswerIs DEF FT!Outside
      <3> QED
        BY <3>1 DEF FT!Next
    <2> QED
      BY <2>3, <2>4
  <1> QED
    BY <1>1, <1>2, <1>3, <1>4 DEF fs_write_cwd, Answer

LEMMA RemoveShows ==
    ASSUME IInv, IInv', OnlyLive, NEW p, p.comps \in Seq(FsName), fs_unlink(p) \/ fs_rmdir(p)
    PROVE  FT!Next
  <1>1. PICK n : n = Resolve(p)
    OBVIOUS
  <1>2. CASE Fail
    BY <1>2, FailShows DEF FT!Next
  <1>3. CASE Drop(n) /\ n # NULL /\ n # fs_root /\ Listed(n) = {}
    <2>1. n \in nodes
      BY <1>1, <1>3, ResolveFacts DEF IInv
    <2>2. /\ n \in Below(fs_root) => FT!Unlink
          /\ n \notin Below(fs_root) => UNCHANGED <<CwdPath, LiveName, Trees>>
      BY <1>3, <2>1, DropShows
    <2>3. CASE n \in Below(fs_root)
      BY <2>2, <2>3 DEF FT!Next
    <2>4. CASE n \notin Below(fs_root)
      <3>1. CwdPath = {}
        BY <1>1, <1>3, <2>4, ResolveBelow, OutOfTree
      <3>2. Answer(Ok)
        BY <1>3 DEF Drop, Answer
      <3>3. FT!Outside
        BY <2>2, <2>4, <3>1, <3>2, AnswerIs DEF FT!Outside
      <3> QED
        BY <3>3 DEF FT!Next
    <2> QED
      BY <2>3, <2>4
  <1>4. ASSUME n # NULL, ~is_dir[n] PROVE n # fs_root /\ Listed(n) = {}
    <2>1. n \in HeapAddr
      BY <1>1, <1>4, ResolveFacts DEF IInv, TypeOK
    <2> QED
      BY <1>4, <2>1 DEF IInv, Links, DirsAreDirs, WellLinked
  <1>5. kids[n] = <<>> => Listed(n) = {}
    BY DEF Listed, ToSet
  <1>6. CASE fs_unlink(p)
    <2>1. Fail \/ (n # NULL /\ ~is_dir[n] /\ Drop(n))
      BY <1>1, <1>6 DEF fs_unlink
    <2> QED
      BY <1>2, <1>3, <1>4, <2>1
  <1>7. CASE fs_rmdir(p)
    <2>1. Fail \/ (n # NULL /\ n # fs_root /\ kids[n] = <<>> /\ Drop(n))
      BY <1>1, <1>7 DEF fs_rmdir
    <2> QED
      BY <1>2, <1>3, <1>5, <2>1
  <1> QED
    BY <1>6, <1>7

LEMMA RenameShows ==
    ASSUME IInv, IInv', OnlyLive, NEW old \in Path, NEW new \in Path, fs_rename(old, new)
    PROVE  FT!Next
  <1>1. PICK n : n = Resolve(old)
    OBVIOUS
  <1>2. CASE Fail
    BY <1>2, FailShows DEF FT!Next
  <1>3. ASSUME n # NULL, n # fs_root, NEW v \in Vacant(new), Relink(n, v.dir, v.name)
        PROVE  FT!Next
    <2>1. n \in nodes
      BY <1>1, <1>3, ResolveFacts DEF IInv
    <2>2. old.comps \in Seq(FsName) /\ new.comps \in Seq(FsName) /\ new \in AnyPath
      BY PathNames, FsAssumption DEF AnyPath
    <2>3. /\ v.dir \in nodes /\ is_dir[v.dir] /\ v.name \in Name
          /\ \A k \in Listed(v.dir) : name[k] # v.name
      BY <2>2, VacantFacts DEF IInv
    <2>4. InTree => n \in Below(fs_root) /\ v.dir \in Below(fs_root)
      BY <1>1, <1>3, <2>2, ResolveBelow, VacantBelow
    <2>5. FT!Move \/ FT!Lose \/ FT!Recover \/ FT!Outside
      BY <1>3, <2>1, <2>3, <2>4, RelinkShows
    <2> QED
      BY <2>5 DEF FT!Next
  <1> QED
    BY <1>1, <1>2, <1>3 DEF fs_rename

\* The steps of the filesystem: its own, and a change to a directory whose
\* path was put together (cd ..).
FileStep ==
    \/ Next
    \/ \E p : p.comps \in Seq(FsName) /\ fs_chdir(p)
    \/ UNCHANGED vars

\* What the proof keeps: on top of the invariants, that snapshots have names
\* and trees of their own.
RefInv ==
    /\ IInv /\ EncryptedAtRest /\ HoldNothing /\ CopyInv /\ SnapsApart
    /\ \E c : Coloured(c)

LEMMA SnapsApartSame ==
    ASSUME SnapsApart, UNCHANGED <<snaps, clone>>
    PROVE  SnapsApart'
  BY DEF SnapsApart, SnapNamed, Quiet

\* All but snap_create, its end and restore leave the snapshots and the roots
\* alone; so do these when they fail.
LEMMA RootsLeft ==
    ASSUME FileStep
    PROVE  \/ UNCHANGED <<fs_root, snaps, clone>>
           \/ \E s \in SnapName : fs_snap_create(s) /\ ~UNCHANGED clone
           \/ \E s \in SnapName : fs_snap_restore(s) /\ ~Fail
           \/ fs_clone_tree \/ SnapCreateEnd
  <1>1. ASSUME NEW p, \/ fs_mkdir(p) \/ fs_touch(p) \/ fs_read(p) \/ fs_chdir(p)
                      \/ fs_unlink(p) \/ fs_rmdir(p)
                      \/ \E len \in TextLen : fs_write(p, len)
        PROVE  UNCHANGED <<fs_root, snaps, clone>>
    BY <1>1 DEF fs_mkdir, fs_touch, fs_read, fs_chdir, fs_unlink, fs_rmdir, fs_write,
      NewEmpty, NewFile, Drop, Fail
  <1>2. ASSUME NEW p \in Path, NEW q \in Path, fs_rename(p, q) \/ fs_copy(p, q)
        PROVE  UNCHANGED <<fs_root, snaps, clone>>
    BY <1>2 DEF fs_rename, fs_copy, Relink, NewEmpty, NewFile, Fail
  <1>3. ASSUME NEW nm \in RawName, NEW len \in TextLen, fs_write_cwd(nm, len)
        PROVE  UNCHANGED <<fs_root, snaps, clone>>
    BY <1>3 DEF fs_write_cwd, NewFile, Fail
  <1>4. ASSUME NEW s \in SnapName, fs_snap_create(s)
        PROVE  UNCHANGED <<fs_root, snaps, clone>> \/ ~UNCHANGED clone
    BY <1>4 DEF fs_snap_create, Fail
  <1>5. ASSUME NEW s \in SnapName, fs_snap_restore(s)
        PROVE  UNCHANGED <<fs_root, snaps, clone>> \/ ~Fail
    BY <1>5 DEF Fail
  <1>6. CASE UNCHANGED vars
    BY <1>6 DEF vars
  <1> QED
    BY <1>1, <1>2, <1>3, <1>4, <1>5, <1>6 DEF FileStep, Next

\* Snapshots keep names and trees of their own: what is recorded is new.
LEMMA SnapsStayApart ==
    ASSUME IInv, SnapsApart, NEW col, Coloured(col), FileStep
    PROVE  SnapsApart'
  <1>1. CASE UNCHANGED <<snaps, clone>>
    BY <1>1, SnapsApartSame
  <1>2. ASSUME NEW s \in SnapName, fs_snap_create(s), ~UNCHANGED clone PROVE SnapsApart'
    <2>1. SnapNamed(s) = {} /\ clone'.snap = s /\ UNCHANGED snaps
      BY <1>2 DEF fs_snap_create, Fail
    <2>2. SnapNamed(clone.snap)' = {}
      BY <2>1 DEF SnapNamed
    <2> QED
      BY <2>1, <2>2 DEF SnapsApart
  <1>3. ASSUME NEW s \in SnapName, fs_snap_restore(s) PROVE SnapsApart'
    <2>1. UNCHANGED <<snaps, clone>>
      BY <1>3 DEF fs_snap_restore, Fail
    <2> QED
      BY <2>1, SnapsApartSame
  <1>4. CASE fs_clone_tree
    <2>1. clone'.snap = clone.snap /\ UNCHANGED snaps /\ ~Quiet
      <3>1. clone \in [snap : SnapName \cup {NoSnap}, root : HeapAddr \cup {NULL},
                       todo : Seq(Frame)]
        BY DEF IInv, TypeOK
      <3>2. clone.todo # <<>> /\ UNCHANGED snaps
        BY <1>4 DEF fs_clone_tree
      <3>3. clone'.snap = clone.snap
        BY <1>4, <3>1 DEF fs_clone_tree
      <3> QED
        BY <3>2, <3>3 DEF Quiet, NoClone
    <2>2. SnapNamed(clone.snap)' = {}
      BY <2>1 DEF SnapsApart, SnapNamed
    <2> QED
      BY <2>1, <2>2 DEF SnapsApart
  <1>5. CASE SnapCreateEnd
    <2>1. clone' = NoClone /\ ~Quiet
      BY <1>5 DEF SnapCreateEnd
    <2>2. CASE UNCHANGED snaps
      BY <2>1, <2>2 DEF SnapsApart, Quiet
    <2>3. CASE /\ clone.root # NULL
               /\ snaps' = <<[name |-> clone.snap, root |-> clone.root]>> \o snaps
      <3>1. PICK S : S = [name : SnapName, root : HeapAddr]
        OBVIOUS
      <3>2. PICK new : new = [name |-> clone.snap, root |-> clone.root]
        OBVIOUS
      <3>3. new.name = clone.snap /\ new.root = clone.root /\ new \in S /\ snaps \in Seq(S)
        BY <2>1, <2>3, <3>1, <3>2 DEF IInv, CloneOK, TypeOK, Quiet
      <3>4. /\ DOMAIN snaps' = 1 .. (Len(snaps) + 1)
            /\ snaps'[1] = new
            /\ \A i \in 2 .. (Len(snaps) + 1) : snaps'[i] = snaps[i - 1]
        BY <2>3, <3>2, <3>3, HeadInsertion
      <3>5. DOMAIN snaps = 1 .. Len(snaps) /\ Len(snaps) \in Nat
        BY <3>3, LenProperties
      <3>6. \A i \in DOMAIN snaps : snaps[i].name # new.name /\ snaps[i].root # new.root
        <4>1. \A i \in DOMAIN snaps : snaps[i].name # new.name
          BY <2>1, <3>3 DEF SnapsApart, SnapNamed
        <4>2. clone.root \notin SnapRoots
          BY <2>3 DEF Coloured, Roots
        <4> QED
          BY <3>3, <4>1, <4>2 DEF SnapRoots
      <3>7. ASSUME NEW i \in DOMAIN snaps', NEW j \in DOMAIN snaps',
                   snaps'[i].name = snaps'[j].name \/ snaps'[i].root = snaps'[j].root
            PROVE  i = j
        <4>1. \A k \in DOMAIN snaps' : k = 1 \/ (k - 1 \in DOMAIN snaps /\ snaps'[k] = snaps[k - 1])
          BY <3>4, <3>5
        <4>2. i \in Nat /\ j \in Nat
          BY <3>4
        <4>3. CASE i = 1 /\ j # 1
          BY <3>4, <3>6, <3>7, <4>1, <4>3
        <4>4. CASE i # 1 /\ j = 1
          BY <3>4, <3>6, <3>7, <4>1, <4>4
        <4>5. CASE i # 1 /\ j # 1
          <5>1. i - 1 = j - 1
            BY <3>7, <4>1, <4>5 DEF SnapsApart
          <5> QED
            BY <4>2, <5>1
        <4> QED
          BY <4>3, <4>4, <4>5
      <3> QED
        BY <2>1, <3>7 DEF SnapsApart, Quiet
    <2> QED
      BY <1>5, <2>2, <2>3 DEF SnapCreateEnd
  <1> QED
    BY <1>1, <1>2, <1>3, <1>4, <1>5, RootsLeft

LEMMA RefInvNext ==
    ASSUME RefInv, FileStep
    PROVE  /\ RefInv'
           /\ \E c : Coloured(c) /\ Keep(c)
  <1>1. PICK c : Coloured(c)
    BY DEF RefInv
  <1>2. SnapsApart'
    BY <1>1, SnapsStayApart DEF RefInv
  <1>3. CASE [Next]_vars
    <2>1. IInv' /\ EncryptedAtRest' /\ HoldNothing'
      BY <1>3, NextIInv, NextSealed, NextHoldsNothing DEF RefInv
    <2>2. CopyInv'
      BY <1>3, <2>1, NextCopies DEF RefInv
    <2>3. TreeInv' /\ \E d : Coloured(d) /\ Keep(d)
      BY <1>1, <1>3, StepHarmless DEF RefInv, TreeInv
    <2>4. \E d : Coloured(d)'
      BY <2>3 DEF TreeInv
    <2> QED
      BY <1>2, <2>1, <2>2, <2>3, <2>4 DEF RefInv
  <1>4. ASSUME NEW p, p.comps \in Seq(FsName), fs_chdir(p)
        PROVE  RefInv' /\ \E d : Coloured(d) /\ Keep(d)
    <2>1. IInv' /\ EncryptedAtRest'
      BY <1>4, ChdirInv, ChdirSealed DEF RefInv
    <2>2. Quiet /\ UNCHANGED <<nodes, is_dir, data, clone>>
      BY <1>4 DEF fs_chdir, Fail, tree
    <2>3. HoldNothing'
      BY <2>2 DEF RefInv, HoldNothing
    <2>4. CopyInv'
      <3>1. clone'.root = NULL /\ ToSet(clone'.todo) = {}
        BY <2>2 DEF Quiet, NoClone, ToSet
      <3> QED
        BY <3>1, NothingCopiedNext DEF NoneCopied
    <2>5. Harmless(c)
      BY <1>1, <1>4, ChdirHarmless DEF RefInv
    <2>6. Keep(c) /\ \E d : Coloured(d)'
      BY <2>5 DEF Harmless
    <2> QED
      BY <1>1, <1>2, <2>1, <2>3, <2>4, <2>6 DEF RefInv
  <1> QED
    BY <1>3, <1>4 DEF FileStep

LEMMA StepShows ==
    ASSUME RefInv, FileStep
    PROVE  Shown
  <1>1. RefInv' /\ IInv /\ IInv' /\ EncryptedAtRest /\ CopyInv /\ SnapsApart /\ SnapsApart'
    BY RefInvNext DEF RefInv
  <1>2. PICK c : Coloured(c) /\ Keep(c)
    BY RefInvNext
  <1>3. UNCHANGED <<fs_root, snaps>> => OnlyLive
    BY <1>1, <1>2, OnlyLiveChanges
  <1>4. CASE Fail
    <2>1. OnlyLive
      BY <1>3, <1>4 DEF Fail
    <2>2. FT!Refuse
      BY <1>1, <1>4, <2>1, FailShows
    <2> QED
      BY <2>2 DEF Shown, FT!Next
  <1>5. ASSUME NEW s \in SnapName, fs_snap_create(s) PROVE Shown
    <2>1. CASE UNCHANGED <<heap_offset, tree, fs_root, fs_cwd, snaps, ret, out>>
      <3>1. UNCHANGED <<fs_root, snaps, fs_cwd, ret, out, name, is_dir, data, kids>>
        BY <2>1 DEF tree
      <3>2. OnlyLive
        BY <1>3, <3>1
      <3>3. UNCHANGED <<LiveName, Trees, CwdPath>>
        BY <1>1, <3>1, <3>2, StaysShows
      <3> QED
        BY <3>1, <3>3 DEF Shown
    <2> QED
      BY <1>4, <1>5, <2>1 DEF fs_snap_create
  <1>6. ASSUME NEW s \in SnapName, fs_snap_restore(s) PROVE Shown
    <2>1. CASE \E i \in SnapNamed(s) :
            /\ fs_root' = snaps[i].root /\ fs_cwd' = snaps[i].root
            /\ Answer(Ok) /\ UNCHANGED <<tree, snaps>>
      <3>1. PICK e \in ToSet(snaps) : fs_root' = e.root /\ fs_cwd' = e.root
        BY <2>1 DEF SnapNamed, ToSet
      <3>2. FT!Restore
        BY <1>1, <2>1, <3>1, RestoreShows
      <3> QED
        BY <3>2 DEF Shown, FT!Next
    <2> QED
      BY <1>4, <1>6, <2>1 DEF fs_snap_restore, Answer
  <1>7. CASE fs_clone_tree
    <2>1. OnlyLive
      BY <1>3, <1>7 DEF fs_clone_tree
    <2> QED
      BY <1>1, <1>2, <1>7, <2>1, CloneShows DEF Shown
  <1>8. CASE SnapCreateEnd
    <2>1. CASE ret' = Ok
      <3>1. clone.root # NULL
        BY <1>8, <2>1 DEF SnapCreateEnd, Ok, Error
      <3>2. FT!Save
        BY <1>1, <1>2, <1>8, <2>1, <3>1, SaveShows
      <3> QED
        BY <3>2 DEF Shown, FT!Next
    <2>2. CASE ret' # Ok
      <3>1. UNCHANGED <<fs_root, snaps>>
        BY <1>8, <2>2 DEF SnapCreateEnd
      <3>2. FT!Refuse
        BY <1>1, <1>3, <1>8, <2>2, <3>1, UnsavedShows
      <3> QED
        BY <3>2 DEF Shown, FT!Next
    <2> QED
      BY <2>1, <2>2
  <1>9. CASE UNCHANGED vars
    <2>1. UNCHANGED <<fs_root, snaps, fs_cwd, ret, out, name, is_dir, data, kids>>
      BY <1>9 DEF vars, tree
    <2>2. OnlyLive
      BY <1>3, <2>1
    <2>3. UNCHANGED <<LiveName, Trees, CwdPath>>
      BY <1>1, <2>1, <2>2, StaysShows
    <2> QED
      BY <2>1, <2>3 DEF Shown
  <1>10. ASSUME OnlyLive, NEW p, p.comps \in Seq(FsName),
                fs_chdir(p) \/ fs_read(p) \/ fs_unlink(p) \/ fs_rmdir(p)
         PROVE  Shown
    <2>1. CASE fs_chdir(p)
      <3>1. FT!Refuse \/ FT!Chdir \/ FT!Outside
        BY <1>1, <1>10, <2>1, ChdirShows
      <3> QED
        BY <3>1 DEF Shown, FT!Next
    <2>2. CASE fs_read(p)
      <3>1. FT!Refuse \/ FT!Read \/ FT!Outside
        BY <1>1, <1>10, <2>2, ReadShows
      <3> QED
        BY <3>1 DEF Shown, FT!Next
    <2>3. CASE fs_unlink(p) \/ fs_rmdir(p)
      BY <1>1, <1>10, <2>3, RemoveShows DEF Shown
    <2> QED
      BY <1>10, <2>1, <2>2, <2>3
  <1>11. ASSUME OnlyLive, NEW p \in Path,
                \/ fs_mkdir(p) \/ fs_touch(p)
                \/ \E len \in TextLen : fs_write(p, len)
                \/ \E q \in Path : fs_copy(q, p)
         PROVE  Shown
    BY <1>1, <1>11, CreateShows DEF Shown
  <1>12. ASSUME OnlyLive, NEW p \in Path, NEW q \in Path, fs_rename(p, q) PROVE Shown
    BY <1>1, <1>12, RenameShows DEF Shown
  <1>13. ASSUME OnlyLive, NEW nm \in RawName, NEW len \in TextLen, fs_write_cwd(nm, len)
         PROVE  Shown
    BY <1>1, <1>13, EditShows DEF Shown
  <1>14. CASE UNCHANGED <<fs_root, snaps, clone>>
    <2>1. OnlyLive
      BY <1>3, <1>14
    <2>2. \A p \in Path : p.comps \in Seq(FsName)
      BY PathNames
    <2> QED
      BY <1>5, <1>6, <1>7, <1>8, <1>9, <1>10, <1>11, <1>12, <1>13, <2>1, <2>2 DEF FileStep, Next
  <1> QED
    BY <1>5, <1>6, <1>7, <1>8, <1>14, RootsLeft

\* What does not show changes nothing the reader sees either.
LEMMA ShownIsNext == Shown => [FT!Next]_(FT!vars)
  <1>1. UNCHANGED out => UNCHANGED Legible(out, FALSE)
    BY DEF Legible
  <1> QED
    BY <1>1 DEF Shown, FT!vars

-----------------------------------------------------------------------------
(* Where it begins *)

LEMMA InitRefInv == Init => RefInv
  <1> SUFFICES ASSUME Init PROVE RefInv
    OBVIOUS
  <1>1. IInv /\ EncryptedAtRest /\ \E c : Coloured(c)
    BY InitIInv, InitSealed, InitColoured
  <1>2. HoldNothing
    <2>1. nodes \subseteq HeapAddr
      BY <1>1 DEF IInv, TypeOK
    <2> QED
      BY <2>1 DEF Init, HoldNothing
  <1>3. clone.root = NULL /\ ToSet(clone.todo) = {}
    BY DEF Init, NoClone, ToSet
  <1>4. CopyInv
    BY <1>3, NothingCopied DEF NoneCopied
  <1>5. SnapsApart
    BY DEF Init, SnapsApart, Quiet
  <1> QED
    BY <1>1, <1>2, <1>4, <1>5 DEF RefInv

\* A tree whose root lists nothing is its root.
LEMMA BareTree ==
    ASSUME NEW P, NEW L, NEW nm, NEW r, Tree(P, L, nm, r), L[r] = {}
    PROVE  P = {Top(r)}
  <1>1. Top(r) \in P
    BY DEF Tree
  <1>2. Top(r).node = r
    BY DEF Top
  <1>3. Top(r) \in {Top(r)}
    OBVIOUS
  <1>4. \A x \in P \cap {Top(r)} : \A c \in L[x.node] : Down(x, c, nm) \in {Top(r)}
    BY <1>2
  <1>5. P \subseteq {Top(r)}
    BY <1>3, <1>4, TreeInduction
  <1> QED
    BY <1>1, <1>5

\* At first there is one tree, an empty directory, and it is the current one.
LEMMA InitShows == Init => FT!Init
  <1> SUFFICES ASSUME Init PROVE FT!Init
    OBVIOUS
  <1>1. IInv /\ SnapsApart
    BY InitRefInv DEF RefInv
  <1>2. LiveShown /\ SavedTrees /\ TreesShaped /\ CwdShown
    BY <1>1, LiveIs, SavedTreesAre, TreesAreShaped, CwdIs
  <1>3. fs_root \in HeapAddr
    BY <1>1 DEF IInv, TypeOK
  <1>4. Lists[fs_root] = {}
    BY <1>3 DEF Init, Lists, Listed, ToSet
  <1>5. Descents(fs_root) = {Top(fs_root)}
    BY <1>2, <1>4, BareTree DEF LiveShown
  <1>6. Top(fs_root).path = <<>> /\ Top(fs_root).node = fs_root
    BY DEF Top
  <1>7. Entries[fs_root] = FT!Dir
    BY <1>3 DEF Init, Entries, Legible, FT!Dir
  <1>8. LiveTree = [p \in {<<>>} |-> FT!Dir]
    <2>1. DOMAIN LiveTree = {<<>>} /\ LiveTree[<<>>] = FT!Dir
      BY <1>2, <1>5, <1>6, <1>7 DEF LiveShown, Shows
    <2>2. LiveTree = [p \in DOMAIN LiveTree |-> LiveTree[p]]
      BY <1>2 DEF LiveShown, Shows
    <2> QED
      BY <2>1, <2>2
  <1>9. ToSet(snaps) = {}
    BY DEF Init, ToSet
  <1>10. LiveName = NoSnap
    BY <1>2, <1>9 DEF SavedTrees
  <1>11. Trees = [s \in {NoSnap} |-> [p \in {<<>>} |-> FT!Dir]]
    <2>1. DOMAIN Trees = {NoSnap} /\ Trees[NoSnap] = LiveTree
      BY <1>2, <1>9, <1>10 DEF SavedTrees
    <2>2. Trees = [s \in DOMAIN Trees |-> Trees[s]]
      BY <1>2 DEF TreesShaped
    <2> QED
      BY <1>8, <2>1, <2>2
  <1>12. CwdPath = {<<>>}
    <2>1. CwdPath = At(Descents(fs_root), fs_root)
      BY <1>2 DEF CwdShown, Init
    <2> QED
      BY <1>2, <2>1, AtTop DEF LiveShown
  <1>13. ret = Ok /\ Legible(out, FALSE) = 0
    BY DEF Init, Legible
  <1> QED
    BY <1>10, <1>11, <1>12, <1>13 DEF FT!Init

-----------------------------------------------------------------------------
(* Commands *)

\* A command is a step of the filesystem.
LEMMA CommandFiles == TypeOK /\ SessionOK /\ [ShellNext]_shell_vars => FileStep
  <1> SUFFICES ASSUME TypeOK, SessionOK, [ShellNext]_shell_vars PROVE FileStep
    OBVIOUS
  <1>1. CASE mkdir \/ touch \/ cat \/ write \/ rm \/ rmdir
    BY <1>1 DEF mkdir, touch, cat, write, rm, rmdir, Permitted, Given, FileStep, Next
  <1>2. CASE mv \/ cp
    BY <1>2 DEF mv, cp, Permitted, Given, FileStep, Next
  <1>3. CASE snap_create \/ snap_restore
    BY <1>3 DEF snap_create, snap_restore, Permitted, FileStep, Next
  <1>4. CASE cmd_cd_up
    <2>1. PICK p : p = [abs |-> TRUE, comps |-> CdUpTarget]
      OBVIOUS
    <2>2. p.comps \in Seq(FsName) /\ fs_chdir(p)
      BY <1>4, <2>1, CdUpNames DEF cmd_cd_up
    <2> QED
      BY <2>2 DEF FileStep
  <1>5. CASE \E p \in Given : cmd_cd(p)
    BY <1>5 DEF cmd_cd, Given, FileStep, Next
  <1>6. CASE (\E u \in users : cmd_login(u)) \/ (\E nm \in RawName : editor_start(nm))
    BY <1>6 DEF cmd_login, editor_start, FileStep
  <1>7. CASE EditorType \/ EditorErase
    BY <1>7 DEF EditorType, EditorErase, FileStep
  <1>8. CASE EditorEscape
    BY <1>8, SaveStep DEF FileStep
  <1>9. CASE fs_clone_tree \/ SnapCreateEnd
    BY <1>9 DEF FileStep, Next
  <1>10. CASE UNCHANGED shell_vars
    BY <1>10 DEF shell_vars, FileStep
  <1> QED
    BY <1>1, <1>2, <1>3, <1>4, <1>5, <1>6, <1>7, <1>8, <1>9, <1>10 DEF ShellNext

\* KeepsFsTrees: whatever calls are made, in whatever order, the trees that
\* paths show change as in FsTrees, which knows no nodes, links or heap.
THEOREM FilesystemKeepsTrees == Spec => KeepsFsTrees
  <1>1. Init => FT!Init
    BY InitShows
  <1>2. Init => RefInv
    BY InitRefInv
  <1>3. RefInv /\ [Next]_vars => RefInv' /\ [FT!Next]_(FT!vars)
    BY RefInvNext, StepShows, ShownIsNext DEF FileStep
  <1> QED
    BY <1>1, <1>2, <1>3, PTL DEF Spec, KeepsFsTrees, FT!Spec

\* KeepsFsTrees holds at the shell as well: for every command, for cd .. by
\* the path that fs_getcwd puts together, and for what the editor saves.
THEOREM ShellKeepsTrees == ShellSpec => KeepsFsTrees
  <1>1. ShellInit => FT!Init
    BY InitShows DEF ShellInit
  <1>2. ShellInit => RefInv /\ SessionOK
    BY InitRefInv, ShellAssumption DEF ShellInit, SessionOK, EditorOff, users, perms
  <1>3. RefInv /\ SessionOK /\ [ShellNext]_shell_vars
        => (RefInv /\ SessionOK)' /\ [FT!Next]_(FT!vars)
    <2> SUFFICES ASSUME RefInv, SessionOK, [ShellNext]_shell_vars
                 PROVE  (RefInv /\ SessionOK)' /\ [FT!Next]_(FT!vars)
      OBVIOUS
    <2>1. TypeOK
      BY DEF RefInv, IInv
    <2>2. FileStep /\ SessionOK'
      BY <2>1, CommandFiles, SessionNext
    <2> QED
      BY <2>2, RefInvNext, StepShows, ShownIsNext
  <1> QED
    BY <1>1, <1>2, <1>3, PTL DEF ShellSpec, KeepsFsTrees, FT!Spec
=============================================================================
