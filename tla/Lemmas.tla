------------------------------- MODULE Lemmas -------------------------------
(***************************************************************************)
(* Facts that several proofs need: the least element of a set of numbers,  *)
(* division, and what an insertion at the head or at the end of a list of  *)
(* children, or the removal of one, does to the list's elements and to the *)
(* uniqueness of their names.                                              *)
(***************************************************************************)
EXTENDS Integers, SequencesExt, SequenceTheorems, WellFoundedInduction, TLAPS

\* No two positions of s hold elements with the same image under f.
OneToOne(s, f) == \A i, j \in DOMAIN s : f[s[i]] = f[s[j]] => i = j

-----------------------------------------------------------------------------
\* A set of natural numbers that is not empty has a least element: what a
\* proof by induction over one given formula needs.
LEMMA LeastNat ==
    ASSUME NEW S \in SUBSET Nat, S # {}
    PROVE  \E n \in S : \A m \in S : n <= m
  <1> DEFINE Less == {ss \in Nat \X Nat : ss[1] < ss[2]}
  <1>1. IsWellFoundedOn(Less, Nat)
    BY NatLessThanWellFounded DEF OpToRel
  <1>2. PICK n \in S : \A m \in S : ~ (<<m, n>> \in Less)
    <2> HIDE DEF Less
    <2> QED
      BY <1>1, WFMin
  <1>3. \A m \in S : ~ (m < n)
    BY <1>2
  <1> QED
    BY <1>3

\* A number is its quotient times the divisor plus its remainder, ...
LEMMA DivMod ==
    ASSUME NEW d \in Nat \ {0}, NEW a \in Nat
    PROVE  /\ a \div d \in Nat
           /\ a % d \in 0 .. d - 1
           /\ a = (a \div d) * d + (a % d)
  OBVIOUS

\* ... and these are the only two that it is made of.
LEMMA DivModUnique ==
    ASSUME NEW d \in Nat \ {0}, NEW q \in Nat, NEW r \in 0 .. d - 1
    PROVE  /\ (q * d + r) \div d = q
           /\ (q * d + r) % d = r
  OBVIOUS

-----------------------------------------------------------------------------
LEMMA HeadInsertion ==
    ASSUME NEW S, NEW s \in Seq(S), NEW e \in S
    PROVE  /\ <<e>> \o s \in Seq(S)
           /\ DOMAIN (<<e>> \o s) = 1 .. (Len(s) + 1)
           /\ (<<e>> \o s)[1] = e
           /\ \A i \in 1 .. Len(s) : (<<e>> \o s)[i + 1] = s[i]
           /\ \A i \in 2 .. (Len(s) + 1) : (<<e>> \o s)[i] = s[i - 1]
           /\ ToSet(<<e>> \o s) = ToSet(s) \cup {e}
  <1> DEFINE t == <<e>> \o s
  <1>1. <<e>> \in Seq(S) /\ Len(<<e>>) = 1 /\ <<e>>[1] = e
    OBVIOUS
  <1>2. t \in Seq(S) /\ Len(t) = Len(s) + 1
    BY <1>1, ConcatProperties, LenProperties
  <1>3. \A i \in 1 .. Len(t) : t[i] = IF i <= 1 THEN <<e>>[i] ELSE s[i - 1]
    BY <1>1, <1>2, ConcatProperties
  <1>4. DOMAIN t = 1 .. (Len(s) + 1) /\ DOMAIN s = 1 .. Len(s) /\ Len(s) \in Nat
    BY <1>2, LenProperties
  <1>5. t[1] = e
    BY <1>1, <1>2, <1>3, <1>4
  <1>6. \A i \in 1 .. Len(s) : t[i + 1] = s[i]
    BY <1>2, <1>3, <1>4
  <1>7. \A i \in 2 .. (Len(s) + 1) : t[i] = s[i - 1]
    BY <1>2, <1>3, <1>4
  <1>8. ToSet(t) = ToSet(s) \cup {e}
    <2>1. ASSUME NEW x \in ToSet(t) PROVE x \in ToSet(s) \cup {e}
      <3>1. PICK i \in 1 .. (Len(s) + 1) : x = t[i]
        BY <1>4 DEF ToSet
      <3>2. CASE i = 1
        BY <3>1, <3>2, <1>5
      <3>3. CASE i # 1
        <4>1. i \in 2 .. (Len(s) + 1) /\ i - 1 \in DOMAIN s
          BY <3>3, <1>4
        <4> QED
          BY <3>1, <4>1, <1>7 DEF ToSet
      <3> QED
        BY <3>2, <3>3
    <2>2. ASSUME NEW x \in ToSet(s) \cup {e} PROVE x \in ToSet(t)
      <3>1. CASE x = e
        BY <3>1, <1>4, <1>5 DEF ToSet
      <3>2. CASE x \in ToSet(s)
        <4>1. PICK i \in 1 .. Len(s) : x = s[i]
          BY <3>2, <1>4 DEF ToSet
        <4>2. i + 1 \in DOMAIN t
          BY <1>4
        <4> QED
          BY <4>1, <4>2, <1>6 DEF ToSet
      <3> QED
        BY <3>1, <3>2
    <2> QED
      BY <2>1, <2>2
  <1> QED
    BY <1>2, <1>4, <1>5, <1>6, <1>7, <1>8

LEMMA TailInsertion ==
    ASSUME NEW S, NEW s \in Seq(S), NEW e \in S
    PROVE  /\ Append(s, e) \in Seq(S)
           /\ DOMAIN Append(s, e) = 1 .. (Len(s) + 1)
           /\ Append(s, e)[Len(s) + 1] = e
           /\ \A i \in 1 .. Len(s) : Append(s, e)[i] = s[i]
           /\ ToSet(Append(s, e)) = ToSet(s) \cup {e}
  <1> DEFINE t == Append(s, e)
  <1>1. /\ t \in Seq(S)
        /\ Len(t) = Len(s) + 1
        /\ t[Len(s) + 1] = e
        /\ \A i \in 1 .. Len(s) : t[i] = s[i]
    BY AppendProperties
  <1>2. DOMAIN t = 1 .. (Len(s) + 1) /\ DOMAIN s = 1 .. Len(s) /\ Len(s) \in Nat
    BY <1>1, LenProperties
  <1>3. \A i \in DOMAIN t : i = Len(s) + 1 \/ i \in DOMAIN s
    BY <1>2
  <1>4. \A i \in DOMAIN s : i \in DOMAIN t
    BY <1>2
  <1>5. Len(s) + 1 \in DOMAIN t
    BY <1>2
  <1> HIDE DEF t
  <1>6. ToSet(t) = ToSet(s) \cup {e}
    BY <1>1, <1>2, <1>3, <1>4, <1>5 DEF ToSet
  <1> QED
    BY <1>1, <1>2, <1>6 DEF t

\* What RemoveAt returns, position by position.
LEMMA Removal ==
    ASSUME NEW S, NEW s \in Seq(S), NEW k \in DOMAIN s
    PROVE  LET t == RemoveAt(s, k)
           IN  /\ t \in Seq(S)
               /\ DOMAIN t = 1 .. (Len(s) - 1)
               /\ \A i \in 1 .. (Len(s) - 1) :
                     t[i] = s[IF i < k THEN i ELSE i + 1]
  <1> DEFINE t == RemoveAt(s, k)
             u == SubSeq(s, 1, k - 1)
             v == SubSeq(s, k + 1, Len(s))
  <1>1. k \in 1 .. Len(s) /\ Len(s) \in Nat /\ k \in Nat
    BY LenProperties
  <1>2. /\ u \in Seq(S)
        /\ Len(u) = k - 1
        /\ \A i \in 1 .. (k - 1) : u[i] = s[i]
    BY <1>1, SubSeqProperties
  <1>3. /\ v \in Seq(S)
        /\ Len(v) = Len(s) - k
        /\ \A i \in 1 .. (Len(s) - k) : v[i] = s[k + i]
    <2>1. /\ k + 1 \in 1 .. (Len(s) + 1)
          /\ Len(s) \in k .. Len(s)
          /\ (k + 1) - 1 = k
      BY <1>1
    <2>2. /\ v \in Seq(S)
          /\ Len(v) = IF k + 1 <= Len(s) THEN Len(s) - (k + 1) + 1 ELSE 0
          /\ \A i \in 1 .. (Len(s) - (k + 1) + 1) : v[i] = s[(k + 1) + i - 1]
      BY <2>1, <1>1, SubSeqProperties
    <2>3. Len(s) - (k + 1) + 1 = Len(s) - k /\ (k + 1 > Len(s) => Len(s) - k = 0)
      BY <1>1
    <2>4. \A i \in 1 .. (Len(s) - k) : (k + 1) + i - 1 = k + i
      BY <1>1
    <2> QED
      BY <2>2, <2>3, <2>4
  <1>4. /\ t \in Seq(S)
        /\ Len(t) = Len(s) - 1
        /\ \A i \in 1 .. Len(t) : t[i] = IF i <= k - 1 THEN u[i] ELSE v[i - (k - 1)]
    <2>1. t = u \o v
      BY DEF RemoveAt
    <2>2. (k - 1) + (Len(s) - k) = Len(s) - 1
      BY <1>1
    <2> HIDE DEF t, u, v
    <2>3. /\ u \o v \in Seq(S)
          /\ Len(u \o v) = Len(u) + Len(v)
          /\ \A i \in 1 .. Len(u) + Len(v) :
                (u \o v)[i] = IF i <= Len(u) THEN u[i] ELSE v[i - Len(u)]
      BY <1>2, <1>3, ConcatProperties
    <2> QED
      BY <2>1, <2>2, <2>3, <1>2, <1>3
  <1>5. DOMAIN t = 1 .. (Len(s) - 1)
    BY <1>4, LenProperties
  <1>6. ASSUME NEW i \in 1 .. (Len(s) - 1)
        PROVE  t[i] = s[IF i < k THEN i ELSE i + 1]
    <2>1. CASE i < k
      <3>1. i <= k - 1 /\ i \in 1 .. (k - 1)
        BY <2>1, <1>1
      <3> QED
        BY <3>1, <2>1, <1>2, <1>4
    <2>2. CASE ~(i < k)
      <3>1. /\ ~(i <= k - 1)
            /\ i - (k - 1) \in 1 .. (Len(s) - k)
            /\ k + (i - (k - 1)) = i + 1
        BY <2>2, <1>1
      <3> QED
        BY <3>1, <2>2, <1>3, <1>4
    <2> QED
      BY <2>1, <2>2
  <1> QED
    BY <1>4, <1>5, <1>6

-----------------------------------------------------------------------------
\* Uniqueness depends only on the names of the elements.
LEMMA SameOneToOne ==
    ASSUME NEW s, NEW f, NEW g, OneToOne(s, f), \A x \in ToSet(s) : g[x] = f[x]
    PROVE  OneToOne(s, g)
  BY DEF OneToOne, ToSet

\* An element with a new name may be put first.
LEMMA HeadOneToOne ==
    ASSUME NEW S, NEW s \in Seq(S), NEW e \in S, NEW f,
           OneToOne(s, f), \A x \in ToSet(s) : f[x] # f[e]
    PROVE  OneToOne(<<e>> \o s, f)
  <1> DEFINE t == <<e>> \o s
  <1>1. /\ DOMAIN t = 1 .. (Len(s) + 1)
        /\ t[1] = e
        /\ \A i \in 2 .. (Len(s) + 1) : t[i] = s[i - 1]
    BY HeadInsertion
  <1>2. DOMAIN s = 1 .. Len(s) /\ Len(s) \in Nat
    BY LenProperties
  <1> HIDE DEF t
  <1>3. ASSUME NEW i \in DOMAIN t, i # 1
        PROVE  i - 1 \in DOMAIN s /\ t[i] = s[i - 1] /\ t[i] \in ToSet(s)
    <2>1. i \in 2 .. (Len(s) + 1) /\ i - 1 \in DOMAIN s
      BY <1>1, <1>2, <1>3
    <2> QED
      BY <2>1, <1>1 DEF ToSet
  <1>4. ASSUME NEW i \in DOMAIN t, NEW j \in DOMAIN t, f[t[i]] = f[t[j]]
        PROVE  i = j
    <2>1. CASE i = 1 \/ j = 1
      BY <2>1, <1>1, <1>3, <1>4
    <2>2. CASE i # 1 /\ j # 1
      <3>1. f[s[i - 1]] = f[s[j - 1]] /\ i - 1 \in DOMAIN s /\ j - 1 \in DOMAIN s
        BY <2>2, <1>3, <1>4
      <3>2. i - 1 = j - 1
        BY <3>1 DEF OneToOne
      <3> QED
        BY <3>2, <1>1
    <2> QED
      BY <2>1, <2>2
  <1> QED
    BY <1>4 DEF OneToOne, t

\* ... or last.
LEMMA TailOneToOne ==
    ASSUME NEW S, NEW s \in Seq(S), NEW e \in S, NEW f,
           OneToOne(s, f), \A x \in ToSet(s) : f[x] # f[e]
    PROVE  OneToOne(Append(s, e), f)
  <1> DEFINE t == Append(s, e)
  <1>1. /\ DOMAIN t = 1 .. (Len(s) + 1)
        /\ t[Len(s) + 1] = e
        /\ \A i \in 1 .. Len(s) : t[i] = s[i]
    BY TailInsertion
  <1>2. DOMAIN s = 1 .. Len(s) /\ Len(s) \in Nat
    BY LenProperties
  <1> HIDE DEF t
  <1>3. ASSUME NEW i \in DOMAIN t, i # Len(s) + 1
        PROVE  i \in DOMAIN s /\ t[i] = s[i] /\ t[i] \in ToSet(s)
    <2>1. i \in 1 .. Len(s)
      BY <1>1, <1>2, <1>3
    <2> QED
      BY <2>1, <1>1, <1>2 DEF ToSet
  <1>4. ASSUME NEW i \in DOMAIN t, NEW j \in DOMAIN t, f[t[i]] = f[t[j]]
        PROVE  i = j
    BY <1>1, <1>3, <1>4 DEF OneToOne
  <1> QED
    BY <1>4 DEF OneToOne, t

\* An element that occurs once is gone after its removal, the others stay,
\* and so does the uniqueness of their names.
LEMMA RemovalOneToOne ==
    ASSUME NEW S, NEW s \in Seq(S), NEW f, OneToOne(s, f), NEW e \in ToSet(s)
    PROVE  LET t == RemoveAt(s, CHOOSE i \in DOMAIN s : s[i] = e)
           IN  /\ t \in Seq(S)
               /\ ToSet(t) = ToSet(s) \ {e}
               /\ OneToOne(t, f)
  <1> DEFINE k == CHOOSE i \in DOMAIN s : s[i] = e
             t == RemoveAt(s, k)
             at(i) == IF i < k THEN i ELSE i + 1
  <1>1. k \in DOMAIN s /\ s[k] = e
    BY DEF ToSet
  <1>2. DOMAIN s = 1 .. Len(s) /\ Len(s) \in Nat
    BY LenProperties
  <1> HIDE DEF k
  <1>3. /\ t \in Seq(S)
        /\ DOMAIN t = 1 .. (Len(s) - 1)
        /\ \A i \in 1 .. (Len(s) - 1) : t[i] = s[at(i)]
    BY <1>1, Removal
  <1> HIDE DEF t
  <1>4. \A i \in DOMAIN t : at(i) \in DOMAIN s /\ at(i) # k
    BY <1>1, <1>2, <1>3
  <1>5. \A i, j \in DOMAIN t : at(i) = at(j) => i = j
    BY <1>1, <1>2, <1>3
  <1>6. \A i \in DOMAIN s : i # k => \E j \in DOMAIN t : at(j) = i
    <2> SUFFICES ASSUME NEW i \in DOMAIN s, i # k
                 PROVE  \E j \in DOMAIN t : at(j) = i
      OBVIOUS
    <2>1. CASE i < k
      BY <2>1, <1>1, <1>2, <1>3
    <2>2. CASE ~(i < k)
      <3>1. i - 1 \in DOMAIN t /\ at(i - 1) = i
        BY <2>2, <1>1, <1>2, <1>3
      <3> QED
        BY <3>1
    <2> QED
      BY <2>1, <2>2
  <1> HIDE DEF at
  <1>7. OneToOne(t, f)
    BY <1>3, <1>4, <1>5 DEF OneToOne
  <1>8. ToSet(t) = ToSet(s) \ {e}
    <2>1. ASSUME NEW x \in ToSet(t) PROVE x \in ToSet(s) /\ x # e
      <3>1. PICK i \in DOMAIN t : x = s[at(i)]
        BY <1>3 DEF ToSet
      <3>2. at(i) \in DOMAIN s /\ at(i) # k
        BY <1>4
      <3> QED
        BY <3>1, <3>2, <1>1 DEF ToSet, OneToOne
    <2>2. ASSUME NEW x \in ToSet(s), x # e PROVE x \in ToSet(t)
      <3>1. PICK i \in DOMAIN s : x = s[i]
        BY DEF ToSet
      <3>2. i # k
        BY <3>1, <2>2, <1>1
      <3>3. PICK j \in DOMAIN t : at(j) = i
        BY <3>2, <1>6
      <3> QED
        BY <3>1, <3>3, <1>3 DEF ToSet
    <2> QED
      BY <2>1, <2>2
  <1> QED
    BY <1>3, <1>7, <1>8 DEF t, k
=============================================================================
