---------------------------- MODULE MemoryProofs ----------------------------
(***************************************************************************)
(* Proofs about Memory: the bitmap has the bit of a frame set exactly      *)
(* while the frame is held or belongs to the kernel.  A translation that   *)
(* the processor cached is that of the tables, except at the page of an    *)
(* entry that a call has stored and not yet flushed; and the entries that  *)
(* the caller made lead to frames that it holds.  At the end come the      *)
(* proofs about KHeap, which shares nothing with Memory.                   *)
(***************************************************************************)
EXTENDS KHeap, Memory, Lemmas

-----------------------------------------------------------------------------
(* The bitmap *)

LEMMA MinIn ==
    ASSUME NEW S \in SUBSET Nat, S # {}
    PROVE  Min(S) \in S
  BY LeastNat DEF Min

LEMMA Sizes ==
    /\ WordBits \in Nat \ {0} /\ Words \in Nat \ {0} /\ KernelEnd \in Nat \ {0}
    /\ PAGE_SIZE \in Nat \ {0}
    /\ MAX_FRAMES \in Nat
  BY PhysAssumption, PageSizeAssumption DEF MAX_FRAMES

\* Every frame has its word and its bit there, ...
LEMMA PlaceOfFrame ==
    ASSUME NEW f \in Frame
    PROVE  /\ f \in Nat
           /\ f \div WordBits \in Word
           /\ f % WordBits \in Bit
           /\ f = (f \div WordBits) * WordBits + (f % WordBits)
  <1>1. f \in Nat /\ f < WordBits * Words
    BY Sizes DEF Frame, MAX_FRAMES
  <1> DEFINE q == f \div WordBits
             r == f % WordBits
  <1>2. q \in Nat /\ r \in 0 .. WordBits - 1 /\ f = q * WordBits + r
    BY <1>1, Sizes, DivMod
  <1> HIDE DEF q, r
  <1>3. q < Words
    <2>1. SUFFICES ASSUME q >= Words PROVE FALSE
      BY <1>2, Sizes
    <2>2. q * WordBits >= Words * WordBits
      BY <2>1, <1>2, Sizes
    <2> QED
      BY <2>2, <1>1, <1>2, Sizes
  <1>4. q \in Word /\ r \in Bit
    BY <1>2, <1>3, Sizes DEF Word, Bit
  <1> QED
    BY <1>1, <1>2, <1>4 DEF q, r

\* ... and every bit of the bitmap is that of a frame.
LEMMA FrameOfPlace ==
    ASSUME NEW i \in Word, NEW b \in Bit
    PROVE  /\ i * WordBits + b \in Frame
           /\ (i * WordBits + b) \div WordBits = i
           /\ (i * WordBits + b) % WordBits = b
  <1>1. i \in Nat /\ i <= Words - 1 /\ b \in 0 .. WordBits - 1
    BY Sizes DEF Word, Bit
  <1>2. i * WordBits <= (Words - 1) * WordBits
    BY <1>1, Sizes
  <1>3. i * WordBits + b \in Nat /\ i * WordBits + b <= WordBits * Words - 1
    BY <1>1, <1>2, Sizes
  <1> QED
    BY <1>1, <1>3, Sizes, DivModUnique DEF Frame, MAX_FRAMES

\* Two frames share no bit.
LEMMA PlacesApart ==
    ASSUME NEW f \in Frame, NEW g \in Frame,
           f \div WordBits = g \div WordBits, f % WordBits = g % WordBits
    PROVE  f = g
  BY PlaceOfFrame

\* The reserved frames are those that hold a byte of the kernel.
LEMMA ReservedHoldKernel ==
    ASSUME NEW f \in Nat
    PROVE  f \in Reserved <=> f * PAGE_SIZE < KernelEnd
  <1> DEFINE a == KernelEnd + PAGE_SIZE - 1
             c == a \div PAGE_SIZE
             r == a % PAGE_SIZE
  <1>1. a \in Nat
    BY Sizes
  <1>2. c \in Nat /\ r \in 0 .. PAGE_SIZE - 1 /\ a = c * PAGE_SIZE + r
    BY <1>1, Sizes, DivMod
  <1>3. f \in Reserved <=> f < c
    BY <1>2, Sizes DEF Reserved
  <1>4. KernelEnd + PAGE_SIZE - 1 = c * PAGE_SIZE + r
    BY <1>2
  <1> HIDE DEF a, c, r
  <1>5. CASE f < c
    <2>1. f * PAGE_SIZE <= (c - 1) * PAGE_SIZE
      BY <1>2, <1>5, Sizes
    <2>2. (c - 1) * PAGE_SIZE = c * PAGE_SIZE - PAGE_SIZE
      BY <1>2, Sizes
    <2> QED
      BY <1>2, <1>3, <1>4, <1>5, <2>1, <2>2, Sizes
  <1>6. CASE ~ (f < c)
    <2>1. f * PAGE_SIZE >= c * PAGE_SIZE
      BY <1>2, <1>6, Sizes
    <2> QED
      BY <1>2, <1>3, <1>4, <1>6, <2>1, Sizes
  <1> QED
    BY <1>5, <1>6

\* The bit of a frame is set.
Marked(f) == f % WordBits \in frame_bitmap[f \div WordBits]

\* The bitmap says which frames are held or the kernel's; no frame is both,
\* and none is held twice.
BitmapTrue ==
    \A f \in Frame :
        /\ owners[f] <= 1
        /\ owners[f] = 1 => f \notin Reserved
        /\ Marked(f) <=> owners[f] = 1 \/ f \in Reserved

\* The search finds a frame whose bit is clear, if there is one.
LEMMA FirstFree ==
    ASSUME PhysTypeOK
    PROVE  \/ first_free_frame = NoFrame /\ \A f \in Frame : Marked(f)
           \/ first_free_frame \in Frame /\ ~ Marked(first_free_frame)
  <1>1. CASE Candidates = {}
    <2>1. first_free_frame = NoFrame
      BY <1>1 DEF first_free_frame
    <2>2. \A f \in Frame : Marked(f)
      BY <1>1, PlaceOfFrame DEF Candidates, Marked
    <2> QED
      BY <2>1, <2>2
  <1>2. CASE Candidates # {}
    <2> DEFINE i == Min(Candidates)
               b == Min(Bit \ frame_bitmap[i])
    <2>1. i \in Word /\ frame_bitmap[i] # Bit
      <3>1. Candidates \subseteq Nat
        BY Sizes DEF Candidates, Word
      <3>2. i \in Candidates
        BY <1>2, <3>1, MinIn
      <3> QED
        BY <3>2 DEF Candidates
    <2>2. b \in Bit /\ b \notin frame_bitmap[i]
      <3>1. frame_bitmap[i] \subseteq Bit
        BY <2>1 DEF PhysTypeOK
      <3>2. Bit \subseteq Nat
        BY Sizes DEF Bit
      <3> DEFINE clear == Bit \ frame_bitmap[i]
      <3>3. clear \subseteq Nat /\ clear # {}
        BY <2>1, <3>1, <3>2
      <3>4. Min(clear) \in clear
        <4> HIDE DEF clear, i
        <4> QED
          BY <3>3, MinIn
      <3> QED
        BY <3>4
    <2>3. first_free_frame = i * WordBits + b
      BY <1>2 DEF first_free_frame
    <2> HIDE DEF i, b
    <2> QED
      BY <2>1, <2>2, <2>3, FrameOfPlace DEF Marked
  <1> QED
    BY <1>1, <1>2

\* The three parts of FramesAccounted follow from the types and BitmapTrue.
LEMMA BitmapAccounts ==
    ASSUME PhysTypeOK, BitmapTrue
    PROVE  FramesAccounted
  <1>1. \A f \in Frame : owners[f] \in Nat
    BY DEF PhysTypeOK
  <1>2. \A f \in Frame : f \in Reserved <=> f * PAGE_SIZE < KernelEnd
    BY PlaceOfFrame, ReservedHoldKernel
  <1>3. \A f \in Frame : f * PAGE_SIZE \in Nat
    BY PlaceOfFrame, Sizes
  <1>4. FramesApart
    BY <1>1, <1>2, <1>3, Sizes DEF BitmapTrue, FramesApart
  <1>5. NoFrameLost
    <2> SUFFICES ASSUME first_free_frame = NoFrame,
                        NEW f \in Frame, f * PAGE_SIZE >= KernelEnd
                 PROVE  f \in Held
      BY DEF NoFrameLost
    <2>1. Marked(f)
      BY FirstFree, Sizes DEF NoFrame, Frame
    <2>2. f \notin Reserved
      BY <1>2, <1>3, Sizes
    <2> QED
      BY <2>1, <2>2, <1>1 DEF BitmapTrue, Held
  <1> QED
    BY <1>4, <1>5 DEF FramesAccounted

LEMMA InitBitmap ==
    ASSUME phys_init
    PROVE  PhysTypeOK /\ BitmapTrue
  <1>1. PhysTypeOK
    BY Sizes DEF phys_init, PhysTypeOK
  <1>2. ASSUME NEW f \in Frame
        PROVE  /\ owners[f] = 0
               /\ Marked(f) <=> f \in Reserved
    <2>1. f \div WordBits \in Word /\ f % WordBits \in Bit
          /\ (f \div WordBits) * WordBits + (f % WordBits) = f
      BY PlaceOfFrame
    <2> QED
      BY <2>1 DEF phys_init, Marked
  <1> QED
    BY <1>1, <1>2 DEF BitmapTrue

\* Setting the bit of one frame, or clearing it, changes the bit of no other.
LEMMA OneBit ==
    ASSUME PhysTypeOK, NEW g \in Frame, NEW f \in Frame, NEW s, NEW c,
           s = set_frame(frame_bitmap, g), c = clear_frame(frame_bitmap, g)
    PROVE  /\ s \in [Word -> SUBSET Bit] /\ c \in [Word -> SUBSET Bit]
           /\ f % WordBits \in s[f \div WordBits] <=> f = g \/ Marked(f)
           /\ f % WordBits \in c[f \div WordBits] <=> f # g /\ Marked(f)
  <1> DEFINE i == f \div WordBits  b == f % WordBits
             j == g \div WordBits  e == g % WordBits
  <1>1. i \in Word /\ b \in Bit /\ j \in Word /\ e \in Bit
    BY PlaceOfFrame
  <1>2. i = j /\ b = e <=> f = g
    BY PlacesApart
  <1>3. s = [frame_bitmap EXCEPT ![j] = @ \cup {e}]
        /\ c = [frame_bitmap EXCEPT ![j] = @ \ {e}]
    BY DEF set_frame, clear_frame
  <1>4. frame_bitmap \in [Word -> SUBSET Bit]
    BY DEF PhysTypeOK
  <1>5. Marked(f) <=> b \in frame_bitmap[i]
    BY DEF Marked
  <1> HIDE DEF i, b, j, e
  <1>6. s \in [Word -> SUBSET Bit] /\ c \in [Word -> SUBSET Bit]
    BY <1>1, <1>3, <1>4
  <1>7. b \in s[i] <=> f = g \/ Marked(f)
    BY <1>1, <1>2, <1>3, <1>4, <1>5
  <1>8. b \in c[i] <=> f # g /\ Marked(f)
    BY <1>1, <1>2, <1>3, <1>4, <1>5
  <1> QED
    BY <1>6, <1>7, <1>8 DEF i, b

LEMMA AllocBitmap ==
    ASSUME PhysTypeOK, BitmapTrue, phys_alloc_frame
    PROVE  PhysTypeOK' /\ BitmapTrue'
  <1>1. CASE first_free_frame = NoFrame
    BY <1>1 DEF phys_alloc_frame, physVars, PhysTypeOK, BitmapTrue, Marked
  <1>2. CASE first_free_frame # NoFrame
    <2> PICK g : g = first_free_frame
      OBVIOUS
    <2>1. g \in Frame /\ ~ Marked(g)
      BY <1>2, FirstFree
    <2>2. frame_bitmap' = set_frame(frame_bitmap, g)
          /\ owners' = [owners EXCEPT ![g] = @ + 1]
      BY <1>2 DEF phys_alloc_frame
    <2>3. owners \in [Frame -> Nat] /\ owners[g] = 0 /\ g \notin Reserved
      BY <2>1 DEF PhysTypeOK, BitmapTrue
    <2>4. PhysTypeOK'
      BY <2>1, <2>2, <2>3, OneBit DEF PhysTypeOK
    <2>5. ASSUME NEW f \in Frame
          PROVE  Marked(f)' <=> f = g \/ Marked(f)
      BY <2>1, <2>2, OneBit DEF Marked
    <2>6. ASSUME NEW f \in Frame
          PROVE  owners'[f] = IF f = g THEN 1 ELSE owners[f]
      BY <2>1, <2>2, <2>3
    <2> QED
      BY <2>1, <2>3, <2>4, <2>5, <2>6 DEF BitmapTrue
  <1> QED
    BY <1>1, <1>2

\* Giving back a frame that is not the kernel's, or an address that is none of
\* a frame, keeps the bitmap true.
LEMMA FreeBitmap ==
    ASSUME PhysTypeOK, BitmapTrue, NEW addr \in Nat, phys_free_frame(addr),
           addr = 0 \/ addr \div PAGE_SIZE \notin Frame \cap Reserved
    PROVE  PhysTypeOK' /\ BitmapTrue'
  <1> PICK g : g = addr \div PAGE_SIZE
    OBVIOUS
  <1>1. CASE addr = 0 \/ g \notin Frame
    BY <1>1 DEF phys_free_frame, physVars, PhysTypeOK, BitmapTrue, Marked
  <1>2. CASE ~ (addr = 0 \/ g \notin Frame)
    <2>1. g \in Frame /\ g \notin Reserved
      BY <1>2
    <2>2. frame_bitmap' = clear_frame(frame_bitmap, g)
          /\ owners' = [owners EXCEPT ![g] = 0]
      BY <1>2 DEF phys_free_frame
    <2>3. owners \in [Frame -> Nat]
      BY DEF PhysTypeOK
    <2>4. PhysTypeOK'
      BY <2>1, <2>2, <2>3, OneBit DEF PhysTypeOK
    <2>5. ASSUME NEW f \in Frame
          PROVE  Marked(f)' <=> f # g /\ Marked(f)
      BY <2>1, <2>2, OneBit DEF Marked
    <2>6. ASSUME NEW f \in Frame
          PROVE  owners'[f] = IF f = g THEN 0 ELSE owners[f]
      BY <2>1, <2>2, <2>3
    <2> QED
      BY <2>1, <2>3, <2>4, <2>5, <2>6 DEF BitmapTrue
  <1> QED
    BY <1>1, <1>2

-----------------------------------------------------------------------------
(* Where the entry of an address is *)

PagesWithPte == NUM_PAGE_TABLES * Entries

LEMMA PagingSizes ==
    /\ NUM_PAGE_TABLES \in Nat \ {0} /\ Entries \in Nat \ {0}
    /\ PagesWithPte \in Nat \ {0}
    /\ Pages = 2 * PagesWithPte
    /\ Space = Pages * PAGE_SIZE /\ Space \in Nat
    /\ Half = PagesWithPte * PAGE_SIZE
  <1>1. NUM_PAGE_TABLES \in Nat \ {0} /\ Entries \in Nat \ {0}
    BY PagingAssumption
  <1>2. PagesWithPte \in Nat \ {0}
    BY <1>1 DEF PagesWithPte
  <1>3. Pages = 2 * PagesWithPte
    BY <1>1 DEF Pages, PagesWithPte
  <1>4. Space = 2 * (PagesWithPte * PAGE_SIZE)
    BY <1>2, <1>3, Sizes DEF Space
  <1>5. PagesWithPte * PAGE_SIZE \in Nat
    BY <1>2, Sizes
  <1>6. Half = PagesWithPte * PAGE_SIZE
    BY <1>4, <1>5 DEF Half
  <1> QED
    BY <1>1, <1>2, <1>3, <1>4, <1>5, <1>6 DEF Space

\* The number of the page of an address tells its entry.
LEMMA PteOfAddress ==
    ASSUME NEW a \in Nat
    PROVE  /\ a \div PAGE_SIZE \in Nat
           /\ pde_index(a) = (a \div PAGE_SIZE) \div Entries
           /\ pte_index(a) = (a \div PAGE_SIZE) % Entries
           /\ HasPte(a) <=> a \div PAGE_SIZE < PagesWithPte
           /\ HasPte(a) => pde_index(a) \in 0 .. NUM_PAGE_TABLES - 1
           /\ pte_index(a) \in 0 .. Entries - 1
  <1> DEFINE n == a \div PAGE_SIZE  o == a % PAGE_SIZE
             q == n \div Entries    s == n % Entries
             d == PAGE_SIZE * Entries
  <1>1. n \in Nat /\ o \in 0 .. PAGE_SIZE - 1 /\ a = n * PAGE_SIZE + o
    BY Sizes, DivMod
  <1>2. q \in Nat /\ s \in 0 .. Entries - 1 /\ n = q * Entries + s
    <2> HIDE DEF n
    <2> QED
      BY <1>1, PagingSizes, DivMod
  <1>0. a \div PAGE_SIZE = n /\ n \div Entries = q /\ n % Entries = s
    OBVIOUS
  <1>3. pte_index(a) = s
    BY DEF pte_index
  <1>4. pde_index(a) = a \div d
    BY DEF pde_index
  <1> HIDE DEF n, o, q, s
  <1>5. d \in Nat \ {0}
    BY Sizes, PagingSizes
  <1>6. s * PAGE_SIZE + o \in 0 .. d - 1
    <2>1. s * PAGE_SIZE <= (Entries - 1) * PAGE_SIZE
      BY <1>2, Sizes, PagingSizes
    <2> QED
      BY <1>1, <1>2, <2>1, Sizes, PagingSizes
  <1>7. a = q * d + (s * PAGE_SIZE + o)
    BY <1>1, <1>2, Sizes, PagingSizes
  <1>8. pde_index(a) = q
    <2> HIDE DEF d
    <2> QED
      BY <1>2, <1>4, <1>5, <1>6, <1>7, DivModUnique
  <1>9. q < NUM_PAGE_TABLES <=> n < PagesWithPte
    <2>1. CASE q < NUM_PAGE_TABLES
      <3>1. q * Entries <= (NUM_PAGE_TABLES - 1) * Entries
        BY <1>2, <2>1, PagingSizes
      <3> QED
        BY <1>2, <2>1, <3>1, PagingSizes DEF PagesWithPte
    <2>2. CASE q >= NUM_PAGE_TABLES
      <3>1. q * Entries >= NUM_PAGE_TABLES * Entries
        BY <1>2, <2>2, PagingSizes
      <3> QED
        BY <1>2, <2>2, <3>1, PagingSizes DEF PagesWithPte
    <2> QED
      BY <2>1, <2>2, <1>2, PagingSizes
  <1>10. HasPte(a) <=> q < NUM_PAGE_TABLES
    BY <1>8 DEF HasPte, Pte
  <1>11. HasPte(a) => q \in 0 .. NUM_PAGE_TABLES - 1
    BY <1>2, <1>10, PagingSizes
  <1> QED
    BY <1>0, <1>1, <1>2, <1>3, <1>8, <1>9, <1>10, <1>11

\* The first byte of a page is in that page.
LEMMA PageOfFirstByte ==
    ASSUME NEW n \in Nat
    PROVE  n * PAGE_SIZE \in Nat /\ (n * PAGE_SIZE) \div PAGE_SIZE = n
  <1>1. n * PAGE_SIZE \in Nat /\ n * PAGE_SIZE + 0 = n * PAGE_SIZE
    BY Sizes
  <1>2. 0 \in 0 .. PAGE_SIZE - 1
    BY Sizes
  <1> QED
    BY <1>1, <1>2, Sizes, DivModUnique

\* An address with an entry is one of a page; its page has the same entry.
LEMMA PageOfAddress ==
    ASSUME NEW a \in Nat, HasPte(a)
    PROVE  /\ a \div PAGE_SIZE \in Page
           /\ HasPte((a \div PAGE_SIZE) * PAGE_SIZE)
           /\ Pte((a \div PAGE_SIZE) * PAGE_SIZE) = Pte(a)
  <1> PICK n : n = a \div PAGE_SIZE
    OBVIOUS
  <1>1. n \in Nat /\ n < PagesWithPte
    BY PteOfAddress
  <1>2. n * PAGE_SIZE \in Nat /\ (n * PAGE_SIZE) \div PAGE_SIZE = n
    BY <1>1, PageOfFirstByte
  <1>3. n \in Page
    BY <1>1, PagingSizes DEF Page
  <1>4. HasPte(n * PAGE_SIZE) /\ Pte(n * PAGE_SIZE) = Pte(a)
    BY <1>1, <1>2, PteOfAddress DEF Pte
  <1> QED
    BY <1>3, <1>4

\* Addresses of different pages have different entries.
LEMMA EntriesApart ==
    ASSUME NEW a \in Nat, NEW b \in Nat, Pte(a) = Pte(b)
    PROVE  a \div PAGE_SIZE = b \div PAGE_SIZE
  <1> PICK n, m : n = a \div PAGE_SIZE /\ m = b \div PAGE_SIZE
    OBVIOUS
  <1>1. n \div Entries = m \div Entries /\ n % Entries = m % Entries
    BY PteOfAddress DEF Pte
  <1>2. n \in Nat /\ m \in Nat
    BY PteOfAddress
  <1>3. /\ n = (n \div Entries) * Entries + (n % Entries)
        /\ m = (m \div Entries) * Entries + (m % Entries)
    BY <1>2, DivMod, PagingAssumption
  <1> QED
    BY <1>1, <1>3

Tables == [0 .. NUM_PAGE_TABLES - 1 -> [0 .. Entries - 1 -> PteSet]]

LEMMA EntryType ==
    ASSUME page_tables \in Tables, NEW a \in Nat, HasPte(a)
    PROVE  Entry(a) \in PteSet
  BY PteOfAddress DEF Entry, Pte, Tables

\* A store changes the entry of one page.
LEMMA OneEntry ==
    ASSUME page_tables \in Tables, NEW a \in Nat, HasPte(a),
           NEW e \in PteSet, page_tables' = Store(a, e)
    PROVE  /\ page_tables' \in Tables
           /\ \A b \in Nat : HasPte(b) =>
                Entry(b)' = IF a \div PAGE_SIZE = b \div PAGE_SIZE THEN e ELSE Entry(b)
  <1> PICK i, j : i = Pte(a)[1] /\ j = Pte(a)[2]
    OBVIOUS
  <1>1. i \in 0 .. NUM_PAGE_TABLES - 1 /\ j \in 0 .. Entries - 1
    BY PteOfAddress DEF Pte
  <1>2. page_tables' = [page_tables EXCEPT ![i][j] = e]
    BY DEF Store
  <1>3. page_tables' \in Tables
    BY <1>1, <1>2 DEF Tables
  <1>4. ASSUME NEW b \in Nat, HasPte(b)
        PROVE  Entry(b)' = IF a \div PAGE_SIZE = b \div PAGE_SIZE THEN e ELSE Entry(b)
    <2> PICK k, l : k = Pte(b)[1] /\ l = Pte(b)[2]
      OBVIOUS
    <2>1. k \in 0 .. NUM_PAGE_TABLES - 1 /\ l \in 0 .. Entries - 1
      BY <1>4, PteOfAddress DEF Pte
    <2>2. k = i /\ l = j <=> a \div PAGE_SIZE = b \div PAGE_SIZE
      BY EntriesApart, PteOfAddress DEF Pte
    <2>3. Entry(b)' = page_tables'[k][l] /\ Entry(b) = page_tables[k][l]
      BY DEF Entry, Pte, pde_index, pte_index
    <2>4. page_tables'[k][l] = IF k = i /\ l = j THEN e ELSE page_tables[k][l]
      <3>1. i \in DOMAIN page_tables /\ k \in DOMAIN page_tables
            /\ j \in DOMAIN page_tables[i] /\ l \in DOMAIN page_tables[k]
        BY <1>1, <2>1 DEF Tables
      <3>2. page_tables' = [page_tables EXCEPT ![i] = [page_tables[i] EXCEPT ![j] = e]]
        BY <1>2
      <3>3. page_tables'[k] = IF k = i THEN [page_tables[i] EXCEPT ![j] = e]
                              ELSE page_tables[k]
        BY <3>1, <3>2
      <3> QED
        BY <3>1, <3>3
    <2> QED
      BY <2>2, <2>3, <2>4
  <1> QED
    BY <1>3, <1>4

-----------------------------------------------------------------------------
(* Where a range begins and ends *)

LEMMA PagesInOrder ==
    ASSUME NEW n \in Nat, NEW k \in Nat
    PROVE  /\ n * PAGE_SIZE \in Nat
           /\ n * PAGE_SIZE < k * PAGE_SIZE <=> n < k
           /\ n < k => n * PAGE_SIZE + PAGE_SIZE <= k * PAGE_SIZE
  <1>1. n * PAGE_SIZE \in Nat /\ k * PAGE_SIZE \in Nat
    BY Sizes
  <1>2. ASSUME n < k
        PROVE  n * PAGE_SIZE + PAGE_SIZE <= k * PAGE_SIZE
    <2>1. (n + 1) * PAGE_SIZE <= k * PAGE_SIZE
      BY <1>2, Sizes
    <2>2. (n + 1) * PAGE_SIZE = n * PAGE_SIZE + PAGE_SIZE
      BY Sizes
    <2> QED
      BY <2>1, <2>2
  <1>3. ASSUME ~ (n < k)
        PROVE  k * PAGE_SIZE <= n * PAGE_SIZE
    BY <1>3, Sizes
  <1> QED
    BY <1>1, <1>2, <1>3, Sizes

LEMMA DownIsFirstByte ==
    ASSUME NEW a \in Nat
    PROVE  Down(a) = (a \div PAGE_SIZE) * PAGE_SIZE
  <1> PICK n, r : n = a \div PAGE_SIZE /\ r = a % PAGE_SIZE
    OBVIOUS
  <1>1. n \in Nat /\ r \in Nat /\ a = n * PAGE_SIZE + r
    BY DivMod, Sizes
  <1>2. n * PAGE_SIZE \in Nat
    BY <1>1, Sizes
  <1>3. a - r = n * PAGE_SIZE
    BY <1>1, <1>2
  <1> QED
    BY <1>3 DEF Down

\* The pages from the start's on are those that end behind it.
LEMMA FirstOfRange ==
    ASSUME NEW a \in Nat, NEW p \in Nat
    PROVE  a \div PAGE_SIZE <= p <=> (p + 1) * PAGE_SIZE > a
  <1> PICK n, r : n = a \div PAGE_SIZE /\ r = a % PAGE_SIZE
    OBVIOUS
  <1>1. n \in Nat /\ r \in 0 .. PAGE_SIZE - 1 /\ a = n * PAGE_SIZE + r
    BY DivMod, Sizes
  <1>2. CASE n <= p
    <2>1. (n + 1) * PAGE_SIZE <= (p + 1) * PAGE_SIZE
      BY <1>1, <1>2, Sizes
    <2>2. (n + 1) * PAGE_SIZE = n * PAGE_SIZE + PAGE_SIZE
      BY <1>1, Sizes
    <2> QED
      BY <1>1, <1>2, <2>1, <2>2, Sizes
  <1>3. CASE n > p
    <2>1. (p + 1) * PAGE_SIZE <= n * PAGE_SIZE
      BY <1>1, <1>3, Sizes
    <2> QED
      BY <1>1, <1>3, <2>1, Sizes
  <1> QED
    BY <1>1, <1>2, <1>3

\* A page that starts below the rounded end starts below the end; and the
\* rounded end does not lie below the end unless it wraps.
LEMMA LastOfRange ==
    ASSUME NEW end \in Addr, NEW p \in Nat
    PROVE  /\ p * PAGE_SIZE < RangeEnd(end) => p * PAGE_SIZE < end
           /\ end <= Space - PAGE_SIZE => end <= RangeEnd(end)
           /\ RangeEnd(end) \in Nat
  <1> PICK a, m : a = end + PAGE_SIZE - 1 /\ m = a % Space
    OBVIOUS
  <1>1. end \in Nat /\ end < Space /\ a \in Nat /\ Space \in Nat \ {0}
    BY Sizes, PagingSizes DEF Addr
  <1>2. RangeEnd(end) = Down(m)
    BY DEF RangeEnd, Up
  <1>3. PAGE_SIZE <= Space
    <2>1. 1 * PAGE_SIZE <= Pages * PAGE_SIZE
      BY Sizes, PagingSizes
    <2> QED
      BY <2>1, Sizes, PagingSizes
  <1>4. CASE a < Space
    <2>1. m = a
      <3>1. a = 0 * Space + a /\ a \in 0 .. Space - 1
        BY <1>1, <1>4
      <3> QED
        BY <1>1, <3>1, DivModUnique
    <2> PICK k, r : k = a \div PAGE_SIZE /\ r = a % PAGE_SIZE
      OBVIOUS
    <2>2. k \in Nat /\ r \in 0 .. PAGE_SIZE - 1 /\ a = k * PAGE_SIZE + r
      BY <1>1, DivMod, Sizes
    <2>3. RangeEnd(end) = k * PAGE_SIZE /\ k * PAGE_SIZE \in Nat
      BY <1>1, <1>2, <2>1, <2>2, DownIsFirstByte, Sizes
    <2>4. end <= RangeEnd(end)
      BY <1>1, <2>2, <2>3, Sizes
    <2>5. ASSUME p * PAGE_SIZE < RangeEnd(end)
          PROVE  p * PAGE_SIZE < end
      <3>1. p * PAGE_SIZE \in Nat /\ p * PAGE_SIZE + PAGE_SIZE <= k * PAGE_SIZE
        BY <2>2, <2>3, <2>5, PagesInOrder
      <3> QED
        BY <1>1, <2>2, <3>1, Sizes
    <2> QED
      BY <2>3, <2>4, <2>5
  <1>5. CASE a >= Space
    <2> PICK o : o = a - Space
      OBVIOUS
    <2>1. o \in 0 .. PAGE_SIZE - 1 /\ o \in 0 .. Space - 1 /\ a = 1 * Space + o
      BY <1>1, <1>3, <1>5, Sizes
    <2>2. m = o
      <3>1. Space \in Nat \ {0} /\ 1 \in Nat /\ o \in 0 .. Space - 1
        BY <1>1, <2>1
      <3>2. (1 * Space + o) % Space = o
        BY <3>1, DivModUnique
      <3> QED
        BY <2>1, <3>2
    <2>3. o = 0 * PAGE_SIZE + o
      BY <2>1, Sizes
    <2>4. o % PAGE_SIZE = o
      BY <2>1, <2>3, DivModUnique, Sizes
    <2>5. RangeEnd(end) = 0
      BY <1>2, <2>1, <2>2, <2>4 DEF Down
    <2>6. p * PAGE_SIZE \in Nat
      BY Sizes
    <2>7. end > Space - PAGE_SIZE
      BY <1>1, <1>5, Sizes
    <2> QED
      BY <2>5, <2>6, <2>7, <1>1, Sizes
  <1> QED
    BY <1>1, <1>4, <1>5

-----------------------------------------------------------------------------
(* The invariant of the page tables *)

OpOK ==
    \/ op = Idle
    \/ /\ op \in [call : {"map", "unmap"}, addr : Addr]
       /\ HasPte(op.addr)
    \/ /\ op \in [call : {"range"}, start : Addr, end : Addr, addr : Nat,
                  at : {"test", "store", "flush"}]
       /\ op.at # "test" => HasPte(op.addr)

\* The entry of the page is stored, and its flush is still to come.
Pending(page) ==
    /\ op.call \in {"map", "unmap"} \/ (op.call = "range" /\ op.at = "flush")
    /\ page = Flushed(op.addr)

\* What is cached is present, and is what the tables say, or is to be flushed.
TlbTrue ==
    \A p \in Page : tlb[p] # NoEntry =>
        /\ HasPte(p * PAGE_SIZE)
        /\ "PRESENT" \in tlb[p].flags
        /\ tlb[p] = Entry(p * PAGE_SIZE) \/ Pending(p)

\* A range is marked from its start to the page where the call stands.
RangeMarked ==
    op.call = "range" => \E n \in Nat :
        /\ op.addr = n * PAGE_SIZE
        /\ op.start \div PAGE_SIZE <= n
        /\ op.at # "test" => op.addr < RangeEnd(op.end)
        /\ \A p \in 0 .. PagesWithPte - 1 :
             op.start \div PAGE_SIZE <= p /\ (p < n \/ (p = n /\ op.at = "flush"))
                => "USER" \in Entry(p * PAGE_SIZE).flags

PagingInv == PagingTypeOK /\ OpOK /\ TlbTrue /\ RangeMarked

LEMMA PageFacts ==
    /\ Page = 0 .. 2 * PagesWithPte - 1
    /\ 0 .. PagesWithPte - 1 \subseteq Page
    /\ NotPresent \in PteSet
    /\ \A p \in Page : p \in Nat /\ p * PAGE_SIZE \in Nat
                       /\ (p * PAGE_SIZE) \div PAGE_SIZE = p
                       /\ (HasPte(p * PAGE_SIZE) <=> p < PagesWithPte)
    /\ Addr \subseteq Nat
  <1>1. Page = 0 .. 2 * PagesWithPte - 1
    BY PagingSizes DEF Page
  <1>2. 0 \in Page /\ 0 * PAGE_SIZE = 0
    BY <1>1, PagingSizes, Sizes
  <1>3. NotPresent \in PteSet
    BY <1>2 DEF NotPresent, PteSet
  <1>4. ASSUME NEW p \in Page
        PROVE  p \in Nat /\ p * PAGE_SIZE \in Nat
               /\ (p * PAGE_SIZE) \div PAGE_SIZE = p
               /\ (HasPte(p * PAGE_SIZE) <=> p < PagesWithPte)
    <2>1. p \in Nat
      BY <1>1, PagingSizes
    <2>2. p * PAGE_SIZE \in Nat /\ (p * PAGE_SIZE) \div PAGE_SIZE = p
      BY <2>1, PageOfFirstByte
    <2> QED
      BY <2>1, <2>2, PteOfAddress
  <1>5. 0 .. PagesWithPte - 1 \subseteq Page
    BY <1>1, PagingSizes
  <1> QED
    BY <1>1, <1>3, <1>4, <1>5, PagingSizes DEF Addr

LEMMA PageInSpace ==
    ASSUME NEW a \in Addr
    PROVE  a \div PAGE_SIZE \in Page
  <1>1. a \in Nat /\ a < Space
    BY PagingSizes DEF Addr
  <1>2. a \div PAGE_SIZE \in Nat /\ a % PAGE_SIZE \in 0 .. PAGE_SIZE - 1
        /\ a = (a \div PAGE_SIZE) * PAGE_SIZE + (a % PAGE_SIZE)
    BY <1>1, Sizes, DivMod
  <1> PICK n, k : n = a \div PAGE_SIZE /\ k = Pages
    OBVIOUS
  <1>3. n * PAGE_SIZE < k * PAGE_SIZE
    <2>1. n * PAGE_SIZE <= a
      BY <1>1, <1>2, Sizes
    <2> QED
      BY <1>1, <1>2, <2>1, PagingSizes, Sizes
  <1>4. n \in Nat /\ k \in Nat
    BY <1>2, PagingSizes
  <1>5. n < k
    BY <1>3, <1>4, PagesInOrder
  <1> QED
    BY <1>4, <1>5 DEF Page

LEMMA InitPaging ==
    ASSUME paging_init
    PROVE  PagingInv
  <1>1. op = Idle /\ op.call = "none" /\ moved = {} /\ \A p \in Page : tlb[p] = NoEntry
    BY DEF paging_init, Idle
  <1>2. tlb \in [Page -> PteSet \cup {NoEntry}]
    BY DEF paging_init
  <1>3. ASSUME NEW t \in 0 .. NUM_PAGE_TABLES - 1, NEW i \in 0 .. Entries - 1
        PROVE  [paddr |-> (t * Entries + i) * PAGE_SIZE, flags |-> Flag] \in PteSet
    <2> PICK n : n = t * Entries + i
      OBVIOUS
    <2>1. t * Entries <= (NUM_PAGE_TABLES - 1) * Entries
      BY PagingSizes
    <2>2. n \in Nat /\ n < PagesWithPte
      BY <2>1, PagingSizes DEF PagesWithPte
    <2>3. n \in Page
      BY <2>2, PageFacts, PagingSizes
    <2> QED
      BY <2>3 DEF PteSet
  <1>4. page_tables \in [0 .. NUM_PAGE_TABLES - 1 -> [0 .. Entries - 1 -> PteSet]]
    BY <1>3 DEF paging_init
  <1>5. PagingTypeOK
    BY <1>1, <1>2, <1>4 DEF PagingTypeOK
  <1> QED
    BY <1>1, <1>5 DEF PagingInv, OpOK, TlbTrue, RangeMarked

\* A store whose page is to be flushed afterwards keeps what is cached true.
LEMMA StoreKeepsTlb ==
    ASSUME PagingTypeOK, TlbTrue, \A p \in Page : ~ Pending(p),
           NEW a \in Nat, HasPte(a), NEW e \in PteSet,
           page_tables' = Store(a, e), UNCHANGED tlb, Pending(a \div PAGE_SIZE)'
    PROVE  TlbTrue'
  <1>1. page_tables \in Tables
    BY DEF PagingTypeOK, Tables
  <1>2. ASSUME NEW p \in Page, tlb'[p] # NoEntry
        PROVE  /\ HasPte(p * PAGE_SIZE)
               /\ "PRESENT" \in tlb'[p].flags
               /\ tlb'[p] = Entry(p * PAGE_SIZE)' \/ Pending(p)'
    <2>1. HasPte(p * PAGE_SIZE) /\ "PRESENT" \in tlb[p].flags
          /\ tlb[p] = Entry(p * PAGE_SIZE)
      BY <1>2 DEF TlbTrue
    <2>2. p * PAGE_SIZE \in Nat /\ (p * PAGE_SIZE) \div PAGE_SIZE = p
      BY PageFacts
    <2>3. Entry(p * PAGE_SIZE)' = IF a \div PAGE_SIZE = p THEN e ELSE Entry(p * PAGE_SIZE)
      BY <1>1, <2>1, <2>2, OneEntry
    <2> QED
      BY <2>1, <2>3
  <1> QED
    BY <1>2 DEF TlbTrue, HasPte, Pte, pde_index, pte_index

LEMMA ChangeKeeps ==
    ASSUME PagingInv, NEW call \in {"map", "unmap"}, NEW a \in Addr, NEW e \in PteSet,
           Change(call, a, e)
    PROVE  PagingInv'
  <1>1. op = Idle /\ UNCHANGED tlb /\ moved' = moved \cup {a \div PAGE_SIZE}
    BY DEF Change
  <1>2. \A p \in Page : ~ Pending(p)
    BY <1>1 DEF Pending, Idle
  <1>3. a \in Nat /\ a \div PAGE_SIZE \in Page
    BY PageInSpace, PageFacts
  <1>4. CASE HasPte(a)
    <2>1. page_tables' = Store(a, e) /\ op' = [call |-> call, addr |-> a]
      BY <1>4 DEF Change
    <2>2. page_tables' \in Tables
      BY <1>3, <1>4, <2>1, OneEntry DEF PagingInv, PagingTypeOK, Tables
    <2>3. op'.call = call /\ op'.addr = a
      BY <2>1
    <2>4. PagingTypeOK'
      BY <1>1, <1>3, <2>2, <2>3 DEF PagingInv, PagingTypeOK, Tables
    <2>5. OpOK'
      BY <1>4, <2>1 DEF OpOK, HasPte, Pte, pde_index, pte_index
    <2>6. Pending(a \div PAGE_SIZE)'
      BY <2>3 DEF Pending, Flushed
    <2>7. TlbTrue'
      BY <1>1, <1>2, <1>3, <1>4, <2>1, <2>6, StoreKeepsTlb DEF PagingInv
    <2>8. RangeMarked'
      BY <2>3 DEF RangeMarked
    <2> QED
      BY <2>4, <2>5, <2>7, <2>8 DEF PagingInv
  <1>5. CASE ~ HasPte(a)
    <2>1. UNCHANGED <<page_tables, op>>
      BY <1>5 DEF Change
    <2>2. PagingTypeOK'
      BY <1>1, <1>3, <2>1 DEF PagingInv, PagingTypeOK
    <2>3. OpOK'
      BY <1>1, <2>1 DEF OpOK
    <2>4. TlbTrue'
      BY <1>1, <2>1 DEF PagingInv, TlbTrue, Entry, Pending, HasPte, Pte
    <2>5. RangeMarked'
      BY <1>1, <2>1 DEF RangeMarked, Idle
    <2> QED
      BY <2>2, <2>3, <2>4, <2>5 DEF PagingInv
  <1> QED
    BY <1>4, <1>5

\* A flush keeps what is cached true, and leaves nothing pending.
LEMMA FlushKeepsTlb ==
    ASSUME PagingTypeOK, TlbTrue, op # Idle, NEW a \in Nat, a = op.addr, HasPte(a),
           tlb' = [tlb EXCEPT ![Flushed(a)] = NoEntry], UNCHANGED page_tables
    PROVE  /\ tlb' \in [Page -> PteSet \cup {NoEntry}]
           /\ TlbTrue'
  <1> PICK f : f = Flushed(a)
    OBVIOUS
  <1>1. f \in Page
    BY PageOfAddress DEF Flushed
  <1>2. tlb \in [Page -> PteSet \cup {NoEntry}]
    BY DEF PagingTypeOK
  <1>3. tlb' \in [Page -> PteSet \cup {NoEntry}]
        /\ \A p \in Page : tlb'[p] = IF p = f THEN NoEntry ELSE tlb[p]
    BY <1>1, <1>2
  <1>4. \A p \in Page : Pending(p) => p = f
    BY DEF Pending
  <1>5. ASSUME NEW p \in Page, tlb'[p] # NoEntry
        PROVE  /\ HasPte(p * PAGE_SIZE)
               /\ "PRESENT" \in tlb'[p].flags
               /\ tlb'[p] = Entry(p * PAGE_SIZE)
    BY <1>3, <1>4, <1>5 DEF TlbTrue
  <1>6. \A p \in Page : Entry(p * PAGE_SIZE)' = Entry(p * PAGE_SIZE)
    BY DEF Entry, Pte, pde_index, pte_index
  <1> QED
    BY <1>3, <1>5, <1>6 DEF TlbTrue, HasPte, Pte, pde_index, pte_index

LEMMA InvlpgKeeps ==
    ASSUME PagingInv, Invlpg
    PROVE  PagingInv'
  <1>1. op.call \in {"map", "unmap"} /\ op' = Idle /\ UNCHANGED <<page_tables, moved>>
    BY DEF Invlpg
  <1>2. op # Idle
    BY <1>1 DEF Idle
  <1>3. op.addr \in Addr /\ HasPte(op.addr)
    BY <1>1, <1>2 DEF PagingInv, OpOK
  <1> PICK a : a = op.addr
    OBVIOUS
  <1>4. a \in Nat /\ HasPte(a) /\ tlb' = [tlb EXCEPT ![Flushed(a)] = NoEntry]
    BY <1>3, PageFacts DEF Invlpg
  <1>5. tlb' \in [Page -> PteSet \cup {NoEntry}] /\ TlbTrue'
    BY <1>1, <1>2, <1>4, FlushKeepsTlb DEF PagingInv
  <1>6. op'.call = "none"
    BY <1>1 DEF Idle
  <1> QED
    BY <1>1, <1>5, <1>6 DEF PagingInv, PagingTypeOK, OpOK, RangeMarked

LEMMA RangeBegins ==
    ASSUME PagingInv, NEW start \in Addr, NEW end \in Addr,
           paging_set_user_for_range(start, end)
    PROVE  PagingInv'
  <1> PICK n : n = start \div PAGE_SIZE
    OBVIOUS
  <1>1. start \in Nat /\ n \in Nat
    BY PageFacts, DivMod, Sizes
  <1>2. op = Idle /\ UNCHANGED <<page_tables, tlb, moved>>
        /\ op' = [call |-> "range", start |-> start, end |-> end,
                  addr |-> n * PAGE_SIZE, at |-> "test"]
    BY <1>1, DownIsFirstByte DEF paging_set_user_for_range
  <1>3. op'.call = "range" /\ op'.start = start /\ op'.addr = n * PAGE_SIZE /\ op'.at = "test"
    BY <1>2
  <1>4. PagingTypeOK'
    BY <1>2, <1>3 DEF PagingInv, PagingTypeOK
  <1>5. OpOK'
    BY <1>1, <1>2, Sizes DEF OpOK
  <1>6. TlbTrue'
    BY <1>2 DEF PagingInv, TlbTrue, Entry, Pending, HasPte, Pte, Idle
  <1>7. RangeMarked'
    <2>1. \A p \in 0 .. PagesWithPte - 1 : ~ (n <= p /\ (p < n \/ (p = n /\ op'.at = "flush")))
      BY <1>1, <1>3
    <2> QED
      BY <1>1, <1>3, <2>1 DEF RangeMarked
  <1> QED
    BY <1>4, <1>5, <1>6, <1>7 DEF PagingInv

\* What the invariant says while a range is being marked.
LEMMA RangeFacts ==
    ASSUME PagingInv, op.call = "range"
    PROVE  /\ op \in [call : {"range"}, start : Addr, end : Addr, addr : Nat,
                      at : {"test", "store", "flush"}]
           /\ op.at # "test" => HasPte(op.addr)
           /\ op # Idle
  <1>1. op # Idle
    BY DEF Idle
  <1>2. ~ (op \in [call : {"map", "unmap"}, addr : Addr])
    OBVIOUS
  <1> QED
    BY <1>1, <1>2 DEF PagingInv, OpOK

LEMMA NextPageOK ==
    ASSUME op \in [call : {"range"}, start : Addr, end : Addr, addr : Nat,
                   at : {"test", "store", "flush"}],
           op' = [op EXCEPT !.addr = @ + PAGE_SIZE, !.at = "test"]
    PROVE  OpOK'
  <1> PICK a : a = op.addr + PAGE_SIZE
    OBVIOUS
  <1>1. a \in Nat
    BY Sizes
  <1>2. op' = [op EXCEPT !.addr = a, !.at = "test"]
    OBVIOUS
  <1>3. op' \in [call : {"range"}, start : Addr, end : Addr, addr : Nat,
                 at : {"test", "store", "flush"}]
    BY <1>1, <1>2
  <1>4. op'.at = "test"
    BY <1>2
  <1> QED
    BY <1>3, <1>4 DEF OpOK

LEMMA RangeTestKeeps ==
    ASSUME PagingInv, RangeTest
    PROVE  PagingInv'
  <1>1. op.call = "range" /\ op.at = "test" /\ UNCHANGED <<page_tables, tlb, moved>>
    BY DEF RangeTest
  <1>2. op \in [call : {"range"}, start : Addr, end : Addr, addr : Nat,
                at : {"test", "store", "flush"}]
    BY <1>1, RangeFacts
  <1>3. \A p \in Page : ~ Pending(p)
    BY <1>1 DEF Pending
  <1>4. TlbTrue'
    BY <1>1, <1>3 DEF PagingInv, TlbTrue, Entry, HasPte, Pte, pde_index, pte_index
  <1> PICK n \in Nat :
        /\ op.addr = n * PAGE_SIZE
        /\ op.start \div PAGE_SIZE <= n
        /\ \A p \in 0 .. PagesWithPte - 1 :
             op.start \div PAGE_SIZE <= p /\ p < n => "USER" \in Entry(p * PAGE_SIZE).flags
    BY <1>1 DEF PagingInv, RangeMarked
  <1>5. \A p \in Page : Entry(p * PAGE_SIZE)' = Entry(p * PAGE_SIZE)
    BY <1>1 DEF Entry, Pte, pde_index, pte_index
  <1>6. op.start \div PAGE_SIZE \in Nat
    BY <1>2, PageFacts, DivMod, Sizes
  <1>7. CASE op.addr >= RangeEnd(op.end)
    <2>1. op' = Idle /\ op'.call = "none"
      BY <1>7 DEF RangeTest, Idle
    <2> QED
      BY <1>1, <1>4, <2>1 DEF PagingInv, PagingTypeOK, OpOK, RangeMarked
  <1>8. CASE op.addr < RangeEnd(op.end) /\ HasPte(op.addr)
    <2>1. op' = [op EXCEPT !.at = "store"]
      BY <1>2, <1>8, LastOfRange DEF RangeTest
    <2>2. op'.call = "range" /\ op'.at = "store" /\ op'.addr = op.addr
          /\ op'.start = op.start /\ op'.end = op.end
      BY <1>2, <2>1
    <2>3. OpOK'
      BY <1>2, <1>8, <2>1, <2>2 DEF OpOK, HasPte, Pte, pde_index, pte_index
    <2>4. op'.addr < RangeEnd(op.end)'
      BY <1>8, <2>2 DEF RangeEnd, Up, Down
    <2>5. RangeMarked'
      <3>1. \A p \in 0 .. PagesWithPte - 1 :
              op.start \div PAGE_SIZE <= p /\ (p < n \/ (p = n /\ op'.at = "flush"))
                => "USER" \in Entry(p * PAGE_SIZE)'.flags
        BY <1>5, <2>2, PageFacts
      <3> QED
        BY <2>2, <2>4, <3>1 DEF RangeMarked
    <2> QED
      BY <1>1, <1>4, <2>2, <2>3, <2>5 DEF PagingInv, PagingTypeOK
  <1>9. CASE op.addr < RangeEnd(op.end) /\ ~ HasPte(op.addr)
    <2>1. op' = [op EXCEPT !.addr = @ + PAGE_SIZE, !.at = "test"]
      BY <1>2, <1>9, LastOfRange DEF RangeTest, NextPage
    <2>2. op'.call = "range" /\ op'.at = "test" /\ op'.addr = op.addr + PAGE_SIZE
          /\ op'.start = op.start /\ op'.end = op.end
      BY <1>2, <2>1
    <2>3. OpOK'
      BY <1>2, <2>1, NextPageOK
    <2>4. n >= PagesWithPte
      BY <1>9, PteOfAddress, PageOfFirstByte, PagingSizes
    <2>5. op'.addr = (n + 1) * PAGE_SIZE /\ op.start \div PAGE_SIZE <= n + 1 /\ n + 1 \in Nat
      BY <1>6, <2>2, Sizes
    <2>6. RangeMarked'
      <3>1. \A p \in 0 .. PagesWithPte - 1 :
              op.start \div PAGE_SIZE <= p /\ (p < n + 1 \/ (p = n + 1 /\ op'.at = "flush"))
                => "USER" \in Entry(p * PAGE_SIZE)'.flags
        <4> SUFFICES ASSUME NEW p \in 0 .. PagesWithPte - 1,
                            op.start \div PAGE_SIZE <= p
                     PROVE  "USER" \in Entry(p * PAGE_SIZE)'.flags
          OBVIOUS
        <4>1. p < n
          BY <2>4, PagingSizes
        <4>2. p \in Page
          BY PageFacts
        <4> QED
          BY <1>5, <4>1, <4>2
      <3> QED
        BY <2>2, <2>5, <3>1 DEF RangeMarked
    <2> QED
      BY <1>1, <1>4, <2>2, <2>3, <2>6 DEF PagingInv, PagingTypeOK
  <1> QED
    BY <1>2, <1>7, <1>8, <1>9, LastOfRange

\* The entry that RangeStore stores is the one there, with USER set.
LEMMA RangeStoreEntry ==
    ASSUME PagingInv, RangeStore
    PROVE  \E e \in PteSet :
             /\ e = [Entry(op.addr) EXCEPT !.flags = @ \cup {"USER"}]
             /\ e.paddr = Entry(op.addr).paddr
             /\ e.flags = Entry(op.addr).flags \cup {"USER"}
             /\ page_tables' = Store(op.addr, e)
             /\ page_tables' \in Tables
             /\ \A b \in Nat : HasPte(b) =>
                  Entry(b)' = IF op.addr \div PAGE_SIZE = b \div PAGE_SIZE THEN e ELSE Entry(b)
  <1>1. op.call = "range" /\ op.at = "store" /\ op.addr \in Nat /\ HasPte(op.addr)
    BY RangeFacts DEF RangeStore
  <1>2. page_tables \in Tables
    BY DEF PagingInv, PagingTypeOK, Tables
  <1> PICK d : d = Entry(op.addr)
    OBVIOUS
  <1> PICK e : e = [d EXCEPT !.flags = @ \cup {"USER"}]
    OBVIOUS
  <1>3. d \in PteSet
    BY <1>1, <1>2, EntryType
  <1>4. e \in PteSet /\ e.paddr = d.paddr /\ e.flags = d.flags \cup {"USER"}
    BY <1>3 DEF PteSet, Flag
  <1>5. page_tables' = Store(op.addr, e)
    BY DEF RangeStore
  <1> PICK a : a = op.addr
    OBVIOUS
  <1>6. page_tables' = Store(a, e) /\ a \in Nat /\ HasPte(a)
    BY <1>1, <1>5
  <1>7. /\ page_tables' \in Tables
        /\ \A b \in Nat : HasPte(b) =>
             Entry(b)' = IF a \div PAGE_SIZE = b \div PAGE_SIZE THEN e ELSE Entry(b)
    BY <1>2, <1>4, <1>6, OneEntry
  <1> QED
    BY <1>4, <1>5, <1>7

LEMMA RangeStoreKeeps ==
    ASSUME PagingInv, RangeStore
    PROVE  PagingInv'
  <1>1. op.call = "range" /\ op.at = "store" /\ UNCHANGED <<tlb, moved>>
        /\ op' = [op EXCEPT !.at = "flush"]
    BY DEF RangeStore
  <1>2. op \in [call : {"range"}, start : Addr, end : Addr, addr : Nat,
                at : {"test", "store", "flush"}]
        /\ HasPte(op.addr)
    BY <1>1, RangeFacts
  <1>3. op'.call = "range" /\ op'.at = "flush" /\ op'.addr = op.addr
        /\ op'.start = op.start /\ op'.end = op.end
    BY <1>1, <1>2
  <1> PICK e \in PteSet :
        /\ e.flags = Entry(op.addr).flags \cup {"USER"}
        /\ page_tables' = Store(op.addr, e)
        /\ page_tables' \in Tables
        /\ \A b \in Nat : HasPte(b) =>
             Entry(b)' = IF op.addr \div PAGE_SIZE = b \div PAGE_SIZE THEN e ELSE Entry(b)
    BY RangeStoreEntry
  <1>4. PagingTypeOK'
    BY <1>1, <1>3 DEF PagingInv, PagingTypeOK, Tables
  <1>5. OpOK'
    BY <1>1, <1>2, <1>3 DEF OpOK, HasPte, Pte, pde_index, pte_index
  <1>6. TlbTrue'
    <2>1. \A p \in Page : ~ Pending(p)
      BY <1>1 DEF Pending
    <2> PICK a : a = op.addr
      OBVIOUS
    <2>2. Pending(a \div PAGE_SIZE)'
      BY <1>3 DEF Pending, Flushed
    <2>3. a \in Nat /\ HasPte(a) /\ page_tables' = Store(a, e)
      BY <1>2
    <2> QED
      BY <1>1, <2>1, <2>2, <2>3, StoreKeepsTlb DEF PagingInv
  <1>7. RangeMarked'
    <2> PICK n \in Nat :
          /\ op.addr = n * PAGE_SIZE
          /\ op.start \div PAGE_SIZE <= n
          /\ op.addr < RangeEnd(op.end)
          /\ \A p \in 0 .. PagesWithPte - 1 :
               op.start \div PAGE_SIZE <= p /\ p < n
                  => "USER" \in Entry(p * PAGE_SIZE).flags
      BY <1>1 DEF PagingInv, RangeMarked
    <2>1. op'.addr < RangeEnd(op.end)'
      BY <1>3 DEF RangeEnd, Up, Down
    <2>2. op.addr \div PAGE_SIZE = n
      BY PageOfFirstByte
    <2>3. ASSUME NEW p \in 0 .. PagesWithPte - 1, op.start \div PAGE_SIZE <= p, p <= n
          PROVE  "USER" \in Entry(p * PAGE_SIZE)'.flags
      <3>1. p * PAGE_SIZE \in Nat /\ HasPte(p * PAGE_SIZE) /\ (p * PAGE_SIZE) \div PAGE_SIZE = p
        BY PageFacts, PagingSizes
      <3>2. Entry(p * PAGE_SIZE)' = IF n = p THEN e ELSE Entry(p * PAGE_SIZE)
        BY <2>2, <3>1
      <3>3. p # n => p < n
        BY <2>3
      <3> QED
        BY <2>3, <3>2, <3>3
    <2>4. \A p \in 0 .. PagesWithPte - 1 :
            op.start \div PAGE_SIZE <= p /\ (p < n \/ (p = n /\ op'.at = "flush"))
               => "USER" \in Entry(p * PAGE_SIZE)'.flags
      BY <2>3
    <2> QED
      BY <1>3, <2>1, <2>4 DEF RangeMarked
  <1> QED
    BY <1>4, <1>5, <1>6, <1>7 DEF PagingInv

LEMMA RangeFlushKeeps ==
    ASSUME PagingInv, RangeFlush
    PROVE  PagingInv'
  <1>1. op.call = "range" /\ op.at = "flush" /\ UNCHANGED <<page_tables, moved>>
        /\ op' = [op EXCEPT !.addr = @ + PAGE_SIZE, !.at = "test"]
    BY DEF RangeFlush, NextPage
  <1>2. op \in [call : {"range"}, start : Addr, end : Addr, addr : Nat,
                at : {"test", "store", "flush"}]
        /\ HasPte(op.addr) /\ op # Idle
    BY <1>1, RangeFacts
  <1>3. op'.call = "range" /\ op'.at = "test" /\ op'.addr = op.addr + PAGE_SIZE
        /\ op'.start = op.start /\ op'.end = op.end
    BY <1>1, <1>2
  <1> PICK a : a = op.addr
    OBVIOUS
  <1>4. a \in Nat /\ HasPte(a) /\ tlb' = [tlb EXCEPT ![Flushed(a)] = NoEntry]
    BY <1>2 DEF RangeFlush
  <1>5. tlb' \in [Page -> PteSet \cup {NoEntry}] /\ TlbTrue'
    BY <1>1, <1>2, <1>4, FlushKeepsTlb DEF PagingInv
  <1>6. PagingTypeOK'
    BY <1>1, <1>3, <1>5 DEF PagingInv, PagingTypeOK
  <1>7. OpOK'
    BY <1>1, <1>2, NextPageOK
  <1>8. RangeMarked'
    <2> PICK n \in Nat :
          /\ op.addr = n * PAGE_SIZE
          /\ op.start \div PAGE_SIZE <= n
          /\ \A p \in 0 .. PagesWithPte - 1 :
               op.start \div PAGE_SIZE <= p /\ (p < n \/ p = n)
                  => "USER" \in Entry(p * PAGE_SIZE).flags
      BY <1>1 DEF PagingInv, RangeMarked
    <2>1. op.start \div PAGE_SIZE \in Nat
      BY <1>2, PageFacts, DivMod, Sizes
    <2>2. op'.addr = (n + 1) * PAGE_SIZE /\ op.start \div PAGE_SIZE <= n + 1 /\ n + 1 \in Nat
      BY <1>3, <2>1, Sizes
    <2>3. \A p \in Page : Entry(p * PAGE_SIZE)' = Entry(p * PAGE_SIZE)
      BY <1>1 DEF Entry, Pte, pde_index, pte_index
    <2>4. \A p \in 0 .. PagesWithPte - 1 :
            op.start \div PAGE_SIZE <= p /\ (p < n + 1 \/ (p = n + 1 /\ op'.at = "flush"))
               => "USER" \in Entry(p * PAGE_SIZE)'.flags
      <3> SUFFICES ASSUME NEW p \in 0 .. PagesWithPte - 1, op.start \div PAGE_SIZE <= p,
                          p < n + 1
                   PROVE  "USER" \in Entry(p * PAGE_SIZE)'.flags
        BY <1>3
      <3>1. p < n \/ p = n
        BY PagingSizes
      <3>2. "USER" \in Entry(p * PAGE_SIZE).flags
        BY <3>1
      <3> QED
        BY <2>3, <3>2, PageFacts
    <2> QED
      BY <1>3, <2>2, <2>4 DEF RangeMarked
  <1> QED
    BY <1>5, <1>6, <1>7, <1>8 DEF PagingInv

LEMMA ProcessorKeeps ==
    ASSUME PagingInv, NEW page \in Page, Cache(page) \/ Evict(page)
    PROVE  PagingInv'
  <1>1. UNCHANGED <<page_tables, op, moved>>
    BY DEF Cache, Evict
  <1>2. page_tables \in Tables /\ tlb \in [Page -> PteSet \cup {NoEntry}]
    BY DEF PagingInv, PagingTypeOK, Tables
  <1>3. PICK e \in PteSet \cup {NoEntry} :
          /\ tlb' = [tlb EXCEPT ![page] = e]
          /\ e # NoEntry => /\ HasPte(page * PAGE_SIZE)
                            /\ e = Entry(page * PAGE_SIZE)
                            /\ "PRESENT" \in e.flags
    <2>1. CASE Cache(page)
      <3>1. page * PAGE_SIZE \in Nat
        BY PageFacts
      <3> QED
        BY <1>2, <2>1, <3>1, EntryType DEF Cache
    <2>2. CASE Evict(page)
      BY <2>2 DEF Evict
    <2> QED
      BY <2>1, <2>2
  <1>4. tlb' \in [Page -> PteSet \cup {NoEntry}]
        /\ \A p \in Page : tlb'[p] = IF p = page THEN e ELSE tlb[p]
    BY <1>2, <1>3
  <1>5. PagingTypeOK'
    BY <1>1, <1>4 DEF PagingInv, PagingTypeOK
  <1>6. TlbTrue'
    BY <1>1, <1>3, <1>4 DEF PagingInv, TlbTrue, Pending, Entry, HasPte, Pte
  <1>7. OpOK' /\ RangeMarked'
    BY <1>1 DEF PagingInv, OpOK, RangeMarked, Entry, HasPte, Pte, RangeEnd, Up, Down
  <1> QED
    BY <1>5, <1>6, <1>7 DEF PagingInv

-----------------------------------------------------------------------------
(* The caller *)

\* An entry that the caller made, and did not take back, leads to a held frame.
MappedHeld ==
    \A p \in moved :
        HasPte(p * PAGE_SIZE) /\ "PRESENT" \in Entry(p * PAGE_SIZE).flags
            => FrameOf(Entry(p * PAGE_SIZE).paddr) \in Held

MemInv == PhysTypeOK /\ BitmapTrue /\ PagingInv /\ MappedHeld

LEMMA PhysUnchanged ==
    ASSUME PhysTypeOK, BitmapTrue, UNCHANGED physVars
    PROVE  PhysTypeOK' /\ BitmapTrue' /\ Held' = Held
  BY DEF physVars, PhysTypeOK, BitmapTrue, Marked, Held

LEMMA PagingUnchanged ==
    ASSUME PagingInv, UNCHANGED pagingVars
    PROVE  PagingInv'
  <1>1. UNCHANGED <<page_tables, tlb, op, moved>>
    BY DEF pagingVars
  <1>2. PagingTypeOK' /\ OpOK' /\ TlbTrue'
    BY <1>1 DEF PagingInv, PagingTypeOK, OpOK, TlbTrue, Pending, Entry, HasPte, Pte
  <1>3. RangeMarked'
    BY <1>1 DEF PagingInv, RangeMarked, Entry, HasPte, Pte, RangeEnd, Up, Down
  <1> QED
    BY <1>2, <1>3 DEF PagingInv

\* The frames that the caller can give back: none of the kernel's.
LEMMA FreedAddress ==
    ASSUME PhysTypeOK, BitmapTrue,
           NEW F, F = Held \ Mapped,
           NEW addr \in {0, Half, Space - 1} \cup
                        {f * PAGE_SIZE + PAGE_SIZE - 1 : f \in F}
    PROVE  /\ addr \in Nat
           /\ \/ addr = 0
              \/ addr \div PAGE_SIZE \notin Frame
              \/ addr \div PAGE_SIZE \in F /\ addr \div PAGE_SIZE \notin Reserved
  <1>1. MAX_FRAMES <= PagesWithPte
    BY MemoryAssumption DEF PagesWithPte
  <1>2. \A n \in Nat : n >= PagesWithPte => n \notin Frame
    BY <1>1, Sizes, PagingSizes DEF Frame
  <1>3. CASE addr = 0
    BY <1>3
  <1>4. CASE addr = Half
    <2>1. Half \in Nat /\ Half \div PAGE_SIZE = PagesWithPte
      BY PagingSizes, PageOfFirstByte
    <2> QED
      BY <1>2, <1>4, <2>1, PagingSizes
  <1>5. CASE addr = Space - 1
    <2> PICK n : n = Pages - 1
      OBVIOUS
    <2>1. n \in Nat /\ n >= PagesWithPte
      BY PagingSizes
    <2>2. PAGE_SIZE - 1 \in 0 .. PAGE_SIZE - 1
      BY Sizes
    <2>3. Space - 1 = n * PAGE_SIZE + (PAGE_SIZE - 1) /\ Space - 1 \in Nat
      <3>1. (n + 1) * PAGE_SIZE = n * PAGE_SIZE + PAGE_SIZE /\ n * PAGE_SIZE \in Nat
        BY <2>1, Sizes
      <3>2. Space = (n + 1) * PAGE_SIZE
        BY <2>1, PagingSizes
      <3> QED
        BY <3>1, <3>2, Sizes
    <2>4. (Space - 1) \div PAGE_SIZE = n
      BY <2>1, <2>2, <2>3, DivModUnique, Sizes
    <2> QED
      BY <1>2, <1>5, <2>1, <2>3, <2>4
  <1>6. ASSUME NEW f \in F, addr = f * PAGE_SIZE + PAGE_SIZE - 1
        PROVE  addr \in Nat /\ addr \div PAGE_SIZE = f /\ f \notin Reserved
    <2>1. f \in Frame /\ owners[f] > 0
      BY DEF Held
    <2>2. owners[f] = 1
      BY <2>1 DEF PhysTypeOK, BitmapTrue
    <2>3. f \in Nat /\ f \notin Reserved
      BY <2>1, <2>2, PlaceOfFrame DEF BitmapTrue
    <2>4. addr = f * PAGE_SIZE + (PAGE_SIZE - 1) /\ PAGE_SIZE - 1 \in 0 .. PAGE_SIZE - 1
          /\ addr \in Nat
      BY <1>6, <2>3, Sizes
    <2> QED
      BY <2>3, <2>4, DivModUnique, Sizes
  <1> QED
    BY <1>3, <1>4, <1>5, <1>6

LEMMA AllocKeeps ==
    ASSUME MemInv, Alloc
    PROVE  MemInv'
  <1>1. UNCHANGED <<page_tables, tlb, op, moved>> /\ phys_alloc_frame
    BY DEF Alloc, pagingVars
  <1>2. PhysTypeOK' /\ BitmapTrue'
    BY <1>1, AllocBitmap DEF MemInv
  <1>3. PagingInv'
    BY PagingUnchanged DEF MemInv, Alloc
  <1>4. Held \subseteq Held'
    <2>1. owners \in [Frame -> Nat]
      BY DEF MemInv, PhysTypeOK
    <2>2. \/ UNCHANGED owners
          \/ \E g \in Frame : owners' = [owners EXCEPT ![g] = @ + 1]
      <3>1. first_free_frame = NoFrame \/ first_free_frame \in Frame
        BY FirstFree DEF MemInv
      <3> QED
        BY <1>1, <3>1 DEF phys_alloc_frame, physVars
    <2>3. \A f \in Frame : owners'[f] >= owners[f]
      BY <2>1, <2>2
    <2> QED
      BY <1>2, <2>1, <2>3 DEF Held, PhysTypeOK
  <1>5. MappedHeld'
    BY <1>1, <1>4 DEF MemInv, MappedHeld, Entry, HasPte, Pte, FrameOf
  <1> QED
    BY <1>2, <1>3, <1>5 DEF MemInv

LEMMA FreeKeeps ==
    ASSUME MemInv, Free
    PROVE  MemInv'
  <1> PICK F : F = Held \ Mapped
    OBVIOUS
  <1> PICK addr \in {0, Half, Space - 1} \cup {f * PAGE_SIZE + PAGE_SIZE - 1 : f \in F} :
        phys_free_frame(addr)
    BY DEF Free
  <1>1. UNCHANGED <<page_tables, tlb, op, moved>>
    BY DEF Free, pagingVars
  <1>2. /\ addr \in Nat
        /\ \/ addr = 0
           \/ addr \div PAGE_SIZE \notin Frame
           \/ addr \div PAGE_SIZE \in F /\ addr \div PAGE_SIZE \notin Reserved
    BY FreedAddress DEF MemInv
  <1>3. PhysTypeOK' /\ BitmapTrue'
    BY <1>2, FreeBitmap DEF MemInv
  <1>4. PagingInv'
    BY PagingUnchanged DEF MemInv, Free
  <1>5. \A f \in Held : f \notin F => f \in Held'
    <2> PICK g : g = addr \div PAGE_SIZE
      OBVIOUS
    <2>1. owners \in [Frame -> Nat]
      BY DEF MemInv, PhysTypeOK
    <2>2. \/ UNCHANGED owners
          \/ g \in F /\ owners' = [owners EXCEPT ![g] = 0]
      BY <1>2 DEF phys_free_frame, physVars
    <2>3. \A f \in Frame : f \notin F => owners'[f] = owners[f]
      BY <2>1, <2>2
    <2> QED
      BY <2>3 DEF Held
  <1>6. ASSUME NEW p \in moved, HasPte(p * PAGE_SIZE),
               "PRESENT" \in Entry(p * PAGE_SIZE).flags
        PROVE  FrameOf(Entry(p * PAGE_SIZE).paddr) \in Held'
    <2>1. FrameOf(Entry(p * PAGE_SIZE).paddr) \in Held
      BY <1>6 DEF MemInv, MappedHeld
    <2>2. FrameOf(Entry(p * PAGE_SIZE).paddr) \in Mapped
      BY <1>6 DEF Mapped
    <2> QED
      BY <1>5, <2>1, <2>2
  <1>7. MappedHeld'
    BY <1>1, <1>6 DEF MappedHeld, Entry, HasPte, Pte, FrameOf
  <1> QED
    BY <1>3, <1>4, <1>7 DEF MemInv

\* A store of an entry that is not present, or leads to a held frame.
LEMMA ChangeKeepsMapped ==
    ASSUME PagingInv, MappedHeld, UNCHANGED physVars,
           NEW call, NEW a \in Addr, NEW e \in PteSet, Change(call, a, e),
           "PRESENT" \in e.flags => FrameOf(e.paddr) \in Held
    PROVE  MappedHeld'
  <1>1. moved' = moved \cup {a \div PAGE_SIZE} /\ moved \subseteq Page /\ Held' = Held
        /\ page_tables \in Tables
    BY DEF Change, PagingInv, PagingTypeOK, physVars, Held, Tables
  <1>2. a \in Nat /\ a \div PAGE_SIZE \in Page
    BY PageInSpace, PageFacts
  <1>3. ASSUME NEW p \in moved', HasPte(p * PAGE_SIZE),
               "PRESENT" \in Entry(p * PAGE_SIZE)'.flags
        PROVE  FrameOf(Entry(p * PAGE_SIZE)'.paddr) \in Held
    <2>1. p \in Page
      BY <1>1, <1>2
    <2>2. p * PAGE_SIZE \in Nat /\ (p * PAGE_SIZE) \div PAGE_SIZE = p
      BY <2>1, PageFacts
    <2>3. CASE HasPte(a)
      <3>1. Entry(p * PAGE_SIZE)' = IF a \div PAGE_SIZE = p THEN e ELSE Entry(p * PAGE_SIZE)
        BY <1>1, <1>2, <1>3, <2>2, <2>3, OneEntry DEF Change
      <3> QED
        BY <1>1, <1>3, <3>1 DEF MappedHeld
    <2>4. CASE ~ HasPte(a)
      <3>1. Entry(p * PAGE_SIZE)' = Entry(p * PAGE_SIZE)
        BY <2>4 DEF Change, Entry, Pte
      <3>2. p # a \div PAGE_SIZE
        BY <1>2, <1>3, <2>2, <2>4, PteOfAddress
      <3> QED
        BY <1>1, <1>3, <3>1, <3>2 DEF MappedHeld
    <2> QED
      BY <2>3, <2>4
  <1> QED
    BY <1>1, <1>3 DEF MappedHeld, HasPte, Pte, pde_index, pte_index, FrameOf

LEMMA MapKeeps ==
    ASSUME MemInv, Map
    PROVE  MemInv'
  <1> PICK v \in VAddr, f \in Held \ Mapped, offset \in {0, PAGE_SIZE - 1},
           user \in SUBSET {"USER"} :
        paging_map(v, f * PAGE_SIZE + offset, {"PRESENT", "RW"} \cup user)
    BY DEF Map
  <1> PICK e : e = [paddr |-> Down(f * PAGE_SIZE + offset),
                    flags |-> {"PRESENT", "RW"} \cup user]
    OBVIOUS
  <1>1. f \in Frame /\ f \in Nat /\ f \in Page
    <2>1. f \in Frame /\ f \in Nat
      BY PlaceOfFrame DEF Held
    <2>2. f < PagesWithPte
      BY <2>1, MemoryAssumption, Sizes, PagingSizes DEF Frame, PagesWithPte
    <2> QED
      BY <2>1, <2>2, PageFacts, PagingSizes
  <1>2. Down(f * PAGE_SIZE + offset) = f * PAGE_SIZE
    <2>1. offset \in 0 .. PAGE_SIZE - 1 /\ f * PAGE_SIZE + offset \in Nat
      BY <1>1, Sizes
    <2>2. (f * PAGE_SIZE + offset) \div PAGE_SIZE = f
      BY <1>1, <2>1, DivModUnique, Sizes
    <2> QED
      BY <2>1, <2>2, DownIsFirstByte
  <1>3. e \in PteSet /\ FrameOf(e.paddr) = f
    BY <1>1, <1>2, PageFacts DEF PteSet, Flag, FrameOf
  <1>4. Change("map", v, e) /\ UNCHANGED physVars /\ v \in Addr
    BY MemoryAssumption DEF paging_map, Map
  <1>5. PagingInv'
    BY <1>3, <1>4, ChangeKeeps DEF MemInv
  <1>6. MappedHeld'
    BY <1>3, <1>4, ChangeKeepsMapped DEF MemInv
  <1> QED
    BY <1>4, <1>5, <1>6, PhysUnchanged DEF MemInv

LEMMA UnmapKeeps ==
    ASSUME MemInv, Unmap
    PROVE  MemInv'
  <1> PICK v \in VAddr : Change("unmap", v, NotPresent)
    BY DEF Unmap, paging_unmap
  <1>1. UNCHANGED physVars /\ v \in Addr /\ NotPresent \in PteSet
        /\ "PRESENT" \notin NotPresent.flags
    BY MemoryAssumption, PageFacts DEF Unmap, NotPresent
  <1>2. PagingInv'
    BY <1>1, ChangeKeeps DEF MemInv
  <1>3. MappedHeld'
    BY <1>1, ChangeKeepsMapped DEF MemInv
  <1> QED
    BY <1>1, <1>2, <1>3, PhysUnchanged DEF MemInv

\* The steps of a call and of the processor store no address.
LEMMA OthersKeepMapped ==
    ASSUME PagingInv, MappedHeld, UNCHANGED <<moved, owners>>,
           RangeStore \/ UNCHANGED page_tables
    PROVE  MappedHeld'
  <1>1. Held' = Held /\ moved \subseteq Page
    BY DEF Held, PagingInv, PagingTypeOK
  <1>2. ASSUME NEW p \in moved, HasPte(p * PAGE_SIZE)
        PROVE  /\ Entry(p * PAGE_SIZE)'.paddr = Entry(p * PAGE_SIZE).paddr
               /\ "PRESENT" \in Entry(p * PAGE_SIZE)'.flags
                    => "PRESENT" \in Entry(p * PAGE_SIZE).flags
    <2>1. CASE UNCHANGED page_tables
      BY <2>1 DEF Entry, Pte
    <2>2. CASE RangeStore
      <3>1. p * PAGE_SIZE \in Nat /\ (p * PAGE_SIZE) \div PAGE_SIZE = p /\ p \in Page
        BY <1>1, PageFacts
      <3>2. op.addr \in Nat /\ HasPte(op.addr)
        BY <2>2, RangeFacts DEF RangeStore
      <3> PICK e \in PteSet :
            /\ e.paddr = Entry(op.addr).paddr
            /\ e.flags = Entry(op.addr).flags \cup {"USER"}
            /\ \A b \in Nat : HasPte(b) =>
                 Entry(b)' = IF op.addr \div PAGE_SIZE = b \div PAGE_SIZE
                             THEN e ELSE Entry(b)
        BY <2>2, RangeStoreEntry
      <3>3. CASE op.addr \div PAGE_SIZE = p
        <4>1. Entry(op.addr) = Entry(p * PAGE_SIZE)
          BY <3>2, <3>3, PageOfAddress DEF Entry
        <4> QED
          BY <1>2, <3>1, <3>3, <4>1
      <3>4. CASE op.addr \div PAGE_SIZE # p
        BY <1>2, <3>1, <3>4
      <3> QED
        BY <3>3, <3>4
    <2> QED
      BY <2>1, <2>2
  <1>3. ASSUME NEW p \in moved, HasPte(p * PAGE_SIZE),
               "PRESENT" \in Entry(p * PAGE_SIZE)'.flags
        PROVE  FrameOf(Entry(p * PAGE_SIZE)'.paddr) \in Held
    BY <1>2, <1>3 DEF MappedHeld
  <1> QED
    BY <1>1, <1>3 DEF MappedHeld, HasPte, Pte, pde_index, pte_index, FrameOf

LEMMA MemInductive ==
    ASSUME MemInv, [MemNext]_memVars
    PROVE  MemInv'
  <1>1. CASE Alloc
    BY <1>1, AllocKeeps
  <1>2. CASE Free
    BY <1>2, FreeKeeps
  <1>3. CASE Map
    BY <1>3, MapKeeps
  <1>4. CASE Unmap
    BY <1>4, UnmapKeeps
  <1>5. CASE SetUser
    <2>1. PagingInv'
      BY <1>5, MemoryAssumption, RangeBegins DEF SetUser, MemInv
    <2>2. UNCHANGED <<physVars, moved, page_tables>>
      BY <1>5 DEF SetUser, paging_set_user_for_range
    <2>3. PhysTypeOK' /\ BitmapTrue'
      BY <2>2, PhysUnchanged DEF MemInv
    <2>4. MappedHeld'
      BY <2>2, OthersKeepMapped DEF MemInv, physVars
    <2> QED
      BY <2>1, <2>3, <2>4 DEF MemInv
  <1>6. CASE PagingStep /\ UNCHANGED physVars
    <2>1. PagingInv'
      BY <1>6, InvlpgKeeps, RangeTestKeeps, RangeStoreKeeps, RangeFlushKeeps
         DEF PagingStep, MemInv
    <2>2. UNCHANGED <<owners, moved>> /\ (RangeStore \/ UNCHANGED page_tables)
      BY <1>6 DEF PagingStep, Invlpg, RangeTest, RangeStore, RangeFlush, physVars
    <2>3. PhysTypeOK' /\ BitmapTrue'
      BY <1>6, PhysUnchanged DEF MemInv
    <2>4. MappedHeld'
      BY <2>2, OthersKeepMapped DEF MemInv
    <2> QED
      BY <2>1, <2>3, <2>4 DEF MemInv
  <1>7. CASE Processor
    <2>1. PagingInv'
      BY <1>7, ProcessorKeeps DEF Processor, MemInv
    <2>2. UNCHANGED <<physVars, moved, page_tables>>
      BY <1>7 DEF Processor, Cache, Evict
    <2>3. PhysTypeOK' /\ BitmapTrue'
      BY <2>2, PhysUnchanged DEF MemInv
    <2>4. MappedHeld'
      BY <2>2, OthersKeepMapped DEF MemInv, physVars
    <2> QED
      BY <2>1, <2>3, <2>4 DEF MemInv
  <1>8. CASE UNCHANGED memVars
    <2>1. UNCHANGED physVars /\ UNCHANGED pagingVars
      BY <1>8 DEF memVars
    <2>2. PagingInv' /\ PhysTypeOK' /\ BitmapTrue'
      BY <2>1, PagingUnchanged, PhysUnchanged DEF MemInv
    <2>3. MappedHeld'
      BY <2>1, OthersKeepMapped DEF MemInv, physVars, pagingVars
    <2> QED
      BY <2>2, <2>3 DEF MemInv
  <1> QED
    BY <1>1, <1>2, <1>3, <1>4, <1>5, <1>6, <1>7, <1>8 DEF MemNext

LEMMA MemInvariant == MemSpec => []MemInv
  <1>1. ASSUME MemInit PROVE MemInv
    <2>1. phys_init /\ paging_init /\ moved = {}
      BY <1>1 DEF MemInit, paging_init
    <2>2. MappedHeld
      BY <2>1 DEF MappedHeld
    <2> QED
      BY <2>1, <2>2, InitBitmap, InitPaging DEF MemInv
  <1> QED
    BY <1>1, MemInductive, PTL DEF MemSpec

-----------------------------------------------------------------------------
(* The properties of the run *)

\* The bitmap accounts for every frame: none is given out twice or is the
\* kernel's, and none is free when phys_alloc_frame finds none.
THEOREM FramesSafe == MemSpec => []FramesAccounted
  <1>1. ASSUME MemInv PROVE FramesAccounted
    BY <1>1, BitmapAccounts DEF MemInv
  <1> QED
    BY <1>1, MemInvariant, PTL

\* Once paging_map and paging_unmap have returned, the processor translates
\* with what they left, and reaches no frame that the caller has given back.
THEOREM TranslationsFresh == MemSpec => []NoStaleTranslation
  <1>1. ASSUME MemInv PROVE TlbFresh
    <2> SUFFICES ASSUME op = Idle, NEW p \in Page, tlb[p] # NoEntry
                 PROVE  tlb[p] = Entry(p * PAGE_SIZE)
      BY DEF TlbFresh
    <2>1. ~ Pending(p)
      BY DEF Pending, Idle
    <2> QED
      BY <1>1, <2>1 DEF MemInv, PagingInv, TlbTrue
  <1>2. ASSUME MemInv PROVE NoStaleFrame
    <2> SUFFICES ASSUME NEW p \in moved, tlb[p] # NoEntry, op = Idle
                 PROVE  FrameOf(tlb[p].paddr) \in Held
      BY DEF NoStaleFrame
    <2>1. p \in Page
      BY <1>2 DEF MemInv, PagingInv, PagingTypeOK
    <2>2. HasPte(p * PAGE_SIZE) /\ "PRESENT" \in tlb[p].flags
      BY <1>2, <2>1 DEF MemInv, PagingInv, TlbTrue
    <2>3. tlb[p] = Entry(p * PAGE_SIZE)
      BY <1>1, <1>2, <2>1 DEF TlbFresh
    <2> QED
      BY <1>2, <2>2, <2>3 DEF MemInv, MappedHeld
  <1>3. ASSUME MemInv PROVE NoStaleTranslation
    BY <1>1, <1>2, <1>3 DEF NoStaleTranslation, MemInv, PagingInv
  <1> QED
    BY <1>3, MemInvariant, PTL

\* What a step of paging_set_user_for_range may mark, and what is marked when
\* it returns.
LEMMA RangeStepExact ==
    ASSUME PagingInv, [MemNext]_memVars, op.call = "range",
           NEW p \in 0 .. PagesWithPte - 1
    PROVE  /\ op' = Idle /\ Covers(p) /\ op.end <= Space - PAGE_SIZE
                => "USER" \in Entry(p * PAGE_SIZE).flags
           /\ "USER" \in Entry(p * PAGE_SIZE)'.flags
                => "USER" \in Entry(p * PAGE_SIZE).flags \/ Covers(p)
  <1>1. op \in [call : {"range"}, start : Addr, end : Addr, addr : Nat,
                at : {"test", "store", "flush"}]
        /\ op # Idle
    BY RangeFacts
  <1>2. p \in Page /\ p \in Nat /\ p * PAGE_SIZE \in Nat
        /\ (p * PAGE_SIZE) \div PAGE_SIZE = p /\ HasPte(p * PAGE_SIZE)
    BY PageFacts, PagingSizes
  <1> PICK n \in Nat :
        /\ op.addr = n * PAGE_SIZE
        /\ op.start \div PAGE_SIZE <= n
        /\ op.at # "test" => op.addr < RangeEnd(op.end)
        /\ \A q \in 0 .. PagesWithPte - 1 :
             op.start \div PAGE_SIZE <= q /\ q < n => "USER" \in Entry(q * PAGE_SIZE).flags
    BY DEF PagingInv, RangeMarked
  <1>3. ASSUME op' = Idle, Covers(p), op.end <= Space - PAGE_SIZE
        PROVE  "USER" \in Entry(p * PAGE_SIZE).flags
    <2>1. RangeTest
      <3>1. op' # op /\ op' # NextPage /\ op.call \notin {"none", "map", "unmap"}
        <4>1. NextPage.call = "range"
          BY <1>1 DEF NextPage
        <4> QED
          BY <1>1, <1>3, <4>1 DEF Idle
      <3>2. op' # [op EXCEPT !.at = "flush"]
        BY <1>1, <1>3 DEF Idle
      <3> QED
        BY <1>1, <3>1, <3>2 DEF MemNext, Alloc, Free, Map, Unmap, SetUser, PagingStep,
           Processor, Cache, Evict, Invlpg, RangeStore, RangeFlush, paging_map,
           paging_unmap, Change, paging_set_user_for_range, pagingVars, memVars
    <2>2. op.addr >= RangeEnd(op.end)
      <3>1. NextPage # Idle /\ [op EXCEPT !.at = "store"] # Idle
        BY <1>1 DEF NextPage, Idle
      <3> QED
        BY <1>3, <2>1, <3>1 DEF RangeTest
    <2>3. p * PAGE_SIZE < n * PAGE_SIZE
      <3>1. op.end <= RangeEnd(op.end) /\ RangeEnd(op.end) \in Nat /\ op.end \in Nat
        BY <1>1, <1>3, LastOfRange, PageFacts
      <3> QED
        BY <1>1, <1>2, <1>3, <2>2, <3>1 DEF Covers
    <2>4. p < n
      BY <1>2, <2>3, PagesInOrder
    <2>5. op.start \div PAGE_SIZE <= p
      BY <1>1, <1>2, <1>3, FirstOfRange, PageFacts DEF Covers
    <2> QED
      BY <2>4, <2>5
  <1>4. ASSUME "USER" \in Entry(p * PAGE_SIZE)'.flags,
               "USER" \notin Entry(p * PAGE_SIZE).flags
        PROVE  Covers(p)
    <2>1. page_tables' # page_tables
      BY <1>4 DEF Entry, Pte, pde_index, pte_index
    <2>2. RangeStore
      BY <1>1, <2>1 DEF MemNext, Alloc, Free, Map, Unmap, SetUser, PagingStep,
         Processor, Cache, Evict, Invlpg, RangeTest, RangeFlush, paging_map,
         paging_unmap, Change, paging_set_user_for_range, pagingVars, memVars, Idle
    <2>3. op.addr \div PAGE_SIZE = p
      BY <1>2, <1>4, <2>2, RangeStoreEntry
    <2>4. p = n
      BY <2>3, PageOfFirstByte
    <2>5. p * PAGE_SIZE < op.end
      BY <1>1, <1>2, <2>2, <2>4, LastOfRange DEF RangeStore
    <2>6. (p + 1) * PAGE_SIZE > op.start
      BY <1>1, <1>2, <2>4, FirstOfRange, PageFacts
    <2> QED
      BY <2>5, <2>6 DEF Covers
  <1> QED
    BY <1>3, <1>4

\* paging_set_user_for_range marks the pages of its range, and no other.
THEOREM RangesExact == MemSpec => RangeExact
  <1>1. Half \div PAGE_SIZE = PagesWithPte
    BY PagingSizes, PageOfFirstByte
  <1>2. ASSUME MemInv, [MemNext]_memVars
        PROVE  [ op.call = "range" => \A p \in 0 .. (Half \div PAGE_SIZE) - 1 :
                   LET v == p * PAGE_SIZE
                       marked == "USER" \in Entry(v).flags
                   IN  /\ op' = Idle /\ Covers(p) /\ op.end <= Space - PAGE_SIZE => marked
                       /\ "USER" \in Entry(v)'.flags => marked \/ Covers(p)
               ]_pagingVars
    BY <1>1, <1>2, RangeStepExact DEF MemInv
  <1> QED
    BY <1>2, MemInvariant, PTL DEF MemSpec, RangeExact

-----------------------------------------------------------------------------
(* The heap.  BlocksDisjoint is not inductive: a new block is disjoint from *)
(* the others only because every block lies below heap_offset, and because  *)
(* a boot-time request in progress still holds the current offset unless an *)
(* interrupt has raced with it.                                             *)

\* A request in progress passed kmalloc's test.
PendingFits ==
    booting # NoRequest => booting.offset + booting.size < KHEAP_SIZE

\* Without a race, every block lies below heap_offset.
BlocksBelowOffset ==
    ~raced => \A b \in blocks : b.base + b.size <= PtrAt(heap_offset)

\* Without a race, a request in progress holds the current offset.
PendingIsCurrent ==
    ~raced /\ booting # NoRequest => booting.offset = heap_offset

HeapInv ==
    /\ TypeOK
    /\ BlocksInHeap
    /\ BlocksDisjoint
    /\ PendingFits
    /\ BlocksBelowOffset
    /\ PendingIsCurrent

-----------------------------------------------------------------------------
\* A sum below the modulus is not wrapped.
LEMMA ModBelow ==
    ASSUME NEW a \in Nat, NEW m \in Nat, a < m
    PROVE  a % m = a
  OBVIOUS

\* For the sizes the kernel asks for, kmalloc's 32-bit test and sum are
\* exact (kmalloc.c:18, 24).
LEMMA NoWrap ==
    ASSUME NEW offset \in 0 .. (KHEAP_SIZE - 1), NEW size \in Request
    PROVE  /\ Fits(offset, size) <=> offset + size < KHEAP_SIZE
           /\ OffsetAfter(offset, size) = offset + size
  <1>1. /\ offset + size \in Nat
        /\ offset + size < UINT32
    BY HeapAssumption, RequestAssumption
  <1>2. (offset + size) % UINT32 = offset + size
    BY <1>1, ModBelow, HeapAssumption
  <1> QED
    BY <1>2 DEF Fits, OffsetAfter

\* What handing out one more block at the current offset preserves.
LEMMA NewBlock ==
    ASSUME NEW offset \in 0 .. (KHEAP_SIZE - 1), NEW size \in Request,
           offset + size < KHEAP_SIZE,
           NEW B, B \subseteq Block
    PROVE  LET block == [base |-> PtrAt(offset), size |-> size]
           IN  /\ block \in Block
               /\ block.base + block.size < KHEAP_START + KHEAP_SIZE
               /\ block.base + block.size = PtrAt(offset + size)
               /\ (\A b \in B : b.base + b.size <= PtrAt(offset))
                     => \A b \in B : Disjoint(b, block) /\ Disjoint(block, b)
  BY HeapAssumption, RequestAssumption DEF PtrAt, Block, HeapAddr, Disjoint

\* A block's bounds are numbers.
LEMMA BlockNat ==
    ASSUME NEW b \in Block
    PROVE  b.base \in Nat /\ b.size \in Nat
  <1>1. b.base \in HeapAddr /\ b.size \in Request
    BY DEF Block
  <1>2. HeapAddr \subseteq Nat
    BY HeapAssumption DEF HeapAddr
  <1> QED
    BY <1>1, <1>2, RequestAssumption

LEMMA HeapInit == Init => HeapInv
  <1> SUFFICES ASSUME Init PROVE HeapInv
    OBVIOUS
  <1>1. TypeOK
    <2>1. heap_offset \in 0 .. (KHEAP_SIZE - 1)
      BY HeapAssumption DEF Init
    <2> QED
      BY <2>1 DEF Init, TypeOK
  <1>2. BlocksInHeap /\ BlocksDisjoint /\ BlocksBelowOffset
    BY DEF Init, BlocksInHeap, BlocksDisjoint, BlocksBelowOffset
  <1>3. PendingFits /\ PendingIsCurrent
    BY DEF Init, PendingFits, PendingIsCurrent
  <1> QED
    BY <1>1, <1>2, <1>3 DEF HeapInv

LEMMA HeapNext == HeapInv /\ [Next]_vars => HeapInv'
  <1> SUFFICES ASSUME HeapInv, [Next]_vars PROVE HeapInv'
    OBVIOUS
  <1> USE DEF HeapInv
  <1>1. CASE Sti
    BY <1>1 DEF Sti, TypeOK, BlocksInHeap, BlocksDisjoint, PendingFits,
      BlocksBelowOffset, PendingIsCurrent
  <1>2. ASSUME NEW size \in Request, KmallocBegin(size) PROVE HeapInv'
    <2>1. heap_offset + size < KHEAP_SIZE
      BY <1>2, NoWrap DEF KmallocBegin, TypeOK
    <2>2. booting' # NoRequest
      BY <1>2, RequestAssumption DEF KmallocBegin, NoRequest
    <2> QED
      BY <1>2, <2>1, <2>2 DEF KmallocBegin, TypeOK, BlocksInHeap,
        BlocksDisjoint, PendingFits, BlocksBelowOffset, PendingIsCurrent
  <1>3. CASE KmallocEnd
    <2>1. /\ booting.size \in Request
          /\ booting.offset \in 0 .. (KHEAP_SIZE - 1)
          /\ booting.offset + booting.size < KHEAP_SIZE
      BY <1>3 DEF KmallocEnd, TypeOK, PendingFits
    <2>2. heap_offset' = booting.offset + booting.size
      BY <1>3, <2>1, NoWrap DEF KmallocEnd
    <2> DEFINE block == [base |-> PtrAt(booting.offset), size |-> booting.size]
    <2>3. blocks' = blocks \cup {block} /\ raced' = raced /\ booting' = NoRequest
      BY <1>3 DEF KmallocEnd
    <2>4. /\ block \in Block
          /\ block.base + block.size < KHEAP_START + KHEAP_SIZE
          /\ block.base + block.size = PtrAt(heap_offset')
          /\ (\A b \in blocks : b.base + b.size <= PtrAt(booting.offset))
                => \A b \in blocks : Disjoint(b, block) /\ Disjoint(block, b)
      BY <2>1, <2>2, NewBlock DEF TypeOK
    <2>5. ~raced => \A b \in blocks : b.base + b.size <= PtrAt(booting.offset)
      BY <1>3 DEF KmallocEnd, BlocksBelowOffset, PendingIsCurrent
    <2>10. booting.offset \in Nat /\ booting.size \in Nat
      <3>1. booting.offset \in Nat
        BY <2>1, HeapAssumption
      <3>2. booting.size \in Nat
        BY <2>1, RequestAssumption
      <3> QED
        BY <3>1, <3>2
    <2>6. TypeOK'
      <3>1. heap_offset' \in 0 .. (KHEAP_SIZE - 1)
        BY <2>1, <2>2, <2>10, HeapAssumption
      <3> QED
        BY <1>3, <2>3, <2>4, <3>1 DEF KmallocEnd, TypeOK
    <2>7. BlocksInHeap'
      BY <2>3, <2>4 DEF BlocksInHeap
    <2>8. BlocksDisjoint'
      BY <2>3, <2>4, <2>5 DEF BlocksDisjoint
    <2>9. BlocksBelowOffset'
      <3>1. \A b \in blocks : b.base \in Nat /\ b.size \in Nat
        BY BlockNat DEF TypeOK
      <3> QED
        <4>1. PtrAt(booting.offset) <= PtrAt(heap_offset')
          BY <2>2, <2>10, HeapAssumption DEF PtrAt
        <4>2. PtrAt(booting.offset) \in Nat /\ PtrAt(heap_offset') \in Nat
          BY <2>2, <2>10, HeapAssumption DEF PtrAt
        <4>3. ~raced => \A b \in blocks' : b.base + b.size <= PtrAt(heap_offset')
          BY <2>3, <2>4, <2>5, <3>1, <4>1, <4>2
        <4> QED
          BY <2>3, <4>3 DEF BlocksBelowOffset, PtrAt
    <2> QED
      BY <2>3, <2>6, <2>7, <2>8, <2>9 DEF PendingFits, PendingIsCurrent
  <1>4. ASSUME NEW size \in Request, KmallocInIrq(size) PROVE HeapInv'
    <2>1. /\ heap_offset \in 0 .. (KHEAP_SIZE - 1)
          /\ heap_offset + size < KHEAP_SIZE
          /\ heap_offset' = heap_offset + size
      BY <1>4, NoWrap DEF KmallocInIrq, TypeOK
    <2> DEFINE block == [base |-> PtrAt(heap_offset), size |-> size]
    <2>2. /\ blocks' = blocks \cup {block}
          /\ raced' = (raced \/ booting # NoRequest)
          /\ booting' = booting
      BY <1>4 DEF KmallocInIrq
    <2>3. /\ block \in Block
          /\ block.base + block.size < KHEAP_START + KHEAP_SIZE
          /\ block.base + block.size = PtrAt(heap_offset')
          /\ (\A b \in blocks : b.base + b.size <= PtrAt(heap_offset))
                => \A b \in blocks : Disjoint(b, block) /\ Disjoint(block, b)
      BY <2>1, NewBlock DEF TypeOK
    <2>4. TypeOK'
      <3>1. heap_offset' \in 0 .. (KHEAP_SIZE - 1)
        BY <2>1, HeapAssumption, RequestAssumption
      <3> QED
        BY <1>4, <2>2, <2>3, <3>1 DEF KmallocInIrq, TypeOK
    <2>5. BlocksInHeap'
      BY <2>2, <2>3 DEF BlocksInHeap
    <2>6. BlocksDisjoint'
      BY <2>2, <2>3 DEF BlocksDisjoint, BlocksBelowOffset
    <2>7. BlocksBelowOffset'
      <3>1. \A b \in blocks : b.base \in Nat /\ b.size \in Nat
        BY BlockNat DEF TypeOK
      <3> QED
        <4>1. PtrAt(heap_offset) <= PtrAt(heap_offset')
          BY <2>1, HeapAssumption, RequestAssumption DEF PtrAt
        <4>2. PtrAt(heap_offset) \in Nat /\ PtrAt(heap_offset') \in Nat
          BY <2>1, HeapAssumption, RequestAssumption DEF PtrAt
        <4>3. ~raced => \A b \in blocks' : b.base + b.size <= PtrAt(heap_offset')
          BY <2>2, <2>3, <3>1, <4>1, <4>2 DEF BlocksBelowOffset
        <4> QED
          BY <2>2, <4>3 DEF BlocksBelowOffset, PtrAt
    <2> QED
      BY <2>2, <2>4, <2>5, <2>6, <2>7 DEF PendingFits, PendingIsCurrent
  <1>5. CASE OutOfMemory \/ UNCHANGED vars
    BY <1>5 DEF OutOfMemory, vars, TypeOK, BlocksInHeap, BlocksDisjoint,
      PendingFits, BlocksBelowOffset, PendingIsCurrent
  <1> QED
    BY <1>1, <1>2, <1>3, <1>4, <1>5 DEF Next

-----------------------------------------------------------------------------
\* Every reachable state of the heap satisfies the inductive invariant.
LEMMA HeapInductive == Spec => []HeapInv
  BY HeapInit, HeapNext, PTL DEF Spec

\* The heap's variables keep their ranges whatever the order of requests,
\* interrupts included (kmalloc.c:18-24).
THEOREM TypeCorrect == Spec => []TypeOK
  <1>1. HeapInv => TypeOK
    BY DEF HeapInv
  <1> QED
    BY <1>1, HeapInductive, PTL

\* No block ever reaches the heap's last byte, races included (kmalloc.c:18).
THEOREM AllInHeap == Spec => []BlocksInHeap
  <1>1. HeapInv => BlocksInHeap
    BY DEF HeapInv
  <1> QED
    BY <1>1, HeapInductive, PTL

\* As long as no interrupt allocates inside a boot-time kmalloc, no two
\* blocks share a byte (kmalloc.c:16-27, kernel_main.c:282-304).
THEOREM NoOverlap == Spec => []BlocksDisjoint
  <1>1. HeapInv => BlocksDisjoint
    BY DEF HeapInv
  <1> QED
    BY <1>1, HeapInductive, PTL

=============================================================================
