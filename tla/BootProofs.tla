----------------------------- MODULE BootProofs -----------------------------
\* The log's ring after every race of two writers, the order of the startup
\* script, the line the shell executes, the first prompt, the filesystem's
\* invariant through all of it, and the tree of the first boot.
EXTENDS Boot, TreeProofs

-----------------------------------------------------------------------------
(* The log *)

\* Multiples of m less than m apart are the same.
LEMMA SameMultiple ==
    ASSUME NEW m \in Nat \ {0}, NEW p \in Nat, NEW q \in Nat,
           q * m <= p * m, p * m < q * m + m
    PROVE  p = q
  <1>1. ASSUME NEW d \in Nat \ {0} PROVE d * m >= m
    OBVIOUS
  <1>2. CASE p < q
    <2>1. PICK d \in Nat \ {0} : q = p + d
      <3>1. q - p \in Nat \ {0} /\ q = p + (q - p)
        BY <1>2
      <3> QED
        BY <3>1
    <2>2. q * m = p * m + d * m /\ d * m >= m
      BY <1>1, <2>1
    <2> QED
      BY <2>2
  <1>3. CASE p > q
    <2>1. PICK d \in Nat \ {0} : p = q + d
      <3>1. p - q \in Nat \ {0} /\ p = q + (p - q)
        BY <1>3
      <3> QED
        BY <3>1
    <2>2. p * m = q * m + d * m /\ d * m >= m
      BY <1>1, <2>1
    <2> QED
      BY <2>2
  <1> QED
    BY <1>2, <1>3

\* Numbers that are equal modulo m, and less than m apart, are the same.
LEMMA SameResidue ==
    ASSUME NEW m \in Nat \ {0}, NEW x \in Nat, NEW y \in Nat,
           x % m = y % m, y <= x, x < y + m
    PROVE  x = y
  <1> PICK p, q, r : p = x \div m /\ q = y \div m /\ r = x % m
    OBVIOUS
  <1>1. p \in Nat /\ q \in Nat /\ r \in 0 .. m - 1 /\ x = p * m + r /\ y = q * m + r
    <2>1. x \div m \in Nat /\ x % m \in 0 .. m - 1 /\ x = (x \div m) * m + (x % m)
      BY DivMod
    <2>2. y \div m \in Nat /\ y % m \in 0 .. m - 1 /\ y = (y \div m) * m + (y % m)
      BY DivMod
    <2> QED
      BY <2>1, <2>2
  <1>2. p * m \in Nat /\ q * m \in Nat
    BY <1>1
  <1>3. q * m <= p * m /\ p * m < q * m + m
    BY <1>1, <1>2
  <1>4. p = q
    BY <1>1, <1>3, SameMultiple
  <1> QED
    BY <1>1, <1>4

\* A multiple of m makes no difference to the remainder.
LEMMA WholeTurns ==
    ASSUME NEW m \in Nat \ {0}, NEW x \in Nat, NEW k \in Nat
    PROVE  (x + k * m) % m = x % m
  <1> PICK q, r : q = x \div m /\ r = x % m
    OBVIOUS
  <1>1. q \in Nat /\ r \in 0 .. m - 1 /\ x = q * m + r
    <2>1. x \div m \in Nat /\ x % m \in 0 .. m - 1 /\ x = (x \div m) * m + (x % m)
      BY DivMod
    <2> QED
      BY <2>1
  <1> PICK n : n = q + k
    OBVIOUS
  <1>2. n \in Nat /\ n * m = q * m + k * m /\ q * m \in Nat /\ k * m \in Nat
    BY <1>1
  <1>3. x + k * m = n * m + r
    BY <1>1, <1>2
  <1>4. (n * m + r) % m = r
    BY <1>1, <1>2, DivModUnique
  <1> QED
    BY <1>3, <1>4

\* A number below 2m is wrapped at most once.
LEMMA WrapOnce ==
    ASSUME NEW m \in Nat \ {0}, NEW x \in Nat, x < 2 * m
    PROVE  x % m = IF x < m THEN x ELSE x - m
  <1>1. CASE x < m
    <2>1. (0 * m + x) % m = x
      BY <1>1, DivModUnique
    <2> QED
      BY <1>1, <2>1
  <1>2. CASE x >= m
    <2> PICK r : r = x - m
      OBVIOUS
    <2>1. r \in 0 .. m - 1 /\ 1 \in Nat
      BY <1>2
    <2>2. (1 * m + r) % m = r
      BY <2>1, DivModUnique
    <2>3. 1 * m + r = x /\ ~ (x < m)
      BY <1>2
    <2> QED
      BY <2>2, <2>3
  <1> QED
    BY <1>1, <1>2

-----------------------------------------------------------------------------
(* The log *)

\* The slot of the event that came i events before the last one.
Back(head, i) == (head + LOG_MAX_LINES - 1 - i) % LOG_MAX_LINES

\* The last n of the events ev are in the ring, each one whole.
Holds(buf, head, ev, n) ==
    \A i \in 0 .. (n - 1) : buf[Back(head, i)] = Whole(ev[Len(ev) - i])

IsRing(buf) == buf = [s \in Slot |-> [first |-> buf[s].first, rest |-> buf[s].rest]]

\* The slot that is written may still hold the oldest event.
Kept == IF writer.at \in Between THEN Smaller(Len(events), LOG_MAX_LINES - 1) ELSE Len(events)

LogTypes ==
    /\ IsRing(log_buf)
    /\ log_head \in Slot /\ log_count \in 0 .. LOG_MAX_LINES
    /\ events \in Seq(Msg) /\ Len(events) <= LOG_MAX_LINES
    /\ writer \in [at : Between \cup {"out", "count"}, msg : Half, head : Slot,
                    count : 0 .. LOG_MAX_LINES, raced : BOOLEAN]
    /\ disturbed \in BOOLEAN
    /\ writer.at # "out" => writer.msg \in Msg

\* A writer that nobody has come between copies its line to the slot that is
\* next; after a race there is nothing to vouch for until log_head is stored.
WriterOK ==
    /\ writer.at \in Between /\ ~writer.raced => writer.head = log_head
    /\ writer.at \in Between /\ writer.raced => events = <<>> /\ disturbed
    /\ writer.at \in {"rest", "load", "head"} /\ ~writer.raced =>
          log_buf[log_head].first = writer.msg
    /\ writer.at \in {"load", "head"} /\ ~writer.raced =>
          log_buf[log_head].rest = writer.msg

\* As long as no handler logged inside a log_event, the lines are counted.
CountOK ==
    ~disturbed =>
        /\ writer.at \in {"out", "first", "rest", "load"} => log_count = Len(events)
        /\ writer.at = "head" => writer.count = Len(events)
        /\ writer.at = "count" => Counted(writer.count, 1) = Len(events)

LogInv == LogTypes /\ WriterOK /\ CountOK /\ Holds(log_buf, log_head, events, Kept)

LEMMA LogSizes ==
    /\ LOG_MAX_LINES \in Nat \ {0} /\ LOG_MAX_LINES \in Nat /\ LOG_MAX_LINES >= 1
    /\ Slot = 0 .. LOG_MAX_LINES - 1
  BY LogAssumption DEF Slot

\* Where Back leads, without a division.
LEMMA BackAt ==
    ASSUME NEW head \in Slot, NEW i \in 0 .. LOG_MAX_LINES - 1
    PROVE  /\ Back(head, i) \in Slot
           /\ Back(head, i) = IF i < head THEN head - 1 - i ELSE head + LOG_MAX_LINES - 1 - i
  <1> PICK x : x = head + LOG_MAX_LINES - 1 - i
    OBVIOUS
  <1>1. x \in Nat /\ x < 2 * LOG_MAX_LINES /\ (i < head <=> x >= LOG_MAX_LINES)
    BY LogSizes
  <1>2. Back(head, i) = x % LOG_MAX_LINES
    BY DEF Back
  <1>3. x % LOG_MAX_LINES = IF x < LOG_MAX_LINES THEN x ELSE x - LOG_MAX_LINES
    BY <1>1, LogSizes, WrapOnce
  <1> PICK y : y = x % LOG_MAX_LINES
    OBVIOUS
  <1>4. y = IF i < head THEN head - 1 - i ELSE head + LOG_MAX_LINES - 1 - i
    BY <1>1, <1>3, LogSizes
  <1>5. y \in Slot
    BY <1>4, LogSizes
  <1> QED
    BY <1>2, <1>4, <1>5

\* What the dump shows, from its end.
LEMMA DumpBack ==
    ASSUME log_head \in Slot, log_count \in 0 .. LOG_MAX_LINES,
           NEW i \in 0 .. log_count - 1
    PROVE  log_dump[log_count - i] = log_buf[Back(log_head, i)]
  <1> PICK h, c, st, x : h = log_head /\ c = log_count /\ st = DumpStart /\ x = st + (c - i) - 1
    OBVIOUS
  <1>1. h + LOG_MAX_LINES - c \in Nat /\ h + LOG_MAX_LINES - c < 2 * LOG_MAX_LINES
    BY LogSizes
  <1>2. st = (h + LOG_MAX_LINES - c) % LOG_MAX_LINES
    BY DEF DumpStart
  <1>3. st = IF h < c THEN h + LOG_MAX_LINES - c ELSE h - c
    <2> PICK y : y = h + LOG_MAX_LINES - c
      OBVIOUS
    <2>1. y % LOG_MAX_LINES = IF y < LOG_MAX_LINES THEN y ELSE y - LOG_MAX_LINES
      BY <1>1, LogSizes, WrapOnce
    <2> QED
      BY <1>2, <2>1, LogSizes
  <1>4. x \in Nat /\ x < 2 * LOG_MAX_LINES
    BY <1>3, LogSizes
  <1>5. x % LOG_MAX_LINES = IF x < LOG_MAX_LINES THEN x ELSE x - LOG_MAX_LINES
    BY <1>4, LogSizes, WrapOnce
  <1>6. Back(h, i) = IF i < h THEN h - 1 - i ELSE h + LOG_MAX_LINES - 1 - i
    <2>1. h \in Slot /\ i \in 0 .. LOG_MAX_LINES - 1
      BY LogSizes
    <2> QED
      BY <2>1, BackAt
  <1>7. x % LOG_MAX_LINES = Back(h, i)
    <2> PICK y, z : y = x % LOG_MAX_LINES /\ z = Back(h, i)
      OBVIOUS
    <2>1. y = z
      BY <1>3, <1>5, <1>6, LogSizes
    <2> QED
      BY <2>1
  <1>8. log_dump[c - i] = log_buf[(st + (c - i) - 1) % LOG_MAX_LINES]
    BY LogSizes DEF log_dump
  <1> QED
    BY <1>7, <1>8

LEMMA RecentFacts ==
    ASSUME NEW s \in Seq(Msg)
    PROVE  /\ Recent(s) \in Seq(Msg)
           /\ Len(Recent(s)) = Counted(0, Len(s))
           /\ \A i \in 0 .. Len(Recent(s)) - 1 :
                 Recent(s)[Len(Recent(s)) - i] = s[Len(s) - i]
  <1>1. CASE Len(s) <= LOG_MAX_LINES
    BY <1>1, LogSizes DEF Recent, Counted
  <1>2. CASE ~ (Len(s) <= LOG_MAX_LINES)
    <2> PICK n, m : n = Len(s) /\ m = n - LOG_MAX_LINES + 1
      OBVIOUS
    <2>1. n \in Nat /\ m \in 1 .. n /\ n - m + 1 = LOG_MAX_LINES /\ m <= n
      BY <1>2, LogSizes, LenProperties
    <2>2. Recent(s) = SubSeq(s, m, n)
      BY <1>2 DEF Recent
    <2> HIDE DEF Recent
    <2>4. \A k \in m .. n : s[k] \in Msg
      BY <2>1, ElementOfSeq
    <2>3. /\ SubSeq(s, m, n) \in Seq(Msg) /\ Len(SubSeq(s, m, n)) = LOG_MAX_LINES
          /\ \A k \in 1 .. LOG_MAX_LINES : SubSeq(s, m, n)[k] = s[m + k - 1]
      BY <2>1, <2>4, SubSeqProperties, LogSizes, SMTT(20)
    <2> PICK t : t = SubSeq(s, m, n)
      OBVIOUS
    <2>5. t \in Seq(Msg) /\ Len(t) = LOG_MAX_LINES
      BY <2>3
    <2>6. LOG_MAX_LINES = Counted(0, Len(s))
      BY <1>2, <2>1, LogSizes DEF Counted
    <2>7. ASSUME NEW i \in 0 .. LOG_MAX_LINES - 1
          PROVE  t[LOG_MAX_LINES - i] = s[n - i]
      <3>1. LOG_MAX_LINES - i \in 1 .. LOG_MAX_LINES
        BY LogSizes
      <3>2. t[LOG_MAX_LINES - i] = s[m + (LOG_MAX_LINES - i) - 1]
        BY <2>3, <3>1
      <3>3. m + (LOG_MAX_LINES - i) - 1 = n - i
        BY <2>1, LogSizes
      <3> QED
        BY <3>2, <3>3
    <2> QED
      BY <2>2, <2>5, <2>6, <2>7
  <1> QED
    BY <1>1, <1>2

\* r is the end of the events ev and, after them, msgs.
LastOf(r, ev, msgs) ==
    /\ r \in Seq(Msg) /\ Len(r) = Counted(Len(ev), Len(msgs))
    /\ \A i \in 0 .. Len(r) - 1 :
          r[Len(r) - i] = IF i < Len(msgs) THEN msgs[Len(msgs) - i]
                          ELSE ev[Len(ev) - (i - Len(msgs))]

LEMMA RecentJoined ==
    ASSUME NEW ev \in Seq(Msg), NEW msgs \in Seq(Msg)
    PROVE  LastOf(Recent(ev \o msgs), ev, msgs)
  <1> PICK s, m, n, r : s = ev \o msgs /\ m = Len(ev) /\ n = Len(msgs) /\ r = Recent(ev \o msgs)
    OBVIOUS
  <1>1. /\ s \in Seq(Msg) /\ m \in Nat /\ n \in Nat /\ Len(s) = m + n
        /\ \A k \in 1 .. m + n : s[k] = IF k <= m THEN ev[k] ELSE msgs[k - m]
    BY ConcatProperties, LenProperties
  <1>2. /\ r \in Seq(Msg) /\ Len(r) = Counted(0, Len(s))
        /\ \A i \in 0 .. Len(r) - 1 : r[Len(r) - i] = s[Len(s) - i]
    <2>1. /\ Recent(s) \in Seq(Msg)
          /\ Len(Recent(s)) = Counted(0, Len(s))
          /\ \A i \in 0 .. Len(Recent(s)) - 1 :
                Recent(s)[Len(Recent(s)) - i] = s[Len(s) - i]
      BY <1>1, RecentFacts
    <2> QED
      BY <2>1, Zenon
  <1>3. Len(r) = Counted(m, n) /\ Len(r) <= m + n
    BY <1>1, <1>2, LogSizes DEF Counted
  <1>4. ASSUME NEW i \in 0 .. Len(r) - 1
        PROVE  r[Len(r) - i] = IF i < n THEN msgs[n - i] ELSE ev[m - (i - n)]
    <2>1. m + n - i \in 1 .. m + n /\ (m + n - i <= m <=> ~ (i < n))
          /\ m + n - i - m = n - i /\ m - (i - n) = m + n - i
      BY <1>1, <1>2, <1>3
    <2>2. r[Len(r) - i] = s[Len(s) - i]
      BY <1>2
    <2> PICK k : k = m + n - i
      OBVIOUS
    <2>3. Len(s) - i = k
      BY <1>1
    <2>4. s[k] = IF k <= m THEN ev[k] ELSE msgs[k - m]
      BY <1>1, <2>1
    <2> QED
      BY <2>1, <2>2, <2>3, <2>4
  <1> QED
    BY <1>2, <1>3, <1>4 DEF LastOf

\* After n more events the i-th last of all is a new one, or was nearer to the end.
LEMMA BackAfter ==
    ASSUME NEW head \in Slot, NEW n \in Nat, NEW h, h = After(head, n),
           NEW i \in 0 .. LOG_MAX_LINES - 1
    PROVE  /\ h \in Slot
           /\ i < n => Back(h, i) = After(head, n - 1 - i)
           /\ ~ (i < n) => Back(h, i) = Back(head, i - n)
  <1> PICK q : q = (head + n) \div LOG_MAX_LINES
    OBVIOUS
  <1>1. h \in Slot /\ q \in Nat /\ head + n = q * LOG_MAX_LINES + h
    <2> PICK x : x = head + n
      OBVIOUS
    <2>1. x \in Nat
      BY LogSizes
    <2>2. /\ x \div LOG_MAX_LINES \in Nat /\ x % LOG_MAX_LINES \in 0 .. LOG_MAX_LINES - 1
          /\ x = (x \div LOG_MAX_LINES) * LOG_MAX_LINES + (x % LOG_MAX_LINES)
      BY <2>1, LogSizes, DivMod
    <2> QED
      BY <2>2, LogSizes DEF After
  <1> PICK y : y = h + LOG_MAX_LINES - 1 - i
    OBVIOUS
  <1>2. y \in Nat /\ Back(h, i) = y % LOG_MAX_LINES
    BY <1>1, LogSizes DEF Back
  <1>3. q * LOG_MAX_LINES \in Nat
    BY <1>1, LogSizes
  <1>4. (y + q * LOG_MAX_LINES) % LOG_MAX_LINES = y % LOG_MAX_LINES
    BY <1>1, <1>2, LogSizes, WholeTurns
  <1>5. CASE i < n
    <2> PICK z : z = head + (n - 1 - i)
      OBVIOUS
    <2>1. z \in Nat
      BY <1>5, LogSizes
    <2>2. (z + 1 * LOG_MAX_LINES) % LOG_MAX_LINES = z % LOG_MAX_LINES
      BY <2>1, LogSizes, WholeTurns
    <2>3. z + 1 * LOG_MAX_LINES = y + q * LOG_MAX_LINES
      BY <1>1, <1>3, LogSizes
    <2>4. After(head, n - 1 - i) = z % LOG_MAX_LINES
      BY DEF After
    <2> QED
      BY <1>1, <1>2, <1>4, <1>5, <2>2, <2>3, <2>4
  <1>6. CASE ~ (i < n)
    <2>1. head + LOG_MAX_LINES - 1 - (i - n) = y + q * LOG_MAX_LINES
      BY <1>1, <1>3, LogSizes
    <2>2. Back(head, i - n) = (head + LOG_MAX_LINES - 1 - (i - n)) % LOG_MAX_LINES
      BY DEF Back
    <2> QED
      BY <1>1, <1>2, <1>4, <1>6, <2>1, <2>2
  <1> QED
    BY <1>1, <1>5, <1>6

\* What the calls of a handler leave in the ring: each slot has the last line
\* that was written to it.
LEMMA InIrqRing ==
    ASSUME LogTypes, NEW msgs \in Seq(Msg), LogInIrq(msgs),
           NEW i \in 0 .. LOG_MAX_LINES - 1, NEW h, h = After(log_head, Len(msgs))
    PROVE  /\ i < Len(msgs) => log_buf'[Back(h, i)] = Whole(msgs[Len(msgs) - i])
           /\ ~ (i < Len(msgs)) => log_buf'[Back(h, i)] = log_buf[Back(log_head, i - Len(msgs))]
  <1> DEFINE written(s) == {k \in DOMAIN msgs : After(log_head, k - 1) = s}
             last(s) == CHOOSE k \in written(s) : \A j \in written(s) : j <= k
  <1> PICK n, g : n = Len(msgs) /\ g = log_head
    OBVIOUS
  <1>1. n \in Nat /\ DOMAIN msgs = 1 .. n /\ g \in Slot
    BY LenProperties DEF LogTypes
  <1>2. \A s \in Slot : log_buf'[s] = IF written(s) = {} THEN log_buf[s]
                                     ELSE Whole(msgs[last(s)])
    BY DEF LogInIrq
  <1>3. Back(h, i) \in Slot
    BY <1>1, BackAfter, BackAt
  <1>4. CASE i < n
    <2> PICK j, s : j = n - i /\ s = After(g, n - 1 - i)
      OBVIOUS
    <2>1. j \in 1 .. n /\ s = Back(h, i) /\ s = After(g, j - 1)
      <3>1. j \in 1 .. n /\ j - 1 = n - 1 - i
        BY <1>1, <1>4, LogSizes
      <3>2. h = After(g, n)
        OBVIOUS
      <3>3. Back(h, i) = After(g, n - 1 - i)
        BY <1>1, <1>4, <3>2, BackAfter
      <3> QED
        BY <3>1, <3>3
    <2>2. j \in written(s)
      BY <1>1, <2>1
    <2>3. \A k \in written(s) : k <= j
      <3> SUFFICES ASSUME NEW k \in 1 .. n, After(g, k - 1) = After(g, j - 1), k > j
                   PROVE  FALSE
        BY <1>1, <2>1
      <3> PICK x, y : x = g + (k - 1) /\ y = g + (j - 1)
        OBVIOUS
      <3>1. x \in Nat /\ y \in Nat /\ y <= x /\ x < y + LOG_MAX_LINES /\ x # y
        BY <1>1, <2>1, LogSizes
      <3>2. x % LOG_MAX_LINES = y % LOG_MAX_LINES
        BY DEF After
      <3> QED
        BY <3>1, <3>2, LogSizes, SameResidue
    <2>4. last(s) = j
      <3>1. last(s) \in written(s) /\ \A k \in written(s) : k <= last(s)
        BY <2>2, <2>3
      <3> QED
        BY <1>1, <2>1, <2>2, <2>3, <3>1
    <2>5. s \in Slot /\ written(s) # {}
      BY <1>3, <2>1, <2>2
    <2> HIDE DEF written, last
    <2>6. log_buf'[s] = Whole(msgs[j])
      BY <1>2, <2>4, <2>5
    <2> QED
      BY <1>4, <2>1, <2>6
  <1>5. CASE ~ (i < n)
    <2> PICK s : s = Back(g, i - n)
      OBVIOUS
    <2>1. s = Back(h, i)
      BY <1>1, <1>5, BackAfter
    <2>2. written(s) = {}
      <3> SUFFICES ASSUME NEW k \in 1 .. n, After(g, k - 1) = s PROVE FALSE
        BY <1>1
      <3> PICK x, y : x = g + LOG_MAX_LINES - 1 - (i - n) /\ y = g + (k - 1)
        OBVIOUS
      <3>1. x \in Nat /\ y \in Nat /\ y <= x /\ x < y + LOG_MAX_LINES /\ x # y
        BY <1>1, <1>5, LogSizes
      <3>2. x % LOG_MAX_LINES = y % LOG_MAX_LINES
        BY DEF After, Back
      <3> QED
        BY <3>1, <3>2, LogSizes, SameResidue
    <2> QED
      BY <1>2, <1>3, <1>5, <2>1, <2>2
  <1> QED
    BY <1>4, <1>5

LEMMA LogFacts ==
    ASSUME LogTypes
    PROVE  /\ Len(events) \in Nat /\ Len(events) <= LOG_MAX_LINES /\ events \in Seq(Msg)
           /\ writer.at \in Between \cup {"out", "count"} /\ writer.head \in Slot
           /\ log_head \in Slot
           /\ \A i \in Nat : i < LOG_MAX_LINES => Back(log_head, i) \in Slot
           /\ \A i \in Nat : i < LOG_MAX_LINES - 1 => Back(log_head, i) # log_head
  <1>1. log_head \in Slot
    BY DEF LogTypes
  <1>2. ASSUME NEW i \in Nat, i < LOG_MAX_LINES
        PROVE  Back(log_head, i) \in Slot /\ (i < LOG_MAX_LINES - 1 => Back(log_head, i) # log_head)
    <2>1. i \in 0 .. LOG_MAX_LINES - 1
      BY <1>2, LogSizes
    <2>2. Back(log_head, i) \in Slot /\ Back(log_head, i) =
             IF i < log_head THEN log_head - 1 - i ELSE log_head + LOG_MAX_LINES - 1 - i
      BY <1>1, <2>1, BackAt
    <2> QED
      BY <1>1, <1>2, <2>2, LogSizes
  <1>3. \A i \in Nat : i < LOG_MAX_LINES - 1 => i < LOG_MAX_LINES
    BY LogSizes
  <1> QED
    BY <1>2, <1>3, LenProperties DEF LogTypes

LEMMA LogBegins == ASSUME LogInit PROVE LogInv
  <1>1. events \in Seq(Msg) /\ Len(events) = 0
    BY EmptySeq DEF LogInit
  <1>2. /\ log_buf = [s \in Slot |-> Whole(NoMsg)] /\ log_head = 0 /\ log_count = 0
        /\ writer = [at |-> "out", msg |-> NoMsg, head |-> 0, count |-> 0, raced |-> FALSE]
        /\ disturbed = FALSE
    BY DEF LogInit, NotWriting
  <1>3. IsRing(log_buf)
    BY <1>2 DEF IsRing, Whole
  <1>4. writer \in [at : Between \cup {"out", "count"}, msg : Half, head : Slot,
                    count : 0 .. LOG_MAX_LINES, raced : BOOLEAN]
    BY <1>2, LogSizes DEF Half
  <1>5. LogTypes
    <2>1. disturbed \in BOOLEAN
      BY <1>2, Zenon
    <2>2. log_head \in Slot /\ log_count \in 0 .. LOG_MAX_LINES
      BY <1>2, LogSizes
    <2> QED
      BY <1>1, <1>2, <1>3, <1>4, <2>1, <2>2, LogSizes DEF LogTypes
  <1>6. writer.at = "out"
    BY <1>2
  <1>7. Kept = 0
    BY <1>1, <1>6 DEF Kept, Between
  <1> QED
    BY <1>1, <1>2, <1>5, <1>6, <1>7 DEF LogInv, WriterOK, CountOK, Holds, Between

\* A line is begun.
LEMMA BeginKeeps == ASSUME LogInv, NEW msg \in Msg, LogBegin(msg) PROVE LogInv'
  <1>1. /\ writer.at = "out"
        /\ writer' = [at |-> "first", msg |-> msg, head |-> log_head, count |-> 0, raced |-> FALSE]
        /\ log_buf' = log_buf /\ log_head' = log_head /\ log_count' = log_count
        /\ events' = events /\ disturbed' = disturbed
    BY DEF LogBegin, NotWriting
  <1>2. LogTypes
    BY DEF LogInv
  <1>3. LogTypes'
    <2>1. writer' \in [at : Between \cup {"out", "count"}, msg : Half, head : Slot,
                       count : 0 .. LOG_MAX_LINES, raced : BOOLEAN]
      BY <1>1, <1>2, LogSizes DEF LogTypes, Between, Half
    <2>2. writer'.msg \in Msg
      BY <1>1
    <2> QED
      BY <1>1, <1>2, <2>1, <2>2 DEF LogTypes, IsRing
  <1>4. WriterOK'
    BY <1>1 DEF WriterOK
  <1>5. CountOK'
    BY <1>1 DEF LogInv, CountOK
  <1>6. Holds(log_buf, log_head, events, Len(events))
    BY <1>1 DEF LogInv, Kept, Between
  <1>7. Kept' = Smaller(Len(events), LOG_MAX_LINES - 1)
    BY <1>1 DEF Kept, Between
  <1>8. \A i \in 0 .. Smaller(Len(events), LOG_MAX_LINES - 1) - 1 : i \in 0 .. Len(events) - 1
    BY <1>2, LogFacts, LogSizes DEF Smaller
  <1>9. Holds(log_buf', log_head', events', Kept')
    BY <1>1, <1>6, <1>7, <1>8 DEF Holds
  <1> QED
    BY <1>3, <1>4, <1>5, <1>9 DEF LogInv

\* The steps from one place to the next of which the ring sees nothing, or of
\* which it sees the slot that is not vouched for.
LEMMA CopyKeeps ==
    ASSUME LogInv, CopyFirst \/ CopyRest \/ LoadCount
    PROVE  LogInv'
  <1>1. LogTypes
    BY DEF LogInv
  <1>2. /\ writer.at \in {"first", "rest", "load"}
        /\ writer'.at \in {"rest", "load", "head"} /\ writer'.msg = writer.msg
        /\ writer'.head = writer.head /\ writer'.raced = writer.raced
        /\ writer.at = "first" <=> writer'.at = "rest"
        /\ writer.at = "rest" <=> writer'.at = "load"
        /\ writer.at = "load" <=> writer'.at = "head"
        /\ writer'.count = IF writer.at = "load" THEN log_count ELSE writer.count
        /\ writer' \in [at : Between \cup {"out", "count"}, msg : Half, head : Slot,
                       count : 0 .. LOG_MAX_LINES, raced : BOOLEAN]
        /\ log_head' = log_head /\ log_count' = log_count
        /\ events' = events /\ disturbed' = disturbed
    BY <1>1 DEF CopyFirst, CopyRest, LoadCount, LogTypes, Between
  <1>3. /\ IsRing(log_buf')
        /\ \A s \in Slot : s # writer.head => log_buf'[s] = log_buf[s]
        /\ writer.at = "first" => log_buf'[writer.head].first = writer.msg
        /\ writer.at = "rest" => /\ log_buf'[writer.head].rest = writer.msg
                                /\ log_buf'[writer.head].first = log_buf[writer.head].first
        /\ writer.at = "load" => log_buf' = log_buf
    BY <1>1, <1>2, LogFacts DEF CopyFirst, CopyRest, LoadCount, LogTypes, IsRing
  <1>4. LogTypes'
    BY <1>1, <1>2, <1>3 DEF LogTypes, Between
  <1>5. WriterOK'
    BY <1>1, <1>2, <1>3, LogFacts DEF LogInv, WriterOK, Between
  <1>6. CountOK'
    BY <1>2 DEF LogInv, CountOK
  <1>7. Holds(log_buf', log_head', events', Kept')
    <2>1. Kept' = Kept /\ Kept = Smaller(Len(events), LOG_MAX_LINES - 1)
      BY <1>2 DEF Kept, Between
    <2>2. \A i \in 0 .. Kept - 1 : i \in Nat /\ i < LOG_MAX_LINES - 1 /\ i < LOG_MAX_LINES
      BY <1>1, <2>1, LogFacts, LogSizes DEF Smaller
    <2>3. CASE writer.raced
      <3>1. Len(events) = 0 /\ Kept = 0
        BY <1>1, <1>2, <2>1, <2>3, LogFacts, LogSizes DEF LogInv, WriterOK, Between, Smaller
      <3> QED
        BY <2>1, <3>1 DEF Holds
    <2>4. CASE ~writer.raced
      <3>1. writer.head = log_head
        BY <1>2, <2>4 DEF LogInv, WriterOK, Between
      <3>2. \A i \in 0 .. Kept - 1 : log_buf'[Back(log_head, i)] = log_buf[Back(log_head, i)]
        BY <1>1, <1>3, <2>2, <3>1, LogFacts
      <3> QED
        BY <1>2, <2>1, <3>2 DEF LogInv, Holds
    <2> QED
      BY <2>3, <2>4
  <1> QED
    BY <1>4, <1>5, <1>6, <1>7 DEF LogInv

\* The line becomes the last of the log; a line that was raced is forgotten, and
\* with it all before.
LEMMA HeadKeeps == ASSUME LogInv, StoreHead PROVE LogInv'
  <1>1. /\ writer.at = "head" /\ log_buf' = log_buf /\ log_head' = After(writer.head, 1)
        /\ events' = IF writer.raced THEN <<>> ELSE Recent(Append(events, writer.msg))
        /\ log_count' = log_count /\ disturbed' = disturbed
        /\ writer' = [writer EXCEPT !.at = "count"]
    BY DEF StoreHead
  <1>2. LogTypes /\ writer.msg \in Msg /\ writer.head \in Slot
    BY <1>1 DEF LogInv, LogTypes
  <1> PICK g, w, r : g = log_head /\ w = writer.head /\ r = Recent(Append(events, writer.msg))
    OBVIOUS
  <1>3. /\ r \in Seq(Msg) /\ Len(r) = Counted(Len(events), 1)
        /\ \A i \in 0 .. Len(r) - 1 :
              r[Len(r) - i] = IF i = 0 THEN writer.msg ELSE events[Len(events) - (i - 1)]
    <2>1. /\ events \in Seq(Msg) /\ <<writer.msg>> \in Seq(Msg)
          /\ Len(<<writer.msg>>) = 1 /\ <<writer.msg>>[1] = writer.msg
          /\ Append(events, writer.msg) = events \o <<writer.msg>>
      BY <1>2, AppendIsConcat DEF LogTypes
    <2>2. LastOf(r, events, <<writer.msg>>)
      BY <2>1, RecentJoined, Zenon
    <2>3. ASSUME NEW m, Len(m) = 1, m[1] = writer.msg, LastOf(r, events, m),
                 NEW i \in 0 .. Len(r) - 1
          PROVE  r[Len(r) - i] = IF i = 0 THEN writer.msg ELSE events[Len(events) - (i - 1)]
      <3>1. r[Len(r) - i] = IF i < 1 THEN m[1 - i] ELSE events[Len(events) - (i - 1)]
        BY <2>3 DEF LastOf
      <3>2. i < 1 <=> i = 0
        OBVIOUS
      <3> QED
        BY <2>3, <3>1, <3>2
    <2>4. r \in Seq(Msg) /\ Len(r) = Counted(Len(events), 1)
      BY <2>1, <2>2 DEF LastOf
    <2> QED
      BY <2>1, <2>2, <2>3, <2>4, Zenon
  <1>4. Len(r) \in Nat /\ Len(r) <= LOG_MAX_LINES /\ Len(r) <= Len(events) + 1
    <2> PICK e : e = Len(events)
      OBVIOUS
    <2>1. e \in Nat /\ e <= LOG_MAX_LINES
      BY <1>2, LogFacts
    <2>2. Len(r) = IF e + 1 < LOG_MAX_LINES THEN e + 1 ELSE LOG_MAX_LINES
      BY <1>3 DEF Counted
    <2> QED
      BY <2>1, <2>2, LogSizes
  <1>5. log_head' \in Slot
    <2> PICK h : h = After(w, 1)
      OBVIOUS
    <2>1. 0 \in 0 .. LOG_MAX_LINES - 1 /\ 1 \in Nat
      BY LogSizes
    <2>2. h \in Slot
      BY <1>2, <2>1, BackAfter
    <2> QED
      BY <1>1, <2>2
  <1>6. /\ events' \in Seq(Msg) /\ Len(events') <= LOG_MAX_LINES
    <2>1. CASE writer.raced
      BY <1>1, <2>1, EmptySeq, LogSizes
    <2>2. CASE ~writer.raced
      BY <1>1, <1>3, <1>4, <2>2
    <2> QED
      BY <2>1, <2>2
  <1>7. /\ writer' \in [at : Between \cup {"out", "count"}, msg : Half, head : Slot,
                       count : 0 .. LOG_MAX_LINES, raced : BOOLEAN]
        /\ writer'.at = "count" /\ writer'.msg = writer.msg /\ writer'.count = writer.count
    BY <1>1, <1>2 DEF LogTypes, Between
  <1>8. LogTypes'
    BY <1>1, <1>2, <1>5, <1>6, <1>7 DEF LogTypes, IsRing
  <1>9. WriterOK'
    BY <1>7 DEF WriterOK, Between
  <1>10. CountOK'
    <2> SUFFICES ASSUME ~disturbed' PROVE Counted(writer'.count, 1) = Len(events')
      BY <1>7 DEF CountOK
    <2>1. ~disturbed
      BY <1>1, Zenon
    <2>2. writer.count = Len(events)
      BY <1>1, <2>1 DEF LogInv, CountOK
    <2>3. ~writer.raced
      BY <1>1, <2>1 DEF LogInv, WriterOK, Between
    <2>4. events' = r
      BY <1>1, <2>3
    <2> QED
      BY <1>3, <1>7, <2>2, <2>4
  <1>11. Holds(log_buf', log_head', events', Kept')
    <2>1. Kept' = Len(events')
      BY <1>7 DEF Kept, Between
    <2>2. CASE writer.raced
      BY <1>1, <2>1, <2>2 DEF Holds
    <2>3. CASE ~writer.raced
      <3>1. w = g /\ events' = r
        BY <1>1, <2>3 DEF LogInv, WriterOK, Between
      <3>2. log_buf[g] = Whole(writer.msg)
        <4>1. log_buf[g].first = writer.msg /\ log_buf[g].rest = writer.msg
          BY <1>1, <2>3 DEF LogInv, WriterOK, Between
        <4>2. log_buf[g] = [first |-> log_buf[g].first, rest |-> log_buf[g].rest]
          BY <1>2 DEF LogTypes, IsRing
        <4> QED
          BY <4>1, <4>2 DEF Whole
      <3>3. Holds(log_buf, g, events, Smaller(Len(events), LOG_MAX_LINES - 1))
        BY <1>1 DEF LogInv, Kept, Between
      <3> PICK h : h = After(g, 1)
        OBVIOUS
      <3>4. ASSUME NEW i \in 0 .. Len(r) - 1
            PROVE  log_buf[Back(h, i)] = Whole(r[Len(r) - i])
        <4>1. i \in 0 .. LOG_MAX_LINES - 1
          BY <1>4, LogSizes
        <4>2. /\ i < 1 => Back(h, i) = After(g, 1 - 1 - i)
              /\ ~ (i < 1) => Back(h, i) = Back(g, i - 1)
          BY <1>2, <4>1, BackAfter DEF LogTypes
        <4>3. CASE i < 1
          <5>1. i = 0 /\ 1 - 1 - i = 0
            BY <4>3
          <5>2. After(g, 0) = g
            <6>1. (0 * LOG_MAX_LINES + g) % LOG_MAX_LINES = g
              BY <1>2, LogSizes, DivModUnique DEF LogTypes
            <6>2. 0 * LOG_MAX_LINES + g = g + 0
              BY <1>2, LogSizes DEF LogTypes
            <6> QED
              BY <6>1, <6>2 DEF After
          <5>3. r[Len(r) - i] = writer.msg
            BY <1>3, <5>1
          <5> QED
            BY <3>2, <4>2, <4>3, <5>1, <5>2, <5>3
        <4>4. CASE ~ (i < 1)
          <5> PICK j : j = i - 1
            OBVIOUS
          <5>1. j \in 0 .. Smaller(Len(events), LOG_MAX_LINES - 1) - 1
            BY <1>2, <1>4, <4>1, <4>4, LogFacts, LogSizes DEF Smaller
          <5>2. log_buf[Back(g, j)] = Whole(events[Len(events) - j])
            BY <3>3, <5>1 DEF Holds
          <5>3. r[Len(r) - i] = events[Len(events) - j]
            BY <1>3, <4>4
          <5> QED
            BY <4>2, <4>4, <5>2, <5>3
        <4> QED
          BY <4>3, <4>4
      <3> QED
        BY <1>1, <2>1, <3>1, <3>4 DEF Holds
    <2> QED
      BY <2>2, <2>3
  <1> QED
    BY <1>8, <1>9, <1>10, <1>11 DEF LogInv

\* log_count is stored last, stale perhaps: the ring does not depend on it.
LEMMA StoreCountKeeps == ASSUME LogInv, StoreCount PROVE LogInv'
  <1>1. /\ writer.at = "count" /\ log_buf' = log_buf /\ log_head' = log_head
        /\ log_count' = Counted(writer.count, 1)
        /\ events' = events /\ disturbed' = disturbed
        /\ writer' = [at |-> "out", msg |-> NoMsg, head |-> 0, count |-> 0, raced |-> FALSE]
    BY DEF StoreCount, NotWriting
  <1>2. LogTypes
    BY DEF LogInv
  <1>3. log_count' \in 0 .. LOG_MAX_LINES
    BY <1>1, <1>2, LogSizes DEF LogTypes, Counted
  <1>4. writer' \in [at : Between \cup {"out", "count"}, msg : Half, head : Slot,
                     count : 0 .. LOG_MAX_LINES, raced : BOOLEAN]
    BY <1>1, LogSizes DEF Half
  <1>5. LogTypes'
    BY <1>1, <1>2, <1>3, <1>4 DEF LogTypes, IsRing
  <1>6. WriterOK'
    BY <1>1 DEF WriterOK, Between
  <1>7. CountOK'
    BY <1>1 DEF LogInv, CountOK
  <1>8. Kept' = Len(events) /\ Kept = Len(events)
    BY <1>1 DEF Kept, Between
  <1>9. Holds(log_buf', log_head', events', Kept')
    BY <1>1, <1>8 DEF LogInv, Holds
  <1> QED
    BY <1>5, <1>6, <1>7, <1>9 DEF LogInv

LEMMA InIrqKeeps == ASSUME LogInv, NEW msgs \in Seq(Msg), LogInIrq(msgs) PROVE LogInv'
  <1> PICK g, n, h, r : g = log_head /\ n = Len(msgs) /\ h = After(g, n)
                        /\ r = Recent(events \o msgs)
    OBVIOUS
  <1>1. /\ log_head' = h /\ log_count' = Counted(log_count, n)
        /\ disturbed' = (disturbed \/ writer.at # "out")
        /\ writer.at \in Between =>
              writer' = [writer EXCEPT !.raced = TRUE] /\ events' = <<>>
        /\ writer.at \notin Between => writer' = writer /\ events' = r
    BY DEF LogInIrq
  <1>2. LogTypes /\ n \in Nat /\ g \in Slot
    BY LenProperties DEF LogInv, LogTypes
  <1>3. h \in Slot
    <2>1. 0 \in 0 .. LOG_MAX_LINES - 1
      BY LogSizes
    <2> QED
      BY <1>2, <2>1, BackAfter
  <1>4. /\ r \in Seq(Msg) /\ Len(r) = Counted(Len(events), n)
        /\ \A i \in 0 .. Len(r) - 1 :
              r[Len(r) - i] = IF i < n THEN msgs[n - i] ELSE events[Len(events) - (i - n)]
    <2>1. events \in Seq(Msg)
      BY <1>2 DEF LogTypes
    <2>2. LastOf(r, events, msgs)
      BY <2>1, RecentJoined, Zenon
    <2> QED
      BY <2>2, Zenon DEF LastOf
  <1>5. Len(r) \in Nat /\ Len(r) <= LOG_MAX_LINES /\ Len(r) <= Len(events) + n
    <2> PICK e : e = Len(events)
      OBVIOUS
    <2>1. e \in Nat /\ e <= LOG_MAX_LINES
      BY <1>2, LogFacts
    <2>2. Len(r) = IF e + n < LOG_MAX_LINES THEN e + n ELSE LOG_MAX_LINES
      BY <1>4 DEF Counted
    <2> QED
      BY <1>2, <2>1, <2>2, LogSizes
  <1>6. IsRing(log_buf')
    <2> DEFINE written(s) == {k \in DOMAIN msgs : After(log_head, k - 1) = s}
               last(s) == CHOOSE k \in written(s) : \A j \in written(s) : j <= k
    <2>1. log_buf' = [s \in Slot |-> IF written(s) = {} THEN log_buf[s]
                                    ELSE Whole(msgs[last(s)])]
      BY DEF LogInIrq
    <2> HIDE DEF written, last
    <2>2. \A s \in Slot : log_buf'[s] = [first |-> log_buf'[s].first, rest |-> log_buf'[s].rest]
      BY <1>2, <2>1 DEF LogTypes, IsRing, Whole
    <2> QED
      BY <2>1, <2>2 DEF IsRing
  <1>7. /\ events' \in Seq(Msg) /\ Len(events') <= LOG_MAX_LINES
        /\ writer' \in [at : Between \cup {"out", "count"}, msg : Half, head : Slot,
                       count : 0 .. LOG_MAX_LINES, raced : BOOLEAN]
        /\ writer'.at = writer.at /\ writer'.msg = writer.msg /\ writer'.count = writer.count
    <2>1. CASE writer.at \in Between
      <3>1. events' \in Seq(Msg) /\ Len(events') = 0
        BY <1>1, <2>1, EmptySeq
      <3>2. writer' = [writer EXCEPT !.raced = TRUE]
        BY <1>1, <2>1
      <3>3. /\ writer' \in [at : Between \cup {"out", "count"}, msg : Half, head : Slot,
                           count : 0 .. LOG_MAX_LINES, raced : BOOLEAN]
            /\ writer'.at = writer.at /\ writer'.msg = writer.msg /\ writer'.count = writer.count
        BY <1>2, <3>2 DEF LogTypes
      <3> QED
        BY <3>1, <3>3, LogSizes
    <2>2. CASE writer.at \notin Between
      BY <1>1, <1>2, <1>4, <1>5, <2>2 DEF LogTypes
    <2> QED
      BY <2>1, <2>2
  <1>8. LogTypes'
    <2>1. disturbed' \in BOOLEAN
      BY <1>1, Zenon
    <2>2. log_count' \in 0 .. LOG_MAX_LINES
      BY <1>1, <1>2, LogSizes DEF LogTypes, Counted
    <2> QED
      BY <1>1, <1>2, <1>3, <1>6, <1>7, <2>1, <2>2 DEF LogTypes
  <1>9. WriterOK'
    <2>1. CASE writer.at \in Between
      <3>1. writer'.raced /\ events' = <<>> /\ writer.at # "out"
        BY <1>1, <1>2, <2>1 DEF LogTypes, Between
      <3>2. disturbed'
        BY <1>1, <3>1, Zenon
      <3> QED
        BY <3>1, <3>2 DEF WriterOK
    <2>2. CASE writer.at \notin Between
      BY <1>7, <2>2 DEF WriterOK, Between
    <2> QED
      BY <2>1, <2>2
  <1>10. CountOK'
    <2> SUFFICES ASSUME ~disturbed' PROVE writer.at = "out" /\ log_count' = Len(events')
      BY <1>7 DEF CountOK
    <2>1. writer.at = "out" /\ ~disturbed
      BY <1>1, Zenon
    <2>2. log_count = Len(events) /\ events' = r
      BY <1>1, <2>1 DEF LogInv, CountOK, Between
    <2> QED
      BY <1>1, <1>4, <2>1, <2>2
  <1>11. Holds(log_buf', log_head', events', Kept')
    <2>1. CASE writer.at \in Between
      <3>1. Kept' = 0
        BY <1>1, <1>7, <2>1, LogSizes DEF Kept, Smaller
      <3> QED
        BY <3>1 DEF Holds
    <2>2. CASE writer.at \notin Between
      <3>1. events' = r /\ Kept' = Len(r) /\ Kept = Len(events)
        BY <1>1, <1>7, <2>2 DEF Kept
      <3>2. ASSUME NEW i \in 0 .. Len(r) - 1
            PROVE  log_buf'[Back(h, i)] = Whole(r[Len(r) - i])
        <4>1. i \in 0 .. LOG_MAX_LINES - 1
          BY <1>5, LogSizes
        <4>2. /\ i < n => log_buf'[Back(h, i)] = Whole(msgs[n - i])
              /\ ~ (i < n) => log_buf'[Back(h, i)] = log_buf[Back(g, i - n)]
          BY <1>2, <4>1, InIrqRing
        <4>3. CASE i < n
          BY <1>4, <4>2, <4>3
        <4>4. CASE ~ (i < n)
          <5> PICK j : j = i - n
            OBVIOUS
          <5>1. j \in 0 .. Len(events) - 1
            BY <1>2, <1>5, <4>4, LogFacts
          <5>2. log_buf[Back(g, j)] = Whole(events[Len(events) - j])
            BY <3>1, <5>1 DEF LogInv, Holds
          <5>3. r[Len(r) - i] = events[Len(events) - j]
            BY <1>4, <4>4
          <5> QED
            BY <4>2, <4>4, <5>2, <5>3
        <4> QED
          BY <4>3, <4>4
      <3> QED
        BY <1>1, <3>1, <3>2 DEF Holds
    <2> QED
      BY <2>1, <2>2
  <1> QED
    BY <1>8, <1>9, <1>10, <1>11 DEF LogInv

LEMMA LogIdle == ASSUME LogInv, UNCHANGED logVars PROVE LogInv'
  <1>1. /\ log_buf' = log_buf /\ log_head' = log_head /\ log_count' = log_count
        /\ writer' = writer /\ events' = events /\ disturbed' = disturbed
    BY DEF logVars
  <1> QED
    BY <1>1 DEF LogInv, LogTypes, WriterOK, CountOK, Holds, Kept

LEMMA Heals == ASSUME LogInv PROVE LogHeals
  <1>1. LogTypes
    BY DEF LogInv
  <1> PICK c, m : c = log_count /\ m = Smaller(log_count - Oldest, Len(events))
    OBVIOUS
  <1>2. /\ c \in Nat /\ c <= LOG_MAX_LINES /\ log_head \in Slot
        /\ Len(events) \in Nat /\ Len(events) <= LOG_MAX_LINES
    BY <1>1, LogFacts, LogSizes DEF LogTypes
  <1>3. m \in Int /\ m <= c /\ m <= Kept
    BY <1>2, LogSizes DEF Smaller, Oldest, Kept
  <1>4. ASSUME NEW i \in 0 .. c - 1, i < Kept
        PROVE  log_dump[c - i] = Whole(events[Len(events) - i])
    <2>1. log_dump[c - i] = log_buf[Back(log_head, i)]
      BY <1>1, DumpBack DEF LogTypes
    <2>2. i \in 0 .. Kept - 1
      BY <1>2, <1>4, LogSizes DEF Kept, Smaller
    <2> QED
      BY <2>1, <2>2 DEF LogInv, Holds
  <1>5. \A i \in 0 .. m - 1 : log_dump[c - i] = Whole(events[Len(events) - i])
    <2> TAKE i \in 0 .. m - 1
    <2>1. i \in 0 .. c - 1 /\ i < Kept
      BY <1>2, <1>3, LogSizes DEF Kept, Smaller
    <2> QED
      BY <1>4, <2>1
  <1>6. ASSUME writer.at = "out", ~disturbed
        PROVE  log_dump = [i \in DOMAIN events |-> Whole(events[i])]
    <2>1. Len(events) = c /\ Kept = c
      BY <1>6 DEF LogInv, CountOK, Kept, Between
    <2>2. DOMAIN events = 1 .. c
      BY <1>1, <2>1, LenProperties DEF LogTypes
    <2>3. ASSUME NEW k \in 1 .. c PROVE log_dump[k] = Whole(events[k])
      <3> PICK i : i = c - k
        OBVIOUS
      <3>1. i \in 0 .. c - 1 /\ i < Kept /\ c - i = k
        BY <1>2, <2>1
      <3> QED
        BY <1>4, <2>1, <3>1
    <2>4. log_dump = [k \in 1 .. c |-> log_dump[k]]
      BY DEF log_dump
    <2> QED
      BY <2>2, <2>3, <2>4
  <1> QED
    BY <1>5, <1>6 DEF LogHeals

-----------------------------------------------------------------------------
(* The script *)

\* The steps that the script may hold, by what they act on.
FsPath == [abs : BOOLEAN, comps : Seq(Name)]
Inits  == [op : {"init"}, arg : Part]
Notes  == [op : {"note"}, arg : Msg]
Blocks == [op : {"kmalloc"}, arg : {HEAP_TEST}]
Allocs == [op : {"alloc"}, arg : {TASK_SIZE, STACK_SIZE}]
Sleeps == [op : {"sleep"}, arg : {NoMsg}]
Plain3(op) == [op : {op}, arg : {NoMsg}]
FsCalls == [op : {"mkdir", "write", "chdir"}, arg : FsPath]
Calls  == FsCalls \cup Plain3("sentinel")

EarlyStep == Inits \cup Notes \cup Blocks \cup Sleeps
LateStep  == Inits \cup Notes \cup Sleeps
ShellStep == Inits \cup Notes \cup Allocs
                 \cup [op : {"clear", "start", "shell_init"}, arg : {NoMsg}]
AnyStep   == EarlyStep \cup Calls \cup ShellStep
                 \cup [op : {"fs_init", "sti", "ask", "print"}, arg : {NoMsg}]

LEMMA Joined ==
    ASSUME NEW S, NEW s \in Seq(S), NEW t \in Seq(S)
    PROVE  /\ s \o t \in Seq(S)
           /\ Len(s \o t) = Len(s) + Len(t)
           /\ \A i \in 1 .. Len(s) : (s \o t)[i] = s[i]
           /\ \A i \in 1 .. Len(t) : (s \o t)[Len(s) + i] = t[i]
           /\ ToSet(s \o t) = ToSet(s) \cup ToSet(t)
  <1>1. /\ s \o t \in Seq(S)
        /\ Len(s \o t) = Len(s) + Len(t)
        /\ \A i \in 1 .. Len(s) : (s \o t)[i] = s[i]
        /\ \A i \in 1 .. Len(t) : (s \o t)[Len(s) + i] = t[i]
    BY ConcatProperties
  <1>2. ToSet(s \o t) \subseteq ToSet(s) \cup ToSet(t)
    <2> SUFFICES ASSUME NEW i \in DOMAIN (s \o t)
                 PROVE  (s \o t)[i] \in ToSet(s) \cup ToSet(t)
      BY DEF ToSet
    <2>1. i \in 1 .. (Len(s) + Len(t))
      BY <1>1, LenProperties
    <2>2. CASE i <= Len(s)
      BY <1>1, <2>1, <2>2, LenProperties DEF ToSet
    <2>3. CASE i > Len(s)
      <3>1. i - Len(s) \in 1 .. Len(t) /\ i = Len(s) + (i - Len(s))
        BY <2>1, <2>3, LenProperties
      <3> QED
        BY <1>1, <3>1, LenProperties DEF ToSet
    <2> QED
      BY <2>1, <2>2, <2>3, LenProperties
  <1>3. ToSet(s) \subseteq ToSet(s \o t)
    <2> SUFFICES ASSUME NEW i \in DOMAIN s PROVE s[i] \in ToSet(s \o t)
      BY DEF ToSet
    <2>1. i \in 1 .. Len(s) /\ i \in DOMAIN (s \o t)
      BY <1>1, LenProperties
    <2> QED
      BY <1>1, <2>1 DEF ToSet
  <1>4. ToSet(t) \subseteq ToSet(s \o t)
    <2> SUFFICES ASSUME NEW i \in DOMAIN t PROVE t[i] \in ToSet(s \o t)
      BY DEF ToSet
    <2>1. i \in 1 .. Len(t) /\ Len(s) + i \in DOMAIN (s \o t)
      BY <1>1, LenProperties
    <2> QED
      BY <1>1, <2>1 DEF ToSet
  <1> QED
    BY <1>1, <1>2, <1>3, <1>4

\* w is s and then t.
Spliced(w, s, t) ==
    /\ Len(w) = Len(s) + Len(t)
    /\ \A i \in 1 .. Len(s) : w[i] = s[i]
    /\ \A i \in 1 .. Len(t) : w[Len(s) + i] = t[i]

LEMMA JoinedAt ==
    ASSUME NEW S, NEW s \in Seq(S), NEW t \in Seq(S)
    PROVE  s \o t \in Seq(S) /\ Spliced(s \o t, s, t)
  <1>1. /\ s \o t \in Seq(S)
        /\ Len(s \o t) = Len(s) + Len(t)
        /\ \A i \in 1 .. Len(s) : (s \o t)[i] = s[i]
        /\ \A i \in 1 .. Len(t) : (s \o t)[Len(s) + i] = t[i]
    BY ConcatProperties
  <1> QED
    BY <1>1, Zenon DEF Spliced

LEMMA OneCall ==
    ASSUME NEW S, NEW op, NEW arg, [op |-> op, arg |-> arg] \in S
    PROVE  /\ Call(op, arg) \in Seq(S)
           /\ Len(Call(op, arg)) = 1
           /\ Call(op, arg)[1] = [op |-> op, arg |-> arg]
           /\ ToSet(Call(op, arg)) = {[op |-> op, arg |-> arg]}
  BY DEF Call, ToSet

LEMMA ScriptWords ==
    /\ \A part \in Part : Call("init", part) \in Seq(LateStep)
    /\ \A msg \in Msg : Call("note", msg) \in Seq(LateStep)
    /\ Do("sleep") \in Seq(LateStep)
    /\ \A part \in Part : Stage(part) \in Seq(LateStep)
    /\ \A part \in Part : [op |-> "init", arg |-> part] \in ToSet(Stage(part))
  <1>1. /\ \A part \in Part : Call("init", part) \in Seq(LateStep)
        /\ \A msg \in Msg : Call("note", msg) \in Seq(LateStep)
        /\ Do("sleep") \in Seq(LateStep)
    BY OneCall DEF LateStep, Inits, Notes, Sleeps, Do
  <1>2. "boot" \in Msg
    BY BootAssumption
  <1>3. ASSUME NEW part \in Part
        PROVE  /\ Stage(part) \in Seq(LateStep)
               /\ [op |-> "init", arg |-> part] \in ToSet(Stage(part))
    <2> DEFINE one == Call("init", part) \o Do("sleep")
               two == one \o Call("note", "boot")
    <2>1. one \in Seq(LateStep) /\ ToSet(one) = ToSet(Call("init", part)) \cup ToSet(Do("sleep"))
      BY <1>1, Joined
    <2> HIDE DEF one
    <2>2. two \in Seq(LateStep) /\ ToSet(one) \subseteq ToSet(two)
      BY <1>1, <1>2, <2>1, Joined
    <2>3. [op |-> "init", arg |-> part] \in ToSet(Call("init", part))
      BY DEF Call, ToSet
    <2> HIDE DEF two
    <2>4. two \o Do("sleep") \in Seq(LateStep) /\ ToSet(two) \subseteq ToSet(two \o Do("sleep"))
      BY <1>1, <2>2, Joined
    <2> QED
      BY <2>1, <2>2, <2>3, <2>4 DEF one, two, Stage
  <1> QED
    BY <1>1, <1>3

LEMMA EarlyParts ==
    /\ Early \in Seq(EarlyStep)
    /\ \A part \in {"log", "gdt", "idt", "heap", "sec", "key"} :
          [op |-> "init", arg |-> part] \in ToSet(Early)
  <1>1. LateStep \subseteq EarlyStep
    BY DEF LateStep, EarlyStep
  <1>2. /\ \A part \in Part : Call("init", part) \in Seq(EarlyStep)
        /\ \A msg \in Msg : Call("note", msg) \in Seq(EarlyStep)
        /\ Do("sleep") \in Seq(EarlyStep)
        /\ \A part \in Part : Stage(part) \in Seq(EarlyStep)
    BY <1>1, ScriptWords
  <1>3. Call("kmalloc", HEAP_TEST) \in Seq(EarlyStep)
    BY OneCall DEF EarlyStep, Blocks
  <1>4. "boot" \in Msg /\ \A part \in {"log", "gdt", "idt", "paging", "phys", "heap", "sec", "key", "disk"} : part \in Part
    BY BootAssumption DEF Part
  <1>5. /\ Call("init", "log") \in Seq(EarlyStep) /\ Call("init", "gdt") \in Seq(EarlyStep)
        /\ Call("note", "boot") \in Seq(EarlyStep) /\ Call("init", "disk") \in Seq(EarlyStep)
        /\ Stage("idt") \in Seq(EarlyStep) /\ Stage("paging") \in Seq(EarlyStep)
        /\ Stage("phys") \in Seq(EarlyStep) /\ Stage("heap") \in Seq(EarlyStep)
        /\ Stage("sec") \in Seq(EarlyStep) /\ Stage("key") \in Seq(EarlyStep)
    BY <1>2, <1>4
  <1>6. /\ [op |-> "init", arg |-> "log"] \in ToSet(Call("init", "log"))
        /\ [op |-> "init", arg |-> "gdt"] \in ToSet(Call("init", "gdt"))
        /\ \A part \in {"idt", "heap", "sec", "key"} :
              [op |-> "init", arg |-> part] \in ToSet(Stage(part))
    BY <1>4, ScriptWords, SMTT(20) DEF Call, ToSet
  <1>7. \A s, t \in Seq(EarlyStep) : s \o t \in Seq(EarlyStep)
    BY Joined
  <1>8. \A s, t \in Seq(EarlyStep) : ToSet(s \o t) = ToSet(s) \cup ToSet(t)
    BY Joined
  <1> HIDE DEF Call, Do, Stage
  <1>9. Early \in Seq(EarlyStep)
    BY <1>2, <1>3, <1>5, <1>7 DEF Early
  <1>10. ASSUME NEW x, NEW s \in Seq(EarlyStep), NEW t \in Seq(EarlyStep)
        PROVE  x \in ToSet(s) \/ x \in ToSet(t) => x \in ToSet(s \o t)
    BY <1>8
  <1>11. ASSUME NEW part \in {"log", "gdt", "idt", "heap", "sec", "key"}
         PROVE  [op |-> "init", arg |-> part] \in ToSet(Early)
    <2> DEFINE x == [op |-> "init", arg |-> part]
    <2>1. \/ x \in ToSet(Call("init", "log")) \/ x \in ToSet(Call("init", "gdt"))
          \/ x \in ToSet(Stage("idt")) \/ x \in ToSet(Stage("heap"))
          \/ x \in ToSet(Stage("sec")) \/ x \in ToSet(Stage("key"))
      BY <1>6
    <2> DEFINE p1 == Call("init", "log") \o Call("note", "boot") \o Call("init", "gdt")
               p2 == p1 \o Call("note", "boot") \o Do("sleep") \o Stage("idt")
               p3 == p2 \o Stage("paging") \o Stage("phys") \o Stage("heap")
               p4 == p3 \o Call("kmalloc", HEAP_TEST) \o Call("note", "boot") \o Stage("sec")
    <2> HIDE DEF x
    <2>2. /\ p1 \in Seq(EarlyStep)
          /\ x \in ToSet(Call("init", "log")) \/ x \in ToSet(Call("init", "gdt")) => x \in ToSet(p1)
      BY <1>5, <1>7, <1>10
    <2> HIDE DEF p1
    <2>3. /\ p2 \in Seq(EarlyStep)
          /\ x \in ToSet(p1) \/ x \in ToSet(Stage("idt")) => x \in ToSet(p2)
      BY <1>2, <1>5, <1>7, <1>10, <2>2
    <2> HIDE DEF p2
    <2>4. /\ p3 \in Seq(EarlyStep)
          /\ x \in ToSet(p2) \/ x \in ToSet(Stage("heap")) => x \in ToSet(p3)
      BY <1>5, <1>7, <1>10, <2>3
    <2> HIDE DEF p3
    <2>5. /\ p4 \in Seq(EarlyStep)
          /\ x \in ToSet(p3) \/ x \in ToSet(Stage("sec")) => x \in ToSet(p4)
      BY <1>3, <1>5, <1>7, <1>10, <2>4
    <2> HIDE DEF p4
    <2>6. x \in ToSet(p4) \/ x \in ToSet(Stage("key")) => x \in ToSet(Early)
      <3>1. Early = p4 \o Stage("key") \o Call("init", "disk")
        BY DEF Early, p1, p2, p3, p4
      <3> QED
        BY <1>5, <1>7, <1>10, <2>5, <3>1
    <2> QED
      BY <2>1, <2>2, <2>3, <2>4, <2>5, <2>6 DEF x
  <1> QED
    BY <1>9, <1>11

LEMMA DriverParts ==
    /\ Drivers \in Seq(LateStep)
    /\ \A part \in {"irq", "timer", "keyboard"} :
          [op |-> "init", arg |-> part] \in ToSet(Drivers)
  <1>1. "boot" \in Msg /\ \A part \in {"irq", "timer", "syscall", "keyboard"} : part \in Part
    BY BootAssumption DEF Part
  <1>2. /\ Call("init", "syscall") \in Seq(LateStep) /\ Call("note", "boot") \in Seq(LateStep)
        /\ Do("sleep") \in Seq(LateStep) /\ Stage("irq") \in Seq(LateStep)
        /\ Stage("timer") \in Seq(LateStep) /\ Stage("keyboard") \in Seq(LateStep)
    BY <1>1, ScriptWords
  <1>3. \A part \in {"irq", "timer", "keyboard"} :
           [op |-> "init", arg |-> part] \in ToSet(Stage(part))
    BY <1>1, ScriptWords
  <1>4. \A s, t \in Seq(LateStep) : s \o t \in Seq(LateStep)
    BY Joined
  <1>5. ASSUME NEW x, NEW s \in Seq(LateStep), NEW t \in Seq(LateStep)
        PROVE  x \in ToSet(s) \/ x \in ToSet(t) => x \in ToSet(s \o t)
    BY Joined
  <1>6. Drivers \in Seq(LateStep)
    BY <1>2, <1>4 DEF Drivers
  <1>7. ASSUME NEW part \in {"irq", "timer", "keyboard"}
        PROVE  [op |-> "init", arg |-> part] \in ToSet(Drivers)
    <2> DEFINE x == [op |-> "init", arg |-> part]
    <2>1. x \in ToSet(Stage("irq")) \/ x \in ToSet(Stage("timer")) \/ x \in ToSet(Stage("keyboard"))
      BY <1>3
    <2> HIDE DEF x
    <2>2. x \in ToSet(Drivers)
      BY <1>2, <1>4, <1>5, <2>1 DEF Drivers
    <2> QED
      BY <2>2 DEF x
  <1> QED
    BY <1>6, <1>7

LEMMA ShellParts == Threads \in Seq(ShellStep)
  <1>1. /\ Call("init", "tasks") \in Seq(ShellStep)
        /\ Call("note", "task") \in Seq(ShellStep) /\ Call("note", "boot") \in Seq(ShellStep)
        /\ Call("note", "shell") \in Seq(ShellStep) /\ Call("note", "name") \in Seq(ShellStep)
        /\ Call("alloc", TASK_SIZE) \in Seq(ShellStep)
        /\ Call("alloc", STACK_SIZE) \in Seq(ShellStep)
    BY OneCall, BootAssumption DEF ShellStep, Inits, Notes, Allocs, Part
  <1>4. /\ Do("clear") \in Seq(ShellStep) /\ Do("start") \in Seq(ShellStep)
        /\ Do("shell_init") \in Seq(ShellStep)
    BY OneCall DEF ShellStep, Do
  <1>2. \A s, t \in Seq(ShellStep) : s \o t \in Seq(ShellStep)
    BY Joined
  <1>3. task_create \in Seq(ShellStep)
    BY <1>1, <1>2 DEF task_create
  <1> QED
    BY <1>1, <1>2, <1>3, <1>4 DEF Threads

\* fs_bootstrap looks for the sentinel second, and only then.
Looks(s) ==
    /\ s \in Seq(Calls) /\ Len(s) >= 2
    /\ s[1] \in FsCalls /\ s[2] = [op |-> "sentinel", arg |-> NoMsg]
    /\ \A i \in 3 .. Len(s) : s[i] \in FsCalls

LEMMA LooksOn ==
    ASSUME NEW s, Looks(s), NEW t \in Seq(FsCalls)
    PROVE  Looks(s \o t)
  <1>1. s \in Seq(Calls) /\ t \in Seq(Calls) /\ Len(s) \in Nat /\ Len(t) \in Nat
    BY LenProperties DEF Looks, Calls
  <1>2. /\ s \o t \in Seq(Calls)
        /\ Len(s \o t) = Len(s) + Len(t)
        /\ \A i \in 1 .. Len(s) : (s \o t)[i] = s[i]
        /\ \A i \in 1 .. Len(t) : (s \o t)[Len(s) + i] = t[i]
    BY <1>1, Joined
  <1>3. ASSUME NEW i \in 3 .. Len(s \o t) PROVE (s \o t)[i] \in FsCalls
    <2>1. CASE i <= Len(s)
      BY <1>1, <1>2, <2>1 DEF Looks
    <2>2. CASE i > Len(s)
      <3>1. i - Len(s) \in 1 .. Len(t) /\ i = Len(s) + (i - Len(s))
        BY <1>1, <1>2, <2>2
      <3> QED
        BY <1>1, <1>2, <3>1, ElementOfSeq
    <2> QED
      BY <1>1, <1>2, <2>1, <2>2
  <1> QED
    BY <1>1, <1>2, <1>3 DEF Looks

LEMMA BootstrapParts == Looks(fs_bootstrap)
  <1>1. /\ Cd(<<>>) \in Seq(FsCalls) /\ Cd(<<"var">>) \in Seq(FsCalls)
        /\ Cd(<<"home">>) \in Seq(FsCalls) /\ Cd(<<"etc">>) \in Seq(FsCalls)
        /\ Cd(<<"home", "root">>) \in Seq(FsCalls) /\ Cd(<<"home", "student">>) \in Seq(FsCalls)
    <2>1. ASSUME NEW comps \in Seq(Name) PROVE Cd(comps) \in Seq(FsCalls)
      BY OneCall DEF Cd, Abs, FsCalls, FsPath
    <2>2. /\ <<>> \in Seq(Name) /\ <<"var">> \in Seq(Name) /\ <<"home">> \in Seq(Name)
          /\ <<"etc">> \in Seq(Name) /\ <<"home", "root">> \in Seq(Name)
          /\ <<"home", "student">> \in Seq(Name)
      BY BootAssumption
    <2> QED
      BY <2>1, <2>2
  <1>2. ASSUME NEW nm \in Name PROVE Mkdir(nm) \in Seq(FsCalls) /\ Write(nm) \in Seq(FsCalls)
    <2>1. Rel(<<nm>>) \in FsPath
      BY DEF Rel, FsPath
    <2>2. /\ [op |-> "mkdir", arg |-> Rel(<<nm>>)] \in FsCalls
          /\ [op |-> "write", arg |-> Rel(<<nm>>)] \in FsCalls
      BY <2>1 DEF FsCalls
    <2> QED
      BY <2>2, OneCall DEF Mkdir, Write
  <1>3. /\ Mkdir("bin") \in Seq(FsCalls) /\ Mkdir("home") \in Seq(FsCalls)
        /\ Mkdir("etc") \in Seq(FsCalls) /\ Mkdir("var") \in Seq(FsCalls)
        /\ Mkdir("log") \in Seq(FsCalls) /\ Mkdir("root") \in Seq(FsCalls)
        /\ Mkdir("student") \in Seq(FsCalls) /\ Write("motd") \in Seq(FsCalls)
        /\ Write("readme") \in Seq(FsCalls) /\ Write("sentinel") \in Seq(FsCalls)
    BY <1>2, BootAssumption
  <1>4. Looks(Cd(<<>>) \o Do("sentinel"))
    <2>1. Cd(<<>>) \in Seq(Calls) /\ Len(Cd(<<>>)) = 1 /\ Cd(<<>>)[1] \in FsCalls
      BY <1>1, ElementOfSeq DEF Cd, Call, Calls
    <2>2. /\ Do("sentinel") \in Seq(Calls) /\ Len(Do("sentinel")) = 1
          /\ Do("sentinel")[1] = [op |-> "sentinel", arg |-> NoMsg]
      BY OneCall DEF Do, Calls, Plain3
    <2> QED
      BY <2>1, <2>2, Joined DEF Looks
  <1>5. \A s, t : Looks(s) /\ t \in Seq(FsCalls) => Looks(s \o t)
    BY LooksOn
  <1> QED
    BY <1>1, <1>3, <1>4, <1>5 DEF fs_bootstrap

\* Where fs_init is called, what comes before fs_bootstrap and up to its end,
\* and where interrupts come on.
FsAt   == Len(Early) + 1
BootAt == FsAt + Len(Stage("fs"))
TopAt  == BootAt + Len(fs_bootstrap)
StiAt  == TopAt + Len(Drivers) + 1

LEMMA ScriptAt ==
    /\ Script \in Seq(AnyStep)
    /\ FsAt \in Nat /\ BootAt \in Nat /\ TopAt \in Nat /\ StiAt \in Nat
    /\ 1 <= FsAt /\ FsAt <= BootAt /\ BootAt + 2 <= TopAt /\ TopAt < StiAt
    /\ StiAt = Len(Installs) + 1
    /\ Len(Script) \in Nat /\ StiAt + 2 <= Len(Script)
    /\ \A i \in 1 .. (FsAt - 1) : Script[i] \in EarlyStep /\ Script[i] = Early[i]
    /\ Script[FsAt] = [op |-> "fs_init", arg |-> NoMsg]
    /\ \A i \in (FsAt + 1) .. BootAt : Script[i] \in LateStep /\ Script[i] = Stage("fs")[i - FsAt]
    /\ \A i \in (BootAt + 1) .. TopAt : Script[i] \in Calls /\ Script[i] = fs_bootstrap[i - BootAt]
    /\ \A i \in (TopAt + 1) .. (StiAt - 1) : Script[i] \in LateStep /\ Script[i] = Drivers[i - TopAt]
    /\ Script[StiAt] = [op |-> "sti", arg |-> NoMsg]
    /\ \A i \in (StiAt + 1) .. (Len(Script) - 2) : Script[i] \in ShellStep
    /\ Script[Len(Script) - 1] = [op |-> "ask", arg |-> NoMsg]
    /\ Script[Len(Script)] = [op |-> "print", arg |-> NoMsg]
  <1> DEFINE fsi == Do("fs_init")
             stg == Stage("fs")
             sti == Do("sti")
             ask == Do("ask")
             prt == Do("print")
             w1 == Early \o fsi
             w2 == w1 \o stg
             w3 == w2 \o fs_bootstrap
             w4 == w3 \o Drivers
             w5 == w4 \o sti
             w6 == w5 \o Threads
             w7 == w6 \o ask
             w8 == w7 \o prt
  <1>1. w4 = Installs /\ w8 = Script
    BY DEF Installs, Script
  <1>2. /\ EarlyStep \subseteq AnyStep /\ LateStep \subseteq AnyStep /\ Calls \subseteq AnyStep
        /\ ShellStep \subseteq AnyStep
    BY DEF EarlyStep, LateStep, ShellStep, AnyStep, Plain3
  <1>3. /\ Early \in Seq(EarlyStep) /\ Drivers \in Seq(LateStep) /\ Threads \in Seq(ShellStep)
        /\ fs_bootstrap \in Seq(Calls) /\ Len(fs_bootstrap) >= 2 /\ stg \in Seq(LateStep)
    BY EarlyParts, DriverParts, ShellParts, BootstrapParts, ScriptWords DEF Looks, Part
  <1>4. /\ fsi \in Seq(AnyStep) /\ Len(fsi) = 1 /\ fsi[1] = [op |-> "fs_init", arg |-> NoMsg]
        /\ sti \in Seq(AnyStep) /\ Len(sti) = 1 /\ sti[1] = [op |-> "sti", arg |-> NoMsg]
        /\ ask \in Seq(AnyStep) /\ Len(ask) = 1 /\ ask[1] = [op |-> "ask", arg |-> NoMsg]
        /\ prt \in Seq(AnyStep) /\ Len(prt) = 1 /\ prt[1] = [op |-> "print", arg |-> NoMsg]
    BY OneCall DEF AnyStep, Do
  <1>5. /\ Early \in Seq(AnyStep) /\ Drivers \in Seq(AnyStep) /\ Threads \in Seq(AnyStep)
        /\ fs_bootstrap \in Seq(AnyStep) /\ stg \in Seq(AnyStep)
    BY <1>2, <1>3
  <1>6. /\ Len(Early) \in Nat /\ Len(Drivers) \in Nat /\ Len(Threads) \in Nat
        /\ Len(fs_bootstrap) \in Nat /\ Len(stg) \in Nat
    BY <1>5, LenProperties
  <1> HIDE DEF fsi, stg, sti, ask, prt, w1, w2, w3, w4, w5, w6, w7, w8
  <1>10. \A s, t \in Seq(AnyStep) : s \o t \in Seq(AnyStep) /\ Spliced(s \o t, s, t)
    BY JoinedAt
  <1>11. /\ w1 \in Seq(AnyStep) /\ Len(w1) = FsAt
         /\ \A i \in 1 .. Len(Early) : w1[i] = Early[i]
         /\ w1[FsAt] = fsi[1]
    <2>1. w1 \in Seq(AnyStep) /\ Spliced(w1, Early, fsi)
      BY <1>4, <1>5, <1>10, Zenon DEF w1
    <2> QED
      BY <2>1, <1>4, <1>6 DEF FsAt, Spliced
  <1>12. /\ w2 \in Seq(AnyStep) /\ Len(w2) = BootAt
         /\ \A i \in 1 .. FsAt : w2[i] = w1[i]
         /\ \A i \in 1 .. Len(stg) : w2[FsAt + i] = stg[i]
    <2>1. w2 \in Seq(AnyStep) /\ Spliced(w2, w1, stg)
      BY <1>5, <1>11, <1>10, Zenon DEF w2
    <2> QED
      BY <2>1, <1>11 DEF Spliced, BootAt, stg
  <1>13. /\ w3 \in Seq(AnyStep) /\ Len(w3) = TopAt
         /\ \A i \in 1 .. BootAt : w3[i] = w2[i]
         /\ \A i \in 1 .. Len(fs_bootstrap) : w3[BootAt + i] = fs_bootstrap[i]
    <2>1. w3 \in Seq(AnyStep) /\ Spliced(w3, w2, fs_bootstrap)
      BY <1>5, <1>12, <1>10, Zenon DEF w3
    <2> QED
      BY <2>1, <1>12 DEF Spliced, TopAt
  <1>14. /\ w4 \in Seq(AnyStep) /\ Len(w4) = TopAt + Len(Drivers)
         /\ \A i \in 1 .. TopAt : w4[i] = w3[i]
         /\ \A i \in 1 .. Len(Drivers) : w4[TopAt + i] = Drivers[i]
    <2>1. w4 \in Seq(AnyStep) /\ Spliced(w4, w3, Drivers)
      BY <1>5, <1>13, <1>10, Zenon DEF w4
    <2> QED
      BY <2>1, <1>13 DEF Spliced
  <1>a. /\ FsAt \in Nat /\ BootAt \in Nat /\ TopAt \in Nat /\ StiAt \in Nat
        /\ 1 <= FsAt /\ FsAt <= BootAt /\ BootAt + 2 <= TopAt /\ TopAt < StiAt
    BY <1>3, <1>6 DEF FsAt, BootAt, TopAt, StiAt, stg
  <1>15. /\ w5 \in Seq(AnyStep) /\ Len(w5) = StiAt
         /\ \A i \in 1 .. (StiAt - 1) : w5[i] = w4[i]
         /\ w5[StiAt] = sti[1]
    <2>1. Len(w4) = StiAt - 1 /\ StiAt - 1 + 1 = StiAt
      BY <1>14, <1>6, <1>a DEF StiAt
    <2>2. w5 \in Seq(AnyStep) /\ Spliced(w5, w4, sti)
      BY <1>4, <1>14, <1>10, Zenon DEF w5
    <2> QED
      BY <1>4, <1>a, <2>1, <2>2 DEF Spliced
  <1>16. /\ w6 \in Seq(AnyStep) /\ Len(w6) = StiAt + Len(Threads)
         /\ \A i \in 1 .. StiAt : w6[i] = w5[i]
         /\ \A i \in 1 .. Len(Threads) : w6[StiAt + i] = Threads[i]
    <2>1. w6 \in Seq(AnyStep) /\ Spliced(w6, w5, Threads)
      BY <1>5, <1>15, <1>10, Zenon DEF w6
    <2> QED
      BY <2>1, <1>15 DEF Spliced
  <1>17. /\ w7 \in Seq(AnyStep) /\ Len(w7) = StiAt + Len(Threads) + 1
         /\ \A i \in 1 .. Len(w6) : w7[i] = w6[i]
         /\ w7[Len(w6) + 1] = ask[1]
    <2>1. w7 \in Seq(AnyStep) /\ Spliced(w7, w6, ask)
      BY <1>4, <1>16, <1>10, Zenon DEF w7
    <2> QED
      BY <1>4, <1>16, <2>1 DEF Spliced
  <1>18. /\ w8 \in Seq(AnyStep) /\ Len(w8) = StiAt + Len(Threads) + 2
         /\ \A i \in 1 .. Len(w7) : w8[i] = w7[i]
         /\ w8[Len(w7) + 1] = prt[1]
    <2>1. w8 \in Seq(AnyStep) /\ Spliced(w8, w7, prt)
      BY <1>4, <1>17, <1>10, Zenon DEF w8
    <2>2. StiAt + Len(Threads) + 1 + 1 = StiAt + Len(Threads) + 2
      BY <1>6, <1>a
    <2> QED
      BY <1>4, <1>17, <2>1, <2>2 DEF Spliced
  <1>b. StiAt = Len(Installs) + 1 /\ Len(Script) = StiAt + Len(Threads) + 2 /\ Script \in Seq(AnyStep)
    BY <1>1, <1>14, <1>18, <1>6, <1>a DEF StiAt
  <1>c. \A i \in 1 .. (StiAt - 1) : Script[i] = w4[i]
    BY <1>1, <1>15, <1>16, <1>17, <1>18, <1>6, <1>a
  <1>d. \A i \in 1 .. TopAt : Script[i] = w3[i]
    BY <1>c, <1>14, <1>a
  <1>e. \A i \in 1 .. BootAt : Script[i] = w2[i]
    BY <1>d, <1>13, <1>a
  <1>f. \A i \in 1 .. FsAt : Script[i] = w1[i]
    BY <1>e, <1>12, <1>a
  <1>21. \A i \in 1 .. (FsAt - 1) : Script[i] \in EarlyStep /\ Script[i] = Early[i]
    <2> SUFFICES ASSUME NEW i \in 1 .. (FsAt - 1)
                 PROVE  Script[i] \in EarlyStep /\ Script[i] = Early[i]
      OBVIOUS
    <2>1. i \in 1 .. Len(Early) /\ i \in 1 .. FsAt
      BY <1>6 DEF FsAt
    <2> QED
      BY <1>3, <1>f, <1>11, <2>1, ElementOfSeq
  <1>22. Script[FsAt] = [op |-> "fs_init", arg |-> NoMsg]
    BY <1>f, <1>11, <1>4, <1>a
  <1>23. \A i \in (FsAt + 1) .. BootAt : Script[i] \in LateStep /\ Script[i] = stg[i - FsAt]
    <2> SUFFICES ASSUME NEW i \in (FsAt + 1) .. BootAt
                 PROVE  Script[i] \in LateStep /\ Script[i] = stg[i - FsAt]
      OBVIOUS
    <2>1. i - FsAt \in 1 .. Len(stg) /\ i \in 1 .. BootAt /\ FsAt + (i - FsAt) = i
      BY <1>6, <1>a DEF BootAt, stg
    <2>2. Script[i] = stg[i - FsAt]
      BY <1>e, <1>12, <2>1
    <2> QED
      BY <1>3, <2>1, <2>2, ElementOfSeq
  <1>24. \A i \in (BootAt + 1) .. TopAt : Script[i] \in Calls /\ Script[i] = fs_bootstrap[i - BootAt]
    <2> SUFFICES ASSUME NEW i \in (BootAt + 1) .. TopAt
                 PROVE  Script[i] \in Calls /\ Script[i] = fs_bootstrap[i - BootAt]
      OBVIOUS
    <2>1. i - BootAt \in 1 .. Len(fs_bootstrap) /\ i \in 1 .. TopAt /\ BootAt + (i - BootAt) = i
      BY <1>6, <1>a DEF TopAt
    <2>2. Script[i] = fs_bootstrap[i - BootAt]
      BY <1>d, <1>13, <2>1
    <2> QED
      BY <1>3, <2>1, <2>2, ElementOfSeq
  <1>25. \A i \in (TopAt + 1) .. (StiAt - 1) : Script[i] \in LateStep /\ Script[i] = Drivers[i - TopAt]
    <2> SUFFICES ASSUME NEW i \in (TopAt + 1) .. (StiAt - 1)
                 PROVE  Script[i] \in LateStep /\ Script[i] = Drivers[i - TopAt]
      OBVIOUS
    <2>1. i - TopAt \in 1 .. Len(Drivers) /\ i \in 1 .. (StiAt - 1) /\ TopAt + (i - TopAt) = i
      BY <1>6, <1>a DEF StiAt
    <2>2. Script[i] = Drivers[i - TopAt]
      BY <1>c, <1>14, <2>1
    <2> QED
      BY <1>3, <2>1, <2>2, ElementOfSeq
  <1>26. Script[StiAt] = [op |-> "sti", arg |-> NoMsg]
    BY <1>1, <1>15, <1>16, <1>17, <1>18, <1>4, <1>6, <1>a
  <1>27. \A i \in (StiAt + 1) .. (Len(Script) - 2) : Script[i] \in ShellStep
    <2> SUFFICES ASSUME NEW i \in (StiAt + 1) .. (Len(Script) - 2)
                 PROVE  Script[i] \in ShellStep
      OBVIOUS
    <2>1. i - StiAt \in 1 .. Len(Threads) /\ StiAt + (i - StiAt) = i
          /\ i \in 1 .. Len(w6) /\ i \in 1 .. Len(w7)
      BY <1>6, <1>a, <1>b, <1>16, <1>17
    <2>2. Script[i] = Threads[i - StiAt]
      BY <1>1, <1>16, <1>17, <1>18, <2>1
    <2> QED
      BY <1>3, <2>1, <2>2, ElementOfSeq
  <1>28. Script[Len(Script) - 1] = [op |-> "ask", arg |-> NoMsg]
    <2>1. Len(Script) - 1 = Len(w6) + 1 /\ Len(w6) + 1 \in 1 .. Len(w7)
      BY <1>b, <1>16, <1>17, <1>6, <1>a
    <2> QED
      BY <1>1, <1>17, <1>18, <1>4, <2>1
  <1>29. Script[Len(Script)] = [op |-> "print", arg |-> NoMsg]
    <2>1. Len(Script) = Len(w7) + 1
      BY <1>b, <1>17, <1>6, <1>a
    <2> QED
      BY <1>1, <1>18, <1>4, <2>1
  <1>30. Len(Script) \in Nat /\ StiAt + 2 <= Len(Script)
    BY <1>b, <1>6, <1>a
  <1> QED
    BY <1>a, <1>b, <1>21, <1>22, <1>23, <1>24, <1>25, <1>26, <1>27, <1>28, <1>29, <1>30 DEF stg

-----------------------------------------------------------------------------
(* The control: where the script stands *)

\* Interrupts are on only where the script is past its sti, and log_event is
\* under way only where the script calls it.
Control ==
    /\ pc \in 1 .. (Len(Script) + 1)
    /\ iflag \in BOOLEAN
    /\ iflag => pc > StiAt
    /\ writer.at # "out" => At("note")

\* A part that a handler needs has been initialised, or will be before that.
PartsReady ==
    \A part \in Handled :
        \/ part \in ready
        \/ \E i \in pc .. (StiAt - 1) : Script[i] = [op |-> "init", arg |-> part]

\* What each call in the script is, by where it stands.
LEMMA Placed ==
    ASSUME Control, ~Running
    PROVE  /\ pc \in 1 .. Len(Script) /\ pc \in Nat
           /\ At("init") => Arg \in Part /\ Script[pc] = [op |-> "init", arg |-> Arg]
           /\ At("note") => Arg \in Msg
           /\ At("kmalloc") => Arg = HEAP_TEST /\ pc < FsAt
           /\ At("alloc") => Arg \in {TASK_SIZE, STACK_SIZE}
           /\ At("alloc") \/ At("clear") \/ At("start") => pc > StiAt /\ pc < Len(Script) - 1
           /\ At("fs_init") <=> pc = FsAt
           /\ At("sentinel") <=> pc = BootAt + 2
           /\ At("mkdir") \/ At("write") \/ At("chdir") =>
                  Arg \in FsPath /\ BootAt < pc /\ pc <= TopAt
           /\ At("sti") <=> pc = StiAt
           /\ At("shell_init") => pc > StiAt /\ pc < Len(Script) - 1
           /\ At("ask") <=> pc = Len(Script) - 1
           /\ At("print") <=> pc = Len(Script)
  <1>1. pc \in 1 .. Len(Script) /\ pc \in Nat /\ \A op : At(op) <=> Script[pc].op = op
    BY ScriptAt DEF Control, Running, At
  <1>2. CASE pc < FsAt
    <2>1. Script[pc] \in EarlyStep
      BY <1>1, <1>2, ScriptAt
    <2> QED
      BY <1>1, <1>2, <2>1, ScriptAt DEF EarlyStep, Inits, Notes, Blocks, Sleeps, Arg
  <1>3. CASE pc = FsAt
    BY <1>1, <1>3, ScriptAt
  <1>4. CASE pc > FsAt /\ pc <= BootAt
    <2>1. Script[pc] \in LateStep
      BY <1>1, <1>4, ScriptAt
    <2> QED
      BY <1>1, <1>4, <2>1, ScriptAt DEF LateStep, Inits, Notes, Sleeps, Arg
  <1>5. CASE pc > BootAt /\ pc <= TopAt
    <2>1. Script[pc] \in Calls /\ Script[pc] = fs_bootstrap[pc - BootAt]
      BY <1>1, <1>5, ScriptAt
    <2>2. Script[pc].op \in {"mkdir", "write", "chdir", "sentinel"}
          /\ (Script[pc].op # "sentinel" => Arg \in FsPath)
      BY <2>1 DEF Calls, FsCalls, Plain3, Arg
    <2>3. Script[pc].op = "sentinel" <=> pc = BootAt + 2
      <3>1. Looks(fs_bootstrap) /\ Len(fs_bootstrap) \in Nat
        BY BootstrapParts, LenProperties DEF Looks
      <3>2. \A step \in FsCalls : step.op # "sentinel"
        BY DEF FsCalls
      <3>3. BootAt \in Nat
        BY ScriptAt
      <3>4. CASE pc = BootAt + 1
        <4>1. pc - BootAt = 1 /\ pc # BootAt + 2
          BY <3>3, <3>4
        <4> QED
          BY <2>1, <3>1, <3>2, <4>1 DEF Looks
      <3>5. CASE pc = BootAt + 2
        <4>1. pc - BootAt = 2
          BY <3>3, <3>5
        <4> QED
          BY <2>1, <3>1, <3>5, <4>1 DEF Looks
      <3>6. CASE pc > BootAt + 2
        <4>1. pc - BootAt \in 3 .. Len(fs_bootstrap) /\ pc # BootAt + 2
          BY <1>1, <1>5, <3>1, <3>3, <3>6 DEF TopAt
        <4> QED
          BY <2>1, <3>1, <3>2, <4>1 DEF Looks
      <3> QED
        BY <1>1, <1>5, <3>3, <3>4, <3>5, <3>6
    <2>4. pc # FsAt /\ pc # StiAt /\ pc # Len(Script) - 1 /\ pc # Len(Script)
      BY <1>1, <1>5, ScriptAt
    <2> QED
      BY <1>1, <1>5, <2>2, <2>3, <2>4
  <1>6. CASE pc > TopAt /\ pc < StiAt
    <2>0. pc \in (TopAt + 1) .. (StiAt - 1)
      BY <1>1, <1>6, ScriptAt
    <2>1. Script[pc] \in LateStep
      BY <2>0, ScriptAt
    <2> QED
      BY <1>1, <1>6, <2>1, ScriptAt DEF LateStep, Inits, Notes, Sleeps, Arg
  <1>7. CASE pc = StiAt
    BY <1>1, <1>7, ScriptAt
  <1>8. CASE pc > StiAt /\ pc <= Len(Script) - 2
    <2>0. pc \in (StiAt + 1) .. (Len(Script) - 2)
      BY <1>1, <1>8, ScriptAt
    <2>1. Script[pc] \in ShellStep
      BY <2>0, ScriptAt
    <2> QED
      BY <1>1, <1>8, <2>1, ScriptAt DEF ShellStep, Inits, Notes, Allocs, Arg
  <1>9. CASE pc = Len(Script) - 1
    BY <1>1, <1>9, ScriptAt
  <1>10. CASE pc = Len(Script)
    BY <1>1, <1>10, ScriptAt
  <1> QED
    BY <1>1, <1>2, <1>3, <1>4, <1>5, <1>6, <1>7, <1>8, <1>9, <1>10, ScriptAt

\* How a step of the script moves on: to the next call, or, with the sentinel
\* there, to the end of fs_bootstrap.
LEMMA Advance ==
    ASSUME Control, BootStep
    PROVE  /\ ~Running
           /\ pc' \in {pc, pc + 1} \/ (pc = BootAt + 2 /\ pc' = TopAt)
           /\ ready \subseteq ready'
           /\ pc' # pc /\ At("init") => ready' = ready \cup {Arg}
           /\ iflag' = IF pc = StiAt THEN TRUE ELSE iflag
           /\ pc = StiAt => pc' = pc + 1
           /\ writer'.at # "out" => pc' = pc /\ At("note")
  <1>1. ASSUME NoteStep PROVE At("note")
    BY <1>1 DEF NoteStep, LogStep, CopyFirst, CopyRest, LoadCount, StoreHead, StoreCount, Control
  <1>2. ~Running
    BY <1>1 DEF BootStep, InitPart, NoteBegin, NoteSkip, sleep_ticks, Sti, Kmalloc, fs_init,
             Bootstrap, Sentinel, TaskAlloc, console_clear, scheduler_start, shell_init,
             PromptBegin, PromptChar, At
  <1>3. \A op1, op2 : At(op1) /\ At(op2) => op1 = op2
    BY DEF At
  <1>4. /\ At("sti") <=> pc = StiAt
        /\ At("sentinel") <=> pc = BootAt + 2
        /\ pc \in Nat
    BY <1>2, Placed
  <1>5. writer.at # "out" => At("note")
    BY DEF Control
  <1>6. CASE InitPart
    BY <1>2, <1>3, <1>4, <1>5, <1>6 DEF InitPart, logVars
  <1>7. CASE NoteBegin
    BY <1>2, <1>3, <1>4, <1>7 DEF NoteBegin, bootVars
  <1>8. CASE NoteStep
    BY <1>1, <1>2, <1>3, <1>4, <1>8 DEF NoteStep, Same
  <1>9. CASE sleep_ticks
    BY <1>2, <1>3, <1>4, <1>5, <1>9 DEF sleep_ticks, Same, logVars
  <1>10. CASE Sti
    BY <1>2, <1>3, <1>4, <1>5, <1>10 DEF Sti, logVars
  <1>11. CASE Kmalloc
    BY <1>2, <1>3, <1>4, <1>5, <1>11 DEF Kmalloc, Same, logVars
  <1>12. CASE fs_init
    BY <1>2, <1>3, <1>4, <1>5, <1>12 DEF fs_init, Same, logVars
  <1>13. CASE Bootstrap
    BY <1>2, <1>3, <1>4, <1>5, <1>13 DEF Bootstrap, Same, logVars
  <1>14. CASE Sentinel
    <2>1. BootAt + 2 + Len(fs_bootstrap) - 2 = TopAt
      BY ScriptAt, BootstrapParts, LenProperties DEF Looks, TopAt
    <2>2. At("sentinel") /\ Same /\ UNCHANGED logVars
          /\ pc' = IF ret' = Ok THEN pc + Len(fs_bootstrap) - 2 ELSE pc + 1
      BY <1>14 DEF Sentinel
    <2> QED
      BY <1>2, <1>3, <1>4, <1>5, <2>1, <2>2 DEF Same, logVars
  <1>15. CASE shell_init
    BY <1>2, <1>3, <1>4, <1>5, <1>15 DEF shell_init, logVars
  <1>16. CASE PromptBegin
    BY <1>2, <1>3, <1>4, <1>5, <1>16 DEF PromptBegin, logVars
  <1>17. CASE PromptChar
    BY <1>2, <1>3, <1>4, <1>5, <1>17 DEF PromptChar, logVars
  <1>18. CASE NoteSkip
    BY <1>2, <1>3, <1>4, <1>18 DEF NoteSkip, Same, logVars
  <1>19. CASE TaskAlloc
    BY <1>2, <1>3, <1>4, <1>5, <1>19 DEF TaskAlloc, logVars
  <1>20. CASE console_clear
    BY <1>2, <1>3, <1>4, <1>5, <1>20 DEF console_clear, logVars
  <1>21. CASE scheduler_start
    BY <1>2, <1>3, <1>4, <1>5, <1>21 DEF scheduler_start, Same, logVars
  <1> QED
    BY <1>6, <1>7, <1>8, <1>9, <1>10, <1>11, <1>12, <1>13, <1>14, <1>15, <1>16, <1>17,
       <1>18, <1>19, <1>20, <1>21 DEF BootStep

LEMMA StepControl ==
    ASSUME Control, PartsReady, BootStep
    PROVE  Control' /\ PartsReady'
  <1>1. /\ ~Running
        /\ pc' \in {pc, pc + 1} \/ (pc = BootAt + 2 /\ pc' = TopAt)
        /\ ready \subseteq ready'
        /\ pc' # pc /\ At("init") => ready' = ready \cup {Arg}
        /\ iflag' = IF pc = StiAt THEN TRUE ELSE iflag
        /\ pc = StiAt => pc' = pc + 1
        /\ writer'.at # "out" => pc' = pc /\ At("note")
    BY Advance
  <1>2. /\ pc \in 1 .. Len(Script) /\ pc \in Nat /\ \A op : At(op) <=> Script[pc].op = op
    BY <1>1, Placed DEF At
  <1>3. pc' \in 1 .. (Len(Script) + 1) /\ iflag' \in BOOLEAN /\ (iflag' => pc' > StiAt)
    <2>1. CASE pc = StiAt
      BY <1>1, <1>2, <2>1, ScriptAt
    <2>2. CASE pc # StiAt
      <3>1. pc > StiAt <=> pc' > StiAt
        BY <1>1, <1>2, <2>2, ScriptAt
      <3>2. pc' \in 1 .. (Len(Script) + 1)
        BY <1>1, <1>2, ScriptAt
      <3> QED
        BY <1>1, <2>2, <3>1, <3>2 DEF Control
    <2> QED
      BY <2>1, <2>2
  <1>4. writer'.at # "out" => At("note")'
    BY <1>1, <1>2 DEF At, Running
  <1>5. ASSUME NEW part \in Handled
        PROVE  \/ part \in ready'
               \/ \E i \in pc' .. (StiAt - 1) : Script[i] = [op |-> "init", arg |-> part]
    <2>1. CASE part \in ready
      BY <1>1, <2>1
    <2>2. ASSUME NEW i \in pc .. (StiAt - 1), Script[i] = [op |-> "init", arg |-> part],
                 part \notin ready'
          PROVE  i \in pc' .. (StiAt - 1)
      <3>1. CASE pc' = pc
        BY <2>2, <3>1
      <3>2. CASE pc' = pc + 1
        <4>1. i # pc
          BY <1>1, <1>2, <2>2, <3>2 DEF Arg
        <4> QED
          BY <1>2, <2>2, <3>2, <4>1, ScriptAt
      <3>3. CASE pc = BootAt + 2 /\ pc' = TopAt
        <4>1. ASSUME i < TopAt PROVE FALSE
          <5>1. i \in (BootAt + 1) .. TopAt
            BY <1>2, <2>2, <3>3, <4>1, ScriptAt
          <5>2. Script[i] \in Calls
            BY <5>1, ScriptAt
          <5> QED
            BY <2>2, <5>2 DEF Calls, FsCalls, Plain3
        <4> QED
          BY <1>2, <2>2, <3>3, <4>1, ScriptAt
      <3> QED
        BY <1>1, <3>1, <3>2, <3>3
    <2> QED
      BY <2>1, <2>2 DEF PartsReady
  <1> QED
    BY <1>3, <1>4, <1>5 DEF Control, PartsReady

\* A handler leaves the script where it was.
LEMMA IrqControl ==
    ASSUME Control, PartsReady, LogInv, Irq
    PROVE  Control' /\ PartsReady' /\ iflag
  <1>1. UNCHANGED <<pc, ready>> /\ iflag /\ iflag' \in {iflag, FALSE}
    BY DEF Irq, TimerIrq, KeyBackspace, KeyEnter, KeyLeave, KeyEdit, KeyEscape, KeyChar, Key
  <1>2. writer'.at = writer.at
    <2>1. ASSUME NEW msgs, LogInIrq(msgs) PROVE writer'.at = writer.at
      <3>1. writer' = writer \/ writer' = [writer EXCEPT !.raced = TRUE]
        BY <2>1 DEF LogInIrq
      <3>2. DOMAIN writer = {"at", "msg", "head", "count", "raced"}
        BY DEF LogInv, LogTypes
      <3> QED
        BY <3>1, <3>2
    <2>2. UNCHANGED writer \/ \E msgs : LogInIrq(msgs)
      BY DEF Irq, TimerIrq, KeyBackspace, KeyEnter, KeyLeave, KeyEdit, KeyEscape, KeyChar,
         Executed, logVars
    <2> QED
      BY <2>1, <2>2
  <1> QED
    BY <1>1, <1>2 DEF Control, PartsReady, At, Running

-----------------------------------------------------------------------------
(* The log, in every step *)

LEMMA BootLog ==
    ASSUME Control, LogInv, BootStep \/ Irq
    PROVE  LogInv'
  <1>1. CASE NoteBegin
    <2>1. Arg \in Msg /\ LogBegin(Arg)
      BY <1>1, Placed DEF NoteBegin, At
    <2> QED
      BY <2>1, BeginKeeps
  <1>2. CASE NoteStep
    BY <1>2, CopyKeeps, HeadKeeps, StoreCountKeeps DEF NoteStep, LogStep
  <1>3. ASSUME NEW msgs \in {<<"shell", "cmd">>, <<"shell", "cmd", "fs">>,
                             <<"shell", "cmd", "shell">>},
               LogInIrq(msgs)
        PROVE  LogInv'
    <2>1. "shell" \in Msg /\ "cmd" \in Msg /\ "fs" \in Msg
      BY BootAssumption
    <2>2. /\ <<"shell", "cmd">> \in Seq(Msg) /\ <<"shell", "cmd", "fs">> \in Seq(Msg)
          /\ <<"shell", "cmd", "shell">> \in Seq(Msg)
      BY <2>1
    <2> QED
      BY <1>3, <2>2, InIrqKeeps
  <1>4. CASE UNCHANGED logVars
    BY <1>4, LogIdle
  <1>5. CASE BootStep
    BY <1>1, <1>2, <1>4, <1>5 DEF BootStep, InitPart, NoteSkip, sleep_ticks, Sti, Kmalloc,
       fs_init, Bootstrap, Sentinel, TaskAlloc, console_clear, scheduler_start, shell_init,
       PromptBegin, PromptChar
  <1>6. CASE Irq
    BY <1>3, <1>4, <1>6 DEF Irq, TimerIrq, KeyBackspace, KeyEnter, KeyLeave, KeyEdit,
       KeyEscape, KeyChar, Executed
  <1> QED
    BY <1>5, <1>6

-----------------------------------------------------------------------------
(* The line *)

\* short is what long ends with.
EndOf(short, long) ==
    /\ Len(short) <= Len(long)
    /\ \A i \in 1 .. Len(short) : short[i] = long[Len(long) - Len(short) + i]

\* Of a line begun before shell_init the end is left in the buffer, of one begun
\* before console_clear the end is left on the screen.
LineOK ==
    /\ input \in Seq(Command) /\ seen \in Seq(Command)
    /\ Len(input) < SHELL_INPUT_MAX
    /\ ~cut /\ ~wiped => input = seen
    /\ cut => EndOf(input, seen)
    /\ ~cut /\ wiped => EndOf(seen, input)

LEMMA EndAppend ==
    ASSUME NEW s \in Seq(Command), NEW t \in Seq(Command), EndOf(s, t), NEW c \in Command
    PROVE  EndOf(Append(s, c), Append(t, c))
  <1> PICK u, v : u = Append(s, c) /\ v = Append(t, c)
    OBVIOUS
  <1>1. /\ Len(s) \in Nat /\ Len(t) \in Nat /\ Len(s) <= Len(t)
        /\ Len(u) = Len(s) + 1 /\ Len(v) = Len(t) + 1
        /\ \A i \in 1 .. Len(s) : u[i] = s[i]
        /\ \A i \in 1 .. Len(t) : v[i] = t[i]
        /\ u[Len(s) + 1] = c /\ v[Len(t) + 1] = c
    BY AppendProperties, LenProperties DEF EndOf
  <1>2. Len(v) - Len(u) = Len(t) - Len(s)
    BY <1>1
  <1>3. ASSUME NEW i \in 1 .. Len(u) PROVE u[i] = v[Len(v) - Len(u) + i]
    <2>1. CASE i = Len(s) + 1
      BY <1>1, <1>2, <2>1
    <2>2. CASE i # Len(s) + 1
      <3>1. i \in 1 .. Len(s) /\ Len(t) - Len(s) + i \in 1 .. Len(t)
        BY <1>1, <2>2
      <3>2. s[i] = t[Len(t) - Len(s) + i]
        BY <3>1 DEF EndOf
      <3> QED
        BY <1>1, <1>2, <3>1, <3>2
    <2> QED
      BY <2>1, <2>2
  <1>4. Len(u) <= Len(v)
    BY <1>1
  <1>5. EndOf(u, v)
    BY <1>3, <1>4 DEF EndOf
  <1> QED
    BY <1>5

LEMMA FrontIs ==
    ASSUME NEW s \in Seq(Command), s # <<>>
    PROVE  /\ Len(s) >= 1
           /\ Front(s) \in Seq(Command) /\ Len(Front(s)) = Len(s) - 1
           /\ \A i \in 1 .. (Len(s) - 1) : Front(s)[i] = s[i]
  <1>1. Len(s) \in Nat /\ Len(s) >= 1
    BY LenProperties, EmptySeq
  <1>2. \A i \in 1 .. (Len(s) - 1) : s[i] \in Command
    BY <1>1, ElementOfSeq
  <1> DEFINE f == SubSeq(s, 1, Len(s) - 1)
  <1>3. /\ f \in Seq(Command)
        /\ Len(f) = IF 1 <= Len(s) - 1 THEN Len(s) - 1 - 1 + 1 ELSE 0
        /\ \A i \in 1 .. (Len(s) - 1 - 1 + 1) : f[i] = s[1 + i - 1]
    BY <1>1, <1>2, SubSeqProperties
  <1>4. Front(s) = f
    BY DEF Front
  <1> HIDE DEF f
  <1>5. Len(f) = Len(s) - 1
    <2>1. CASE 1 <= Len(s) - 1
      <3>1. Len(f) = Len(s) - 1 - 1 + 1
        BY <1>3, <2>1, Zenon
      <3> QED
        BY <3>1, <1>1
    <2>2. CASE ~(1 <= Len(s) - 1)
      <3>1. Len(f) = 0
        BY <1>3, <2>2, Zenon
      <3>2. \A n \in Nat : n >= 1 /\ ~(1 <= n - 1) => n - 1 = 0
        OBVIOUS
      <3>3. Len(s) - 1 = 0
        BY <1>1, <2>2, <3>2, Zenon
      <3> QED
        BY <3>1, <3>3
    <2> QED
      BY <2>1, <2>2
  <1>6. ASSUME NEW i \in 1 .. (Len(s) - 1) PROVE f[i] = s[i]
    <2>1. i \in 1 .. (Len(s) - 1 - 1 + 1) /\ 1 + i - 1 = i
      BY <1>1
    <2>2. f[i] = s[1 + i - 1]
      BY <1>3, <2>1
    <2> QED
      BY <2>1, <2>2
  <1> QED
    BY <1>1, <1>3, <1>4, <1>5, <1>6

LEMMA EndFront ==
    ASSUME NEW s \in Seq(Command), s # <<>>, NEW t \in Seq(Command), EndOf(s, t)
    PROVE  t # <<>> /\ EndOf(Front(s), Front(t))
  <1>1. Len(s) \in Nat /\ Len(t) \in Nat /\ Len(s) <= Len(t) /\ Len(s) >= 1
    BY FrontIs, LenProperties DEF EndOf
  <1>2. t # <<>>
    BY <1>1
  <1> PICK u, v : u = Front(s) /\ v = Front(t)
    OBVIOUS
  <1>3. /\ Len(u) = Len(s) - 1 /\ Len(v) = Len(t) - 1
        /\ \A i \in 1 .. (Len(s) - 1) : u[i] = s[i]
        /\ \A i \in 1 .. (Len(t) - 1) : v[i] = t[i]
    BY <1>2, FrontIs
  <1>4. ASSUME NEW i \in 1 .. Len(u) PROVE u[i] = v[Len(v) - Len(u) + i]
    <2>1. /\ Len(v) - Len(u) = Len(t) - Len(s)
          /\ i \in 1 .. (Len(s) - 1) /\ i \in 1 .. Len(s)
          /\ Len(t) - Len(s) + i \in 1 .. (Len(t) - 1)
      BY <1>1, <1>3
    <2>2. s[i] = t[Len(t) - Len(s) + i]
      BY <2>1 DEF EndOf
    <2> QED
      BY <1>3, <2>1, <2>2
  <1> QED
    BY <1>1, <1>2, <1>3, <1>4 DEF EndOf

LEMMA EmptyEnds ==
    /\ <<>> \in Seq(Command) /\ Len(<<>>) = 0 /\ 0 < SHELL_INPUT_MAX
    /\ \A s \in Seq(Command) : EndOf(<<>>, s)
  <1>1. <<>> \in Seq(Command) /\ Len(<<>>) = 0 /\ 0 < SHELL_INPUT_MAX
    BY BootAssumption
  <1>2. ASSUME NEW s \in Seq(Command) PROVE EndOf(<<>>, s)
    BY <1>1, LenProperties DEF EndOf
  <1> QED
    BY <1>1, <1>2

LEMMA LineKept ==
    ASSUME LineOK, BootStep \/ Irq
    PROVE  LineOK'
  <1>0. SHELL_INPUT_MAX \in Nat \ {0} /\ Len(input) \in Nat /\ Len(seen) \in Nat
    BY LenProperties, BootAssumption DEF LineOK
  <1>1. CASE UNCHANGED lineVars
    BY <1>1 DEF lineVars, LineOK
  <1>2. CASE shell_init
    <2>1. input' = <<>> /\ seen' = seen /\ (cut' <=> seen # <<>>) /\ ~wiped'
      BY <1>2 DEF shell_init
    <2> QED
      BY <2>1, EmptyEnds DEF LineOK
  <1>3. CASE console_clear
    <2>1. input' = input /\ seen' = <<>> /\ ~cut' /\ (wiped' <=> input # <<>>)
      BY <1>3 DEF console_clear
    <2> QED
      BY <2>1, EmptyEnds DEF LineOK
  <1>4. ASSUME NEW c \in Command, KeyChar(c) PROVE LineOK'
    <2>1. CASE UNCHANGED <<input, seen>>
      BY <1>4, <2>1 DEF KeyChar, LineOK
    <2>2. CASE /\ Len(input) < SHELL_INPUT_MAX - 1
               /\ input' = Append(input, c) /\ seen' = Append(seen, c)
      <3>1. /\ input' \in Seq(Command) /\ seen' \in Seq(Command)
            /\ Len(input') = Len(input) + 1 /\ UNCHANGED <<cut, wiped>>
        BY <1>4, <2>2, AppendProperties DEF LineOK, KeyChar
      <3>2. Len(input') < SHELL_INPUT_MAX
        BY <1>0, <2>2, <3>1
      <3>3. /\ EndOf(input, seen) => EndOf(input', seen')
            /\ EndOf(seen, input) => EndOf(seen', input')
            /\ input = seen => input' = seen'
        BY <2>2, EndAppend DEF LineOK
      <3> QED
        BY <3>1, <3>2, <3>3 DEF LineOK
    <2> QED
      BY <1>4, <2>1, <2>2 DEF KeyChar
  <1>5. CASE KeyBackspace
    <2>1. CASE input = <<>>
      BY <1>5, <2>1 DEF KeyBackspace, LineOK
    <2>2. CASE input # <<>>
      <3>1. /\ input' = Front(input) /\ UNCHANGED <<cut, wiped>>
            /\ seen' = IF seen = <<>> THEN <<>> ELSE Front(seen)
        BY <1>5, <2>2 DEF KeyBackspace
      <3>2. /\ input' \in Seq(Command) /\ seen' \in Seq(Command)
            /\ Len(input') < SHELL_INPUT_MAX
        BY <1>0, <2>2, <3>1, FrontIs, EmptyEnds DEF LineOK
      <3>3. EndOf(input, seen) => EndOf(input', seen')
        BY <2>2, <3>1, EndFront DEF LineOK
      <3>4. EndOf(seen, input) => EndOf(seen', input')
        <4>1. CASE seen = <<>>
          BY <3>1, <3>2, <4>1, EmptyEnds
        <4>2. CASE seen # <<>>
          BY <3>1, <4>2, EndFront DEF LineOK
        <4> QED
          BY <4>1, <4>2
      <3>5. input = seen => input' = seen'
        BY <2>2, <3>1
      <3> QED
        BY <3>1, <3>2, <3>3, <3>4, <3>5 DEF LineOK
    <2> QED
      BY <2>1, <2>2
  <1>6. CASE KeyEnter
    <2>1. input' = <<>> /\ seen' = <<>> /\ ~cut' /\ ~wiped'
      BY <1>6 DEF KeyEnter
    <2> QED
      BY <2>1, EmptyEnds DEF LineOK
  <1>7. CASE BootStep
    BY <1>1, <1>2, <1>3, <1>7 DEF BootStep, InitPart, NoteBegin, NoteSkip, NoteStep, sleep_ticks,
       Sti, Kmalloc, fs_init, Bootstrap, Sentinel, TaskAlloc, scheduler_start, PromptBegin,
       PromptChar, Same, LineSame, bootVars, lineVars
  <1>8. CASE Irq
    BY <1>1, <1>4, <1>5, <1>6, <1>8 DEF Irq, TimerIrq, KeyLeave, KeyEdit, KeyEscape, LineSame
  <1> QED
    BY <1>7, <1>8

\* IsSuffix compares the two sequences turned round.
LEMMA SuffixIs ==
    ASSUME NEW s \in Seq(Command), NEW t \in Seq(Command), EndOf(s, t)
    PROVE  IsSuffix(s, t)
  <1> PICK m, n, rs, rt : m = Len(s) /\ n = Len(t) /\ rs = Reverse(s) /\ rt = Reverse(t)
    OBVIOUS
  <1>1. m \in Nat /\ n \in Nat /\ m <= n
    BY LenProperties DEF EndOf
  <1>2. ASSUME NEW u \in Seq(Command)
        PROVE  /\ Reverse(u) \in Seq(Command) /\ Len(Reverse(u)) = Len(u)
               /\ \A i \in 1 .. Len(u) : Reverse(u)[i] = u[(Len(u) - i) + 1]
    <2>1. Reverse(u) = [i \in 1 .. Len(u) |-> u[(Len(u) - i) + 1]]
      BY DEF Reverse
    <2>2. Len(u) \in Nat /\ \A i \in 1 .. Len(u) : u[(Len(u) - i) + 1] \in Command
      <3>1. Len(u) \in Nat /\ \A i \in 1 .. Len(u) : (Len(u) - i) + 1 \in 1 .. Len(u)
        BY LenProperties
      <3> QED
        BY <3>1, ElementOfSeq
    <2> QED
      BY <2>1, <2>2
  <1>3. /\ rs \in Seq(Command) /\ Len(rs) = m /\ rt \in Seq(Command) /\ Len(rt) = n
        /\ \A i \in 1 .. m : rs[i] = s[(m - i) + 1]
        /\ \A i \in 1 .. n : rt[i] = t[(n - i) + 1]
    BY <1>2
  <1>4. \A i \in 1 .. m : rs[i] = rt[i]
    <2> SUFFICES ASSUME NEW i \in 1 .. m PROVE rs[i] = rt[i]
      OBVIOUS
    <2>1. i \in 1 .. n /\ (m - i) + 1 \in 1 .. m /\ n - m + ((m - i) + 1) = (n - i) + 1
      BY <1>1
    <2>2. s[(m - i) + 1] = t[n - m + ((m - i) + 1)]
      BY <2>1 DEF EndOf
    <2> QED
      BY <1>3, <2>1, <2>2
  <1>5. SubSeq(rs, 1, m) = SubSeq(rt, 1, m)
    <2> PICK a, b : a = SubSeq(rs, 1, m) /\ b = SubSeq(rt, 1, m)
      OBVIOUS
    <2>1. a \in Seq(Command) /\ Len(a) = m /\ \A i \in 1 .. m : a[i] = rs[i]
      BY <1>1, <1>3
    <2>2. b \in Seq(Command) /\ Len(b) = m /\ \A i \in 1 .. m : b[i] = rt[i]
      BY <1>1, <1>3
    <2>3. a = b
      BY <1>4, <2>1, <2>2, SeqEqual
    <2> QED
      BY <2>3
  <1> QED
    BY <1>1, <1>3, <1>5 DEF IsSuffix, IsPrefix

LEMMA LineSeen == ASSUME LineOK PROVE LineAsSeen
  BY SuffixIs DEF LineOK, LineAsSeen

-----------------------------------------------------------------------------
(* The filesystem, from before fs_init *)

\* The memory of the filesystem as the loader leaves it.
Untouched ==
    /\ heap_offset \in 0 .. (KHEAP_SIZE - 1) /\ nodes = {} /\ fs_root = NULL /\ fs_cwd = NULL
    /\ name = [n \in HeapAddr |-> RootName] /\ is_dir = [n \in HeapAddr |-> FALSE]
    /\ data = [n \in HeapAddr |-> NoText] /\ parent = [n \in HeapAddr |-> NULL]
    /\ kids = [n \in HeapAddr |-> <<>>]
    /\ snaps = <<>> /\ clone = NoClone /\ ret = Ok /\ out = NoText

\* From fs_init on the invariants of Fs hold, and no snapshot is ever made.
InOrder == IInv /\ EncryptedAtRest /\ Quiet
FsOK == IF pc <= FsAt THEN Untouched ELSE InOrder

\* fs_init makes a root of the next node of the heap.
LEMMA FirstNode ==
    ASSUME Untouched, fs_init
    PROVE  InOrder'
  <1> DEFINE n == PtrAt(heap_offset)
  <1>0. /\ heap_offset \in 0 .. (KHEAP_SIZE - 1) /\ heap_offset \in Nat
        /\ Fits(heap_offset, NODE_SIZE)
    BY Constants DEF Untouched, fs_init
  <1>1. /\ heap_offset + NODE_SIZE < KHEAP_SIZE
        /\ heap_offset' = heap_offset + NODE_SIZE
    BY <1>0, NoWrap, FsAssumption, Constants DEF fs_init
  <1>2. n \in HeapAddr /\ n \in Nat /\ n # NULL
    BY <1>0, <1>1, Constants, HeapAssumption DEF PtrAt, HeapAddr, NULL
  <1>3. /\ fs_root' = n /\ fs_cwd' = n /\ nodes' = {n}
        /\ name' = [x \in HeapAddr |-> RootName]
        /\ is_dir' = [x \in HeapAddr |-> x = n]
        /\ data' = [x \in HeapAddr |-> NoText]
        /\ parent' = [x \in HeapAddr |-> IF x = n THEN n ELSE NULL]
        /\ kids' = [x \in HeapAddr |-> <<>>]
        /\ snaps' = <<>> /\ clone' = NoClone /\ ret' = Ok /\ out' = NoText
    BY <1>2 DEF fs_init, Untouched
  <1> HIDE DEF n
  <1>4. \A x \in HeapAddr : DOMAIN kids'[x] = {} /\ ToSet(kids'[x]) = {}
    BY <1>3 DEF ToSet
  <1>5. TypeOK'
    <2>1. heap_offset' \in 0 .. (KHEAP_SIZE - 1)
      BY <1>0, <1>1, FsAssumption, Constants
    <2>2. clone' \in [snap : SnapName \cup {NoSnap}, root : HeapAddr \cup {NULL},
                      todo : Seq(Frame)]
      BY <1>3 DEF NoClone
    <2>3. is_dir' \in [HeapAddr -> BOOLEAN]
      BY <1>3
    <2> QED
      BY <1>2, <1>3, <2>1, <2>2, <2>3 DEF TypeOK
  <1>6. NodesApart'
    <2>1. PtrAt(heap_offset') = n + NODE_SIZE /\ ~(n < n) /\ n + NODE_SIZE <= n + NODE_SIZE
      BY <1>0, <1>1, <1>2, Constants DEF PtrAt, n
    <2> QED
      BY <1>2, <1>3, <2>1 DEF NodesApart, PtrAt
  <1>7. SnapRoots' = {}
    BY <1>3 DEF SnapRoots
  <1>8. WellLinked'
    BY <1>2, <1>3, <1>4 DEF WellLinked, Listed
  <1>9. UniqueNames' /\ RootsUnlisted' /\ DirsAreDirs'
    BY <1>2, <1>3, <1>4, <1>7 DEF UniqueNames, RootsUnlisted, DirsAreDirs, Listed
  <1>10. CloneOK' /\ Quiet'
    BY <1>3 DEF CloneOK, NoClone, ToSet, OneToOne, Quiet
  <1>11. EncryptedAtRest'
    BY <1>3 DEF EncryptedAtRest, NoText
  <1> QED
    BY <1>5, <1>6, <1>8, <1>9, <1>10, <1>11 DEF InOrder, IInv, Links

\* A block more or less on the heap does not matter.
LEMMA KmallocKeeps ==
    ASSUME Kmalloc \/ TaskAlloc, Arg \in {HEAP_TEST, TASK_SIZE, STACK_SIZE}
    PROVE  (Untouched => Untouched') /\ (InOrder => InOrder')
  <1>1. /\ UNCHANGED <<nodes, name, is_dir, data, parent, kids, fs_root, fs_cwd, snaps, clone, ret, out>>
        /\ \/ heap_offset' = heap_offset
           \/ Fits(heap_offset, Arg) /\ heap_offset' = OffsetAfter(heap_offset, Arg)
    BY DEF Kmalloc, TaskAlloc, tree
  <1>2. Arg \in Nat /\ Arg + KHEAP_SIZE < UINT32
    BY BootAssumption
  <1>3. ASSUME heap_offset \in 0 .. (KHEAP_SIZE - 1)
        PROVE  heap_offset' \in 0 .. (KHEAP_SIZE - 1) /\ heap_offset <= heap_offset'
    <2>1. PICK size : size = Arg
      OBVIOUS
    <2>2. CASE Fits(heap_offset, Arg) /\ heap_offset' = OffsetAfter(heap_offset, Arg)
      <3>1. heap_offset + size < KHEAP_SIZE /\ heap_offset' = heap_offset + size
        BY <1>1, <1>2, <1>3, <2>1, <2>2, NoWrap
      <3> QED
        BY <1>2, <1>3, <2>1, <3>1, Constants
    <2>3. CASE heap_offset' = heap_offset
      BY <1>3, <2>3, Constants
    <2> QED
      BY <1>1, <2>2, <2>3
  <1>4. Untouched => Untouched'
    BY <1>1, <1>3 DEF Untouched
  <1>5. ASSUME InOrder PROVE InOrder'
    <2>1. /\ fs_root' \in SnapRoots \cup {fs_root} /\ fs_cwd' \in nodes /\ is_dir[fs_cwd']
          /\ data' \in [HeapAddr -> Content \cup {NoText}] /\ Results'
          /\ heap_offset \in 0 .. (KHEAP_SIZE - 1)
      BY <1>1, <1>5 DEF InOrder, IInv, TypeOK, Links, DirsAreDirs, Results
    <2>2. IInv'
      BY <1>1, <1>3, <1>5, <2>1, SameTreeInv DEF InOrder
    <2> QED
      BY <1>1, <1>5, <2>2 DEF InOrder, EncryptedAtRest, Quiet
  <1> QED
    BY <1>4, <1>5

\* The calls of the filesystem that boot and its handlers make.
LEMMA CallsKeep ==
    ASSUME InOrder, NEW p \in FsPath,
           \/ fs_mkdir(p) \/ fs_write(p, 1) \/ fs_chdir(p) \/ fs_read(p) \/ fs_touch(p)
    PROVE  InOrder'
  <1>1. IInv'
    <2>1. p \in AnyPath /\ IInv /\ 1 \in TextLen
      BY BootAssumption DEF InOrder, FsPath, AnyPath
    <2>2. CASE fs_touch(p)
      BY <2>1, <2>2, NewEmptyInv, FailInv DEF fs_touch
    <2> QED
      BY <2>1, <2>2, MkdirInv, WriteInv, ChdirInv, ReadInv
  <1>2. EncryptedAtRest'
    BY CreateSealed, ChdirSealed, ReadSealed DEF InOrder, IInv
  <1>3. Quiet'
    BY DEF fs_mkdir, fs_write, fs_chdir, fs_read, fs_touch, Fail, NewEmpty, NewFile, InOrder, Quiet
  <1> QED
    BY <1>1, <1>2, <1>3 DEF InOrder

\* The editor's save.
LEMMA SaveKeeps ==
    ASSUME InOrder, fs_write_cwd("demo", 1)
    PROVE  InOrder'
  <1>1. Next
    BY BootAssumption DEF Next
  <1>2. IInv' /\ EncryptedAtRest'
    BY <1>1, NextIInv, NextSealed DEF InOrder
  <1>3. Quiet'
    BY DEF fs_write_cwd, Fail, NewFile, InOrder, Quiet
  <1> QED
    BY <1>2, <1>3 DEF InOrder

LEMMA FsIdle ==
    ASSUME UNCHANGED fsVars
    PROVE  (Untouched => Untouched') /\ (InOrder => InOrder')
  <1>1. UNCHANGED vars
    BY DEF fsVars
  <1>2. IInv => IInv'
    BY <1>1, NextIInv
  <1>3. InOrder => InOrder'
    BY <1>1, <1>2 DEF InOrder, Quiet, EncryptedAtRest, vars, tree
  <1>4. Untouched => Untouched'
    BY <1>1 DEF Untouched, vars, tree
  <1> QED
    BY <1>3, <1>4

LEMMA StepFs ==
    ASSUME Control, FsOK, BootStep
    PROVE  FsOK'
  <1>1. /\ ~Running
        /\ pc' \in {pc, pc + 1} \/ (pc = BootAt + 2 /\ pc' = TopAt)
        /\ pc \in Nat
    BY Advance, Placed
  <1>2. ASSUME pc # FsAt, Untouched => Untouched', InOrder => InOrder' PROVE FsOK'
    <2>1. pc <= FsAt <=> pc' <= FsAt
      BY <1>1, <1>2, ScriptAt
    <2> QED
      BY <1>2, <2>1 DEF FsOK
  <1>3. ASSUME UNCHANGED fsVars, ~At("fs_init") PROVE FsOK'
    BY <1>1, <1>2, <1>3, FsIdle, Placed
  <1>4. \A op1, op2 : At(op1) /\ At(op2) => op1 = op2
    BY DEF At
  <1>5. CASE \/ InitPart \/ NoteBegin \/ NoteSkip \/ sleep_ticks \/ Sti \/ console_clear
             \/ scheduler_start \/ shell_init \/ PromptBegin \/ PromptChar
    <2>1. UNCHANGED fsVars
      BY <1>5 DEF InitPart, NoteBegin, NoteSkip, sleep_ticks, Sti, console_clear,
         scheduler_start, shell_init, PromptBegin, PromptChar
    <2>2. ~At("fs_init")
      BY <1>4, <1>5 DEF InitPart, NoteBegin, NoteSkip, sleep_ticks, Sti, console_clear,
         scheduler_start, shell_init, PromptBegin, PromptChar
    <2> QED
      BY <1>3, <2>1, <2>2
  <1>6. CASE NoteStep
    <2>1. At("note") /\ UNCHANGED fsVars
      BY <1>6 DEF NoteStep, LogStep, CopyFirst, CopyRest, LoadCount, StoreHead, StoreCount, Control
    <2> QED
      BY <1>3, <1>4, <2>1
  <1>7. CASE Kmalloc \/ TaskAlloc
    <2>1. At("kmalloc") \/ At("alloc")
      BY <1>7 DEF Kmalloc, TaskAlloc
    <2>2. Arg \in {HEAP_TEST, TASK_SIZE, STACK_SIZE} /\ pc # FsAt
      BY <1>1, <1>4, <2>1, Placed
    <2> QED
      BY <1>2, <1>7, <2>2, KmallocKeeps
  <1>8. CASE fs_init
    <2>1. pc = FsAt /\ pc' = pc + 1
      BY <1>1, <1>8, Placed DEF fs_init
    <2>2. Untouched
      BY <2>1, ScriptAt DEF FsOK
    <2>3. ~(pc' <= FsAt)
      BY <2>1, ScriptAt
    <2> QED
      BY <1>8, <2>2, <2>3, FirstNode DEF FsOK
  <1>9. CASE Bootstrap \/ Sentinel
    <2>1. At("mkdir") \/ At("write") \/ At("chdir") \/ At("sentinel")
      BY <1>9 DEF Bootstrap, Sentinel
    <2>2. pc > FsAt
      BY <1>1, <2>1, Placed, ScriptAt
    <2>3. ~At("sentinel") => Arg \in FsPath
      BY <1>1, <2>1, Placed
    <2>4. Rel(<<"sentinel">>) \in FsPath
      BY BootAssumption DEF Rel, FsPath
    <2>5. InOrder
      BY <1>1, <2>2, ScriptAt DEF FsOK
    <2>6. \E p \in FsPath : fs_mkdir(p) \/ fs_write(p, 1) \/ fs_chdir(p) \/ fs_read(p)
      <3>1. CASE Sentinel
        BY <2>4, <3>1 DEF Sentinel
      <3>2. CASE Bootstrap
        <4>1. ~At("sentinel")
          BY <1>4, <3>2 DEF Bootstrap
        <4> QED
          BY <2>3, <3>2, <4>1 DEF Bootstrap
      <3> QED
        BY <1>9, <3>1, <3>2
    <2>7. InOrder'
      BY <2>5, <2>6, CallsKeep
    <2> QED
      BY <1>1, <1>2, <2>2, <2>5, <2>7, ScriptAt DEF FsOK
  <1> QED
    BY <1>5, <1>6, <1>7, <1>8, <1>9 DEF BootStep

LEMMA IrqFs ==
    ASSUME Control, FsOK, Irq
    PROVE  FsOK' /\ InOrder
  <1>1. iflag /\ UNCHANGED pc
    BY DEF Irq, TimerIrq, KeyBackspace, KeyEnter, KeyLeave, KeyEdit, KeyEscape, KeyChar, Key
  <1>2. pc \in Nat /\ pc > FsAt
    BY <1>1, ScriptAt DEF Control
  <1>3. InOrder
    BY <1>2, ScriptAt DEF FsOK
  <1>4. InOrder'
    <2>1. CASE UNCHANGED fsVars
      BY <1>3, <2>1, FsIdle
    <2>2. ASSUME NEW p \in FsPath, fs_mkdir(p) \/ fs_chdir(p) \/ fs_touch(p) PROVE InOrder'
      BY <1>3, <2>2, CallsKeep
    <2>3. /\ Rel(<<"demo">>) \in FsPath
          /\ Abs(<<"home", "root">>) \in FsPath /\ Abs(<<>>) \in FsPath
      <3>1. /\ <<"demo">> \in Seq(Name) /\ <<"home", "root">> \in Seq(Name) /\ <<>> \in Seq(Name)
        BY BootAssumption
      <3> QED
        BY <3>1 DEF Rel, Abs, FsPath
    <2>4. CASE KeyEscape
      BY <1>3, <2>2, <2>3, <2>4, SaveKeeps DEF KeyEscape
    <2> QED
      BY <2>1, <2>2, <2>3, <2>4 DEF Irq, TimerIrq, KeyBackspace, KeyEnter, KeyLeave, KeyEdit,
         KeyChar, Executed
  <1> QED
    BY <1>1, <1>2, <1>3, <1>4, ScriptAt DEF FsOK

-----------------------------------------------------------------------------
(* The prompt *)

\* The buffer holds the path and its terminator.
InBuffer(buf, path) ==
    /\ \A i \in 1 .. Len(path) : buf[i] = path[i]
    /\ buf[Len(path) + 1] = End

\* What was printed of the path.
Begun(p) ==
    /\ p.next \in 1 .. (Len(p.path) + 1)
    /\ p.printed \in Seq(FsName) /\ Len(p.printed) = p.next - 1
    /\ \A i \in 1 .. (p.next - 1) : p.printed[i] = p.path[i]

\* As long as no command has come between, the current directory is still the
\* one that was asked for, and whoever filled the buffer filled it with that.
PromptOK ==
    /\ prompt = [next |-> prompt.next, printed |-> prompt.printed,
                 path |-> prompt.path, moved |-> prompt.moved]
    /\ pc >= Len(Script) /\ ~prompt.moved =>
          /\ prompt.path = fs_getcwd
          /\ InBuffer(cwdbuf, prompt.path)
          /\ Begun(prompt)
          /\ pc > Len(Script) => prompt.next = Len(prompt.path) + 1

LEMMA FilledIs ==
    ASSUME NEW path \in Seq(FsName), Len(path) <= CwdMax
    PROVE  InBuffer(Filled(path), path)
  <1>1. Len(path) \in Nat /\ CwdMax \in Nat
    BY LenProperties, CwdAssumption
  <1> QED
    BY <1>1 DEF Filled, BufIndex, InBuffer

LEMMA StepPrompt ==
    ASSUME Control, FsOK, PromptOK, BootStep
    PROVE  PromptOK'
  <1>1. /\ ~Running /\ pc \in 1 .. Len(Script) /\ pc \in Nat /\ Len(Script) \in Nat
        /\ pc' \in {pc, pc + 1} \/ (pc = BootAt + 2 /\ pc' = TopAt)
    BY Advance, Placed, ScriptAt
  <1>2. \A op1, op2 : At(op1) /\ At(op2) => op1 = op2
    BY DEF At
  <1>3. ASSUME UNCHANGED prompt, ~At("ask"), ~At("print") PROVE PromptOK'
    <2>1. pc # Len(Script) - 1 /\ pc # Len(Script)
      BY <1>1, <1>3, Placed
    <2>2. ~(pc' >= Len(Script))
      BY <1>1, <2>1, ScriptAt
    <2> QED
      BY <1>3, <2>2 DEF PromptOK
  <1>4. CASE PromptBegin
    <2>1. /\ pc = Len(Script) - 1 /\ pc' = pc + 1
          /\ cwdbuf' = Filled(fs_getcwd)
          /\ prompt' = [NoPrompt EXCEPT !.path = fs_getcwd]
          /\ UNCHANGED fsVars
      BY <1>1, <1>4, Placed DEF PromptBegin
    <2>2. fs_getcwd' = fs_getcwd
      BY <2>1, GetcwdSame DEF fsVars, vars, tree
    <2>3. InOrder
      BY <1>1, <2>1, ScriptAt DEF FsOK
    <2>4. PICK path : path = fs_getcwd
      OBVIOUS
    <2>5. path \in Seq(FsName) /\ Len(path) <= CwdMax /\ Len(path) \in Nat
      BY <2>3, <2>4, GetcwdPath, CwdAssumption, LenProperties DEF InOrder, IInv
    <2>6. InBuffer(cwdbuf', path)
      BY <2>1, <2>4, <2>5, FilledIs
    <2>7. prompt' = [next |-> 1, printed |-> <<>>, path |-> path, moved |-> FALSE]
      BY <2>1, <2>4 DEF NoPrompt
    <2>8. Begun(prompt')
      <3>1. /\ prompt'.next = 1 /\ prompt'.printed = <<>> /\ prompt'.path = path
        BY <2>7
      <3>2. <<>> \in Seq(FsName) /\ Len(<<>>) = 0
        OBVIOUS
      <3> QED
        BY <2>5, <3>1, <3>2 DEF Begun
    <2>9. ~(pc' > Len(Script))
      BY <1>1, <2>1
    <2> QED
      BY <2>2, <2>4, <2>6, <2>7, <2>8, <2>9 DEF PromptOK
  <1>5. CASE PromptChar
    <2>1. /\ pc = Len(Script) /\ UNCHANGED <<cwdbuf, fsVars>>
      BY <1>1, <1>5, Placed DEF PromptChar
    <2>2. fs_getcwd' = fs_getcwd
      BY <2>1, GetcwdSame DEF fsVars, vars, tree
    <2>3. CASE cwdbuf[prompt.next] = End
      <3>1. pc' = pc + 1 /\ prompt' = prompt
        BY <1>5, <2>3 DEF PromptChar
      <3>2. ASSUME ~prompt.moved PROVE prompt.next = Len(prompt.path) + 1
        <4>1. /\ prompt.path = fs_getcwd /\ InBuffer(cwdbuf, prompt.path) /\ Begun(prompt)
          BY <1>1, <2>1, <3>2 DEF PromptOK
        <4>2. InOrder
          BY <1>1, <2>1, ScriptAt DEF FsOK
        <4>3. prompt.path \in Seq(FsName) /\ Len(prompt.path) \in Nat
          BY <4>1, <4>2, GetcwdPath, CwdAssumption, LenProperties DEF InOrder, IInv
        <4>4. ASSUME prompt.next \in 1 .. Len(prompt.path) PROVE FALSE
          <5>1. prompt.path[prompt.next] \in FsName
            BY <4>3, <4>4, ElementOfSeq
          <5> QED
            BY <2>3, <4>1, <4>4, <5>1, BootAssumption DEF InBuffer, FsName, End
        <4> QED
          BY <4>1, <4>3, <4>4 DEF Begun
      <3> QED
        BY <1>1, <2>1, <2>2, <3>1, <3>2 DEF PromptOK
    <2>4. CASE cwdbuf[prompt.next] # End
      <3> DEFINE c == cwdbuf[prompt.next]
      <3>1. /\ pc' = pc
            /\ prompt' = [prompt EXCEPT !.next = @ + 1, !.printed = Append(@, c)]
        BY <1>5, <2>4 DEF PromptChar
      <3>2. /\ prompt' = [next |-> prompt.next + 1, printed |-> Append(prompt.printed, c),
                          path |-> prompt.path, moved |-> prompt.moved]
        BY <3>1 DEF PromptOK
      <3>3. /\ prompt'.next = prompt.next + 1 /\ prompt'.printed = Append(prompt.printed, c)
            /\ prompt'.path = prompt.path /\ prompt'.moved = prompt.moved
        BY <3>2
      <3>4. prompt' = [next |-> prompt'.next, printed |-> prompt'.printed,
                       path |-> prompt'.path, moved |-> prompt'.moved]
        BY <3>2, <3>3
      <3>5. ASSUME ~prompt.moved PROVE Begun(prompt')
        <4>1. /\ prompt.path = fs_getcwd /\ InBuffer(cwdbuf, prompt.path) /\ Begun(prompt)
          BY <1>1, <2>1, <3>5 DEF PromptOK
        <4>2. InOrder
          BY <1>1, <2>1, ScriptAt DEF FsOK
        <4>3. prompt.path \in Seq(FsName) /\ Len(prompt.path) \in Nat
          BY <4>1, <4>2, GetcwdPath, CwdAssumption, LenProperties DEF InOrder, IInv
        <4>4. prompt.next \in 1 .. Len(prompt.path)
          BY <2>4, <4>1, <4>3 DEF Begun, InBuffer
        <4>5. c = prompt.path[prompt.next] /\ c \in FsName
          BY <4>1, <4>3, <4>4, ElementOfSeq DEF InBuffer
        <4> DEFINE more == Append(prompt.printed, c)
        <4>6. /\ more \in Seq(FsName) /\ Len(more) = prompt.next
              /\ \A i \in 1 .. (prompt.next - 1) : more[i] = prompt.printed[i]
              /\ more[prompt.next] = c
          <5>1. prompt.printed \in Seq(FsName) /\ Len(prompt.printed) = prompt.next - 1
            BY <4>1 DEF Begun
          <5>2. /\ more \in Seq(FsName) /\ Len(more) = Len(prompt.printed) + 1
                /\ \A i \in 1 .. Len(prompt.printed) : more[i] = prompt.printed[i]
                /\ more[Len(prompt.printed) + 1] = c
            BY <4>5, <5>1, AppendProperties
          <5>3. prompt.next - 1 + 1 = prompt.next
            BY <4>4
          <5> QED
            BY <5>1, <5>2, <5>3
        <4> HIDE DEF more, c
        <4>7. prompt'.printed = more /\ prompt'.next = prompt.next + 1 /\ prompt'.path = prompt.path
          BY <3>3 DEF more
        <4>8. \A i \in 1 .. prompt.next : more[i] = prompt.path[i]
          BY <4>1, <4>4, <4>5, <4>6 DEF Begun
        <4>9. prompt'.next \in 1 .. (Len(prompt.path) + 1) /\ prompt'.next - 1 = prompt.next
          BY <4>3, <4>4, <4>7
        <4> QED
          BY <4>6, <4>7, <4>8, <4>9 DEF Begun
      <3>6. ~(pc' > Len(Script)) /\ pc >= Len(Script)
        BY <1>1, <2>1, <3>1
      <3> HIDE DEF c
      <3> QED
        BY <2>1, <2>2, <3>3, <3>4, <3>5, <3>6 DEF PromptOK
    <2> QED
      BY <2>3, <2>4
  <1>6. CASE NoteStep
    <2>1. At("note") /\ UNCHANGED prompt
      BY <1>6 DEF NoteStep, Same, LogStep, CopyFirst, CopyRest, LoadCount, StoreHead, StoreCount, Control
    <2> QED
      BY <1>2, <1>3, <2>1
  <1>7. CASE \/ InitPart \/ NoteBegin \/ NoteSkip \/ sleep_ticks \/ Sti \/ Kmalloc \/ fs_init
             \/ Bootstrap \/ Sentinel \/ TaskAlloc \/ console_clear \/ scheduler_start
             \/ shell_init
    <2>1. UNCHANGED prompt
      BY <1>7 DEF InitPart, NoteBegin, NoteSkip, sleep_ticks, Sti, Kmalloc, fs_init, Bootstrap,
         Sentinel, TaskAlloc, console_clear, scheduler_start, shell_init, Same, bootVars
    <2>2. ~At("ask") /\ ~At("print")
      BY <1>2, <1>7 DEF InitPart, NoteBegin, NoteSkip, sleep_ticks, Sti, Kmalloc, fs_init,
         Bootstrap, Sentinel, TaskAlloc, console_clear, scheduler_start, shell_init
    <2> QED
      BY <1>3, <2>1, <2>2
  <1> QED
    BY <1>4, <1>5, <1>6, <1>7 DEF BootStep

LEMMA IrqPrompt ==
    ASSUME Control, FsOK, PromptOK, Irq
    PROVE  PromptOK'
  <1>1. InOrder /\ UNCHANGED pc
    BY IrqFs DEF Irq, TimerIrq, KeyBackspace, KeyEnter, KeyLeave, KeyEdit, KeyEscape, KeyChar, Key
  <1>2. fs_getcwd \in Seq(FsName) /\ Len(fs_getcwd) <= CwdMax
    BY <1>1, GetcwdPath, CwdAssumption DEF InOrder, IInv
  <1>3. UNCHANGED fsVars => fs_getcwd' = fs_getcwd
    BY GetcwdSame DEF fsVars, vars, tree
  <1>4. CASE TimerIrq
    <2>1. UNCHANGED <<prompt, fsVars>> /\ cwdbuf' \in {cwdbuf, Filled(fs_getcwd)}
      BY <1>4 DEF TimerIrq
    <2>2. ASSUME prompt.path = fs_getcwd, InBuffer(cwdbuf, prompt.path)
          PROVE  InBuffer(cwdbuf', prompt.path)
      BY <1>2, <2>1, <2>2, FilledIs
    <2> QED
      BY <1>1, <1>3, <2>1, <2>2 DEF PromptOK
  <1>5. CASE UNCHANGED <<prompt, cwdbuf, fsVars>>
    BY <1>1, <1>3, <1>5 DEF PromptOK
  <1>6. CASE prompt' = [prompt EXCEPT !.moved = TRUE]
    <2>1. prompt' = [prompt EXCEPT !.moved = TRUE]
      BY <1>6
    <2>2. prompt' = [next |-> prompt.next, printed |-> prompt.printed,
                     path |-> prompt.path, moved |-> TRUE]
      BY <2>1 DEF PromptOK
    <2> QED
      BY <2>2 DEF PromptOK
  <1>7. CASE KeyEnter
    <2>1. CASE mode' = "shell"
      BY <1>6, <1>7, <2>1 DEF KeyEnter
    <2>2. CASE mode' # "shell"
      <3>1. UNCHANGED <<prompt, cwdbuf>> /\ mode = "shell" /\ Executed
        BY <1>7, <2>2 DEF KeyEnter
      <3>2. UNCHANGED fsVars
        BY <2>2, <3>1 DEF Executed
      <3> QED
        BY <1>5, <3>1, <3>2
    <2> QED
      BY <2>1, <2>2
  <1>8. CASE KeyBackspace \/ KeyLeave \/ KeyEdit \/ \E c \in Command : KeyChar(c)
    BY <1>5, <1>8 DEF KeyBackspace, KeyLeave, KeyEdit, KeyChar
  <1>9. CASE KeyEscape
    BY <1>6, <1>9 DEF KeyEscape
  <1> QED
    BY <1>4, <1>7, <1>8, <1>9 DEF Irq

-----------------------------------------------------------------------------
(* The tree that fs_bootstrap leaves *)

LEMMA LiveFound == IInv => FoundAt(fs_root) /\ fs_root \in HeapAddr
  <1> SUFFICES ASSUME IInv PROVE FoundAt(fs_root) /\ fs_root \in HeapAddr
    OBVIOUS
  <1>1. fs_root \in Roots
    BY DEF Roots
  <1> QED
    BY <1>1, RootsFound DEF IInv, TypeOK

LEMMA LiveFoundNext == IInv' => (FoundAt(fs_root) /\ fs_root \in HeapAddr)'
  BY LiveFound, PTL

\* Nothing that Descents looks at changes: the tree is found as it was.
LEMMA SameDescents ==
    ASSUME IInv, IInv', UNCHANGED <<tree, fs_root>>
    PROVE  /\ Descents(fs_root)' = Descents(fs_root)
           /\ View(fs_root)' = View(fs_root)
  <1>1. FoundAt(fs_root) /\ FoundAt(fs_root)'
    BY LiveFound, LiveFoundNext
  <1>2. UNCHANGED <<name, is_dir, data, kids, fs_root>>
    BY DEF tree
  <1>3. ASSUME NEW k \in Nat
        PROVE  /\ Trails(fs_root, k)' = Trails(fs_root, k)
               /\ \A w : PlaceAt(w, k)' = PlaceAt(w, k)
    BY <1>2 DEF Trails, PlaceAt, Spelled, Listed
  <1>4. Descents(fs_root) \subseteq Descents(fs_root)'
    BY <1>1, <1>3 DEF FoundAt
  <1>5. Descents(fs_root)' \subseteq Descents(fs_root)
    BY <1>1, <1>3 DEF FoundAt
  <1>6. \A x : Entry(x.path, x.node)' = Entry(x.path, x.node)
    BY <1>2 DEF Entry
  <1> QED
    BY <1>4, <1>5, <1>6 DEF View

\* A new node in a directory of the tree is one more place, and no other.
LEMMA GrownByNode ==
    ASSUME IInv, IInv', NEW x \in Descents(fs_root), NEW nm, NEW dir, NEW text,
           Fits(heap_offset, NODE_SIZE), NewNode(x.node, nm, dir, text), UNCHANGED fs_root,
           x.node \in nodes
    PROVE  LET y == [path |-> Append(x.path, nm), node |-> PtrAt(heap_offset)]
           IN  /\ Descents(fs_root)' = Descents(fs_root) \cup {y}
               /\ View(fs_root)' = View(fs_root)
                      \cup {[path |-> y.path, is_dir |-> dir, data |-> text]}
  <1>0. TypeOK /\ Links /\ WellLinked /\ TypeOK' /\ Links' /\ WellLinked' /\ NamedLists'
    BY TypesOfLists, PTL DEF IInv, Links
  <1> PICK d, c : d = x.node /\ c = PtrAt(heap_offset)
    OBVIOUS
  <1> PICK y : y = [path |-> Append(x.path, nm), node |-> c]
    OBVIOUS
  <1>1. FoundAt(fs_root) /\ FoundAt(fs_root)'
    BY LiveFound, LiveFoundNext
  <1>3. /\ c \in HeapAddr /\ c \notin nodes /\ kids[c] = <<>>
        /\ \A z \in HeapAddr : c \notin Listed(z)
    BY FreshNode
  <1>4. d \in HeapAddr /\ d # c /\ kids[d] \in Seq(HeapAddr)
    BY <1>0, <1>3 DEF TypeOK
  <1>5. /\ name' = [name EXCEPT ![c] = nm]
        /\ is_dir' = [is_dir EXCEPT ![c] = dir]
        /\ data' = [data EXCEPT ![c] = text]
        /\ kids' = [kids EXCEPT ![d] = <<c>> \o kids[d]]
    BY DEF NewNode
  <1>6. /\ name'[c] = nm /\ is_dir'[c] = dir /\ data'[c] = text
        /\ \A z \in HeapAddr : z # c => /\ name'[z] = name[z] /\ is_dir'[z] = is_dir[z]
                                        /\ data'[z] = data[z]
    BY <1>0, <1>3, <1>5 DEF TypeOK
  <1>8. Listed(d)' = Listed(d) \cup {c} /\ \A z \in HeapAddr : z # d => Listed(z)' = Listed(z)
    <2>1. ToSet(<<c>> \o kids[d]) = Listed(d) \cup {c}
      BY <1>3, <1>4, HeadInsertion DEF Listed
    <2>2. kids'[d] = <<c>> \o kids[d] /\ \A z \in HeapAddr : z # d => kids'[z] = kids[z]
      BY <1>0, <1>4, <1>5 DEF TypeOK
    <2> QED
      BY <2>1, <2>2 DEF Listed
  <1>9. Listed(c)' = {}
    <2>1. kids'[c] = <<>>
      BY <1>0, <1>3, <1>4, <1>5 DEF TypeOK
    <2> QED
      BY <2>1 DEF Listed, ToSet
  <1>10. fs_root' = fs_root /\ fs_root # c /\ fs_root \in HeapAddr
    BY <1>0, <1>3 DEF TypeOK
  <1>11. \A z \in HeapAddr : \A m \in Listed(z) : m \in HeapAddr /\ m # c
    BY <1>0, <1>3, TypesOfLists
  <1>12. ASSUME NEW k \in Nat, NEW w \in Trails(fs_root, k)
         PROVE  /\ w \in Trails(fs_root, k)' /\ PlaceAt(w, k)' = PlaceAt(w, k)
                /\ w[k] # c /\ w[k] \in HeapAddr
    <2>1. /\ w \in [0 .. k -> HeapAddr] /\ w[0] = fs_root
          /\ \A i \in 1 .. k : w[i - 1] \in HeapAddr /\ w[i] \in Listed(w[i - 1])
      BY DEF Trails
    <2>2. w \in Trails(fs_root, k)'
      BY <1>8, <1>10, <2>1 DEF Trails
    <2>3. \A i \in 1 .. k : name'[w[i]] = name[w[i]] /\ w[i] # c
      BY <1>6, <1>11, <2>1
    <2>4. Spelled(w, k)' = Spelled(w, k)
      BY <2>3 DEF Spelled
    <2>5. w[k] # c /\ w[k] \in HeapAddr
      BY <1>10, <2>1, <2>3
    <2> QED
      BY <2>2, <2>4, <2>5 DEF PlaceAt
  <1>13. ASSUME NEW k \in Nat, NEW w \in Trails(fs_root, k)', NEW l \in 0 .. k,
                \A i \in 0 .. l : w[i] # c
         PROVE  \E v \in Trails(fs_root, l) : v[l] = w[l] /\ \A i \in 0 .. l : v[i] = w[i]
    <2>1. /\ w \in [0 .. k -> HeapAddr] /\ w[0] = fs_root
          /\ \A i \in 1 .. k : w[i - 1] \in HeapAddr /\ w[i] \in Listed(w[i - 1])'
      BY <1>10 DEF Trails
    <2> DEFINE v == [i \in 0 .. l |-> w[i]]
    <2>2. v \in [0 .. l -> HeapAddr] /\ v[0] = fs_root /\ \A i \in 0 .. l : v[i] = w[i]
      BY <2>1
    <2> HIDE DEF v
    <2>3. ASSUME NEW i \in 1 .. l PROVE v[i] \in Listed(v[i - 1])
      <3>1. i \in 1 .. k /\ i \in 0 .. l /\ i - 1 \in 0 .. l
        OBVIOUS
      <3>2. v[i] = w[i] /\ v[i - 1] = w[i - 1] /\ w[i] # c /\ w[i - 1] \in HeapAddr
            /\ w[i] \in Listed(w[i - 1])'
        BY <1>13, <2>1, <2>2, <3>1
      <3> QED
        BY <1>8, <3>2
    <2>4. v \in Trails(fs_root, l)
      BY <2>2, <2>3 DEF Trails
    <2> QED
      BY <2>2, <2>4
  <1>14. ASSUME NEW l \in Nat, NEW v \in Trails(fs_root, l), NEW u,
                \A i \in 0 .. l : u[i] = v[i], u[l + 1] = c, v[l] = d
         PROVE  PlaceAt(v, l) = x /\ PlaceAt(u, l + 1)' = y
    <2>1. v \in [0 .. l -> HeapAddr] /\ \A i \in 1 .. l : v[i] \in HeapAddr /\ v[i] # c
      <3>1. /\ v \in [0 .. l -> HeapAddr]
            /\ \A i \in 1 .. l : v[i - 1] \in HeapAddr /\ v[i] \in Listed(v[i - 1])
        BY DEF Trails
      <3> QED
        BY <1>11, <3>1
    <2>2. PlaceAt(v, l) \in Descents(fs_root) /\ PlaceAt(v, l).node = d
      BY <1>1, <1>14 DEF FoundAt, PlaceAt
    <2>3. PlaceAt(v, l) = x
      <3>1. fs_root \in nodes /\ Unlisted(fs_root)
        BY <1>0, RootsUnlistedAll DEF Roots
      <3> QED
        BY <1>0, <2>2, <3>1, PathsAreNodes
    <2>4. x.path = Spelled(v, l)
      BY <2>3 DEF PlaceAt
    <2>5. /\ Spelled(v, l) \in Seq(FsName) /\ Len(Spelled(v, l)) = l
          /\ \A i \in 1 .. l : Spelled(v, l)[i] = name[v[i]]
      <3>1. l \in 0 .. l /\ NamedLists
        BY <1>0, TypesOfLists
      <3> QED
        BY <2>1, <3>1, SpelledFacts
    <2> DEFINE s == Append(x.path, nm)
               t == [i \in 1 .. (l + 1) |-> name'[u[i]]]
    <2>6. nm \in FsName
      <3>1. name'[c] \in FsName
        BY <1>0, <1>3 DEF NamedLists
      <3> QED
        BY <1>6, <3>1
    <2>7. /\ s \in Seq(FsName) /\ Len(s) = l + 1 /\ s[l + 1] = nm
          /\ \A i \in 1 .. l : s[i] = name[v[i]]
      BY <2>4, <2>5, <2>6, AppendProperties
    <2>8. \A i \in 1 .. (l + 1) : t[i] = s[i]
      <3> SUFFICES ASSUME NEW i \in 1 .. (l + 1) PROVE name'[u[i]] = s[i]
        OBVIOUS
      <3>1. CASE i = l + 1
        BY <1>6, <1>14, <2>7, <3>1
      <3>2. CASE i # l + 1
        <4>1. i \in 1 .. l /\ i \in 0 .. l
          BY <3>2
        <4> QED
          BY <1>6, <1>14, <2>1, <2>7, <4>1
      <3> QED
        BY <3>1, <3>2
    <2>9. t = s
      <3>1. s = [i \in 1 .. Len(s) |-> s[i]]
        BY <2>7
      <3> QED
        BY <2>7, <2>8, <3>1
    <2>10. PlaceAt(u, l + 1)' = [path |-> t, node |-> u[l + 1]]
      BY DEF PlaceAt, Spelled
    <2> QED
      BY <1>14, <2>3, <2>9, <2>10
  <1>15. Descents(fs_root) \subseteq Descents(fs_root)'
    BY <1>1, <1>12 DEF FoundAt
  <1>16. y \in Descents(fs_root)'
    <2>1. PICK k \in Nat : \E w \in Trails(fs_root, k) : x = PlaceAt(w, k)
      BY <1>1 DEF FoundAt
    <2>2. PICK w \in Trails(fs_root, k) : x = PlaceAt(w, k)
      BY <2>1
    <2>3. w[k] = d
      BY <2>2 DEF PlaceAt
    <2> DEFINE u == [i \in 0 .. (k + 1) |-> IF i = k + 1 THEN c ELSE w[i]]
    <2>4. w \in Trails(fs_root, k)'
      BY <1>12
    <2>5. /\ w \in [0 .. k -> HeapAddr] /\ w[0] = fs_root
          /\ \A i \in 1 .. k : w[i] \in Listed(w[i - 1])'
      BY <1>10, <2>4 DEF Trails
    <2>6. /\ u \in [0 .. (k + 1) -> HeapAddr] /\ u[0] = fs_root /\ u[k + 1] = c
          /\ \A i \in 0 .. k : u[i] = w[i]
      BY <1>3, <2>5
    <2> HIDE DEF u
    <2>7. ASSUME NEW i \in 1 .. (k + 1) PROVE u[i] \in Listed(u[i - 1])'
      <3>1. CASE i = k + 1
        <4>1. i - 1 = k /\ k \in 0 .. k
          BY <3>1
        <4> QED
          BY <1>8, <2>3, <2>6, <3>1, <4>1
      <3>2. CASE i # k + 1
        <4>1. i \in 1 .. k /\ i \in 0 .. k /\ i - 1 \in 0 .. k
          BY <3>2
        <4> QED
          BY <2>5, <2>6, <4>1
      <3> QED
        BY <3>1, <3>2
    <2>8. u \in Trails(fs_root, k + 1)' /\ k + 1 \in Nat
      BY <1>10, <2>6, <2>7 DEF Trails
    <2>9. PlaceAt(u, k + 1)' = y
      BY <1>14, <2>3, <2>6
    <2>10. PlaceAt(u, k + 1)' \in Descents(fs_root)'
      BY <1>1, <2>8 DEF FoundAt
    <2> QED
      BY <2>9, <2>10
  <1>17. ASSUME NEW z \in Descents(fs_root)' PROVE z \in Descents(fs_root) \/ z = y
    <2>1. PICK k \in Nat : \E w \in Trails(fs_root, k)' : z = PlaceAt(w, k)'
      BY <1>1 DEF FoundAt
    <2>2. PICK w \in Trails(fs_root, k)' : z = PlaceAt(w, k)'
      BY <2>1
    <2>3. /\ w \in [0 .. k -> HeapAddr] /\ w[0] = fs_root
          /\ \A i \in 1 .. k : w[i - 1] \in HeapAddr /\ w[i] \in Listed(w[i - 1])'
      BY <1>10 DEF Trails
    <2>4. ASSUME NEW i \in 0 .. (k - 1) PROVE w[i] # c
      <3>1. i + 1 \in 1 .. k /\ (i + 1) - 1 = i
        OBVIOUS
      <3>2. w[i + 1] \in Listed(w[i])'
        BY <2>3, <3>1
      <3> QED
        BY <1>9, <3>2
    <2>5. CASE w[k] # c
      <3>1. k \in 0 .. k /\ \A i \in 0 .. k : w[i] # c
        BY <2>4, <2>5
      <3>2. PICK v \in Trails(fs_root, k) : \A i \in 0 .. k : v[i] = w[i]
        BY <1>13, <3>1
      <3>3. PlaceAt(v, k)' = PlaceAt(w, k)'
        BY <3>2 DEF PlaceAt, Spelled
      <3>4. PlaceAt(v, k)' = PlaceAt(v, k) /\ PlaceAt(v, k) \in Descents(fs_root)
        BY <1>1, <1>12 DEF FoundAt
      <3> QED
        BY <2>2, <3>3, <3>4
    <2>6. CASE w[k] = c
      <3>1. PICK l \in Nat : k = l + 1
        <4>1. k # 0
          BY <1>10, <2>3, <2>6
        <4>2. k - 1 \in Nat /\ k = (k - 1) + 1
          BY <4>1
        <4> QED
          BY <4>2
      <3>2. l \in 0 .. k /\ (\A i \in 0 .. l : w[i] # c) /\ k \in 1 .. k /\ k - 1 = l
        BY <2>4, <3>1
      <3>3. PICK v \in Trails(fs_root, l) : v[l] = w[l] /\ \A i \in 0 .. l : v[i] = w[i]
        BY <1>13, <3>2
      <3>4. w[l] = d
        BY <1>3, <1>8, <2>3, <2>6, <3>2
      <3>5. PlaceAt(w, l + 1)' = y
        BY <1>14, <2>6, <3>1, <3>3, <3>4
      <3> QED
        BY <2>2, <3>1, <3>5
    <2> QED
      BY <2>5, <2>6
  <1>18. Descents(fs_root)' = Descents(fs_root) \cup {y}
    BY <1>15, <1>16, <1>17
  <1>19. View(fs_root)' = View(fs_root) \cup {[path |-> y.path, is_dir |-> dir, data |-> text]}
    <2>1. ASSUME NEW z \in Descents(fs_root)
          PROVE  is_dir'[z.node] = is_dir[z.node] /\ data'[z.node] = data[z.node]
      <3>1. PICK k \in Nat : \E w \in Trails(fs_root, k) : z = PlaceAt(w, k)
        BY <1>1 DEF FoundAt
      <3>2. PICK w \in Trails(fs_root, k) : z = PlaceAt(w, k)
        BY <3>1
      <3>3. z.node \in HeapAddr /\ z.node # c
        BY <1>12, <3>2 DEF PlaceAt
      <3> QED
        BY <1>6, <3>3
    <2>2. y.node = c /\ is_dir'[c] = dir /\ data'[c] = text
      BY <1>6
    <2> PICK new : new = [path |-> y.path, is_dir |-> dir, data |-> text]
      OBVIOUS
    <2>3. View(fs_root)' = {Entry(z.path, z.node)' : z \in Descents(fs_root) \cup {y}}
      BY <1>18 DEF View
    <2>4. Entry(y.path, y.node)' = new
      BY <2>2 DEF Entry
    <2>5. {Entry(z.path, z.node)' : z \in Descents(fs_root)} = View(fs_root)
      <3>1. \A z \in Descents(fs_root) : Entry(z.path, z.node)' = Entry(z.path, z.node)
        BY <2>1 DEF Entry
      <3> QED
        BY <3>1 DEF View
    <2> QED
      BY <2>3, <2>4, <2>5
  <1> QED
    BY <1>18, <1>19

\* A root that lists nothing is all there is.
LEMMA OnlyRoot ==
    IInv /\ (\A d \in HeapAddr : kids[d] = <<>>) =>
        /\ Descents(fs_root) = {[path |-> <<>>, node |-> fs_root]}
        /\ View(fs_root) = {Entry(<<>>, fs_root)}
  <1> SUFFICES ASSUME IInv, \A d \in HeapAddr : kids[d] = <<>>
               PROVE  /\ Descents(fs_root) = {[path |-> <<>>, node |-> fs_root]}
                      /\ View(fs_root) = {Entry(<<>>, fs_root)}
    OBVIOUS
  <1>1. FoundAt(fs_root) /\ fs_root \in HeapAddr
    BY LiveFound
  <1>2. \A d \in HeapAddr : Listed(d) = {}
    BY DEF Listed, ToSet
  <1> DEFINE w0 == [i \in 0 .. 0 |-> fs_root]
             top == [path |-> <<>>, node |-> fs_root]
  <1>3. w0 \in Trails(fs_root, 0) /\ PlaceAt(w0, 0) = top
    BY <1>1 DEF Trails, PlaceAt, Spelled
  <1>4. top \in Descents(fs_root)
    BY <1>1, <1>3 DEF FoundAt
  <1> HIDE DEF w0
  <1>5. ASSUME NEW x \in Descents(fs_root) PROVE x = top
    <2>1. PICK k \in Nat : \E w \in Trails(fs_root, k) : x = PlaceAt(w, k)
      BY <1>1 DEF FoundAt
    <2>2. PICK w \in Trails(fs_root, k) : x = PlaceAt(w, k)
      BY <2>1
    <2>3. k = 0
      <3> SUFFICES ASSUME k # 0 PROVE FALSE
        OBVIOUS
      <3>1. k \in 1 .. k
        OBVIOUS
      <3>2. w[k - 1] \in HeapAddr /\ w[k] \in Listed(w[k - 1])
        BY <3>1, TrailFacts
      <3> QED
        BY <1>2, <3>2
    <2>4. w[0] = fs_root
      BY TrailFacts
    <2> QED
      BY <2>2, <2>3, <2>4 DEF PlaceAt, Spelled
  <1>6. Descents(fs_root) = {top}
    BY <1>4, <1>5
  <1> QED
    BY <1>6 DEF View

LEMMA OnlyRootNext ==
    (IInv /\ (\A d \in HeapAddr : kids[d] = <<>>))' =>
        (/\ Descents(fs_root) = {[path |-> <<>>, node |-> fs_root]}
         /\ View(fs_root) = {Entry(<<>>, fs_root)})'
  BY OnlyRoot, PTL

\* The current directory is the one that the path p leads to.
StandsAt(p) == \E x \in Descents(fs_root) : x.path = p /\ x.node = fs_cwd

\* What no path of the tree leads to is not found.
LEMMA NotThere ==
    ASSUME InOrder, NEW p, StandsAt(p), NEW nm \in Name,
           \A e \in View(fs_root) : e.path # Append(p, nm)
    PROVE  /\ Lookup(fs_cwd, nm) = NULL
           /\ Resolve(Rel(<<nm>>)) = NULL
           /\ Vacant(Rel(<<nm>>)) = {[dir |-> fs_cwd, name |-> nm]}
  <1>0. IInv /\ TypeOK /\ Links /\ NamedLists
    BY TypesOfLists DEF InOrder, IInv
  <1>1. fs_cwd \in nodes /\ is_dir[fs_cwd] /\ fs_cwd # NULL /\ fs_cwd \in HeapAddr
    BY <1>0, Constants DEF TypeOK, Links, DirsAreDirs
  <1>2. FoundAt(fs_root)
    BY <1>0, LiveFound
  <1>3. Lookup(fs_cwd, nm) = NULL
    <2> SUFFICES ASSUME NEW m, m = Lookup(fs_cwd, nm), m # NULL PROVE FALSE
      OBVIOUS
    <2>1. m \in Listed(fs_cwd) /\ name[m] = nm /\ m \in HeapAddr
      BY <1>0, <1>1, LookupFacts, TypesOfLists
    <2>2. PICK x \in Descents(fs_root) : x.path = p /\ x.node = fs_cwd
      BY DEF StandsAt
    <2>3. PICK k \in Nat : \E w \in Trails(fs_root, k) : x = PlaceAt(w, k)
      BY <1>2 DEF FoundAt
    <2>4. PICK w \in Trails(fs_root, k) : x = PlaceAt(w, k)
      BY <2>3
    <2>5. w[k] = fs_cwd /\ Spelled(w, k) = p
      BY <2>2, <2>4 DEF PlaceAt
    <2>6. PICK v \in Trails(fs_root, k + 1) : v[k + 1] = m /\ \A i \in 0 .. k : v[i] = w[i]
      BY <2>1, <2>5, TrailExtended
    <2>7. v \in [0 .. (k + 1) -> HeapAddr] /\ k + 1 \in 1 .. (k + 1) /\ (k + 1) - 1 = k
      BY DEF Trails
    <2>8. Spelled(v, k + 1) = Append(Spelled(v, k), nm)
      <3> PICK l : l = k + 1
        OBVIOUS
      <3>1. l \in Nat /\ v \in [0 .. l -> HeapAddr] /\ l \in 1 .. l /\ l - 1 = k
        BY <2>7
      <3>2. Spelled(v, l) = Append(Spelled(v, l - 1), name[v[l]])
        BY <1>0, <3>1, SpelledNext
      <3> QED
        BY <2>1, <2>6, <3>1, <3>2
    <2>9. Spelled(v, k) = p
      BY <2>5, <2>6 DEF Spelled
    <2>10. PICK y \in Descents(fs_root) : y.path = Append(p, nm)
      <3>1. k + 1 \in Nat /\ PlaceAt(v, k + 1).path = Append(p, nm)
        BY <2>8, <2>9 DEF PlaceAt
      <3> QED
        BY <1>2, <3>1 DEF FoundAt
    <2>11. Entry(y.path, y.node) \in View(fs_root) /\ Entry(y.path, y.node).path = y.path
      BY DEF View, Entry
    <2> QED
      BY <2>10, <2>11
  <1> DEFINE q == Rel(<<nm>>)
  <1>4. /\ q.comps # <<>> /\ q.comps = <<nm>> /\ ~q.abs
        /\ Len(q.comps) = 1 /\ Len(q.comps) - 1 = 0 /\ q.comps[1] = nm
    BY DEF Rel
  <1> HIDE DEF q
  <1>5. Walk(q, 0) = fs_cwd
    <2>1. PICK f : f[0] = Start(q) /\ Walk(q, 0) = IF f[0] \in nodes THEN f[0] ELSE NULL
      <3>1. 0 \in Nat
        OBVIOUS
      <3> QED
        BY <3>1, WalkIs
    <2> QED
      BY <1>1, <1>4, <2>1 DEF Start
  <1>6. Resolve(q) = NULL
    BY <1>3, <1>4, <1>5, <1>1 DEF Resolve
  <1>7. Vacant(q) = {[dir |-> fs_cwd, name |-> nm]}
    BY <1>3, <1>4, <1>5, <1>1 DEF Vacant
  <1> QED
    BY <1>3, <1>6, <1>7 DEF q

\* cd with the path of a directory goes there.
LEMMA ChdirGoes ==
    ASSUME InOrder, InOrder', NEW c, Dir(c) \in View(fs_root), fs_chdir(Abs(c))
    PROVE  /\ View(fs_root)' = View(fs_root)
           /\ StandsAt(c)'
           /\ heap_offset' = heap_offset
  <1>0. IInv /\ IInv' /\ TypeOK /\ Links /\ FoundAt(fs_root)
    BY LiveFound DEF InOrder, IInv
  <1>1. PICK x \in Descents(fs_root) : Dir(c) = Entry(x.path, x.node)
    BY DEF View
  <1>2. x.path = c /\ is_dir[x.node]
    BY <1>1 DEF Dir, Entry
  <1>3. PICK k \in Nat : \E w \in Trails(fs_root, k) : x = PlaceAt(w, k)
    BY <1>0 DEF FoundAt
  <1>4. PICK w \in Trails(fs_root, k) : x = PlaceAt(w, k)
    BY <1>3
  <1>5. w[k] = x.node /\ Spelled(w, k) = c /\ w[k] \in HeapAddr
    <2>1. k \in 0 .. k
      OBVIOUS
    <2> QED
      BY <1>2, <1>4, <2>1, TrailFacts DEF PlaceAt
  <1>6. Resolve(Abs(c)) = x.node
    <2>1. k \in 0 .. k /\ Abs(c).abs /\ Abs(c).comps = Spelled(w, k)
      BY <1>5 DEF Abs
    <2> QED
      BY <1>0, <1>5, <2>1, ResolveSpelled
  <1>7. fs_cwd' = x.node /\ UNCHANGED <<heap_offset, tree, fs_root>>
    BY <1>2, <1>5, <1>6, Constants DEF fs_chdir
  <1>8. Descents(fs_root)' = Descents(fs_root) /\ View(fs_root)' = View(fs_root)
    BY <1>0, <1>7, SameDescents
  <1>9. StandsAt(c)'
    BY <1>2, <1>7, <1>8 DEF StandsAt
  <1> QED
    BY <1>7, <1>8, <1>9

\* What mkdir and write make is there, and nothing else changes.
LEMMA MakeMakes ==
    ASSUME InOrder, InOrder', NEW p, StandsAt(p), NEW nm \in Name, NEW dir \in BOOLEAN,
           IF dir THEN fs_mkdir(Rel(<<nm>>)) ELSE fs_write(Rel(<<nm>>), 1),
           \A e \in View(fs_root) : e.path # Append(p, nm),
           NEW size, size = IF dir THEN NODE_SIZE ELSE NODE_SIZE + 2,
           heap_offset + size < KHEAP_SIZE
    PROVE  /\ View(fs_root)' = View(fs_root)
                  \cup {IF dir THEN Dir(Append(p, nm)) ELSE File(Append(p, nm))}
           /\ StandsAt(p)'
           /\ heap_offset' = heap_offset + size
  <1>0. IInv /\ IInv' /\ TypeOK /\ Links
    BY DEF InOrder, IInv
  <1>1. fs_cwd \in nodes /\ heap_offset \in 0 .. (KHEAP_SIZE - 1) /\ heap_offset \in Nat
    BY <1>0, Constants DEF TypeOK
  <1>2. Vacant(Rel(<<nm>>)) = {[dir |-> fs_cwd, name |-> nm]}
    BY NotThere
  <1> DEFINE text == IF dir THEN NoText ELSE Crypt(Plain(1))
             v == [dir |-> fs_cwd, name |-> nm]
             entry == IF dir THEN Dir(Append(p, nm)) ELSE File(Append(p, nm))
  <1>3. v.dir = fs_cwd /\ v.name = nm
    OBVIOUS
  <1>4. /\ Fits(heap_offset, NODE_SIZE)
        /\ OffsetAfter(heap_offset, NODE_SIZE) = heap_offset + NODE_SIZE
    BY <1>1, NoWrap, FsAssumption, Constants
  <1>5. /\ NewNode(fs_cwd, nm, dir, text) /\ UNCHANGED <<fs_root, fs_cwd>>
        /\ heap_offset' = heap_offset + size
    <2>1. CASE dir
      <3>1. ~NoRoom(Rel(<<nm>>))
        BY <1>2, <1>4 DEF NoRoom
      <3>2. NewEmpty(v, TRUE)
        BY <1>2, <2>1, <3>1 DEF fs_mkdir
      <3> QED
        BY <1>3, <1>4, <2>1, <3>2 DEF NewEmpty
    <2>2. CASE ~dir
      <3>1. ~NoRoom(Rel(<<nm>>))
        BY <1>2, <1>4 DEF NoRoom
      <3>2. NewFile(v, Crypt(Plain(1)))
        BY <1>2, <2>2, <3>1 DEF fs_write
      <3>3. Crypt(Plain(1)).len = 1
        BY DEF Crypt, Plain
      <3>4. 1 + 1 + KHEAP_SIZE < UINT32
        BY FsAssumption, BootAssumption
      <3> PICK o : o = heap_offset + NODE_SIZE
        OBVIOUS
      <3>5. o \in 0 .. (KHEAP_SIZE - 1) /\ 2 \in Nat /\ 2 + KHEAP_SIZE < UINT32
            /\ o + 2 < KHEAP_SIZE /\ o + 2 = heap_offset + size
        BY <1>1, <2>2, <3>4, Constants
      <3>6. Fits(o, 2) /\ OffsetAfter(o, 2) = o + 2
        BY <3>5, NoWrap
      <3>7. 1 + 1 = 2
        OBVIOUS
      <3> QED
        BY <1>3, <1>4, <2>2, <3>2, <3>3, <3>5, <3>6, <3>7 DEF NewFile
    <2> QED
      BY <2>1, <2>2
  <1> HIDE DEF v, text
  <1>6. PICK x \in Descents(fs_root) : x.path = p /\ x.node = fs_cwd
    BY DEF StandsAt
  <1> PICK y : y = [path |-> Append(x.path, nm), node |-> PtrAt(heap_offset)]
    OBVIOUS
  <1>7. /\ Descents(fs_root)' = Descents(fs_root) \cup {y}
        /\ View(fs_root)' = View(fs_root)
               \cup {[path |-> y.path, is_dir |-> dir, data |-> text]}
    BY <1>0, <1>1, <1>4, <1>5, <1>6, GrownByNode
  <1>8. [path |-> y.path, is_dir |-> dir, data |-> text] = entry
    BY <1>6 DEF entry, text, Dir, File
  <1>9. StandsAt(p)'
    BY <1>5, <1>6, <1>7 DEF StandsAt
  <1> QED
    BY <1>5, <1>7, <1>8, <1>9

-----------------------------------------------------------------------------
(* fs_bootstrap, call by call *)

MadeDirs  == {3, 4, 5, 6, 8, 11, 12}
MadeFiles == {15, 18, 21, 23}
Makes     == MadeDirs \cup MadeFiles

\* Where the current directory is when the i-th call is made, ...
Where(i) ==
    CASE i \in {8, 9}            -> <<"var">>
      [] i \in {11, 12, 13}      -> <<"home">>
      [] i \in {15, 16}          -> <<"etc">>
      [] i \in {18, 19}          -> <<"home", "root">>
      [] i \in {21, 22}          -> <<"home", "student">>
      [] OTHER                   -> <<>>

\* ... the name of what it makes there, ...
New(i) ==
    CASE i = 3 -> "bin" [] i = 4 -> "home" [] i = 5 -> "etc" [] i = 6 -> "var"
      [] i = 8 -> "log" [] i = 11 -> "root" [] i = 12 -> "student" [] i = 15 -> "motd"
      [] i \in {18, 21} -> "readme" [] OTHER -> "sentinel"

\* ... and what that is.
Made(i) == LET path == Append(Where(i), New(i))
           IN  IF i \in MadeDirs THEN Dir(path) ELSE File(path)

\* What is there before the i-th call.
Built(i) == {Dir(<<>>)} \cup {Made(j) : j \in {k \in Makes : k < i}}

Row(i) ==
    IF i = 2 THEN [op |-> "sentinel", arg |-> NoMsg]
    ELSE IF i \in MadeDirs THEN [op |-> "mkdir", arg |-> Rel(<<New(i)>>)]
    ELSE IF i \in MadeFiles THEN [op |-> "write", arg |-> Rel(<<New(i)>>)]
    ELSE [op |-> "chdir", arg |-> Abs(Where(i + 1))]

LEMMA RowNames ==
    /\ \A i : Where(i) \in Seq(Name)
    /\ \A i : New(i) \in Name
  <1>1. /\ <<>> \in Seq(Name) /\ <<"var">> \in Seq(Name) /\ <<"home">> \in Seq(Name)
        /\ <<"etc">> \in Seq(Name) /\ <<"home", "root">> \in Seq(Name)
        /\ <<"home", "student">> \in Seq(Name)
    BY BootAssumption
  <1>2. ASSUME NEW i PROVE Where(i) \in Seq(Name)
    BY <1>1 DEF Where
  <1>3. ASSUME NEW i PROVE New(i) \in Name
    BY BootAssumption DEF New
  <1> QED
    BY <1>2, <1>3

LEMMA RowCalls == \A i \in Nat : Row(i) \in Calls
  <1> SUFFICES ASSUME NEW i \in Nat PROVE Row(i) \in Calls
    OBVIOUS
  <1>1. Where(i + 1) \in Seq(Name) /\ New(i) \in Name
    BY RowNames
  <1>2. Rel(<<New(i)>>) \in FsPath /\ Abs(Where(i + 1)) \in FsPath
    BY <1>1 DEF Rel, Abs, FsPath
  <1> HIDE DEF Where, New
  <1> QED
    BY <1>2 DEF Row, Calls, FsCalls, Plain3

\* s are the first n calls.
Spells(s, n) ==
    /\ n \in Nat /\ s \in Seq(Calls) /\ Len(s) = n
    /\ \A i \in 1 .. n : s[i] = Row(i)

SpellsOn(n, t, m) == \A s : Spells(s, n) => Spells(s \o t, m)

LEMMA RowFollows ==
    ASSUME NEW n \in Nat, NEW m, m = n + 1, NEW op, NEW arg, Row(m) = [op |-> op, arg |-> arg]
    PROVE  SpellsOn(n, Call(op, arg), m)
  <1> SUFFICES ASSUME NEW s, Spells(s, n) PROVE Spells(s \o Call(op, arg), m)
    BY DEF SpellsOn
  <1>1. /\ s \in Seq(Calls) /\ Len(s) = n /\ m \in Nat
        /\ \A i \in 1 .. n : s[i] = Row(i)
    BY DEF Spells
  <1>2. [op |-> op, arg |-> arg] \in Calls
    BY <1>1, RowCalls
  <1> PICK t : t = Call(op, arg)
    OBVIOUS
  <1>3. t \in Seq(Calls) /\ Len(t) = 1 /\ t[1] = Row(m)
    BY <1>2, OneCall
  <1>4. s \o t \in Seq(Calls) /\ Spliced(s \o t, s, t)
    BY <1>1, <1>3, JoinedAt
  <1>5. /\ Len(s \o t) = m
        /\ \A i \in 1 .. n : (s \o t)[i] = Row(i)
        /\ (s \o t)[m] = Row(m)
    BY <1>1, <1>3, <1>4 DEF Spliced
  <1>6. \A i \in 1 .. m : (s \o t)[i] = Row(i)
    BY <1>5
  <1> QED
    BY <1>1, <1>4, <1>5, <1>6 DEF Spells

LEMMA BootstrapIs == Len(fs_bootstrap) = 24 /\ \A i \in 1 .. 24 : fs_bootstrap[i] = Row(i)
  <1>1. ASSUME NEW c, NEW n \in Nat, NEW m, m = n + 1, Row(m) = [op |-> "chdir", arg |-> Abs(c)]
        PROVE  SpellsOn(n, Cd(c), m)
    BY <1>1, RowFollows DEF Cd
  <1>2. ASSUME NEW nm, NEW n \in Nat, NEW m, m = n + 1, Row(m) = [op |-> "mkdir", arg |-> Rel(<<nm>>)]
        PROVE  SpellsOn(n, Mkdir(nm), m)
    BY <1>2, RowFollows DEF Mkdir
  <1>3. ASSUME NEW nm, NEW n \in Nat, NEW m, m = n + 1, Row(m) = [op |-> "write", arg |-> Rel(<<nm>>)]
        PROVE  SpellsOn(n, Write(nm), m)
    BY <1>3, RowFollows DEF Write
  <1>4. Spells(Cd(<<>>), 1)
    <2>0. Where(1 + 1) = <<>>
      BY DEF Where
    <2>1. Row(1) = [op |-> "chdir", arg |-> Abs(<<>>)] /\ Row(1) \in Calls
      <3>1. Row(1) = [op |-> "chdir", arg |-> Abs(Where(1 + 1))]
        BY DEF Row, MadeDirs, MadeFiles
      <3> QED
        BY <2>0, <3>1, RowCalls
    <2>2. /\ Cd(<<>>) \in Seq(Calls) /\ Len(Cd(<<>>)) = 1 /\ Cd(<<>>)[1] = Row(1)
      BY <2>1, OneCall DEF Cd
    <2> HIDE DEF Cd
    <2> QED
      BY <2>2 DEF Spells
  <1>5. SpellsOn(1, Do("sentinel"), 2)
    <2>1. Row(2) = [op |-> "sentinel", arg |-> NoMsg]
      BY DEF Row
    <2> QED
      BY <2>1, RowFollows DEF Do
  <1>6. /\ SpellsOn(2, Mkdir("bin"), 3) /\ SpellsOn(3, Mkdir("home"), 4)
        /\ SpellsOn(4, Mkdir("etc"), 5) /\ SpellsOn(5, Mkdir("var"), 6)
        /\ SpellsOn(7, Mkdir("log"), 8) /\ SpellsOn(10, Mkdir("root"), 11)
        /\ SpellsOn(11, Mkdir("student"), 12)
    <2>1. \A i \in MadeDirs : Row(i) = [op |-> "mkdir", arg |-> Rel(<<New(i)>>)]
      BY DEF Row, MadeDirs, MadeFiles
    <2>2. /\ New(3) = "bin" /\ New(4) = "home" /\ New(5) = "etc" /\ New(6) = "var"
          /\ New(8) = "log" /\ New(11) = "root" /\ New(12) = "student"
      BY DEF New
    <2> QED
      BY <1>2, <2>1, <2>2 DEF MadeDirs
  <1>7. /\ SpellsOn(14, Write("motd"), 15) /\ SpellsOn(17, Write("readme"), 18)
        /\ SpellsOn(20, Write("readme"), 21) /\ SpellsOn(22, Write("sentinel"), 23)
    <2>1. \A i \in MadeFiles : Row(i) = [op |-> "write", arg |-> Rel(<<New(i)>>)]
      BY DEF Row, MadeDirs, MadeFiles
    <2>2. New(15) = "motd" /\ New(18) = "readme" /\ New(21) = "readme" /\ New(23) = "sentinel"
      BY DEF New
    <2> QED
      BY <1>3, <2>1, <2>2 DEF MadeFiles
  <1>8. /\ SpellsOn(6, Cd(<<"var">>), 7) /\ SpellsOn(8, Cd(<<>>), 9)
        /\ SpellsOn(9, Cd(<<"home">>), 10) /\ SpellsOn(12, Cd(<<>>), 13)
        /\ SpellsOn(13, Cd(<<"etc">>), 14) /\ SpellsOn(15, Cd(<<>>), 16)
        /\ SpellsOn(16, Cd(<<"home", "root">>), 17) /\ SpellsOn(18, Cd(<<>>), 19)
        /\ SpellsOn(19, Cd(<<"home", "student">>), 20) /\ SpellsOn(21, Cd(<<>>), 22)
        /\ SpellsOn(23, Cd(<<>>), 24)
    <2>1. \A i \in {7, 9, 10, 13, 14, 16, 17, 19, 20, 22, 24} :
             Row(i) = [op |-> "chdir", arg |-> Abs(Where(i + 1))]
      BY DEF Row, MadeDirs, MadeFiles
    <2>2. /\ Where(8) = <<"var">> /\ Where(10) = <<>> /\ Where(11) = <<"home">>
          /\ Where(14) = <<>> /\ Where(15) = <<"etc">> /\ Where(17) = <<>>
          /\ Where(18) = <<"home", "root">> /\ Where(20) = <<>>
          /\ Where(21) = <<"home", "student">> /\ Where(23) = <<>> /\ Where(25) = <<>>
      BY DEF Where
    <2>3. /\ Row(7) = [op |-> "chdir", arg |-> Abs(<<"var">>)]
          /\ Row(9) = [op |-> "chdir", arg |-> Abs(<<>>)]
          /\ Row(10) = [op |-> "chdir", arg |-> Abs(<<"home">>)]
          /\ Row(13) = [op |-> "chdir", arg |-> Abs(<<>>)]
          /\ Row(14) = [op |-> "chdir", arg |-> Abs(<<"etc">>)]
          /\ Row(16) = [op |-> "chdir", arg |-> Abs(<<>>)]
          /\ Row(17) = [op |-> "chdir", arg |-> Abs(<<"home", "root">>)]
          /\ Row(19) = [op |-> "chdir", arg |-> Abs(<<>>)]
          /\ Row(20) = [op |-> "chdir", arg |-> Abs(<<"home", "student">>)]
          /\ Row(22) = [op |-> "chdir", arg |-> Abs(<<>>)]
          /\ Row(24) = [op |-> "chdir", arg |-> Abs(<<>>)]
      BY <2>1, <2>2
    <2> QED
      BY <1>1, <2>3
  <1>9. Spells(fs_bootstrap, 24)
    <2> HIDE DEF Cd, Do, Mkdir, Write, Spells, Row
    <2> QED
      BY <1>4, <1>5, <1>6, <1>7, <1>8 DEF fs_bootstrap, SpellsOn
  <1> QED
    BY <1>9 DEF Spells

LEMMA AppendDiffers ==
    ASSUME NEW S, NEW s \in Seq(S), NEW t \in Seq(S), NEW a \in S, NEW b \in S,
           Append(s, a) = Append(t, b)
    PROVE  s = t /\ a = b
  <1>1. /\ Len(Append(s, a)) = Len(s) + 1 /\ Len(Append(t, b)) = Len(t) + 1
        /\ Len(s) \in Nat /\ Len(t) \in Nat
    BY AppendProperties, LenProperties
  <1>2. Len(s) = Len(t)
    BY <1>1
  <1>3. /\ \A i \in 1 .. Len(s) : Append(s, a)[i] = s[i]
        /\ \A i \in 1 .. Len(t) : Append(t, b)[i] = t[i]
        /\ Append(s, a)[Len(s) + 1] = a /\ Append(t, b)[Len(t) + 1] = b
    BY AppendProperties
  <1>4. \A i \in 1 .. Len(s) : s[i] = t[i]
    BY <1>2, <1>3
  <1> QED
    BY <1>2, <1>3, <1>4, SeqEqual

LEMMA Spelling ==
    ASSUME NEW a, NEW b, NEW c
    PROVE  /\ Append(<<>>, a) = <<a>>
           /\ Append(<<a>>, b) = <<a, b>>
           /\ Append(<<a, b>>, c) = <<a, b, c>>
  <1>1. Append(<<>>, a) = <<a>>
    OBVIOUS
  <1>2. Append(<<a>>, b) = <<a, b>>
    <2>1. <<a>> \in Seq({a, b}) /\ Len(<<a>>) = 1 /\ <<a>>[1] = a
      OBVIOUS
    <2>2. <<a, b>> \in Seq({a, b}) /\ Len(<<a, b>>) = 2 /\ <<a, b>>[1] = a /\ <<a, b>>[2] = b
      OBVIOUS
    <2>3. /\ Append(<<a>>, b) \in Seq({a, b}) /\ Len(Append(<<a>>, b)) = 2
          /\ Append(<<a>>, b)[1] = a /\ Append(<<a>>, b)[2] = b
      BY <2>1, AppendProperties
    <2>4. \A i \in 1 .. 2 : Append(<<a>>, b)[i] = <<a, b>>[i]
      BY <2>2, <2>3
    <2> QED
      BY <2>2, <2>3, <2>4, SeqEqual
  <1>3. Append(<<a, b>>, c) = <<a, b, c>>
    <2>1. /\ <<a, b>> \in Seq({a, b, c}) /\ Len(<<a, b>>) = 2
          /\ <<a, b>>[1] = a /\ <<a, b>>[2] = b
      OBVIOUS
    <2>2. /\ <<a, b, c>> \in Seq({a, b, c}) /\ Len(<<a, b, c>>) = 3
          /\ <<a, b, c>>[1] = a /\ <<a, b, c>>[2] = b /\ <<a, b, c>>[3] = c
      OBVIOUS
    <2>3. /\ Append(<<a, b>>, c) \in Seq({a, b, c}) /\ Len(Append(<<a, b>>, c)) = 3
          /\ Append(<<a, b>>, c)[1] = a /\ Append(<<a, b>>, c)[2] = b
          /\ Append(<<a, b>>, c)[3] = c
      BY <2>1, AppendProperties
    <2>4. \A i \in 1 .. 3 : Append(<<a, b>>, c)[i] = <<a, b, c>>[i]
      BY <2>2, <2>3
    <2> QED
      BY <2>2, <2>3, <2>4, SeqEqual
  <1> QED
    BY <1>1, <1>2, <1>3

\* No two of the calls make the same thing, and none makes the root.
LEMMA MadeApart ==
    ASSUME NEW i \in Makes, NEW e \in Built(i)
    PROVE  e.path # Append(Where(i), New(i))
  <1>0. Where(i) \in Seq(Name) /\ New(i) \in Name
    BY RowNames
  <1>1. CASE e = Dir(<<>>)
    <2>1. e.path = <<>>
      BY <1>1 DEF Dir
    <2>2. Append(Where(i), New(i)) # <<>>
      BY <1>0, AppendProperties
    <2> QED
      BY <2>1, <2>2
  <1>2. ASSUME NEW j \in Makes, j < i, e = Made(j)
        PROVE  e.path # Append(Where(i), New(i))
    <2>0. Where(j) \in Seq(Name) /\ New(j) \in Name
      BY RowNames
    <2>1. e.path = Append(Where(j), New(j))
      BY <1>2 DEF Made, Dir, File
    <2>2. New(j) = New(i) => j = 18 /\ i = 21
      BY <1>2 DEF New, Makes, MadeDirs, MadeFiles
    <2>3. Where(18) # Where(21)
      <3>1. Where(18) = <<"home", "root">> /\ Where(21) = <<"home", "student">>
        BY DEF Where
      <3> QED
        BY <3>1
    <2> QED
      BY <1>0, <2>0, <2>1, <2>2, <2>3, AppendDiffers
  <1> QED
    BY <1>1, <1>2 DEF Built

\* Where cd goes has been made.
LEMMA BuiltTargets ==
    ASSUME NEW i \in 1 .. 24, i # 2, i \notin Makes
    PROVE  Dir(Where(i + 1)) \in Built(i)
  <1>1. i \in {1, 7, 9, 10, 13, 14, 16, 17, 19, 20, 22, 24}
    BY DEF Makes, MadeDirs, MadeFiles
  <1>2. CASE i \in {1, 9, 13, 16, 19, 22, 24}
    <2>1. Where(i + 1) = <<>>
      BY <1>2 DEF Where
    <2> QED
      BY <2>1 DEF Built
  <1>3. ASSUME NEW j \in MadeDirs, j < i, Where(i + 1) = Append(Where(j), New(j))
        PROVE  Dir(Where(i + 1)) \in Built(i)
    <2>1. Made(j) = Dir(Where(i + 1))
      BY <1>3 DEF Made
    <2>2. Made(j) \in Built(i)
      BY <1>3 DEF Built, Makes
    <2> QED
      BY <2>1, <2>2
  <1>4. CASE i = 7
    <2>1. Where(i + 1) = <<"var">> /\ Where(6) = <<>> /\ New(6) = "var"
      BY <1>4 DEF Where, New
    <2>2. 6 \in MadeDirs /\ 6 < i
      BY <1>4 DEF MadeDirs
    <2>3. Where(i + 1) = Append(<<>>, "var")
      BY <2>1, Spelling
    <2>4. Where(i + 1) = Append(Where(6), New(6))
      BY <2>1, <2>3
    <2> QED
      BY <1>3, <2>2, <2>4
  <1>5. CASE i = 10
    <2>1. Where(i + 1) = <<"home">> /\ Where(4) = <<>> /\ New(4) = "home"
      BY <1>5 DEF Where, New
    <2>2. 4 \in MadeDirs /\ 4 < i
      BY <1>5 DEF MadeDirs
    <2>3. Where(i + 1) = Append(<<>>, "home")
      BY <2>1, Spelling
    <2>4. Where(i + 1) = Append(Where(4), New(4))
      BY <2>1, <2>3
    <2> QED
      BY <1>3, <2>2, <2>4
  <1>6. CASE i = 14
    <2>1. Where(i + 1) = <<"etc">> /\ Where(5) = <<>> /\ New(5) = "etc"
      BY <1>6 DEF Where, New
    <2>2. 5 \in MadeDirs /\ 5 < i
      BY <1>6 DEF MadeDirs
    <2>3. Where(i + 1) = Append(<<>>, "etc")
      BY <2>1, Spelling
    <2>4. Where(i + 1) = Append(Where(5), New(5))
      BY <2>1, <2>3
    <2> QED
      BY <1>3, <2>2, <2>4
  <1>7. CASE i = 17
    <2>1. Where(i + 1) = <<"home", "root">> /\ Where(11) = <<"home">> /\ New(11) = "root"
      BY <1>7 DEF Where, New
    <2>2. 11 \in MadeDirs /\ 11 < i
      BY <1>7 DEF MadeDirs
    <2>3. Where(i + 1) = Append(<<"home">>, "root")
      BY <2>1, Spelling
    <2>4. Where(i + 1) = Append(Where(11), New(11))
      BY <2>1, <2>3
    <2> QED
      BY <1>3, <2>2, <2>4
  <1>8. CASE i = 20
    <2>1. Where(i + 1) = <<"home", "student">> /\ Where(12) = <<"home">> /\ New(12) = "student"
      BY <1>8 DEF Where, New
    <2>2. 12 \in MadeDirs /\ 12 < i
      BY <1>8 DEF MadeDirs
    <2>3. Where(i + 1) = Append(<<"home">>, "student")
      BY <2>1, Spelling
    <2>4. Where(i + 1) = Append(Where(12), New(12))
      BY <2>1, <2>3
    <2> QED
      BY <1>3, <2>2, <2>4
  <1> QED
    BY <1>1, <1>2, <1>4, <1>5, <1>6, <1>7, <1>8

LEMMA BuiltNext ==
    ASSUME NEW i \in 1 .. 24
    PROVE  /\ Built(i + 1) = IF i \in Makes THEN Built(i) \cup {Made(i)} ELSE Built(i)
           /\ i \in Makes \cup {2} => Where(i + 1) = Where(i)
  <1>1. \A k : k \in Makes => k \in Nat
    BY DEF Makes, MadeDirs, MadeFiles
  <1>2. \A k \in Makes : k < i + 1 <=> k < i \/ k = i
    BY <1>1
  <1> HIDE DEF Made, Makes
  <1>3. Built(i + 1) = IF i \in Makes THEN Built(i) \cup {Made(i)} ELSE Built(i)
    BY <1>2 DEF Built
  <1>4. i \in Makes \cup {2} => Where(i + 1) = Where(i)
    <2> SUFFICES ASSUME i \in Makes \cup {2} PROVE Where(i + 1) = Where(i)
      OBVIOUS
    <2>1. i \in {2, 3, 4, 5, 6, 23} \/ i = 8 \/ i \in {11, 12} \/ i = 15 \/ i = 18 \/ i = 21
      BY DEF Makes, MadeDirs, MadeFiles
    <2>2. CASE i \in {2, 3, 4, 5, 6, 23}
      <3>1. Where(i) = <<>>
        BY <2>2 DEF Where
      <3>2. Where(i + 1) = <<>>
        BY <2>2 DEF Where
      <3> QED
        BY <3>1, <3>2
    <2>3. CASE i = 8
      BY <2>3 DEF Where
    <2>4. CASE i \in {11, 12}
      <3>1. Where(i) = <<"home">>
        BY <2>4 DEF Where
      <3>2. Where(i + 1) = <<"home">>
        BY <2>4 DEF Where
      <3> QED
        BY <3>1, <3>2
    <2>5. CASE i = 15
      BY <2>5 DEF Where
    <2>6. CASE i = 18
      BY <2>6 DEF Where
    <2>7. CASE i = 21
      BY <2>7 DEF Where
    <2> QED
      BY <2>1, <2>2, <2>3, <2>4, <2>5, <2>6, <2>7
  <1> QED
    BY <1>3, <1>4

\* Nothing but the layout is there in the end.
LEMMA BuiltAll == Built(25) = Layout
  <1>1. /\ Where(3) = <<>> /\ Where(4) = <<>> /\ Where(5) = <<>> /\ Where(6) = <<>>
        /\ Where(8) = <<"var">> /\ Where(11) = <<"home">> /\ Where(12) = <<"home">>
        /\ Where(15) = <<"etc">> /\ Where(18) = <<"home", "root">>
        /\ Where(21) = <<"home", "student">> /\ Where(23) = <<>>
    BY DEF Where
  <1>2. /\ New(3) = "bin" /\ New(4) = "home" /\ New(5) = "etc" /\ New(6) = "var"
        /\ New(8) = "log" /\ New(11) = "root" /\ New(12) = "student" /\ New(15) = "motd"
        /\ New(18) = "readme" /\ New(21) = "readme" /\ New(23) = "sentinel"
    BY DEF New
  <1>3. /\ Append(<<>>, "bin") = <<"bin">> /\ Append(<<>>, "home") = <<"home">>
        /\ Append(<<>>, "etc") = <<"etc">> /\ Append(<<>>, "var") = <<"var">>
        /\ Append(<<"var">>, "log") = <<"var", "log">>
        /\ Append(<<"home">>, "root") = <<"home", "root">>
        /\ Append(<<"home">>, "student") = <<"home", "student">>
        /\ Append(<<"etc">>, "motd") = <<"etc", "motd">>
        /\ Append(<<"home", "root">>, "readme") = <<"home", "root", "readme">>
        /\ Append(<<"home", "student">>, "readme") = <<"home", "student", "readme">>
        /\ Append(<<>>, "sentinel") = <<"sentinel">>
    BY Spelling
  <1>4. /\ Made(3) = Dir(<<"bin">>) /\ Made(4) = Dir(<<"home">>)
        /\ Made(5) = Dir(<<"etc">>) /\ Made(6) = Dir(<<"var">>)
        /\ Made(8) = Dir(<<"var", "log">>) /\ Made(11) = Dir(<<"home", "root">>)
        /\ Made(12) = Dir(<<"home", "student">>)
    <2>1. \A i \in MadeDirs : Made(i) = Dir(Append(Where(i), New(i)))
      BY DEF Made
    <2> QED
      BY <1>1, <1>2, <1>3, <2>1 DEF MadeDirs
  <1>5. /\ Made(15) = File(<<"etc", "motd">>)
        /\ Made(18) = File(<<"home", "root", "readme">>)
        /\ Made(21) = File(<<"home", "student", "readme">>) /\ Made(23) = File(<<"sentinel">>)
    <2>1. \A i \in MadeFiles : Made(i) = File(Append(Where(i), New(i)))
      BY DEF Made, MadeDirs, MadeFiles
    <2> QED
      BY <1>1, <1>2, <1>3, <2>1 DEF MadeFiles
  <1>6. Built(25) = {Dir(<<>>)} \cup {Made(j) : j \in Makes}
    BY DEF Built, Makes, MadeDirs, MadeFiles
  <1>7. Makes = {3, 4, 5, 6, 8, 11, 12, 15, 18, 21, 23}
    BY DEF Makes, MadeDirs, MadeFiles
  <1> HIDE DEF Made, Makes, Dir, File
  <1>8. {Made(j) : j \in Makes} =
           {Made(3), Made(4), Made(5), Made(6), Made(8), Made(11), Made(12), Made(15),
            Made(18), Made(21), Made(23)}
    BY <1>7
  <1> QED
    BY <1>4, <1>5, <1>6, <1>8 DEF Layout

\* What the calls take from the heap, and what is taken before the i-th.
Cost(i) == IF i \in MadeDirs THEN NODE_SIZE ELSE IF i \in MadeFiles THEN NODE_SIZE + 2 ELSE 0

Used(i) ==
    HEAP_TEST + (IF i <= 3 THEN NODE_SIZE ELSE IF i <= 4 THEN 2 * NODE_SIZE
                 ELSE IF i <= 5 THEN 3 * NODE_SIZE ELSE IF i <= 6 THEN 4 * NODE_SIZE
                 ELSE IF i <= 8 THEN 5 * NODE_SIZE ELSE IF i <= 11 THEN 6 * NODE_SIZE
                 ELSE IF i <= 12 THEN 7 * NODE_SIZE ELSE IF i <= 15 THEN 8 * NODE_SIZE
                 ELSE IF i <= 18 THEN 9 * NODE_SIZE + 2 ELSE IF i <= 21 THEN 10 * NODE_SIZE + 4
                 ELSE IF i <= 23 THEN 11 * NODE_SIZE + 6 ELSE 12 * NODE_SIZE + 8)

\* The heap holds what is made before interrupts come on.
Room == HEAP_TEST + 12 * NODE_SIZE + 8 < KHEAP_SIZE

LEMMA UsedNext ==
    ASSUME Room, NEW i \in 1 .. 24
    PROVE  /\ Used(i) \in Nat /\ Used(i + 1) \in Nat
           /\ Used(i + 1) = Used(i) + Cost(i) /\ Used(i) <= Used(i + 1)
           /\ Used(i + 1) < KHEAP_SIZE
  <1>1. NODE_SIZE \in Nat /\ HEAP_TEST \in Nat /\ KHEAP_SIZE \in Nat
    BY BootAssumption, FsAssumption, Constants
  <1>2. Used(i) \in Nat /\ Cost(i) \in Nat /\ Used(i + 1) = Used(i) + Cost(i)
    BY <1>1 DEF Used, Cost, MadeDirs, MadeFiles
  <1>3. Used(i + 1) < KHEAP_SIZE
    BY <1>1 DEF Used, Room
  <1> QED
    BY <1>2, <1>3

\* s has one block of the heap at most, that of kernel_main.
OnceAt(s, m) == \A i \in 1 .. Len(s) : s[i].op = "kmalloc" => i = m /\ s[i].arg = HEAP_TEST
Once(s) == s \in Seq(EarlyStep) /\ \E m : OnceAt(s, m)

LEMMA OnceLate == ASSUME NEW s \in Seq(LateStep) PROVE Once(s)
  <1>1. s \in Seq(EarlyStep)
    BY DEF LateStep, EarlyStep
  <1>2. \A i \in 1 .. Len(s) : s[i].op # "kmalloc"
    BY ElementOfSeq DEF LateStep, Inits, Notes, Sleeps
  <1>3. OnceAt(s, 0)
    BY <1>2 DEF OnceAt
  <1> QED
    BY <1>1, <1>3 DEF Once

LEMMA OnceOn == ASSUME NEW s, Once(s), NEW t \in Seq(LateStep) PROVE Once(s \o t)
  <1>1. s \in Seq(EarlyStep) /\ t \in Seq(EarlyStep) /\ Len(s) \in Nat /\ Len(t) \in Nat
    BY LenProperties DEF Once, LateStep, EarlyStep
  <1>2. s \o t \in Seq(EarlyStep) /\ Spliced(s \o t, s, t)
    BY <1>1, JoinedAt
  <1>3. PICK m : OnceAt(s, m)
    BY DEF Once
  <1>4. ASSUME NEW i \in 1 .. Len(s \o t), (s \o t)[i].op = "kmalloc"
        PROVE  i = m /\ (s \o t)[i].arg = HEAP_TEST
    <2>1. CASE i <= Len(s)
      <3>1. i \in 1 .. Len(s) /\ (s \o t)[i] = s[i]
        BY <1>1, <1>2, <2>1 DEF Spliced
      <3> QED
        BY <1>3, <1>4, <3>1 DEF OnceAt
    <2>2. CASE i > Len(s)
      <3>1. i - Len(s) \in 1 .. Len(t) /\ i = Len(s) + (i - Len(s))
        BY <1>1, <1>2, <2>2 DEF Spliced
      <3>2. (s \o t)[i] = t[i - Len(s)] /\ t[i - Len(s)] \in LateStep
        BY <1>2, <3>1, ElementOfSeq DEF Spliced
      <3> QED
        BY <1>4, <3>2 DEF LateStep, Inits, Notes, Sleeps
    <2> QED
      BY <1>1, <2>1, <2>2
  <1>5. OnceAt(s \o t, m)
    BY <1>4 DEF OnceAt
  <1> QED
    BY <1>2, <1>5 DEF Once

LEMMA OnceBlock ==
    ASSUME NEW s \in Seq(LateStep) PROVE Once(s \o Call("kmalloc", HEAP_TEST))
  <1> PICK t : t = Call("kmalloc", HEAP_TEST)
    OBVIOUS
  <1>1. /\ s \in Seq(EarlyStep) /\ Len(s) \in Nat
        /\ t \in Seq(EarlyStep) /\ Len(t) = 1 /\ t[1] = [op |-> "kmalloc", arg |-> HEAP_TEST]
    <2>1. [op |-> "kmalloc", arg |-> HEAP_TEST] \in EarlyStep
      BY DEF EarlyStep, Blocks
    <2>2. t \in Seq(EarlyStep) /\ Len(t) = 1 /\ t[1] = [op |-> "kmalloc", arg |-> HEAP_TEST]
      BY <2>1, OneCall
    <2>3. s \in Seq(EarlyStep)
      BY DEF LateStep, EarlyStep
    <2> QED
      BY <2>2, <2>3, LenProperties
  <1>2. s \o t \in Seq(EarlyStep) /\ Spliced(s \o t, s, t)
    BY <1>1, JoinedAt
  <1>3. \A i \in 1 .. Len(s) : s[i].op # "kmalloc"
    BY ElementOfSeq DEF LateStep, Inits, Notes, Sleeps
  <1>4. \A i \in 1 .. Len(s \o t) :
           (s \o t)[i].op = "kmalloc" => i = Len(s) + 1 /\ (s \o t)[i].arg = HEAP_TEST
    <2> SUFFICES ASSUME NEW i \in 1 .. Len(s \o t), (s \o t)[i].op = "kmalloc"
                 PROVE  i = Len(s) + 1 /\ (s \o t)[i].arg = HEAP_TEST
      OBVIOUS
    <2>1. Len(s \o t) = Len(s) + 1 /\ (s \o t)[Len(s) + 1] = t[1]
      BY <1>1, <1>2 DEF Spliced
    <2>2. i \in 1 .. Len(s) => (s \o t)[i] = s[i]
      BY <1>2 DEF Spliced
    <2>3. i = Len(s) + 1
      BY <1>1, <1>3, <2>1, <2>2
    <2> QED
      BY <1>1, <2>1, <2>3
  <1>5. OnceAt(s \o t, Len(s) + 1)
    BY <1>4 DEF OnceAt
  <1> QED
    BY <1>2, <1>5 DEF Once

LEMMA EarlyOnce == Once(Early)
  <1>1. /\ Call("init", "log") \in Seq(LateStep) /\ Call("init", "gdt") \in Seq(LateStep)
        /\ Call("note", "boot") \in Seq(LateStep) /\ Call("init", "disk") \in Seq(LateStep)
        /\ Do("sleep") \in Seq(LateStep)
        /\ Stage("idt") \in Seq(LateStep) /\ Stage("paging") \in Seq(LateStep)
        /\ Stage("phys") \in Seq(LateStep) /\ Stage("heap") \in Seq(LateStep)
        /\ Stage("sec") \in Seq(LateStep) /\ Stage("key") \in Seq(LateStep)
    BY ScriptWords, BootAssumption DEF Part
  <1>2. \A s, t \in Seq(LateStep) : s \o t \in Seq(LateStep)
    BY Joined
  <1>3. \A s : \A t \in Seq(LateStep) : Once(s) => Once(s \o t)
    BY OnceOn
  <1> HIDE DEF Call, Do, Stage, Once
  <1> DEFINE head == Call("init", "log") \o Call("note", "boot")
                     \o Call("init", "gdt") \o Call("note", "boot") \o Do("sleep") \o Stage("idt")
                     \o Stage("paging") \o Stage("phys") \o Stage("heap")
  <1>4. head \in Seq(LateStep)
    BY <1>1, <1>2
  <1>5. Early = head \o Call("kmalloc", HEAP_TEST) \o Call("note", "boot")
                \o Stage("sec") \o Stage("key") \o Call("init", "disk")
    BY DEF Early
  <1> HIDE DEF head
  <1>6. Once(head \o Call("kmalloc", HEAP_TEST))
    BY <1>4, OnceBlock
  <1> QED
    BY <1>1, <1>3, <1>5, <1>6

-----------------------------------------------------------------------------
(* The tree and the heap, from power-on to the interrupts *)

\* The call of fs_bootstrap that the script has come to: 1 before it, 25 after.
Pos == IF pc <= BootAt THEN 1 ELSE IF pc > TopAt THEN 25 ELSE pc - BootAt

SoFar(i) == View(fs_root) = Built(i) /\ StandsAt(Where(i)) /\ heap_offset <= Used(i)

\* Before fs_init the heap holds nothing but kernel_main's block; from there on
\* the tree is what the script has made of it so far.
FirstOK ==
    /\ pc <= FsAt => /\ heap_offset <= HEAP_TEST
                     /\ heap_offset = 0 \/ \A i \in pc .. (FsAt - 1) : Script[i].op # "kmalloc"
    /\ Room /\ pc > FsAt /\ pc <= StiAt => \A i \in 1 .. 25 : i = Pos => SoFar(i)

LEMMA FirstMoves ==
    ASSUME FsOK, FsOK', FirstOK, UNCHANGED fsVars, pc \in Nat, pc' \in {pc, pc + 1},
           pc' = pc \/ (pc # FsAt /\ (pc <= BootAt \/ pc > TopAt))
    PROVE  FirstOK'
  <1>0. /\ FsAt \in Nat /\ BootAt \in Nat /\ TopAt \in Nat /\ StiAt \in Nat
        /\ FsAt <= BootAt /\ BootAt + 2 <= TopAt /\ TopAt < StiAt
    BY ScriptAt
  <1>1. UNCHANGED <<heap_offset, tree, fs_root, fs_cwd>>
    BY DEF fsVars, vars
  <1>2. ASSUME pc' <= FsAt
        PROVE  /\ heap_offset' <= HEAP_TEST
               /\ heap_offset' = 0 \/ \A i \in pc' .. (FsAt - 1) : Script[i].op # "kmalloc"
    <2>1. pc <= FsAt /\ \A i \in pc' .. (FsAt - 1) : i \in pc .. (FsAt - 1)
      BY <1>0, <1>2
    <2> QED
      BY <1>1, <2>1 DEF FirstOK
  <1>3. ASSUME Room, pc' > FsAt, pc' <= StiAt, NEW i \in 1 .. 25, i = Pos' PROVE SoFar(i)'
    <2>1. pc > FsAt /\ pc <= StiAt /\ Pos' = Pos
      <3>1. CASE pc' = pc
        BY <1>3, <3>1 DEF Pos
      <3>2. CASE pc' = pc + 1 /\ pc # FsAt /\ pc <= BootAt
        <4>1. pc > FsAt /\ pc <= StiAt
          BY <1>0, <1>3, <3>2
        <4>2. (pc' <= BootAt \/ pc' = BootAt + 1) /\ ~(pc' > TopAt)
          BY <1>0, <3>2
        <4>3. pc' = BootAt + 1 => pc' - BootAt = 1
          BY <1>0
        <4> QED
          BY <3>2, <4>1, <4>2, <4>3 DEF Pos
      <3>3. CASE pc' = pc + 1 /\ pc # FsAt /\ pc > TopAt
        <4>1. pc > FsAt /\ pc <= StiAt /\ ~(pc <= BootAt) /\ ~(pc' <= BootAt) /\ pc' > TopAt
          BY <1>0, <1>3, <3>3
        <4> QED
          BY <3>3, <4>1 DEF Pos
      <3> QED
        BY <3>1, <3>2, <3>3
    <2>2. ~(pc <= FsAt) /\ ~(pc' <= FsAt)
      BY <1>0, <1>3, <2>1
    <2>3. IInv /\ IInv'
      BY <2>2 DEF FsOK, InOrder
    <2>4. Descents(fs_root)' = Descents(fs_root) /\ View(fs_root)' = View(fs_root)
      BY <1>1, <2>3, SameDescents
    <2>5. SoFar(i)
      BY <1>3, <2>1 DEF FirstOK
    <2> QED
      BY <1>1, <2>4, <2>5 DEF SoFar, StandsAt
  <1> QED
    BY <1>2, <1>3 DEF FirstOK

\* kernel_main's block is the only one before fs_init.
LEMMA FirstBlock ==
    ASSUME Control, FsOK, FirstOK, Kmalloc
    PROVE  FirstOK'
  <1>0. FsAt \in Nat /\ StiAt \in Nat /\ FsAt < StiAt
    BY ScriptAt
  <1>1. /\ pc \in 1 .. Len(Script) /\ pc \in Nat /\ pc' = pc + 1
        /\ pc < FsAt
        /\ Script[pc].op = "kmalloc" /\ Arg = Script[pc].arg
    BY Placed DEF Kmalloc, At, Arg
  <1>2. ~(pc' > FsAt)
    BY <1>0, <1>1
  <1>3. PICK m : OnceAt(Early, m)
    BY EarlyOnce DEF Once
  <1>4. \A i \in 1 .. (FsAt - 1) :
           i \in 1 .. Len(Early) /\ Script[i] = Early[i]
    BY ScriptAt, EarlyOnce, LenProperties DEF Once, FsAt
  <1>5. \A i \in 1 .. (FsAt - 1) :
           Script[i].op = "kmalloc" => i = m /\ Script[i].arg = HEAP_TEST
    BY <1>3, <1>4 DEF OnceAt
  <1>6. pc \in 1 .. (FsAt - 1) /\ pc \in pc .. (FsAt - 1) /\ pc <= FsAt
    BY <1>0, <1>1
  <1>7. heap_offset = 0
    BY <1>1, <1>6 DEF FirstOK
  <1>8. pc = m /\ Arg = HEAP_TEST
    BY <1>1, <1>5, <1>6
  <1>9. \A i \in pc' .. (FsAt - 1) : Script[i].op # "kmalloc"
    <2> SUFFICES ASSUME NEW i \in pc' .. (FsAt - 1) PROVE Script[i].op # "kmalloc"
      OBVIOUS
    <2>1. i \in 1 .. (FsAt - 1) /\ i # pc
      BY <1>0, <1>1
    <2> QED
      BY <1>5, <1>8, <2>1
  <1>10. heap_offset' <= HEAP_TEST
    <2>1. HEAP_TEST \in Nat /\ HEAP_TEST + KHEAP_SIZE < UINT32 /\ 0 \in 0 .. (KHEAP_SIZE - 1)
      BY BootAssumption, Constants, HeapAssumption
    <2>2. OffsetAfter(0, HEAP_TEST) = 0 + HEAP_TEST
      BY <2>1, NoWrap
    <2>3. heap_offset' = IF Fits(0, HEAP_TEST) THEN OffsetAfter(0, HEAP_TEST) ELSE 0
      BY <1>7, <1>8 DEF Kmalloc
    <2> QED
      BY <2>1, <2>2, <2>3
  <1> QED
    BY <1>2, <1>9, <1>10 DEF FirstOK

\* fs_init leaves a root, and nothing in it.
LEMMA FirstRoot ==
    ASSUME Control, FsOK, FsOK', FirstOK, fs_init
    PROVE  FirstOK'
  <1>0. /\ FsAt \in Nat /\ BootAt \in Nat /\ TopAt \in Nat /\ StiAt \in Nat
        /\ FsAt <= BootAt /\ BootAt + 2 <= TopAt /\ TopAt < StiAt
    BY ScriptAt
  <1>1. pc = FsAt /\ pc' = FsAt + 1
    <2>1. At("fs_init") /\ ~Running /\ pc' = pc + 1
      BY DEF fs_init, At
    <2> QED
      BY <2>1, Placed
  <1>2. ~(pc' <= FsAt) /\ Pos' = 1
    BY <1>0, <1>1 DEF Pos
  <1>3. Untouched /\ InOrder' /\ heap_offset <= HEAP_TEST
    BY <1>0, <1>1, <1>2 DEF FsOK, FirstOK
  <1>4. IInv' /\ fs_root' \in HeapAddr
    BY <1>3, LiveFoundNext DEF InOrder
  <1>5. /\ \A d \in HeapAddr : kids'[d] = <<>>
        /\ fs_cwd' = fs_root' /\ is_dir'[fs_root'] /\ data'[fs_root'] = NoText
    BY <1>3, <1>4 DEF fs_init, Untouched
  <1>6. /\ Descents(fs_root)' = {[path |-> <<>>, node |-> fs_root']}
        /\ View(fs_root)' = {Entry(<<>>, fs_root)'}
    BY <1>4, <1>5, OnlyRootNext
  <1>7. is_dir'[fs_root'] = TRUE
    BY <1>4, <1>5 DEF IInv, TypeOK
  <1>8. Entry(<<>>, fs_root)' = Dir(<<>>)
    BY <1>5, <1>7 DEF Entry, Dir
  <1>9. Built(1) = {Dir(<<>>)} /\ Where(1) = <<>>
    <2>1. \A k \in Makes : ~(k < 1)
      BY DEF Makes, MadeDirs, MadeFiles
    <2>2. Built(1) = {Dir(<<>>)}
      BY <2>1 DEF Built
    <2>3. Where(1) = <<>>
      BY DEF Where
    <2> QED
      BY <2>2, <2>3
  <1>10. heap_offset' <= Used(1)
    <2>1. /\ heap_offset \in 0 .. (KHEAP_SIZE - 1) /\ NODE_SIZE \in Nat /\ HEAP_TEST \in Nat
          /\ NODE_SIZE + KHEAP_SIZE < UINT32 /\ KHEAP_SIZE \in Nat
      BY <1>3, FsAssumption, BootAssumption, Constants DEF Untouched
    <2>2. heap_offset' = heap_offset + NODE_SIZE
      BY <2>1, NoWrap DEF fs_init
    <2>3. Used(1) = HEAP_TEST + NODE_SIZE
      BY DEF Used
    <2> QED
      BY <1>3, <2>1, <2>2, <2>3
  <1>11. View(fs_root)' = Built(1)
    BY <1>6, <1>8, <1>9
  <1>12. StandsAt(<<>>)'
    BY <1>5, <1>6 DEF StandsAt
  <1>13. SoFar(1)'
    BY <1>9, <1>10, <1>11, <1>12 DEF SoFar
  <1> QED
    BY <1>2, <1>13 DEF FirstOK

\* The i-th call leaves what is there before the next.
LEMMA FirstCall ==
    ASSUME Room, InOrder, InOrder', NEW i \in 1 .. 24, i # 2, SoFar(i),
           NEW op, NEW arg, Row(i) = [op |-> op, arg |-> arg],
           \/ op = "mkdir" /\ fs_mkdir(arg)
           \/ op = "write" /\ fs_write(arg, 1)
           \/ op = "chdir" /\ fs_chdir(arg)
    PROVE  SoFar(i + 1)'
  <1>1. /\ Used(i) \in Nat /\ Used(i + 1) \in Nat
        /\ Used(i + 1) = Used(i) + Cost(i) /\ Used(i) <= Used(i + 1)
        /\ Used(i + 1) < KHEAP_SIZE
    BY UsedNext
  <1>2. /\ View(fs_root) = Built(i) /\ StandsAt(Where(i))
        /\ heap_offset <= Used(i) /\ heap_offset \in Nat
    BY Constants DEF SoFar, InOrder, IInv, TypeOK
  <1>3. /\ Built(i + 1) = IF i \in Makes THEN Built(i) \cup {Made(i)} ELSE Built(i)
        /\ i \in Makes => Where(i + 1) = Where(i)
    BY BuiltNext
  <1>4. Where(i) \in Seq(Name) /\ New(i) \in Name
    BY RowNames
  <1>5. CASE i \in Makes
    <2>1. PICK dir \in BOOLEAN : dir <=> i \in MadeDirs
      <3>1. i \in MadeDirs \/ i \notin MadeDirs
        OBVIOUS
      <3>2. TRUE \in BOOLEAN /\ FALSE \in BOOLEAN
        OBVIOUS
      <3> QED
        BY <3>1, <3>2, Zenon
    <2>2. IF dir THEN fs_mkdir(Rel(<<New(i)>>)) ELSE fs_write(Rel(<<New(i)>>), 1)
      BY <1>5, <2>1 DEF Row, Makes
    <2>3. \A e \in View(fs_root) : e.path # Append(Where(i), New(i))
      BY <1>2, <1>5, MadeApart
    <2>4. Cost(i) = IF dir THEN NODE_SIZE ELSE NODE_SIZE + 2
      BY <1>5, <2>1 DEF Cost, Makes
    <2>5. heap_offset + Cost(i) <= Used(i + 1) /\ heap_offset + Cost(i) < KHEAP_SIZE
      <3>1. Cost(i) \in Nat
        BY FsAssumption DEF Cost
      <3> QED
        BY <1>1, <1>2, <3>1, Constants
    <2>6. /\ View(fs_root)' = View(fs_root)
                  \cup {IF dir THEN Dir(Append(Where(i), New(i))) ELSE File(Append(Where(i), New(i)))}
          /\ StandsAt(Where(i))'
          /\ heap_offset' = heap_offset + Cost(i)
      BY <1>2, <1>4, <2>2, <2>3, <2>4, <2>5, MakeMakes
    <2>7. Made(i) = IF dir THEN Dir(Append(Where(i), New(i))) ELSE File(Append(Where(i), New(i)))
      BY <2>1 DEF Made
    <2>8. View(fs_root)' = Built(i + 1)
      BY <1>2, <1>3, <1>5, <2>6, <2>7
    <2> QED
      BY <1>3, <1>5, <2>5, <2>6, <2>8 DEF SoFar
  <1>6. CASE i \notin Makes
    <2>1. fs_chdir(Abs(Where(i + 1)))
      BY <1>6 DEF Row, Makes
    <2>2. Dir(Where(i + 1)) \in View(fs_root)
      BY <1>2, <1>6, BuiltTargets
    <2>3. /\ View(fs_root)' = View(fs_root)
          /\ StandsAt(Where(i + 1))'
          /\ heap_offset' = heap_offset
      BY <2>1, <2>2, ChdirGoes
    <2>4. heap_offset' <= Used(i + 1)
      BY <1>1, <1>2, <2>3
    <2> QED
      BY <1>2, <1>3, <1>6, <2>3, <2>4 DEF SoFar
  <1> QED
    BY <1>5, <1>6

\* The script's place in fs_bootstrap.
LEMMA PosAt ==
    ASSUME Control, ~Running, BootAt < pc, pc <= TopAt
    PROVE  /\ Pos \in 1 .. 24 /\ pc = BootAt + Pos /\ Script[pc] = Row(Pos)
           /\ pc > FsAt /\ pc <= StiAt /\ ~(pc <= FsAt)
           /\ pc' = pc + 1 => /\ Pos' = Pos + 1 /\ ~(pc' <= FsAt)
  <1>0. /\ FsAt \in Nat /\ BootAt \in Nat /\ TopAt \in Nat /\ StiAt \in Nat
        /\ FsAt <= BootAt /\ BootAt + 2 <= TopAt /\ TopAt < StiAt
    BY ScriptAt
  <1>1. TopAt = BootAt + 24
    BY BootstrapIs DEF TopAt
  <1>2. pc \in Nat
    BY Placed
  <1>3. Pos = pc - BootAt /\ Pos \in 1 .. 24 /\ pc = BootAt + Pos
    BY <1>0, <1>1, <1>2 DEF Pos
  <1>4. Script[pc] = fs_bootstrap[pc - BootAt]
    <2>1. pc \in (BootAt + 1) .. TopAt
      BY <1>0, <1>2
    <2> QED
      BY <2>1, ScriptAt
  <1>5. Script[pc] = Row(Pos)
    BY <1>3, <1>4, BootstrapIs
  <1>6. pc' = pc + 1 => Pos' = Pos + 1 /\ ~(pc' <= FsAt)
    BY <1>0, <1>1, <1>2, <1>3 DEF Pos
  <1> QED
    BY <1>0, <1>2, <1>3, <1>5, <1>6

LEMMA FirstBootstrap ==
    ASSUME Control, FsOK, FsOK', FirstOK, Bootstrap
    PROVE  FirstOK'
  <1>1. /\ ~Running /\ BootAt < pc /\ pc <= TopAt /\ ~At("sentinel")
    <2>1. (At("mkdir") \/ At("write") \/ At("chdir")) /\ ~Running
      BY DEF Bootstrap, At
    <2> QED
      BY <2>1, Placed DEF At
  <1>2. pc' = pc + 1
    BY DEF Bootstrap
  <1> PICK i : i = Pos
    OBVIOUS
  <1>3. /\ i \in 1 .. 24 /\ Script[pc] = Row(i)
        /\ pc > FsAt /\ pc <= StiAt /\ ~(pc <= FsAt)
        /\ Pos' = i + 1 /\ ~(pc' <= FsAt)
    BY <1>1, <1>2, PosAt
  <1>4. i # 2
    BY <1>1, <1>3 DEF At, Row
  <1>5. InOrder /\ InOrder'
    BY <1>3 DEF FsOK
  <1>6. Row(i) = [op |-> Script[pc].op, arg |-> Arg]
    BY <1>3 DEF Row, Arg
  <1>7. \/ Script[pc].op = "mkdir" /\ fs_mkdir(Arg)
        \/ Script[pc].op = "write" /\ fs_write(Arg, 1)
        \/ Script[pc].op = "chdir" /\ fs_chdir(Arg)
    BY DEF Bootstrap, At
  <1>8. ASSUME Room PROVE SoFar(i + 1)'
    <2>1. SoFar(i)
      BY <1>3, <1>8 DEF FirstOK
    <2> QED
      BY <1>3, <1>4, <1>5, <1>6, <1>7, <1>8, <2>1, FirstCall
  <1> QED
    BY <1>3, <1>8 DEF FirstOK

\* The sentinel is not there: the files are made.
LEMMA FirstSentinel ==
    ASSUME Control, FsOK, FsOK', FirstOK, Sentinel
    PROVE  FirstOK'
  <1>1. pc = BootAt + 2 /\ ~Running /\ BootAt < pc /\ pc <= TopAt
    <2>1. At("sentinel") /\ ~Running
      BY DEF Sentinel, At
    <2> QED
      BY <2>1, Placed, ScriptAt
  <1>2. /\ 2 = Pos /\ pc > FsAt /\ pc <= StiAt /\ ~(pc <= FsAt)
    <2>1. Pos \in 1 .. 24 /\ pc = BootAt + Pos /\ pc > FsAt /\ pc <= StiAt /\ ~(pc <= FsAt)
      BY <1>1, PosAt
    <2>2. BootAt \in Nat
      BY ScriptAt
    <2>3. ASSUME NEW i \in Nat, NEW b \in Nat, b + 2 = b + i PROVE i = 2
      BY <2>3
    <2>4. Pos \in Nat /\ BootAt + 2 = BootAt + Pos
      <3> HIDE DEF Pos
      <3> QED
        BY <1>1, <2>1
    <2>5. Pos = 2
      BY <2>2, <2>3, <2>4
    <2> QED
      BY <2>1, <2>5
  <1>3. InOrder
    BY <1>2 DEF FsOK
  <1>4. ASSUME Room, pc' > FsAt PROVE SoFar(3)' /\ pc' = pc + 1
    <2>1. SoFar(2)
      BY <1>2, <1>4 DEF FirstOK
    <2>2. ~(pc' <= FsAt)
      BY <1>1, <1>4, ScriptAt DEF Sentinel
    <2>3. InOrder'
      BY <2>2 DEF FsOK
    <2>4. Where(2) = <<>> /\ Where(3) = <<>>
      BY DEF Where
    <2>5. Built(2) = {Dir(<<>>)}
      <3>1. \A k \in Makes : ~(k < 2)
        BY DEF Makes, MadeDirs, MadeFiles
      <3> QED
        BY <3>1 DEF Built
    <2>6. StandsAt(<<>>) /\ "sentinel" \in Name
      BY <2>1, <2>4, BootAssumption DEF SoFar
    <2>7. \A e \in View(fs_root) : e.path # Append(<<>>, "sentinel")
      BY <2>1, <2>5, Spelling DEF SoFar, Dir
    <2>8. Resolve(Rel(<<"sentinel">>)) = NULL
      BY <1>3, <2>6, <2>7, NotThere
    <2>9. Fail
      BY <2>8 DEF Sentinel, fs_read
    <2>10. pc' = pc + 1
      BY <2>9 DEF Fail, Sentinel, Ok, Error
    <2>11. UNCHANGED <<heap_offset, tree, fs_root, fs_cwd>>
      BY <2>9 DEF Fail
    <2>12. Descents(fs_root)' = Descents(fs_root) /\ View(fs_root)' = View(fs_root)
      BY <1>3, <2>3, <2>11, SameDescents DEF InOrder
    <2>13. Used(3) = Used(2) /\ Built(3) = Built(2)
      <3>1. 2 \in 1 .. 24 /\ 2 \notin Makes /\ 2 + 1 = 3
        BY DEF Makes, MadeDirs, MadeFiles
      <3>2. Built(3) = Built(2)
        BY <3>1, BuiltNext
      <3> QED
        BY <3>2 DEF Used
    <2>14. StandsAt(<<>>)'
      BY <2>6, <2>11, <2>12 DEF StandsAt
    <2>15. SoFar(3)'
      BY <2>1, <2>4, <2>11, <2>12, <2>13, <2>14 DEF SoFar
    <2> QED
      BY <2>10, <2>15
  <1>5. ~(pc' <= FsAt)
    <2>1. pc' = pc + 1 \/ pc' = pc + Len(fs_bootstrap) - 2
      BY DEF Sentinel
    <2>2. pc \in Nat /\ Len(fs_bootstrap) = 24
      BY <1>1, Placed, BootstrapIs
    <2> QED
      BY <1>2, <2>1, <2>2, ScriptAt
  <1>6. ASSUME Room, pc' > FsAt, NEW i \in 1 .. 25, i = Pos' PROVE SoFar(i)'
    <2>1. SoFar(3)' /\ pc' = pc + 1
      BY <1>4, <1>6
    <2>2. Pos' = 3
      BY <1>1, <1>2, <2>1, PosAt
    <2> QED
      BY <1>6, <2>1, <2>2
  <1> QED
    BY <1>5, <1>6 DEF FirstOK

LEMMA FirstStep ==
    ASSUME Control, FsOK, FsOK', FirstOK, BootStep
    PROVE  FirstOK'
  <1>1. ~Running /\ pc \in Nat /\ (pc' \in {pc, pc + 1} \/ (pc = BootAt + 2 /\ pc' = TopAt))
    BY Advance, Placed
  <1>2. \A op1, op2 : At(op1) /\ At(op2) => op1 = op2
    BY DEF At
  <1>3. ASSUME NEW op, At(op), op \notin {"fs_init", "sentinel", "mkdir", "write", "chdir"},
               UNCHANGED fsVars
        PROVE  FirstOK'
    <2>1. ~At("fs_init") /\ ~At("sentinel") /\ ~At("mkdir") /\ ~At("write") /\ ~At("chdir")
      BY <1>2, <1>3
    <2>2. pc # FsAt /\ pc # BootAt + 2
      BY <1>1, <2>1, Placed
    <2>3. pc <= BootAt \/ pc > TopAt
      <3> SUFFICES ASSUME BootAt < pc, pc <= TopAt PROVE FALSE
        BY <1>1, ScriptAt
      <3>1. pc \in (BootAt + 1) .. TopAt
        BY <1>1, ScriptAt
      <3>2. Script[pc] \in Calls
        BY <3>1, ScriptAt
      <3>3. Script[pc].op \in {"mkdir", "write", "chdir", "sentinel"}
        BY <3>2 DEF Calls, FsCalls, Plain3
      <3> QED
        BY <1>1, <2>1, <3>3 DEF At
    <2> QED
      BY <1>1, <1>3, <2>2, <2>3, FirstMoves
  <1>4. CASE \/ InitPart \/ NoteBegin \/ NoteSkip \/ sleep_ticks \/ Sti \/ console_clear
             \/ scheduler_start \/ shell_init \/ PromptBegin \/ PromptChar
    <2>1. UNCHANGED fsVars
      BY <1>4 DEF InitPart, NoteBegin, NoteSkip, sleep_ticks, Sti, console_clear,
         scheduler_start, shell_init, PromptBegin, PromptChar
    <2>2. \/ At("init") \/ At("note") \/ At("sleep") \/ At("sti") \/ At("clear") \/ At("start")
          \/ At("shell_init") \/ At("ask") \/ At("print")
      BY <1>4 DEF InitPart, NoteBegin, NoteSkip, sleep_ticks, Sti, console_clear,
         scheduler_start, shell_init, PromptBegin, PromptChar
    <2> QED
      BY <1>3, <2>1, <2>2
  <1>5. CASE NoteStep
    <2>1. At("note") /\ UNCHANGED fsVars
      BY <1>5 DEF NoteStep, LogStep, CopyFirst, CopyRest, LoadCount, StoreHead, StoreCount, Control
    <2> QED
      BY <1>3, <2>1
  <1>6. CASE TaskAlloc
    <2>1. ~(pc' <= FsAt) /\ ~(pc' <= StiAt)
      BY <1>1, <1>6, Placed, ScriptAt DEF TaskAlloc
    <2> QED
      BY <2>1 DEF FirstOK
  <1> QED
    BY <1>4, <1>5, <1>6, FirstBlock, FirstRoot, FirstBootstrap, FirstSentinel DEF BootStep

-----------------------------------------------------------------------------
(* Together *)

BootInv ==
    /\ Control /\ PartsReady
    /\ LogInv
    /\ LineOK
    /\ FsOK
    /\ PromptOK

\* What a start, cold or not, leaves.
Fresh ==
    /\ pc = 1 /\ iflag = FALSE /\ ready = {}
    /\ input = <<>> /\ seen = <<>> /\ cut = FALSE /\ wiped = FALSE
    /\ prompt = NoPrompt
    /\ heap_offset = 0
    /\ nodes = {} /\ fs_root = NULL /\ fs_cwd = NULL
    /\ name = [n \in HeapAddr |-> RootName] /\ is_dir = [n \in HeapAddr |-> FALSE]
    /\ data = [n \in HeapAddr |-> NoText] /\ parent = [n \in HeapAddr |-> NULL]
    /\ kids = [n \in HeapAddr |-> <<>>]
    /\ snaps = <<>> /\ clone = NoClone /\ ret = Ok /\ out = NoText
    /\ LogInit

LEMMA FreshInv == Fresh => BootInv
  <1> SUFFICES ASSUME Fresh PROVE BootInv
    OBVIOUS
  <1>0. /\ FsAt \in Nat /\ BootAt \in Nat /\ TopAt \in Nat /\ StiAt \in Nat
        /\ 1 <= FsAt /\ FsAt <= BootAt /\ BootAt + 2 <= TopAt /\ TopAt < StiAt
        /\ Len(Script) \in Nat /\ StiAt + 2 <= Len(Script)
    BY ScriptAt
  <1>1. Control
    <2>1. pc \in 1 .. (Len(Script) + 1) /\ ~(pc > StiAt)
      BY <1>0 DEF Fresh
    <2> QED
      BY <2>1 DEF Fresh, Control, LogInit, NotWriting
  <1>2. ASSUME NEW part \in Handled
        PROVE  \E i \in pc .. (StiAt - 1) : Script[i] = [op |-> "init", arg |-> part]
    <2>0. ASSUME NEW i \in 1 .. (StiAt - 1), Script[i] = [op |-> "init", arg |-> part]
          PROVE  \E j \in pc .. (StiAt - 1) : Script[j] = [op |-> "init", arg |-> part]
      BY <2>0 DEF Fresh
    <2>1. CASE part \in {"log", "gdt", "idt", "heap", "sec", "key"}
      <3>1. [op |-> "init", arg |-> part] \in ToSet(Early) /\ Early \in Seq(EarlyStep)
        BY <2>1, EarlyParts
      <3>2. PICK i \in 1 .. Len(Early) : Early[i] = [op |-> "init", arg |-> part]
        BY <3>1, LenProperties DEF ToSet
      <3>3. i \in 1 .. (FsAt - 1) /\ i \in 1 .. (StiAt - 1)
        BY <1>0, <3>1, <3>2, LenProperties DEF FsAt
      <3>4. Script[i] = Early[i]
        BY <3>3, ScriptAt
      <3> QED
        BY <2>0, <3>2, <3>3, <3>4
    <2>2. CASE part = "fs"
      <3>1. [op |-> "init", arg |-> part] \in ToSet(Stage("fs")) /\ Stage("fs") \in Seq(LateStep)
        BY <2>2, ScriptWords DEF Part
      <3>2. PICK i \in 1 .. Len(Stage("fs")) : Stage("fs")[i] = [op |-> "init", arg |-> part]
        BY <3>1, LenProperties DEF ToSet
      <3>3. PICK j : j = FsAt + i
        OBVIOUS
      <3>4. j \in (FsAt + 1) .. BootAt /\ j \in 1 .. (StiAt - 1) /\ j - FsAt = i
        BY <1>0, <3>1, <3>2, <3>3, LenProperties DEF BootAt
      <3>5. Script[j] = Stage("fs")[j - FsAt]
        BY <3>4, ScriptAt
      <3> QED
        BY <2>0, <3>2, <3>4, <3>5
    <2>3. CASE part \in {"irq", "timer", "keyboard"}
      <3>1. [op |-> "init", arg |-> part] \in ToSet(Drivers) /\ Drivers \in Seq(LateStep)
        BY <2>3, DriverParts
      <3>2. PICK i \in 1 .. Len(Drivers) : Drivers[i] = [op |-> "init", arg |-> part]
        BY <3>1, LenProperties DEF ToSet
      <3>3. PICK j : j = TopAt + i
        OBVIOUS
      <3>4. Len(Drivers) \in Nat /\ StiAt = TopAt + Len(Drivers) + 1
        BY <3>1, LenProperties DEF StiAt
      <3>5. j \in (TopAt + 1) .. (StiAt - 1) /\ j \in 1 .. (StiAt - 1) /\ j - TopAt = i
        BY <1>0, <3>2, <3>3, <3>4
      <3>6. Script[j] = Drivers[j - TopAt]
        BY <3>5, ScriptAt
      <3> QED
        BY <2>0, <3>2, <3>5, <3>6
    <2> QED
      BY <2>1, <2>2, <2>3 DEF Handled
  <1>3. LineOK
    BY EmptyEnds DEF Fresh, LineOK
  <1>4. Untouched
    BY Constants, HeapAssumption DEF Fresh, Untouched
  <1>5. FsOK
    BY <1>4, ScriptAt DEF FsOK, Fresh
  <1>6. PromptOK
    BY ScriptAt DEF PromptOK, Fresh, NoPrompt
  <1>7. LogInv
    BY LogBegins DEF Fresh
  <1> QED
    BY <1>1, <1>2, <1>3, <1>5, <1>6, <1>7 DEF BootInv, PartsReady

\* A restart leaves what a start does.
LEMMA RestartInv == Restart => BootInv'
  <1>1. Restart => Fresh'
    BY DEF Restart, ColdStart, Fresh, LogInit
  <1> QED
    BY <1>1, FreshInv, PTL

LEMMA BootIdle == ASSUME BootInv, UNCHANGED allVars PROVE BootInv'
  <1>1. UNCHANGED <<bootVars, fsVars, logVars>>
    BY DEF allVars
  <1>2. UNCHANGED <<pc, iflag, ready, input, seen, cut, wiped, cwdbuf, prompt, writer>>
    BY <1>1 DEF bootVars, logVars
  <1>3. Control' /\ PartsReady'
    BY <1>2 DEF BootInv, Control, PartsReady, At, Running
  <1>4. LogInv'
    BY <1>1, LogIdle DEF BootInv
  <1>5. LineOK'
    BY <1>2 DEF BootInv, LineOK
  <1>6. FsOK'
    BY <1>1, <1>2, FsIdle DEF BootInv, FsOK
  <1>7. fs_getcwd' = fs_getcwd
    BY <1>1, GetcwdSame DEF fsVars, vars, tree
  <1>8. PromptOK'
    BY <1>2, <1>7 DEF BootInv, PromptOK
  <1> QED
    BY <1>3, <1>4, <1>5, <1>6, <1>8 DEF BootInv

LEMMA BootNextInv == BootInv /\ [BootNext]_allVars => BootInv'
  <1> SUFFICES ASSUME BootInv, [BootNext]_allVars PROVE BootInv'
    OBVIOUS
  <1>1. Control /\ PartsReady /\ LogInv /\ LineOK /\ FsOK /\ PromptOK
    BY DEF BootInv
  <1>2. CASE BootStep
    <2>1. Control' /\ PartsReady'
      BY <1>1, <1>2, StepControl
    <2>2. LogInv' /\ LineOK'
      BY <1>1, <1>2, BootLog, LineKept
    <2>3. FsOK' /\ PromptOK'
      BY <1>1, <1>2, StepFs, StepPrompt
    <2> QED
      BY <2>1, <2>2, <2>3 DEF BootInv
  <1>3. CASE Irq
    <2>1. Control' /\ PartsReady'
      BY <1>1, <1>3, IrqControl
    <2>2. LogInv' /\ LineOK'
      BY <1>1, <1>3, BootLog, LineKept
    <2>3. FsOK' /\ PromptOK'
      BY <1>1, <1>3, IrqFs, IrqPrompt
    <2> QED
      BY <2>1, <2>2, <2>3 DEF BootInv
  <1>4. CASE Restart
    BY <1>4, RestartInv
  <1>5. CASE UNCHANGED allVars
    BY <1>5, BootIdle
  <1> QED
    BY <1>2, <1>3, <1>4, <1>5 DEF BootNext

LEMMA BootInductive == BootSpec => []BootInv
  <1>1. BootInit => Fresh
    BY DEF BootInit, Fresh
  <1> QED
    BY <1>1, FreshInv, BootNextInv, PTL DEF BootSpec

LEMMA FirstFresh == Fresh => FirstOK
  <1> SUFFICES ASSUME Fresh PROVE FirstOK
    OBVIOUS
  <1>1. FsAt \in Nat /\ 1 <= FsAt /\ ~(pc > FsAt) /\ heap_offset = 0 /\ 0 <= HEAP_TEST
    BY ScriptAt, BootAssumption DEF Fresh
  <1> QED
    BY <1>1 DEF FirstOK

LEMMA FirstRestart == Restart => FirstOK'
  <1>1. Restart => Fresh'
    BY DEF Restart, ColdStart, Fresh, LogInit
  <1> QED
    BY <1>1, FirstFresh, PTL

LEMMA FirstInv == BootInv /\ FirstOK /\ [BootNext]_allVars /\ BootInv' => FirstOK'
  <1> SUFFICES ASSUME BootInv, FirstOK, [BootNext]_allVars, BootInv' PROVE FirstOK'
    OBVIOUS
  <1>1. Control /\ FsOK /\ FsOK'
    BY DEF BootInv
  <1>2. CASE BootStep
    BY <1>1, <1>2, FirstStep
  <1>3. CASE Irq
    <2>1. iflag /\ UNCHANGED pc
      BY <1>3 DEF Irq, TimerIrq, KeyBackspace, KeyEnter, KeyLeave, KeyEdit, KeyEscape, KeyChar, Key
    <2>2. ~(pc' <= FsAt) /\ ~(pc' <= StiAt)
      BY <1>1, <2>1, ScriptAt DEF Control
    <2> QED
      BY <2>2 DEF FirstOK
  <1>4. CASE Restart
    BY <1>4, FirstRestart
  <1>5. CASE UNCHANGED allVars
    <2>1. UNCHANGED fsVars /\ pc' = pc /\ pc \in Nat
      BY <1>1, <1>5, ScriptAt DEF allVars, bootVars, Control
    <2> QED
      BY <1>1, <2>1, FirstMoves
  <1> QED
    BY <1>2, <1>3, <1>4, <1>5 DEF BootNext

-----------------------------------------------------------------------------
(* The theorems *)

\* However many keys and ticks come, and however often the machine is started
\* again, the log heals after every race of two writers.
THEOREM LogRecovers == BootSpec => []LogHeals
  <1>1. BootInv => LogHeals
    BY Heals DEF BootInv
  <1> QED
    BY <1>1, BootInductive, PTL

\* Interrupts come on only when all that their handlers use is there.
THEOREM HandlersSafe == BootSpec => []HandlersReady
  <1>1. BootInv => HandlersReady
    <2> SUFFICES ASSUME BootInv, iflag, NEW part \in Handled PROVE part \in ready
      BY DEF HandlersReady
    <2>1. pc > StiAt /\ pc \in Nat /\ StiAt \in Nat
      BY ScriptAt DEF BootInv, Control
    <2>2. \A i \in pc .. (StiAt - 1) : FALSE
      BY <2>1
    <2>3. \/ part \in ready
          \/ \E i \in pc .. (StiAt - 1) : Script[i] = [op |-> "init", arg |-> part]
      BY DEF BootInv, PartsReady
    <2> QED
      BY <2>2, <2>3
  <1> QED
    BY <1>1, BootInductive, PTL

\* The line that is executed is the line that is seen, or its end where
\* shell_init emptied the buffer, or begins unseen where console_clear emptied
\* the screen; for every size of the buffer.
THEOREM LineShown == BootSpec => []LineAsSeen
  <1>1. BootInv => LineAsSeen
    BY LineSeen DEF BootInv
  <1> QED
    BY <1>1, BootInductive, PTL

\* The first prompt is the current directory's path, for every length of it,
\* whatever the status bar does to the buffer meanwhile.
THEOREM PromptShown == BootSpec => []PromptIsCwd
  <1>1. BootInv => PromptIsCwd
    <2> SUFFICES ASSUME BootInv, Running, ~prompt.moved
                 PROVE  prompt.printed = prompt.path
      BY DEF PromptIsCwd
    <2>1. pc > Len(Script) /\ pc >= Len(Script) /\ pc > FsAt /\ ~(pc <= FsAt)
      BY ScriptAt DEF BootInv, Control, Running
    <2>2. /\ prompt.path = fs_getcwd /\ Begun(prompt)
          /\ prompt.next = Len(prompt.path) + 1
      BY <2>1 DEF BootInv, PromptOK
    <2>3. InOrder
      BY <2>1 DEF BootInv, FsOK
    <2>4. prompt.path \in Seq(FsName) /\ Len(prompt.path) \in Nat
      BY <2>2, <2>3, GetcwdPath, CwdAssumption, LenProperties DEF InOrder, IInv
    <2>5. /\ prompt.printed \in Seq(FsName) /\ Len(prompt.printed) = Len(prompt.path)
          /\ \A i \in 1 .. Len(prompt.path) : prompt.printed[i] = prompt.path[i]
      BY <2>2, <2>4 DEF Begun
    <2> QED
      BY <2>4, <2>5, SeqEqual
  <1> QED
    BY <1>1, BootInductive, PTL

\* From fs_init on, through fs_bootstrap and whatever is typed meanwhile, the
\* tree is linked both ways, names in a directory differ, nodes lie apart and
\* files hold encrypted bytes only.
THEOREM BootTree ==
    BootSpec => [](pc > FsAt => /\ TypeOK /\ NodesApart /\ WellLinked /\ UniqueNames
                                /\ RootsUnlisted /\ DirsAreDirs /\ EncryptedAtRest)
  <1>1. ASSUME BootInv, pc > FsAt
        PROVE  /\ TypeOK /\ NodesApart /\ WellLinked /\ UniqueNames
               /\ RootsUnlisted /\ DirsAreDirs /\ EncryptedAtRest
    <2>1. ~(pc <= FsAt)
      BY <1>1, ScriptAt DEF BootInv, Control
    <2> QED
      BY <1>1, <2>1 DEF BootInv, FsOK, InOrder, IInv, Links
  <1> QED
    BY <1>1, BootInductive, PTL

\* With room on the heap for what it makes, fs_bootstrap leaves the tree of the
\* first boot, and the current directory at its root, before the first key can
\* come: after every restart, and for every size of a node and of the heap.
THEOREM FirstTree == BootSpec => [](Room => FirstFiles)
  <1>1. BootInit => Fresh
    BY DEF BootInit, Fresh
  <1>2. BootInv /\ FirstOK => (Room => FirstFiles)
    <2> SUFFICES ASSUME BootInv, FirstOK, Room, At("sti")
                 PROVE  View(fs_root) = Layout /\ fs_cwd = fs_root
      BY DEF FirstFiles
    <2>0. /\ FsAt \in Nat /\ BootAt \in Nat /\ TopAt \in Nat /\ StiAt \in Nat
          /\ FsAt <= BootAt /\ BootAt + 2 <= TopAt /\ TopAt < StiAt
      BY ScriptAt
    <2>1. pc = StiAt
      BY Placed DEF BootInv, At
    <2>2. 25 = Pos /\ pc > FsAt /\ pc <= StiAt /\ ~(pc <= FsAt)
      BY <2>0, <2>1 DEF Pos
    <2>3. SoFar(25)
      BY <2>2 DEF FirstOK
    <2>4. View(fs_root) = Layout
      BY <2>3, BuiltAll DEF SoFar
    <2>5. Where(25) = <<>>
      BY DEF Where
    <2>6. PICK x \in Descents(fs_root) : x.path = <<>> /\ x.node = fs_cwd
      BY <2>3, <2>5 DEF SoFar, StandsAt
    <2>7. FoundAt(fs_root)
      BY <2>2, LiveFound DEF BootInv, FsOK, InOrder
    <2>8. PICK k \in Nat : \E w \in Trails(fs_root, k) : x = PlaceAt(w, k)
      BY <2>7 DEF FoundAt
    <2>9. PICK w \in Trails(fs_root, k) : x = PlaceAt(w, k)
      BY <2>8
    <2>10. Spelled(w, k) = <<>> /\ w[k] = fs_cwd
      BY <2>6, <2>9 DEF PlaceAt
    <2>11. k = 0
      <3> SUFFICES ASSUME k # 0 PROVE FALSE
        OBVIOUS
      <3>1. 1 \in DOMAIN Spelled(w, k)
        BY DEF Spelled
      <3> QED
        BY <2>10, <3>1
    <2> QED
      BY <2>4, <2>10, <2>11, TrailFacts
  <1> QED
    BY <1>1, <1>2, FreshInv, BootNextInv, FirstFresh, FirstInv, PTL DEF BootSpec
=============================================================================
