---------------------------- MODULE DriverProofs ----------------------------
(***************************************************************************)
(* The drivers of keyboard, screen and disk, each proved on its own: no    *)
(* module knows of another.                                                *)
(*                                                                         *)
(* The keyboard, for every set of keys and every number of scancodes that  *)
(* may wait: the invariant follows the flags through the scancodes on      *)
(* their way, and what the driver will hold once it has seen them all is   *)
(* what the user's hands say, as far as nothing was lost.                  *)
(*                                                                         *)
(* The console, for every size of the screen and any number of files that  *)
(* write from handlers: the invariant says what a file's cursor may be     *)
(* while kernel_main is between two steps of console_putc, and what the    *)
(* port writes have told the hardware so far.                              *)
(*                                                                         *)
(* The disk, for every number of sectors and words: what is read is what   *)
(* is there, what is written gets there, and nothing else is written, one  *)
(* port access of the driver or one step of the disk at a time.            *)
(***************************************************************************)
EXTENDS Keyboard, Console, Disk, Lemmas

-----------------------------------------------------------------------------
(* The keyboard: its invariant *)

\* The driver's four flags together.
Flags == [shift : BOOLEAN, ctrl : BOOLEAN, alt : BOOLEAN, caps : BOOLEAN]

FlagsNow == [shift |-> shift_pressed, ctrl |-> ctrl_pressed, alt |-> alt_pressed,
             caps |-> caps_lock]

\* The flags after the driver has seen a scancode, and the character it passes.
After(code, f) ==
    LET k == code.key
        down == ~code.released
    IN  [shift |-> IF k \in ShiftKey THEN down ELSE f.shift,
         ctrl |-> IF k = SC_CTRL THEN down ELSE f.ctrl,
         alt |-> IF k = SC_ALT THEN down ELSE f.alt,
         caps |-> IF k = SC_CAPS /\ down THEN ~f.caps ELSE f.caps]

CharOf(code, f) ==
    IF code.key \in CharKey /\ ~code.released
    THEN [key |-> code.key,
          shifted |-> IF code.key \in Letter /\ f.caps THEN ~f.shift ELSE f.shift]
    ELSE NoChar

\* The flags before the first scancode that waits, and after each of them.
Trace(f) ==
    /\ f \in [0 .. Len(queue) -> Flags]
    /\ f[0] = FlagsNow
    /\ \A i \in 1 .. Len(queue) : f[i] = After(queue[i], f[i - 1])

\* A flag that is on has its key down, unless its last scancode was lost.
HeldOrLost(g) ==
    /\ g.shift => (held \cup lost) \cap ShiftKey # {}
    /\ g.ctrl => SC_CTRL \in held \cup lost
    /\ g.alt => SC_ALT \in held \cup lost
    /\ SC_CAPS \notin lost => g.caps = capsOn

StuckInv == TypeOK /\ \E f : Trace(f) /\ HeldOrLost(f[Len(queue)])

\* A character that was meant comes out of the flags at its turn ...
MeantOK(f) ==
    \A i \in 1 .. Len(queue) :
        queue[i].meant # NoChar => queue[i].meant = CharOf(queue[i], f[i - 1])

\* ... for shift is seen as it is held.
ShiftExact(g) ==
    /\ lost \cap ShiftKey = {} => g.shift = ShiftHeld
    /\ SC_CAPS \notin lost => g.caps = capsOn

MeantInv == TypeOK /\ \E f : Trace(f) /\ MeantOK(f) /\ ShiftExact(f[Len(queue)])

\* The user does not hold down both shift keys: one flag stands for them, and
\* is off when the first of them comes up.
OneShift == \A j, k \in held \cap ShiftKey : j = k

-----------------------------------------------------------------------------
LEMMA Lengths ==
    ASSUME TypeOK
    PROVE  Len(queue) \in Nat /\ \A i \in 1 .. Len(queue) : queue[i] \in Scancode
  BY LenProperties, ElementOfSeq DEF TypeOK

LEMMA InitType == Init => TypeOK /\ Len(queue) = 0
  <1> SUFFICES ASSUME Init PROVE TypeOK /\ Len(queue) = 0
    OBVIOUS
  <1>1. queue \in Seq(Scancode) /\ Len(queue) = 0
    BY EmptySeq DEF Init
  <1>2. held \subseteq Held /\ lost \subseteq Modifier /\ typed \in Char \cup {NoChar}
    BY DEF Init
  <1>3. {capsOn, shift_pressed, ctrl_pressed, alt_pressed, caps_lock} \subseteq BOOLEAN
    BY DEF Init
  <1> QED
    BY <1>1, <1>2, <1>3, KeyAssumption DEF TypeOK

LEMMA MeaningType == ASSUME NEW k \in Key PROVE Meaning(k) \in Char \cup {NoChar}
  BY DEF Meaning, Char, ShiftHeld

LEMMA NextType == TypeOK /\ [Next]_vars => TypeOK'
  <1> SUFFICES ASSUME TypeOK, [Next]_vars PROVE TypeOK'
    OBVIOUS
  <1>1. ASSUME NEW k \in Key, NEW up \in BOOLEAN, Send(k, up)
        PROVE  /\ queue' \in Seq(Scancode) /\ Len(queue') <= QueueLen
               /\ lost' \subseteq Modifier
    <2> DEFINE code == [key |-> k, released |-> up,
                        meant |-> IF up THEN NoChar ELSE Meaning(k)]
    <2>1. code \in Scancode
      BY MeaningType DEF Scancode
    <2>2. CASE Len(queue) < QueueLen
      <3>1. queue' = Append(queue, code)
        BY <1>1, <2>2 DEF Send
      <3>2. lost' = lost \ ({k} \ {SC_CAPS})
        BY <1>1, <2>2 DEF Send
      <3> HIDE DEF code
      <3>3. queue' \in Seq(Scancode) /\ Len(queue') = Len(queue) + 1
        BY <2>1, <3>1, AppendProperties DEF TypeOK
      <3> QED
        BY <2>2, <3>2, <3>3, Lengths, KeyAssumption DEF TypeOK
    <2>3. CASE ~ Len(queue) < QueueLen
      BY <1>1, <2>3 DEF Send, TypeOK
    <2> QED
      BY <2>2, <2>3
  <1>2. ASSUME NEW k \in Key, Strike(k) \/ Release(k) PROVE TypeOK'
    <2>1. Send(k, TRUE) \/ Send(k, FALSE)
      BY <1>2 DEF Strike, Release
    <2>2. UNCHANGED <<modifiers, typed>>
      BY <2>1 DEF Send
    <2>3. held' \subseteq Held /\ capsOn' \in BOOLEAN
      BY <1>2 DEF Strike, Release, TypeOK
    <2> QED
      BY <2>1, <2>2, <2>3, <1>1 DEF TypeOK, modifiers
  <1>3. CASE keyboard_callback
    <2>1. queue # <<>> /\ queue' = Tail(queue)
      BY <1>3 DEF keyboard_callback
    <2>2. queue' \in Seq(Scancode) /\ Len(queue') = Len(queue) - 1
      BY <2>1, HeadTailProperties DEF TypeOK
    <2>3. Len(queue') <= QueueLen
      BY <2>2, Lengths, KeyAssumption DEF TypeOK
    <2>4. Modify(Head(queue).key, ~Head(queue).released)
      BY <1>3 DEF keyboard_callback
    <2>5. typed' \in Char \cup {NoChar}
      BY <1>3 DEF keyboard_callback, Shifted, Char, TypeOK
    <2>6. UNCHANGED <<held, capsOn, lost>>
      BY <1>3 DEF keyboard_callback
    <2>7. {shift_pressed', ctrl_pressed', alt_pressed', caps_lock'} \subseteq BOOLEAN
      BY <2>4 DEF Modify, TypeOK
    <2> QED
      BY <2>2, <2>3, <2>5, <2>6, <2>7 DEF TypeOK
  <1>4. CASE UNCHANGED vars
    BY <1>4 DEF vars, modifiers, TypeOK
  <1> QED
    BY <1>2, <1>3, <1>4 DEF Next

\* A scancode that finds room goes to the end of the trace.
LEMMA Sent ==
    ASSUME TypeOK, NEW code \in Scancode, queue' = Append(queue, code),
           UNCHANGED modifiers, NEW f, Trace(f)
    PROVE  \E g : /\ Trace(g)'
                  /\ Len(queue') = Len(queue) + 1
                  /\ \A i \in 1 .. Len(queue) : queue'[i] = queue[i] /\ g[i - 1] = f[i - 1]
                  /\ queue'[Len(queue')] = code
                  /\ g[Len(queue)] = f[Len(queue)]
                  /\ g[Len(queue')] = After(code, f[Len(queue)])
  <1> DEFINE n == Len(queue)
  <1> PICK g : g = [i \in 0 .. (n + 1) |-> IF i <= n THEN f[i] ELSE After(code, f[n])]
    OBVIOUS
  <1>1. n \in Nat
    BY Lengths
  <1>2. /\ queue' \in Seq(Scancode) /\ Len(queue') = n + 1
        /\ queue'[n + 1] = code
        /\ \A i \in 1 .. n : queue'[i] = queue[i]
    BY AppendProperties DEF TypeOK
  <1>3. f \in [0 .. n -> Flags] /\ f[0] = FlagsNow
        /\ \A i \in 1 .. n : f[i] = After(queue[i], f[i - 1])
    BY DEF Trace
  <1>4. \A x \in Flags : After(code, x) \in Flags
    BY DEF After, Flags, Scancode
  <1>5. FlagsNow' = FlagsNow
    BY DEF FlagsNow, modifiers
  <1> HIDE DEF n
  <1>6. g \in [0 .. (n + 1) -> Flags]
    BY <1>1, <1>3, <1>4
  <1>7. \A i \in 0 .. n : g[i] = f[i]
    BY <1>1
  <1>8. g[n + 1] = After(code, f[n])
    BY <1>1
  <1>9. \A i \in 1 .. (n + 1) : g[i] = After(queue'[i], g[i - 1])
    <2> SUFFICES ASSUME NEW i \in 1 .. (n + 1) PROVE g[i] = After(queue'[i], g[i - 1])
      OBVIOUS
    <2>1. CASE i = n + 1
      BY <2>1, <1>1, <1>2, <1>7, <1>8
    <2>2. CASE i # n + 1
      <3>1. i \in 1 .. n /\ i \in 0 .. n /\ i - 1 \in 0 .. n
        BY <2>2, <1>1
      <3> QED
        BY <3>1, <1>2, <1>3, <1>7
    <2> QED
      BY <2>1, <2>2
  <1>10. g[0] = FlagsNow'
    BY <1>1, <1>3, <1>5, <1>7
  <1>11. Trace(g)'
    BY <1>2, <1>6, <1>9, <1>10 DEF Trace
  <1>12. \A i \in 1 .. n : i - 1 \in 0 .. n
    BY <1>1
  <1>13. \A i \in 1 .. n : g[i - 1] = f[i - 1]
    BY <1>7, <1>12
  <1>14. n \in 0 .. n
    BY <1>1
  <1> WITNESS g
  <1> QED
    BY <1>2, <1>7, <1>8, <1>11, <1>13, <1>14 DEF n

\* The driver takes the first scancode, and the trace goes on from its flags.
LEMMA Seen ==
    ASSUME TypeOK, keyboard_callback, NEW f, Trace(f)
    PROVE  \E g : /\ Trace(g)'
                  /\ Len(queue') = Len(queue) - 1
                  /\ 1 \in 1 .. Len(queue) /\ Head(queue) = queue[1]
                  /\ \A i \in 1 .. Len(queue') :
                        i + 1 \in 1 .. Len(queue) /\ queue'[i] = queue[i + 1]
                        /\ g[i - 1] = f[i]
                  /\ g[Len(queue')] = f[Len(queue)]
  <1> DEFINE n == Len(queue) - 1
  <1> PICK g : g = [i \in 0 .. n |-> f[i + 1]]
    OBVIOUS
  <1>1. queue # <<>> /\ queue' = Tail(queue) /\ queue \in Seq(Scancode)
    BY DEF keyboard_callback, TypeOK
  <1>2. /\ n \in Nat /\ Len(queue) = n + 1 /\ Len(queue') = n
        /\ Head(queue) = queue[1]
        /\ \A i \in 1 .. n : queue'[i] = queue[i + 1]
    <2>1. Len(queue) \in Nat /\ Len(queue) # 0
      BY <1>1, EmptySeq, LenProperties
    <2>2. Len(queue') = n
      BY <1>1, HeadTailProperties
    <2>3. \A i \in 1 .. n : queue'[i] = queue[i + 1]
      BY <1>1, HeadTailProperties
    <2> QED
      BY <1>1, <2>1, <2>2, <2>3
  <1>3. /\ f \in [0 .. (n + 1) -> Flags]
        /\ f[0] = FlagsNow
        /\ \A i \in 1 .. (n + 1) : f[i] = After(queue[i], f[i - 1])
    BY <1>2 DEF Trace
  <1>4. f[1] = FlagsNow'
    <2>1. f[1] = After(queue[1], f[0])
      <3>1. 1 \in 1 .. (n + 1) /\ 1 - 1 = 0
        BY <1>2
      <3> QED
        BY <3>1, <1>3
    <2>2. Modify(queue[1].key, ~queue[1].released)
      BY <1>2 DEF keyboard_callback
    <2> QED
      BY <2>1, <2>2, <1>3 DEF Modify, After, FlagsNow
  <1> HIDE DEF n
  <1>5. g \in [0 .. n -> Flags]
    BY <1>2, <1>3
  <1>6. \A i \in 0 .. n : g[i] = f[i + 1]
    OBVIOUS
  <1>7. \A i \in 1 .. n : g[i] = After(queue'[i], g[i - 1])
    <2> SUFFICES ASSUME NEW i \in 1 .. n PROVE g[i] = After(queue'[i], g[i - 1])
      OBVIOUS
    <2>1. i \in 0 .. n /\ i - 1 \in 0 .. n /\ i + 1 \in 1 .. (n + 1)
          /\ (i + 1) - 1 = i /\ (i - 1) + 1 = i
      BY <1>2
    <2> QED
      BY <2>1, <1>2, <1>3, <1>6
  <1>8. g[0] = FlagsNow'
    <2>1. 0 \in 0 .. n /\ 0 + 1 = 1
      BY <1>2
    <2> QED
      BY <2>1, <1>4, <1>6
  <1>9. Trace(g)'
    BY <1>2, <1>5, <1>7, <1>8 DEF Trace
  <1>10. \A i \in 1 .. n : i + 1 \in 1 .. (n + 1) /\ i - 1 \in 0 .. n /\ (i - 1) + 1 = i
    BY <1>2
  <1>11. n \in 0 .. n
    BY <1>2
  <1>12. \A i \in 1 .. n : g[i - 1] = f[i]
    BY <1>6, <1>10
  <1>13. g[n] = f[n + 1]
    BY <1>6, <1>11
  <1>14. 1 \in 1 .. (n + 1)
    BY <1>2
  <1> WITNESS g
  <1> QED
    BY <1>2, <1>9, <1>10, <1>12, <1>13, <1>14

-----------------------------------------------------------------------------
(* What the user's hands do to the end of the trace *)

\* The scancode that Strike or Release sends, with what was meant by it.
CodeOf(k, up) == [key |-> k, released |-> up,
                  meant |-> IF up THEN NoChar ELSE Meaning(k)]

\* A key goes down or up.
Moves(k, up) ==
    /\ Send(k, up)
    /\ k \in Held /\ up => k \in held
    /\ held' = IF up THEN held \ {k} ELSE held \cup ({k} \cap Held)
    /\ capsOn' = IF k = SC_CAPS /\ ~up THEN ~capsOn ELSE capsOn

LEMMA HandsMove ==
    ASSUME NEW k \in Key, Strike(k) \/ Release(k)
    PROVE  \E up \in BOOLEAN : Moves(k, up)
  <1>1. CASE Strike(k)
    BY <1>1 DEF Strike, Moves
  <1>2. CASE Release(k)
    BY <1>2 DEF Release, Moves
  <1> QED
    BY <1>1, <1>2

LEMMA SendFacts ==
    ASSUME TypeOK, NEW k \in Key, NEW up \in BOOLEAN, Send(k, up)
    PROVE  /\ CodeOf(k, up) \in Scancode
           /\ UNCHANGED modifiers
           /\ \/ /\ queue' = Append(queue, CodeOf(k, up))
                 /\ lost' = lost \ ({k} \ {SC_CAPS})
              \/ /\ UNCHANGED queue
                 /\ lost' = lost \cup ({k} \cap Modifier)
  BY MeaningType DEF Send, CodeOf, Scancode

\* The end of the trace follows a key that finds room ...
LEMMA HeldAfter ==
    ASSUME NEW k \in Key, NEW up \in BOOLEAN, Moves(k, up),
           lost' = lost \ ({k} \ {SC_CAPS}),
           NEW x \in Flags, HeldOrLost(x), TypeOK,
           NEW z, z = After(CodeOf(k, up), x)
    PROVE  HeldOrLost(z)'
  <1>1. /\ z.shift = IF k \in ShiftKey THEN ~up ELSE x.shift
        /\ z.ctrl = IF k = SC_CTRL THEN ~up ELSE x.ctrl
        /\ z.alt = IF k = SC_ALT THEN ~up ELSE x.alt
        /\ z.caps = IF k = SC_CAPS /\ ~up THEN ~x.caps ELSE x.caps
    BY DEF After, CodeOf
  <1>2. /\ held' = IF up THEN held \ {k} ELSE held \cup ({k} \cap Held)
        /\ capsOn' = IF k = SC_CAPS /\ ~up THEN ~capsOn ELSE capsOn
    BY DEF Moves
  <1> USE KeyAssumption DEF HeldOrLost, Held, Modifier
  <1>3. z.shift => (held' \cup lost') \cap ShiftKey # {}
    BY <1>1, <1>2
  <1>4. z.ctrl => SC_CTRL \in held' \cup lost'
    BY <1>1, <1>2
  <1>5. z.alt => SC_ALT \in held' \cup lost'
    BY <1>1, <1>2
  <1>6. SC_CAPS \notin lost' => z.caps = capsOn'
    BY <1>1, <1>2 DEF Flags, TypeOK
  <1> QED
    BY <1>3, <1>4, <1>5, <1>6

LEMMA ExactAfter ==
    ASSUME NEW k \in Key, NEW up \in BOOLEAN, Moves(k, up), OneShift,
           lost' = lost \ ({k} \ {SC_CAPS}),
           NEW x \in Flags, ShiftExact(x), TypeOK,
           NEW z, z = After(CodeOf(k, up), x)
    PROVE  ShiftExact(z)'
  <1>1. /\ z.shift = IF k \in ShiftKey THEN ~up ELSE x.shift
        /\ z.caps = IF k = SC_CAPS /\ ~up THEN ~x.caps ELSE x.caps
    BY DEF After, CodeOf
  <1>2. /\ held' = IF up THEN held \ {k} ELSE held \cup ({k} \cap Held)
        /\ capsOn' = IF k = SC_CAPS /\ ~up THEN ~capsOn ELSE capsOn
        /\ k \in Held /\ up => k \in held
    BY DEF Moves
  <1> USE KeyAssumption DEF ShiftExact, Held, Modifier
  <1>3. ASSUME lost' \cap ShiftKey = {} PROVE z.shift = ShiftHeld'
    <2>1. ShiftHeld' = (held' \cap ShiftKey # {})
      BY DEF ShiftHeld
    <2>2. CASE k \in ShiftKey /\ up
      BY <1>1, <1>2, <2>1, <2>2 DEF OneShift
    <2>3. CASE k \in ShiftKey /\ ~up
      BY <1>1, <1>2, <2>1, <2>3
    <2>4. CASE k \notin ShiftKey
      <3>1. lost \cap ShiftKey = {} /\ held' \cap ShiftKey = held \cap ShiftKey
        BY <1>2, <1>3, <2>4
      <3> QED
        BY <1>1, <2>1, <2>4, <3>1 DEF ShiftHeld
    <2> QED
      BY <2>2, <2>3, <2>4
  <1>4. SC_CAPS \notin lost' => z.caps = capsOn'
    BY <1>1, <1>2 DEF Flags, TypeOK
  <1> QED
    BY <1>3, <1>4

\* ... and knows nothing of a modifier that finds none.
LEMMA HeldLost ==
    ASSUME NEW k \in Key, NEW up \in BOOLEAN, Moves(k, up),
           lost' = lost \cup ({k} \cap Modifier),
           NEW x \in Flags, HeldOrLost(x)
    PROVE  HeldOrLost(x)'
  <1>1. /\ held' = IF up THEN held \ {k} ELSE held \cup ({k} \cap Held)
        /\ capsOn' = IF k = SC_CAPS /\ ~up THEN ~capsOn ELSE capsOn
    BY DEF Moves
  <1>2. held \cup lost \subseteq held' \cup lost' \cup (Key \ Modifier)
    BY <1>1
  <1> USE KeyAssumption DEF HeldOrLost, Held, Modifier
  <1>3. x.shift => (held' \cup lost') \cap ShiftKey # {}
    BY <1>1
  <1>4. (x.ctrl => SC_CTRL \in held' \cup lost') /\ (x.alt => SC_ALT \in held' \cup lost')
    BY <1>1
  <1>5. SC_CAPS \notin lost' => x.caps = capsOn'
    BY <1>1
  <1> QED
    BY <1>3, <1>4, <1>5

LEMMA ExactLost ==
    ASSUME NEW k \in Key, NEW up \in BOOLEAN, Moves(k, up),
           lost' = lost \cup ({k} \cap Modifier),
           NEW x \in Flags, ShiftExact(x)
    PROVE  ShiftExact(x)'
  <1>1. /\ held' = IF up THEN held \ {k} ELSE held \cup ({k} \cap Held)
        /\ capsOn' = IF k = SC_CAPS /\ ~up THEN ~capsOn ELSE capsOn
    BY DEF Moves
  <1> USE KeyAssumption DEF ShiftExact, Held, Modifier
  <1>2. ASSUME lost' \cap ShiftKey = {} PROVE x.shift = ShiftHeld'
    <2>1. lost \cap ShiftKey = {} /\ held' \cap ShiftKey = held \cap ShiftKey
      BY <1>1, <1>2
    <2> QED
      BY <2>1 DEF ShiftHeld
  <1>3. SC_CAPS \notin lost' => x.caps = capsOn'
    BY <1>1
  <1> QED
    BY <1>2, <1>3

-----------------------------------------------------------------------------
(* The keyboard: the invariants *)

LEMMA InitTrace == Init => \E f : Trace(f) /\ f[Len(queue)] = FlagsNow /\ Len(queue) = 0
  <1> SUFFICES ASSUME Init PROVE \E f : Trace(f) /\ f[Len(queue)] = FlagsNow /\ Len(queue) = 0
    OBVIOUS
  <1>1. Len(queue) = 0
    BY InitType
  <1>2. FlagsNow \in Flags
    BY DEF Init, FlagsNow, Flags
  <1> WITNESS [i \in 0 .. 0 |-> FlagsNow]
  <1> QED
    BY <1>1, <1>2 DEF Trace

\* Where the trace ends there are flags.
LEMMA TraceEnd ==
    ASSUME TypeOK, NEW f, Trace(f), NEW i \in 0 .. Len(queue) PROVE f[i] \in Flags
  BY DEF Trace

LEMMA TraceUnchanged ==
    ASSUME NEW f, Trace(f), UNCHANGED <<queue, modifiers>> PROVE Trace(f)'
  BY DEF Trace, FlagsNow, modifiers

LEMMA StuckInductive == Spec => []StuckInv
  <1>1. Init => StuckInv
    <2> SUFFICES ASSUME Init PROVE StuckInv
      OBVIOUS
    <2>1. PICK f : Trace(f) /\ f[Len(queue)] = FlagsNow
      BY InitTrace
    <2>2. HeldOrLost(FlagsNow)
      BY DEF Init, HeldOrLost, FlagsNow
    <2> QED
      BY <2>1, <2>2, InitType DEF StuckInv
  <1>2. StuckInv /\ [Next]_vars => StuckInv'
    <2> SUFFICES ASSUME StuckInv, [Next]_vars PROVE StuckInv'
      OBVIOUS
    <2>1. TypeOK /\ TypeOK' /\ Len(queue) \in Nat /\ Len(queue') \in Nat
      BY NextType, Lengths DEF StuckInv
    <2>2. PICK f : Trace(f) /\ HeldOrLost(f[Len(queue)])
      BY DEF StuckInv
    <2>3. f[Len(queue)] \in Flags
      BY <2>1, <2>2, TraceEnd
    <2>4. ASSUME NEW k \in Key, Strike(k) \/ Release(k) PROVE StuckInv'
      <3>1. PICK up \in BOOLEAN : Moves(k, up)
        BY <2>4, HandsMove
      <3>2. Send(k, up)
        BY <3>1 DEF Moves
      <3>3. CASE /\ queue' = Append(queue, CodeOf(k, up))
                 /\ lost' = lost \ ({k} \ {SC_CAPS})
        <4>1. CodeOf(k, up) \in Scancode /\ UNCHANGED modifiers
          BY <2>1, <3>2, SendFacts
        <4>2. PICK g : /\ Trace(g)'
                       /\ g[Len(queue')] = After(CodeOf(k, up), f[Len(queue)])
          BY <2>1, <2>2, <3>3, <4>1, Sent
        <4>3. HeldOrLost(g[Len(queue)])'
          <5> PICK z : z = g[Len(queue')]
            OBVIOUS
          <5>1. HeldOrLost(z)'
            BY <2>1, <2>2, <2>3, <3>1, <3>3, <4>2, HeldAfter
          <5> QED
            BY <5>1 DEF HeldOrLost
        <4> QED
          BY <2>1, <4>2, <4>3 DEF StuckInv
      <3>4. CASE /\ UNCHANGED queue
                 /\ lost' = lost \cup ({k} \cap Modifier)
        <4>1. UNCHANGED modifiers
          BY <2>1, <3>2, SendFacts
        <4>2. Trace(f)'
          BY <2>2, <3>4, <4>1, TraceUnchanged
        <4>3. HeldOrLost(f[Len(queue)])'
          <5> PICK z : z = f[Len(queue)]
            OBVIOUS
          <5>1. HeldOrLost(z)'
            BY <2>2, <2>3, <3>1, <3>4, HeldLost
          <5> QED
            BY <5>1, <3>4 DEF HeldOrLost
        <4> QED
          BY <2>1, <4>2, <4>3 DEF StuckInv
      <3> QED
        BY <2>1, <3>2, <3>3, <3>4, SendFacts
    <2>5. CASE keyboard_callback
      <3>1. PICK g : Trace(g)' /\ g[Len(queue')] = f[Len(queue)]
        BY <2>1, <2>2, <2>5, Seen
      <3>2. HeldOrLost(g[Len(queue)])'
        BY <2>2, <2>5, <3>1 DEF HeldOrLost, keyboard_callback
      <3> QED
        BY <2>1, <3>1, <3>2 DEF StuckInv
    <2>6. CASE UNCHANGED vars
      <3>1. Trace(f)' /\ HeldOrLost(f[Len(queue)])'
        BY <2>2, <2>6, TraceUnchanged DEF vars, HeldOrLost
      <3> QED
        BY <2>1, <3>1 DEF StuckInv
    <2> QED
      BY <2>4, <2>5, <2>6 DEF Next
  <1> QED
    BY <1>1, <1>2, PTL DEF Spec

\* What is meant when a key is struck is what the driver will make of it.
LEMMA MeaningExact ==
    ASSUME NEW k \in Key, NEW up \in BOOLEAN, NEW x, ShiftExact(x),
           CodeOf(k, up).meant # NoChar
    PROVE  CodeOf(k, up).meant = CharOf(CodeOf(k, up), x)
  <1>1. ~up /\ CodeOf(k, up).meant = Meaning(k)
    BY DEF CodeOf
  <1>2. k \in CharKey /\ lost \cap ShiftKey = {} /\ SC_CAPS \notin lost
    BY <1>1 DEF Meaning
  <1>3. x.shift = ShiftHeld /\ x.caps = capsOn
    BY <1>2 DEF ShiftExact
  <1>4. Meaning(k) = [key |-> k,
                      shifted |-> IF k \in Letter /\ capsOn THEN ~ShiftHeld ELSE ShiftHeld]
    BY <1>1 DEF Meaning
  <1>5. CharOf(CodeOf(k, up), x) =
            [key |-> k, shifted |-> IF k \in Letter /\ x.caps THEN ~x.shift ELSE x.shift]
    BY <1>1, <1>2 DEF CharOf, CodeOf
  <1> QED
    BY <1>1, <1>3, <1>4, <1>5

LEMMA MeantInductive == Spec /\ []OneShift => []MeantInv
  <1>1. Init => MeantInv
    <2> SUFFICES ASSUME Init PROVE MeantInv
      OBVIOUS
    <2>1. PICK f : Trace(f) /\ f[Len(queue)] = FlagsNow /\ Len(queue) = 0
      BY InitTrace
    <2>2. ShiftExact(FlagsNow)
      BY DEF Init, ShiftExact, FlagsNow, ShiftHeld
    <2>3. MeantOK(f)
      BY <2>1 DEF MeantOK
    <2> QED
      BY <2>1, <2>2, <2>3, InitType DEF MeantInv
  <1>2. MeantInv /\ OneShift /\ [Next]_vars => MeantInv'
    <2> SUFFICES ASSUME MeantInv, OneShift, [Next]_vars PROVE MeantInv'
      OBVIOUS
    <2>1. TypeOK /\ TypeOK' /\ Len(queue) \in Nat /\ Len(queue') \in Nat
      BY NextType, Lengths DEF MeantInv
    <2>2. PICK f : Trace(f) /\ MeantOK(f) /\ ShiftExact(f[Len(queue)])
      BY DEF MeantInv
    <2>3. f[Len(queue)] \in Flags
      BY <2>1, <2>2, TraceEnd
    <2>4. ASSUME NEW k \in Key, Strike(k) \/ Release(k) PROVE MeantInv'
      <3>1. PICK up \in BOOLEAN : Moves(k, up)
        BY <2>4, HandsMove
      <3>2. Send(k, up)
        BY <3>1 DEF Moves
      <3>3. CASE /\ queue' = Append(queue, CodeOf(k, up))
                 /\ lost' = lost \ ({k} \ {SC_CAPS})
        <4> DEFINE n == Len(queue)
        <4>1. CodeOf(k, up) \in Scancode /\ UNCHANGED modifiers
          BY <2>1, <3>2, SendFacts
        <4>2. PICK g : /\ Trace(g)'
                       /\ Len(queue') = n + 1
                       /\ \A i \in 1 .. n : queue'[i] = queue[i] /\ g[i - 1] = f[i - 1]
                       /\ queue'[Len(queue')] = CodeOf(k, up)
                       /\ g[n] = f[n]
                       /\ g[Len(queue')] = After(CodeOf(k, up), f[n])
          BY <2>1, <2>2, <3>3, <4>1, Sent
        <4>3. ShiftExact(g[Len(queue)])'
          <5> PICK z : z = g[Len(queue')]
            OBVIOUS
          <5>1. ShiftExact(z)'
            BY <2>1, <2>2, <2>3, <3>1, <3>3, <4>2, ExactAfter
          <5> QED
            BY <5>1 DEF ShiftExact, ShiftHeld
        <4>4. ASSUME NEW i \in 1 .. (n + 1), queue'[i].meant # NoChar
              PROVE  queue'[i].meant = CharOf(queue'[i], g[i - 1])
          <5>1. CASE i = n + 1
            <6>1. queue'[i] = CodeOf(k, up) /\ g[i - 1] = f[n]
              BY <2>1, <4>2, <5>1
            <6> QED
              BY <2>2, <4>4, <6>1, MeaningExact
          <5>2. CASE i # n + 1
            <6>1. i \in 1 .. n
              BY <2>1, <5>2
            <6> QED
              BY <2>2, <4>2, <4>4, <6>1 DEF MeantOK
          <5> QED
            BY <5>1, <5>2
        <4>5. MeantOK(g)'
          BY <4>2, <4>4 DEF MeantOK, CharOf
        <4> QED
          BY <2>1, <4>2, <4>3, <4>5 DEF MeantInv
      <3>4. CASE /\ UNCHANGED queue
                 /\ lost' = lost \cup ({k} \cap Modifier)
        <4>1. UNCHANGED modifiers
          BY <2>1, <3>2, SendFacts
        <4>2. Trace(f)' /\ MeantOK(f)'
          BY <2>2, <3>4, <4>1, TraceUnchanged DEF MeantOK, CharOf
        <4>3. ShiftExact(f[Len(queue)])'
          <5> PICK z : z = f[Len(queue)]
            OBVIOUS
          <5>1. ShiftExact(z)'
            BY <2>2, <2>3, <3>1, <3>4, ExactLost
          <5> QED
            BY <5>1, <3>4 DEF ShiftExact, ShiftHeld
        <4> QED
          BY <2>1, <4>2, <4>3 DEF MeantInv
      <3> QED
        BY <2>1, <3>2, <3>3, <3>4, SendFacts
    <2>5. CASE keyboard_callback
      <3>1. PICK g : /\ Trace(g)'
                     /\ \A i \in 1 .. Len(queue') :
                           i + 1 \in 1 .. Len(queue) /\ queue'[i] = queue[i + 1]
                           /\ g[i - 1] = f[i]
                     /\ g[Len(queue')] = f[Len(queue)]
        BY <2>1, <2>2, <2>5, Seen
      <3>2. ShiftExact(g[Len(queue)])'
        BY <2>2, <2>5, <3>1 DEF ShiftExact, ShiftHeld, keyboard_callback
      <3>3. MeantOK(g)'
        <4>1. ASSUME NEW i \in 1 .. Len(queue'), queue'[i].meant # NoChar
              PROVE  queue'[i].meant = CharOf(queue'[i], g[i - 1])
          <5>1. i + 1 \in 1 .. Len(queue) /\ (i + 1) - 1 = i
            BY <2>1, <3>1
          <5> QED
            BY <2>2, <3>1, <4>1, <5>1 DEF MeantOK
        <4> QED
          BY <4>1 DEF MeantOK, CharOf
      <3> QED
        BY <2>1, <3>1, <3>2, <3>3 DEF MeantInv
    <2>6. CASE UNCHANGED vars
      <3>1. Trace(f)' /\ MeantOK(f)' /\ ShiftExact(f[Len(queue)])'
        BY <2>2, <2>6, TraceUnchanged DEF vars, MeantOK, CharOf, ShiftExact, ShiftHeld
      <3> QED
        BY <2>1, <3>1 DEF MeantInv
    <2> QED
      BY <2>4, <2>5, <2>6 DEF Next
  <1> QED
    BY <1>1, <1>2, PTL DEF Spec

-----------------------------------------------------------------------------
(* The keyboard: the theorems *)

\* Every variable keeps its type, and no more scancodes wait than there is
\* room for.
THEOREM KeyboardTypes == Spec => []TypeOK
  BY StuckInductive, PTL DEF StuckInv

\* No modifier stays on behind the user's back: however far the driver is
\* behind and whatever was lost, once it has caught up a flag is on only for a
\* key that is down or whose last scancode was lost.  Both shift keys may be
\* down at once.
THEOREM NothingSticks == Spec => []NoStuckModifier
  <1>1. StuckInv => NoStuckModifier
    <2> SUFFICES ASSUME StuckInv, queue = <<>>
                 PROVE  /\ (held \cup lost) \cap ShiftKey = {} => ~shift_pressed
                        /\ SC_CTRL \notin held \cup lost => ~ctrl_pressed
                        /\ SC_ALT \notin held \cup lost => ~alt_pressed
                        /\ SC_CAPS \notin lost => caps_lock = capsOn
      BY DEF NoStuckModifier
    <2>1. PICK f : Trace(f) /\ HeldOrLost(f[Len(queue)])
      BY DEF StuckInv
    <2>2. Len(queue) = 0
      BY EmptySeq
    <2>3. HeldOrLost(FlagsNow)
      BY <2>1, <2>2 DEF Trace
    <2> QED
      BY <2>3 DEF HeldOrLost, FlagsNow
  <1> QED
    BY <1>1, StuckInductive, PTL

\* The shell gets the character that was meant when the key was struck, however
\* late the driver runs, if the user does not hold down both shift keys at once.
THEOREM MeantTyped == Spec /\ []OneShift => MeantIsTyped
  <1> DEFINE code == Head(queue)
             A == Len(queue') < Len(queue) =>
                    /\ code.meant # NoChar => typed' = code.meant
                    /\ code.released \/ code.key \notin CharKey => typed' = NoChar
  <1>1. ASSUME MeantInv, [Next]_vars, Len(queue') < Len(queue)
        PROVE  /\ code.meant # NoChar => typed' = code.meant
               /\ code.released \/ code.key \notin CharKey => typed' = NoChar
    <2>1. TypeOK /\ Len(queue) \in Nat
      BY <1>1, Lengths DEF MeantInv
    <2>2. queue' # queue
      BY <1>1, <2>1
    <2>3. ASSUME NEW k \in Key, Strike(k) \/ Release(k) PROVE FALSE
      <3>1. PICK up \in BOOLEAN : Send(k, up)
        BY <2>3 DEF Strike, Release
      <3>2. queue' = Append(queue, CodeOf(k, up)) /\ CodeOf(k, up) \in Scancode
        BY <2>1, <2>2, <3>1, SendFacts
      <3>3. Len(queue') = Len(queue) + 1
        BY <2>1, <3>2, AppendProperties DEF TypeOK
      <3> QED
        BY <1>1, <2>1, <3>3
    <2>4. keyboard_callback
      BY <1>1, <2>2, <2>3 DEF Next, vars
    <2>5. PICK f : Trace(f) /\ MeantOK(f)
      BY <1>1 DEF MeantInv
    <2>6. 1 \in 1 .. Len(queue) /\ code = queue[1]
      BY <2>1, <2>4, <2>5, Seen
    <2>7. f[0] = FlagsNow /\ 1 - 1 = 0
      BY <2>5 DEF Trace
    <2>8. typed' = CharOf(code, FlagsNow)
      BY <2>4 DEF keyboard_callback, CharOf, Shifted, FlagsNow
    <2>9. code.meant # NoChar => code.meant = CharOf(code, FlagsNow)
      BY <2>5, <2>6, <2>7 DEF MeantOK
    <2> QED
      BY <2>8, <2>9 DEF CharOf
  <1>2. MeantInv /\ [Next]_vars => [A]_vars
    BY <1>1
  <1> QED
    BY <1>2, MeantInductive, PTL DEF Spec, MeantIsTyped

\* So it is whatever the user does, if the keyboard has one shift key.
COROLLARY MeantTypedOneKey ==
    ASSUME \A j, k \in ShiftKey : j = k
    PROVE  Spec => MeantIsTyped
  <1>1. OneShift
    BY DEF OneShift
  <1> QED
    BY <1>1, MeantTyped, PTL

-----------------------------------------------------------------------------
(* The console: its cursors and its screen *)

Cursor == [row : Row, col : 0 .. VGA_WIDTH]
Screen == [Row -> [Col -> {Empty, Text, Bar}]]

LEMMA ConsoleSizes ==
    /\ VGA_WIDTH \in Nat /\ VGA_WIDTH > 1
    /\ VGA_HEIGHT \in Nat /\ VGA_HEIGHT > 2
    /\ Byte \in Nat /\ Byte > 0
    /\ BarRow \in Row /\ LastContentRow \in Row /\ LastContentRow + 1 = BarRow
    /\ Row = 0 .. BarRow
    /\ Blanked \in Screen
  BY ConsoleAssumption DEF BarRow, LastContentRow, Row, Blanked, Screen

\* A number that two digits hold has two digits.
LEMMA Quotient ==
    ASSUME NEW d \in Nat, NEW q \in Nat, NEW r \in Nat, q * d + r < d * d
    PROVE  q < d
  <1> SUFFICES ASSUME q >= d PROVE FALSE
    OBVIOUS
  <1>1. PICK e \in Nat : q = d + e
    <2>1. q - d \in Nat /\ q = d + (q - d)
      OBVIOUS
    <2> QED
      BY <2>1
  <1>2. q * d = d * d + e * d
    BY <1>1
  <1>3. e * d \in Nat /\ d * d \in Nat
    OBVIOUS
  <1> QED
    BY <1>2, <1>3

\* What the bytes of the hardware cursor say of a position.
LEMMA PositionRead ==
    ASSUME NEW cur \in Cursor, NEW h, h = vga_set_hw_cursor(cur)
    PROVE  /\ h.low \in 0 .. Byte - 1 /\ h.high \in 0 .. Byte - 1 /\ h.index = "high"
           /\ (h.high * Byte + h.low) \div VGA_WIDTH = cur.row
  <1> PICK c : c = Clamped(cur)
    OBVIOUS
  <1>1. c.row = cur.row /\ c.row \in 0 .. VGA_HEIGHT - 1 /\ c.col \in 0 .. VGA_WIDTH - 1
    <2>1. cur.row \in 0 .. VGA_HEIGHT - 1 /\ cur.col \in 0 .. VGA_WIDTH
      BY ConsoleSizes DEF Cursor, Row
    <2>2. c = At(cur.row, IF cur.col >= VGA_WIDTH THEN VGA_WIDTH - 1 ELSE cur.col)
      BY <2>1, ConsoleSizes DEF Clamped
    <2> QED
      BY <2>1, <2>2, ConsoleSizes DEF At
  <1> PICK p : p = Position(cur)
    OBVIOUS
  <1>2. p = c.row * VGA_WIDTH + c.col
    BY DEF Position
  <1> HIDE DEF Cursor
  <1>3. p \in Nat /\ p < VGA_WIDTH * VGA_HEIGHT
    <2>1. c.row * VGA_WIDTH \in Nat /\ c.row * VGA_WIDTH <= (VGA_HEIGHT - 1) * VGA_WIDTH
      BY <1>1, ConsoleSizes
    <2>2. (VGA_HEIGHT - 1) * VGA_WIDTH = VGA_WIDTH * VGA_HEIGHT - VGA_WIDTH
      BY ConsoleSizes
    <2>3. VGA_WIDTH * VGA_HEIGHT \in Nat
      BY ConsoleSizes
    <2> QED
      BY <1>1, <1>2, <2>1, <2>2, <2>3, ConsoleSizes
  <1>4. p \div VGA_WIDTH = c.row
    <2>1. VGA_WIDTH \in Nat \ {0} /\ c.row \in Nat
      BY <1>1, ConsoleSizes
    <2>2. (c.row * VGA_WIDTH + c.col) \div VGA_WIDTH = c.row
      BY <1>1, <2>1, DivModUnique
    <2> QED
      BY <1>2, <2>2
  <1> PICK q, r : q = p \div Byte /\ r = p % Byte
    OBVIOUS
  <1>5. q \in Nat /\ r \in 0 .. Byte - 1 /\ p = q * Byte + r
    <2>1. Byte \in Nat \ {0} /\ p \in Nat
      BY <1>3, ConsoleSizes
    <2>2. /\ p \div Byte \in Nat
          /\ p % Byte \in 0 .. Byte - 1
          /\ p = (p \div Byte) * Byte + (p % Byte)
      BY <2>1, DivMod
    <2> QED
      BY <2>2
  <1>6. q < Byte
    <2>1. p < Byte * Byte
      <3>1. VGA_WIDTH * VGA_HEIGHT <= Byte * Byte
        BY ConsoleAssumption
      <3>2. VGA_WIDTH * VGA_HEIGHT \in Nat /\ Byte * Byte \in Nat
        BY ConsoleSizes
      <3> QED
        BY <1>3, <3>1, <3>2
    <2>2. q * Byte + r < Byte * Byte
      BY <1>5, <2>1
    <2>3. Byte \in Nat /\ q \in Nat /\ r \in Nat
      BY <1>5, ConsoleSizes
    <2> QED
      BY <2>2, <2>3, Quotient
  <1>7. h.low = r /\ h.high = q /\ h.index = "high"
    BY DEF vga_set_hw_cursor
  <1>8. q \in 0 .. Byte - 1
    BY <1>5, <1>6, ConsoleSizes
  <1> QED
    BY <1>1, <1>4, <1>5, <1>7, <1>8

\* A line that is full or fed scrolls before the cursor gets to the last row.
LEMMA CursorMoves ==
    ASSUME NEW cur \in Cursor
    PROVE  /\ AfterScroll(Wrapped(cur)) \in Cursor
           /\ AfterScroll(Wrapped(cur)).row <= LastContentRow
           /\ AfterScroll(Wrapped(cur)).col < VGA_WIDTH
           /\ AfterScroll(Fed(cur)) \in Cursor
           /\ AfterScroll(Fed(cur)).row <= LastContentRow
  <1>1. cur.row \in Nat /\ cur.row <= BarRow /\ cur.col \in Nat /\ cur.col <= VGA_WIDTH
        /\ cur = At(cur.row, cur.col)
    BY ConsoleSizes DEF Cursor, At
  <1> PICK r, c : r = cur.row /\ c = cur.col
    OBVIOUS
  <1>2. ASSUME NEW s \in Nat, NEW d \in Nat, d <= VGA_WIDTH,
               NEW x, x = AfterScroll(At(s, d))
        PROVE  /\ x \in Cursor
               /\ x.row <= LastContentRow
               /\ d < VGA_WIDTH => x.col < VGA_WIDTH
    <2>1. At(s, d).row = s /\ At(s, d).col = d
      BY DEF At
    <2>2. CASE s >= BarRow
      <3>1. x = At(LastContentRow, IF d >= VGA_WIDTH THEN 0 ELSE d)
        BY <1>2, <2>1, <2>2 DEF AfterScroll, Scrolls
      <3> QED
        BY <1>2, <3>1, ConsoleSizes DEF At, Cursor
    <2>3. CASE s < BarRow
      <3>1. x = At(s, d)
        BY <1>2, <2>1, <2>3, ConsoleSizes DEF AfterScroll, Scrolls
      <3> QED
        BY <1>2, <2>3, <3>1, ConsoleSizes DEF At, Cursor
    <2> QED
      BY <1>2, <2>2, <2>3, ConsoleSizes
  <1>3. Fed(cur) = At(r + 1, 0) /\ r + 1 \in Nat
    BY <1>1 DEF Fed
  <1>4. CASE c >= VGA_WIDTH
    <2>1. Wrapped(cur) = At(r + 1, 0)
      BY <1>4 DEF Wrapped
    <2> QED
      BY <1>1, <1>2, <1>3, <2>1, ConsoleSizes
  <1>5. CASE c < VGA_WIDTH
    <2>1. Wrapped(cur) = At(r, c)
      BY <1>1, <1>5, ConsoleSizes DEF Wrapped
    <2> QED
      BY <1>1, <1>2, <1>3, <1>5, <2>1, ConsoleSizes
  <1> QED
    BY <1>1, <1>4, <1>5, ConsoleSizes

\* What the pieces of console_putc make of the screen, and that of them only
\* console_clear_to_eol reaches the last row, from a cursor that is there.
LEMMA ScreenMoves ==
    ASSUME NEW scr \in Screen, NEW cur \in [row : Nat, col : Nat], NEW what \in {Empty, Text}
    PROVE  /\ Scrolled(scr, cur) \in Screen
           /\ Scrolled(scr, cur)[BarRow] = scr[BarRow]
           /\ Put(scr, cur, what) \in Screen
           /\ cur.row # BarRow => Put(scr, cur, what)[BarRow] = scr[BarRow]
           /\ \A c \in Col : Put(scr, cur, Empty)[BarRow][c] \in {scr[BarRow][c], Empty}
           /\ ClearedToEol(scr, cur) \in Screen
           /\ cur.row # BarRow => ClearedToEol(scr, cur)[BarRow] = scr[BarRow]
           /\ \A c \in Col : ClearedToEol(scr, cur)[BarRow][c] \in {scr[BarRow][c], Empty}
  <1>1. \A r \in Row : scr[r] \in [Col -> {Empty, Text, Bar}] /\ Blanked[r] \in [Col -> {Empty, Text, Bar}]
    BY ConsoleSizes DEF Screen
  <1>2. Scrolled(scr, cur) \in Screen /\ Scrolled(scr, cur)[BarRow] = scr[BarRow]
    <2>1. \A r \in Row : r < LastContentRow => r + 1 \in Row
      BY ConsoleSizes
    <2>2. ~ (BarRow < LastContentRow) /\ BarRow # LastContentRow
      BY ConsoleSizes
    <2> QED
      BY <1>1, <2>1, <2>2, ConsoleSizes DEF Scrolled, Screen
  <1>3. /\ Put(scr, cur, what) \in Screen
        /\ cur.row # BarRow => Put(scr, cur, what)[BarRow] = scr[BarRow]
        /\ \A c \in Col : Put(scr, cur, Empty)[BarRow][c] \in {scr[BarRow][c], Empty}
    BY <1>1, ConsoleSizes DEF Put, Screen
  <1>4. /\ ClearedToEol(scr, cur) \in Screen
        /\ cur.row # BarRow => ClearedToEol(scr, cur)[BarRow] = scr[BarRow]
        /\ \A c \in Col : ClearedToEol(scr, cur)[BarRow][c] \in {scr[BarRow][c], Empty}
    BY <1>1, ConsoleSizes DEF ClearedToEol, Screen
  <1> QED
    BY <1>2, <1>3, <1>4

-----------------------------------------------------------------------------
(* The console: the inductive invariant *)

\* kernel_main's cursor is in the content at every step of its console_putc,
\* and has room before a character is put; no handler moves it.
MineInContent ==
    /\ Mine.row <= LastContentRow
    /\ writing = "placed" => Mine.col < VGA_WIDTH
    /\ writing = "put" => Mine.col < VGA_WIDTH

\* What the four port writes have told the hardware so far, if no handler came
\* in between.
PortsTrue ==
    LET bytes == vga_set_hw_cursor(Mine)
    IN  /\ ports \in {0, 4} => vga_get_hw_cursor.row <= LastContentRow
        /\ ports = 3 => hw.index = "low"
        /\ ports \in {1, 2} => hw.low = bytes.low
        /\ ports = 1 => hw.index = "high"

OthersInContent ==
    ~mixed => /\ \A tu \in TU : cursor[tu].row <= LastContentRow
              /\ PortsTrue

\* Nothing ever puts text in the row of the bar.
NoTextInBar == \A c \in Col : screen[BarRow][c] # Text

ConsoleInv == ConsoleTypeOK /\ MineInContent /\ OthersInContent /\ NoTextInBar

HwTypeOK(h) == h \in [low : 0 .. Byte - 1, high : 0 .. Byte - 1, index : {"low", "high"}]
NoText(scr) == \A c \in Col : scr[BarRow][c] # Text

\* A cursor read back is within the screen, and in its row if there is one.
LEMMA ClampedIn ==
    ASSUME NEW r \in Nat, NEW c \in Nat
    PROVE  /\ Clamped(At(r, c)) \in Cursor
           /\ r \in Row => Clamped(At(r, c)).row = r
  <1>1. At(r, c).row = r /\ At(r, c).col = c
    BY DEF At
  <1>2. Clamped(At(r, c)) = At(IF r >= VGA_HEIGHT THEN BarRow ELSE r,
                               IF c >= VGA_WIDTH THEN VGA_WIDTH - 1 ELSE c)
    BY <1>1 DEF Clamped
  <1>3. (IF r >= VGA_HEIGHT THEN BarRow ELSE r) \in Row
    BY ConsoleSizes DEF Row
  <1>4. (IF c >= VGA_WIDTH THEN VGA_WIDTH - 1 ELSE c) \in 0 .. VGA_WIDTH
    BY ConsoleSizes
  <1>5. r \in Row => ~ (r >= VGA_HEIGHT)
    BY ConsoleSizes DEF Row
  <1> QED
    BY <1>2, <1>3, <1>4, <1>5 DEF At, Cursor

\* What the bytes h are read as; the hardware cursor, before a step and after.
ReadBack(h) ==
    LET pos == h.high * Byte + h.low
    IN  Clamped(At(pos \div VGA_WIDTH, pos % VGA_WIDTH))

LEMMA HwRead ==
    vga_get_hw_cursor = ReadBack(hw) /\ vga_get_hw_cursor' = ReadBack(hw')
  BY DEF vga_get_hw_cursor, ReadBack

LEMMA HwCursor ==
    ASSUME NEW h, HwTypeOK(h)
    PROVE  /\ ReadBack(h) \in Cursor
           /\ \A r \in Row : (h.high * Byte + h.low) \div VGA_WIDTH = r => ReadBack(h).row = r
  <1> PICK p : p = h.high * Byte + h.low
    OBVIOUS
  <1>1. p \in Nat
    BY ConsoleSizes DEF HwTypeOK
  <1> PICK q, m : q = p \div VGA_WIDTH /\ m = p % VGA_WIDTH
    OBVIOUS
  <1>2. q \in Nat /\ m \in Nat
    <2>1. VGA_WIDTH \in Nat \ {0}
      BY ConsoleSizes
    <2>2. p \div VGA_WIDTH \in Nat /\ p % VGA_WIDTH \in 0 .. VGA_WIDTH - 1
      BY <1>1, <2>1, DivMod
    <2> QED
      BY <2>1, <2>2
  <1>3. ReadBack(h) = Clamped(At(q, m))
    BY DEF ReadBack
  <1>4. ReadBack(h) \in Cursor /\ (q \in Row => ReadBack(h).row = q)
    BY <1>2, <1>3, ClampedIn
  <1> QED
    BY <1>4

\* Bytes that are set whole are read as the cursor they were set to.
LEMMA HwSet ==
    ASSUME NEW cur \in Cursor, NEW h, h = vga_set_hw_cursor(cur)
    PROVE  HwTypeOK(h) /\ ReadBack(h).row = cur.row
  <1>1. /\ h.low \in 0 .. Byte - 1 /\ h.high \in 0 .. Byte - 1 /\ h.index = "high"
        /\ (h.high * Byte + h.low) \div VGA_WIDTH = cur.row
    BY PositionRead
  <1>2. h = [low |-> h.low, high |-> h.high, index |-> h.index]
    BY DEF vga_set_hw_cursor
  <1>3. HwTypeOK(h)
    BY <1>1, <1>2 DEF HwTypeOK
  <1>4. cur.row \in Row
    BY DEF Cursor
  <1> QED
    BY <1>1, <1>3, <1>4, HwCursor

-----------------------------------------------------------------------------
(* The handlers *)

LEMMA HandlerKeeps ==
    ASSUME ConsoleInv, NEW tu \in IrqTU, NEW cur \in Cursor, NEW scr \in Screen,
           NoText(scr), ~mixed /\ ports \in {0, 4} => cur.row <= LastContentRow,
           Becomes(tu, cur, scr)
    PROVE  ConsoleInv'
  <1>1. tu \in TU /\ tu # kernel_main /\ kernel_main \in TU
    BY ConsoleAssumption DEF TU
  <1>2. /\ cursor' = [cursor EXCEPT ![tu] = cur] /\ hw' = vga_set_hw_cursor(cur)
        /\ screen' = scr /\ mixed' = (mixed \/ ports \in 1 .. 3)
        /\ writing' = writing /\ ports' = ports
    BY DEF Becomes
  <1>3. cursor \in [TU -> Cursor] /\ cursor' \in [TU -> Cursor]
    BY <1>1, <1>2 DEF ConsoleInv, ConsoleTypeOK, Cursor
  <1>4. Mine' = Mine
    BY <1>1, <1>2, <1>3 DEF Mine
  <1>5. HwTypeOK(hw') /\ ReadBack(hw').row = cur.row
    BY <1>2, HwSet
  <1>6. ConsoleTypeOK'
    BY <1>2, <1>3, <1>5 DEF ConsoleInv, ConsoleTypeOK, Cursor, HwTypeOK, Screen
  <1>7. MineInContent'
    BY <1>2, <1>4 DEF ConsoleInv, MineInContent
  <1>8. OthersInContent'
    <2> SUFFICES ASSUME ~mixed'
                 PROVE  (\A t \in TU : cursor[t].row <= LastContentRow)' /\ PortsTrue'
      BY DEF OthersInContent
    <2>1. ~mixed /\ ports \in {0, 4}
      <3>1. ~ (mixed \/ ports \in 1 .. 3)
        BY <1>2, Zenon
      <3>2. ports \in 0 .. 4
        BY DEF ConsoleInv, ConsoleTypeOK
      <3>3. ports \notin 1 .. 3 => ports \in {0, 4}
        BY <3>2
      <3> QED
        BY <3>1, <3>3, Zenon
    <2>2. (\A t \in TU : cursor[t].row <= LastContentRow)'
      BY <1>2, <1>3, <2>1 DEF ConsoleInv, OthersInContent
    <2>3. vga_get_hw_cursor'.row <= LastContentRow
      BY <1>5, <2>1, HwRead
    <2> QED
      BY <1>2, <2>1, <2>2, <2>3 DEF PortsTrue
  <1>9. NoTextInBar'
    BY <1>2 DEF NoText, NoTextInBar
  <1> QED
    BY <1>6, <1>7, <1>8, <1>9 DEF ConsoleInv

\* The bar's cells are no text; nor is what else a handler puts in the row.
LEMMA HandlerSteps ==
    ASSUME ConsoleInv, Handler
    PROVE  /\ ConsoleInv'
           /\ \/ screen'[BarRow] = screen[BarRow]
              \/ \E tu \in BarTU : draw_status(tu)
              \/ screen' = Blanked
              \/ mixed
  <1>1. /\ \A tu \in IrqTU : tu \in TU /\ cursor[tu] \in Cursor
        /\ \A tu \in IrqTU : ~mixed => cursor[tu].row <= LastContentRow
        /\ screen \in Screen /\ NoText(screen) /\ BarTU \subseteq IrqTU
    BY ConsoleAssumption
    DEF ConsoleInv, ConsoleTypeOK, OthersInContent, NoTextInBar, NoText, Cursor, Screen, TU
  <1>2. \A tu \in IrqTU : /\ cursor[tu].row \in Nat /\ cursor[tu].row <= BarRow
                          /\ cursor[tu].col \in Nat /\ cursor[tu].col <= VGA_WIDTH
    BY <1>1, ConsoleSizes DEF Cursor
  <1>3. ASSUME NEW tu \in IrqTU, PutChar(tu)
        PROVE  ConsoleInv' /\ screen'[BarRow] = screen[BarRow]
    <2> PICK c, w, at : c = cursor[tu] /\ w = Wrapped(c) /\ at = AfterScroll(w)
      OBVIOUS
    <2>1. at \in Cursor /\ at.row <= LastContentRow /\ at.col < VGA_WIDTH
      BY <1>1, CursorMoves
    <2>2. w \in [row : Nat, col : Nat]
      BY <1>1, <1>2, ConsoleSizes DEF Wrapped, At, Cursor
    <2>3. at \in [row : Nat, col : Nat]
      BY <2>1, ConsoleSizes DEF Cursor
    <2> PICK m : m = Scrolled(screen, w)
      OBVIOUS
    <2>4. m \in Screen /\ m[BarRow] = screen[BarRow]
      BY <1>1, <2>2, ScreenMoves
    <2> PICK x : x = Put(m, at, Text)
      OBVIOUS
    <2>5. x \in Screen /\ x[BarRow] = screen[BarRow]
      <3>1. at.row # BarRow
        BY <2>1, <2>3, ConsoleSizes
      <3> QED
        BY <2>3, <2>4, <3>1, ScreenMoves
    <2>6. NoText(x)
      BY <1>1, <2>5 DEF NoText
    <2> PICK y : y = Advanced(at)
      OBVIOUS
    <2>7. y \in Cursor /\ y.row <= LastContentRow
      BY <2>1, ConsoleSizes DEF Advanced, At, Cursor
    <2>8. Becomes(tu, y, x)
      BY <1>3 DEF PutChar
    <2>9. screen' = x
      BY <2>8 DEF Becomes
    <2> QED
      BY <2>5, <2>6, <2>7, <2>8, <2>9, HandlerKeeps
  <1>4. ASSUME NEW tu \in IrqTU, PutNewline(tu)
        PROVE  ConsoleInv' /\ (screen'[BarRow] = screen[BarRow] \/ mixed)
    <2> PICK c, f : c = cursor[tu] /\ f = Fed(c)
      OBVIOUS
    <2>1. c \in Cursor /\ c \in [row : Nat, col : Nat] /\ f \in [row : Nat, col : Nat]
      BY <1>1, <1>2, ConsoleSizes DEF Fed, At, Cursor
    <2> PICK m : m = ClearedToEol(screen, c)
      OBVIOUS
    <2>2. /\ m \in Screen
          /\ c.row # BarRow => m[BarRow] = screen[BarRow]
          /\ \A k \in Col : m[BarRow][k] \in {screen[BarRow][k], Empty}
      BY <1>1, <2>1, ScreenMoves
    <2> PICK x : x = Scrolled(m, f)
      OBVIOUS
    <2>3. x \in Screen /\ x[BarRow] = m[BarRow]
      BY <2>1, <2>2, ScreenMoves
    <2>4. NoText(x)
      BY <1>1, <2>2, <2>3 DEF NoText, Empty, Text
    <2> PICK y : y = AfterScroll(f)
      OBVIOUS
    <2>5. y \in Cursor /\ y.row <= LastContentRow
      BY <2>1, CursorMoves
    <2>6. Becomes(tu, y, x)
      BY <1>4 DEF PutNewline
    <2>7. screen' = x
      BY <2>6 DEF Becomes
    <2>8. ~mixed => c.row # BarRow
      BY <1>1, <1>2, ConsoleSizes
    <2> QED
      BY <2>2, <2>3, <2>4, <2>5, <2>6, <2>7, <2>8, HandlerKeeps
  <1>5. ASSUME NEW tu \in IrqTU, PutBackspace(tu)
        PROVE  ConsoleInv' /\ (screen'[BarRow] = screen[BarRow] \/ mixed)
    <2> PICK c, y : c = cursor[tu] /\ y = At(c.row, c.col - 1)
      OBVIOUS
    <2>1. CASE c.col > 0
      <3>1. y \in Cursor /\ y \in [row : Nat, col : Nat] /\ y.row = c.row
        BY <1>1, <1>2, <2>1, ConsoleSizes DEF At, Cursor
      <3> PICK x : x = Put(screen, y, Empty)
        OBVIOUS
      <3>2. /\ x \in Screen
            /\ y.row # BarRow => x[BarRow] = screen[BarRow]
            /\ \A k \in Col : x[BarRow][k] \in {screen[BarRow][k], Empty}
        BY <1>1, <3>1, ScreenMoves
      <3>3. NoText(x)
        BY <1>1, <3>2 DEF NoText, Empty, Text
      <3>4. Becomes(tu, y, x)
        BY <1>5, <2>1 DEF PutBackspace
      <3>5. screen' = x
        BY <3>4 DEF Becomes
      <3>6. ~mixed => y.row <= LastContentRow /\ y.row # BarRow
        BY <1>1, <1>2, <3>1, ConsoleSizes
      <3> QED
        BY <3>1, <3>2, <3>3, <3>4, <3>5, <3>6, HandlerKeeps
    <2>2. CASE ~ (c.col > 0)
      <3>1. Becomes(tu, c, screen)
        BY <1>5, <2>2 DEF PutBackspace
      <3>2. screen' = screen
        BY <3>1 DEF Becomes
      <3> PICK x : x = screen
        OBVIOUS
      <3>3. Becomes(tu, c, x) /\ x \in Screen /\ NoText(x) /\ c \in Cursor
        BY <1>1, <3>1
      <3>4. ~mixed => c.row <= LastContentRow
        BY <1>1
      <3> QED
        BY <3>2, <3>3, <3>4, HandlerKeeps
    <2> QED
      BY <2>1, <2>2
  <1>6. ASSUME NEW tu \in IrqTU, console_clear(tu)
        PROVE  ConsoleInv' /\ screen' = Blanked
    <2>1. At(0, 0) \in Cursor /\ At(0, 0).row <= LastContentRow
      BY ConsoleSizes DEF At, Cursor
    <2>2. Blanked \in Screen /\ NoText(Blanked)
      BY ConsoleSizes DEF NoText, Blanked, Empty, Text
    <2>3. Becomes(tu, At(0, 0), Blanked)
      BY <1>6 DEF console_clear
    <2>4. screen' = Blanked
      BY <2>3 DEF Becomes
    <2> QED
      BY <2>1, <2>2, <2>3, <2>4, HandlerKeeps
  <1>7. ASSUME NEW tu \in BarTU, draw_status(tu)
        PROVE  ConsoleInv'
    <2> PICK g : g = vga_get_hw_cursor
      OBVIOUS
    <2>1. g \in Cursor
      BY HwRead, HwCursor DEF ConsoleInv, ConsoleTypeOK, HwTypeOK
    <2> PICK x : x = [screen EXCEPT ![BarRow] =
                         [c \in Col |-> IF c < VGA_WIDTH - 1 THEN Bar ELSE @[c]]]
      OBVIOUS
    <2>2. x \in Screen /\ NoText(x)
      BY <1>1, ConsoleSizes DEF Screen, NoText, Bar, Text
    <2>3. Becomes(tu, g, x)
      BY <1>7 DEF draw_status
    <2>4. ~mixed /\ ports \in {0, 4} => g.row <= LastContentRow
      BY DEF ConsoleInv, OthersInContent, PortsTrue
    <2>5. tu \in IrqTU
      BY <1>1
    <2> QED
      BY <2>1, <2>2, <2>3, <2>4, <2>5, HandlerKeeps
  <1> QED
    BY <1>3, <1>4, <1>5, <1>6, <1>7 DEF Handler

-----------------------------------------------------------------------------
(* kernel_main *)

LEMMA StepKeeps ==
    ASSUME ConsoleInv, NEW this, NEW that \in Steps, NEW calls \in {0, 4}, Step(this, that, calls),
           NEW cur \in Cursor, cur.row <= LastContentRow,
           that \in {"placed", "put"} => cur.col < VGA_WIDTH,
           NEW scr \in Screen, scr[BarRow] = screen[BarRow],
           Move(cur), screen' = scr
    PROVE  ConsoleInv'
  <1>1. /\ ports = 0 /\ ports' = calls /\ writing' = that /\ hw' = hw /\ mixed' = mixed
        /\ cursor' = [cursor EXCEPT ![kernel_main] = cur]
    BY DEF Step, Move
  <1>2. kernel_main \in TU
    BY DEF TU
  <1>3. cursor \in [TU -> Cursor] /\ cursor' \in [TU -> Cursor] /\ Mine' = cur
    BY <1>1, <1>2 DEF ConsoleInv, ConsoleTypeOK, Cursor, Mine
  <1>4. ConsoleTypeOK'
    BY <1>1, <1>3 DEF ConsoleInv, ConsoleTypeOK, Cursor, Screen
  <1>5. MineInContent'
    BY <1>1, <1>3 DEF MineInContent
  <1>6. OthersInContent'
    <2> SUFFICES ASSUME ~mixed'
                 PROVE  (\A t \in TU : cursor[t].row <= LastContentRow)' /\ PortsTrue'
      BY DEF OthersInContent
    <2>1. ~mixed
      BY <1>1, Zenon
    <2>2. (\A t \in TU : cursor[t].row <= LastContentRow) /\ PortsTrue
      BY <2>1, Zenon DEF ConsoleInv, OthersInContent
    <2>3. (\A t \in TU : cursor[t].row <= LastContentRow)'
      BY <1>1, <1>3, <2>2
    <2>4. vga_get_hw_cursor.row <= LastContentRow
      BY <1>1, <2>2 DEF PortsTrue
    <2>5. vga_get_hw_cursor'.row <= LastContentRow
      BY <1>1, <2>4, HwRead
    <2> QED
      BY <1>1, <2>3, <2>5 DEF PortsTrue
  <1>7. NoTextInBar'
    BY DEF ConsoleInv, NoTextInBar
  <1> QED
    BY <1>4, <1>5, <1>6, <1>7 DEF ConsoleInv

\* The four port writes, none of which a handler has come before.
LEMMA PortKeeps == ASSUME ConsoleInv, PortStep PROVE ConsoleInv'
  <1> PICK b : b = vga_set_hw_cursor(Mine)
    OBVIOUS
  <1>1. /\ ports \in 1 .. 4 /\ ports' = ports - 1
        /\ hw' = CASE ports = 4 -> [hw EXCEPT !.index = "low"]
                   [] ports = 3 -> [hw EXCEPT ![hw.index] = b.low]
                   [] ports = 2 -> [hw EXCEPT !.index = "high"]
                   [] ports = 1 -> [hw EXCEPT ![hw.index] = b.high]
        /\ cursor' = cursor /\ screen' = screen /\ writing' = writing /\ mixed' = mixed
    BY DEF PortStep, ConsoleInv, ConsoleTypeOK
  <1>2. kernel_main \in TU /\ Mine \in Cursor /\ Mine' = Mine
    BY <1>1 DEF TU, Mine, ConsoleInv, ConsoleTypeOK, Cursor
  <1>3. /\ b.low \in 0 .. Byte - 1 /\ b.high \in 0 .. Byte - 1
        /\ (b.high * Byte + b.low) \div VGA_WIDTH = Mine.row
    BY <1>2, PositionRead
  <1>4. HwTypeOK(hw)
    BY DEF ConsoleInv, ConsoleTypeOK, HwTypeOK
  <1>5. /\ ports = 4 => hw' = [hw EXCEPT !.index = "low"]
        /\ ports = 3 => hw' = [hw EXCEPT ![hw.index] = b.low]
        /\ ports = 2 => hw' = [hw EXCEPT !.index = "high"]
        /\ ports = 1 => hw' = [hw EXCEPT ![hw.index] = b.high]
    BY <1>1
  <1>6. HwTypeOK(hw')
    BY <1>1, <1>3, <1>4, <1>5 DEF HwTypeOK
  <1>7. ConsoleTypeOK'
    BY <1>1, <1>6 DEF ConsoleInv, ConsoleTypeOK, HwTypeOK
  <1>8. MineInContent'
    BY <1>1, <1>2 DEF ConsoleInv, MineInContent
  <1>9. OthersInContent'
    <2> SUFFICES ASSUME ~mixed'
                 PROVE  (\A t \in TU : cursor[t].row <= LastContentRow)' /\ PortsTrue'
      BY DEF OthersInContent
    <2>1. ~mixed
      BY <1>1, Zenon
    <2>2. (\A t \in TU : cursor[t].row <= LastContentRow) /\ PortsTrue
      BY <2>1, Zenon DEF ConsoleInv, OthersInContent
    <2>3. (\A t \in TU : cursor[t].row <= LastContentRow)'
      BY <1>1, <2>2
    <2>4. /\ ports = 3 => hw.index = "low"
          /\ ports \in {1, 2} => hw.low = b.low
          /\ ports = 1 => hw.index = "high"
      BY <2>2 DEF PortsTrue
    <2>5. /\ ports' = 3 => hw'.index = "low"
          /\ ports' \in {1, 2} => hw'.low = b.low
          /\ ports' = 1 => hw'.index = "high"
      BY <1>1, <1>4, <1>5, <2>4 DEF HwTypeOK
    <2>6. ports' = 0 => vga_get_hw_cursor'.row <= LastContentRow
      <3> SUFFICES ASSUME ports = 1 PROVE ReadBack(hw').row <= LastContentRow
        BY <1>1, HwRead
      <3>1. hw'.low = b.low /\ hw'.high = b.high
        BY <1>4, <1>5, <2>4 DEF HwTypeOK
      <3> PICK h, r : h = hw' /\ r = Mine.row
        OBVIOUS
      <3>2. r \in Row /\ r <= LastContentRow
        BY <1>2 DEF ConsoleInv, MineInContent, Cursor
      <3>3. HwTypeOK(h) /\ (h.high * Byte + h.low) \div VGA_WIDTH = r
        BY <1>3, <1>6, <3>1
      <3>4. ReadBack(h).row = r
        BY <3>2, <3>3, HwCursor
      <3> QED
        BY <3>2, <3>4
    <2>7. ports' # 4
      BY <1>1
    <2>8. (vga_set_hw_cursor(Mine) = b)'
      BY <1>2
    <2> QED
      BY <2>3, <2>5, <2>6, <2>7, <2>8 DEF PortsTrue
  <1>10. NoTextInBar'
    BY <1>1 DEF ConsoleInv, NoTextInBar
  <1> QED
    BY <1>7, <1>8, <1>9, <1>10 DEF ConsoleInv

LEMMA BootSteps ==
    ASSUME ConsoleInv, Boot
    PROVE  ConsoleInv' /\ screen'[BarRow] = screen[BarRow]
  <1>1. kernel_main \in TU /\ Mine \in Cursor /\ Mine.row <= LastContentRow
    BY DEF TU, Mine, ConsoleInv, ConsoleTypeOK, MineInContent, Cursor
  <1>2. /\ Mine \in [row : Nat, col : Nat] /\ Mine.row # BarRow /\ Mine.col <= VGA_WIDTH
    BY <1>1, ConsoleSizes DEF Cursor
  <1>3. screen \in Screen /\ cursor \in [TU -> Cursor]
    BY DEF ConsoleInv, ConsoleTypeOK, Screen, Cursor
  <1>4. cursor' = cursor => Move(Mine)
    BY <1>1, <1>3 DEF Move, Mine
  <1> PICK c : c = Mine
    OBVIOUS
  <1>5. CASE Begin
    <2>1. PICK ch \in {"char", "newline"} : Step("idle", ch, 0) /\ cursor' = cursor /\ screen' = screen
      BY <1>5 DEF Begin
    <2> PICK x : x = screen
      OBVIOUS
    <2> QED
      BY <1>1, <1>3, <1>4, <2>1, StepKeeps DEF Steps
  <1>6. ASSUME NEW this, NEW that \in Steps, NEW w \in {Wrapped(c), Fed(c)},
               that = "placed" => w = Wrapped(c), that # "put",
               MoveAndScroll(this, that, w)
        PROVE  ConsoleInv' /\ screen'[BarRow] = screen[BarRow]
    <2> PICK y, x, calls : y = AfterScroll(w) /\ x = Scrolled(screen, w)
                           /\ calls = IF Scrolls(w) THEN 4 ELSE 0
      OBVIOUS
    <2>1. w \in [row : Nat, col : Nat]
      BY <1>2, ConsoleSizes DEF Wrapped, Fed, At
    <2>2. /\ y \in Cursor /\ y.row <= LastContentRow
          /\ w = Wrapped(c) => y.col < VGA_WIDTH
      BY <1>1, CursorMoves
    <2>3. x \in Screen /\ x[BarRow] = screen[BarRow]
      BY <1>3, <2>1, ScreenMoves
    <2>4. Step(this, that, calls) /\ Move(y) /\ screen' = x /\ calls \in {0, 4}
      BY <1>6 DEF MoveAndScroll
    <2> QED
      BY <1>6, <2>2, <2>3, <2>4, StepKeeps
  <1>7. CASE PlaceStep
    BY <1>6, <1>7 DEF PlaceStep, Steps
  <1>8. CASE PutStep
    <2> PICK x : x = Put(screen, c, Text)
      OBVIOUS
    <2>1. x \in Screen /\ x[BarRow] = screen[BarRow]
      BY <1>2, <1>3, ScreenMoves
    <2>2. Step("placed", "put", 0) /\ screen' = x /\ Move(c)
      BY <1>4, <1>8 DEF PutStep
    <2>3. c.col < VGA_WIDTH
      BY <2>2 DEF Step, ConsoleInv, MineInContent
    <2> QED
      BY <1>1, <2>1, <2>2, <2>3, StepKeeps DEF Steps
  <1>9. CASE AdvanceStep
    <2> PICK y, x : y = Advanced(c) /\ x = screen
      OBVIOUS
    <2>1. Step("put", "idle", 4) /\ Move(y) /\ screen' = x
      BY <1>9 DEF AdvanceStep
    <2>2. c.col < VGA_WIDTH
      BY <2>1 DEF Step, ConsoleInv, MineInContent
    <2>3. y \in Cursor /\ y.row <= LastContentRow
      BY <1>1, <1>2, <2>2, ConsoleSizes DEF Advanced, At, Cursor
    <2> QED
      BY <1>3, <2>1, <2>3, StepKeeps DEF Steps
  <1>10. CASE ClearStep
    <2> PICK x : x = ClearedToEol(screen, c)
      OBVIOUS
    <2>1. x \in Screen /\ x[BarRow] = screen[BarRow]
      BY <1>2, <1>3, ScreenMoves
    <2>2. Step("newline", "cleared", 4) /\ screen' = x /\ Move(c)
      BY <1>4, <1>10 DEF ClearStep
    <2> QED
      BY <1>1, <2>1, <2>2, StepKeeps DEF Steps
  <1>11. CASE FeedStep
    BY <1>6, <1>11 DEF FeedStep, Steps
  <1>12. CASE CursorStep
    <2> PICK x : x = screen
      OBVIOUS
    <2>1. Step("moved", "idle", 4) /\ Move(c) /\ screen' = x
      BY <1>4, <1>12 DEF CursorStep
    <2> QED
      BY <1>1, <1>3, <2>1, StepKeeps DEF Steps
  <1>13. CASE PortStep
    BY <1>13, PortKeeps DEF PortStep
  <1> QED
    BY <1>5, <1>7, <1>8, <1>9, <1>10, <1>11, <1>12, <1>13 DEF Boot

-----------------------------------------------------------------------------
LEMMA ConsoleBegins == ConsoleInit => ConsoleInv
  <1> SUFFICES ASSUME ConsoleInit PROVE ConsoleInv
    OBVIOUS
  <1> PICK o : o = At(0, 0)
    OBVIOUS
  <1>1. o \in Cursor /\ o.row = 0 /\ o.col = 0 /\ kernel_main \in TU
    BY ConsoleSizes DEF At, Cursor, TU
  <1>2. /\ cursor = [t \in TU |-> o] /\ hw = [low |-> 0, high |-> 0, index |-> "high"]
        /\ screen = Blanked /\ writing = "idle" /\ ports = 0 /\ mixed = FALSE
    BY DEF ConsoleInit
  <1>3. ConsoleTypeOK
    <2>1. cursor \in [TU -> [row : Row, col : 0 .. VGA_WIDTH]]
      BY <1>1, <1>2 DEF Cursor
    <2>2. hw \in [low : 0 .. Byte - 1, high : 0 .. Byte - 1, index : {"low", "high"}]
      BY <1>2, ConsoleSizes
    <2>3. screen \in [Row -> [Col -> {Empty, Text, Bar}]]
      BY <1>2, ConsoleSizes DEF Screen
    <2>4. writing \in Steps /\ ports \in 0 .. 4
      BY <1>2 DEF Steps
    <2>5. mixed \in BOOLEAN
      BY <1>2, Zenon
    <2> QED
      BY <2>1, <2>2, <2>3, <2>4, <2>5, Zenon DEF ConsoleTypeOK
  <1>4. MineInContent
    BY <1>1, <1>2, ConsoleSizes DEF MineInContent, Mine
  <1>5. OthersInContent
    <2>1. \A t \in TU : cursor[t].row <= LastContentRow
      BY <1>1, <1>2, ConsoleSizes
    <2> PICK h : h = hw
      OBVIOUS
    <2>2. HwTypeOK(h) /\ h.high = 0 /\ h.low = 0
      BY <1>2, ConsoleSizes DEF HwTypeOK
    <2>3. (h.high * Byte + h.low) \div VGA_WIDTH = 0
      <3>1. VGA_WIDTH \in Nat \ {0} /\ 0 \in 0 .. VGA_WIDTH - 1 /\ 0 \in Nat
        BY ConsoleSizes
      <3>2. (0 * VGA_WIDTH + 0) \div VGA_WIDTH = 0
        BY <3>1, DivModUnique
      <3>3. h.high * Byte + h.low = 0 /\ 0 * VGA_WIDTH + 0 = 0
        BY <2>2, ConsoleSizes
      <3> QED
        BY <3>2, <3>3
    <2>4. vga_get_hw_cursor.row = 0
      BY <2>2, <2>3, HwRead, HwCursor, ConsoleSizes
    <2> QED
      BY <1>2, <2>1, <2>4, ConsoleSizes DEF OthersInContent, PortsTrue
  <1>6. NoTextInBar
    BY <1>2, ConsoleSizes DEF NoTextInBar, Blanked, Empty, Text
  <1> QED
    BY <1>3, <1>4, <1>5, <1>6 DEF ConsoleInv

LEMMA ConsoleIdle == ASSUME ConsoleInv, UNCHANGED conVars PROVE ConsoleInv'
  <1>1. /\ cursor' = cursor /\ hw' = hw /\ screen' = screen /\ writing' = writing
        /\ ports' = ports /\ mixed' = mixed
    BY DEF conVars
  <1>2. Mine' = Mine /\ vga_get_hw_cursor' = vga_get_hw_cursor
    BY <1>1, HwRead DEF Mine
  <1>3. PortsTrue => PortsTrue'
    BY <1>1, <1>2 DEF PortsTrue
  <1> QED
    BY <1>1, <1>2, <1>3
    DEF ConsoleInv, ConsoleTypeOK, MineInContent, OthersInContent, NoTextInBar

\* Every part of ConsoleInv, in every interleaving of kernel_main and handlers.
THEOREM ConsoleInductive == ConsoleSpec => []ConsoleInv
  <1>1. ConsoleInv /\ [ConsoleNext]_conVars => ConsoleInv'
    BY HandlerSteps, BootSteps, ConsoleIdle DEF ConsoleNext
  <1> QED
    BY <1>1, ConsoleBegins, PTL DEF ConsoleSpec

LEMMA InContent == ConsoleInv => CursorInContent
  <1> SUFFICES ASSUME ConsoleInv PROVE CursorInContent
    OBVIOUS
  <1>1. Mine.row <= LastContentRow
    BY DEF ConsoleInv, MineInContent
  <1>2. \A tu \in TU : cursor[tu].col <= VGA_WIDTH
    BY ConsoleSizes DEF ConsoleInv, ConsoleTypeOK
  <1>3. ~mixed => /\ \A tu \in TU : cursor[tu].row <= LastContentRow
                  /\ ports = 0 => vga_get_hw_cursor.row <= LastContentRow
    BY DEF ConsoleInv, OthersInContent, PortsTrue
  <1> QED
    BY <1>1, <1>2, <1>3 DEF CursorInContent

\* For a screen of every size, and any number of files that write from handlers:
\* kernel_main's cursor never gets to the status row, whatever interrupts it, and
\* no other file's does as long as the port writes are not cut in two.
THEOREM ContentCursors == ConsoleSpec => []CursorInContent
  BY ConsoleInductive, InContent, PTL

\* The last row is the bar's, in every step of every interleaving.
THEOREM BarKept == ConsoleSpec => BarRowReserved
  <1>1. ConsoleInv /\ ConsoleInv' /\ [ConsoleNext]_conVars =>
            [\/ screen'[BarRow] = screen[BarRow]
             \/ \E tu \in BarTU : draw_status(tu)
             \/ screen' = Blanked
             \/ mixed /\ \A c \in Col : screen'[BarRow][c] # Text]_conVars
    <2> SUFFICES ASSUME ConsoleInv, ConsoleInv', ConsoleNext
                 PROVE  \/ screen'[BarRow] = screen[BarRow]
                        \/ \E tu \in BarTU : draw_status(tu)
                        \/ screen' = Blanked
                        \/ mixed /\ \A c \in Col : screen'[BarRow][c] # Text
      OBVIOUS
    <2>1. \A c \in Col : screen'[BarRow][c] # Text
      BY DEF ConsoleInv, NoTextInBar
    <2> QED
      BY <2>1, HandlerSteps, BootSteps DEF ConsoleNext
  <1> QED
    BY <1>1, ConsoleInductive, PTL DEF ConsoleSpec, BarRowReserved

-----------------------------------------------------------------------------
(* The disk: its invariant *)

Word == {"none", "old", "new"} \X Nat \X Nat
Register == {"CTRL", "HDDEVSEL", "SECCOUNT0", "LBA0", "LBA1", "LBA2"}

CallRecord ==
    [at : {"none", "out", "busy", "words", "done"}, ret : {Ok, Error},
     op : {"none", "read", "write"}, lba : Nat, count : Nat, asked : Nat, k : Nat]
DevRecord ==
    [bsy : BOOLEAN, drq : BOOLEAN, err : BOOLEAN, op : {"none", "read", "write"},
     lba : Nat, left : Int, data : Seq(Word), regs : [Register -> Nat]]

DiskTypes ==
    /\ g_root_dev \in [name : {"none", "ata0", "ram0"}, size : 0 .. Sectors * Words]
    /\ disk \in [Sector -> Seq(Word)] /\ \A x \in Sector : Len(disk[x]) = Words
    /\ buf \in [0 .. Sectors * Words - 1 -> Word]
    /\ call \in CallRecord
    /\ dev \in DevRecord

\* What the disk is about to store, whether or not its call has returned.
StoreNamed ==
    dev.bsy /\ dev.op = "write" /\ dev.data # <<>> =>
        dev.lba \in named \cap Sector /\ Len(dev.data) = Words

\* A call under way is one of the ATA driver's, within its limits.
Underway ==
    /\ call.op = "write" => call.lba .. (call.lba + call.asked - 1) \subseteq named
    /\ g_root_dev.name # "ata0" => ~dev.bsy /\ Quiet
    /\ g_root_dev.name = "none" => call.at = "none"
    /\ call.at = "none" => ~dev.bsy
    /\ g_root_dev.name = "ata0" /\ Transferred => call.count = Cut(call.asked)
    /\ call.at \in {"out", "busy", "words"} \/ (g_root_dev.name = "ata0" /\ Transferred /\ call.count > 0)
         => /\ call.op \in {"read", "write"} /\ call.ret = Ok
            /\ call.lba < LbaLimit
            /\ call.count > 0 /\ call.count = Cut(call.asked)

\* The registers that were written; the disk waits for the command.
SetUp ==
    call.at = "out" =>
        /\ call.k \in 1 .. 7
        /\ call.k > 1 => ~dev.bsy
        /\ \A j \in 1 .. (call.k - 1) : dev.regs[Setup[j].reg] = Setup[j].value

Failed == ~dev.bsy /\ dev.err

\* The disk looks for sector s of a read; it holds the sector's words from i on.
Seeking(s) ==
    /\ dev.bsy /\ ~dev.err /\ dev.op = "read"
    /\ dev.lba = call.lba + s /\ dev.left = call.count - s
Giving(s, i) ==
    /\ ~dev.bsy /\ dev.drq /\ ~dev.err
    /\ dev.op = "read" /\ dev.lba = call.lba + s + 1 /\ dev.left = call.count - s - 1
    /\ call.lba + s \in Sector
    /\ Len(dev.data) = Words - i
    /\ \A m \in 1 .. (Words - i) : dev.data[m] = disk[call.lba + s][i + m]

\* It makes ready for sector s of a write; it took i words; it stores them.
Taken(s, i) == Len(dev.data) = i /\ \A m \in 1 .. i : dev.data[m] = New(s)[m]
Writes(s) ==
    /\ ~dev.err /\ dev.op = "write"
    /\ dev.lba = call.lba + s /\ dev.left = call.count - s
Preparing(s) == dev.bsy /\ Writes(s) /\ dev.data = <<>>
Taking(s, i) == ~dev.bsy /\ dev.drq /\ Writes(s) /\ dev.lba \in Sector /\ Taken(s, i)
Storing(s) == dev.bsy /\ Writes(s) /\ dev.lba \in Sector /\ Taken(s, Words)

\* The first n words of a read are in the buffer, the first n sectors of a
\* write on the disk.
Read(n) ==
    \A s \in 0 .. (call.count - 1), i \in Index :
        s * Words + i < n =>
            call.lba + s \in Sector /\ buf[s * Words + i] = disk[call.lba + s][i + 1]
Written(n) ==
    \A s \in 0 .. (n - 1) : call.lba + s \in Sector /\ disk[call.lba + s] = New(s)

Reading ==
    /\ call.at = "busy" => \E s \in 0 .. (call.count - 1) :
          /\ call.k = s * Words /\ Read(call.k)
          /\ Seeking(s) \/ Giving(s, 0) \/ Failed
    /\ call.at = "words" => \E s \in 0 .. (call.count - 1), i \in Index :
          call.k = s * Words + i /\ Read(call.k) /\ Giving(s, i)
    /\ call.at = "done" => Read(call.count * Words) /\ ~dev.bsy

Writing ==
    /\ call.at = "busy" => \E s \in 0 .. (call.count - 1) :
          /\ call.k = s * Words
          /\ \/ Written(s) /\ (Preparing(s) \/ Taking(s, 0))
             \/ s > 0 /\ Written(s - 1) /\ Storing(s - 1)
             \/ Failed
    /\ call.at = "words" => \E s \in 0 .. (call.count - 1), i \in Index :
          call.k = s * Words + i /\ Written(s) /\ Taking(s, i)
    /\ call.at = "done" =>
          \/ Written(call.count - 1) /\ Storing(call.count - 1)
          \/ Written(call.count) /\ ~dev.bsy
          \/ Failed

InTransfer ==
    g_root_dev.name = "ata0" /\ call.ret = Ok /\ call.count > 0 =>
        (call.op = "read" => Reading) /\ (call.op = "write" => Writing)

DiskBody ==
    /\ DiskTypes
    /\ OnlyNamed /\ StoreNamed
    /\ Underway
    /\ SetUp
    /\ InTransfer
    /\ g_root_dev.name = "ram0" => ReadTrue /\ WriteDone

\* What a disk makes of being told something while it is busy is left open.
DiskInv == ~overrun => DiskBody

-----------------------------------------------------------------------------
(* Numbers and words *)

LEMMA DiskNumbers ==
    /\ Sectors \in Nat \ {0} /\ Words \in Nat \ {0} /\ CountMax \in Nat \ {0}
    /\ Base \in Nat \ {0} /\ UINT32 \in Nat \ {0} /\ UINT64 \in Nat \ {0}
    /\ Sectors * Words \in Nat
    /\ Sector = 0 .. Sectors - 1 /\ Index = 0 .. Words - 1
    /\ Sector \subseteq Nat /\ Index \subseteq Nat
  BY DiskAssumption DEF Sector, Index

\* A word's place: which sector, and where in it.
LEMMA PlaceOf ==
    ASSUME NEW k \in Nat
    PROVE  \E s \in Nat, i \in Index : k = s * Words + i /\ s = k \div Words /\ i = k % Words
  BY DiskNumbers, DivMod

LEMMA PlaceIs ==
    ASSUME NEW s \in Nat, NEW i \in Index
    PROVE  /\ s * Words + i \in Nat
           /\ (s * Words + i) \div Words = s /\ (s * Words + i) % Words = i
  <1> PICK w \in Nat \ {0} : w = Words
    BY DiskNumbers
  <1>1. i \in 0 .. w - 1
    BY DEF Index
  <1>2. (s * w + i) \div w = s /\ (s * w + i) % w = i
    BY <1>1, DivModUnique
  <1>3. s * w + i \in Nat
    BY <1>1
  <1> QED
    BY <1>2, <1>3

\* Places are ordered as their sectors are.
LEMMA PlaceBefore ==
    ASSUME NEW s \in Nat, NEW i \in Index, NEW n \in Nat
    PROVE  s * Words + i < n * Words <=> s < n
  <1>1. \A d \in Nat : d * Words \in Nat /\ (d > 0 => d * Words >= Words)
    <2> SUFFICES ASSUME NEW d \in Nat PROVE d * Words \in Nat /\ (d > 0 => d * Words >= Words)
      OBVIOUS
    <2> QED
      BY DiskNumbers
  <1>2. CASE s < n
    <2>1. PICK d \in Nat : d > 0 /\ n = s + d
      <3>1. n - s \in Nat /\ n - s > 0 /\ n = s + (n - s)
        BY <1>2
      <3> QED
        BY <3>1
    <2>2. n * Words = s * Words + d * Words
      BY <2>1, DiskNumbers
    <2>3. s * Words \in Nat /\ d * Words \in Nat /\ d * Words >= Words /\ i < Words
      BY <1>1, <2>1, DiskNumbers
    <2> QED
      BY <2>2, <2>3, <1>2, DiskNumbers
  <1>3. CASE ~(s < n)
    <2>1. PICK d \in Nat : s = n + d
      <3>1. s - n \in Nat /\ s = n + (s - n)
        BY <1>3
      <3> QED
        BY <3>1
    <2>2. s * Words = n * Words + d * Words
      BY <2>1, DiskNumbers
    <2>3. n * Words \in Nat /\ d * Words \in Nat
      BY <1>1
    <2> QED
      BY <2>2, <2>3, <1>3, DiskNumbers
  <1> QED
    BY <1>2, <1>3

\* The place after a place.
LEMMA PlaceNext ==
    ASSUME NEW s \in Nat, NEW i \in Index
    PROVE  /\ i + 1 < Words => /\ i + 1 \in Index
                               /\ (s * Words + i) + 1 = s * Words + (i + 1)
                               /\ ((s * Words + i) + 1) % Words # 0
           /\ ~(i + 1 < Words) => /\ i + 1 = Words
                                  /\ (s * Words + i) + 1 = (s + 1) * Words
                                  /\ ((s * Words + i) + 1) % Words = 0
                                  /\ ((s * Words + i) + 1) \div Words = s + 1
  <1>1. s * Words \in Nat /\ i \in Nat /\ 0 \in Index /\ s + 1 \in Nat
    BY DiskNumbers
  <1>2. ASSUME i + 1 < Words
        PROVE  /\ i + 1 \in Index
               /\ (s * Words + i) + 1 = s * Words + (i + 1)
               /\ ((s * Words + i) + 1) % Words # 0
    <2>1. i + 1 \in Index /\ (s * Words + i) + 1 = s * Words + (i + 1) /\ i + 1 # 0
      BY <1>1, <1>2, DiskNumbers
    <2> QED
      BY <2>1, PlaceIs
  <1>3. ASSUME ~(i + 1 < Words)
        PROVE  /\ i + 1 = Words
               /\ (s * Words + i) + 1 = (s + 1) * Words
               /\ ((s * Words + i) + 1) % Words = 0
               /\ ((s * Words + i) + 1) \div Words = s + 1
    <2>1. i + 1 = Words
      BY <1>3, DiskNumbers
    <2>2. (s + 1) * Words = s * Words + Words
      BY <1>1, DiskNumbers
    <2>3. (s * Words + i) + 1 = (s + 1) * Words + 0
      BY <2>1, <2>2, <1>1, DiskNumbers
    <2>4. (s + 1) * Words + 0 = (s + 1) * Words
      BY <1>1, DiskNumbers
    <2> QED
      BY <2>1, <2>3, <2>4, <1>1, PlaceIs
  <1> QED
    BY <1>2, <1>3

\* The registers hold the sector's number.
LEMMA Digits ==
    ASSUME NEW lba \in Nat, lba < LbaLimit
    PROVE  /\ \A j \in 1 .. 4 : Digit(lba, j) \in Nat
           /\ Digit(lba, 1) + Base * (Digit(lba, 2) + Base * (Digit(lba, 3) + Base * Digit(lba, 4)))
                = lba
  <1> PICK b \in Nat \ {0} : b = Base
    BY DiskNumbers
  <1> DEFINE q1 == lba \div b    r1 == lba % b
             q2 == q1 \div b     r2 == q1 % b
             q3 == q2 \div b     r3 == q2 % b
  <1>1. q1 \in Nat /\ r1 \in 0 .. b - 1 /\ lba = q1 * b + r1
    BY DivMod
  <1>2. q2 \in Nat /\ r2 \in 0 .. b - 1 /\ q1 = q2 * b + r2
    BY <1>1, DivMod
  <1>3. q3 \in Nat /\ r3 \in 0 .. b - 1 /\ q2 = q3 * b + r3
    BY <1>2, DivMod
  <1> HIDE DEF q1, r1, q2, r2, q3, r3
  <1>4. lba \div (b * b) = q2
    <2>1. b * b \in Nat \ {0}
      OBVIOUS
    <2>2. r2 * b + r1 \in 0 .. (b * b) - 1
      <3>1. r2 * b <= (b - 1) * b /\ r2 * b \in Nat
        BY <1>2
      <3>2. (b - 1) * b = b * b - b
        OBVIOUS
      <3> QED
        BY <3>1, <3>2, <1>1, <2>1
    <2>3. lba = q2 * (b * b) + (r2 * b + r1)
      BY <1>1, <1>2
    <2> QED
      BY <2>1, <2>2, <2>3, <1>2, DivModUnique
  <1>5. lba \div (b * b * b) = q3
    <2>1. b * b \in Nat \ {0} /\ b * b * b \in Nat \ {0}
      OBVIOUS
    <2>2. r3 * (b * b) + (r2 * b + r1) \in 0 .. (b * b * b) - 1
      <3>1. r2 * b <= (b - 1) * b /\ r2 * b \in Nat
        BY <1>2
      <3>2. (b - 1) * b = b * b - b
        OBVIOUS
      <3>3. r3 * (b * b) <= (b - 1) * (b * b) /\ r3 * (b * b) \in Nat
        BY <1>3, <2>1
      <3>4. (b - 1) * (b * b) = b * b * b - b * b
        OBVIOUS
      <3> QED
        BY <3>1, <3>2, <3>3, <3>4, <1>1, <2>1
    <2>3. lba = q3 * (b * b * b) + (r3 * (b * b) + (r2 * b + r1))
      BY <1>1, <1>2, <1>3
    <2> DEFINE c == b * b * b    r == r3 * (b * b) + (r2 * b + r1)
    <2>4. c \in Nat \ {0} /\ r \in 0 .. c - 1 /\ lba = q3 * c + r
      BY <2>1, <2>2, <2>3
    <2> HIDE DEF c, r
    <2>5. lba \div c = q3
      BY <2>4, <1>3, DivModUnique
    <2> QED
      BY <2>5 DEF c
  <1>6. q3 < b
    <2>1. b * b * b \in Nat \ {0} /\ lba < b * b * b * b
      BY DEF LbaLimit
    <2>2. lba >= q3 * (b * b * b)
      <3>1. \A c \in Nat \ {0} :
               lba = (lba \div c) * c + (lba % c) /\ lba % c \in Nat
        BY DivMod
      <3>2. \A c \in Nat \ {0} : lba \div c = q3 => lba >= q3 * c
        BY <3>1, <1>3
      <3> QED
        BY <3>2, <2>1, <1>5, Zenon
    <2>3. ASSUME q3 >= b PROVE FALSE
      <3>1. q3 * (b * b * b) >= b * (b * b * b)
        BY <2>3, <2>1, <1>3
      <3>2. b * (b * b * b) = b * b * b * b
        OBVIOUS
      <3> QED
        BY <3>1, <3>2, <2>1, <2>2, <1>3
    <2> QED
      BY <2>3, <1>3
  <1>7. q3 % b = q3
    <2>1. q3 \in 0 .. b - 1 /\ 0 * b + q3 = q3
      BY <1>3, <1>6
    <2> QED
      BY <2>1, DivModUnique
  <1>8. /\ Digit(lba, 1) = r1 /\ Digit(lba, 2) = r2
        /\ Digit(lba, 3) = r3 /\ Digit(lba, 4) = q3
    BY <1>4, <1>5, <1>7 DEF Digit, q1, r1, r2, r3
  <1>9. r1 + b * (r2 + b * (r3 + b * q3)) = lba
    <2>1. q2 = r3 + b * q3 /\ q1 = r2 + b * q2 /\ lba = r1 + b * q1
      BY <1>1, <1>2, <1>3
    <2> QED
      BY <2>1
  <1> QED
    BY <1>1, <1>2, <1>3, <1>8, <1>9

LEMMA SectorWords ==
    ASSUME NEW s \in Nat
    PROVE  /\ New(s) \in Seq(Word) /\ Len(New(s)) = Words
           /\ Old(s) \in Seq(Word) /\ Len(Old(s)) = Words
           /\ \A m \in 1 .. Words : New(s)[m] = <<"new", s, m - 1>>
  BY DiskNumbers DEF New, Old, Word

\* The fields that a record has can be told one by one.
CallFields == {"at", "ret", "op", "lba", "count", "asked", "k"}
DevFields == {"bsy", "drq", "err", "op", "lba", "left", "data", "regs"}

LEMMA Fields ==
    DiskTypes => DOMAIN call = CallFields /\ DOMAIN dev = DevFields /\ DOMAIN dev.regs = Register
  BY DEF DiskTypes, CallFields, DevFields, CallRecord, DevRecord

\* A call that goes on is still a call.
LEMMA CallGoes ==
    ASSUME DiskTypes, NEW k \in Nat, NEW ret \in {Ok, Error},
           NEW at \in {"none", "out", "busy", "words", "done"},
           call' = [call EXCEPT !.at = at, !.k = k, !.ret = ret]
    PROVE  /\ call' \in CallRecord
           /\ call'.at = at /\ call'.k = k /\ call'.ret = ret
           /\ call'.op = call.op /\ call'.lba = call.lba
           /\ call'.count = call.count /\ call'.asked = call.asked
  <1>1. call \in CallRecord
    BY DEF DiskTypes
  <1> QED
    BY <1>1 DEF CallRecord

-----------------------------------------------------------------------------
(* The start, the root device, and calls *)

LEMMA DiskStarts == DiskInit => DiskBody
  <1> SUFFICES ASSUME DiskInit PROVE DiskBody
    OBVIOUS
  <1>1. \A x \in Sector : Old(x) \in Seq(Word) /\ Len(Old(x)) = Words
    BY DiskNumbers, SectorWords
  <1>2. DiskTypes
    <2>1. buf \in [0 .. Sectors * Words - 1 -> Word]
      BY DEF DiskInit, NoData, NoWord, Word
    <2>2. disk \in [Sector -> Seq(Word)] /\ \A x \in Sector : Len(disk[x]) = Words
      BY <1>1 DEF DiskInit
    <2>3. dev \in DevRecord
      BY DEF DiskInit, Idle, Register, DevRecord
    <2>4. call \in CallRecord
      BY DEF DiskInit, Free, Ok, Error, CallRecord
    <2> QED
      BY <2>1, <2>2, <2>3, <2>4, DiskNumbers DEF DiskTypes, DiskInit, NoDev
  <1>3. OnlyNamed
    BY DEF OnlyNamed, DiskInit
  <1> QED
    BY <1>2, <1>3
       DEF DiskBody, DiskInit, StoreNamed, Idle, Free, Underway, Quiet, Transferred, SetUp,
           InTransfer, ReadTrue, WriteDone

LEMMA RootStep ==
    ASSUME DiskBody, ~overrun, Attach, ~overrun'
    PROVE  DiskBody'
  <1> PICK d \in {ata_pio_init} \cup UNION {ramdisk_create(size) : size \in RamSizes} :
         blockdev_set_root(d)
    BY DEF Attach
  <1>0. d.name \in {"none", "ata0", "ram0"} /\ d.size \in Nat
        /\ d = [name |-> d.name, size |-> d.size]
    BY DiskNumbers, DiskAssumption DEF ata_pio_init, ramdisk_create, NoDev
  <1>1. call = Free /\ g_root_dev' = d /\ UNCHANGED <<disk, dev, call, buf, named>>
    <2>1. call = Free
      BY DEF Attach
    <2> HIDE DEF Attach
    <2> QED
      BY <2>1 DEF blockdev_set_root
  <1>2. ~dev.bsy
    BY <1>1 DEF DiskBody, Underway, Free
  <1>3. g_root_dev' \in [name : {"none", "ata0", "ram0"}, size : 0 .. Sectors * Words]
    <2>1. d.size <= Sectors * Words
      <3>1. ~(d.size > Sectors * Words)
        BY Zenon DEF blockdev_set_root
      <3> QED
        BY <1>0, <3>1, DiskNumbers
    <2> QED
      BY <1>0, <1>1, <2>1, DiskNumbers
  <1>4. DiskTypes'
    BY <1>1, <1>3 DEF DiskBody, DiskTypes
  <1>5. OnlyNamed' /\ StoreNamed'
    BY <1>1 DEF DiskBody, OnlyNamed, StoreNamed
  <1> QED
    BY <1>1, <1>2, <1>4, <1>5
       DEF DiskBody, Free, Underway, Quiet, Transferred, SetUp, InTransfer, ReadTrue, WriteDone

LEMMA Asked ==
    ASSUME NEW op, NEW lba, NEW count,
           \/ \E n \in Typed : lba = n % UINT32 /\ count = 1
           \/ \E r \in Requests : lba = r[1] /\ count = r[2]
    PROVE  lba \in Nat /\ count \in Nat /\ (lba + count) * Words < UINT64
  <1>1. CASE \E n \in Typed : lba = n % UINT32 /\ count = 1
    <2> PICK n \in Nat : lba = n % UINT32 /\ count = 1
      BY <1>1, DiskAssumption
    <2>1. lba \in 0 .. UINT32 - 1
      BY DiskNumbers, DivMod
    <2>2. lba + 1 \in Nat /\ UINT32 - (lba + 1) \in Nat
      BY <2>1, DiskNumbers
    <2>3. UINT32 * Words = (lba + 1) * Words + (UINT32 - (lba + 1)) * Words
      BY <2>2, DiskNumbers
    <2>4. (UINT32 - (lba + 1)) * Words \in Nat /\ (lba + 1) * Words \in Nat
      BY <2>2, DiskNumbers
    <2>5. UINT32 * Words < UINT64
      BY DiskAssumption
    <2> QED
      BY <2>1, <2>3, <2>4, <2>5, DiskNumbers
  <1>2. CASE \E r \in Requests : lba = r[1] /\ count = r[2]
    BY <1>2, DiskAssumption
  <1> QED
    BY <1>1, <1>2

\* The ATA driver takes a call, or answers it at once.
LEMMA AtaStep ==
    ASSUME DiskBody, ~overrun, NEW op \in {"read", "write"}, NEW lba \in Nat, NEW count \in Nat,
           Call(op, lba, count), g_root_dev.name = "ata0"
    PROVE  DiskBody'
  <1>1. /\ Quiet /\ AtaCall(op, lba, count) /\ buf' = NoData
        /\ UNCHANGED <<disk, g_root_dev, overrun>>
        /\ named' = IF op = "write" THEN named \cup (lba .. lba + count - 1) ELSE named
    BY DEF Call
  <1>2. /\ Cut(count) \in 0 .. CountMax /\ Cut(count) % (CountMax + 1) = Cut(count)
        /\ (Cut(count) = 0 <=> count = 0) /\ Cut(count) \in Nat
    <2>1. Cut(count) \in 0 .. CountMax /\ (Cut(count) = 0 <=> count = 0)
      BY DiskNumbers DEF Cut
    <2>2. CountMax + 1 \in Nat \ {0} /\ Cut(count) \in 0 .. (CountMax + 1) - 1
          /\ 0 * (CountMax + 1) + Cut(count) = Cut(count)
      BY <2>1, DiskNumbers
    <2>3. (0 * (CountMax + 1) + Cut(count)) % (CountMax + 1) = Cut(count)
      BY <2>2, DivModUnique
    <2> QED
      BY <2>1, <2>2, <2>3
  <1>3. UNCHANGED dev
    BY <1>1 DEF AtaCall, Returns
  <1>4. \/ /\ call' = [at |-> "done", ret |-> Error, op |-> op, lba |-> lba, count |-> count,
                       asked |-> count, k |-> 0]
           /\ lba >= LbaLimit
        \/ call' = [at |-> "done", ret |-> Ok, op |-> op, lba |-> lba, count |-> count,
                       asked |-> count, k |-> 0] /\ count = 0
        \/ /\ call' = [at |-> "out", ret |-> Ok, op |-> op, lba |-> lba, count |-> Cut(count),
                       asked |-> count, k |-> 1]
           /\ Cut(count) > 0 /\ lba < LbaLimit
    <2>1. LbaLimit \in Nat
      BY DiskNumbers DEF LbaLimit
    <2> QED
      BY <1>1, <1>2, <2>1 DEF AtaCall, Returns
  <1>5. DiskTypes'
    <2>1. buf' \in [0 .. Sectors * Words - 1 -> Word]
      BY <1>1 DEF NoData, NoWord, Word
    <2>2. call' \in CallRecord
      BY <1>2, <1>4 DEF CallRecord
    <2> QED
      BY <1>1, <1>3, <2>1, <2>2 DEF DiskBody, DiskTypes
  <1>6. OnlyNamed' /\ StoreNamed'
    BY <1>1, <1>3 DEF DiskBody, OnlyNamed, StoreNamed
  <1>7. Underway' /\ SetUp'
    BY <1>1, <1>2, <1>3, <1>4 DEF Underway, SetUp, Quiet, Transferred, Ok, Error
  <1>8. InTransfer'
    BY <1>1, <1>2, <1>4 DEF InTransfer, Reading, Writing, Ok, Error
  <1> QED
    BY <1>1, <1>5, <1>6, <1>7, <1>8 DEF DiskBody

LEMMA NoWrapAround ==
    ASSUME NEW m \in Nat \ {0}, NEW a \in Nat, a < m
    PROVE  a % m = a
  <1>1. a \in 0 .. m - 1 /\ 0 * m + a = a
    OBVIOUS
  <1>2. (0 * m + a) % m = a
    BY <1>1, DivModUnique
  <1> QED
    BY <1>1, <1>2

\* The RAM disk copies all of it, or refuses.
LEMMA RamStep ==
    ASSUME DiskBody, ~overrun, NEW op \in {"read", "write"}, NEW lba \in Nat, NEW count \in Nat,
           (lba + count) * Words < UINT64,
           Call(op, lba, count), g_root_dev.name = "ram0"
    PROVE  DiskBody'
  <1> DEFINE fits == (lba + count) * Words <= g_root_dev.size
  <1>1. /\ UNCHANGED <<g_root_dev, overrun, dev>>
        /\ named' = IF op = "write" THEN named \cup (lba .. lba + count - 1) ELSE named
        /\ RamCall(op, lba, count)
    BY DEF Call, RamCall, Returns
  <1>2. /\ Offset(lba) = lba * Words /\ Offset(lba) \div Words = lba
        /\ (Offset(lba) + count * Words) % UINT64 = (lba + count) * Words
    <2>1. lba * Words \in Nat /\ count * Words \in Nat
      BY DiskNumbers
    <2>2. (lba + count) * Words = lba * Words + count * Words
      BY DiskNumbers
    <2>3. Offset(lba) = lba * Words
      <3>1. lba * Words < UINT64 /\ UINT64 \in Nat \ {0}
        BY <2>1, <2>2, DiskNumbers
      <3> PICK a \in Nat : a = lba * Words
        BY <2>1
      <3>2. a % UINT64 = a
        BY <3>1, NoWrapAround
      <3> QED
        BY <3>2 DEF Offset
    <2>4. 0 \in Index /\ lba * Words + 0 = lba * Words
      BY <2>1, DiskNumbers
    <2>5. (lba * Words + 0) \div Words = lba
      BY <2>4, PlaceIs
    <2>6. (lba + count) * Words \in Nat
      BY <2>1, <2>2
    <2> QED
      BY <2>2, <2>3, <2>4, <2>5, <2>6, DiskNumbers, NoWrapAround
  <1>3. fits => lba + count <= Sectors
    <2>1. 0 \in Index /\ lba + count \in Nat /\ Sectors \in Nat
      BY DiskNumbers
    <2>2. Sectors * Words + 0 < (lba + count) * Words <=> Sectors < lba + count
      BY <2>1, PlaceBefore
    <2>3. Sectors * Words \in Nat /\ (lba + count) * Words \in Nat
      BY <2>1, DiskNumbers
    <2>4. g_root_dev.size \in 0 .. Sectors * Words
      BY DEF DiskBody, DiskTypes
    <2> QED
      BY <2>1, <2>2, <2>3, <2>4
  <1>4. /\ call' = [at |-> "done", ret |-> IF fits THEN Ok ELSE Error, op |-> op, lba |-> lba,
                    count |-> count, asked |-> count, k |-> 0]
        /\ disk' = IF fits /\ op = "write"
                   THEN [x \in Sector |-> IF x \in lba .. lba + count - 1
                                          THEN New(x - lba) ELSE disk[x]]
                   ELSE disk
        /\ buf' = IF fits /\ op = "read"
                  THEN [k \in DOMAIN NoData |-> IF k < count * Words
                            THEN disk[lba + (k \div Words)][(k % Words) + 1] ELSE NoWord]
                  ELSE NoData
    BY <1>1, <1>2 DEF RamCall, Returns
  <1> HIDE DEF fits
  <1>5. DOMAIN NoData = 0 .. Sectors * Words - 1 /\ NoWord \in Word
        /\ \A k \in DOMAIN NoData : k \in Nat /\ NoData[k] = NoWord
    BY DiskNumbers DEF NoData, NoWord, Word
  <1>6. ASSUME fits, NEW k \in DOMAIN NoData, k < count * Words
        PROVE  disk[lba + (k \div Words)][(k % Words) + 1] \in Word
    <2>1. PICK s \in Nat, i \in Index : k = s * Words + i /\ s = k \div Words /\ i = k % Words
      BY <1>5, PlaceOf
    <2>2. s < count
      BY <2>1, <1>6, PlaceBefore
    <2>3. lba + s \in Sector /\ i + 1 \in 1 .. Words
      BY <2>2, <1>3, <1>6, DiskNumbers
    <2>4. disk[lba + s] \in Seq(Word) /\ Len(disk[lba + s]) = Words
      BY <2>3 DEF DiskBody, DiskTypes
    <2>5. disk[lba + s][i + 1] \in Word
      BY <2>3, <2>4, ElementOfSeq
    <2> QED
      BY <2>1, <2>5
  <1>7. DiskTypes'
    <2>1. buf' \in [0 .. Sectors * Words - 1 -> Word]
      BY <1>4, <1>5, <1>6 DEF NoData
    <2>2. disk' \in [Sector -> Seq(Word)] /\ \A x \in Sector : Len(disk'[x]) = Words
      <3>1. \A x \in lba .. lba + count - 1 : x - lba \in Nat
        OBVIOUS
      <3>2. \A x \in lba .. lba + count - 1 :
               New(x - lba) \in Seq(Word) /\ Len(New(x - lba)) = Words
        BY <3>1, SectorWords
      <3> QED
        BY <1>4, <3>2 DEF DiskBody, DiskTypes
    <2>3. call' \in CallRecord
      BY <1>4 DEF CallRecord
    <2> QED
      BY <1>1, <2>1, <2>2, <2>3 DEF DiskBody, DiskTypes
  <1>8. OnlyNamed'
    BY <1>1, <1>4 DEF DiskBody, OnlyNamed
  <1>9. StoreNamed' /\ Underway' /\ SetUp' /\ InTransfer'
    BY <1>1, <1>4 DEF DiskBody, StoreNamed, Underway, SetUp, InTransfer, Quiet, Transferred
  <1>10. ReadTrue'
    <2>0. (call'.ret = Ok => fits) /\ call'.op = op
      BY <1>4 DEF Ok, Error
    <2> SUFFICES ASSUME fits, op = "read", NEW s \in 0 .. Wanted' - 1, NEW i \in Index
                 PROVE  call'.lba + s \in Sector
                        /\ buf'[s * Words + i] = disk'[call'.lba + s][i + 1]
      BY <2>0 DEF ReadTrue, Transferred
    <2>1. s \in Nat /\ s < count /\ call'.lba = lba
      BY <1>1, <1>4 DEF Wanted
    <2>2. /\ (s * Words + i) \div Words = s /\ (s * Words + i) % Words = i
          /\ s * Words + i \in Nat /\ s * Words + i < count * Words
      BY <2>1, PlaceIs, PlaceBefore
    <2>3. lba + s \in Sector /\ s < Sectors
      BY <2>1, <1>3, DiskNumbers
    <2>4. s * Words + i < Sectors * Words
      BY <2>1, <2>3, DiskNumbers, PlaceBefore
    <2>5. s * Words + i \in DOMAIN NoData
      BY <2>2, <2>4, <1>5, DiskNumbers
    <2> QED
      BY <1>4, <2>1, <2>2, <2>3, <2>5
  <1>11. WriteDone'
    <2> SUFFICES ASSUME fits, op = "write", NEW s \in 0 .. Wanted' - 1
                 PROVE  call'.lba + s \in Sector /\ disk'[call'.lba + s] = New(s)
      BY <1>4 DEF WriteDone, Transferred, Ok, Error
    <2>1. s \in Nat /\ s < count /\ call'.lba = lba
      BY <1>1, <1>4 DEF Wanted
    <2>2. lba + s \in Sector /\ lba + s \in lba .. lba + count - 1 /\ (lba + s) - lba = s
      BY <2>1, <1>3, DiskNumbers
    <2> QED
      BY <1>4, <2>1, <2>2
  <1> QED
    BY <1>7, <1>8, <1>9, <1>10, <1>11 DEF DiskBody

-----------------------------------------------------------------------------
(* The driver, one port access at a time *)

LEMMA OutStep ==
    ASSUME DiskBody, ~overrun, Outb, ~overrun'
    PROVE  DiskBody'
  <1>1. /\ call.at = "out" /\ call.k <= Len(Setup)
        /\ dev' = [dev EXCEPT !.regs[Setup[call.k].reg] = Setup[call.k].value]
        /\ call' = [call EXCEPT !.k = @ + 1]
        /\ UNCHANGED <<g_root_dev, disk, buf, named>>
        /\ ~dev.bsy
    BY DEF Outb
  <1>2. DiskTypes /\ DOMAIN dev = DevFields /\ DOMAIN dev.regs = Register
    BY Fields DEF DiskBody
  <1>3. /\ call.op \in {"read", "write"} /\ call.lba < LbaLimit /\ call.count > 0
        /\ call.ret = Ok /\ call.count = Cut(call.asked) /\ g_root_dev.name = "ata0"
        /\ call.k \in 1 .. 7
    BY <1>1 DEF DiskBody, Underway, SetUp, Quiet
  <1>4. Len(Setup) = 6 /\ call.k \in 1 .. 6
    BY <1>1, <1>3 DEF Setup
  <1>5. /\ \A j \in 1 .. 6 : Setup[j].reg \in Register /\ Setup[j].value \in Nat
        /\ \A i, j \in 1 .. 6 : Setup[i].reg = Setup[j].reg => i = j
    <2>1. call.lba \in Nat /\ call.count \in Nat
      BY <1>2 DEF DiskTypes, CallRecord
    <2>2. \A j \in 1 .. 4 : Digit(call.lba, j) \in Nat
      BY <2>1, <1>3, Digits
    <2> QED
      BY <2>1, <2>2 DEF Setup, Register
  <1>6. /\ call' \in CallRecord
        /\ call'.at = call.at /\ call'.k = call.k + 1 /\ call'.lba = call.lba
        /\ call'.count = call.count /\ call'.op = call.op /\ call'.asked = call.asked
        /\ call'.ret = call.ret
    <2>1. call' = [call EXCEPT !.at = call.at, !.k = call.k + 1, !.ret = call.ret]
      BY <1>1, <1>2 DEF DiskTypes, CallRecord
    <2>2. /\ call.at \in {"none", "out", "busy", "words", "done"} /\ call.ret \in {Ok, Error}
          /\ call.k + 1 \in Nat
      BY <1>2 DEF DiskTypes, CallRecord
    <2> QED
      BY <2>1, <2>2, <1>2, CallGoes
  <1>7. /\ dev'.bsy = dev.bsy /\ dev'.data = dev.data /\ dev'.op = dev.op /\ dev'.lba = dev.lba
        /\ dev'.regs = [dev.regs EXCEPT ![Setup[call.k].reg] = Setup[call.k].value]
    BY <1>1, <1>2 DEF DevFields
  <1>8. DiskTypes'
    <2>0. dev.regs \in [Register -> Nat]
      BY <1>2 DEF DiskTypes, DevRecord
    <2>1. dev'.regs \in [Register -> Nat]
      BY <2>0, <1>4, <1>5, <1>7
    <2>2. dev' = [dev EXCEPT !.regs = dev'.regs]
      BY <1>1, <1>2, <1>7 DEF DevFields
    <2>3. dev' \in DevRecord
      BY <1>2, <2>1, <2>2 DEF DiskTypes, DevRecord
    <2> QED
      BY <1>1, <1>2, <1>6, <2>3 DEF DiskTypes
  <1>9. Setup' = Setup
    BY <1>6 DEF Setup
  <1>10. SetUp'
    <2>1. \A j \in 1 .. call.k : dev'.regs[Setup[j].reg] = Setup[j].value
      <3> SUFFICES ASSUME NEW j \in 1 .. call.k
                   PROVE  dev'.regs[Setup[j].reg] = Setup[j].value
        OBVIOUS
      <3>1. CASE j = call.k
        BY <3>1, <1>2, <1>4, <1>5, <1>7
      <3>2. CASE j # call.k
        <4>1. j \in 1 .. (call.k - 1) /\ j \in 1 .. 6 /\ Setup[j].reg # Setup[call.k].reg
          BY <3>2, <1>4, <1>5
        <4>2. dev.regs[Setup[j].reg] = Setup[j].value
          BY <4>1, <1>1 DEF DiskBody, SetUp
        <4> QED
          BY <4>1, <4>2, <1>2, <1>5, <1>7
      <3> QED
        BY <3>1, <3>2
    <2>2. (call.k + 1) - 1 = call.k /\ call.k + 1 \in 1 .. 7
      BY <1>4
    <2> QED
      BY <1>1, <1>6, <1>7, <1>9, <2>1, <2>2 DEF SetUp
  <1>11. OnlyNamed' /\ StoreNamed'
    BY <1>1, <1>7 DEF DiskBody, OnlyNamed, StoreNamed
  <1>12. Underway' /\ InTransfer'
    BY <1>1, <1>3, <1>6, <1>7 DEF DiskBody, Underway, Quiet, InTransfer, Reading, Writing
  <1> QED
    BY <1>1, <1>3, <1>8, <1>10, <1>11, <1>12 DEF DiskBody

\* The command starts the transfer with what the registers hold.
LEMMA CommandStep ==
    ASSUME DiskBody, ~overrun, Command, ~overrun'
    PROVE  DiskBody'
  <1>1. /\ call.at = "out" /\ call.k > Len(Setup)
        /\ dev' = [dev EXCEPT !.bsy = TRUE, !.drq = FALSE, !.err = FALSE, !.op = call.op,
                      !.lba = dev.regs["LBA0"] + Base * (dev.regs["LBA1"]
                               + Base * (dev.regs["LBA2"] + Base * dev.regs["HDDEVSEL"])),
                      !.left = dev.regs["SECCOUNT0"], !.data = <<>>]
        /\ call' = [call EXCEPT !.at = "busy", !.k = 0]
        /\ UNCHANGED <<g_root_dev, disk, buf, named>>
    BY DEF Command
  <1>2. DiskTypes /\ call \in CallRecord /\ dev \in DevRecord
    BY DEF DiskBody, DiskTypes
  <1>3. /\ call.op \in {"read", "write"} /\ call.lba < LbaLimit /\ call.count > 0
        /\ call.ret = Ok /\ call.count = Cut(call.asked) /\ g_root_dev.name = "ata0"
        /\ call.k \in 1 .. 7 /\ call.count \in Nat /\ call.lba \in Nat
    BY <1>1, <1>2 DEF DiskBody, Underway, SetUp, Quiet, CallRecord
  <1>4. Len(Setup) = 6 /\ call.k = 7
    BY <1>1, <1>3 DEF Setup
  <1>5. \A j \in 1 .. 6 : dev.regs[Setup[j].reg] = Setup[j].value
    BY <1>1, <1>4 DEF DiskBody, SetUp
  <1>6. /\ dev.regs["HDDEVSEL"] = Digit(call.lba, 4) /\ dev.regs["SECCOUNT0"] = call.count
        /\ dev.regs["LBA0"] = Digit(call.lba, 1) /\ dev.regs["LBA1"] = Digit(call.lba, 2)
        /\ dev.regs["LBA2"] = Digit(call.lba, 3)
    BY <1>5 DEF Setup
  <1>7. dev' = [dev EXCEPT !.bsy = TRUE, !.drq = FALSE, !.err = FALSE, !.op = call.op,
                           !.lba = call.lba, !.left = call.count, !.data = <<>>]
    BY <1>1, <1>3, <1>6, Digits
  <1>8. /\ dev' \in DevRecord
        /\ dev'.bsy /\ ~dev'.err /\ dev'.op = call.op
        /\ dev'.lba = call.lba /\ dev'.left = call.count /\ dev'.data = <<>>
    <2>1. <<>> \in Seq(Word) /\ call.count \in Int
      BY <1>3
    <2>2. dev' \in DevRecord
      BY <2>1, <1>2, <1>3, <1>7 DEF DevRecord
    <2>3. dev'.bsy /\ ~dev'.err /\ dev'.op = call.op
      BY <1>2, <1>7 DEF DevRecord
    <2>4. dev'.lba = call.lba /\ dev'.left = call.count /\ dev'.data = <<>>
      BY <1>2, <1>7 DEF DevRecord
    <2> QED
      BY <2>2, <2>3, <2>4
  <1>9. /\ call' \in CallRecord
        /\ call'.at = "busy" /\ call'.k = 0 /\ call'.ret = Ok
        /\ call'.op = call.op /\ call'.lba = call.lba
        /\ call'.count = call.count /\ call'.asked = call.asked
    BY <1>1, <1>2, <1>3 DEF CallRecord
  <1>10. DiskTypes' /\ OnlyNamed' /\ StoreNamed'
    BY <1>1, <1>2, <1>8, <1>9 DEF DiskBody, DiskTypes, OnlyNamed, StoreNamed
  <1>11. Underway' /\ SetUp'
    BY <1>1, <1>3, <1>9 DEF DiskBody, Underway, SetUp
  <1>12. InTransfer'
    <2>1. 0 \in 0 .. (call.count - 1) /\ 0 * Words = 0 /\ call.lba + 0 = call.lba
          /\ call.count - 0 = call.count
      BY <1>3, DiskNumbers
    <2>2. CASE call.op = "read"
      <3>1. Read(0)'
        <4>1. \A s \in Nat, i \in Index : ~(s * Words + i < 0)
          BY PlaceIs
        <4> QED
          BY <4>1 DEF Read
      <3>2. Seeking(0)'
        BY <1>8, <1>9, <2>1, <2>2 DEF Seeking
      <3>3. Reading'
        BY <3>1, <3>2, <1>9, <2>1 DEF Reading
      <3> QED
        BY <3>3, <2>2, <1>9 DEF InTransfer
    <2>3. CASE call.op = "write"
      <3>1. Written(0)'
        BY DEF Written
      <3>2. Preparing(0)'
        BY <1>8, <1>9, <2>1, <2>3 DEF Preparing, Writes
      <3>3. Writing'
        BY <3>1, <3>2, <1>9, <2>1 DEF Writing
      <3> QED
        BY <3>3, <2>3, <1>9 DEF InTransfer
    <2> QED
      BY <2>2, <2>3, <1>3
  <1> QED
    BY <1>1, <1>3, <1>10, <1>11, <1>12 DEF DiskBody

\* What every step of a transfer can count on.
LEMMA MidTransfer ==
    ASSUME DiskBody, ~overrun, call.at \in {"busy", "words"}
    PROVE  /\ DiskTypes /\ call \in CallRecord /\ dev \in DevRecord
           /\ call.op \in {"read", "write"} /\ call.ret = Ok
           /\ call.count > 0 /\ call.count \in Nat /\ call.lba \in Nat /\ call.k \in Nat
           /\ g_root_dev.name = "ata0" /\ call.lba < LbaLimit
           /\ call.op = "read" => Reading
           /\ call.op = "write" => Writing
  <1>1. /\ call.op \in {"read", "write"} /\ call.ret = Ok /\ call.count > 0
        /\ g_root_dev.name = "ata0" /\ call.lba < LbaLimit
    BY DEF DiskBody, Underway, Quiet
  <1>2. DiskTypes /\ call \in CallRecord /\ dev \in DevRecord
    BY DEF DiskBody, DiskTypes
  <1> QED
    BY <1>1, <1>2 DEF DiskBody, InTransfer, CallRecord

LEMMA WaitStep ==
    ASSUME DiskBody, ~overrun, ata_wait
    PROVE  DiskBody'
  <1>1. /\ call.at = "busy" /\ ~dev.bsy
        /\ call' = IF ~Ready THEN [call EXCEPT !.at = "ready"]
                   ELSE IF dev.err THEN [call EXCEPT !.at = "done", !.ret = Error]
                   ELSE [call EXCEPT !.at = "words"]
        /\ UNCHANGED <<g_root_dev, disk, dev, buf, overrun, named>>
    BY DEF ata_wait, DiskBody, DiskTypes, CallRecord
  <1>2. /\ DiskTypes /\ call \in CallRecord
        /\ call.op \in {"read", "write"} /\ call.ret = Ok /\ call.count > 0
        /\ call.count \in Nat /\ call.k \in Nat
        /\ g_root_dev.name = "ata0" /\ call.lba < LbaLimit
        /\ call.op = "read" => Reading
        /\ call.op = "write" => Writing
    BY <1>1, MidTransfer
  <1>3. \/ dev.err
        \/ /\ call.op = "read" /\ dev.drq /\ ~dev.err
           /\ \E s \in 0 .. (call.count - 1) : call.k = s * Words /\ Read(call.k) /\ Giving(s, 0)
        \/ /\ call.op = "write" /\ dev.drq /\ ~dev.err
           /\ \E s \in 0 .. (call.count - 1) : call.k = s * Words /\ Written(s) /\ Taking(s, 0)
    <2>1. CASE call.op = "read"
      BY <2>1, <1>1, <1>2 DEF Reading, Seeking, Giving, Failed
    <2>2. CASE call.op = "write"
      BY <2>2, <1>1, <1>2 DEF Writing, Preparing, Taking, Storing, Writes, Failed
    <2> QED
      BY <2>1, <2>2, <1>2
  <1>4. CASE dev.err
    <2>1. call' = [call EXCEPT !.at = "done", !.ret = Error]
      BY <1>1, <1>4 DEF Ready
    <2>2. /\ call' \in CallRecord /\ call'.at = "done" /\ call'.ret = Error
          /\ call'.op = call.op /\ call'.lba = call.lba /\ call'.asked = call.asked
      BY <2>1, <1>2 DEF CallRecord
    <2>3. DiskTypes' /\ OnlyNamed' /\ StoreNamed'
      BY <1>1, <1>2, <2>2 DEF DiskBody, DiskTypes, OnlyNamed, StoreNamed
    <2> QED
      BY <1>1, <1>2, <2>2, <2>3
         DEF DiskBody, Underway, Transferred, Quiet, SetUp, InTransfer, Ok, Error
  <1>5. CASE ~dev.err
    <2>1. call' = [call EXCEPT !.at = "words"]
      BY <1>1, <1>3, <1>5 DEF Ready
    <2>2. /\ call' \in CallRecord /\ call'.at = "words" /\ call'.ret = call.ret
          /\ call'.op = call.op /\ call'.lba = call.lba /\ call'.k = call.k
          /\ call'.count = call.count /\ call'.asked = call.asked
      BY <2>1, <1>2 DEF CallRecord
    <2>3. DiskTypes' /\ OnlyNamed' /\ StoreNamed'
      BY <1>1, <1>2, <2>2 DEF DiskBody, DiskTypes, OnlyNamed, StoreNamed
    <2>4. Underway' /\ SetUp'
      BY <1>1, <1>2, <2>2 DEF DiskBody, Underway, SetUp
    <2>5. 0 \in Index /\ \A s \in Nat : s * Words = s * Words + 0
      BY DiskNumbers
    <2>6. CASE call.op = "read"
      <3>1. PICK s \in 0 .. (call.count - 1) :
               call.k = s * Words /\ Read(call.k) /\ Giving(s, 0)
        BY <2>6, <1>3, <1>5
      <3>2. Read(call.k)' /\ Giving(s, 0)'
        BY <3>1, <1>1, <2>2 DEF Read, Giving
      <3>4. call'.k = s * Words + 0
        BY <3>1, <2>2, <2>5
      <3>5. Reading'
        BY <3>2, <3>4, <2>2, <2>5 DEF Reading
      <3> QED
        BY <3>5, <1>1, <2>2, <2>3, <2>4, <2>6, <1>2 DEF DiskBody, InTransfer
    <2>7. CASE call.op = "write"
      <3>1. PICK s \in 0 .. (call.count - 1) :
               call.k = s * Words /\ Written(s) /\ Taking(s, 0)
        BY <2>7, <1>3, <1>5
      <3>2. Written(s)' /\ Taking(s, 0)'
        BY <3>1, <1>1, <2>2 DEF Written, Taking, Writes, Taken
      <3>4. call'.k = s * Words + 0
        BY <3>1, <2>2, <2>5
      <3>5. Writing'
        BY <3>2, <3>4, <2>2, <2>5 DEF Writing
      <3> QED
        BY <3>5, <1>1, <2>2, <2>3, <2>4, <2>7, <1>2 DEF DiskBody, InTransfer
    <2> QED
      BY <2>6, <2>7, <1>2
  <1> QED
    BY <1>4, <1>5

\* Where the driver is after a word.
LEMMA AdvanceTo ==
    ASSUME DiskTypes, NEW s \in Nat, NEW i \in Index, call.k = s * Words + i, Advance
    PROVE  /\ call' \in CallRecord
           /\ call'.k = call.k + 1 /\ call'.ret = call.ret
           /\ call'.op = call.op /\ call'.lba = call.lba
           /\ call'.count = call.count /\ call'.asked = call.asked
           /\ i + 1 < Words => call'.at = "words" /\ call'.k = s * Words + (i + 1)
           /\ ~(i + 1 < Words) =>
                 /\ call'.k = (s + 1) * Words
                 /\ call'.at = IF s + 1 = call.count THEN "done" ELSE "busy"
  <1> DEFINE at == IF (call.k + 1) % Words # 0 THEN "words"
                   ELSE IF (call.k + 1) \div Words = call.count THEN "done" ELSE "busy"
  <1>1. call' = [call EXCEPT !.k = call.k + 1, !.at = at]
    BY DEF Advance
  <1>2. call \in CallRecord /\ call.k \in Nat
    BY DEF DiskTypes, CallRecord
  <1>3. /\ i + 1 < Words => call.k + 1 = s * Words + (i + 1) /\ at = "words"
        /\ ~(i + 1 < Words) =>
              /\ call.k + 1 = (s + 1) * Words
              /\ at = IF s + 1 = call.count THEN "done" ELSE "busy"
    BY PlaceNext
  <1>4. at \in {"words", "done", "busy"}
    OBVIOUS
  <1> HIDE DEF at
  <1>5. /\ call' \in CallRecord /\ call'.k = call.k + 1 /\ call'.at = at
        /\ call'.ret = call.ret /\ call'.op = call.op /\ call'.lba = call.lba
        /\ call'.count = call.count /\ call'.asked = call.asked
    <2>1. call' = [call EXCEPT !.at = at, !.k = call.k + 1, !.ret = call.ret]
      BY <1>1, <1>2 DEF CallRecord
    <2>2. call.ret \in {Ok, Error} /\ call.k + 1 \in Nat
      BY <1>2 DEF CallRecord
    <2> QED
      BY <2>1, <2>2, <1>4, CallGoes
  <1> QED
    BY <1>3, <1>5

\* One word more of a read.
LEMMA ReadMore ==
    ASSUME NEW s \in Nat, NEW i \in Index, Read(s * Words + i),
           call.lba + s \in Sector, call.lba \in Nat,
           buf \in [0 .. Sectors * Words - 1 -> Word],
           buf' = [buf EXCEPT ![s * Words + i] = disk[call.lba + s][i + 1]],
           UNCHANGED disk, call'.lba = call.lba, call'.count = call.count
    PROVE  Read(s * Words + i + 1)'
  <1>1. s * Words + i \in Nat /\ s * Words + i \in DOMAIN buf
    <2>1. s < Sectors
      BY DiskNumbers
    <2>2. s * Words + i \in Nat /\ s * Words + i < Sectors * Words
      BY <2>1, DiskNumbers, PlaceIs, PlaceBefore
    <2> QED
      BY <2>2, DiskNumbers
  <1> SUFFICES ASSUME NEW t \in 0 .. (call.count - 1)', NEW j \in Index,
                      t * Words + j < s * Words + i + 1
               PROVE  (call.lba + t \in Sector)'
                      /\ (buf[t * Words + j] = disk[call.lba + t][j + 1])'
    BY DEF Read
  <1>2. t \in Nat /\ t \in 0 .. (call.count - 1) /\ t * Words + j \in Nat
    BY PlaceIs
  <1>3. CASE t * Words + j = s * Words + i
    <2>1. t = s /\ j = i
      BY <1>2, <1>3, PlaceIs
    <2> QED
      BY <2>1, <1>1
  <1>4. CASE t * Words + j # s * Words + i
    <2>1. t * Words + j < s * Words + i
      BY <1>1, <1>2, <1>4
    <2>2. call.lba + t \in Sector /\ buf[t * Words + j] = disk[call.lba + t][j + 1]
      BY <1>2, <2>1 DEF Read
    <2>3. buf'[t * Words + j] = buf[t * Words + j]
      BY <1>4
    <2> QED
      BY <2>2, <2>3
  <1> QED
    BY <1>3, <1>4

LEMMA InStep ==
    ASSUME DiskBody, ~overrun, Inw
    PROVE  DiskBody'
  <1>1. /\ call.at = "words" /\ call.op = "read"
        /\ buf' = [buf EXCEPT ![call.k] = Head(dev.data)]
        /\ dev' = IF Len(dev.data) > 1 THEN [dev EXCEPT !.data = Tail(@)]
                  ELSE [dev EXCEPT !.data = <<>>, !.drq = FALSE, !.bsy = dev.left > 0]
        /\ Advance
        /\ UNCHANGED <<g_root_dev, disk, overrun, named>>
    BY DEF Inw, Place
  <1>2. /\ DiskTypes /\ call \in CallRecord /\ dev \in DevRecord
        /\ call.ret = Ok /\ call.count > 0 /\ call.count \in Nat /\ call.lba \in Nat
        /\ g_root_dev.name = "ata0" /\ call.lba < LbaLimit
        /\ Reading
    BY <1>1, MidTransfer
  <1>3. PICK s \in 0 .. (call.count - 1), i \in Index :
           call.k = s * Words + i /\ Read(call.k) /\ Giving(s, i)
    BY <1>1, <1>2 DEF Reading
  <1>4. /\ s \in Nat /\ i \in Nat /\ i < Words /\ 1 \in 1 .. (Words - i) /\ 0 \in Index
        /\ s + 1 \in Nat
    BY DiskNumbers
  <1>5. /\ dev.data \in Seq(Word) /\ Len(dev.data) = Words - i /\ dev.data # <<>>
        /\ Head(dev.data) = disk[call.lba + s][i + 1] /\ Head(dev.data) \in Word
        /\ Tail(dev.data) \in Seq(Word) /\ Len(Tail(dev.data)) = (Words - i) - 1
        /\ \A m \in 1 .. (Words - i) - 1 : Tail(dev.data)[m] = dev.data[m + 1]
    <2>1. dev.data \in Seq(Word) /\ Len(dev.data) = Words - i
      BY <1>2, <1>3 DEF DevRecord, Giving
    <2>2. dev.data # <<>>
      BY <2>1, <1>4, DiskNumbers
    <2>3. /\ Tail(dev.data) \in Seq(Word) /\ Len(Tail(dev.data)) = (Words - i) - 1
          /\ \A m \in 1 .. (Words - i) - 1 : Tail(dev.data)[m] = dev.data[m + 1]
      BY <2>1, <2>2, HeadTailProperties
    <2>4. Head(dev.data) = dev.data[1] /\ Head(dev.data) \in Word
      BY <2>1, <2>2, HeadTailProperties
    <2>5. dev.data[1] = disk[call.lba + s][i + 1]
      BY <1>3, <1>4 DEF Giving
    <2> QED
      BY <2>1, <2>2, <2>3, <2>4, <2>5
  <1>6. /\ call' \in CallRecord
        /\ call'.k = call.k + 1 /\ call'.ret = call.ret
        /\ call'.op = call.op /\ call'.lba = call.lba
        /\ call'.count = call.count /\ call'.asked = call.asked
        /\ i + 1 < Words => call'.at = "words" /\ call'.k = s * Words + (i + 1)
        /\ ~(i + 1 < Words) =>
              /\ call'.k = (s + 1) * Words
              /\ call'.at = IF s + 1 = call.count THEN "done" ELSE "busy"
    BY <1>1, <1>2, <1>3, <1>4, AdvanceTo
  <1>7. call.lba + s \in Sector /\ buf \in [0 .. Sectors * Words - 1 -> Word]
    BY <1>2, <1>3 DEF Giving, DiskTypes
  <1>8. Read(call.k)'
    <2>1. buf' = [buf EXCEPT ![s * Words + i] = disk[call.lba + s][i + 1]]
      BY <1>1, <1>3, <1>5
    <2>2. Read(s * Words + i)
      BY <1>3
    <2>3. Read(s * Words + i + 1)'
      BY <1>1, <1>2, <1>4, <1>6, <1>7, <2>1, <2>2, ReadMore
    <2>4. call'.k = s * Words + i + 1
      BY <1>3, <1>6
    <2> QED
      BY <2>3, <2>4
  <1>9. buf' \in [0 .. Sectors * Words - 1 -> Word]
    BY <1>1, <1>5, <1>7
  <1>10. CASE i + 1 < Words
    <2>1. dev' = [dev EXCEPT !.data = Tail(dev.data)]
      BY <1>1, <1>5, <1>10, <1>4, DiskNumbers
    <2>2. dev' \in DevRecord /\ dev'.data = Tail(dev.data)
          /\ dev'.bsy = dev.bsy /\ dev'.drq = dev.drq /\ dev'.err = dev.err
          /\ dev'.op = dev.op /\ dev'.lba = dev.lba /\ dev'.left = dev.left
      BY <1>2, <1>5, <2>1 DEF DevRecord
    <2>3. i + 1 \in Index /\ (Words - i) - 1 = Words - (i + 1)
      BY <1>4, <1>10, DiskNumbers
    <2>4. \A m \in 1 .. Words - (i + 1) : dev'.data[m] = disk[call.lba + s][(i + 1) + m]
      <3> SUFFICES ASSUME NEW m \in 1 .. Words - (i + 1)
                   PROVE  dev'.data[m] = disk[call.lba + s][(i + 1) + m]
        OBVIOUS
      <3>1. m + 1 \in 1 .. (Words - i) /\ (i + 1) + m = i + (m + 1)
        BY <1>4, <2>3, DiskNumbers
      <3> QED
        BY <3>1, <2>2, <2>3, <1>3, <1>5 DEF Giving
    <2>5. Giving(s, i + 1)'
      BY <1>1, <1>3, <1>5, <1>6, <2>2, <2>3, <2>4 DEF Giving
    <2>6. Reading'
      BY <1>6, <1>8, <1>10, <2>3, <2>5 DEF Reading
    <2>7. DiskTypes' /\ OnlyNamed'
      BY <1>1, <1>2, <1>6, <1>9, <2>2 DEF DiskBody, DiskTypes, OnlyNamed
    <2> QED
      BY <1>1, <1>2, <1>3, <1>6, <1>10, <2>2, <2>6, <2>7
         DEF DiskBody, StoreNamed, Underway, SetUp, InTransfer, Giving
  <1>11. CASE ~(i + 1 < Words)
    <2>1. i + 1 = Words /\ Words - i = 1
      BY <1>4, <1>11, DiskNumbers
    <2>2. dev' = [dev EXCEPT !.data = <<>>, !.drq = FALSE, !.bsy = dev.left > 0]
      BY <1>1, <1>5, <2>1
    <2>3. dev.left = call.count - s - 1 /\ dev.lba = call.lba + s + 1 /\ dev.op = "read" /\ ~dev.err
      BY <1>3 DEF Giving
    <2>4. dev' \in DevRecord /\ dev'.data = <<>>
      <3>1. <<>> \in Seq(Word)
        OBVIOUS
      <3>2. CASE dev.left > 0
        <4>1. dev' = [dev EXCEPT !.data = <<>>, !.drq = FALSE, !.bsy = TRUE]
          BY <2>2, <3>2
        <4> QED
          BY <1>2, <3>1, <4>1 DEF DevRecord
      <3>3. CASE ~(dev.left > 0)
        <4>1. dev' = [dev EXCEPT !.data = <<>>, !.drq = FALSE, !.bsy = FALSE]
          <5>1. dev.left \in Int
            BY <1>2 DEF DevRecord
          <5>2. (dev.left > 0) = FALSE
            BY <3>3, <5>1
          <5> QED
            BY <2>2, <5>2
        <4> QED
          BY <1>2, <3>1, <4>1 DEF DevRecord
      <3> QED
        BY <3>2, <3>3
    <2>5. /\ dev'.err = dev.err
          /\ dev'.op = dev.op /\ dev'.lba = dev.lba /\ dev'.left = dev.left
      BY <1>2, <2>2 DEF DevRecord
    <2>6. dev'.bsy <=> dev.left > 0
      BY <1>2, <2>2 DEF DevRecord
    <2>7. Reading'
      <3>1. CASE s + 1 = call.count
        <4>1. ~dev'.bsy /\ call'.at = "done" /\ call'.k = call.count * Words
          BY <3>1, <1>4, <1>6, <1>11, <2>3, <2>6
        <4>2. Read(call.count * Words)'
          BY <4>1, <1>6, <1>8
        <4> QED
          BY <4>1, <4>2 DEF Reading
      <3>2. CASE s + 1 # call.count
        <4>1. s + 1 \in 0 .. (call.count - 1) /\ dev.left > 0
              /\ call.lba + s + 1 = call.lba + (s + 1)
              /\ call.count - s - 1 = call.count - (s + 1)
          BY <3>2, <1>2, <1>4, <2>3
        <4>2. Seeking(s + 1)'
          BY <4>1, <1>6, <2>3, <2>5, <2>6 DEF Seeking
        <4>3. call'.at = "busy" /\ call'.k = (s + 1) * Words /\ s + 1 \in 0 .. (call'.count - 1)
          BY <3>2, <4>1, <1>6, <1>11
        <4> QED
          BY <4>2, <4>3, <1>8 DEF Reading
      <3> QED
        BY <3>1, <3>2
    <2>8. DiskTypes' /\ OnlyNamed'
      BY <1>1, <1>2, <1>6, <1>9, <2>4 DEF DiskBody, DiskTypes, OnlyNamed
    <2>9. call'.at # "out" /\ call'.at \in {"done", "busy"}
      BY <1>6, <1>11
    <2> QED
      BY <1>1, <1>2, <1>6, <2>3, <2>4, <2>5, <2>7, <2>8, <2>9
         DEF DiskBody, StoreNamed, Underway, SetUp, InTransfer
  <1> QED
    BY <1>10, <1>11

LEMMA OutwStep ==
    ASSUME DiskBody, ~overrun, Outw
    PROVE  DiskBody'
  <1> DEFINE data == Append(dev.data, New(call.k \div Words)[(call.k % Words) + 1])
  <1>1. /\ call.at = "words" /\ call.op = "write"
        /\ dev' = [dev EXCEPT !.data = data, !.drq = Len(data) < Words, !.bsy = Len(data) = Words]
        /\ Advance
        /\ UNCHANGED <<g_root_dev, disk, buf, overrun, named>>
    BY DEF Outw
  <1>2. /\ DiskTypes /\ call \in CallRecord /\ dev \in DevRecord
        /\ call.ret = Ok /\ call.count > 0 /\ call.count \in Nat /\ call.lba \in Nat
        /\ g_root_dev.name = "ata0" /\ call.lba < LbaLimit
        /\ Writing
    BY <1>1, MidTransfer
  <1>3. PICK s \in 0 .. (call.count - 1), i \in Index :
           call.k = s * Words + i /\ Written(s) /\ Taking(s, i)
    BY <1>1, <1>2 DEF Writing
  <1>4. s \in Nat /\ i \in Nat /\ i < Words /\ i + 1 \in 1 .. Words /\ s + 1 \in Nat
    BY DiskNumbers
  <1>5. /\ data \in Seq(Word) /\ Len(data) = i + 1
        /\ \A m \in 1 .. (i + 1) : data[m] = New(s)[m]
    <2>1. call.k \div Words = s /\ call.k % Words = i
      BY <1>3, <1>4, PlaceIs
    <2>2. New(s)[i + 1] \in Word
      BY <1>4, SectorWords, ElementOfSeq
    <2>3. dev.data \in Seq(Word) /\ Len(dev.data) = i /\ \A m \in 1 .. i : dev.data[m] = New(s)[m]
      BY <1>2, <1>3 DEF DevRecord, Taking, Taken
    <2>4. data = Append(dev.data, New(s)[i + 1])
      BY <2>1
    <2> HIDE DEF data
    <2>5. /\ data \in Seq(Word) /\ Len(data) = i + 1 /\ data[i + 1] = New(s)[i + 1]
          /\ \A m \in 1 .. i : data[m] = dev.data[m]
      BY <2>2, <2>3, <2>4, AppendProperties
    <2>6. ASSUME NEW m \in 1 .. (i + 1) PROVE data[m] = New(s)[m]
      <3>1. CASE m = i + 1
        BY <3>1, <2>5
      <3>2. CASE m # i + 1
        <4>1. m \in 1 .. i
          BY <3>2, <1>4
        <4> QED
          BY <4>1, <2>3, <2>5
      <3> QED
        BY <3>1, <3>2
    <2> QED
      BY <2>5, <2>6
  <1>6. /\ call' \in CallRecord
        /\ call'.k = call.k + 1 /\ call'.ret = call.ret
        /\ call'.op = call.op /\ call'.lba = call.lba
        /\ call'.count = call.count /\ call'.asked = call.asked
        /\ i + 1 < Words => call'.at = "words" /\ call'.k = s * Words + (i + 1)
        /\ ~(i + 1 < Words) =>
              /\ call'.k = (s + 1) * Words
              /\ call'.at = IF s + 1 = call.count THEN "done" ELSE "busy"
    BY <1>1, <1>2, <1>3, <1>4, AdvanceTo
  <1>7. /\ ~dev.err /\ dev.op = "write" /\ dev.lba = call.lba + s /\ dev.left = call.count - s
        /\ dev.lba \in Sector
    BY <1>3 DEF Taking, Writes
  <1>8. Written(s)'
    BY <1>1, <1>3, <1>6 DEF Written
  <1> HIDE DEF data
  <1>9. dev.lba \in named
    <2>1. /\ call.lba .. (call.lba + call.asked - 1) \subseteq named
          /\ call.count = Cut(call.asked) /\ call.asked \in Nat
      BY <1>1, <1>2 DEF DiskBody, Underway, CallRecord
    <2>2. call.count <= call.asked
      BY <2>1, DiskNumbers DEF Cut
    <2>3. call.lba + s \in call.lba .. (call.lba + call.asked - 1)
      BY <2>1, <2>2, <1>2, <1>4
    <2> QED
      BY <2>1, <2>3, <1>7
  <1>10. CASE i + 1 < Words
    <2>1. dev' = [dev EXCEPT !.data = data, !.drq = TRUE, !.bsy = FALSE]
      <3>1. (i + 1 < Words) = TRUE /\ (i + 1 = Words) = FALSE
        BY <1>4, <1>10, DiskNumbers
      <3> QED
        BY <1>1, <1>5, <3>1
    <2>2. dev' \in DevRecord /\ dev'.data = data
          /\ ~dev'.bsy /\ dev'.drq /\ dev'.err = dev.err
          /\ dev'.op = dev.op /\ dev'.lba = dev.lba /\ dev'.left = dev.left
      BY <1>2, <1>5, <2>1 DEF DevRecord
    <2>3. i + 1 \in Index
      BY <1>4, <1>10, DiskNumbers
    <2>4. Taking(s, i + 1)'
      BY <1>5, <1>6, <1>7, <2>2 DEF Taking, Writes, Taken
    <2>5. Writing'
      BY <1>6, <1>8, <1>10, <2>3, <2>4 DEF Writing
    <2>6. DiskTypes' /\ OnlyNamed'
      BY <1>1, <1>2, <1>6, <2>2 DEF DiskBody, DiskTypes, OnlyNamed
    <2> QED
      BY <1>1, <1>2, <1>6, <1>10, <2>2, <2>5, <2>6
         DEF DiskBody, StoreNamed, Underway, SetUp, InTransfer
  <1>11. CASE ~(i + 1 < Words)
    <2>0. i + 1 = Words
      BY <1>4, <1>11, DiskNumbers
    <2>1. dev' = [dev EXCEPT !.data = data, !.drq = FALSE, !.bsy = TRUE]
      <3>1. (i + 1 < Words) = FALSE /\ (i + 1 = Words) = TRUE
        BY <1>4, <2>0, DiskNumbers
      <3> QED
        BY <1>1, <1>5, <3>1
    <2>2. dev' \in DevRecord /\ dev'.data = data
          /\ dev'.bsy /\ dev'.err = dev.err
          /\ dev'.op = dev.op /\ dev'.lba = dev.lba /\ dev'.left = dev.left
      BY <1>2, <1>5, <2>1 DEF DevRecord
    <2>3. Storing(s)'
      BY <1>5, <1>6, <1>7, <2>0, <2>2 DEF Storing, Writes, Taken
    <2>4. Writing'
      <3>1. CASE s + 1 = call.count
        <4>1. s = call.count - 1 /\ call'.at = "done"
          BY <3>1, <1>4, <1>6, <1>11
        <4> QED
          BY <4>1, <1>6, <1>8, <2>3 DEF Writing
      <3>2. CASE s + 1 # call.count
        <4>1. s + 1 \in 0 .. (call'.count - 1) /\ s + 1 > 0 /\ (s + 1) - 1 = s
          BY <3>2, <1>2, <1>4, <1>6
        <4>2. call'.at = "busy" /\ call'.k = (s + 1) * Words
          BY <3>2, <1>6, <1>11
        <4>3. Written((s + 1) - 1)' /\ Storing((s + 1) - 1)'
          BY <4>1, <1>8, <2>3
        <4> QED
          BY <4>1, <4>2, <4>3 DEF Writing
      <3> QED
        BY <3>1, <3>2
    <2>5. DiskTypes' /\ OnlyNamed'
      BY <1>1, <1>2, <1>6, <2>2 DEF DiskBody, DiskTypes, OnlyNamed
    <2>6. StoreNamed'
      BY <1>1, <1>5, <1>7, <1>9, <2>0, <2>2 DEF StoreNamed
    <2>7. call'.at \in {"done", "busy"}
      BY <1>6, <1>11
    <2> QED
      BY <1>1, <1>2, <1>6, <2>4, <2>5, <2>6, <2>7
         DEF DiskBody, Underway, SetUp, InTransfer
  <1> QED
    BY <1>10, <1>11

-----------------------------------------------------------------------------
(* The disk, at its own pace *)

\* It works for a call under way, or stores the last sector of one that has
\* returned.  The registers are left alone until it is done.
LEMMA DiskActs ==
    ASSUME DiskBody, ~overrun, dev.bsy,
           UNCHANGED <<g_root_dev, call, buf, overrun, named>>,
           dev' \in DevRecord,
           disk' \in [Sector -> Seq(Word)], \A x \in Sector : Len(disk'[x]) = Words,
           OnlyNamed', StoreNamed', InTransfer'
    PROVE  DiskBody'
  <1>1. g_root_dev.name = "ata0"
    BY DEF DiskBody, DiskTypes, Underway
  <1>2. SetUp'
    <2>1. call.at = "out" => call.k \in 1 .. 7 /\ ~(call.k > 1)
      BY DEF DiskBody, SetUp
    <2>2. call.at = "out" => call.k = 1
      BY <2>1
    <2> QED
      BY <2>2 DEF SetUp
  <1>3. Underway' /\ DiskTypes'
    BY <1>1 DEF DiskBody, Underway, DiskTypes, Transferred, Quiet
  <1> QED
    BY <1>1, <1>2, <1>3 DEF DiskBody

\* What a disk at work is at: a sector of a read, making ready for a sector of
\* a write, storing one while the driver waits, or storing the last one.
LEMMA BusyWith ==
    ASSUME DiskBody, ~overrun, dev.bsy, call.ret = Ok, call.count > 0
    PROVE  /\ g_root_dev.name = "ata0" /\ call.count \in Nat /\ call.lba \in Nat
           /\ call.at # "words"
           /\ call.at = "busy" => call.op \in {"read", "write"}
           /\ call.at = "busy" /\ call.op = "read" => \E s \in 0 .. (call.count - 1) :
                 call.k = s * Words /\ Read(call.k) /\ Seeking(s)
           /\ call.at = "busy" /\ call.op = "write" => \E s \in 0 .. (call.count - 1) :
                 /\ call.k = s * Words
                 /\ \/ Written(s) /\ Preparing(s)
                    \/ s > 0 /\ Written(s - 1) /\ Storing(s - 1)
           /\ ~(call.at = "done" /\ call.op = "read")
           /\ call.at = "done" /\ call.op = "write" =>
                 Written(call.count - 1) /\ Storing(call.count - 1)
  <1>1. g_root_dev.name = "ata0" /\ call.count \in Nat /\ call.lba \in Nat
    BY DEF DiskBody, DiskTypes, Underway, CallRecord
  <1>2. call.at \in {"busy", "words"} => call.op \in {"read", "write"}
    BY DEF DiskBody, Underway
  <1>3. (call.op = "read" => Reading) /\ (call.op = "write" => Writing)
    BY <1>1 DEF DiskBody, InTransfer
  <1>4. call.at # "words"
    BY <1>2, <1>3 DEF Reading, Writing, Giving, Taking
  <1>5. ASSUME call.at = "busy", call.op = "read"
        PROVE  \E s \in 0 .. (call.count - 1) : call.k = s * Words /\ Read(call.k) /\ Seeking(s)
    BY <1>3, <1>5 DEF Reading, Giving, Failed
  <1>6. ASSUME call.at = "busy", call.op = "write"
        PROVE  \E s \in 0 .. (call.count - 1) :
                  /\ call.k = s * Words
                  /\ \/ Written(s) /\ Preparing(s)
                     \/ s > 0 /\ Written(s - 1) /\ Storing(s - 1)
    BY <1>3, <1>6 DEF Writing, Taking, Failed
  <1>7. ~(call.at = "done" /\ call.op = "read")
    BY <1>3 DEF Reading
  <1>8. call.at = "done" /\ call.op = "write" => Written(call.count - 1) /\ Storing(call.count - 1)
    BY <1>3 DEF Writing, Failed
  <1> QED
    BY <1>1, <1>2, <1>4, <1>5, <1>6, <1>7, <1>8

LEMMA FailStep ==
    ASSUME DiskBody, ~overrun, Fail
    PROVE  DiskBody'
  <1>1. /\ dev.bsy
        /\ dev' = [dev EXCEPT !.bsy = FALSE, !.err = TRUE, !.op = "none", !.data = <<>>]
        /\ UNCHANGED <<g_root_dev, disk, call, buf, overrun, named>>
    BY DEF Fail
  <1>2. DiskTypes /\ dev \in DevRecord
    BY DEF DiskBody, DiskTypes
  <1>3. dev' \in DevRecord /\ Failed' /\ ~dev'.bsy
    <2>1. <<>> \in Seq(Word)
      OBVIOUS
    <2>2. dev' \in DevRecord
      BY <1>1, <1>2, <2>1 DEF DevRecord
    <2>3. ~dev'.bsy /\ dev'.err
      BY <1>1, <1>2 DEF DevRecord
    <2> QED
      BY <2>2, <2>3 DEF Failed
  <1>4. InTransfer'
    <2> SUFFICES ASSUME call.ret = Ok, call.count > 0
                 PROVE  (call.op = "read" => Reading') /\ (call.op = "write" => Writing')
      BY <1>1 DEF InTransfer
    <2>1. ASSUME call.op = "read" PROVE Reading'
      <3>1. call.at = "busy" => \E s \in 0 .. (call.count - 1) : call.k = s * Words /\ Read(call.k)
        BY <1>1, <2>1, BusyWith
      <3>2. call.at = "busy" => \E s \in 0 .. (call.count - 1) : call.k = s * Words /\ Read(call.k)'
        BY <1>1, <3>1 DEF Read
      <3>3. call.at # "words" /\ call.at # "done"
        BY <1>1, <2>1, BusyWith
      <3> QED
        BY <1>1, <1>3, <3>2, <3>3 DEF Reading
    <2>2. ASSUME call.op = "write" PROVE Writing'
      <3>1. call.at = "busy" => \E s \in 0 .. (call.count - 1) : call.k = s * Words
        BY <1>1, <2>2, BusyWith
      <3>2. call.at # "words"
        BY <1>1, BusyWith
      <3> QED
        BY <1>1, <1>3, <3>1, <3>2 DEF Writing
    <2> QED
      BY <2>1, <2>2
  <1> QED
    BY <1>1, <1>2, <1>3, <1>4, DiskActs DEF DiskBody, DiskTypes, OnlyNamed, StoreNamed

LEMMA FetchStep ==
    ASSUME DiskBody, ~overrun, Fetch
    PROVE  DiskBody'
  <1>1. /\ dev.bsy /\ dev.op = "read" /\ dev.lba \in Sector
        /\ dev' = [dev EXCEPT !.bsy = FALSE, !.drq = TRUE, !.data = disk[dev.lba],
                              !.lba = dev.lba + 1, !.left = dev.left - 1]
        /\ UNCHANGED <<g_root_dev, disk, call, buf, overrun, named>>
    BY DEF Fetch
  <1>2. DiskTypes /\ dev \in DevRecord /\ call \in CallRecord
    BY DEF DiskBody, DiskTypes
  <1>3. /\ dev' \in DevRecord
        /\ ~dev'.bsy /\ dev'.drq /\ dev'.err = dev.err /\ dev'.op = "read"
        /\ dev'.data = disk[dev.lba] /\ dev'.lba = dev.lba + 1 /\ dev'.left = dev.left - 1
    <2>1. disk[dev.lba] \in Seq(Word) /\ dev.lba + 1 \in Nat /\ dev.left - 1 \in Int
      BY <1>1, <1>2 DEF DiskTypes, DevRecord
    <2>2. dev' \in DevRecord
      BY <1>1, <1>2, <2>1 DEF DevRecord
    <2>3. ~dev'.bsy /\ dev'.drq /\ dev'.err = dev.err /\ dev'.op = "read"
      BY <1>1, <1>2 DEF DevRecord
    <2>4. dev'.data = disk[dev.lba] /\ dev'.lba = dev.lba + 1 /\ dev'.left = dev.left - 1
      BY <1>1, <1>2 DEF DevRecord
    <2> QED
      BY <2>2, <2>3, <2>4
  <1>4. InTransfer'
    <2> SUFFICES ASSUME call.ret = Ok, call.count > 0
                 PROVE  (call.op = "read" => Reading') /\ (call.op = "write" => Writing')
      BY <1>1 DEF InTransfer
    <2>1. ASSUME call.op = "read" PROVE Reading'
      <3>1. ASSUME call.at = "busy"
            PROVE  \E s \in 0 .. (call.count - 1) : call.k = s * Words /\ Read(call.k)' /\ Giving(s, 0)'
        <4>1. PICK s \in 0 .. (call.count - 1) : call.k = s * Words /\ Read(call.k) /\ Seeking(s)
          BY <1>1, <2>1, <3>1, BusyWith
        <4>2. /\ dev.lba = call.lba + s /\ dev.left = call.count - s /\ ~dev.err
              /\ call.lba + s + 1 = dev.lba + 1 /\ call.count - s - 1 = dev.left - 1
          BY <4>1 DEF Seeking
        <4>3. Len(disk[dev.lba]) = Words /\ Words - 0 = Words
              /\ \A m \in 1 .. Words : 0 + m = m
          BY <1>1, <1>2, DiskNumbers DEF DiskTypes
        <4>4. Giving(s, 0)'
          BY <1>1, <1>3, <4>2, <4>3 DEF Giving
        <4>5. Read(call.k)'
          BY <1>1, <4>1 DEF Read
        <4> QED
          BY <4>1, <4>4, <4>5
      <3>2. call.at # "words" /\ call.at # "done"
        BY <1>1, <2>1, BusyWith
      <3> QED
        BY <1>1, <3>1, <3>2 DEF Reading
    <2>2. ASSUME call.op = "write" PROVE Writing'
      <3>1. call.at \notin {"busy", "words", "done"}
        BY <1>1, <2>2, BusyWith DEF Preparing, Storing, Writes
      <3> QED
        BY <1>1, <3>1 DEF Writing
    <2> QED
      BY <2>1, <2>2
  <1> QED
    BY <1>1, <1>2, <1>3, <1>4, DiskActs DEF DiskBody, DiskTypes, OnlyNamed, StoreNamed

LEMMA AcceptStep ==
    ASSUME DiskBody, ~overrun, Accept
    PROVE  DiskBody'
  <1>1. /\ dev.bsy /\ dev.op = "write" /\ dev.data = <<>> /\ dev.lba \in Sector
        /\ dev' = [dev EXCEPT !.bsy = FALSE, !.drq = TRUE]
        /\ UNCHANGED <<g_root_dev, disk, call, buf, overrun, named>>
    BY DEF Accept
  <1>2. DiskTypes /\ dev \in DevRecord /\ call \in CallRecord
    BY DEF DiskBody, DiskTypes
  <1>3. /\ dev' \in DevRecord
        /\ ~dev'.bsy /\ dev'.drq /\ dev'.err = dev.err /\ dev'.op = "write"
        /\ dev'.data = <<>> /\ dev'.lba = dev.lba /\ dev'.left = dev.left
    BY <1>1, <1>2 DEF DevRecord
  <1>4. InTransfer'
    <2> SUFFICES ASSUME call.ret = Ok, call.count > 0
                 PROVE  (call.op = "read" => Reading') /\ (call.op = "write" => Writing')
      BY <1>1 DEF InTransfer
    <2>0. \A s : ~Storing(s)
      <3>1. Len(dev.data) = 0 /\ Words # 0
        BY <1>1, DiskNumbers
      <3> QED
        BY <3>1 DEF Storing, Taken
    <2>1. ASSUME call.op = "read" PROVE Reading'
      <3>1. call.at \notin {"busy", "words", "done"}
        BY <1>1, <2>1, BusyWith DEF Seeking
      <3> QED
        BY <1>1, <3>1 DEF Reading
    <2>2. ASSUME call.op = "write" PROVE Writing'
      <3>1. ASSUME call.at = "busy"
            PROVE  \E s \in 0 .. (call.count - 1) : call.k = s * Words /\ Written(s)' /\ Taking(s, 0)'
        <4>1. PICK s \in 0 .. (call.count - 1) : call.k = s * Words /\ Written(s) /\ Preparing(s)
          BY <1>1, <2>0, <2>2, <3>1, BusyWith
        <4>2. Written(s)'
          BY <1>1, <4>1 DEF Written
        <4>3. Taking(s, 0)'
          <5>1. Taken(s, 0)'
            BY <1>3 DEF Taken
          <5>2. Writes(s)'
            BY <1>1, <1>3, <4>1 DEF Preparing, Writes
          <5> QED
            BY <1>1, <1>3, <5>1, <5>2 DEF Taking
        <4> QED
          BY <4>1, <4>2, <4>3
      <3>2. call.at # "words" /\ call.at # "done"
        BY <1>1, <2>0, <2>2, BusyWith
      <3> QED
        BY <1>1, <3>1, <3>2 DEF Writing
    <2> QED
      BY <2>1, <2>2
  <1> QED
    BY <1>1, <1>2, <1>3, <1>4, DiskActs DEF DiskBody, DiskTypes, OnlyNamed, StoreNamed

\* A sector that is stored stands where it belongs.
LEMMA CommitWritten ==
    ASSUME DiskBody, ~overrun, Commit, NEW s \in Nat, Written(s), Storing(s), call.lba \in Nat
    PROVE  Written(s + 1)'
  <1>1. /\ disk' = [disk EXCEPT ![dev.lba] = dev.data] /\ UNCHANGED call
        /\ dev.data \in Seq(Word) /\ disk \in [Sector -> Seq(Word)]
        /\ dev.lba = call.lba + s /\ dev.lba \in Sector
        /\ Len(dev.data) = Words /\ \A m \in 1 .. Words : dev.data[m] = New(s)[m]
    BY DEF Commit, DiskBody, DiskTypes, DevRecord, Storing, Writes, Taken
  <1>2. dev.data = New(s)
    BY <1>1, SectorWords, SeqEqual
  <1> SUFFICES ASSUME NEW t \in 0 .. ((s + 1) - 1)
               PROVE  (call.lba + t \in Sector)' /\ (disk[call.lba + t] = New(t))'
    BY DEF Written
  <1>3. CASE t = s
    BY <1>1, <1>2, <1>3
  <1>4. CASE t # s
    <2>1. t \in 0 .. (s - 1) /\ call.lba + t # call.lba + s
      BY <1>4
    <2> QED
      BY <1>1, <2>1 DEF Written
  <1> QED
    BY <1>3, <1>4

LEMMA CommitStep ==
    ASSUME DiskBody, ~overrun, Commit
    PROVE  DiskBody'
  <1> DEFINE more == dev.left > 1 /\ dev.lba + 1 \notin Sector
             next == dev.left > 1 /\ dev.lba + 1 \in Sector
  <1>1. /\ dev.bsy /\ dev.op = "write" /\ dev.data # <<>>
        /\ disk' = [disk EXCEPT ![dev.lba] = dev.data]
        /\ dev' = [dev EXCEPT !.bsy = more, !.drq = next,
                              !.lba = dev.lba + 1, !.left = dev.left - 1, !.data = <<>>]
        /\ UNCHANGED <<g_root_dev, call, buf, overrun, named>>
    BY DEF Commit
  <1>2. DiskTypes /\ dev \in DevRecord /\ call \in CallRecord
    BY DEF DiskBody, DiskTypes
  <1>3. dev.lba \in named \cap Sector /\ Len(dev.data) = Words /\ dev.data \in Seq(Word)
    BY <1>1, <1>2 DEF DiskBody, StoreNamed, DevRecord
  <1>4. more \in BOOLEAN /\ next \in BOOLEAN
    OBVIOUS
  <1> HIDE DEF more, next
  <1>5. /\ dev' \in DevRecord
        /\ dev'.bsy = more /\ dev'.drq = next /\ dev'.err = dev.err /\ dev'.op = "write"
        /\ dev'.data = <<>> /\ dev'.lba = dev.lba + 1 /\ dev'.left = dev.left - 1
    <2>1. <<>> \in Seq(Word) /\ dev.lba + 1 \in Nat /\ dev.left - 1 \in Int
      BY <1>2 DEF DevRecord
    <2>2. dev' \in DevRecord
      BY <1>1, <1>2, <1>4, <2>1 DEF DevRecord
    <2>3. dev'.bsy = more /\ dev'.drq = next /\ dev'.err = dev.err /\ dev'.op = "write"
      BY <1>1, <1>2 DEF DevRecord
    <2>4. dev'.data = <<>> /\ dev'.lba = dev.lba + 1 /\ dev'.left = dev.left - 1
      BY <1>1, <1>2 DEF DevRecord
    <2> QED
      BY <2>2, <2>3, <2>4
  <1>6. InTransfer'
    <2> SUFFICES ASSUME call.ret = Ok, call.count > 0
                 PROVE  (call.op = "read" => Reading') /\ (call.op = "write" => Writing')
      BY <1>1 DEF InTransfer
    <2>0. call.count \in Nat /\ call.lba \in Nat
      BY <1>1, BusyWith
    <2>1. ASSUME call.op = "read" PROVE Reading'
      <3>1. call.at \notin {"busy", "words", "done"}
        BY <1>1, <2>1, BusyWith DEF Seeking
      <3> QED
        BY <1>1, <3>1 DEF Reading
    <2>2. ASSUME call.op = "write" PROVE Writing'
      <3>1. ASSUME call.at = "busy"
            PROVE  \E s \in 0 .. (call.count - 1) :
                      call.k = s * Words /\ Written(s)' /\ (Preparing(s)' \/ Taking(s, 0)')
        <4>0. \A s : ~Preparing(s)
          BY <1>1 DEF Preparing
        <4>1. PICK s \in 0 .. (call.count - 1) :
                 call.k = s * Words /\ s > 0 /\ Written(s - 1) /\ Storing(s - 1)
          BY <1>1, <2>2, <3>1, <4>0, BusyWith
        <4>2. s - 1 \in Nat /\ (s - 1) + 1 = s
          BY <4>1
        <4> PICK t \in Nat : t = s - 1
          BY <4>2
        <4>3. Written(t + 1)'
          BY <4>1, <2>0, CommitWritten
        <4>4. /\ dev.lba + 1 = call.lba + s /\ dev.left - 1 = call.count - s
              /\ dev.left > 1 /\ ~dev.err
          BY <4>1, <2>0 DEF Storing, Writes
        <4>5. Writes(s)'
          BY <1>1, <1>5, <4>4 DEF Writes
        <4>6. CASE dev.lba + 1 \in Sector
          <5>1. ~more /\ next
            BY <4>4, <4>6 DEF more, next
          <5>2. Taken(s, 0)'
            BY <1>5 DEF Taken
          <5>3. Taking(s, 0)'
            BY <1>5, <4>5, <4>6, <5>1, <5>2 DEF Taking
          <5> QED
            BY <4>1, <4>2, <4>3, <5>3
        <4>7. CASE dev.lba + 1 \notin Sector
          <5>1. more
            BY <4>4, <4>7 DEF more
          <5>2. Preparing(s)'
            BY <1>5, <4>5, <5>1 DEF Preparing
          <5> QED
            BY <4>1, <4>2, <4>3, <5>2
        <4> QED
          BY <4>6, <4>7
      <3>2. ASSUME call.at = "done" PROVE Written(call.count)' /\ ~dev'.bsy
        <4>1. Written(call.count - 1) /\ Storing(call.count - 1)
          BY <1>1, <2>2, <3>2, BusyWith
        <4>2. call.count - 1 \in Nat
          BY <2>0
        <4> PICK t \in Nat : t = call.count - 1
          BY <4>2
        <4>3. Written(t + 1)' /\ t + 1 = call.count
          BY <4>1, <2>0, CommitWritten
        <4>4. dev.left = 1
          BY <4>1, <2>0 DEF Storing, Writes
        <4>5. ~more
          BY <4>4 DEF more
        <4>6. Written(call.count)'
          BY <4>3, <1>1
        <4> QED
          BY <1>5, <4>5, <4>6
      <3>3. call.at # "words"
        BY <1>1, BusyWith
      <3> QED
        BY <1>1, <3>1, <3>2, <3>3 DEF Writing
    <2> QED
      BY <2>1, <2>2
  <1>7. OnlyNamed'
    BY <1>1, <1>2, <1>3 DEF DiskBody, OnlyNamed, DiskTypes
  <1>8. StoreNamed'
    BY <1>5 DEF StoreNamed
  <1>9. disk' \in [Sector -> Seq(Word)] /\ \A x \in Sector : Len(disk'[x]) = Words
    BY <1>1, <1>2, <1>3 DEF DiskTypes
  <1> QED
    BY <1>1, <1>5, <1>6, <1>7, <1>8, <1>9, DiskActs

-----------------------------------------------------------------------------
(* The disk: the theorems *)

LEMMA DiskStep == DiskInv /\ [DiskNext]_diskVars => DiskInv'
  <1> SUFFICES ASSUME DiskInv, [DiskNext]_diskVars, ~overrun' PROVE DiskBody'
    BY DEF DiskInv
  <1>1. CASE DiskNext
    <2>1. ~overrun /\ DiskBody
      BY <1>1 DEF DiskNext, DiskInv
    <2>2. CASE Attach
      BY <2>1, <2>2, RootStep
    <2>3. ASSUME NEW op \in {"read", "write"}, NEW lba, NEW count, Call(op, lba, count),
                 \/ \E n \in Typed : lba = n % UINT32 /\ count = 1
                 \/ \E r \in Requests : lba = r[1] /\ count = r[2]
          PROVE  DiskBody'
      <3>1. lba \in Nat /\ count \in Nat /\ (lba + count) * Words < UINT64
        BY <2>3, Asked
      <3>2. g_root_dev.name = "ata0" \/ g_root_dev.name = "ram0"
        BY <2>3 DEF Call
      <3> QED
        BY <2>1, <2>3, <3>1, <3>2, AtaStep, RamStep
    <2>4. CASE cmd_diskread \/ cmd_diskwrite
      <3>1. PICK n \in Typed, op \in {"read", "write"} : Call(op, n % UINT32, 1)
        BY <2>4 DEF cmd_diskread, cmd_diskwrite
      <3> QED
        BY <2>3, <3>1
    <2>5. CASE Other
      <3>1. PICK r \in Requests, op \in {"read", "write"} : Call(op, r[1], r[2])
        BY <2>5 DEF Other
      <3> QED
        BY <2>3, <3>1
    <2>6. CASE Driver
      BY <2>1, <2>6, OutStep, CommandStep, WaitStep, InStep, OutwStep DEF Driver
    <2>7. CASE Works \/ Fail
      BY <2>1, <2>7, FetchStep, AcceptStep, CommitStep, FailStep DEF Works
    <2> QED
      BY <1>1, <2>2, <2>4, <2>5, <2>6, <2>7 DEF DiskNext
  <1>2. CASE UNCHANGED diskVars
    <2>1. DiskBody
      BY <1>2 DEF DiskInv, diskVars
    <2>2. /\ UNCHANGED <<g_root_dev, disk, dev, call, buf, overrun, named>>
      BY <1>2 DEF diskVars
    <2>3. DiskTypes' /\ OnlyNamed' /\ StoreNamed' /\ Underway' /\ SetUp'
      BY <2>1, <2>2 DEF DiskBody, DiskTypes, OnlyNamed, StoreNamed, Underway, Quiet, Transferred,
                        SetUp, Setup
    <2>4. InTransfer'
      <3>1. /\ \A s, i : Giving(s, i)' <=> Giving(s, i)
            /\ \A s : Seeking(s)' <=> Seeking(s)
            /\ \A n : Read(n)' <=> Read(n)
        BY <2>2 DEF Giving, Seeking, Read
      <3>2. /\ \A s, i : Taking(s, i)' <=> Taking(s, i)
            /\ \A s : (Preparing(s)' <=> Preparing(s)) /\ (Storing(s)' <=> Storing(s))
            /\ \A n : Written(n)' <=> Written(n)
            /\ Failed' <=> Failed
        BY <2>2 DEF Taking, Preparing, Storing, Writes, Taken, Written, Failed
      <3>3. (Reading' <=> Reading) /\ (Writing' <=> Writing)
        BY <2>2, <3>1, <3>2 DEF Reading, Writing
      <3> QED
        BY <2>1, <2>2, <3>3 DEF DiskBody, InTransfer
    <2>5. (ReadTrue' <=> ReadTrue) /\ (WriteDone' <=> WriteDone)
      BY <2>2 DEF ReadTrue, WriteDone, Transferred, Wanted
    <2> QED
      BY <2>1, <2>2, <2>3, <2>4, <2>5 DEF DiskBody
  <1> QED
    BY <1>1, <1>2

LEMMA DiskInductive == DiskSpec => []DiskInv
  <1>1. DiskInit => DiskInv
    BY DiskStarts DEF DiskInv
  <1> QED
    BY <1>1, DiskStep, PTL DEF DiskSpec

\* No sector changes but those that a call asked to be written, for every size
\* of the disk and of its sectors and every request.
THEOREM NamedOnly == DiskSpec => []OnlyNamed
  <1>1. DiskInv => OnlyNamed
    BY DEF DiskInv, DiskBody, OnlyNamed
  <1> QED
    BY <1>1, DiskInductive, PTL

\* What Wanted is for a transfer of the ATA driver.
LEMMA WantedIs ==
    ASSUME DiskBody, Transferred, g_root_dev.name = "ata0"
    PROVE  Wanted = call.count /\ call.count \in Nat
  <1>1. call \in CallRecord /\ call.count = Cut(call.asked)
    BY DEF DiskBody, DiskTypes, Underway
  <1> QED
    BY <1>1, DiskNumbers DEF Cut, Wanted, CallRecord

\* A read that returns without an error has what is there, each sector in its
\* place, for every number of sectors and words.
THEOREM ReadIsTrue == DiskSpec => []ReadTrue
  <1>1. DiskInv => ReadTrue
    <2> SUFFICES ASSUME DiskBody, Transferred, call.op = "read",
                        NEW s \in 0 .. Wanted - 1, NEW i \in Index
                 PROVE  /\ call.lba + s \in Sector
                        /\ buf[s * Words + i] = disk[call.lba + s][i + 1]
      BY DEF DiskInv, ReadTrue, Transferred
    <2>1. g_root_dev.name \in {"ata0", "ram0"} /\ call.at = "done" /\ call.ret = Ok
      BY DEF DiskBody, DiskTypes, Underway, Transferred
    <2>2. CASE g_root_dev.name = "ram0"
      BY <2>2 DEF DiskBody, ReadTrue
    <2>3. CASE g_root_dev.name = "ata0"
      <3>1. call.count \in Nat /\ s \in 0 .. (call.count - 1)
        BY <2>3, WantedIs
      <3>2. call.count > 0 /\ s \in Nat /\ s < call.count
        BY <3>1
      <3>3. Read(call.count * Words)
        BY <2>1, <2>3, <3>2 DEF DiskBody, InTransfer, Reading
      <3>4. s * Words + i < call.count * Words
        BY <3>1, <3>2, PlaceBefore
      <3> QED
        BY <3>1, <3>3, <3>4 DEF Read
    <2> QED
      BY <2>1, <2>2, <2>3
  <1> QED
    BY <1>1, DiskInductive, PTL

\* Once the disk is idle and has not failed, all that a write was asked for is
\* on it, for every number of sectors and words.
THEOREM WriteIsDone == DiskSpec => []WriteDone
  <1>1. DiskInv => WriteDone
    <2> SUFFICES ASSUME DiskBody, Transferred, call.op = "write", ~dev.bsy, ~dev.err,
                        NEW s \in 0 .. Wanted - 1
                 PROVE  call.lba + s \in Sector /\ disk[call.lba + s] = New(s)
      BY DEF DiskInv, WriteDone, Transferred
    <2>1. g_root_dev.name \in {"ata0", "ram0"} /\ call.at = "done" /\ call.ret = Ok
      BY DEF DiskBody, DiskTypes, Underway, Transferred
    <2>2. CASE g_root_dev.name = "ram0"
      BY <2>2 DEF DiskBody, WriteDone
    <2>3. CASE g_root_dev.name = "ata0"
      <3>1. call.count \in Nat /\ s \in 0 .. (call.count - 1) /\ call.count > 0
        BY <2>3, WantedIs
      <3>2. Written(call.count)
        BY <2>1, <2>3, <3>1 DEF DiskBody, InTransfer, Writing, Storing, Failed
      <3> QED
        BY <3>1, <3>2 DEF Written
    <2> QED
      BY <2>1, <2>2, <2>3
  <1> QED
    BY <1>1, DiskInductive, PTL
=============================================================================
