------------------------------ MODULE Keyboard ------------------------------
(***************************************************************************)
(* The keyboard driver (drivers/keyboard.c): from scancodes, one interrupt *)
(* each, to the characters that shell_keypress gets.  Scancodes wait in    *)
(* the keyboard while a command runs with interrupts off, so that the      *)
(* driver may look at a key long after it was struck.  What the keyboard   *)
(* has no room for is lost, the release of a modifier perhaps; the code    *)
(* it sends instead of it (0xFF) looks to the driver like the release of a *)
(* key that there is not, and is left out.                                 *)
(*                                                                         *)
(* A scancode is the key and whether it was released; with it goes what    *)
(* the user meant, the character for a key struck while these modifiers    *)
(* were held, as far as the keyboard passed them on.  A character is its   *)
(* key and whether it is the shifted one.                                  *)
(***************************************************************************)
EXTENDS Sequences, Naturals

CONSTANTS
    Letter, Sign,       \* Keys of letters, and of other characters.
    Blank,              \* Keys that keymap gives no character for.
    ShiftKey,           \* SC_LSHIFT, SC_RSHIFT
    SC_CTRL, SC_ALT, SC_CAPS,
    QueueLen,           \* How many scancodes the keyboard holds back.
    NoChar

CharKey == Letter \cup Sign
Held == ShiftKey \cup {SC_CTRL, SC_ALT}
Modifier == Held \cup {SC_CAPS}
Key == CharKey \cup Blank \cup Modifier

Char == [key : CharKey, shifted : BOOLEAN]
Scancode == [key : Key, released : BOOLEAN, meant : Char \cup {NoChar}]

\* A modifier has one function, and no character.
ASSUME KeyAssumption ==
    /\ SC_CTRL \notin ShiftKey \cup {SC_ALT, SC_CAPS}
    /\ SC_ALT \notin ShiftKey \cup {SC_CAPS}
    /\ SC_CAPS \notin ShiftKey
    /\ Modifier \cap (CharKey \cup Blank) = {}
    /\ QueueLen \in Nat
    /\ NoChar \notin Char

VARIABLES
    held,               \* The modifiers that are down but for caps lock: of
                        \* the other keys it does not matter.
    capsOn,             \* Caps lock, as the user struck it.
    queue,              \* Scancodes on their way.
    lost,               \* The modifiers whose last scancode was lost; for caps
                        \* lock, which a key-down turns round: any one.
    shift_pressed, ctrl_pressed, alt_pressed, caps_lock,
    typed               \* The character just passed to shell_keypress.

modifiers == <<shift_pressed, ctrl_pressed, alt_pressed, caps_lock>>
vars == <<held, capsOn, queue, lost, modifiers, typed>>

TypeOK ==
    /\ held \subseteq Held
    /\ queue \in Seq(Scancode) /\ Len(queue) <= QueueLen
    /\ lost \subseteq Modifier
    /\ {capsOn, shift_pressed, ctrl_pressed, alt_pressed, caps_lock} \subseteq BOOLEAN
    /\ typed \in Char \cup {NoChar}

Init ==
    /\ held = {}
    /\ capsOn = FALSE
    /\ queue = <<>> /\ lost = {}
    /\ shift_pressed = FALSE /\ ctrl_pressed = FALSE /\ alt_pressed = FALSE
    /\ caps_lock = FALSE
    /\ typed = NoChar

-----------------------------------------------------------------------------
(* The user and the keyboard *)

ShiftHeld == held \cap ShiftKey # {}

\* What striking k means now; caps lock turns shift around for letters only.
\* Behind the loss of a modifier it is anybody's guess.
Meaning(k) ==
    IF k \notin CharKey \/ lost \cap (ShiftKey \cup {SC_CAPS}) # {} THEN NoChar
    ELSE [key |-> k,
          shifted |-> IF k \in Letter /\ capsOn THEN ~ShiftHeld ELSE ShiftHeld]

Send(k, up) ==
    /\ IF Len(queue) < QueueLen
       THEN /\ queue' = Append(queue, [key |-> k, released |-> up,
                                       meant |-> IF up THEN NoChar ELSE Meaning(k)])
            /\ lost' = lost \ ({k} \ {SC_CAPS})
       ELSE /\ lost' = lost \cup ({k} \cap Modifier)
            /\ UNCHANGED queue
    /\ UNCHANGED <<modifiers, typed>>

\* A key that stays down repeats: Strike may come again before Release.
Strike(k) ==
    /\ Send(k, FALSE)
    /\ held' = held \cup ({k} \cap Held)
    /\ capsOn' = IF k = SC_CAPS THEN ~capsOn ELSE capsOn

Release(k) ==
    /\ k \in Held => k \in held
    /\ Send(k, TRUE)
    /\ held' = held \ {k}
    /\ UNCHANGED capsOn

-----------------------------------------------------------------------------
(* keyboard_callback *)

\* Mutant of Shifted: caps lock works on every key.
ShiftedAlways(k) == IF caps_lock THEN ~shift_pressed ELSE shift_pressed

\* use_shift, as it chooses between keymap and keymap_shift.
Shifted(k) ==
    IF k \in Letter /\ caps_lock THEN ~shift_pressed ELSE shift_pressed

\* Mutant of Modify: only the release of one kind of key is seen.
ModifyStuck(k, down) ==
    /\ shift_pressed' = IF k \in ShiftKey THEN down ELSE shift_pressed
    /\ ctrl_pressed' = IF k = SC_CTRL THEN TRUE ELSE ctrl_pressed
    /\ alt_pressed' = IF k = SC_ALT THEN TRUE ELSE alt_pressed
    /\ caps_lock' = IF k = SC_CAPS /\ down THEN ~caps_lock ELSE caps_lock

\* The modifiers after a key went down or up.  One flag stands for both shift
\* keys.
Modify(k, down) ==
    /\ shift_pressed' = IF k \in ShiftKey THEN down ELSE shift_pressed
    /\ ctrl_pressed' = IF k = SC_CTRL THEN down ELSE ctrl_pressed
    /\ alt_pressed' = IF k = SC_ALT THEN down ELSE alt_pressed
    /\ caps_lock' = IF k = SC_CAPS /\ down THEN ~caps_lock ELSE caps_lock

keyboard_callback ==
    LET code == Head(queue)
    IN  /\ queue # <<>>
        /\ queue' = Tail(queue)
        /\ Modify(code.key, ~code.released)
        /\ typed' = IF code.key \in CharKey /\ ~code.released
                    THEN [key |-> code.key, shifted |-> Shifted(code.key)]
                    ELSE NoChar
        /\ UNCHANGED <<held, capsOn, lost>>

-----------------------------------------------------------------------------
Next ==
    \/ \E k \in Key : Strike(k) \/ Release(k)
    \/ keyboard_callback

Spec == Init /\ [][Next]_vars

-----------------------------------------------------------------------------
(* Properties *)

\* When the driver has seen all scancodes, each modifier whose last scancode
\* arrived is on only if its key is down, and caps lock is as the user left it:
\* one lost key-up does not outlive the next stroke of the same key.
NoStuckModifier ==
    queue = <<>> =>
        /\ (held \cup lost) \cap ShiftKey = {} => ~shift_pressed
        /\ SC_CTRL \notin held \cup lost => ~ctrl_pressed
        /\ SC_ALT \notin held \cup lost => ~alt_pressed
        /\ SC_CAPS \notin lost => caps_lock = capsOn

\* The shell gets the character that was meant when the key was struck,
\* though shift may have come up or gone down before the driver ran; and it
\* gets none for other keys and for releases.
MeantIsTyped ==
    [][LET code == Head(queue)
       IN  Len(queue') < Len(queue) =>
             /\ code.meant # NoChar => typed' = code.meant
             /\ code.released \/ code.key \notin CharKey => typed' = NoChar]_vars

=============================================================================
