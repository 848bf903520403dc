------------------------------ MODULE Console ------------------------------
(***************************************************************************)
(* The text console (console.h).  It is a header: every source file that   *)
(* includes it has a cursor of its own, and only the hardware cursor and   *)
(* the screen are shared.  The last row is kept for the status bar.        *)
(*                                                                         *)
(* kernel_main writes with interrupts on; its console_putc is modelled in  *)
(* steps, between which the handlers of interrupts write (echoed keys, the *)
(* output of commands) or draw the bar.  No handler runs code of           *)
(* kernel_main.c, so that its cursor is touched by these steps alone; a    *)
(* call made in a handler is one step.  The hardware cursor is set by four *)
(* port writes, two bytes each behind its index, and a handler may come    *)
(* between any of them.  Of a character the screen keeps only that it is   *)
(* there.                                                                  *)
(***************************************************************************)
EXTENDS Naturals

CONSTANTS
    VGA_WIDTH, VGA_HEIGHT,
    Byte,           \* Values of a byte of the cursor's position.
    IrqTU,          \* The source files that write from handlers.
    BarTU,          \* Those that draw the bar: shell.c, editor.c.
    kernel_main

ASSUME ConsoleAssumption ==
    /\ VGA_WIDTH \in Nat \ {0, 1} /\ VGA_HEIGHT \in Nat \ {0, 1, 2}
    /\ Byte \in Nat \ {0} /\ VGA_WIDTH * VGA_HEIGHT <= Byte * Byte
    /\ BarTU \subseteq IrqTU /\ kernel_main \notin IrqTU

TU == IrqTU \cup {kernel_main}

VARIABLES
    cursor,         \* console_row and console_col of each file.
    hw,             \* The hardware cursor: its bytes and the index register.
    screen,
    writing,        \* How far kernel_main is in console_putc.
    ports,          \* The port writes it has still to do before it goes on.
    mixed           \* History: a handler came between two of them.

conVars == <<cursor, hw, screen, writing, ports, mixed>>

Row == 0 .. (VGA_HEIGHT - 1)
Col == 0 .. (VGA_WIDTH - 1)
BarRow == VGA_HEIGHT - 1
LastContentRow == VGA_HEIGHT - 2

At(r, c) == [row |-> r, col |-> c]

Empty == "empty"
Text  == "text"
Bar   == "bar"
Blanked == [r \in Row |-> [c \in Col |-> Empty]]

Steps == {"idle", "char", "placed", "put", "newline", "cleared", "moved"}

\* A file's column may be one beyond the last.
ConsoleTypeOK ==
    /\ cursor \in [TU -> [row : Row, col : 0 .. VGA_WIDTH]]
    /\ hw \in [low : 0 .. Byte - 1, high : 0 .. Byte - 1, index : {"low", "high"}]
    /\ screen \in [Row -> [Col -> {Empty, Text, Bar}]]
    /\ writing \in Steps /\ ports \in 0 .. 4
    /\ mixed \in BOOLEAN

\* kernel_main has cleared the screen.
ConsoleInit ==
    /\ cursor = [t \in TU |-> At(0, 0)]
    /\ hw = [low |-> 0, high |-> 0, index |-> "high"]
    /\ screen = Blanked
    /\ writing = "idle" /\ ports = 0
    /\ mixed = FALSE

-----------------------------------------------------------------------------
(* The pieces of console_putc *)

\* Cut off at the edges of the screen.
Clamped(cur) ==
    At(IF cur.row >= VGA_HEIGHT THEN BarRow ELSE cur.row,
       IF cur.col >= VGA_WIDTH THEN VGA_WIDTH - 1 ELSE cur.col)

\* What vga_set_hw_cursor writes for a cursor, and what vga_get_hw_cursor
\* makes of the bytes it reads.
Position(cur) == Clamped(cur).row * VGA_WIDTH + Clamped(cur).col
vga_set_hw_cursor(cur) ==
    [low |-> Position(cur) % Byte, high |-> Position(cur) \div Byte, index |-> "high"]
vga_get_hw_cursor ==
    LET pos == hw.high * Byte + hw.low
    IN  Clamped(At(pos \div VGA_WIDTH, pos % VGA_WIDTH))

\* console_scroll: from the status row the cursor goes back to the content,
\* whose rows move up.
Scrolls(cur) == cur.row >= BarRow

\* A mutant of Scrolled: all rows move.
ScrolledAll(scr, cur) ==
    IF Scrolls(cur)
    THEN [r \in Row |-> IF r < BarRow THEN scr[r + 1] ELSE Blanked[r]]
    ELSE scr

Scrolled(scr, cur) ==
    IF Scrolls(cur)
    THEN [r \in Row |-> IF r < LastContentRow THEN scr[r + 1]
                        ELSE IF r = LastContentRow THEN Blanked[r] ELSE scr[r]]
    ELSE scr

\* A mutant of AfterScroll: one row late.
AfterScrollLate(cur) ==
    IF cur.row > BarRow THEN At(BarRow, 0) ELSE cur

AfterScroll(cur) ==
    IF Scrolls(cur)
    THEN At(LastContentRow, IF cur.col >= VGA_WIDTH THEN 0 ELSE cur.col)
    ELSE cur

\* A full line goes on in the next.
Wrapped(cur) == IF cur.col >= VGA_WIDTH THEN At(cur.row + 1, 0) ELSE cur

\* console_put_at: nothing outside the screen.
Put(scr, cur, what) ==
    IF cur.row \in Row /\ cur.col \in Col
    THEN [scr EXCEPT ![cur.row][cur.col] = what]
    ELSE scr

Advanced(cur) == At(cur.row, cur.col + 1)

\* console_clear_to_eol
ClearedToEol(scr, cur) ==
    [scr EXCEPT ![cur.row] = [c \in Col |-> IF c >= cur.col THEN Empty ELSE @[c]]]

Fed(cur) == At(cur.row + 1, 0)

-----------------------------------------------------------------------------
(* Interrupts: each step is a whole handler, or a part of one *)

\* tu's cursor, the hardware cursor and the screen after a whole operation.
Becomes(tu, cur, scr) ==
    /\ cursor' = [cursor EXCEPT ![tu] = cur]
    /\ hw' = vga_set_hw_cursor(cur)
    /\ screen' = scr
    /\ mixed' = (mixed \/ ports \in 1 .. 3)
    /\ UNCHANGED <<writing, ports>>

\* console_putc of a printable character; before it is put, the row is tested
\* once more.
PutChar(tu) ==
    LET cur == Wrapped(cursor[tu])
        at  == AfterScroll(cur)
    IN  Becomes(tu, Advanced(at), Put(Scrolled(screen, cur), at, Text))

\* console_putc('\n')
PutNewline(tu) ==
    LET cur == Fed(cursor[tu])
    IN  Becomes(tu, AfterScroll(cur), Scrolled(ClearedToEol(screen, cursor[tu]), cur))

\* console_putc('\b'): not beyond the start of the line.
PutBackspace(tu) ==
    LET cur == At(cursor[tu].row, cursor[tu].col - 1)
    IN  IF cursor[tu].col > 0 THEN Becomes(tu, cur, Put(screen, cur, Empty))
        ELSE Becomes(tu, cursor[tu], screen)

console_clear(tu) == Becomes(tu, At(0, 0), Blanked)

\* shell_draw_status_bar, editor_draw_status: the file's cursor becomes the
\* hardware's.  The last cell of the row is left out.
draw_status(tu) ==
    Becomes(tu, vga_get_hw_cursor,
            [screen EXCEPT ![BarRow] =
                [c \in Col |-> IF c < VGA_WIDTH - 1 THEN Bar ELSE @[c]]])

Handler ==
    \/ \E tu \in IrqTU : PutChar(tu) \/ PutNewline(tu) \/ PutBackspace(tu) \/ console_clear(tu)
    \/ \E tu \in BarTU : draw_status(tu)

-----------------------------------------------------------------------------
(* The console_putc of kernel_main *)

Mine == cursor[kernel_main]
Move(cur) == cursor' = [cursor EXCEPT ![kernel_main] = cur]

\* One step of kernel_main, once its port writes are done; calls is 4 if it
\* then calls vga_set_hw_cursor.
Step(this, that, calls) ==
    /\ ports = 0 /\ ports' = calls
    /\ writing = this /\ writing' = that
    /\ UNCHANGED <<hw, mixed>>

\* console_scroll sets the hardware cursor only if it scrolls.
MoveAndScroll(this, that, cur) ==
    /\ Step(this, that, IF Scrolls(cur) THEN 4 ELSE 0)
    /\ Move(AfterScroll(cur))
    /\ screen' = Scrolled(screen, cur)

Begin == \E ch \in {"char", "newline"} : Step("idle", ch, 0) /\ UNCHANGED <<cursor, screen>>

PlaceStep == MoveAndScroll("char", "placed", Wrapped(Mine))

PutStep ==
    /\ Step("placed", "put", 0)
    /\ screen' = Put(screen, Mine, Text)
    /\ UNCHANGED cursor

AdvanceStep == Step("put", "idle", 4) /\ Move(Advanced(Mine)) /\ UNCHANGED screen

ClearStep ==
    /\ Step("newline", "cleared", 4)
    /\ screen' = ClearedToEol(screen, Mine)
    /\ UNCHANGED cursor

FeedStep == MoveAndScroll("cleared", "moved", Fed(Mine))

CursorStep == Step("moved", "idle", 4) /\ UNCHANGED <<cursor, screen>>

\* The bytes are those of kernel_main's cursor, which no handler moves; where
\* they go is up to the index register.
PortStep ==
    LET bytes == vga_set_hw_cursor(Mine)
    IN  /\ ports > 0 /\ ports' = ports - 1
        /\ hw' = CASE ports = 4 -> [hw EXCEPT !.index = "low"]
                   [] ports = 3 -> [hw EXCEPT ![hw.index] = bytes.low]
                   [] ports = 2 -> [hw EXCEPT !.index = "high"]
                   [] ports = 1 -> [hw EXCEPT ![hw.index] = bytes.high]
        /\ UNCHANGED <<cursor, screen, writing, mixed>>

Boot ==
    \/ Begin \/ PlaceStep \/ PutStep \/ AdvanceStep \/ ClearStep \/ FeedStep \/ CursorStep
    \/ PortStep

ConsoleNext == Handler \/ Boot

ConsoleSpec == ConsoleInit /\ [][ConsoleNext]_conVars

-----------------------------------------------------------------------------
(* Properties *)

\* No file's cursor is ever in the status row, or more than one column behind
\* the last, whatever interrupts what: each file scrolls before it gets there.
\* A handler between the port writes may leave a hardware cursor of two halves,
\* which the bar takes for its file's; the cursor of kernel_main is safe from
\* that too.
CursorInContent ==
    /\ Mine.row <= LastContentRow
    /\ \A tu \in TU : cursor[tu].col <= VGA_WIDTH
    /\ ~mixed => /\ \A tu \in TU : cursor[tu].row <= LastContentRow
                 /\ ports = 0 => vga_get_hw_cursor.row <= LastContentRow

\* "never touch the bottom status-bar row" (console.h:116): only drawing the
\* bar and clearing the screen change the last row, as long as no file's cursor
\* is there; and even then no text is put or scrolled into it.
BarRowReserved ==
    [][\/ screen'[BarRow] = screen[BarRow]
       \/ \E tu \in BarTU : draw_status(tu)
       \/ screen' = Blanked
       \/ mixed /\ \A c \in Col : screen'[BarRow][c] # Text]_conVars

=============================================================================
