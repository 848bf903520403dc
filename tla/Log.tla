-------------------------------- MODULE Log --------------------------------
(***************************************************************************)
(* The audit log (log.c): a ring of lines, written without a lock by code  *)
(* that runs with interrupts on (boot, tasks) and by the handlers of       *)
(* interrupts, which may come between any two of its steps.                *)
(*                                                                         *)
(* A line is copied character by character; two halves stand for it, so    *)
(* that a line written by two callers at once shows.  log_event keeps      *)
(* log_head in a register from the copy to the store, and loads log_count  *)
(* before it stores log_head, as gcc -O2 (Makefile:8) compiles it.         *)
(***************************************************************************)
EXTENDS Naturals, Sequences

CONSTANTS
    LOG_MAX_LINES,
    Msg,            \* What callers log.
    NoMsg           \* A line, or half of one, that was never written.

ASSUME LogAssumption == LOG_MAX_LINES \in Nat \ {0} /\ NoMsg \notin Msg

VARIABLES
    log_buf, log_head, log_count,
    writer,         \* The log_event in progress outside the handlers.
    events,         \* History: the events, as many as the ring has room for,
                    \* since the last one that two callers wrote at once,
    disturbed       \* and whether a handler ever logged inside log_event.

logVars == <<log_buf, log_head, log_count, writer, events, disturbed>>

Slot == 0 .. (LOG_MAX_LINES - 1)
Whole(msg) == [first |-> msg, rest |-> msg]
Half == Msg \cup {NoMsg}

\* Where the writer is: the next thing it does.  raced: a handler logged while
\* log_head was in the register.
NotWriting == [at |-> "out", msg |-> NoMsg, head |-> 0, count |-> 0, raced |-> FALSE]
Between == {"first", "rest", "load", "head"}

\* log_init; the buffer is in the .bss section.
LogInit ==
    /\ log_buf = [s \in Slot |-> Whole(NoMsg)]
    /\ log_head = 0
    /\ log_count = 0
    /\ writer = NotWriting
    /\ events = <<>>
    /\ disturbed = FALSE

-----------------------------------------------------------------------------
\* Mutant of After: the ring is taken to be one line shorter.
AfterShort(head, n) == (head + n) % (LOG_MAX_LINES - 1)

\* log_head after n events.
After(head, n) == (head + n) % LOG_MAX_LINES

Counted(count, n) ==
    IF count + n < LOG_MAX_LINES THEN count + n ELSE LOG_MAX_LINES

\* The last events that the ring has room for.
Recent(all) ==
    IF Len(all) <= LOG_MAX_LINES THEN all
    ELSE SubSeq(all, Len(all) - LOG_MAX_LINES + 1, Len(all))

\* The calls of log_event that a handler makes: nothing comes between them.
LogInIrq(msgs) ==
    LET written(s) == {i \in DOMAIN msgs : After(log_head, i - 1) = s}
        last(s) == CHOOSE i \in written(s) : \A j \in written(s) : j <= i
    IN  /\ log_buf' = [s \in Slot |-> IF written(s) = {} THEN log_buf[s]
                                     ELSE Whole(msgs[last(s)])]
        /\ log_head' = After(log_head, Len(msgs))
        /\ log_count' = Counted(log_count, Len(msgs))
        /\ disturbed' = (disturbed \/ writer.at # "out")
        /\ IF writer.at \in Between
           THEN writer' = [writer EXCEPT !.raced = TRUE] /\ events' = <<>>
           ELSE writer' = writer /\ events' = Recent(events \o msgs)

\* log_event outside the handlers, as far as the next step.
LogBegin(msg) ==
    /\ writer.at = "out"
    /\ writer' = [NotWriting EXCEPT !.at = "first", !.msg = msg, !.head = log_head]
    /\ UNCHANGED <<log_buf, log_head, log_count, events, disturbed>>

CopyFirst ==
    /\ writer.at = "first"
    /\ log_buf' = [log_buf EXCEPT ![writer.head].first = writer.msg]
    /\ writer' = [writer EXCEPT !.at = "rest"]
    /\ UNCHANGED <<log_head, log_count, events, disturbed>>

CopyRest ==
    /\ writer.at = "rest"
    /\ log_buf' = [log_buf EXCEPT ![writer.head].rest = writer.msg]
    /\ writer' = [writer EXCEPT !.at = "load"]
    /\ UNCHANGED <<log_head, log_count, events, disturbed>>

LoadCount ==
    /\ writer.at = "load"
    /\ writer' = [writer EXCEPT !.at = "head", !.count = log_count]
    /\ UNCHANGED <<log_buf, log_head, log_count, events, disturbed>>

StoreHead ==
    /\ writer.at = "head"
    /\ log_head' = After(writer.head, 1)
    /\ events' = IF writer.raced THEN <<>> ELSE Recent(Append(events, writer.msg))
    /\ writer' = [writer EXCEPT !.at = "count"]
    /\ UNCHANGED <<log_buf, log_count, disturbed>>

StoreCount ==
    /\ writer.at = "count"
    /\ log_count' = Counted(writer.count, 1)
    /\ writer' = NotWriting
    /\ UNCHANGED <<log_buf, log_head, events, disturbed>>

LogStep == CopyFirst \/ CopyRest \/ LoadCount \/ StoreHead \/ StoreCount

-----------------------------------------------------------------------------
\* Where log_dump begins to read.
DumpStart == (log_head + LOG_MAX_LINES - log_count) % LOG_MAX_LINES

\* The lines that log_dump prints.
log_dump ==
    [i \in 1 .. log_count |-> log_buf[(DumpStart + i - 1) % LOG_MAX_LINES]]

-----------------------------------------------------------------------------
(* Properties *)

Smaller(m, n) == IF m < n THEN m ELSE n

\* While a line is copied into a full ring, it goes over the oldest one shown.
Oldest == IF writer.at \in Between /\ log_count = LOG_MAX_LINES THEN 1 ELSE 0

\* However handlers and tasks raced before, the dump ends with the events
\* written since then, each one whole, in their order, and none twice: the
\* damage that log.c:40-42 can do does not last.  As long as no handler has
\* logged inside another log_event, the dump is the log: all its events, or
\* the last LOG_MAX_LINES of them.
LogHeals ==
    LET n == Smaller(log_count - Oldest, Len(events))
    IN  /\ \A i \in 0 .. (n - 1) :
              log_dump[log_count - i] = Whole(events[Len(events) - i])
        /\ writer.at = "out" /\ ~disturbed =>
              log_dump = [i \in DOMAIN events |-> Whole(events[i])]
=============================================================================
