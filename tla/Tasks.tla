------------------------------- MODULE Tasks -------------------------------
(***************************************************************************)
(* The cooperative scheduler (sched/task.c), the context switch            *)
(* (start/context_switch.S) and the interrupts that fall between their     *)
(* instructions (cpu/irq.S, cpu/irq.c).                                    *)
(*                                                                         *)
(* The tasks are numbered by their id.  The processor is a register set:   *)
(* eip is the place in the code, esp the task whose stack is in use,       *)
(* iflag the interrupt flag, and kept stands for ebx, esi, edi and ebp,    *)
(* which task_yield must hand back as it got them.  A pending interrupt is *)
(* taken before the next instruction as soon as the flag is set; its       *)
(* handler runs with the flag clear, on the stack in use, and is one step. *)
(***************************************************************************)
EXTENDS Naturals

CONSTANTS
    MaxTasks,       \* Bound on the number of tasks.
    Sleepers        \* The tasks that run shell_run; the others run demo_task.

ASSUME TasksAssumption == MaxTasks \in Nat /\ Sleepers \subseteq 1 .. MaxTasks

VARIABLES
    current, task_head, next_id,
    next,           \* The ring of tasks.
    regs,           \* The saved registers of each task.
    frame,          \* task_yield's variables old and new on each stack.
    cpu,
    pending         \* The interrupts raised and not yet taken.

vars == <<current, task_head, next_id, next, regs, frame, cpu, pending>>

NULL == 0
Task == 1 .. MaxTasks
Boot == 0           \* kernel_main's stack, and what its registers hold.
Created == 1 .. (next_id - 1)

Irqs == {"timer", "keyboard"}

\* Where a task is while another one runs: not yet started, or at the return
\* of switch_task.
Parked == {"entry", "sti"}
Running == Parked \cup {"boot", "loop", "hlt", "yield", "cli", "switch", "idle", "dead"}

Registers(places, stacks) ==
    [eip : places, esp : stacks, iflag : BOOLEAN, kept : Task \cup {Boot}]

TypeOK ==
    /\ current \in Task \cup {NULL}
    /\ task_head \in Task \cup {NULL}
    /\ next_id \in 1 .. (MaxTasks + 1)
    /\ next \in [Task -> Task \cup {NULL}]
    /\ regs \in [Task -> Registers(Parked, Task)]
    /\ frame \in [Task -> [old : Task \cup {NULL}, new : Task \cup {NULL}]]
    /\ cpu \in Registers(Running, Task \cup {Boot})
    /\ pending \subseteq Irqs

\* The context of a new task: its own stack, and eflags 0x202.
FreshRegs(t) == [eip |-> "entry", esp |-> t, iflag |-> TRUE, kept |-> Boot]

\* kernel_main after task_init: interrupts are already on.
Init ==
    /\ current = NULL
    /\ task_head = NULL
    /\ next_id = 1
    /\ next = [t \in Task |-> NULL]
    /\ regs = [t \in Task |-> FreshRegs(t)]
    /\ frame = [t \in Task |-> [old |-> NULL, new |-> NULL]]
    /\ cpu = [eip |-> "boot", esp |-> Boot, iflag |-> TRUE, kept |-> Boot]
    /\ pending = {}

-----------------------------------------------------------------------------
(* Creating and starting tasks *)

\* The processor executes the instructions at eip.
At(place) ==
    /\ cpu.eip = place
    /\ cpu.iflag => pending = {}
    /\ UNCHANGED pending

\* The task that the walk from task_head stops at.
Last == CHOOSE p \in Created : next[p] = task_head

\* Mutants of task_append: t goes in after the head; the old last task keeps
\* pointing to the head.
AppendAfterHead(t) ==
    IF task_head = NULL THEN [next EXCEPT ![t] = t]
    ELSE [next EXCEPT ![task_head] = t, ![t] = next[task_head]]
AppendUnlinked(t) ==
    IF task_head = NULL THEN [next EXCEPT ![t] = t]
    ELSE [next EXCEPT ![t] = task_head]

task_append(t) ==
    IF task_head = NULL THEN [next EXCEPT ![t] = t]
    ELSE [next EXCEPT ![Last] = t, ![t] = task_head]

\* There may be no room for the task or its stack; then nothing is created.
task_create ==
    /\ At("boot")
    /\ next_id \in Task
    /\ regs' = [regs EXCEPT ![next_id] = FreshRegs(next_id)]
    /\ next' = task_append(next_id)
    /\ task_head' = IF task_head = NULL THEN next_id ELSE task_head
    /\ next_id' = next_id + 1
    /\ UNCHANGED <<current, frame, cpu>>

\* start_task loads esp and eip only; ebx holds the entry's address.
scheduler_start ==
    /\ At("boot")
    /\ \/ /\ task_head = NULL
          /\ cpu' = [cpu EXCEPT !.eip = "idle"]
          /\ UNCHANGED current
       \/ /\ task_head # NULL
          /\ current' = task_head
          /\ cpu' = [cpu EXCEPT !.eip = regs[task_head].eip,
                                !.esp = regs[task_head].esp, !.kept = Boot]
    /\ UNCHANGED <<task_head, next_id, next, regs, frame>>

-----------------------------------------------------------------------------
(* A task's loop *)

\* The first instructions of the task, and those after task_yield returns.
\* What the task keeps in its registers is told by its own number.
Body == IF cpu.esp \in Sleepers THEN "loop" ELSE "yield"
Enter ==
    /\ At("entry")
    /\ cpu' = [cpu EXCEPT !.eip = Body, !.kept = cpu.esp]
    /\ UNCHANGED <<current, task_head, next_id, next, regs, frame>>

\* The processor stops until the next interrupt.
Hlt ==
    /\ At("loop")
    /\ cpu' = [cpu EXCEPT !.eip = "hlt"]
    /\ UNCHANGED <<current, task_head, next_id, next, regs, frame>>

\* task_yield up to its cli: current is the new task while the old one still
\* runs, with interrupts on.
task_yield ==
    /\ At("yield")
    /\ \/ /\ current = NULL \/ next[current] = current
          /\ cpu' = [cpu EXCEPT !.eip = Body]
          /\ UNCHANGED <<current, frame>>
       \/ /\ current # NULL /\ next[current] # current
          /\ frame' = [frame EXCEPT ![cpu.esp] =
                          [old |-> current, new |-> next[current]]]
          /\ current' = next[current]
          /\ cpu' = [cpu EXCEPT !.eip = "cli"]
    /\ UNCHANGED <<task_head, next_id, next, regs>>

Cli ==
    /\ At("cli")
    /\ cpu' = [cpu EXCEPT !.eip = "switch", !.iflag = FALSE]
    /\ UNCHANGED <<current, task_head, next_id, next, regs, frame>>

\* What switch_task saves: it will look as if it had just returned.
Saved == [cpu EXCEPT !.eip = "sti"]

\* Mutants of switch_task: one does not load the stack pointer, the other the
\* registers.
SwitchNoStack ==
    LET f == frame[cpu.esp]
    IN  /\ At("switch")
        /\ regs' = [regs EXCEPT ![f.old] = Saved]
        /\ cpu' = [regs'[f.new] EXCEPT !.esp = cpu.esp]
        /\ UNCHANGED <<current, task_head, next_id, next, frame>>
SwitchNoRegs ==
    LET f == frame[cpu.esp]
    IN  /\ At("switch")
        /\ regs' = [regs EXCEPT ![f.old] = Saved]
        /\ cpu' = [regs'[f.new] EXCEPT !.kept = cpu.kept]
        /\ UNCHANGED <<current, task_head, next_id, next, frame>>

\* The first load is behind the last save; eflags comes back with popfd.
switch_task ==
    LET f == frame[cpu.esp]
    IN  /\ At("switch")
        /\ regs' = [regs EXCEPT ![f.old] = Saved]
        /\ cpu' = regs'[f.new]
        /\ UNCHANGED <<current, task_head, next_id, next, frame>>

\* Mutant of Sti: task_yield returns with interrupts as switch_task left them.
StiForgotten ==
    /\ At("sti")
    /\ cpu' = [cpu EXCEPT !.eip = Body]
    /\ UNCHANGED <<current, task_head, next_id, next, regs, frame>>

Sti ==
    /\ At("sti")
    /\ cpu' = [cpu EXCEPT !.eip = Body, !.iflag = TRUE]
    /\ UNCHANGED <<current, task_head, next_id, next, regs, frame>>

-----------------------------------------------------------------------------
(* Interrupts *)

Raise(i) ==
    /\ pending' = pending \cup {i}
    /\ UNCHANGED <<current, task_head, next_id, next, regs, frame, cpu>>

Taken(i) ==
    /\ cpu.iflag
    /\ i \in pending
    /\ i = "timer" \/ "timer" \notin pending
    /\ pending' = pending \ {i}
    /\ UNCHANGED <<current, task_head, next_id, next, regs, frame>>

\* iret goes back to the instruction that was next; hlt is over.
AfterIrq == IF cpu.eip = "hlt" THEN "yield" ELSE cpu.eip

\* The handler returns: pusha/popa and iret give every register back.  It
\* leaves the scheduler alone.
irq_handler_c(i) ==
    /\ Taken(i)
    /\ cpu' = [cpu EXCEPT !.eip = AfterIrq]

\* A key that completes a command that never returns (exit, panic).
CommandHalts ==
    /\ Taken("keyboard")
    /\ cpu' = [cpu EXCEPT !.eip = "dead", !.iflag = FALSE]

-----------------------------------------------------------------------------
Instruction ==
    \/ task_create \/ scheduler_start
    \/ Enter \/ Hlt \/ task_yield \/ Cli \/ switch_task \/ Sti

Interrupt ==
    \/ \E i \in Irqs : Raise(i) \/ irq_handler_c(i)
    \/ CommandHalts

Next == Instruction \/ Interrupt

Spec == Init /\ [][Next]_vars

\* The timer ticks for ever, but only 100 times a second: neither the program
\* nor the keyboard's interrupt is held up for ever by it.
Fairness ==
    /\ SF_vars(Instruction)
    /\ WF_vars(Raise("timer"))
    /\ \A i \in Irqs : SF_vars(irq_handler_c(i))

FairSpec == Spec /\ Fairness

-----------------------------------------------------------------------------
(* Invariants *)

\* Following next from any task visits all of them, in the order of their
\* creation.
TaskRing ==
    \A t \in Created :
        next[t] = IF t = next_id - 1 THEN task_head ELSE t + 1

\* A processor that waits for an interrupt lets it in: hlt with IF clear
\* would stop the machine.  IF is what the last switch left it: 0x202 for a
\* task that starts, the sti behind switch_task for the others.
HltOpen == cpu.eip \in {"loop", "hlt", "idle"} => cpu.iflag

\* The task called current is the one whose stack is in use; only between
\* task.c:99 and the switch it is already the next one.
OwnStack ==
    /\ cpu.esp = Boot => current = NULL
    /\ cpu.eip \in {"cli", "switch"} => current = next[cpu.esp] /\ current # cpu.esp
    /\ cpu.esp # Boot /\ cpu.eip \notin {"cli", "switch", "dead"} => current = cpu.esp

\* task_yield gives its caller the registers back that it must preserve,
\* however many tasks ran in between.
RegsKept ==
    cpu.eip \in {"loop", "hlt", "yield", "cli", "switch", "sti"} =>
        cpu.kept = cpu.esp

-----------------------------------------------------------------------------
(* The promise, and liveness *)

RR == INSTANCE RoundRobin WITH count <- next_id - 1, running <- cpu.esp

\* The tasks' stacks are in use in the order in which the tasks were made.
TakesTurns == RR!Spec

Stopped == cpu.eip = "dead"

\* A key is handled sooner or later, also while tasks that never sleep pass
\* the processor around.
KeyHandled == "keyboard" \in pending ~> ("keyboard" \notin pending \/ Stopped)

\* Every task gets its turn again and again, once the scheduler has started.
EveryTaskRuns ==
    \A t \in Task :
        []<>(\/ cpu.esp = t /\ cpu.eip = "yield"
             \/ Stopped
             \/ cpu.esp # Boot /\ t \notin Created
             \/ cpu.eip = "idle")

=============================================================================
