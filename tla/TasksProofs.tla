---------------------------- MODULE TasksProofs ----------------------------
(***************************************************************************)
(* For any number of tasks: the scheduler's invariants, and that it takes  *)
(* turns as RoundRobin says; and then user mode, for every set of system   *)
(* call numbers.  The tasks' invariants carry over to it: what user mode   *)
(* does to the tasks is a step of theirs, or takes an interrupt.  The      *)
(* stub's invariant says of each instruction how many words are on the     *)
(* stack and which register each of them came from.                        *)
(***************************************************************************)
EXTENDS UserMode, SequenceTheorems, TLAPS

\* What a task left in its registers when it gave the processor away, or was
\* given at its creation.
ParkedRegs ==
    \A t \in Task :
        /\ regs[t].esp = t
        /\ regs[t].eip = "entry" => regs[t].iflag
        /\ regs[t].eip = "sti" => regs[t].kept = t

\* No task has run while the kernel boots.
Unstarted == cpu.esp = Boot => \A t \in Task : regs[t].eip = "entry"

HeadFirst == task_head = IF next_id = 1 THEN NULL ELSE 1

\* The interrupt flag and the stack at each place of the code.
Places ==
    /\ cpu.eip \in {"boot", "idle"} => cpu.esp = Boot
    /\ cpu.eip \notin {"boot", "idle", "dead"} => cpu.esp \in Created
    /\ cpu.eip \in {"boot", "idle", "entry", "loop", "hlt", "yield", "cli"} => cpu.iflag
    /\ cpu.eip \in {"switch", "dead"} => ~cpu.iflag

\* The switch under way is from the task whose stack is in use to current.
Switching ==
    cpu.eip \in {"cli", "switch"} =>
        frame[cpu.esp] = [old |-> cpu.esp, new |-> current]

IInv ==
    /\ TypeOK
    /\ TaskRing
    /\ HeadFirst
    /\ ParkedRegs
    /\ Unstarted
    /\ Places
    /\ Switching
    /\ OwnStack
    /\ RegsKept

USE TasksAssumption DEF Task, NULL, Boot

-----------------------------------------------------------------------------
(* The ring *)

\* A member of the ring leads to a member, and the last one is the newest.
LEMMA RingClosed ==
    ASSUME TypeOK, TaskRing, HeadFirst
    PROVE  /\ \A t \in Created : next[t] \in Created
           /\ task_head # NULL => task_head \in Created
  BY SMT DEF TypeOK, TaskRing, HeadFirst, Created

LEMMA LastIsNewest ==
    ASSUME TypeOK, TaskRing, HeadFirst, task_head # NULL
    PROVE  Last = next_id - 1 /\ Last \in Created
  <1>1. next_id - 1 \in Created /\ next[next_id - 1] = task_head
    BY SMT DEF TypeOK, TaskRing, HeadFirst, Created
  <1>2. \A p \in Created : next[p] = task_head => p = next_id - 1
    BY SMT DEF TypeOK, TaskRing, HeadFirst, Created
  <1> QED BY <1>1, <1>2 DEF Last

-----------------------------------------------------------------------------
(* The inductive invariant *)

LEMMA InitInv == Init => IInv
  BY SMT DEF Init, IInv, TypeOK, TaskRing, HeadFirst, ParkedRegs, Unstarted, Places, Switching,
         OwnStack, RegsKept, Created, FreshRegs, Registers, Parked, Running

\* A register set with some registers changed is still one.
LEMMA RegistersFields ==
    ASSUME NEW P, NEW S, NEW r \in Registers(P, S)
    PROVE  /\ r.eip \in P /\ r.esp \in S /\ r.iflag \in BOOLEAN /\ r.kept \in Task \cup {Boot}
           /\ \A Q : \A e \in Q : [r EXCEPT !.eip = e] \in Registers(Q, S)
           /\ \A Q : \A e \in Q, i \in BOOLEAN :
                 [r EXCEPT !.eip = e, !.iflag = i] \in Registers(Q, S)
           /\ \A Q : \A e \in Q, k \in Task \cup {Boot} :
                 [r EXCEPT !.eip = e, !.kept = k] \in Registers(Q, S)
           /\ \A Q, T : \A e \in Q, k \in Task \cup {Boot}, s \in T :
                 [r EXCEPT !.eip = e, !.esp = s, !.kept = k] \in Registers(Q, T)
  BY DEF Registers

\* The typing of the two variables that hold registers.
LEMMA RegsStep == IInv /\ [Next]_vars => regs' \in [Task -> Registers(Parked, Task)]
  <1> SUFFICES ASSUME IInv, [Next]_vars PROVE regs' \in [Task -> Registers(Parked, Task)]
    OBVIOUS
  <1>0. regs \in [Task -> Registers(Parked, Task)]
    BY DEF IInv, TypeOK
  <1>1. CASE UNCHANGED regs
    BY <1>0, <1>1
  <1>2. CASE task_create
    <2>1. FreshRegs(next_id) \in Registers(Parked, Task)
      BY <1>2 DEF task_create, FreshRegs, Registers, Parked
    <2> QED BY <1>0, <1>2, <2>1 DEF task_create
  <1>3. CASE switch_task
    <2>1. cpu.eip = "switch" /\ cpu \in Registers(Running, Task \cup {Boot})
      BY <1>3 DEF switch_task, At, IInv, TypeOK
    <2>2. cpu.esp \in Task
      BY <2>1 DEF IInv, TypeOK, Places, Created
    <2>3. Saved \in Registers(Parked, Task)
      BY <2>1, <2>2 DEF Saved, Registers, Parked
    <2> QED BY <1>0, <1>3, <2>3 DEF switch_task
  <1> QED BY <1>1, <1>2, <1>3 DEF Next, Instruction, Interrupt, vars, scheduler_start, Enter, Hlt,
             task_yield, Cli, Sti, Raise, irq_handler_c, Taken, CommandHalts

LEMMA CpuType == IInv /\ [Next]_vars => cpu' \in Registers(Running, Task \cup {Boot})
  <1> SUFFICES ASSUME IInv, [Next]_vars
               PROVE  cpu' \in Registers(Running, Task \cup {Boot})
    OBVIOUS
  <1>0. /\ cpu \in Registers(Running, Task \cup {Boot})
        /\ \A t \in Task : regs[t] \in Registers(Parked, Task)
    BY DEF IInv, TypeOK
  <1>1. CASE UNCHANGED cpu
    BY <1>0, <1>1
  <1>2. CASE scheduler_start
    <2>1. CASE task_head = NULL
      <3>1. cpu' = [cpu EXCEPT !.eip = "idle"] /\ "idle" \in Running
        BY <1>2, <2>1 DEF scheduler_start, Running
      <3> QED BY <1>0, <3>1, RegistersFields
    <2>2. CASE task_head # NULL
      <3>1. regs[task_head].eip \in Running /\ regs[task_head].esp \in Task \cup {Boot}
        BY <1>0, <2>2 DEF IInv, TypeOK, Registers, Parked, Running
      <3>2. cpu' = [cpu EXCEPT !.eip = regs[task_head].eip,
                               !.esp = regs[task_head].esp, !.kept = Boot]
        BY <1>2, <2>2 DEF scheduler_start
      <3> HIDE DEF Task, Boot
      <3>3. Boot \in Task \cup {Boot}
        OBVIOUS
      <3> QED BY <1>0, <3>1, <3>2, <3>3, RegistersFields
    <2> QED BY <2>1, <2>2
  <1>3. CASE Enter \/ Hlt \/ Cli \/ Sti
    <2>1. cpu.esp \in Task \cup {Boot} /\ Body \in Running
      BY <1>0, RegistersFields DEF Body, Running
    <2>2. CASE Enter
      BY <1>0, <2>1, <2>2, RegistersFields DEF Enter
    <2>3. CASE Hlt
      BY <1>0, <2>3, RegistersFields DEF Hlt, Running
    <2>4. CASE Cli
      BY <1>0, <2>4, RegistersFields DEF Cli, Running
    <2>5. CASE Sti
      BY <1>0, <2>1, <2>5, RegistersFields DEF Sti
    <2> QED BY <1>3, <2>2, <2>3, <2>4, <2>5
  <1>4. CASE task_yield
    <2>1. Body \in Running /\ "cli" \in Running
      BY DEF Body, Running
    <2>2. \E e \in Running : cpu' = [cpu EXCEPT !.eip = e]
      BY <1>4, <2>1 DEF task_yield
    <2>3. \A e \in Running : [cpu EXCEPT !.eip = e] \in Registers(Running, Task \cup {Boot})
      BY <1>0, RegistersFields
    <2> QED BY <2>2, <2>3
  <1>5. CASE switch_task
    <2>1. frame[cpu.esp].new = current /\ current \in Task
      BY <1>5, RingClosed DEF switch_task, At, IInv, Switching, OwnStack, Places, Created, TypeOK
    <2>2. regs'[current] \in Registers(Parked, Task)
      BY <2>1, RegsStep
    <2>3. Parked \subseteq Running /\ Task \subseteq Task \cup {Boot}
      BY DEF Running
    <2>4. cpu' = regs'[current]
      BY <1>5, <2>1 DEF switch_task
    <2>5. regs'[current] \in Registers(Running, Task \cup {Boot})
      BY <2>2, <2>3 DEF Registers
    <2> QED BY <2>4, <2>5
  <1>6. CASE \E i \in Irqs : irq_handler_c(i)
    <2>1. AfterIrq \in Running
      BY <1>0, RegistersFields DEF Running, AfterIrq
    <2>2. cpu' = [cpu EXCEPT !.eip = AfterIrq]
      BY <1>6 DEF irq_handler_c
    <2>3. \A e \in Running : [cpu EXCEPT !.eip = e] \in Registers(Running, Task \cup {Boot})
      BY <1>0, RegistersFields
    <2> QED BY <2>1, <2>2, <2>3, Zenon
  <1>7. CASE CommandHalts
    <2>1. "dead" \in Running /\ FALSE \in BOOLEAN
      BY DEF Running
    <2> QED BY <1>0, <1>7, <2>1, RegistersFields DEF CommandHalts
  <1> QED BY <1>1, <1>2, <1>3, <1>4, <1>5, <1>6, <1>7
          DEF Next, Instruction, Interrupt, vars, task_create, Raise

LEMMA TypeStep == IInv /\ [Next]_vars => TypeOK'
  <1> SUFFICES ASSUME IInv, [Next]_vars PROVE TypeOK'
    OBVIOUS
  <1>0. TypeOK
    BY DEF IInv
  <1>1. /\ current' \in Task \cup {NULL}
        /\ frame' \in [Task -> [old : Task \cup {NULL}, new : Task \cup {NULL}]]
    <2>1. CASE task_yield
      <3>1. current \in Task \cup {NULL} /\ current # NULL => next[current] \in Task \cup {NULL}
        BY <1>0 DEF TypeOK
      <3> QED BY <1>0, <2>1, <3>1 DEF TypeOK, task_yield
    <2>2. CASE scheduler_start
      BY <1>0, <2>2 DEF TypeOK, scheduler_start
    <2>3. CASE UNCHANGED <<current, frame>>
      BY <1>0, <2>3 DEF TypeOK
    <2> QED BY <2>1, <2>2, <2>3 DEF Next, Instruction, Interrupt, vars, task_create, Enter, Hlt,
               Cli, Sti, switch_task, Raise, irq_handler_c, Taken, CommandHalts
  <1>2. /\ task_head' \in Task \cup {NULL}
        /\ next_id' \in 1 .. (MaxTasks + 1)
        /\ next' \in [Task -> Task \cup {NULL}]
    <2>1. CASE task_create
      <3>1. task_head # NULL => Last \in Task
        BY LastIsNewest DEF IInv, TypeOK, Created
      <3> QED BY <1>0, <2>1, <3>1 DEF TypeOK, task_create, task_append
    <2>2. CASE UNCHANGED <<task_head, next_id, next>>
      BY <1>0, <2>2 DEF TypeOK
    <2> QED BY <2>1, <2>2 DEF Next, Instruction, Interrupt, vars, scheduler_start, Enter, Hlt,
               task_yield, Cli, Sti, switch_task, Raise, irq_handler_c, Taken, CommandHalts
  <1>3. pending' \subseteq Irqs
    <2>1. pending \subseteq Irqs
      BY <1>0 DEF TypeOK
    <2>2. CASE UNCHANGED pending
      BY <2>1, <2>2
    <2>3. CASE Interrupt
      BY <2>1, <2>3 DEF Interrupt, Raise, irq_handler_c, Taken, CommandHalts
    <2> QED BY <2>2, <2>3 DEF Next, Instruction, vars, At, task_create, scheduler_start, Enter,
               Hlt, task_yield, Cli, Sti, switch_task
  <1> QED BY <1>1, <1>2, <1>3, RegsStep, CpuType DEF TypeOK

\* Only task_create touches the ring.
LEMMA RingStep == IInv /\ [Next]_vars => (TaskRing /\ HeadFirst)'
  <1> SUFFICES ASSUME IInv, [Next]_vars PROVE (TaskRing /\ HeadFirst)'
    OBVIOUS
  <1>1. CASE task_create
    <2> USE <1>1 DEF IInv, TypeOK, task_create, task_append, TaskRing, HeadFirst, Created
    <2>1. CASE task_head = NULL
      BY <2>1, SMT
    <2>2. CASE task_head # NULL
      <3>1. Last = next_id - 1 /\ next_id \in Task /\ next_id # 1
        BY <2>2, LastIsNewest
      <3>2. /\ next' = [next EXCEPT ![next_id - 1] = next_id, ![next_id] = task_head]
            /\ task_head' = task_head /\ next_id' = next_id + 1
        BY <2>2, <3>1
      <3>3. /\ next'[next_id] = task_head /\ next'[next_id - 1] = next_id
            /\ \A t \in Created : t # next_id - 1 => next'[t] = t + 1
        BY <3>1, <3>2
      <3>4. \A t \in 1 .. next_id :
               next'[t] = IF t = next_id THEN task_head ELSE t + 1
        BY <3>1, <3>3
      <3> QED BY <2>2, <3>2, <3>4
    <2> QED BY <2>1, <2>2
  <1>2. CASE UNCHANGED <<task_head, next_id, next>>
    BY <1>2, SMT DEF IInv, TaskRing, HeadFirst, Created
  <1> QED BY <1>1, <1>2 DEF Next, Instruction, Interrupt, vars, scheduler_start, Enter, Hlt,
             task_yield, Cli, switch_task, Sti, Raise, irq_handler_c, Taken, CommandHalts

LEMMA ParkedStep == IInv /\ [Next]_vars => ParkedRegs'
  <1> SUFFICES ASSUME IInv, [Next]_vars PROVE ParkedRegs'
    OBVIOUS
  <1> USE DEF IInv, TypeOK, ParkedRegs
  <1>1. CASE task_create
    BY <1>1, SMT DEF task_create, FreshRegs
  <1>2. CASE switch_task
    BY <1>2, SMT DEF switch_task, At, Saved, Switching, RegsKept, Places, Created, Registers
  <1>3. CASE UNCHANGED regs
    BY <1>3, SMT
  <1> QED BY <1>1, <1>2, <1>3 DEF Next, Instruction, Interrupt, vars, scheduler_start, Enter, Hlt,
             task_yield, Cli, Sti, Raise, irq_handler_c, Taken, CommandHalts

\* Reading back registers that were changed, and those that were not.
LEMMA RegistersReads ==
    ASSUME NEW P, NEW S, NEW r \in Registers(P, S)
    PROVE  /\ \A e : LET q == [r EXCEPT !.eip = e]
                     IN  /\ q.eip = e /\ q.esp = r.esp
                         /\ (q.iflag <=> r.iflag) /\ q.kept = r.kept
           /\ \A e : \A i \in BOOLEAN : LET q == [r EXCEPT !.eip = e, !.iflag = i]
                        IN  /\ q.eip = e /\ q.esp = r.esp
                            /\ (q.iflag <=> i) /\ q.kept = r.kept
           /\ \A e, k : LET q == [r EXCEPT !.eip = e, !.kept = k]
                        IN  /\ q.eip = e /\ q.esp = r.esp
                            /\ (q.iflag <=> r.iflag) /\ q.kept = k
           /\ \A e, t, k : LET q == [r EXCEPT !.eip = e, !.esp = t, !.kept = k]
                           IN  /\ q.eip = e /\ q.esp = t
                               /\ (q.iflag <=> r.iflag) /\ q.kept = k
  BY DEF Registers

\* The processor's part of the invariant.
LEMMA CpuStep == IInv /\ [Next]_vars => (Places /\ Switching /\ OwnStack /\ RegsKept)'
  <1> SUFFICES ASSUME IInv, [Next]_vars
               PROVE  (Places /\ Switching /\ OwnStack /\ RegsKept)'
    OBVIOUS
  <1>0. cpu \in Registers(Running, Task \cup {Boot})
    BY DEF IInv, TypeOK
  <1> USE DEF IInv, Places, Switching, OwnStack, RegsKept, Created
  <1>1. CASE UNCHANGED vars
    BY <1>1 DEF vars
  <1>2. CASE task_create
    <2>1. cpu' = cpu /\ cpu.eip = "boot" /\ current' = current /\ cpu.esp = Boot
      BY <1>2 DEF task_create, At
    <2> QED BY <2>1
  <1>3. CASE scheduler_start
    <2>1. cpu.eip = "boot" /\ cpu.esp = Boot /\ cpu.iflag /\ current = NULL
      BY <1>3 DEF scheduler_start, At
    <2>2. CASE task_head = NULL
      <3>1. cpu' = [cpu EXCEPT !.eip = "idle"] /\ current' = current
        BY <1>3, <2>2 DEF scheduler_start
      <3>2. cpu'.eip = "idle" /\ cpu'.esp = cpu.esp /\ (cpu'.iflag <=> cpu.iflag)
        BY <1>0, <3>1, RegistersReads
      <3> QED BY <2>1, <3>1, <3>2
    <2>3. CASE task_head # NULL
      <3>1. /\ cpu' = [cpu EXCEPT !.eip = regs[task_head].eip,
                                  !.esp = regs[task_head].esp, !.kept = Boot]
            /\ current' = task_head
            /\ UNCHANGED next_id
        BY <1>3, <2>3 DEF scheduler_start
      <3>2. task_head \in Task
        BY <2>3 DEF TypeOK
      <3>3. regs[task_head].eip = "entry" /\ regs[task_head].esp = task_head
        BY <2>1, <3>2 DEF ParkedRegs, Unstarted
      <3>4. cpu'.eip = "entry" /\ cpu'.esp = task_head /\ (cpu'.iflag <=> cpu.iflag)
        BY <1>0, <3>1, <3>3, RegistersReads
      <3>5. task_head \in Created
        BY <2>3, RingClosed
      <3> QED BY <2>1, <3>1, <3>4, <3>5
    <2> QED BY <2>2, <2>3
  <1>4. CASE Enter \/ Hlt \/ Sti
    <2>1. /\ cpu.eip \in {"entry", "loop", "sti"}
          /\ UNCHANGED <<current, next_id, next, frame>>
          /\ cpu.esp \in Created /\ current = cpu.esp
      BY <1>4 DEF Enter, Hlt, Sti, At
    <2>2. Body \in {"loop", "yield"}
      BY DEF Body
    <2>3. CASE Enter
      <3>1. cpu' = [cpu EXCEPT !.eip = Body, !.kept = cpu.esp] /\ cpu.iflag
        BY <2>3 DEF Enter, At
      <3>2. /\ cpu'.eip = Body /\ cpu'.esp = cpu.esp /\ (cpu'.iflag <=> cpu.iflag)
            /\ cpu'.kept = cpu.esp
        BY <1>0, <3>1, RegistersReads
      <3> QED BY <2>1, <2>2, <3>1, <3>2
    <2>4. CASE Hlt
      <3>1. cpu' = [cpu EXCEPT !.eip = "hlt"] /\ cpu.iflag /\ cpu.kept = cpu.esp
        BY <2>4 DEF Hlt, At
      <3>2. /\ cpu'.eip = "hlt" /\ cpu'.esp = cpu.esp /\ (cpu'.iflag <=> cpu.iflag)
            /\ cpu'.kept = cpu.kept
        BY <1>0, <3>1, RegistersReads
      <3> QED BY <2>1, <3>1, <3>2
    <2>5. CASE Sti
      <3>1. cpu' = [cpu EXCEPT !.eip = Body, !.iflag = TRUE] /\ cpu.kept = cpu.esp
        BY <2>5 DEF Sti, At
      <3>2. cpu'.eip = Body /\ cpu'.esp = cpu.esp /\ cpu'.iflag /\ cpu'.kept = cpu.kept
        BY <1>0, <3>1, RegistersReads
      <3> QED BY <2>1, <2>2, <3>1, <3>2
    <2> QED BY <1>4, <2>3, <2>4, <2>5
  <1>5. CASE Cli
    <2>1. /\ cpu' = [cpu EXCEPT !.eip = "switch", !.iflag = FALSE] /\ cpu.eip = "cli"
          /\ UNCHANGED <<current, next_id, next, frame>>
      BY <1>5 DEF Cli, At
    <2>2. cpu'.eip = "switch" /\ cpu'.esp = cpu.esp /\ cpu'.kept = cpu.kept /\ ~cpu'.iflag
      BY <1>0, <2>1, RegistersReads
    <2> QED BY <2>1, <2>2
  <1>6. CASE task_yield
    <2>1. /\ cpu.eip = "yield" /\ cpu.iflag /\ cpu.esp \in Created /\ current = cpu.esp
          /\ cpu.kept = cpu.esp /\ UNCHANGED <<next_id, next>> /\ current # NULL
          /\ next[current] \in Created
      BY <1>6, RingClosed DEF task_yield, At
    <2>2. CASE next[current] = current
      <3>1. cpu' = [cpu EXCEPT !.eip = Body] /\ UNCHANGED <<current, frame>>
        BY <1>6, <2>1, <2>2 DEF task_yield
      <3>2. /\ cpu'.eip \in {"loop", "yield"} /\ cpu'.esp = cpu.esp /\ (cpu'.iflag <=> cpu.iflag)
            /\ cpu'.kept = cpu.kept
        BY <1>0, <3>1, RegistersReads DEF Body
      <3> QED BY <2>1, <3>1, <3>2
    <2>3. CASE next[current] # current
      <3>1. /\ cpu' = [cpu EXCEPT !.eip = "cli"]
            /\ current' = next[current]
            /\ frame' = [frame EXCEPT ![cpu.esp] = [old |-> current, new |-> next[current]]]
        BY <1>6, <2>1, <2>3 DEF task_yield
      <3>2. /\ cpu'.eip = "cli" /\ cpu'.esp = cpu.esp /\ (cpu'.iflag <=> cpu.iflag)
            /\ cpu'.kept = cpu.kept
        BY <1>0, <3>1, RegistersReads
      <3>3. frame'[cpu.esp] = [old |-> cpu.esp, new |-> current']
        BY <2>1, <3>1 DEF TypeOK
      <3> QED BY <2>1, <2>3, <3>1, <3>2, <3>3
    <2> QED BY <2>2, <2>3
  <1>7. CASE switch_task
    BY <1>7, RingClosed, SMT DEF switch_task, At, Saved, ParkedRegs, TypeOK, Registers, Parked,
                                 Running
  <1>8. CASE \E i \in Irqs : Raise(i)
    BY <1>8 DEF Raise
  <1>9. CASE \E i \in Irqs : irq_handler_c(i)
    <2>1. /\ cpu' = [cpu EXCEPT !.eip = AfterIrq]
          /\ UNCHANGED <<current, next_id, next, frame>>
          /\ cpu.iflag
      BY <1>9 DEF irq_handler_c, Taken
    <2>2. /\ cpu'.eip = AfterIrq
          /\ cpu'.esp = cpu.esp /\ (cpu'.iflag <=> cpu.iflag) /\ cpu'.kept = cpu.kept
      BY <1>0, <2>1, RegistersReads
    <2> QED BY <2>1, <2>2 DEF AfterIrq
  <1>10. CASE CommandHalts
    <2>1. /\ cpu' = [cpu EXCEPT !.eip = "dead", !.iflag = FALSE]
          /\ UNCHANGED <<current, next_id, next, frame>>
      BY <1>10 DEF CommandHalts, Taken
    <2>2. /\ cpu'.eip = "dead" /\ cpu'.esp = cpu.esp /\ ~cpu'.iflag
      BY <1>0, <2>1, RegistersReads
    <2>3. cpu.esp = Boot => current = NULL
      OBVIOUS
    <2> QED BY <2>1, <2>2, <2>3
  <1> QED BY <1>1, <1>2, <1>3, <1>4, <1>5, <1>6, <1>7, <1>8, <1>9, <1>10
          DEF Next, Instruction, Interrupt

\* The boot stack is left for ever.
LEMMA BootLeft == IInv /\ [Next]_vars /\ cpu'.esp = Boot => cpu.esp = Boot
  <1> SUFFICES ASSUME IInv, [Next]_vars, cpu'.esp = Boot PROVE cpu.esp = Boot
    OBVIOUS
  <1>0. cpu \in Registers(Running, Task \cup {Boot})
    BY DEF IInv, TypeOK
  <1>1. CASE Enter
    BY <1>0, <1>1, RegistersReads DEF Enter
  <1>2. CASE Hlt \/ task_yield \/ \E i \in Irqs : irq_handler_c(i)
    <2>1. \E e : cpu' = [cpu EXCEPT !.eip = e]
      BY <1>2 DEF Hlt, task_yield, irq_handler_c
    <2> QED BY <1>0, <2>1, RegistersReads
  <1>3. CASE Cli \/ Sti \/ CommandHalts
    <2>1. \E e : \E i \in BOOLEAN : cpu' = [cpu EXCEPT !.eip = e, !.iflag = i]
      BY <1>3 DEF Cli, Sti, CommandHalts
    <2> QED BY <1>0, <2>1, RegistersReads
  <1>4. CASE switch_task
    <2>1. current \in Task /\ frame[cpu.esp].new = current
      BY <1>4, RingClosed DEF switch_task, At, IInv, TypeOK, Switching, OwnStack, Places, Created
    <2>2. cpu' = regs'[current] /\ ParkedRegs'
      BY <1>4, <2>1, ParkedStep DEF switch_task
    <2> QED BY <2>1, <2>2 DEF ParkedRegs
  <1>5. CASE scheduler_start
    BY <1>5 DEF scheduler_start, At, IInv, Places
  <1>6. CASE UNCHANGED cpu
    BY <1>6
  <1> QED BY <1>1, <1>2, <1>3, <1>4, <1>5, <1>6
          DEF Next, Instruction, Interrupt, vars, task_create, Raise

LEMMA UnstartedStep == IInv /\ [Next]_vars => Unstarted'
  <1> SUFFICES ASSUME IInv, [Next]_vars, cpu'.esp = Boot
               PROVE  \A t \in Task : regs'[t].eip = "entry"
    BY DEF Unstarted
  <1>1. cpu.esp = Boot /\ \A t \in Task : regs[t].eip = "entry"
    BY BootLeft DEF IInv, Unstarted
  <1>2. CASE task_create
    BY <1>1, <1>2 DEF task_create, FreshRegs, IInv, TypeOK
  <1>3. CASE switch_task
    BY <1>1, <1>3 DEF switch_task, At, IInv, Places, Created
  <1>4. CASE UNCHANGED regs
    BY <1>1, <1>4
  <1> QED BY <1>2, <1>3, <1>4 DEF Next, Instruction, Interrupt, vars, scheduler_start, Enter, Hlt,
             task_yield, Cli, Sti, Raise, irq_handler_c, Taken, CommandHalts

THEOREM Inductive == Spec => []IInv
  <1>1. Init => IInv
    BY InitInv
  <1>2. IInv /\ [Next]_vars => IInv'
    BY TypeStep, RingStep, ParkedStep, UnstartedStep, CpuStep DEF IInv
  <1> QED BY <1>1, <1>2, PTL DEF Spec

-----------------------------------------------------------------------------
(* The invariants that the runs check *)

\* The type invariant of the scheduler, for any number of tasks.
THEOREM TypeCorrect == Spec => []TypeOK
  BY Inductive, PTL DEF IInv

\* task_append keeps the ring closed and in the order of creation.
THEOREM RingInOrder == Spec => []TaskRing
  BY Inductive, PTL DEF IInv

\* No hlt is reached with interrupts off: neither through a switch to a new
\* task nor through one back to an old one.
THEOREM NeverDeaf == Spec => []HltOpen
  <1>1. IInv => HltOpen
    BY DEF IInv, Places, HltOpen
  <1> QED BY <1>1, Inductive, PTL

\* current and the stack pointer agree but for the window of the switch.
THEOREM StackOwner == Spec => []OwnStack
  BY Inductive, PTL DEF IInv

\* switch_task restores what the C compiler relies on.
THEOREM CalleeSaved == Spec => []RegsKept
  BY Inductive, PTL DEF IInv

-----------------------------------------------------------------------------
(* The scheduler implements RoundRobin *)

LEMMA InitTurns == Init => RR!Init
  BY SMT DEF Init, RR!Init

LEMMA StepTurns == IInv /\ [Next]_vars => [RR!Next]_<<next_id - 1, cpu.esp>>
  <1> SUFFICES ASSUME IInv, [Next]_vars
               PROVE  RR!Next \/ UNCHANGED <<next_id - 1, cpu.esp>>
    OBVIOUS
  <1>0. cpu \in Registers(Running, Task \cup {Boot})
    BY DEF IInv, TypeOK
  <1> USE DEF IInv, TypeOK, Places
  <1>1. CASE task_create
    BY <1>1, SMT DEF task_create, At, RR!Next, RR!Create
  <1>2. CASE scheduler_start
    <2>1. CASE task_head = NULL
      <3>1. cpu' = [cpu EXCEPT !.eip = "idle"] /\ UNCHANGED next_id
        BY <1>2, <2>1 DEF scheduler_start
      <3>2. cpu'.esp = cpu.esp
        BY <1>0, <3>1, RegistersReads
      <3> QED BY <3>1, <3>2
    <2>2. CASE task_head # NULL
      <3>1. cpu' = [cpu EXCEPT !.eip = regs[task_head].eip,
                               !.esp = regs[task_head].esp, !.kept = Boot]
        BY <1>2, <2>2 DEF scheduler_start
      <3>2. cpu'.esp = 1 /\ next_id # 1
        BY <1>0, <1>2, <2>2, <3>1, RegistersReads DEF HeadFirst, ParkedRegs
      <3>3. cpu.esp = 0 /\ UNCHANGED next_id
        BY <1>2 DEF scheduler_start, At
      <3> QED BY <3>2, <3>3 DEF RR!Next, RR!Start
    <2> QED BY <2>1, <2>2
  <1>3. CASE switch_task
    <2>1. cpu.esp \in Created /\ current = next[cpu.esp] /\ current # cpu.esp
      BY <1>3, SMT DEF switch_task, At, OwnStack, Created
    <2>2. cpu'.esp = current
      <3>1. regs'[current] = regs[current]
        BY <1>3, <2>1, SMT DEF switch_task, At, Switching
      <3> QED BY <1>3, <2>1, <3>1, RingClosed, SMT
              DEF switch_task, At, Switching, ParkedRegs, Created
    <2>3. cpu'.esp = IF cpu.esp = next_id - 1 THEN 1 ELSE cpu.esp + 1
      <3>1. task_head = 1
        BY <2>1 DEF HeadFirst, Created
      <3> QED BY <2>1, <2>2, <3>1 DEF TaskRing
    <2> QED BY <1>3, <2>1, <2>3, SMT DEF switch_task, Created, RR!Next, RR!Switch
  <1>4. CASE Enter \/ Hlt \/ task_yield \/ Cli \/ Sti
    <2>1. UNCHANGED next_id
      BY <1>4 DEF Enter, Hlt, task_yield, Cli, Sti
    <2>2. cpu'.esp = cpu.esp
      <3>1. CASE Enter
        BY <1>0, <3>1, RegistersReads DEF Enter
      <3>2. CASE Hlt \/ task_yield
        <4>1. \E e : cpu' = [cpu EXCEPT !.eip = e]
          BY <3>2 DEF Hlt, task_yield
        <4> QED BY <1>0, <4>1, RegistersReads
      <3>3. CASE Cli \/ Sti
        <4>1. \E e : \E i \in BOOLEAN : cpu' = [cpu EXCEPT !.eip = e, !.iflag = i]
          BY <3>3 DEF Cli, Sti
        <4> QED BY <1>0, <4>1, RegistersReads
      <3> QED BY <1>4, <3>1, <3>2, <3>3
    <2> QED BY <2>1, <2>2
  <1>5. CASE Interrupt \/ UNCHANGED vars
    <2>1. UNCHANGED next_id
      BY <1>5 DEF Interrupt, Raise, irq_handler_c, Taken, CommandHalts, vars
    <2>2. cpu'.esp = cpu.esp
      <3>1. CASE CommandHalts
        BY <1>0, <3>1, RegistersReads DEF CommandHalts
      <3>2. CASE \E i \in Irqs : irq_handler_c(i)
        BY <1>0, <3>2, RegistersReads DEF irq_handler_c
      <3>3. CASE cpu' = cpu
        BY <3>3
      <3> QED BY <1>5, <3>1, <3>2, <3>3 DEF Interrupt, Raise, vars
    <2> QED BY <2>1, <2>2
  <1> QED BY <1>1, <1>2, <1>3, <1>4, <1>5 DEF Next, Instruction

\* Tasks get the processor in the order of their creation, one after another.
THEOREM Turns == Spec => TakesTurns
  <1>1. Init => RR!Init
    BY InitTurns
  <1>2. IInv /\ [Next]_vars => [RR!Next]_<<next_id - 1, cpu.esp>>
    BY StepTurns
  <1> QED BY <1>1, <1>2, Inductive, PTL DEF Spec, RR!Spec, TakesTurns

-----------------------------------------------------------------------------
(* User mode *)

LEMMA FunctionIsSeq ==
    ASSUME NEW S, NEW n \in Nat, NEW f \in [1 .. n -> S]
    PROVE  f \in Seq(S) /\ Len(f) = n
  <1>1. f \in Seq(S)
    BY SeqDef
  <1> QED
    BY <1>1, LenProperties

Half == Reg \cup Number \cup {"0", "?", "-1", "frame", "ticks", KernelData, UserData}
Words == [hi : Half, lo : Half]

\* The registers that C hands back as it got them.
Preserved == {"ebx", "esi", "edi", "ebp"}

UserTypeOK ==
    /\ mode \in {"none", "program", "stub", "halted"}
    /\ ip \in 1 .. 22
    /\ reg \in [Reg -> Words]
    /\ asked \in [Reg -> Words]
    /\ \A s \in Segment : asked[s] = Small(UserData)

\* The words on the stack before the stub's n-th instruction.
Depth(n) ==
    IF n <= 3 THEN n
    ELSE IF n <= 6 THEN 3
    ELSE IF n <= 14 THEN n - 3
    ELSE IF n = 15 THEN 11
    ELSE 23 - n

\* What the stub saves, from the bottom of the stack up: the processor's frame,
\* the registers to be restored, and the arguments but for the number.
Saves == <<"eip", "ds", "es", "ebp", "edi", "esi", "ebx", "edx", "ecx", "ebx">>
SavedWord(i) == IF i = 1 THEN Frame ELSE asked[Saves[i]]

\* The i-th word from the bottom.
Below(i) == stack[Len(stack) + 1 - i]

StackOK ==
    /\ Len(stack) = Depth(ip)
    /\ \A i \in 1 .. 10 :
          i <= Len(stack) /\ (i <= 7 \/ ip <= 14) => Below(i) = SavedWord(i)

SegmentsOK ==
    /\ reg["ds"] = Small(IF ip <= 4 \/ ip = 22 THEN UserData ELSE KernelData)
    /\ reg["es"] = Small(IF ip <= 5 \/ ip >= 21 THEN UserData ELSE KernelData)
    /\ ip \in {4, 5} => reg["eax"].lo = KernelData

StubOK ==
    mode = "stub" =>
        /\ stack \in Seq(Words)
        /\ StackOK
        /\ SegmentsOK
        /\ ip <= 14 => reg["ecx"] = asked["ecx"] /\ reg["edx"] = asked["edx"]

RegsOK ==
    /\ \A r \in Preserved : reg[r] = asked[r]
    /\ mode = "program" => \A s \in Segment : reg[s] = asked[s]

UInv == UserTypeOK /\ StubOK /\ RegsOK

-----------------------------------------------------------------------------
(* The stub's text *)

LEMMA Code ==
    /\ Isr80 \in Seq({"push", "pop", "load", "selector", "call", "drop", "iret"} \X Reg)
    /\ Len(Isr80) = 22
    /\ \A n \in {1, 2} \cup 6 .. 13 : Isr80[n][1] = "push"
    /\ \A n \in 16 .. 21 : Isr80[n][1] = "pop"
    /\ Isr80[3] = Selector /\ Isr80[4] = Load("ds") /\ Isr80[5] = Load("es")
    /\ Isr80[14] = CallC /\ Isr80[15] = Drop4 /\ Isr80[22] = Iret
  BY DEF Isr80, Push, Pop, Load, Selector, CallC, Drop4, Iret, Reg, General, Segment

\* A push saves the register that the invariant expects next, but for the
\* system call's number.
LEMMA Pushes ==
    ASSUME NEW n \in {1, 2} \cup 6 .. 13
    PROVE  /\ n # 13 => Isr80[n][2] = Saves[Depth(n) + 1]
           /\ n = 13 => Isr80[n][2] = "eax"
           /\ Depth(n + 1) = Depth(n) + 1
           /\ Depth(n) \in 1 .. 10
  <1>1. n \in {1, 2, 6, 7, 8, 9, 10, 11, 12, 13}
    OBVIOUS
  <1> QED
    BY <1>1 DEF Isr80, Push, Pop, Load, Selector, CallC, Drop4, Iret, Saves, Depth

\* A pop gives a word to the register that it was saved from.
LEMMA Pops ==
    ASSUME NEW n \in 16 .. 21
    PROVE  /\ Isr80[n][2] = Saves[Depth(n)]
           /\ Depth(n) \in 2 .. 7
           /\ Depth(n + 1) = Depth(n) - 1
  <1>1. n \in {16, 17, 18, 19, 20, 21}
    OBVIOUS
  <1> QED
    BY <1>1 DEF Isr80, Push, Pop, Load, Selector, CallC, Drop4, Iret, Saves, Depth

\* Which instruction is where.
LEMMA Where ==
    ASSUME ip \in 1 .. 22
    PROVE  /\ Instr("push") => ip \in {1, 2} \cup 6 .. 13
           /\ Instr("pop") => ip \in 16 .. 21
           /\ Instr("selector") => ip = 3
           /\ Instr("load") => ip \in {4, 5}
           /\ Instr("call") => ip = 14
           /\ Instr("drop") => ip = 15
           /\ Instr("iret") => ip = 22
  <1>1. ip \in {1, 2} \cup 6 .. 13 \/ ip \in 16 .. 21 \/ ip \in {3, 4, 5, 14, 15, 22}
    OBVIOUS
  <1>2. ip \in {1, 2} \cup 6 .. 13 => Isr80[ip][1] = "push"
    BY Code
  <1>3. ip \in 16 .. 21 => Isr80[ip][1] = "pop"
    BY Code
  <1>4. /\ Isr80[3][1] = "selector" /\ Isr80[4][1] = "load" /\ Isr80[5][1] = "load"
        /\ Isr80[14][1] = "call" /\ Isr80[15][1] = "drop" /\ Isr80[22][1] = "iret"
    BY Code DEF Selector, Load, CallC, Drop4, Iret
  <1> QED
    BY <1>1, <1>2, <1>3, <1>4 DEF Instr

LEMMA Names ==
    /\ \A r \in Segment : r \in Reg /\ r \notin General
    /\ Preserved \subseteq General /\ General \subseteq Reg
    /\ \A i \in 2 .. 10 : Saves[i] \in Reg /\ Saves[i] # "eax"
    /\ Program \in [Reg -> Words]
    /\ \A s \in Segment : Program[s] = Small(UserData)
    /\ Frame \in Words /\ Unknown \in Words
    /\ Small(UserData) \in Words /\ Small(KernelData) \in Words
  <1>1. \A i \in 2 .. 10 : i \in {2, 3, 4, 5, 6, 7, 8, 9, 10}
    OBVIOUS
  <1>2. \A i \in 2 .. 10 : Saves[i] \in Reg /\ Saves[i] # "eax"
    BY <1>1 DEF Saves, Reg, General, Segment
  <1>3. /\ Program \in [Reg -> Words]
        /\ \A s \in Segment : Program[s] = Small(UserData)
    BY DEF Program, Words, Half, Small, Word, Reg
  <1> QED
    BY <1>2, <1>3 DEF Reg, General, Segment, Preserved, Words, Half, Small, Word,
      Frame, Unknown

LEMMA SavedType ==
    ASSUME UserTypeOK, NEW i \in 1 .. 10
    PROVE  SavedWord(i) \in Words
  <1>1. i = 1 \/ i \in 2 .. 10
    OBVIOUS
  <1> QED
    BY <1>1, Names DEF SavedWord, UserTypeOK

\* A word pushed is the one above those that were there.
LEMMA PushBelow ==
    ASSUME NEW w \in Words, stack \in Seq(Words), stack' = <<w>> \o stack,
           NEW n, n = Len(stack)
    PROVE  /\ stack' \in Seq(Words) /\ Len(stack') = n + 1
           /\ n \in Nat
           /\ Below(n + 1)' = w
           /\ \A i \in 1 .. n : Below(i)' = Below(i)
  <1>1. <<w>> \in Seq(Words) /\ Len(<<w>>) = 1 /\ <<w>>[1] = w
    OBVIOUS
  <1>2. n \in Nat
    BY LenProperties
  <1>3. /\ stack' \in Seq(Words) /\ Len(stack') = n + 1
        /\ \A i \in 1 .. (n + 1) :
              stack'[i] = IF i <= 1 THEN <<w>>[i] ELSE stack[i - 1]
    BY <1>1, <1>2, ConcatProperties
  <1>4. Below(n + 1)' = w
    <2>1. Len(stack') + 1 - (n + 1) = 1 /\ 1 \in 1 .. (n + 1)
      BY <1>2, <1>3
    <2> QED
      BY <2>1, <1>1, <1>3 DEF Below
  <1>5. ASSUME NEW i \in 1 .. n PROVE Below(i)' = Below(i)
    <2>1. /\ Len(stack') + 1 - i \in 2 .. (n + 1)
          /\ (Len(stack') + 1 - i) - 1 = n + 1 - i
      BY <1>2, <1>3
    <2> QED
      BY <2>1, <1>3 DEF Below
  <1> QED
    BY <1>2, <1>3, <1>4, <1>5

LEMMA PopBelow ==
    ASSUME stack \in Seq(Words), stack # <<>>, stack' = Tail(stack),
           NEW n, n = Len(stack)
    PROVE  /\ stack' \in Seq(Words) /\ Len(stack') = n - 1
           /\ n \in Nat /\ n >= 1
           /\ Head(stack) = Below(n) /\ Head(stack) \in Words
           /\ \A i \in 1 .. (n - 1) : Below(i)' = Below(i)
  <1>1. n \in Nat /\ n # 0
    BY EmptySeq, LenProperties
  <1>2. /\ stack' \in Seq(Words) /\ Len(stack') = n - 1
        /\ \A i \in 1 .. (n - 1) : stack'[i] = stack[i + 1]
        /\ Head(stack) = stack[1] /\ Head(stack) \in Words
    BY HeadTailProperties
  <1>3. Head(stack) = Below(n)
    BY <1>1, <1>2 DEF Below
  <1>4. ASSUME NEW i \in 1 .. (n - 1) PROVE Below(i)' = Below(i)
    <2>1. /\ Len(stack') + 1 - i \in 1 .. (n - 1)
          /\ (Len(stack') + 1 - i) + 1 = n + 1 - i
      BY <1>1, <1>2
    <2> QED
      BY <2>1, <1>2 DEF Below
  <1> QED
    BY <1>1, <1>2, <1>3, <1>4

-----------------------------------------------------------------------------
(* The stub's instructions *)

\* The register a push saves still has what the program left in it.
LEMMA PushedWord ==
    ASSUME UInv, mode = "stub", ip \in {1, 2} \cup 6 .. 12
    PROVE  reg[Saves[Depth(ip) + 1]] = SavedWord(Depth(ip) + 1)
  <1>1. /\ reg["ds"] = asked["ds"] \/ ip \notin {1, 2}
        /\ reg["es"] = asked["es"] \/ ip \notin {1, 2}
        /\ \A r \in Preserved : reg[r] = asked[r]
        /\ reg["ecx"] = asked["ecx"] /\ reg["edx"] = asked["edx"]
    BY DEF UInv, StubOK, SegmentsOK, RegsOK, UserTypeOK, Segment
  <1>2. ip \in {1, 2, 6, 7, 8, 9, 10, 11, 12}
    OBVIOUS
  <1> QED
    BY <1>1, <1>2 DEF SavedWord, Saves, Depth, Preserved

LEMMA PushStep == UInv /\ StubPush => UInv'
  <1> SUFFICES ASSUME UInv, StubPush PROVE UInv'
    OBVIOUS
  <1>1. /\ mode = "stub" /\ ip \in {1, 2} \cup 6 .. 13 /\ ip' = ip + 1
        /\ UNCHANGED <<mode, asked, reg>>
    BY Where DEF UInv, UserTypeOK, StubPush, Step, Instr
  <1>2. UserTypeOK' /\ RegsOK'
    BY <1>1 DEF UInv, UserTypeOK, RegsOK
  <1>3. SegmentsOK'
    BY <1>1 DEF UInv, StubOK, SegmentsOK
  <1> DEFINE w == reg[Operand]
             n == Len(stack)
  <1>4. /\ w \in Words
        /\ ip # 13 => w = SavedWord(Depth(ip) + 1)
    <2>1. CASE ip = 13
      BY <1>1, <2>1, Pushes, Names DEF Operand, UInv, UserTypeOK, General, Reg
    <2>2. CASE ip # 13
      <3>1. w = SavedWord(Depth(ip) + 1)
        BY <1>1, <2>2, Pushes, PushedWord DEF Operand
      <3>2. Depth(ip) + 1 \in 1 .. 10
        BY <1>1, <2>2 DEF Depth
      <3> QED
        BY <3>1, <3>2, SavedType DEF UInv
    <2> QED
      BY <2>1, <2>2
  <1>5. stack \in Seq(Words) /\ n = Depth(ip) /\ stack' = <<w>> \o stack
    BY <1>1 DEF UInv, StubOK, StackOK, StubPush
  <1>6. PICK k : k = n
    OBVIOUS
  <1>7. /\ stack' \in Seq(Words) /\ Len(stack') = k + 1 /\ k \in Nat
        /\ Below(k + 1)' = w
        /\ \A i \in 1 .. k : Below(i)' = Below(i)
    <2> HIDE DEF w
    <2> QED
      BY <1>4, <1>5, <1>6, PushBelow
  <1>8. StackOK'
    <2>1. Len(stack') = Depth(ip')
      BY <1>1, <1>5, <1>6, <1>7, Pushes
    <2>2. ASSUME NEW i \in 1 .. 10, i <= Len(stack')
          PROVE  Below(i)' = SavedWord(i)
      <3>1. CASE i = k + 1
        <4>1. ip # 13
          BY <1>5, <1>6, <3>1 DEF Depth
        <4>2. Below(i)' = w
          BY <1>7, <3>1
        <4> QED
          BY <1>4, <1>5, <1>6, <3>1, <4>1, <4>2
      <3>2. CASE i # k + 1
        <4>1. i \in 1 .. k
          BY <1>7, <2>2, <3>2
        <4>2. Below(i) = SavedWord(i)
          BY <1>1, <1>6, <4>1 DEF UInv, StubOK, StackOK
        <4> QED
          BY <1>7, <4>1, <4>2
      <3> QED
        BY <3>1, <3>2
    <2> QED
      BY <1>1, <2>1, <2>2 DEF StackOK, SavedWord
  <1>9. ip' <= 14 => reg'["ecx"] = asked'["ecx"] /\ reg'["edx"] = asked'["edx"]
    BY <1>1 DEF UInv, StubOK
  <1> QED
    BY <1>2, <1>3, <1>7, <1>8, <1>9 DEF UInv, StubOK

LEMMA PopStep == UInv /\ StubPop => UInv'
  <1> SUFFICES ASSUME UInv, StubPop PROVE UInv'
    OBVIOUS
  <1>1. mode = "stub" /\ ip \in 16 .. 21
    BY Where DEF UInv, UserTypeOK, StubPop, Instr
  <1> DEFINE n == Len(stack)
             r == Operand
             w == Head(stack)
  <1>2. n = Depth(ip) /\ n \in 2 .. 7 /\ r = Saves[n] /\ Depth(ip + 1) = n - 1
    BY <1>1, Pops DEF UInv, StubOK, StackOK, Operand
  <1>3. stack \in Seq(Words) /\ stack # <<>> /\ stack' = Tail(stack)
    BY <1>1, <1>2, EmptySeq DEF UInv, StubOK, StubPop
  <1>4. PICK k : k = n
    OBVIOUS
  <1>5. /\ stack' \in Seq(Words) /\ Len(stack') = k - 1
        /\ w = Below(k) /\ w \in Words
        /\ \A i \in 1 .. (k - 1) : Below(i)' = Below(i)
    BY <1>3, <1>4, PopBelow
  <1>6. w = asked[r] /\ r \in Reg
    <2>1. Below(k) = SavedWord(k)
      BY <1>1, <1>2, <1>4 DEF UInv, StubOK, StackOK
    <2>2. SavedWord(k) = asked[Saves[k]] /\ k \in 2 .. 10
      BY <1>2, <1>4 DEF SavedWord
    <2> QED
      BY <1>2, <1>4, <1>5, <2>1, <2>2, Names
  <1>7. r \in Segment => w.lo \in DataSelectors
    BY <1>6 DEF UInv, UserTypeOK, DataSelectors, Small, Word
  <1>8. /\ ip' = ip + 1 /\ UNCHANGED <<mode, asked>>
        /\ reg' = [reg EXCEPT ![r] = w]
    <2>1. r \in General \/ w.lo \in DataSelectors
      BY <1>6, <1>7 DEF Reg
    <2> HIDE DEF r, w
    <2>2. Receive(r, w)
      BY DEF StubPop, r, w
    <2> QED
      BY <2>1, <2>2 DEF Receive, Step
  <1>9. UserTypeOK'
    BY <1>1, <1>5, <1>6, <1>8 DEF UInv, UserTypeOK
  <1>10. RegsOK'
    BY <1>1, <1>6, <1>8, Names DEF UInv, UserTypeOK, RegsOK
  <1>11. SegmentsOK'
    <2>1. /\ r = "ds" <=> ip = 21
          /\ r = "es" <=> ip = 20
      <3>1. ip \in {16, 17, 18, 19, 20, 21}
        BY <1>1
      <3> QED
        BY <3>1, <1>2 DEF Saves, Depth
    <2>2. /\ reg["ds"] = Small(KernelData)
          /\ reg["es"] = Small(IF ip = 21 THEN UserData ELSE KernelData)
      BY <1>1 DEF UInv, StubOK, SegmentsOK
    <2>3. asked["ds"] = Small(UserData) /\ asked["es"] = Small(UserData)
      BY DEF UInv, UserTypeOK, Segment
    <2>4. "ds" \in Reg /\ "es" \in Reg
      BY DEF Reg, Segment
    <2>5. /\ reg'["ds"] = IF ip = 21 THEN Small(UserData) ELSE reg["ds"]
          /\ reg'["es"] = IF ip = 20 THEN Small(UserData) ELSE reg["es"]
      <3> HIDE DEF r, w
      <3> QED
        BY <1>6, <1>8, <2>1, <2>3, <2>4 DEF UInv, UserTypeOK
    <2> QED
      BY <1>1, <1>8, <2>2, <2>5 DEF SegmentsOK
  <1>12. StackOK'
    <2>1. Len(stack') = Depth(ip')
      BY <1>2, <1>4, <1>5, <1>8
    <2>2. ASSUME NEW i \in 1 .. 10, i <= Len(stack') PROVE Below(i)' = SavedWord(i)
      <3>1. i \in 1 .. (k - 1) /\ i \in 1 .. 7
        BY <1>2, <1>4, <1>5, <2>2
      <3>2. Below(i) = SavedWord(i)
        BY <1>1, <1>4, <3>1, <1>2 DEF UInv, StubOK, StackOK
      <3> QED
        BY <1>5, <3>1, <3>2
    <2> QED
      BY <1>8, <2>1, <2>2 DEF StackOK, SavedWord
  <1> QED
    BY <1>1, <1>5, <1>8, <1>9, <1>10, <1>11, <1>12 DEF UInv, StubOK

\* The kernel's selector goes into ds and es.
LEMMA SegmentStep == UInv /\ (StubSelector \/ StubLoad) => UInv'
  <1> SUFFICES ASSUME UInv, StubSelector \/ StubLoad PROVE UInv'
    OBVIOUS
  <1> USE DEF UInv
  <1>1. mode = "stub" /\ ip \in {3, 4, 5} /\ UNCHANGED stack
    BY Where DEF UserTypeOK, StubSelector, StubLoad, Instr
  <1>2. /\ "eax" \in Reg /\ "ds" \in Reg /\ "es" \in Reg
        /\ \A r \in Preserved \cup {"ecx", "edx"} : r \notin {"eax", "ds", "es"} /\ r \in Reg
        /\ KernelData \in Half /\ "0" \in Half
    BY DEF Reg, General, Segment, Preserved, Half
  <1>3. reg["eax"] \in Words /\ asked["ds"] \in Words
    BY <1>2 DEF UserTypeOK
  <1>4. /\ ip' = ip + 1 /\ UNCHANGED <<mode, asked>>
        /\ \/ ip = 3 /\ reg' = [reg EXCEPT !["eax"].lo = KernelData]
           \/ ip = 4 /\ reg' = [reg EXCEPT !["ds"] = Small(KernelData)]
           \/ ip = 5 /\ reg' = [reg EXCEPT !["es"] = Small(KernelData)]
    <2>1. CASE StubSelector
      BY <2>1, <1>1, Where DEF StubSelector, Step, UserTypeOK
    <2>2. CASE StubLoad
      <3>1. ip \in {4, 5} /\ reg["eax"].lo = KernelData
        BY <1>1, <2>2, Where DEF StubLoad, UserTypeOK, StubOK, SegmentsOK
      <3>2. Operand = IF ip = 4 THEN "ds" ELSE "es"
        BY <3>1, Code DEF Operand, Load
      <3>3. Small(KernelData).lo \in DataSelectors
        BY DEF Small, Word, DataSelectors
      <3>4. Receive(Operand, Small(KernelData))
        BY <2>2, <3>1 DEF StubLoad
      <3> QED
        BY <3>1, <3>2, <3>3, <3>4 DEF Receive, Step
    <2> QED
      BY <2>1, <2>2
  <1>5. Small(KernelData) \in Words /\ [reg["eax"] EXCEPT !.lo = KernelData] \in Words
    BY <1>2, <1>3, Names DEF Words
  <1>6. reg' \in [Reg -> Words]
    BY <1>2, <1>4, <1>5 DEF UserTypeOK
  <1>7. \A r \in Preserved \cup {"ecx", "edx"} : reg'[r] = reg[r]
    BY <1>2, <1>4 DEF UserTypeOK
  <1>8. SegmentsOK'
    <2>1. /\ reg["ds"] = Small(IF ip <= 4 THEN UserData ELSE KernelData)
          /\ reg["es"] = Small(UserData)
          /\ ip \in {4, 5} => reg["eax"].lo = KernelData
      BY <1>1 DEF StubOK, SegmentsOK
    <2>2. CASE ip = 3
      <3>1. reg'["eax"].lo = KernelData /\ reg'["ds"] = reg["ds"] /\ reg'["es"] = reg["es"]
        BY <2>2, <1>2, <1>3, <1>4 DEF UserTypeOK, Words
      <3> QED
        BY <2>1, <2>2, <3>1, <1>4 DEF SegmentsOK
    <2>3. CASE ip = 4
      <3>1. /\ reg'["eax"] = reg["eax"] /\ reg'["ds"] = Small(KernelData)
            /\ reg'["es"] = reg["es"]
        BY <2>3, <1>2, <1>4 DEF UserTypeOK
      <3> QED
        BY <2>1, <2>3, <3>1, <1>4 DEF SegmentsOK
    <2>4. CASE ip = 5
      <3>1. reg'["ds"] = reg["ds"] /\ reg'["es"] = Small(KernelData)
        BY <2>4, <1>2, <1>4 DEF UserTypeOK
      <3> QED
        BY <2>1, <2>4, <3>1, <1>4 DEF SegmentsOK
    <2> QED
      BY <1>1, <2>2, <2>3, <2>4
  <1>9. StackOK'
    <2>1. Depth(ip + 1) = Depth(ip)
      BY <1>1 DEF Depth
    <2> QED
      BY <1>1, <1>4, <2>1 DEF StubOK, StackOK, SavedWord, Below
  <1>10. UserTypeOK' /\ RegsOK'
    BY <1>1, <1>4, <1>6, <1>7 DEF UserTypeOK, RegsOK
  <1> QED
    BY <1>1, <1>4, <1>7, <1>8, <1>9, <1>10 DEF StubOK

LEMMA CallStep == UInv /\ syscall_handler => UInv'
  <1> SUFFICES ASSUME UInv, syscall_handler PROVE UInv'
    OBVIOUS
  <1> USE DEF UInv
  <1>1. /\ mode = "stub" /\ ip = 14 /\ ip' = 15
        /\ UNCHANGED <<mode, asked>>
    BY Where DEF UserTypeOK, syscall_handler, Instr, Step
  <1>2. /\ "eax" \in Reg /\ "ecx" \in Reg /\ "edx" \in Reg
        /\ \A r \in Preserved \cup Segment : r \notin {"eax", "ecx", "edx"} /\ r \in Reg
    BY DEF Reg, General, Segment, Preserved
  <1>3. /\ reg' = [reg EXCEPT !["eax"] = Answer(Head(stack)), !["ecx"] = Unknown,
                              !["edx"] = Unknown]
        /\ stack' = [i \in DOMAIN stack |-> IF i <= 4 THEN Unknown ELSE stack[i]]
    BY DEF syscall_handler
  <1>4. Answer(Head(stack)) \in Words /\ Unknown \in Words
    BY Names DEF Answer, Words, Half, Small, Word
  <1>5. reg' \in [Reg -> Words]
    BY <1>2, <1>3, <1>4 DEF UserTypeOK
  <1>6. \A r \in Preserved \cup Segment : reg'[r] = reg[r]
    BY <1>2, <1>3 DEF UserTypeOK
  <1>7. stack \in Seq(Words) /\ Len(stack) = 11 /\ DOMAIN stack = 1 .. 11
    <2>1. stack \in Seq(Words) /\ Len(stack) = 11
      BY <1>1 DEF StubOK, StackOK, Depth
    <2> QED
      BY <2>1, LenProperties
  <1>8. /\ stack' \in Seq(Words) /\ Len(stack') = 11
        /\ \A i \in 5 .. 11 : stack'[i] = stack[i]
    <2>1. \A i \in 1 .. 11 : stack[i] \in Words
      BY <1>7, ElementOfSeq
    <2>2. stack' \in [1 .. 11 -> Words]
      BY <1>3, <1>4, <1>7, <2>1
    <2>3. stack' \in Seq(Words) /\ Len(stack') = 11
      BY <2>2, FunctionIsSeq
    <2> QED
      BY <1>3, <1>7, <2>3
  <1>9. StackOK'
    <2>1. ASSUME NEW i \in 1 .. 7 PROVE Below(i)' = SavedWord(i)
      <3>1. Below(i)' = Below(i)
        BY <1>7, <1>8 DEF Below
      <3>2. Below(i) = SavedWord(i)
        BY <1>1, <1>7 DEF StubOK, StackOK
      <3> QED
        BY <3>1, <3>2
    <2>2. Depth(15) = 11
      BY DEF Depth
    <2> QED
      BY <1>1, <1>8, <2>1, <2>2 DEF StackOK, SavedWord
  <1>10. UserTypeOK' /\ RegsOK'
    BY <1>1, <1>5, <1>6 DEF UserTypeOK, RegsOK
  <1>11. SegmentsOK'
    BY <1>1, <1>6 DEF StubOK, SegmentsOK, Segment
  <1> QED
    BY <1>1, <1>8, <1>9, <1>10, <1>11 DEF StubOK

LEMMA DropStep == UInv /\ StubDrop => UInv'
  <1> SUFFICES ASSUME UInv, StubDrop PROVE UInv'
    OBVIOUS
  <1> USE DEF UInv
  <1>1. /\ mode = "stub" /\ ip = 15 /\ ip' = 16
        /\ UNCHANGED <<mode, asked, reg>>
    BY Where DEF UserTypeOK, StubDrop, Instr, Step
  <1>2. stack \in Seq(Words) /\ Len(stack) = 11
    BY <1>1 DEF StubOK, StackOK, Depth
  <1>3. /\ stack' \in Seq(Words) /\ Len(stack') = 7
        /\ \A i \in 1 .. 7 : stack'[i] = stack[4 + i]
    <2>1. stack' = SubSeq(stack, 5, 11)
      BY <1>2 DEF StubDrop
    <2>2. /\ SubSeq(stack, 5, 11) \in Seq(Words)
          /\ Len(SubSeq(stack, 5, 11)) = IF 5 <= 11 THEN 11 - 5 + 1 ELSE 0
          /\ \A i \in 1 .. (11 - 5 + 1) : SubSeq(stack, 5, 11)[i] = stack[5 + i - 1]
      <3>1. ASSUME NEW i \in 5 .. 11 PROVE stack[i] \in Words
        <4>1. i \in 1 .. Len(stack)
          BY <1>2
        <4> QED
          BY <1>2, <4>1, ElementOfSeq
      <3>2. 5 \in Int /\ 11 \in Int
        OBVIOUS
      <3> QED
        BY <3>1, <3>2, SubSeqProperties
    <2>3. \A i \in 1 .. 7 : 5 + i - 1 = 4 + i
      OBVIOUS
    <2> QED
      BY <2>1, <2>2, <2>3
  <1>4. StackOK'
    <2>1. ASSUME NEW i \in 1 .. 7 PROVE Below(i)' = SavedWord(i)
      <3>1. Below(i)' = Below(i)
        <4>1. Len(stack') + 1 - i \in 1 .. 7 /\ 4 + (Len(stack') + 1 - i) = Len(stack) + 1 - i
          BY <1>2, <1>3
        <4> QED
          BY <4>1, <1>3 DEF Below
      <3>2. Below(i) = SavedWord(i)
        BY <1>1, <1>2 DEF StubOK, StackOK
      <3> QED
        BY <3>1, <3>2
    <2>2. Depth(16) = 7
      BY DEF Depth
    <2> QED
      BY <1>1, <1>3, <2>1, <2>2 DEF StackOK, SavedWord
  <1>5. UserTypeOK' /\ RegsOK' /\ SegmentsOK'
    BY <1>1 DEF UserTypeOK, RegsOK, StubOK, SegmentsOK
  <1> QED
    BY <1>1, <1>3, <1>4, <1>5 DEF StubOK

\* What is left on the stack is the processor's frame.
LEMMA IretStep == UInv /\ StubIret => UInv'
  <1> SUFFICES ASSUME UInv, StubIret PROVE UInv'
    OBVIOUS
  <1> USE DEF UInv
  <1>1. mode = "stub" /\ ip = 22
    BY Where DEF UserTypeOK, StubIret, Instr
  <1>2. stack \in Seq(Words) /\ Len(stack) = 1
    BY <1>1 DEF StubOK, StackOK, Depth
  <1>3. Head(stack) = Frame
    <2>1. Below(1) = SavedWord(1)
      BY <1>1, <1>2 DEF StubOK, StackOK
    <2>2. stack # <<>>
      BY <1>2
    <2> QED
      BY <1>2, <2>1, <2>2, HeadTailProperties DEF Below, SavedWord
  <1>4. mode' = "program" /\ UNCHANGED <<ip, reg, asked>>
    BY <1>3 DEF StubIret
  <1>5. \A s \in Segment : reg[s] = asked[s]
    BY <1>1 DEF StubOK, SegmentsOK, UserTypeOK, Segment
  <1> QED
    BY <1>4, <1>5 DEF UserTypeOK, StubOK, RegsOK

-----------------------------------------------------------------------------
(* The invariant of the system *)

\* Interrupts of the program and the stub do not touch the tasks.
TasksStep == [Next]_vars \/ \E i \in Irqs :
    /\ pending' = pending \ {i}
    /\ UNCHANGED <<current, task_head, next_id, next, regs, frame, cpu>>

LEMMA UserTasksStep == [UserNext]_allVars => TasksStep
  <1> SUFFICES ASSUME [UserNext]_allVars PROVE TasksStep
    OBVIOUS
  <1>1. CASE Kernel
    BY <1>1 DEF Kernel, TasksStep
  <1>2. CASE runuser
    BY <1>2 DEF runuser, TasksStep, Next, Interrupt
  <1>3. ASSUME NEW i \in Irqs, IrqInUser(i) PROVE TasksStep
    BY <1>3 DEF IrqInUser, TasksStep
  <1>4. CASE Exception
    BY <1>4 DEF Exception, TasksStep
  <1>5. ASSUME NEW num \in Number, Int80(num) PROVE TasksStep
    BY <1>5 DEF Int80, TasksStep
  <1>6. CASE InStub
    BY <1>6 DEF InStub, StubPush, StubPop, StubSelector, StubLoad, syscall_handler,
      StubDrop, StubIret, Step, Receive, TasksStep
  <1>7. CASE UNCHANGED allVars
    BY <1>7 DEF allVars, TasksStep
  <1> QED
    BY <1>1, <1>2, <1>3, <1>4, <1>5, <1>6, <1>7 DEF UserNext

LEMMA TasksInv == IInv /\ TasksStep => IInv'
  <1> SUFFICES ASSUME IInv, TasksStep PROVE IInv'
    OBVIOUS
  <1>1. CASE [Next]_vars
    BY <1>1, TypeStep, RingStep, ParkedStep, UnstartedStep, CpuStep DEF IInv
  <1>2. ASSUME NEW i \in Irqs, pending' = pending \ {i},
               UNCHANGED <<current, task_head, next_id, next, regs, frame, cpu>>
        PROVE  IInv'
    BY <1>2 DEF IInv, TypeOK, TaskRing, HeadFirst, ParkedRegs, Unstarted, Places,
      Switching, OwnStack, RegsKept, Created
  <1> QED
    BY <1>1, <1>2 DEF TasksStep

LEMMA UserStep == UInv /\ [UserNext]_allVars => UInv'
  <1> SUFFICES ASSUME UInv, [UserNext]_allVars PROVE UInv'
    OBVIOUS
  <1>1. ASSUME UNCHANGED <<ip, reg, stack, asked>>, mode' \in {mode, "halted"}
        PROVE  UInv'
    BY <1>1 DEF UInv, UserTypeOK, StubOK, StackOK, SegmentsOK, RegsOK, Below, SavedWord
  <1>2. CASE Kernel \/ (\E i \in Irqs : IrqInUser(i)) \/ Exception \/ UNCHANGED allVars
    BY <1>1, <1>2 DEF Kernel, IrqInUser, Exception, allVars, userVars
  <1>3. CASE runuser
    BY <1>3, Names DEF runuser, switch_to_user_mode, UInv, UserTypeOK, StubOK, RegsOK
  <1>4. ASSUME NEW num \in Number, Int80(num) PROVE UInv'
    <2>1. /\ mode' = "stub" /\ ip' = 1 /\ stack' = <<Frame>>
          /\ asked' = [Program EXCEPT !["eax"] = Small(num)] /\ reg' = asked'
      BY <1>4 DEF Int80, GateDpl, Esp0
    <2>2. Small(num) \in Words
      BY DEF Small, Word, Words, Half
    <2>3. asked' \in [Reg -> Words] /\ \A s \in Segment : asked'[s] = Small(UserData)
      BY <2>1, <2>2, Names DEF Reg, General, Segment
    <2>4. /\ stack' \in Seq(Words) /\ Len(stack') = 1 /\ stack'[1] = Frame
      BY <2>1, Names
    <2>5. StackOK'
      BY <2>1, <2>4 DEF StackOK, Depth, Below, SavedWord
    <2>6. SegmentsOK'
      BY <2>1, <2>3 DEF SegmentsOK, Segment
    <2> QED
      BY <2>1, <2>3, <2>4, <2>5, <2>6 DEF UInv, UserTypeOK, StubOK, RegsOK
  <1>5. CASE InStub
    BY <1>5, PushStep, PopStep, SegmentStep, CallStep, DropStep, IretStep DEF InStub
  <1> QED
    BY <1>2, <1>3, <1>4, <1>5 DEF UserNext

LEMMA UserInductive == UserSpec => [](IInv /\ UInv)
  <1>1. UserInit => IInv /\ UInv
    BY InitInv, Names DEF UserInit, UInv, UserTypeOK, StubOK, RegsOK
  <1>2. IInv /\ UInv /\ [UserNext]_allVars => (IInv /\ UInv)'
    BY UserTasksStep, TasksInv, UserStep
  <1> QED
    BY <1>1, <1>2, PTL DEF UserSpec

-----------------------------------------------------------------------------
(* The theorems *)

\* syscall_handler finds the program's ebx, ecx and edx in this order on its
\* stack, and the kernel's segments in ds and es, for every system call.
THEOREM ArgumentsInOrder == UserSpec => []ArgumentsArrive
  <1>1. UInv => ArgumentsArrive
    <2> SUFFICES ASSUME UInv, AtCall
                 PROVE  /\ SubSeq(stack, 2, 4) = <<asked["ebx"], asked["ecx"], asked["edx"]>>
                        /\ \A s \in Segment : reg[s] = Small(KernelData)
      BY DEF ArgumentsArrive
    <2>1. mode = "stub" /\ ip = 14
      BY Where DEF AtCall, UInv, UserTypeOK, CallC, Instr
    <2>2. stack \in Seq(Words) /\ Len(stack) = 11
      BY <2>1 DEF UInv, StubOK, StackOK, Depth
    <2>3. /\ stack[2] = asked["ebx"] /\ stack[3] = asked["ecx"] /\ stack[4] = asked["edx"]
      <3>1. \A i \in {8, 9, 10} : stack[12 - i] = asked[Saves[i]]
        BY <2>1, <2>2 DEF UInv, StubOK, StackOK, Below, SavedWord
      <3>2. 12 - 10 = 2 /\ 12 - 9 = 3 /\ 12 - 8 = 4
        OBVIOUS
      <3>3. stack[2] = asked[Saves[10]] /\ stack[3] = asked[Saves[9]] /\ stack[4] = asked[Saves[8]]
        BY <3>1, <3>2
      <3> QED
        BY <3>3 DEF Saves
    <2>4. SubSeq(stack, 2, 4) = <<stack[2], stack[3], stack[4]>>
      <3> DEFINE s == SubSeq(stack, 2, 4)
                 u == <<stack[2], stack[3], stack[4]>>
      <3>1. ASSUME NEW i \in 2 .. 4 PROVE stack[i] \in Words
        <4>1. i \in 1 .. Len(stack)
          BY <2>2
        <4> QED
          BY <2>2, <4>1, ElementOfSeq
      <3>2. 2 \in Int /\ 4 \in Int
        OBVIOUS
      <3>3. /\ s \in Seq(Words)
            /\ Len(s) = 3
            /\ \A i \in 1 .. 3 : s[i] = stack[2 + i - 1]
        <4>1. /\ s \in Seq(Words)
              /\ Len(s) = IF 2 <= 4 THEN 4 - 2 + 1 ELSE 0
              /\ \A i \in 1 .. (4 - 2 + 1) : s[i] = stack[2 + i - 1]
          BY <3>1, <3>2, SubSeqProperties
        <4> QED
          BY <4>1
      <3>4. u \in Seq(Words) /\ Len(u) = 3
        BY <3>1
      <3>5. \A i \in 1 .. 3 : s[i] = u[i]
        BY <3>3
      <3> HIDE DEF s, u
      <3>6. s = u
        BY <3>3, <3>4, <3>5, SeqEqual
      <3> QED
        BY <3>6 DEF s, u
    <2>5. reg["ds"] = Small(KernelData) /\ reg["es"] = Small(KernelData)
      BY <2>1 DEF UInv, StubOK, SegmentsOK
    <2> QED
      BY <2>3, <2>4, <2>5 DEF Segment
  <1> QED
    BY <1>1, UserInductive, PTL

\* Whatever C does with its own registers, the program goes on with the ones it
\* had, but for the result and those that C may use.
THEOREM ProgramKeeps == UserSpec => []ProgramKeepsRegs
  <1>1. UInv => ProgramKeepsRegs
    BY DEF UInv, RegsOK, ProgramKeepsRegs, Preserved, Reg, General
  <1> QED
    BY <1>1, UserInductive, PTL

\* The gate lets the program in and iret finds the processor's frame: no system
\* call ends in an exception.
THEOREM NoFault == UserSpec => [](mode # "fault")
  <1>1. UInv => mode # "fault"
    BY DEF UInv, UserTypeOK
  <1> QED
    BY <1>1, UserInductive, PTL

\* The tasks' stacks and registers are in order with user mode as well.
THEOREM UserStackOwner == UserSpec => []OwnStack
  BY UserInductive, PTL DEF IInv

THEOREM UserCalleeSaved == UserSpec => []RegsKept
  BY UserInductive, PTL DEF IInv

\* User mode passes the processor to no task out of turn.
THEOREM UserTurns == UserSpec => TakesTurns
  <1>1. UserInit => RR!Init
    BY InitTurns DEF UserInit
  <1>2. IInv /\ [UserNext]_allVars => [RR!Next]_<<next_id - 1, cpu.esp>>
    <2> SUFFICES ASSUME IInv, [UserNext]_allVars
                 PROVE  [RR!Next]_<<next_id - 1, cpu.esp>>
      OBVIOUS
    <2>1. CASE [Next]_vars
      BY <2>1, StepTurns
    <2>2. CASE UNCHANGED <<next_id, cpu>>
      BY <2>2
    <2> QED
      BY <2>1, <2>2, UserTasksStep DEF TasksStep
  <1> QED
    BY <1>1, <1>2, UserInductive, PTL DEF UserSpec, RR!Spec, TakesTurns
=============================================================================
