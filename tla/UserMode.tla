------------------------------ MODULE UserMode ------------------------------
(***************************************************************************)
(* User mode: the command runuser (shell.c:600), the switch to ring 3      *)
(* (start/user_mode.S), int 0x80 through its stub (cpu/isr.S) to           *)
(* syscall_handler (syscall.c) and back, interrupts and exceptions of the  *)
(* program.                                                                *)
(*                                                                         *)
(* runuser runs in the keyboard's handler and never returns: the tasks are *)
(* left behind where they are (in Tasks the processor is then "dead"), and *)
(* the end of that interrupt is never sent.  The stub is executed one      *)
(* instruction at a time on the stack that the TSS names.  A word is a     *)
(* pair of halves, each told by where it came from.                        *)
(***************************************************************************)
EXTENDS Tasks, Sequences

CONSTANT Number     \* The system call numbers programs use.

VARIABLES
    mode,           \* Where the processor is, once runuser was called.
    ip,             \* The next instruction of the stub.
    reg,            \* The registers.
    stack,          \* The kernel's stack, the top first.
    asked,          \* History: the registers at the last int 0x80.
    inservice       \* The interrupts whose end was not sent.

userVars == <<mode, ip, reg, stack, asked, inservice>>
allVars == <<vars, userVars>>

General == {"eax", "ebx", "ecx", "edx", "esi", "edi", "ebp"}
Segment == {"ds", "es"}
Reg == General \cup Segment

Word(hi, lo) == [hi |-> hi, lo |-> lo]
Small(n) == Word("0", n)
Unknown == Word("?", "?")
Frame == Word("frame", "frame")     \* ss, esp, eflags, cs and eip.

\* The descriptors' selectors that a data segment may hold.
KernelData == "0x10"
UserData == "0x23"
DataSelectors == {KernelData, UserData}

Push(r) == <<"push", r>>
Pop(r)  == <<"pop", r>>
Load(r) == <<"load", r>>
Selector == <<"selector", "eax">>
CallC == <<"call", "eax">>
Drop4 == <<"drop", "eax">>
Iret == <<"iret", "eax">>

\* Mutants of Isr80: the arguments in the order of the prototype; registers
\* restored in the order in which they were saved.
Isr80Args ==
    <<Push("ds"), Push("es"), Selector, Load("ds"), Load("es"),
      Push("ebp"), Push("edi"), Push("esi"), Push("ebx"),
      Push("eax"), Push("ebx"), Push("ecx"), Push("edx"), CallC, Drop4,
      Pop("ebx"), Pop("esi"), Pop("edi"), Pop("ebp"), Pop("es"), Pop("ds"), Iret>>
Isr80Swapped ==
    <<Push("ds"), Push("es"), Selector, Load("ds"), Load("es"),
      Push("ebp"), Push("edi"), Push("esi"), Push("ebx"),
      Push("edx"), Push("ecx"), Push("ebx"), Push("eax"), CallC, Drop4,
      Pop("ebx"), Pop("edi"), Pop("esi"), Pop("ebp"), Pop("es"), Pop("ds"), Iret>>

\* isr80_syscall; the selector in ax goes to ds and es before the pushes.
Isr80 ==
    <<Push("ds"), Push("es"), Selector, Load("ds"), Load("es"),
      Push("ebp"), Push("edi"), Push("esi"), Push("ebx"),
      Push("edx"), Push("ecx"), Push("ebx"), Push("eax"), CallC, Drop4,
      Pop("ebx"), Pop("esi"), Pop("edi"), Pop("ebp"), Pop("es"), Pop("ds"), Iret>>

-----------------------------------------------------------------------------
(* Into user mode *)

\* What the program has in its registers.
Program == [r \in Reg |-> IF r \in Segment THEN Small(UserData) ELSE Word(r, r)]

UserInit ==
    /\ Init
    /\ mode = "none"
    /\ ip = 1
    /\ reg = Program /\ asked = Program
    /\ stack = <<>>
    /\ inservice = {}

Kernel == Next /\ UNCHANGED userVars

\* The user's selectors, and iret to ring 3 with interrupts on.
switch_to_user_mode ==
    /\ mode' = "program"
    /\ reg' = Program
    /\ asked' = Program

\* The handler does not come back: irq_handler_c's end of interrupt is behind.
runuser ==
    /\ mode = "none"
    /\ CommandHalts
    /\ switch_to_user_mode
    /\ inservice' = {"keyboard"}
    /\ UNCHANGED <<ip, stack>>

\* Mutant of Ended: no end of interrupt for an interrupt of the program.
EndedNever(set) == set

\* The end of interrupt does not say of which: it is that of the highest.
Ended(set) == set \ (IF "timer" \in set THEN {"timer"} ELSE {"keyboard"})

\* An interrupt waits for one in service whose priority is not lower.
Blocked(i) == \E j \in inservice : j = i \/ j = "timer"

\* The handler runs on the TSS's stack; pusha and popa keep the registers.
IrqInUser(i) ==
    /\ mode = "program"
    /\ i \in pending /\ ~Blocked(i)
    /\ pending' = pending \ {i}
    /\ inservice' = Ended(inservice \cup {i})
    /\ UNCHANGED <<current, task_head, next_id, next, regs, frame, cpu,
                   mode, ip, reg, stack, asked>>

\* Every exception prints a line and halts with interrupts off.
Exception ==
    /\ mode = "program"
    /\ mode' = "halted"
    /\ UNCHANGED <<vars, ip, reg, stack, asked, inservice>>

-----------------------------------------------------------------------------
(* System calls *)

\* Mutant of GateDpl: the gate is made like those of the interrupts (0x8E).
GateDplZero == 0

\* An interrupt gate (0xEE) that ring 3 may use.
GateDpl == 3

\* The stack that the TSS names for ring 0.
Esp0 == <<>>

\* The program puts the number and the arguments into the registers.  The gate
\* clears the interrupt flag.
Int80(num) ==
    /\ mode = "program"
    /\ asked' = [Program EXCEPT !["eax"] = Small(num)]
    /\ reg' = asked'
    /\ IF GateDpl = 3 THEN mode' = "stub" /\ stack' = <<Frame>> \o Esp0
                      ELSE mode' = "fault" /\ UNCHANGED stack
    /\ ip' = 1
    /\ UNCHANGED <<vars, inservice>>

Instr(op) == mode = "stub" /\ Isr80[ip][1] = op
Operand == Isr80[ip][2]
Step == ip' = ip + 1 /\ UNCHANGED <<vars, mode, asked, inservice>>

\* A segment register takes the selector of a data segment, or the processor
\* raises an exception.
Receive(r, word) ==
    IF r \in General \/ word.lo \in DataSelectors
    THEN Step /\ reg' = [reg EXCEPT ![r] = word]
    ELSE mode' = "fault" /\ UNCHANGED <<vars, ip, reg, asked, inservice>>

StubPush ==
    /\ Instr("push") /\ Step
    /\ stack' = <<reg[Operand]>> \o stack
    /\ UNCHANGED reg

StubPop ==
    /\ Instr("pop")
    /\ Receive(Operand, Head(stack))
    /\ stack' = Tail(stack)

\* mov $0x10, %ax: ax is the lower half of eax.
StubSelector ==
    /\ Instr("selector") /\ Step
    /\ reg' = [reg EXCEPT !["eax"].lo = KernelData]
    /\ UNCHANGED stack

StubLoad ==
    /\ Instr("load")
    /\ Receive(Operand, Small(reg["eax"].lo))
    /\ UNCHANGED stack

\* The switch over num.
Answer(num) ==
    CASE num = Small("SYS_PUTS") -> Small("0")
      [] num = Small("SYS_GET_TICKS") -> Word("ticks", "ticks")
      [] OTHER -> Word("-1", "-1")

\* eax is the result; ecx, edx and the arguments on the stack are C's own and
\* hold anything afterwards.
syscall_handler ==
    /\ Instr("call") /\ Step
    /\ reg' = [reg EXCEPT !["eax"] = Answer(Head(stack)), !["ecx"] = Unknown, !["edx"] = Unknown]
    /\ stack' = [i \in DOMAIN stack |-> IF i <= 4 THEN Unknown ELSE stack[i]]

StubDrop ==
    /\ Instr("drop") /\ Step
    /\ stack' = SubSeq(stack, 5, Len(stack))
    /\ UNCHANGED reg

\* Anything but the processor's own frame on top is an exception.
StubIret ==
    /\ Instr("iret")
    /\ mode' = IF Head(stack) = Frame THEN "program" ELSE "fault"
    /\ stack' = Esp0
    /\ UNCHANGED <<vars, ip, reg, asked, inservice>>

InStub ==
    \/ StubPush \/ StubPop \/ StubSelector \/ StubLoad \/ syscall_handler \/ StubDrop
    \/ StubIret

-----------------------------------------------------------------------------
UserNext ==
    \/ Kernel
    \/ runuser
    \/ \E i \in Irqs : IrqInUser(i)
    \/ Exception
    \/ \E num \in Number : Int80(num)
    \/ InStub

UserSpec == UserInit /\ [][UserNext]_allVars

\* As in Tasks; and the processor goes on in the stub, and takes the program's
\* interrupts between its instructions, of which it never runs out.
UserFairSpec ==
    /\ UserSpec
    /\ SF_allVars(Instruction /\ UNCHANGED userVars)
    /\ WF_allVars(Raise("timer") /\ UNCHANGED userVars)
    /\ \A i \in Irqs :
          SF_allVars(irq_handler_c(i) /\ UNCHANGED userVars) /\ SF_allVars(IrqInUser(i))
    /\ WF_allVars(InStub)

-----------------------------------------------------------------------------
(* Properties *)

AtCall == mode = "stub" /\ Isr80[ip] = CallC

\* syscall_handler gets the three arguments in their order on its stack, and
\* runs with the kernel's data segments.
ArgumentsArrive ==
    AtCall =>
        /\ SubSeq(stack, 2, 4) = <<asked["ebx"], asked["ecx"], asked["edx"]>>
        /\ \A s \in Segment : reg[s] = Small(KernelData)

\* The program gets its registers and segments back, whatever C did with its
\* own, but for the result and the two that C may use.
ProgramKeepsRegs ==
    mode = "program" =>
        \A r \in Reg \ {"eax", "ecx", "edx"} : reg[r] = asked[r]

\* A system call always comes back to the program: the gate lets it in, and
\* the stub's pushes and pops leave the processor's frame on top.  The
\* repository's README says that user mode freezes after the first call
\* (README.md:405); no instruction of the stub does that.  What does stop is
\* around it: runuser leaves the tasks and the prompt behind, and the keyboard
\* in service, so that no key is taken any more.
CallReturns == mode \in {"stub", "fault"} ~> mode = "program"

\* The clock goes on in user mode, though runuser never ended its interrupt.
TimerGoesOn ==
    mode = "program" /\ "timer" \in pending ~> "timer" \notin pending \/ mode = "halted"

\* "eax = syscall number" (isr.S:54): syscall_handler gets the number asked for.
NumberArrives == AtCall => Head(stack) = asked["eax"]
=============================================================================
