-------------------------------- MODULE Boot --------------------------------
(***************************************************************************)
(* From power-on to the shell's prompt: kernel_main, fs_bootstrap, and the *)
(* first lines of the shell's task.  Interrupts come on half way           *)
(* (kernel_main.c:282): from then on keys and ticks run their handlers     *)
(* between any two steps, whole commands among them.  A restart at any     *)
(* moment begins again with an empty memory.  Some commands never return   *)
(* to what the key interrupted, and the heap may have no room left for the *)
(* shell's task.                                                           *)
(*                                                                         *)
(* The log is that of Log, the filesystem that of Fs.  A handler allocates *)
(* nothing inside a kmalloc of task_create: KHeap is about that.           *)
(***************************************************************************)
EXTENDS FsCwd, Log

CONSTANTS
    SHELL_INPUT_MAX,
    HEAP_TEST,          \* Sizes of kernel_main's and task_create's blocks.
    TASK_SIZE, STACK_SIZE,
    Command,            \* What a line can spell: each member of Char a command.
    MaxKeys             \* Bound on the keys struck after a start.

\* The names and messages of the script are names and messages; the heap's sums
\* do not wrap; a name has no terminator in it.
ASSUME BootAssumption ==
    /\ {"boot", "task", "name", "shell", "cmd", "fs"} \subseteq Msg
    /\ {"bin", "home", "etc", "var", "log", "root", "student", "motd", "readme",
        "sentinel", "demo"} \subseteq Name
    /\ "demo" \in RawName
    /\ NoMsg \notin Name \cup RawName \cup {RootName}
    /\ 1 \in TextLen
    /\ \A size \in {HEAP_TEST, TASK_SIZE, STACK_SIZE} :
          size \in Nat /\ size + KHEAP_SIZE < UINT32
    /\ SHELL_INPUT_MAX \in Nat \ {0}

VARIABLES
    pc,                 \* The step of Script that is next.
    iflag,              \* The interrupt flag.
    ready,              \* The parts that have been initialised.
    timer_ticks,        \* 0, or 1 for every later tick.
    input,              \* input_buffer, up to input_len.
    seen,               \* History: what the screen shows of the line,
    cut,                \* whether shell_init emptied the buffer meanwhile,
    wiped,              \* and whether console_clear emptied the screen.
    mode,               \* Who gets the keys, and whether the boot goes on.
    failed,             \* task_create found no room: there is no task.
    cwdbuf,             \* The static buffer of fs_getcwd.
    prompt,             \* shell_run's prompt: the name to print next, those
                        \* printed, and, as history, the path asked for and
                        \* whether a command came in between.
    keys

bootVars == <<pc, iflag, ready, timer_ticks, input, seen, cut, wiped, mode, failed,
              cwdbuf, prompt, keys>>
fsVars == vars
lineVars == <<input, seen, cut, wiped>>
allVars == <<bootVars, fsVars, logVars>>

Part == {"log", "gdt", "idt", "paging", "phys", "heap", "sec", "key", "disk", "fs",
         "irq", "timer", "syscall", "keyboard", "tasks"}

\* What the handlers of the timer and of the keyboard use.
Handled == {"log", "gdt", "idt", "heap", "sec", "key", "fs", "irq", "timer", "keyboard"}

\* The keys go to the shell, or to the editor, whose text is empty or not.  The
\* processor has stopped, or a user's program runs: the code that was
\* interrupted never goes on.
Mode == {"shell", "empty", "text", "halted", "user"}
Editing == mode \in {"empty", "text"}
Gone == mode \in {"halted", "user"}

End == NoMsg            \* The terminator of the buffer's string.
BufIndex == 1 .. (CwdMax + 1)

-----------------------------------------------------------------------------
(* The script: what is called, in this order *)

Abs(comps) == [abs |-> TRUE, comps |-> comps]
Rel(comps) == [abs |-> FALSE, comps |-> comps]

Call(op, arg) == <<[op |-> op, arg |-> arg]>>
Do(op)     == Call(op, NoMsg)
Mkdir(nm)  == Call("mkdir", Rel(<<nm>>))
Write(nm)  == Call("write", Rel(<<nm>>))
Cd(comps)  == Call("chdir", Abs(comps))

\* A part is initialised, and says so on the screen and in the log.
Stage(part) == Call("init", part) \o Do("sleep") \o Call("note", "boot") \o Do("sleep")

\* Mutant of fs_bootstrap: it does not come back from /var.
BootstrapStays ==
    Cd(<<>>) \o Do("sentinel")
    \o Mkdir("bin") \o Mkdir("home") \o Mkdir("etc") \o Mkdir("var")
    \o Cd(<<"var">>) \o Mkdir("log") \o Mkdir("root") \o Mkdir("student") \o Cd(<<>>)
    \o Cd(<<"etc">>) \o Write("motd") \o Cd(<<>>)
    \o Cd(<<"home", "root">>) \o Write("readme") \o Cd(<<>>)
    \o Cd(<<"home", "student">>) \o Write("readme") \o Cd(<<>>)
    \o Write("sentinel") \o Cd(<<>>)

fs_bootstrap ==
    Cd(<<>>) \o Do("sentinel")
    \o Mkdir("bin") \o Mkdir("home") \o Mkdir("etc") \o Mkdir("var")
    \o Cd(<<"var">>) \o Mkdir("log") \o Cd(<<>>)
    \o Cd(<<"home">>) \o Mkdir("root") \o Mkdir("student") \o Cd(<<>>)
    \o Cd(<<"etc">>) \o Write("motd") \o Cd(<<>>)
    \o Cd(<<"home", "root">>) \o Write("readme") \o Cd(<<>>)
    \o Cd(<<"home", "student">>) \o Write("readme") \o Cd(<<>>)
    \o Write("sentinel") \o Cd(<<>>)

\* Its last line, the task's name, is logged of a task only.
task_create == Call("alloc", TASK_SIZE) \o Call("alloc", STACK_SIZE)
               \o Call("note", "task") \o Call("note", "name")

\* The part of kernel_main before the filesystem.
Early ==
    Call("init", "log") \o Call("note", "boot")
    \o Call("init", "gdt") \o Call("note", "boot") \o Do("sleep") \o Stage("idt")
    \o Stage("paging") \o Stage("phys") \o Stage("heap")
    \o Call("kmalloc", HEAP_TEST) \o Call("note", "boot")
    \o Stage("sec") \o Stage("key") \o Call("init", "disk")

\* Its part from there to the interrupts.
Drivers ==
    Do("sleep") \o Stage("irq") \o Stage("timer") \o Call("init", "syscall")
    \o Do("sleep") \o Stage("keyboard") \o Call("note", "boot") \o Do("sleep")

Installs == Early \o Do("fs_init") \o Stage("fs") \o fs_bootstrap \o Drivers

\* Mutant of Script: interrupts come on before the keyboard's handler is there.
ScriptEarly ==
    SubSeq(Installs, 1, Len(Installs) - 6) \o Do("sti") \o Call("init", "keyboard")

\* The rest of kernel_main, scheduler_start, and shell_thread up to the prompt.
Threads ==
    Call("init", "tasks") \o Call("note", "task") \o Call("note", "boot")
    \o Do("clear") \o Call("note", "boot") \o task_create \o Call("note", "boot")
    \o Call("note", "task") \o Do("start") \o Call("note", "name")
    \o Do("shell_init") \o Call("note", "shell") \o Call("note", "shell")

Script == Installs \o Do("sti") \o Threads \o Do("ask") \o Do("print")

Running == pc > Len(Script)         \* The shell waits for keys.
At(op) == ~Running /\ Script[pc].op = op
Arg == Script[pc].arg

NoPrompt == [next |-> 1, printed |-> <<>>, path |-> <<>>, moved |-> FALSE]

\* _start: interrupts are off, and all memory is as the loader leaves it.
BootInit ==
    /\ pc = 1 /\ iflag = FALSE /\ ready = {} /\ timer_ticks = 0
    /\ input = <<>> /\ seen = <<>> /\ cut = FALSE /\ wiped = FALSE
    /\ mode = "shell" /\ failed = FALSE
    /\ cwdbuf = [i \in BufIndex |-> End] /\ prompt = NoPrompt
    /\ keys = 0
    /\ heap_offset = 0 /\ nodes = {} /\ fs_root = NULL /\ fs_cwd = NULL
    /\ name = [n \in HeapAddr |-> RootName] /\ is_dir = [n \in HeapAddr |-> FALSE]
    /\ data = [n \in HeapAddr |-> NoText] /\ parent = [n \in HeapAddr |-> NULL]
    /\ kids = [n \in HeapAddr |-> <<>>]
    /\ snaps = <<>> /\ clone = NoClone /\ ret = Ok /\ out = NoText
    /\ LogInit

-----------------------------------------------------------------------------
(* The steps of the script *)

LineSame == UNCHANGED <<lineVars, mode>>
Same == LineSame /\ UNCHANGED <<iflag, ready, timer_ticks, failed, cwdbuf, prompt, keys>>

InitPart ==
    /\ At("init")
    /\ pc' = pc + 1
    /\ ready' = ready \cup {Arg}
    /\ LineSame /\ UNCHANGED <<iflag, timer_ticks, failed, cwdbuf, prompt, keys,
                               fsVars, logVars>>

\* There is no name to log where there is no task.
Nameless == Arg = "name" /\ failed

\* log_event, a step at a time.
NoteBegin ==
    /\ At("note") /\ ~Nameless
    /\ LogBegin(Arg)
    /\ UNCHANGED <<bootVars, fsVars>>

NoteSkip ==
    /\ At("note") /\ Nameless /\ writer.at = "out"
    /\ pc' = pc + 1
    /\ Same /\ UNCHANGED <<fsVars, logVars>>

NoteStep ==
    /\ LogStep
    /\ pc' = IF writer'.at = "out" THEN pc + 1 ELSE pc
    /\ Same /\ UNCHANGED fsVars

\* Mutant of sleep_ticks: it waits for ticks also before there are any.
SleepHlt ==
    /\ At("sleep")
    /\ iflag
    /\ pc' = pc + 1
    /\ Same /\ UNCHANGED <<fsVars, logVars>>

\* Before the first tick sleep_ticks counts in a loop; later it stops the
\* processor until ticks have come, which takes interrupts.
sleep_ticks ==
    /\ At("sleep")
    /\ timer_ticks = 0 \/ iflag
    /\ pc' = pc + 1
    /\ Same /\ UNCHANGED <<fsVars, logVars>>

Sti ==
    /\ At("sti")
    /\ pc' = pc + 1
    /\ iflag' = TRUE
    /\ LineSame /\ UNCHANGED <<ready, timer_ticks, failed, cwdbuf, prompt, keys,
                               fsVars, logVars>>

\* kernel_main's test of the heap: a block that is never looked at again.
Kmalloc ==
    /\ At("kmalloc")
    /\ pc' = pc + 1
    /\ heap_offset' = IF Fits(heap_offset, Arg) THEN OffsetAfter(heap_offset, Arg)
                      ELSE heap_offset
    /\ Same /\ UNCHANGED <<tree, fs_root, fs_cwd, snaps, clone, ret, out, logVars>>

fs_init ==
    /\ At("fs_init")
    /\ pc' = pc + 1
    /\ Fits(heap_offset, NODE_SIZE)
    /\ fs_root' = PtrAt(heap_offset) /\ fs_cwd' = fs_root'
    /\ nodes' = {fs_root'}
    /\ is_dir' = [is_dir EXCEPT ![fs_root'] = TRUE]
    /\ parent' = [parent EXCEPT ![fs_root'] = fs_root']
    /\ heap_offset' = OffsetAfter(heap_offset, NODE_SIZE)
    /\ Same /\ UNCHANGED <<name, data, kids, snaps, clone, ret, out, logVars>>

\* fs_bootstrap's calls, whose results it does not look at.
Bootstrap ==
    /\ \/ At("mkdir") /\ fs_mkdir(Arg)
       \/ At("write") /\ fs_write(Arg, 1)
       \/ At("chdir") /\ fs_chdir(Arg)
    /\ pc' = pc + 1
    /\ Same /\ UNCHANGED logVars

\* A filesystem with the sentinel is left as it is.
Sentinel ==
    /\ At("sentinel")
    /\ fs_read(Rel(<<"sentinel">>))
    /\ pc' = IF ret' = Ok THEN pc + Len(fs_bootstrap) - 2 ELSE pc + 1
    /\ Same /\ UNCHANGED logVars

\* kmalloc in task_create, which goes no further where it finds no room.
TaskAlloc ==
    /\ At("alloc")
    /\ pc' = pc + 1
    /\ failed' = (failed \/ ~Fits(heap_offset, Arg))
    /\ heap_offset' = IF failed' THEN heap_offset ELSE OffsetAfter(heap_offset, Arg)
    /\ LineSame /\ UNCHANGED <<iflag, ready, timer_ticks, cwdbuf, prompt, keys,
                               tree, fs_root, fs_cwd, snaps, clone, ret, out, logVars>>

\* What was echoed goes off the screen, and stays in the input buffer.
console_clear ==
    /\ At("clear")
    /\ pc' = pc + 1
    /\ seen' = <<>>
    /\ wiped' = (input # <<>>) /\ cut' = FALSE
    /\ UNCHANGED <<iflag, ready, timer_ticks, input, mode, failed, cwdbuf, prompt, keys,
                   fsVars, logVars>>

\* Without a task the processor waits here for ever, in the handlers only.
scheduler_start ==
    /\ At("start")
    /\ ~failed
    /\ pc' = pc + 1
    /\ Same /\ UNCHANGED <<fsVars, logVars>>

-----------------------------------------------------------------------------
(* The shell's task *)

\* Keys typed before this are lost to the command line, though not to the eye.
shell_init ==
    /\ At("shell_init")
    /\ pc' = pc + 1
    /\ input' = <<>>
    /\ cut' = (seen # <<>>) /\ wiped' = FALSE
    /\ UNCHANGED <<iflag, ready, timer_ticks, seen, mode, failed, cwdbuf, prompt, keys,
                   fsVars, logVars>>

\* Mutant of Filled: the terminator is not copied.
FilledOpen(path) ==
    [i \in BufIndex |-> IF i <= Len(path) THEN path[i] ELSE cwdbuf[i]]

\* The static buffer after fs_getcwd.
Filled(path) ==
    [i \in BufIndex |-> IF i <= Len(path) THEN path[i]
                        ELSE IF i = Len(path) + 1 THEN End ELSE cwdbuf[i]]

\* shell_print_prompt's call of fs_getcwd, which returns the buffer.
PromptBegin ==
    /\ At("ask")
    /\ pc' = pc + 1
    /\ cwdbuf' = Filled(fs_getcwd)
    /\ prompt' = [NoPrompt EXCEPT !.path = fs_getcwd]
    /\ LineSame /\ UNCHANGED <<iflag, ready, timer_ticks, failed, keys,
                               fsVars, logVars>>

\* console_write goes through it, with interrupts on.
PromptChar ==
    /\ At("print")
    /\ IF cwdbuf[prompt.next] = End
       THEN pc' = pc + 1 /\ prompt' = prompt
       ELSE /\ pc' = pc
            /\ prompt' = [prompt EXCEPT !.next = @ + 1,
                                        !.printed = Append(@, cwdbuf[prompt.next])]
    /\ LineSame /\ UNCHANGED <<iflag, ready, timer_ticks, failed, cwdbuf, keys,
                               fsVars, logVars>>

BootStep ==
    /\ ~Gone
    /\ \/ InitPart \/ NoteBegin \/ NoteSkip \/ NoteStep \/ sleep_ticks \/ Sti \/ Kmalloc
       \/ fs_init \/ Bootstrap \/ Sentinel \/ TaskAlloc \/ console_clear
       \/ scheduler_start \/ shell_init \/ PromptBegin \/ PromptChar

-----------------------------------------------------------------------------
(* The handlers *)

\* The timer's handler draws the status bar once in 100 ticks.
TimerIrq ==
    /\ iflag
    /\ timer_ticks' = 1
    /\ cwdbuf' \in {cwdbuf, Filled(fs_getcwd)}
    /\ LineSame /\ UNCHANGED <<pc, iflag, ready, failed, prompt, keys,
                               fsVars, logVars>>

Key ==
    /\ iflag
    /\ keys < MaxKeys
    /\ keys' = keys + 1
    /\ UNCHANGED <<pc, ready, timer_ticks, failed>>

\* Mutant of KeyChar: what does not fit is shown all the same.
KeyCharShown(c) ==
    /\ Key
    /\ mode = "shell"
    /\ input' = IF Len(input) < SHELL_INPUT_MAX - 1 THEN Append(input, c) ELSE input
    /\ seen' = Append(seen, c)
    /\ UNCHANGED <<iflag, cut, wiped, mode, cwdbuf, prompt, fsVars, logVars>>

\* shell_keypress: a character that fits is kept and shown.
KeyChar(c) ==
    /\ Key
    /\ mode = "shell"
    /\ IF Len(input) < SHELL_INPUT_MAX - 1
       THEN input' = Append(input, c) /\ seen' = Append(seen, c)
       ELSE UNCHANGED <<input, seen>>
    /\ UNCHANGED <<iflag, cut, wiped, mode, cwdbuf, prompt, fsVars, logVars>>

\* The cell before the cursor is blanked, also where the line is not on the
\* screen any more.
KeyBackspace ==
    /\ Key
    /\ mode = "shell"
    /\ input' = IF input = <<>> THEN input ELSE Front(input)
    /\ seen' = IF input = <<>> \/ seen = <<>> THEN seen ELSE Front(seen)
    /\ UNCHANGED <<iflag, cut, wiped, mode, cwdbuf, prompt, fsVars, logVars>>

\* shell_execute: the commands that matter here, and what they log.
Executed ==
    \/ /\ input = <<>>
       /\ UNCHANGED <<mode, fsVars, logVars>>
    \/ /\ input = <<"m">>
       /\ fs_mkdir(Rel(<<"demo">>))
       /\ LogInIrq(<<"shell", "cmd", "fs">>)
       /\ UNCHANGED mode
    \/ /\ input = <<"d">>
       /\ \E comps \in {<<>>, <<"home", "root">>} : fs_chdir(Abs(comps))
       /\ LogInIrq(<<"shell", "cmd">>)
       /\ UNCHANGED mode
    \/ /\ input = <<"e">>
       /\ mode' = "empty"
       /\ LogInIrq(<<"shell", "cmd">>)
       /\ UNCHANGED fsVars
    \/ /\ Len(input) > 1
       /\ LogInIrq(<<"shell", "cmd">>)
       /\ UNCHANGED <<mode, fsVars>>

\* The Enter key runs the whole line in the handler, and prints the prompt,
\* unless the line has started the editor.
KeyEnter ==
    /\ Key
    /\ mode = "shell"
    /\ Executed
    /\ input' = <<>> /\ seen' = <<>> /\ cut' = FALSE /\ wiped' = FALSE
    /\ IF mode' = "shell"
       THEN cwdbuf' = Filled(fs_getcwd') /\ prompt' = [prompt EXCEPT !.moved = TRUE]
       ELSE UNCHANGED <<cwdbuf, prompt>>
    /\ UNCHANGED iflag

\* A command that never returns: exit and panic stop the processor with
\* interrupts off, runuser goes to a program with interrupts on, where this key
\* is still in service and no other comes.
KeyLeave ==
    /\ Key
    /\ mode = "shell"
    /\ input = <<"x">>
    /\ \/ /\ mode' = "halted" /\ iflag' = FALSE
          /\ LogInIrq(<<"shell", "cmd">>)
       \/ /\ mode' = "user" /\ iflag' = iflag
          /\ LogInIrq(<<"shell", "cmd", "shell">>)
    /\ UNCHANGED <<lineVars, cwdbuf, prompt, fsVars>>

\* editor_handle_key.  The text has room for one character here: Shell has the
\* editor in full.
KeyEdit ==
    /\ Key
    /\ Editing
    /\ mode' \in {"empty", "text"}
    /\ UNCHANGED <<iflag, lineVars, cwdbuf, prompt, fsVars, logVars>>

\* The editor's ESC: the text is saved, or not, and the prompt printed.
KeyEscape ==
    /\ Key
    /\ Editing
    /\ IF mode = "empty" THEN fs_touch(Rel(<<"demo">>)) ELSE fs_write_cwd("demo", 1)
    /\ mode' = "shell"
    /\ cwdbuf' = Filled(fs_getcwd')
    /\ prompt' = [prompt EXCEPT !.moved = TRUE]
    /\ UNCHANGED <<iflag, lineVars, logVars>>

Irq ==
    \/ TimerIrq \/ KeyBackspace \/ KeyEnter \/ KeyLeave \/ KeyEdit \/ KeyEscape
    \/ \E c \in Command : KeyChar(c)

ColdStart ==
    /\ pc' = 1 /\ iflag' = FALSE /\ ready' = {} /\ timer_ticks' = 0
    /\ input' = <<>> /\ seen' = <<>> /\ cut' = FALSE /\ wiped' = FALSE
    /\ mode' = "shell" /\ failed' = FALSE
    /\ cwdbuf' = [i \in BufIndex |-> End] /\ prompt' = NoPrompt
    /\ keys' = 0
    /\ log_buf' = [s \in Slot |-> Whole(NoMsg)] /\ log_head' = 0 /\ log_count' = 0
    /\ writer' = NotWriting /\ events' = <<>> /\ disturbed' = FALSE

\* Nothing is ever written to the disk: a restart starts from nothing.
Restart ==
    /\ ColdStart
    /\ heap_offset' = 0 /\ nodes' = {} /\ fs_root' = NULL /\ fs_cwd' = NULL
    /\ name' = [n \in HeapAddr |-> RootName] /\ is_dir' = [n \in HeapAddr |-> FALSE]
    /\ data' = [n \in HeapAddr |-> NoText] /\ parent' = [n \in HeapAddr |-> NULL]
    /\ kids' = [n \in HeapAddr |-> <<>>]
    /\ snaps' = <<>> /\ clone' = NoClone /\ ret' = Ok /\ out' = NoText

BootNext == BootStep \/ Irq \/ Restart

\* The processor goes on, and the timer goes on ticking.
BootSpec == BootInit /\ [][BootNext]_allVars /\ WF_allVars(BootStep)

-----------------------------------------------------------------------------
(* Properties *)

\* An interrupt never finds a part of the kernel missing that its handler
\* uses: the order of kernel_main keeps all of them before line 282.
HandlersReady == iflag => Handled \subseteq ready

\* The input buffer and the screen agree about the line being typed, but for
\* the two times that the boot touches one of them only: of a line begun before
\* shell_init the buffer has the end, and of one begun before console_clear the
\* screen does, so that an Enter before shell_init can execute what is not
\* seen.  The line leaves a byte for its terminator.
LineAsSeen ==
    /\ Len(input) < SHELL_INPUT_MAX
    /\ IF cut THEN IsSuffix(input, seen)
       ELSE IF wiped THEN IsSuffix(seen, input)
       ELSE input = seen

File(path) == [path |-> path, is_dir |-> FALSE, data |-> Crypt(Plain(1))]
Dir(path) == [path |-> path, is_dir |-> TRUE, data |-> NoText]

\* "Auto-Created FS (first boot)" (README.md:279-292), and what it leaves out.
Layout ==
    {Dir(<<>>), Dir(<<"bin">>), Dir(<<"home">>), Dir(<<"home", "root">>),
     Dir(<<"home", "student">>), Dir(<<"etc">>), File(<<"etc", "motd">>),
     Dir(<<"var">>), Dir(<<"var", "log">>),
     File(<<"home", "root", "readme">>), File(<<"home", "student", "readme">>),
     File(<<"sentinel">>)}

\* When interrupts come on, the tree is the one of the first boot, after every
\* restart too: the sentinel is never found, and nothing the user made is left.
FirstFiles == At("sti") => View(fs_root) = Layout /\ fs_cwd = fs_root

\* The first prompt shows the current directory, unless a command came while
\* it was printed: the status bar refills the buffer that is being read.
PromptIsCwd == Running /\ ~prompt.moved => prompt.printed = prompt.path

\* No task could be made, since the heap had no room left for one.
TaskLess == At("start") /\ failed /\ ~Fits(heap_offset, TASK_SIZE + STACK_SIZE)

\* Unless the machine is started again for ever, the shell's loop is reached,
\* whatever is typed meanwhile, except that a command that never returns ends
\* the boot where it stands, and that without room for the shell's task there
\* is none.
BootEnds == []<>(Running \/ Gone \/ TaskLess) \/ []<><<Restart>>_allVars
=============================================================================
