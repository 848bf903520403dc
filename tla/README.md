# A TLA+ model of the Hypnos kernel

Hypnos is a small 32-bit x86 kernel: it boots, sets up paging, a heap, a
filesystem in memory, interrupts, a cooperative scheduler, and runs a shell
with a text editor on a text console. This directory holds a model of it:
modules that describe what the code under `src/kernel` does, configurations
that let TLC check them on small instances, and theorems that TLAPS checks for
every value of the constants. Line numbers below are those of the source.

## 1. The system

### How it runs

There is one processor, and almost everything happens in interrupt handlers.
`kernel_main` initialises the parts one after another with interrupts off,
executes `sti` (kernel_main.c:282), creates the shell's task and starts the
scheduler. The shell's task prints a prompt and then sleeps in `hlt` for ever.
A key runs `keyboard_callback` in the handler of IRQ 1, which calls
`shell_keypress`; the Enter key executes the whole command there, interrupts
off, on the stack of whatever task was interrupted. The timer's handler draws
the status bar once a second. So there are three kinds of concurrency:

* handlers against boot code and tasks, between any two instructions that run
  with interrupts on;
* tasks against tasks, only where they call `task_yield`;
* the devices (timer, keyboard, screen cursor) against all of these.

A command is atomic towards tasks and other handlers. What is hard about it is
not interleaving but the long sequences of commands, and the points where it
fails half way because the heap, which is never freed, is used up.

### Components

| Component | State | Operations | Hard | What makes it correct |
|---|---|---|---|---|
| Kernel heap (`mm/kmalloc.c`) | `heap_offset` | `kmalloc` | called at boot with interrupts on and from handlers; 32-bit sum | blocks lie in the heap and are disjoint |
| Filesystem (`fs/fs.c`, `crypto.c`) | tree of nodes, `fs_root`, `fs_cwd`, list of snapshots | the calls of `fs.h` | links kept twice by hand, heap exhaustion, snapshots that become live, moves | trees stay trees and apart, names unique, contents encrypted once, failures leave the tree alone |
| Scheduler (`sched/task.c`, `context_switch.S`) | ring of tasks, `current`, saved contexts | create, start, yield | interrupts at every instruction, the flag across a switch, hand-made contexts | ring, stacks, registers and flag survive; nobody starves |
| Timer and interrupt dispatch (`irq.c`, `irq.S`, `timer.c`) | handler table, ticks | stub, dispatch, end of interrupt | a handler that does not return | interrupts are taken and end |
| Keyboard (`drivers/keyboard.c`) | four modifier flags | one scancode per interrupt | the driver lags behind the user; releases; losses | the character meant is the one delivered; a loss does not last |
| Console (`console.h`) | screen, hardware cursor behind two ports, a cursor per source file | `console_putc`, scroll, clear, status bar | shared screen, private cursors, four port writes per cursor | cursors and text stay off the status row |
| Shell (`shell/shell.c`) | the line being typed | about 30 commands | permission per command; `cd ..` by text | commands do what they say, and only with permission |
| Editor (`shell/editor.c`) | name, text, active flag | type, erase, ESC | saves by name at the end | what was typed is in the file |
| Users (`security.c`) | current user | login, permission test | many callers | no change without the permission |
| Audit log (`log.c`) | ring of 128 lines | `log_event`, `log_dump` | written from tasks and handlers without a lock | lines are whole and in order, and damage does not last |
| Physical memory (`physmem.c`) | bitmap of frames | alloc, free | boundaries of words and frames, a full bitmap | no frame is handed out twice or lost |
| Paging (`paging.c`) | page directory and tables | map, unmap, set user | the processor's cache between store and flush; wrap-around at 4 GB | the map is what was asked for, and nothing older is in use |
| System calls, user mode (`syscall.c`, `isr.S`, `user_mode.S`, `tss.c`) | registers, the kernel's stack, interrupts in service | `int 0x80`, entry to ring 3 | registers through a stub; a handler left for good | arguments arrive, registers come back, calls return |
| Exceptions, tables (`isr.c`, `idt.c`, `gdt.c`) | IDT, GDT | exceptions halt | bit layout | what user mode needs of them |
| Block devices (`ata_pio.c`, `ramdisk.c`, `blockdev.c`) | root device | read, write sectors | a disk that works at its own pace, may fail, may still be busy | what is read is there, what is written gets there and nowhere else |
| Boot (`kernel_main.c`, `fs_bootstrap.c`) | order of initialisation, first files | none | interrupts on half way; restarts | handlers find what they need; the boot ends |

`PROJECT.json` lists the same components with what is modelled of each, and the
hazards of the code, each at its line, with the properties that cover it.

### How the components interact

* keyboard → shell or editor → filesystem → heap, by calls inside one handler;
* program → stub of `int 0x80` → `syscall_handler` → console, timer; the
  keyboard's handler → `switch_to_user_mode`, and never back;
* shell → root device → ATA driver ↔ disk, by polling;
* timer → shell's status bar → filesystem (`fs_getcwd`), users, console;
* boot and scheduler → heap, while handlers may already use it;
* shell, editor, users, filesystem, log → console, each with its own cursor;
* scheduler ↔ handlers, through the interrupt flag and the stack in use.

## 2. The modules

### KMalloc, KHeap: the heap (proofs in MemoryProofs)

`KMalloc` is the arithmetic of `kmalloc`: the test in 32 bits (`Fits`), the
address and the new offset. `Fs` uses it for every allocation it makes.
`KHeap` adds who calls it when: `KmallocBegin` is boot code up to the store of
`heap_offset`, `KmallocEnd` the store, and `KmallocInIrq` a handler's whole
call, which may come between the two once `Sti` has happened. `blocks` and
`raced` are history variables.

`BlocksDisjoint` says that blocks do not overlap unless a handler allocated
inside a boot-time `kmalloc`; `BlocksInHeap` holds even then. That the
exception is a real one (two blocks at one address) is what its antecedent
`~raced` says: without it TLC finds the overlap.

### Fs, FsTrees, FsViews, MCFs, FsDocs: the filesystem (proofs in Lemmas, FsProofs, TreeProofs, FsTreesProofs)

In `Fs` a node is its heap address, and `name`, `is_dir`, `data`, `parent` are
its fields; the list from `child` along `sibling` is the sequence `kids[d]`.
`heap_offset` is the real one, so that every operation can fail where the code
finds no room, after the steps it had already made (`NewFile` links the node
before it allocates the buffer, as fs.c:200-253 does). There is one action per
function of `fs.h` that changes state, with its early returns as the second
disjunct. `fs_clone_tree` is recursive; `clone.todo` is its stack, one action
is one call, and no other action is enabled until `SnapCreateEnd`. Paths are
records: absolute or not, and the components. Contents are a length and
whether they are encrypted.

`FsTrees` is the abstract specification: trees as functions from paths to what
is there, one of them live, and the current directory as a path. Nodes, links,
the heap, the key and the steps of a copy do not appear in it. It promises only
what the code keeps: a failing write may leave an empty file (`MakeHalf`), a
directory moved below itself is gone (`Lose`), a saved tree may lack a part
(`Save`), and a restored snapshot changes with the live tree from then on
(`Restore`). While the current directory is in no tree, what relative paths
lead to is unknown, and may be moved back into the tree (`Recover`).

`FsViews` adds what a user sees: the paths below a root (`Descents`), what they
hold (`View`), and the mapping under which `Fs` implements `FsTrees`
(`KeepsFsTrees`): the trees are read off the nodes by walking down from the
roots, and a text is its length once it has been decrypted. `MCFs` has the sets of paths for TLC. `FsDocs` holds
statements of the documentation that the code does not keep (section 4).

### FsCwd, Shell, MCShell: sessions (proofs in FsProofs, TreeProofs, FsTreesProofs)

`FsCwd` is `fs_getcwd`: names on the way up, until the buffer is full
(`CwdMax` components stand for 127 characters). `Shell` puts users, the
commands and the editor on top of `Fs`: each command is the filesystem's
operation behind the permission that `shell_execute` asks for; `cd ..` edits
the text of the path as `cmd_cd` does; the editor's state is its name and the
length of its text, and `editor_save_file` takes the name as a path or
literally as the code does. A command is one step, enabled only at the prompt
and between snapshots.

### Tasks, RoundRobin: the scheduler (proofs in TasksProofs)

`Tasks` has the processor's registers as far as the switch handles them: place
in the code, stack, interrupt flag, and the callee-saved registers as one
value. `task_yield` is cut where an interrupt can come: the body up to the
`cli`, the `cli`, `switch_task`, the `sti`. A pending interrupt is taken
before the next instruction if the flag is set (`At`), and a handler is one
step that restores every register. A handler may also never return
(`CommandHalts`: `exit`, `panic`).

`RoundRobin` is the abstract specification: tasks are made, then take turns
in that order. `TakesTurns` says that `Tasks` implements it, with the stack in
use as the task whose turn it is; `current` would be wrong for that, since it
changes before the `cli` (task.c:99).

### UserMode: programs and system calls (proofs in TasksProofs)

`UserMode` extends `Tasks`: `runuser` is a command that never returns to the
tasks (in `Tasks` a `CommandHalts`), but leaves the processor in ring 3 with
the keyboard's interrupt still in service. A program is any sequence of
`int 0x80`, exceptions and interrupts. `Isr80` is the stub as a list of
instructions (isr.S:66-97), which `StubPush`, `StubPop`, `StubSelector`,
`StubLoad`, `StubDrop` and `StubIret` execute one at a time on `stack`;
`syscall_handler` leaves in the registers and argument slots that C may use
anything at all. A word is a pair of halves, since `mov $0x10, %ax` writes one
of them. `inservice` and `Ended` are the interrupt controller's side of
`irq_handler_c`.

### Log, Boot: from power-on to the prompt (proofs in BootProofs)

`Log` is the ring of `log.c`. Outside the handlers `log_event` is cut at each
store (`LogBegin` to `StoreCount`; which variable is in a register meanwhile
follows the compiled code); a handler's call is one step, `LogInIrq`. `events`
is the history that the ring is compared with.

`Boot` runs `Script`, the calls of `kernel_main` in their order (`Early` before
the filesystem, `Drivers` from there to the `sti`, `Installs` both with the
filesystem between them, `Threads` the rest), on top of `Log`,
`Fs` and `FsCwd`: a part is initialised (`InitPart`), a line is logged
(`NoteBegin`, `NoteStep`), `sleep_ticks` waits, `fs_bootstrap` makes the first
directories and files by the real operations of `Fs`. `console_clear` empties
the screen, with interrupts on; `TaskAlloc` is the task's two blocks, and
`failed` that one of them did not fit, after which there is no name to log
(`NoteSkip`) and `scheduler_start` has nothing to start. `shell_init` and the
first prompt (`PromptBegin`, `PromptChar`) end the boot.

After `Sti` keys and ticks come between any two steps. The Enter key executes a
whole command (`Executed`: `mkdir`, `cd`, the start of the editor, or one that
only logs), or one that never returns (`KeyLeave`: `exit` and `panic` stop the
processor, `runuser` leaves for ring 3). `mode` says who gets the keys, the
shell or the editor (`KeyEdit`, `KeyEscape`; its text is empty or not, `Shell`
has it in full), and whether the boot goes on (`Gone`). `seen` is what the
screen shows of the line, `cut` and `wiped` that `shell_init` or
`console_clear` emptied one of the two. `Restart` may come at any moment, again
and again; memory starts anew, and nothing else was kept.

### PageSize, PhysMem, Paging, Memory, MCMemory (proofs in MemoryProofs)

`PhysMem` is the bitmap of frames, word by word, as `physmem.c` searches it;
`owners` is a history of who holds what. `Paging` is `paging.c`: the tables
for the lower half of the addresses, each change a store (`Change`,
`RangeStore`) and a later flush (`Invlpg`, `RangeFlush`), and `tlb`, which the
processor fills and empties at will (`Cache`, `Evict`). Addresses wrap at
`Space` as they do at 2^32. `Memory` composes the two with an external caller
who maps the frames it got and unmaps a frame before giving it back; no code of
the repository does so yet.

### Disk, MCDisk: block devices (proofs in DriverProofs)

The ATA driver, one port access a step (`Outb`, `Command`, `ata_wait`, `Inw`,
`Outw`), against the disk (`Fetch`, `Accept`, `Commit`, `Fail`), which is
external and modelled by what the driver's polling assumes of it. `ata_wait`'s
two loops are the places `busy` and `ready` of `call.at`. A device is a name
and a size; the first calls choose the root device (`Attach`, before any
transfer and as often as one likes), the ATA disk as `kernel_main` does or a
RAM disk as the lines in its comment would (kernel_main.c:211-213).
`ramdisk_create` may come back without a device, when the heap has no room for
either of its two blocks, and asks for a block of a size cut to 32 bits, which
may then be smaller than the disk. The RAM disk is one step a call. `overrun`
records that the driver wrote to a disk that was busy with the write before, or
that a RAM disk is larger than its block: what happens then is up to the disk,
or to what lies behind the block, and the model ends there.

### Keyboard (proofs in DriverProofs)

Scancodes wait in a queue, because commands run with interrupts off; each
carries what the user meant by it, as a history value. What the queue has no
room for is lost, and `lost` remembers of which modifiers. `keyboard_callback`
takes a scancode and changes the four flags, or delivers a character.

### Console (proofs in DriverProofs)

Each source file has the cursor of its own copy of `console.h`. `kernel_main`
prints with interrupts on, so that its `console_putc` is cut into steps, down
to the four port writes of `vga_set_hw_cursor` (`PortStep`); handlers write
with whole calls in between, through other files' cursors. `draw_status` is
the bar of the shell and of the editor. `mixed` records that a handler came
between the port writes.

## 3. What the runs check

All bounds are constants of the `.cfg` files. Sizes in the filesystem are
scaled down: a node or a snapshot record takes one unit of the heap, and a text
its length plus one, so that the heap of 5 to 11 units is used up in every
run, and each way of failing happens.

| Run | Instance | Properties |
|---|---|---|
| `KHeap` | 8 units, requests of 1, 2, 4, a sum that wraps at 32 | `BlocksDisjoint`, `BlocksInHeap` |
| `FsSnap` | one name, two snapshots, 7 units | `TreesApart`, `SnapshotIsolation` |
| `FsCopy` | one name in the current directory, one snapshot, 11 units | `EncryptedAtRest`, `SnapshotFaithful` |
| `Shell` | both users, paths of two names from here and one from the root, an editor's name with a slash, 5 units, directories down to depth 3, of which `CwdMax` = 2 fit | `ShellTypeOK` (with `TypeOK` and `DirsAreDirs` of `Fs`), `WellLinked`, `UniqueNames`, `KeepsFsTrees` (`Fs` implements `FsTrees`), `PwdIsCwd`, `ReadersOnlyAdd`, `SavedAsTyped`, `CdUpDropsLastName` |
| `UserMode` | up to three tasks, the second of which never sleeps; a program with two system calls | `OwnStack`, `RegsKept`, `TakesTurns`, `KeyHandled`, `EveryTaskRuns`, `ArgumentsArrive`, `ProgramKeepsRegs`, `CallReturns`, `TimerGoesOn` |
| `Keyboard` | a letter, a digit, a key without a character, one shift, ctrl, alt, caps; two scancodes waiting, the next ones lost | `NoStuckModifier`, `MeantIsTyped` |
| `Console` | 2 columns, 2 rows of content and the bar, three files, cursor bytes of 3 values | `CursorInContent`, `BarRowReserved` |
| `Boot` | the whole script of `kernel_main`, 4 keys after each start, restarts without a bound, a log of 3 lines, an input line of 2 characters, a heap of 25 units, of which a directory or a file made meanwhile leaves too few for the task | `LogHeals`, `HandlersReady`, `LineAsSeen`, `FirstFiles`, `PromptIsCwd`, `BootEnds` |
| `Memory` | 8 pages of 2 bytes, 4 of them with entries, 4 frames in 2 words | `FramesAccounted`, `NoStaleTranslation`, `RangeExact` |
| `Disk` | 3 sectors of 2 words, counts cut at 2, numbers of 4 digits of base 2; RAM disks of a part of the heap's room, of all of it, and of more than the heap's size type can say | `ReadTrue`, `WriteDone`, `OnlyNamed`, `CallEnds` |

Why these bounds are enough to be interesting:

* Links, names and lists go wrong with three nodes (a parent, a child, its
  sibling) and a fourth to move; `Shell` has room for the root and three
  more, with names taken and free at every level.
* Two snapshots, either of which may be live, give every constellation of
  "live, saved, left behind", with moves of the current directory into all of
  them. `FsCopy` has room for a file with its text and for a whole copy of
  both, and with other texts for any part of a copy.
* A ring of three tasks is the smallest in which the order of insertion shows.
* Two waiting scancodes are a key and a release behind a modifier that the
  driver has seen; with them in the queue, any third one is lost.
* The console scrolls after two rows and wraps after two columns; a position
  takes two bytes from the end of the second row on, so that halves of two cursors differ.
* A log of three lines wraps many times during one boot, and a handler's
  `mkdir` writes three lines at once, all of the ring. Four keys are a command
  that is typed, executed, and followed by another.
* A word of two bits has a first and a last bit; two words have a last word.
  The caller's addresses lie inside a page, in two tables, and beyond them; the
  ranges are inside, over the end of the tables, empty, and over the end of
  the address space.
* Requests of no, one, as many sectors as one command takes, and more; sector
  numbers whose digits differ, that fall outside the disk, and that wrap.

Deadlock is checked in every run but `Disk`. A machine that has stopped for
good (`exit`, `panic`, a heap that is used up) still has a step: an interrupt
that is raised, a call that fails, or, in `Boot`, being started again. `Disk` really may stop: when a command is
given to a disk that is still busy with the write before, `ata_wait` may poll
for ever.

### Fairness

Three specifications have liveness properties.

`UserMode` (with the properties of `Tasks`): `UserFairSpec` assumes that the
program goes on (`SF` of `Instruction`), that the timer ticks again and again
(`WF` of `Raise("timer")`), that each interrupt is taken if the flag is set
again and again (`SF` of `irq_handler_c` and of `IrqInUser`), and that the
processor goes on in the stub (`WF` of `InStub`). Strong fairness is needed
because an instruction and a pending interrupt disable each other; it is
justified because the timer has 100 ticks a second (timer.c:33-43), which
leaves time for instructions and for the lower-priority keyboard between two
of them, and because the processor takes a pending interrupt at the first
boundary with the flag set. Nothing is assumed about the user or the program:
the keyboard may stay silent, and a program need not make calls.

`Boot`: `WF` of `BootStep`. A handler disables it for good only where it never
returns, and `scheduler_start` only where there is no task; `BootEnds` names
both as ends of the boot. That the timer ticks is part of `sleep_ticks`, which
is enabled when interrupts are on. Nothing is assumed of restarts: a machine
that is started again for ever need not get to a prompt.

`Disk`: `WF` of the driver, which the processor runs, and of a disk that is
busy, which comes to an end with data or with an error. Nothing else of the
disk is assumed, not even that it ever succeeds.

## 4. Where the code and its documentation differ

Each of these runs checks one property that states what a comment or the help
text says, and TLC refutes it with what the code does.

| Run | Statement | What happens |
|---|---|---|
| `FsMove` | `mv` moves a file or directory (shell.c:525) | a directory moved below itself is out of reach, and `mv` succeeds (fs.c:478) |
| `SyscallNumber` | eax is the number of the system call (isr.S:54) | the lower half of it is the kernel's data selector when it is pushed (isr.S:69, 81): every call arrives as number 16, which does not exist |

Other differences show in the models' definitions; no run is spent on them.

* Filesystem: `fs_snap_create` returns 0, "ok" (fs.h:25), for a copy that lacks
  files or texts, when the heap ran out (`fs_clone_tree`). `touch` fails for a
  file that exists, though the help text says "create/update file"
  (`fs_touch`). A restored snapshot becomes the live tree itself and changes
  with it (`fs_snap_restore`). `pwd` prints a path that is not there after the
  current directory was removed (`fs_getcwd`). The README calls the filesystem
  persistent (README.md:394); it is in RAM, and `FirstFiles` says that every
  start makes it anew.
* Shell: a comment has it that "cd.." should go up and "cd .." should not
  (shell.c:310). Both do: the test below the comment compares the argument with
  "..", which is what is left of either (shell.c:561-564). Without the branch
  "cd .." would fail, as `fs_resolve` takes ".." for a name.
  `cmd_cd_up` is what the code does, and `CdUpDropsLastName` says where it
  leads, not that both commands should lead there. Where the path does not fit
  the buffer of `fs_getcwd`, its end is taken for a path from the root
  (fs.c:332): `cd ..` then fails, or goes to another directory that has this
  path. `CdUpDropsLastName` covers these cases by what `pwd` shows, and speaks
  of the parent only where the path is whole.
  Keys typed before `shell_init` are shown, but not part of the line; keys typed
  before `console_clear` (kernel_main.c:288) are part of the line and no longer
  shown, so that an Enter before `shell_init` executes a line that begins
  unseen (`LineAsSeen`).
* Editor: it is to load existing contents (editor.h:5), and starts empty
  (`editor_start`). It takes a name with a slash literally, so that no path
  reaches the file (`editor_save_file`).
* Console: cursors are to be synced, so that all files agree (console.h:75);
  the hardware cursor cannot hold the column behind the last, and the bar moves
  a cursor from there back onto the last character (`draw_status`).
* Keyboard: with both shift keys down, the release of one turns shift off
  (`Modify`; the run has one shift key).
* System calls: `sys_call3` declares ecx and edx as inputs only
  (user/syscall.h:15-18), but the stub does not restore them
  (`ProgramKeepsRegs` leaves them out).
* User mode: "User mode freezing after first syscall" is in the README's list of
  what is broken (README.md:405). Nothing in the stub or in `syscall_handler`
  does that: `CallReturns` says that every call comes back to the program, under
  the fairness of section 3, and `NoFault` that none ends in an exception. What
  the model has that may look so to a user: every call arrives as number 16
  (`SyscallNumber`), so that `sys_puts` prints nothing but the refusal; the shell's
  task, its prompt and the keyboard stay behind for good, since `runuser` never
  returns to the keyboard's handler and its interrupt is never ended
  (`runuser`, `Blocked`; the timer goes on, `TimerGoesOn`); and an exception
  halts the machine (`Exception`). Which of these the README's line means, it
  does not say.
* Disk: "blocking" (ata_pio.c:69) is not quite so: a write returns before its
  last sector is on the disk (`WriteDone` speaks of the time when it is). A
  request for more than 255 sectors is cut to 255 and reported as done
  (`Wanted` in `ReadTrue` and `WriteDone`).
* Paging: a range that ends in the last page of the address space marks
  nothing (`RangeEnd`); `paging_map` of an address without an entry does
  nothing and cannot say so (`Change`). `phys_init` reserves the kernel's
  image, not the heap behind it (`Reserved`).

## 5. What is proved

The theorems are of the form `Spec => []Inv`, `Spec => [][A]_vars`, or `Spec`
implying an abstract specification, and hold for every value of the constants
that satisfies the named assumptions of the modules:

| Assumption | What it asks, and why the code justifies it |
|---|---|
| `HeapAssumption`, `RequestAssumption`, `FsAssumption` | sizes are positive, the root fits, and no request can wrap the 32-bit sum when added to the heap's size: the heap has 1 MB, and no request of the code comes near 4 GB |
| `ShellAssumption` | the editor's buffer has room for a byte, and what fits into it is a text that can be written |
| `TasksAssumption` | the tasks that sleep are tasks |
| `KeyAssumption` | the modifiers have different scancodes, and none of them has a character |
| `ConsoleAssumption` | at least two columns, a row of content besides the bar and another; a position fits into two bytes; the boot's file and those of the handlers are different ones |
| `CwdAssumption` | the buffer of a path holds some number of components |
| `LogAssumption`, `BootAssumption` | the ring and the input line have room; the script's names are names; its allocations cannot wrap |
| `PageSizeAssumption`, `PhysAssumption`, `PagingAssumption`, `MemoryAssumption` | sizes are positive, the kernel's end is within the memory of the bitmap, and the bitmap has no frame beyond what the tables map |
| `DiskAssumption` | sizes are positive; 28 bits of sector number fit into 32; the offset of a request in bytes fits into 64 bits |

Two theorems have a hypothesis of their own. `MeantTyped` has `[]OneShift`: no
two shift keys are down at once, since the driver has one flag for both
(section 4). `FirstTree` has `Room`: what boot makes fits the heap.

Where a proof needs an induction over the natural numbers, it takes the least
counterexample (`LeastNat` in `Lemmas`, from the library's theorem that a
non-empty set of naturals has a least element), as the induction theorems take
an operator as parameter. So do the statements that a recursive function exists
(`fs_getcwd`).

### FsProofs: filesystem and sessions

With lemmas on sequences in `Lemmas`. For `Fs`: `TypeCorrect`, `Apart`
(`NodesApart`), `TwoWayLinks` (`WellLinked`), `NamesUnique`, `RootsAtTop`
(`RootsUnlisted`), `RootsAreDirs` (`DirsAreDirs`), `Encrypted`
(`EncryptedAtRest`). The structural invariants need each other: a moved node is
listed once because it was in its parent's list before, and a new node is fresh
because all nodes lie below `heap_offset`. A snapshot being copied needs more:
`CloneOK` says that every call on the recursion's stack fills a directory of
its own, and that the names still to be copied differ from those already there,
so that the copy's lists have unique names although nobody checks.

For `Shell`: `SessionTypes` (`ShellTypeOK`), `SessionLinks`, `SessionNames`,
`SessionSealed`, which are the same invariants through every command, `cd ..`
and the editor's literal names included; and `SavesWhole` (`SavedAsTyped`), the
action property of `editor_save_file`: the lookup, the creation of a missing
file and the write are one step, and the theorem says that they are about one
node, and that no other file changes. `SessionOK` is what the session adds to
the invariant.

What `cp` does to a file with a text is in no run's bounds together with the
encryption, since the heap would have to hold both files; the theorems
`Encrypted` and `Apart` cover it.

### TreeProofs: whole trees

These theorems speak of what paths show, before a step and after it, for trees
of every size and depth.

`Descents` is a recursive function on sets of places, whose recursion ends only
because there are finitely many nodes. It is first shown to exist and to be the
set of the ends of walks (`RecursionExists`, `RecursionIsReach`, `Found`): a
walk (`Trails`) is a function from positions to nodes, each listed by the one
before. `WellLinked` gives each node one parent, so that two walks to one node
are the same from there back (`ClimbTogether`, `TwoWalks`, `OneWalk`), no walk
passes a node twice, and none has more steps than there are nodes (`WalksEnd`).

That trees stay apart is not inductive in the form of `TreesApart`: that a
node moved by `fs_rename` is not below a saved root must be known of all that
is below it. `Coloured(col)` gives every node the colour of the directory that
lists it and every root a colour of its own; the current directory has the live
root's, and a copy in progress its own. `TreeInv` says that such a colouring
exists. Each operation reaches only nodes of the live root's colour
(`ResolveColour`, `VacantColour`), and gives what it moves, makes or detaches
the colour it needs (`StepHarmless`). Of it follow `TreesStayApart`
(`TreesApart`) and, since the nodes of a saved colour keep their fields
(`Keep`), `SavedTreesKept` (`SnapshotIsolation`).

`SavedAsItWas` (`SnapshotFaithful`) needs the copy while it is made: `CopyInv`
says that there is a map `src` from the nodes copied so far to their originals
under which the lists, names, kinds and texts agree (`Matches`), and that what
is not copied yet waits on the recursion's stack (`Full`), unless the heap ran
short. `CopyKept` is one call of `fs_clone_tree`. At the end nothing waits, and
walks in the copy and in the live tree correspond (`CopyWalks`, `WalksCopied`).

`PathShown` (`PwdIsCwd`) and `CdUpGoesUp` (`CdUpDropsLastName`) compare three
ways through a tree: up along `parent` as `fs_getcwd` goes (`AscentOfWalk`,
`GetcwdOfWalk`), down by names as `fs_resolve` does (`ResolveSpelled`), and the
walks. For `cd ..` the way down is also read backwards: a path that leads
anywhere spells a walk (`ResolvedWalk`), so that what `fs_getcwd` shows there is
that path again (`CdUpShows`), cut or not. `GuestsOnlyAdd` (`ReadersOnlyAdd`) is what the permission checks of the
shell come to in the tree: a step of a guest adds one file at most, and every
path stays where it was.

### FsTreesProofs: the filesystem implements FsTrees

`FilesystemKeepsTrees` (`Spec => KeepsFsTrees`) and `ShellKeepsTrees`
(`ShellSpec => KeepsFsTrees`, with `cd ..` and the editor): every step is an
abstract call, or does not show.

The abstract trees are functions from paths, and `Fs` has nodes and lists
without an order that matters. Between them is `Tree(P, L, nm, r)`: `P` is the
least set of places, paths with the nodes they lead to, that has the root `r`
and, with a node, all that the lists `L` say it lists, under the names `nm`.
Being the least set gives an induction over one tree (`TreeInduction`), and no
variable of `Fs` occurs in it, so what a call makes of a tree is first proved
of sets: nothing (`TreeSame`), a leaf or a whole part gone (`TreeCut`, and read
backwards `TreeUncut` for one that comes), a part moved (`TreeMoved`, by what
`MovedPath` does to one more component). `Shows(g, P, E)` says that the
function `g` is what the places of `P` hold; `LeafShows`, `CutShows`,
`GainShows` and `MoveShows` carry the change of the set over to the functions
of `FsTrees`.

Then each call has a lemma (`MakesAtVacant`, `RemoveShows`, `OverwriteShows`,
`RelinkShows`, `CloneShows`, `SaveShows`, `RestoreShows`, ...): that only the
live tree changes follows from the colours of `TreeProofs` (`OnlyLiveChanges`),
what it changes to from the tables above, and where the current directory is
then from its place, if it has one. If it has none, a path from it leads to
nodes outside the tree, and the call is `Outside`, `Recover` or `Lose`. For
`Save`, `CopyInv` gives the map from the copy to the original (`RecordShows`).
The invariant is `RefInv`: those of `FsProofs` and `TreeProofs`, and
`SnapsApart`, that two snapshots have neither a name nor a root in common;
without it the name of the live tree would not be well-defined.

### TasksProofs: scheduler and user mode

For `Tasks`: `RingInOrder` (`TaskRing`), `NeverDeaf` (`HltOpen`), `StackOwner`
(`OwnStack`), `CalleeSaved` (`RegsKept`), `TypeCorrect`, and `Turns`:
`Spec => TakesTurns`, the refinement of `RoundRobin`. The inductive invariant
adds what is true of the tasks that are not running (`ParkedRegs`: their saved
stack is their own, a task not yet started has its flag set, and a parked one
holds its own callee-saved registers), that none has run before the scheduler
starts (`Unstarted`), the flag at every place of the code (`Places`), and that
`task_yield`'s variables name the two tasks of the switch (`Switching`).

For `UserMode`: `ArgumentsInOrder` (`ArgumentsArrive`), `ProgramKeeps`
(`ProgramKeepsRegs`), `NoFault`, and the properties of `Tasks` again
(`UserStackOwner`, `UserCalleeSaved`, `UserTurns`). Its invariant `UInv` gives
the depth of the stack before each of the stub's 22 instructions, each word on
it (`StackOK`: the arguments' three slots are C's to overwrite after the call),
the selectors in the segment registers, and which half of eax they have
overwritten (`SegmentsOK`).

### DriverProofs: keyboard, console and disk

`NothingSticks` (`NoStuckModifier`) and `MeantTyped` (`MeantIsTyped`). Nothing
that is true of the driver's flags alone is inductive, since they lag behind
the user. `Trace(f)` lets the flags run ahead through the scancodes that wait;
the invariants compare their end with the keys that are held, and each waiting
character with the flags at its turn.

`ContentCursors` (`CursorInContent`) and `BarKept` (`BarRowReserved`, an action
property). `MineInContent` says where the cursor of `kernel_main` is at each
step of `console_putc`, also behind the last column, `PortsTrue` what the port
writes so far have told the hardware.

`NamedOnly` (`OnlyNamed`), `ReadIsTrue` (`ReadTrue`), `WriteIsDone`
(`WriteDone`), for an ATA driver and a disk that run at their own pace.
`DiskInv` relates the two at every place of the call: which sector the disk
looks for, holds or stores (`Seeking`, `Giving`, `Preparing`, `Taking`,
`Storing`), and which part of the buffer or of the disk is done by then (`Read`,
`Written`). It holds until the driver writes to a disk that is busy
(`overrun`).

### MemoryProofs: heap, frames and translations

For `KHeap`: `TypeCorrect`, `AllInHeap` (`BlocksInHeap`), `NoOverlap`
(`BlocksDisjoint`). `BlocksDisjoint` is not inductive: that a new block is
disjoint from the others follows only from every block's lying below
`heap_offset`, and, for the store that ends a boot-time request, from the
request's still holding the current offset. `HeapInv` adds both, each under
the condition that no handler raced.

For `Memory`: `FramesSafe` (`FramesAccounted`), `TranslationsFresh`
(`NoStaleTranslation`), `RangesExact` (`RangeExact`). `BitmapTrue` ties the
words of the bitmap to the owners; `TlbTrue` says that what is cached is what the tables say, except for
the one page whose flush is to come; `MappedHeld`, that an entry the caller
made leads to a frame it holds; `RangeMarked`, how far
`paging_set_user_for_range` has come.

### BootProofs: log, line, prompt, tree

`LogRecovers` (`LogHeals`): the ring holds the last events whole, except that
the slot being written may cover the oldest (`Kept`), and after a race inside
`log_event` nothing is claimed until `log_head` has been stored (`WriterOK`).
`HandlersSafe` (`HandlersReady`) follows from the order of `Script`.
`LineShown` (`LineAsSeen`): what is executed is what was echoed, or, after
`shell_init`, the end of it; after `console_clear` what is shown is the end of
what is executed. `PromptShown` (`PromptIsCwd`): the status bar's
call of `fs_getcwd` fills the buffer from which the prompt is being printed,
with the same bytes, as long as no command has changed the directory
(`PromptOK`). `BootTree`: the invariants of `Fs` hold from `fs_init` on,
through `fs_bootstrap` and whatever is typed meanwhile; its proof reuses the
lemmas of `FsProofs` for every operation.

`FirstTree` (`FirstFiles`) holds under a hypothesis of its own, `Room`: the
heap holds `kernel_main`'s block, the root and the eleven nodes that
`fs_bootstrap` makes, and the texts of its four files, one character each in
`Boot`. The results of the calls are not looked at, so that without room the
tree is another one; the code's heap has 1 MB, and the run's has room to spare.
A table gives, for the i-th call of `fs_bootstrap`, the call (`Row`), where the
current directory is before it (`Where`), what it makes (`New`, `Made`), what
has been made (`Built`) and how much of the heap at most is taken (`Used`);
`BootstrapIs` says that the script is this table. The invariant `FirstOK` says
that the tree is `Built`, the current directory `Where`, and the heap within
`Used`, at the call that `pc` has come to. Then two lemmas on the calls do the
rest, by the walks of `TreeProofs`: `ChdirGoes`, that a path from the root to a
directory of the tree leads there, and `MakeMakes`, that a new name in the
current directory is one more place of the tree (`GrownByNode`) and no other.
That the sentinel is not found (`FirstSentinel`) is an instance of `NotThere`,
and that one block only was taken from the heap before `fs_init` follows from
the script (`EarlyOnce`).

### Only model-checked

Liveness: `KeyHandled`, `EveryTaskRuns`, `CallReturns`, `TimerGoesOn`,
`BootEnds`, `CallEnds`. TLAPS reasons neither about fairness nor `ENABLED`.
Every invariant and action property of a passing run is proved.

## 6. What is not modelled, and why

* Names longer than 31 characters and paths longer than 127, apart from the
  path of the current directory; how a command line is split into words.
* The cursor of the first prompt, which the shell's task prints with interrupts
  on: a data race on `console_row` and `console_col` whose outcome depends on
  the build. `Console` leaves it out, and says nothing of it. (The prompt's
  path, another race, is in `Boot`.)
* The 0xE0 prefix of extended keys.
* The cost of recursion on a 4 KB stack.
* A command that allocates while `kmalloc` runs at boot: `KHeap` is about that,
  and in `Boot` each block of `task_create` is one step (`TaskAlloc`).
* Commands that only print; colours; the exact text of the status bar and of
  the log's lines; the debug port.
* Descriptor tables, and the values that program the interrupt controller and
  the timer: layout, written once at boot.
* `tss.c` and `map_user_pages.c`, which nothing uses; `user_program.c` beyond
  the calls that it makes.

## 7. The plan

What is left is a bound on the depth of `clone.todo`, if the size of a frame is
ever fixed.

Running `tlc -config <run>.cfg <module>` repeats a run (the module of each is
in `PROJECT.json`), and `tlapm <module>.tla` a proof.
