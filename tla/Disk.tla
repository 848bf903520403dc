-------------------------------- MODULE Disk --------------------------------
(***************************************************************************)
(* Block devices (fs/blockdev.c): the ATA driver (drivers/ata_pio.c) with  *)
(* the disk it polls, the RAM disk (fs/ramdisk.c), and the commands that   *)
(* read and write a sector (shell/shell.c).  The driver is executed one    *)
(* port access at a time; the disk works in between, at its own pace, and  *)
(* any sector may fail.  Nothing may be written to it while it is busy.    *)
(*                                                                         *)
(* A sector is a few words; a word is told by the text it belongs to, the  *)
(* place of the sector in its transfer, and its own place in the sector.   *)
(***************************************************************************)
EXTENDS Naturals, Sequences

CONSTANTS
    Sectors,        \* Sectors of the disk, and the heap's room for a RAM disk.
    Words,          \* Words of a sector (SECTOR_SIZE / 2).
    CountMax,       \* The most sectors of one command (255).
    Base,           \* Values of one LBA register (256; 16 for the fourth).
    UINT32, UINT64, \* Values of the integer types.
    RamSizes,       \* Sizes of a RAM disk, in words.
    Typed,          \* The numbers typed behind the commands.
    Requests        \* Other callers' pairs of first sector and count.

\* No caller asks for a sector whose offset in bytes is beyond 64 bits.
ASSUME DiskAssumption ==
    /\ {Sectors, Words, CountMax, Base, UINT32, UINT64} \subseteq Nat \ {0}
    /\ RamSizes \subseteq Nat
    /\ Typed \subseteq Nat /\ Requests \subseteq Nat \X Nat
    /\ Base * Base * Base * Base <= UINT32
    /\ UINT32 * Words < UINT64
    /\ \A r \in Requests : (r[1] + r[2]) * Words < UINT64

VARIABLES
    g_root_dev,     \* The root device: its name, and its size in words.
    disk,           \* The root device's sectors.
    dev,            \* The registers of the disk, and what it is doing.
    call,           \* The call in progress: its place and its variables.
    buf,            \* The caller's buffer.
    overrun,        \* History: a call wrote to the disk while it was busy, or
                    \* a RAM disk was larger than its block of the heap.
    named           \* History: the sectors that calls asked to be written.

diskVars == <<g_root_dev, disk, dev, call, buf, overrun, named>>

Sector == 0 .. Sectors - 1
Index == 0 .. Words - 1
LbaLimit == Base * Base * Base * Base       \* 0x0FFFFFFF + 1
Ok == 0
Error == 1      \* -1

NoDev == [name |-> "none", size |-> 0]
NoWord == <<"none", 0, 0>>
NoData == [k \in 0 .. Sectors * Words - 1 |-> NoWord]
Free == [at |-> "none", ret |-> Ok, op |-> "none", lba |-> 0, count |-> 0,
         asked |-> 0, k |-> 0]
Idle == [bsy |-> FALSE, drq |-> FALSE, err |-> FALSE, op |-> "none", lba |-> 0, left |-> 0,
         data |-> <<>>,
         regs |-> [r \in {"CTRL", "HDDEVSEL", "SECCOUNT0", "LBA0", "LBA1", "LBA2"} |-> 0]]

\* Words of a sector: as they are at first, and as a call writes them.
Old(x) == [i \in 1 .. Words |-> <<"old", x, i - 1>>]
New(s) == [i \in 1 .. Words |-> <<"new", s, i - 1>>]

DiskInit ==
    /\ g_root_dev = NoDev
    /\ disk = [x \in Sector |-> Old(x)]
    /\ dev = Idle
    /\ call = Free
    /\ buf = NoData
    /\ overrun = FALSE
    /\ named = {}

-----------------------------------------------------------------------------
(* The root device *)

\* "just assume disk present"; its size is not looked at again.
ata_pio_init == [name |-> "ata0", size |-> Sectors * Words]

\* What may come back: the heap can have no room for the device or for its
\* block, and then there is none.  The block is asked for by a size cut to
\* 32 bits.
ramdisk_create(size) ==
    {NoDev} \cup
    {d \in {[name |-> "ram0", size |-> size]} : size % UINT32 <= Sectors * Words}

\* The zeroes of a RAM disk larger than its block go past it.
blockdev_set_root(d) ==
    /\ g_root_dev' = d
    /\ overrun' = (d.size > Sectors * Words)
    /\ UNCHANGED <<disk, dev, call, buf, named>>

\* kernel_main makes the ATA disk the root; the lines that make it a RAM disk
\* are there, as a comment.
Attach ==
    /\ call = Free
    /\ \E d \in {ata_pio_init} \cup UNION {ramdisk_create(size) : size \in RamSizes} :
          blockdev_set_root(d)

-----------------------------------------------------------------------------
(* Calls *)

Quiet == call.at \in {"none", "done"}

Returns(op, lba, count, ret) ==
    /\ call' = [at |-> "done", ret |-> ret, op |-> op, lba |-> lba, count |-> count,
                asked |-> count, k |-> 0]
    /\ UNCHANGED dev

\* Mutant of Cut: the count goes to the driver as it is.
CutNot(count) == count

Cut(count) == IF count > CountMax THEN CountMax ELSE count

\* ata_block_read and ata_block_write; the count goes on in eight bits.
AtaCall(op, lba, count) ==
    LET sectors == Cut(count) % (CountMax + 1)
    IN  IF lba >= LbaLimit /\ count # 0 THEN Returns(op, lba, count, Error)
        ELSE IF sectors = 0 THEN Returns(op, lba, count, Ok)
        ELSE /\ call' = [at |-> "out", ret |-> Ok, op |-> op, lba |-> lba,
                         count |-> sectors, asked |-> count, k |-> 1]
             /\ UNCHANGED dev

\* Mutant of Offset: computed in 32 bits.
OffsetNarrow(lba) == (lba * Words) % UINT32

Offset(lba) == (lba * Words) % UINT64

\* ramdisk_read and ramdisk_write: all of it or nothing.
RamCall(op, lba, count) ==
    LET first == Offset(lba) \div Words
        fits == (Offset(lba) + count * Words) % UINT64 <= g_root_dev.size
    IN  /\ Returns(op, lba, count, IF fits THEN Ok ELSE Error)
        /\ disk' = IF fits /\ op = "write"
                   THEN [x \in Sector |-> IF x \in first .. first + count - 1
                                          THEN New(x - first) ELSE disk[x]]
                   ELSE disk
        /\ buf' = IF fits /\ op = "read"
                  THEN [k \in DOMAIN NoData |-> IF k < count * Words
                            THEN disk[first + (k \div Words)][(k % Words) + 1] ELSE NoWord]
                  ELSE NoData

Call(op, lba, count) ==
    /\ Quiet
    /\ named' = IF op = "write" THEN named \cup (lba .. lba + count - 1) ELSE named
    /\ \/ g_root_dev.name = "ata0" /\ AtaCall(op, lba, count) /\ buf' = NoData /\ UNCHANGED disk
       \/ g_root_dev.name = "ram0" /\ RamCall(op, lba, count)
    /\ UNCHANGED <<g_root_dev, overrun>>

\* The digits are read into 32 bits; one sector is read or written.
cmd_diskread == \E n \in Typed : Call("read", n % UINT32, 1)
cmd_diskwrite == \E n \in Typed : Call("write", n % UINT32, 1)

Other == \E r \in Requests, op \in {"read", "write"} : Call(op, r[1], r[2])

-----------------------------------------------------------------------------
(* The driver *)

\* The digits of the sector's number, the last in the fourth register.
Digit(lba, j) ==
    CASE j = 1 -> lba % Base
      [] j = 2 -> (lba \div Base) % Base
      [] j = 3 -> (lba \div (Base * Base)) % Base
      [] j = 4 -> (lba \div (Base * Base * Base)) % Base

\* The port writes before a command, in their order.
Setup ==
    <<[reg |-> "CTRL", value |-> 0],
      [reg |-> "HDDEVSEL", value |-> Digit(call.lba, 4)], [reg |-> "SECCOUNT0", value |-> call.count],
      [reg |-> "LBA0", value |-> Digit(call.lba, 1)], [reg |-> "LBA1", value |-> Digit(call.lba, 2)],
      [reg |-> "LBA2", value |-> Digit(call.lba, 3)]>>

Outb ==
    /\ call.at = "out" /\ call.k <= Len(Setup)
    /\ dev' = [dev EXCEPT !.regs[Setup[call.k].reg] = Setup[call.k].value]
    /\ call' = [call EXCEPT !.k = @ + 1]
    /\ overrun' = (overrun \/ dev.bsy)
    /\ UNCHANGED <<g_root_dev, disk, buf, named>>

\* The disk starts with what its registers hold.
Command ==
    /\ call.at = "out" /\ call.k > Len(Setup)
    /\ dev' = [dev EXCEPT !.bsy = TRUE, !.drq = FALSE, !.err = FALSE, !.op = call.op,
                          !.lba = dev.regs["LBA0"] + Base * (dev.regs["LBA1"]
                               + Base * (dev.regs["LBA2"] + Base * dev.regs["HDDEVSEL"])),
                          !.left = dev.regs["SECCOUNT0"], !.data = <<>>]
    /\ call' = [call EXCEPT !.at = "busy", !.k = 0]
    /\ overrun' = (overrun \/ dev.bsy)
    /\ UNCHANGED <<g_root_dev, disk, buf, named>>

\* Mutant of Ready: an error does not end the second loop.
ReadyDrq == dev.drq

Ready == dev.drq \/ dev.err

\* ata_wait: the first loop ends with a status that is not busy, which may
\* end the second one as well.
ata_wait ==
    /\ \/ call.at = "busy" /\ ~dev.bsy
       \/ call.at = "ready" /\ Ready
    /\ call' = IF ~Ready THEN [call EXCEPT !.at = "ready"]
               ELSE IF dev.err THEN [call EXCEPT !.at = "done", !.ret = Error]
               ELSE [call EXCEPT !.at = "words"]
    /\ UNCHANGED <<g_root_dev, disk, dev, buf, overrun, named>>

\* After a sector's last word the driver waits for the next sector, or is done.
Advance ==
    call' = [call EXCEPT !.k = @ + 1,
                !.at = IF (call.k + 1) % Words # 0 THEN "words"
                       ELSE IF (call.k + 1) \div Words = call.count THEN "done" ELSE "busy"]

\* Mutant of Place: every sector goes to the start of the buffer.
PlaceFirst(k) == k % Words

Place(k) == k

Inw ==
    /\ call.at = "words" /\ call.op = "read"
    /\ buf' = [buf EXCEPT ![Place(call.k)] = Head(dev.data)]
    /\ dev' = IF Len(dev.data) > 1 THEN [dev EXCEPT !.data = Tail(@)]
              ELSE [dev EXCEPT !.data = <<>>, !.drq = FALSE, !.bsy = dev.left > 0]
    /\ Advance
    /\ UNCHANGED <<g_root_dev, disk, overrun, named>>

Outw ==
    /\ call.at = "words" /\ call.op = "write"
    /\ LET data == Append(dev.data, New(call.k \div Words)[(call.k % Words) + 1])
       IN  dev' = [dev EXCEPT !.data = data, !.drq = Len(data) < Words, !.bsy = Len(data) = Words]
    /\ Advance
    /\ UNCHANGED <<g_root_dev, disk, buf, overrun, named>>

Driver == Outb \/ Command \/ ata_wait \/ Inw \/ Outw

-----------------------------------------------------------------------------
(* The disk *)

Fail ==
    /\ dev.bsy
    /\ dev' = [dev EXCEPT !.bsy = FALSE, !.err = TRUE, !.op = "none", !.data = <<>>]
    /\ UNCHANGED <<g_root_dev, disk, call, buf, overrun, named>>

\* The next sector is ready to be read.
Fetch ==
    /\ dev.bsy /\ dev.op = "read" /\ dev.lba \in Sector
    /\ dev' = [dev EXCEPT !.bsy = FALSE, !.drq = TRUE, !.data = disk[dev.lba],
                          !.lba = @ + 1, !.left = @ - 1]
    /\ UNCHANGED <<g_root_dev, disk, call, buf, overrun, named>>

\* The disk takes the words of the first sector.
Accept ==
    /\ dev.bsy /\ dev.op = "write" /\ dev.data = <<>> /\ dev.lba \in Sector
    /\ dev' = [dev EXCEPT !.bsy = FALSE, !.drq = TRUE]
    /\ UNCHANGED <<g_root_dev, disk, call, buf, overrun, named>>

\* A sector is on the disk; the words of the next one are welcome, if it is
\* there.
Commit ==
    /\ dev.bsy /\ dev.op = "write" /\ dev.data # <<>>
    /\ disk' = [disk EXCEPT ![dev.lba] = dev.data]
    /\ dev' = [dev EXCEPT !.bsy = dev.left > 1 /\ dev.lba + 1 \notin Sector,
                          !.drq = dev.left > 1 /\ dev.lba + 1 \in Sector,
                          !.lba = @ + 1, !.left = @ - 1, !.data = <<>>]
    /\ UNCHANGED <<g_root_dev, call, buf, overrun, named>>

Works == Fetch \/ Accept \/ Commit

-----------------------------------------------------------------------------
\* The disk was told something while it was busy, and what it makes of it is
\* its own business; or the heap was overwritten.  The model ends there.
DiskNext ==
    /\ ~overrun
    /\ \/ Attach
       \/ cmd_diskread \/ cmd_diskwrite \/ Other
       \/ Driver
       \/ Works \/ Fail

DiskSpec == DiskInit /\ [][DiskNext]_diskVars

\* The processor runs the driver, and a disk that is busy comes to an end.
DiskFairSpec == DiskSpec /\ WF_diskVars(~overrun /\ Driver) /\ WF_diskVars(~overrun /\ (Works \/ Fail))

-----------------------------------------------------------------------------
(* Properties *)

Transferred == call.at = "done" /\ call.ret = Ok /\ ~overrun

\* The sectors a call transfers when it does not fail: the ATA driver takes
\* the first of a request that is too large.
Wanted == IF g_root_dev.name = "ata0" /\ call.asked > CountMax THEN CountMax ELSE call.asked

\* A read without an error has the sectors that were asked for, each in its
\* place.
ReadTrue ==
    Transferred /\ call.op = "read" =>
        \A s \in 0 .. Wanted - 1, i \in Index :
            /\ call.lba + s \in Sector
            /\ buf[s * Words + i] = disk[call.lba + s][i + 1]

\* When the disk is idle after a write that returned without an error, and
\* did not fail, every sector holds what was written.  (The call itself
\* returns before the last sector is on the disk.)
WriteDone ==
    Transferred /\ call.op = "write" /\ ~dev.bsy /\ ~dev.err =>
        \A s \in 0 .. Wanted - 1 :
            /\ call.lba + s \in Sector
            /\ disk[call.lba + s] = New(s)

\* No sector changes but those that a call named, be the call cut short, in
\* error, or of a number too large.
OnlyNamed == ~overrun => \A x \in Sector \ named : disk[x] = Old(x)

\* A call returns, sector errors or not, unless it came while the disk was
\* still busy with the write before, and ata_wait waits for ever.
CallEnds == ~Quiet ~> Quiet \/ overrun
=============================================================================
