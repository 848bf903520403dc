------------------------------ MODULE PhysMem ------------------------------
(***************************************************************************)
(* The allocator of page frames (mm/physmem.c): a bitmap of words, one bit *)
(* a frame.  The kernel calls phys_init only; the other two are driven by  *)
(* callers that give back what they got, at any address inside the frame,  *)
(* and sometimes 0 or an address beyond the memory.                        *)
(***************************************************************************)
EXTENDS PageSize, FiniteSetsExt

CONSTANTS
    WordBits,       \* Frames told by one word of the bitmap (32).
    Words,          \* Words of the bitmap.
    KernelEnd       \* The address behind the kernel's image.

ASSUME PhysAssumption ==
    /\ {WordBits, Words, KernelEnd} \subseteq Nat \ {0}
    /\ KernelEnd <= PAGE_SIZE * WordBits * Words

VARIABLES
    frame_bitmap,   \* The set bits of each word.
    owners          \* How many callers hold each frame.

physVars == <<frame_bitmap, owners>>

MAX_FRAMES == WordBits * Words
Frame == 0 .. MAX_FRAMES - 1
Word == 0 .. Words - 1
Bit == 0 .. WordBits - 1
NoFrame == MAX_FRAMES       \* (uint32_t)-1

set_frame(bitmap, frame) ==
    [bitmap EXCEPT ![frame \div WordBits] = @ \cup {frame % WordBits}]
clear_frame(bitmap, frame) ==
    [bitmap EXCEPT ![frame \div WordBits] = @ \ {frame % WordBits}]

\* Mutant of Candidates: the search for a word with a free bit stops a
\* word too early.
CandidatesShort == {i \in Word : frame_bitmap[i] # Bit /\ i < Words - 1}

\* The words that are not 0xFFFFFFFF.
Candidates == {i \in Word : frame_bitmap[i] # Bit}

first_free_frame ==
    IF Candidates = {} THEN NoFrame
    ELSE LET i == Min(Candidates)
         IN  i * WordBits + Min(Bit \ frame_bitmap[i])

\* The end of the kernel, rounded up to a frame.
Reserved == 0 .. ((KernelEnd + PAGE_SIZE - 1) \div PAGE_SIZE) - 1

phys_init ==
    /\ frame_bitmap = [i \in Word |-> {b \in Bit : i * WordBits + b \in Reserved}]
    /\ owners = [f \in Frame |-> 0]

\* The address of a frame; 0 when there is none.
phys_alloc_frame ==
    IF first_free_frame = NoFrame THEN UNCHANGED physVars
    ELSE /\ frame_bitmap' = set_frame(frame_bitmap, first_free_frame)
         /\ owners' = [owners EXCEPT ![first_free_frame] = @ + 1]

\* Address 0 and what lies beyond the bitmap are ignored.
phys_free_frame(addr) ==
    LET frame == addr \div PAGE_SIZE
    IN  IF addr = 0 \/ frame \notin Frame THEN UNCHANGED physVars
        ELSE /\ frame_bitmap' = clear_frame(frame_bitmap, frame)
             /\ owners' = [owners EXCEPT ![frame] = 0]

Held == {f \in Frame : owners[f] > 0}

-----------------------------------------------------------------------------
PhysTypeOK ==
    /\ frame_bitmap \in [Word -> SUBSET Bit]
    /\ owners \in [Frame -> Nat]

\* No frame is given to two callers, and none that holds a byte of the kernel;
\* so no caller gets frame 0, whose address means "none".
FramesApart ==
    \A f \in Frame :
        /\ owners[f] <= 1
        /\ owners[f] = 1 => f * PAGE_SIZE >= KernelEnd

\* "Out of memory" is said only when every frame behind the kernel is held.
NoFrameLost ==
    first_free_frame = NoFrame =>
        \A f \in Frame : f * PAGE_SIZE >= KernelEnd => f \in Held

\* The bitmap accounts for every frame.
FramesAccounted == PhysTypeOK /\ FramesApart /\ NoFrameLost
=============================================================================
