------------------------------ MODULE BlockPool ------------------------------
(***************************************************************************)
(* The data blocks of the simulated disk and the grouped free list of the  *)
(* superblock: FileSystem::BlockAlloc and FreeBlock, the part of Format    *)
(* that builds the list, and the repair InitFileSystem runs at start-up.   *)
(*                                                                         *)
(* A block address is abstracted to the pair <<group, offset>>:            *)
(* <<i, j>> stands for BLOCK_STARTADDR + (i*BLOCKS_PER_GROUP+j)*BLOCK_SIZE.*)
(* The content of a block is kept as what it reads as when it is taken for *)
(* a stack of free addresses.  The last two variables are not in the code: *)
(* refs counts the inode slots that hold a block (the callers' side), and  *)
(* faults records the two steps after which the list is no longer exact.   *)
(***************************************************************************)
EXTENDS Integers, FiniteSets

CONSTANTS
    NG,       \* number of groups, BLOCK_NUM / BLOCKS_PER_GROUP (32 in the code)
    G,        \* BLOCKS_PER_GROUP (64 in the code)
    W,        \* modulus of s_free_BLOCK_NUM's type (2^32 in the code)
    NIL,      \* the address -1
    WILD,     \* any other number that is no block's address, 0 among them
    Junk,     \* what bytes that are not a stack may read as
    MaxRefs   \* bound: how many inode slots may come to hold one block

ASSUME GroupAssumption == NG \in Nat \ {0} /\ G \in Nat \ {0, 1}
ASSUME WidthAssumption == W \in Nat /\ W > NG * G /\ \E q \in 1 .. W : W = q * G
ASSUME RefsAssumption  == MaxRefs \in Nat \ {0}

Groups == 0 .. NG - 1
Slots  == 0 .. G - 1
Blocks == Groups \X Slots
N      == NG * G                         \* BLOCK_NUM
Addrs  == Blocks \cup {NIL, WILD}
Stacks == [Slots -> Addrs]

ASSUME AddrAssumption == NIL # WILD /\ NIL \notin Blocks /\ WILD \notin Blocks
ASSUME JunkAssumption == Junk # {} /\ Junk \subseteq Stacks

VARIABLES
    sFreeNum,     \* s_free_BLOCK_NUM
    sFreeAddr,    \* s_free_addr, the free-stack pointer
    sFree,        \* s_free, the free stack cached in the superblock
    blockBitmap,  \* the blocks whose bit is 1
    disk,         \* each block's content, read as a stack
    refs,         \* inode slots holding the block
    faults        \* {} until the list stops being exact

pool == <<sFreeNum, sFreeAddr, sFree, blockBitmap>>
vars == <<sFreeNum, sFreeAddr, sFree, blockBitmap, disk, refs, faults>>

TypeOK ==
    /\ sFreeNum \in 0 .. N
    /\ sFreeAddr \in Addrs
    /\ sFree \in Stacks
    /\ blockBitmap \subseteq Blocks
    /\ disk \in [Blocks -> Stacks]
    /\ refs \in [Blocks -> 0 .. MaxRefs]
    /\ faults \subseteq {"fullStackFree", "repair"}

-----------------------------------------------------------------------------
Leader(g)     == <<g, 0>>
NextLeader(g) == IF g = NG - 1 THEN NIL ELSE Leader(g + 1)
Formatted(g)  == [j \in Slots |-> IF j = 0 THEN NextLeader(g) ELSE <<g, j>>]
Zeroed        == [j \in Slots |-> WILD]

\* Seeded fault: the index of the next push instead of the next pop.
TopOffByOne == sFreeNum % G

\* (s_free_BLOCK_NUM - 1) % s_blocks_per_group, in unsigned arithmetic
Top == ((sFreeNum + W - 1) % W) % G

\* Format: every group's leader holds that group's stack, whose entry 0 is the
\* next leader; the superblock is left with the stack of group 0.  The other
\* blocks keep what they held.
FormattedDisk(before) ==
    [b \in Blocks |-> IF b[2] = 0 THEN Formatted(b[1]) ELSE before[b]]

Init ==
    /\ sFreeNum    = N
    /\ sFreeAddr   = Leader(0)
    /\ sFree       = Formatted(0)
    /\ disk        = FormattedDisk([b \in Blocks |-> Zeroed])
    /\ blockBitmap = {}
    /\ refs        = [b \in Blocks |-> 0]
    /\ faults      = {}

Format ==
    /\ sFreeNum'    = N
    /\ sFreeAddr'   = Leader(0)
    /\ sFree'       = Formatted(0)
    /\ disk'        = FormattedDisk(disk)
    /\ blockBitmap' = {}
    /\ refs'        = [b \in Blocks |-> 0]
    /\ faults'      = {}

-----------------------------------------------------------------------------
(* BlockAlloc.  With s_free_BLOCK_NUM = 0 it returns -1 and changes nothing. *)

\* fseek to an address outside the image fails and the read starts wherever
\* the file position is, so it returns anything, or nothing.
ReadStack(a) ==
    IF a \in Blocks THEN {disk[a]}
                    ELSE Junk \cup {disk[b] : b \in Blocks} \cup {sFree}

\* The bitmap write and the caller that keeps the address.  For the address
\* -1 the index is negative and the byte lands outside block_bitmap.
Take(a) ==
    \/ /\ a \in Blocks
       /\ refs[a] < MaxRefs
       /\ blockBitmap' = blockBitmap \cup {a}
       /\ refs' = [refs EXCEPT ![a] = @ + 1]
    \/ /\ a \notin Blocks
       /\ blockBitmap' \in {blockBitmap} \cup
             {blockBitmap \cup {b} : b \in IF a = WILD THEN Blocks ELSE {}}
       /\ UNCHANGED refs

\* Seeded fault: the early return is missing.
AllocFromEmptyStack ==
    /\ Top # 0
    /\ Take(sFree[Top])
    /\ sFree' = [sFree EXCEPT ![Top] = NIL]
    /\ sFreeNum' = sFreeNum - 1
    /\ UNCHANGED <<sFreeAddr, disk, faults>>

AllocFromStack ==
    /\ sFreeNum > 0
    /\ Top # 0
    /\ Take(sFree[Top])
    /\ sFree' = [sFree EXCEPT ![Top] = NIL]
    /\ sFreeNum' = sFreeNum - 1
    /\ UNCHANGED <<sFreeAddr, disk, faults>>

\* Seeded faults: the pointer does not follow the chain; the next stack is read
\* before the pointer moves.
AllocLeaderStaying ==
    /\ sFreeNum > 0
    /\ Top = 0
    /\ Take(sFreeAddr)
    /\ sFree' \in ReadStack(sFree[0])
    /\ sFreeNum' = sFreeNum - 1
    /\ UNCHANGED <<sFreeAddr, disk, faults>>

AllocLeaderReadFirst ==
    /\ sFreeNum > 0
    /\ Top = 0
    /\ Take(sFreeAddr)
    /\ sFree' \in ReadStack(sFreeAddr)
    /\ sFreeAddr' = sFree[0]
    /\ sFreeNum' = sFreeNum - 1
    /\ UNCHANGED <<disk, faults>>

AllocLeader ==
    /\ sFreeNum > 0
    /\ Top = 0
    /\ Take(sFreeAddr)
    /\ sFreeAddr' = sFree[0]
    /\ sFree' \in ReadStack(sFree[0])
    /\ sFreeNum' = sFreeNum - 1
    /\ UNCHANGED <<disk, faults>>

-----------------------------------------------------------------------------
(* FreeBlock(b), called by an operation that gives up the inode slot with b. *)

GiveUp(b) == refs[b] > 0 /\ refs' = [refs EXCEPT ![b] = @ - 1]

FreeRefused(b) ==
    /\ GiveUp(b)
    /\ b \notin blockBitmap \/ sFreeNum = N
    /\ UNCHANGED <<pool, disk, faults>>

\* Seeded fault: the block is stacked and not counted.
FreeUncounted(b) ==
    /\ GiveUp(b)
    /\ b \in blockBitmap /\ sFreeNum # N
    /\ Top # G - 1
    /\ sFree' = [sFree EXCEPT ![Top + 1] = b]
    /\ disk' = [disk EXCEPT ![b] = Zeroed]
    /\ blockBitmap' = blockBitmap \ {b}
    /\ UNCHANGED <<sFreeNum, sFreeAddr, faults>>

FreeOntoStack(b) ==
    /\ GiveUp(b)
    /\ b \in blockBitmap /\ sFreeNum # N
    /\ Top # G - 1
    /\ sFree' = [sFree EXCEPT ![Top + 1] = b]
    /\ disk' = [disk EXCEPT ![b] = Zeroed]
    /\ sFreeNum' = sFreeNum + 1
    /\ blockBitmap' = blockBitmap \ {b}
    /\ UNCHANGED <<sFreeAddr, faults>>

\* s_free_addr keeps its value here.
FreeOntoFullStack(b) ==
    /\ GiveUp(b)
    /\ b \in blockBitmap /\ sFreeNum # N
    /\ Top = G - 1
    /\ sFree' = [j \in Slots |-> IF j = 0 THEN sFreeAddr ELSE NIL]
    /\ disk' = [disk EXCEPT ![b] = sFree']
    /\ sFreeNum' = sFreeNum + 1
    /\ blockBitmap' = blockBitmap \ {b}
    /\ faults' = faults \cup {"fullStackFree"}
    /\ UNCHANGED sFreeAddr

-----------------------------------------------------------------------------
(* The callers' other steps, and a restart.                                *)

\* A directory or file write into a block its inode holds.
WriteBlock(b) ==
    /\ refs[b] > 0
    /\ disk' \in {[disk EXCEPT ![b] = s] : s \in Junk}
    /\ UNCHANGED <<pool, refs, faults>>

\* The slot goes away and the block is not freed: MakeDir and Create after a
\* later allocation fails, DeleteFileOrDir for every block but the first.
Drop(b) ==
    /\ GiveUp(b)
    /\ UNCHANGED <<pool, disk, faults>>

\* InitFileSystem with RepairBlockBitmapFromInodes.  The superblock and the
\* bitmap were written by the last operation; the free stack is not rebuilt.
Owned == {b \in Blocks : refs[b] > 0}

\* Seeded fault: the repair starts the chain over.
RestartFromFirstGroup ==
    /\ blockBitmap' = Owned
    /\ sFreeNum' = N - Cardinality(Owned)
    /\ sFreeAddr' = Leader(0)
    /\ faults' = IF blockBitmap' = blockBitmap /\ sFreeNum' = sFreeNum
                 THEN faults ELSE faults \cup {"repair"}
    /\ UNCHANGED <<sFree, disk, refs>>

Restart ==
    /\ blockBitmap' = Owned
    /\ sFreeNum' = N - Cardinality(Owned)
    /\ faults' = IF blockBitmap' = blockBitmap /\ sFreeNum' = sFreeNum
                 THEN faults ELSE faults \cup {"repair"}
    /\ UNCHANGED <<sFreeAddr, sFree, disk, refs>>

Next ==
    \/ Format
    \/ AllocFromStack
    \/ AllocLeader
    \/ \E b \in Blocks : FreeRefused(b)
    \/ \E b \in Blocks : FreeOntoStack(b)
    \/ \E b \in Blocks : FreeOntoFullStack(b)
    \/ \E b \in Blocks : WriteBlock(b)
    \/ \E b \in Blocks : Drop(b)
    \/ Restart

Spec == Init /\ [][Next]_vars

-----------------------------------------------------------------------------
(* What the free list is while it is exact: the group g is being used up, t *)
(* blocks are stacked above its leader, and later groups are as formatted.  *)

Stacked(t) == {sFree[i] : i \in 1 .. t}

Chain(g, t) ==
    /\ sFreeNum = (NG - 1 - g) * G + (t + 1)
    /\ sFreeAddr = Leader(g)
    /\ sFree[0] = NextLeader(g)
    /\ \A h \in Groups : h > g => disk[Leader(h)] = Formatted(h)
    /\ \A i \in 1 .. t : sFree[i] \in Blocks /\ sFree[i][1] <= g /\ sFree[i] # Leader(g)
    /\ \A i, j \in 1 .. t : sFree[i] = sFree[j] => i = j
    /\ \A b \in Blocks : b \notin blockBitmap <=> b[1] > g \/ b = Leader(g) \/ b \in Stacked(t)

Exhausted == sFreeNum = 0 /\ blockBitmap = Blocks

\* Until a free meets a full stack or a repair changes the bitmap, the free
\* list holds every free block exactly once, and the counter, the stack, the
\* stacks on disk and the bitmap agree.  (BlockAlloc, FreeBlock, Format)
ChainExact ==
    faults = {} => Exhausted \/ \E g \in Groups, t \in Slots : Chain(g, t)

\* Until then no block is in two inode slots, and a block in a slot is marked
\* used, so its release is not refused.  (BlockAlloc's bitmap write, the early
\* returns of FreeBlock)
OwnersExact ==
    faults = {} =>
        \A b \in Blocks : /\ refs[b] <= 1
                          /\ refs[b] = 1 => b \in blockBitmap /\ sFreeNum < N

\* Until then BlockAlloc fails exactly when every block is marked used: the
\* counter is the number of zero bits.  (the early return of BlockAlloc)
CountExact ==
    faults = {} => sFreeNum = Cardinality(Blocks \ blockBitmap)

\* A restart that finds no dropped block changes nothing, so the repair alone
\* never makes an exact list inexact.  (RepairBlockBitmapFromInodes)
RestartIsIdle ==
    [][Restart /\ faults = {} /\ blockBitmap = Owned => UNCHANGED vars]_vars

\* The comment in FreeBlock: the freed block becomes the new free-block stack,
\* its first address the old free-stack pointer.
FreedBlockHeadsStack ==
    [][\A b \in Blocks : FreeOntoFullStack(b) =>
          sFreeAddr' = b /\ disk'[b][0] = sFreeAddr]_vars

-----------------------------------------------------------------------------
(* The part of the behaviours in which the list stays exact implements a    *)
(* plain allocator.                                                         *)

ExactSpec == Init /\ [][Next /\ faults' = {}]_vars

Abs == INSTANCE BlockAllocator WITH inUse <- blockBitmap, held <- Owned

\* Each allocation returns a block that is not in use, fails only when there
\* is none, and each release makes one block available again.
ImplementsAllocator == Abs!Spec
=============================================================================
