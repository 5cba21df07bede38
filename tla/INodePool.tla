------------------------------ MODULE INodePool ------------------------------
(***************************************************************************)
(* The inodes of the simulated disk: FileSystem::INodeAlloc and INodeFree, *)
(* with the directory entry their callers write after the one and clear    *)
(* after the other.  Each step ends with one write to the image, so that   *)
(* the process can be killed between any two of them; the copy in memory   *)
(* and the image agree after every step.                                   *)
(*                                                                         *)
(* names counts the directory entries other than . and .. that lead to an  *)
(* inode.  torn records in which stages the process has been killed.       *)
(***************************************************************************)
EXTENDS Integers, FiniteSets

CONSTANTS
    NI,         \* INODE_NUM (640 in the code)
    MaxKills    \* bound: how often the process is killed within an operation

ASSUME SizeAssumption  == NI \in Nat \ {0}
ASSUME KillsAssumption == MaxKills \in Nat

Inodes == 0 .. NI - 1
Root   == 0

VARIABLES
    freeInodeNum,   \* s_free_INODE_NUM
    inodeBitmap,    \* the inodes whose bit is 1
    names,          \* directory entries leading to each inode
    stage,          \* where the running operation is
    target,         \* the inode it works on
    torn,           \* stages in which the process was killed
    kills           \* how often

vars == <<freeInodeNum, inodeBitmap, names, stage, target, torn, kills>>

Stages == {"counted", "marked", "released", "unmarked"}

TypeOK ==
    /\ freeInodeNum \in 0 .. NI + kills
    /\ inodeBitmap \subseteq Inodes
    /\ names \in [Inodes -> Nat]
    /\ stage \in Stages \cup {"idle"}
    /\ target \in Inodes
    /\ torn \subseteq Stages
    /\ kills \in 0 .. MaxKills

\* Format empties the bitmap and allocates the root directory's inode.
Init ==
    /\ freeInodeNum = NI - 1
    /\ inodeBitmap = {Root}
    /\ names = [i \in Inodes |-> 0]
    /\ stage = "idle"
    /\ target = Root
    /\ torn = {}
    /\ kills = 0

Format ==
    /\ stage = "idle"
    /\ freeInodeNum' = NI - 1
    /\ inodeBitmap' = {Root}
    /\ names' = [i \in Inodes |-> 0]
    /\ target' = Root
    /\ torn' = {}
    /\ UNCHANGED <<stage, kills>>

\* The scan stops at the first bit that is 0 and keeps 0 when there is none.
FirstFree(i) ==
    \/ i \notin inodeBitmap /\ \A j \in Inodes : j < i => j \in inodeBitmap
    \/ i = Root /\ Inodes \subseteq inodeBitmap

-----------------------------------------------------------------------------
(* INodeAlloc: count, then mark; its caller then writes the entry.          *)

\* Seeded fault: the test for an exhausted pool is missing.
AllocUnchecked(i) ==
    /\ stage = "idle"
    /\ freeInodeNum' = freeInodeNum - 1
    /\ FirstFree(i)
    /\ target' = i
    /\ stage' = "counted"
    /\ UNCHANGED <<inodeBitmap, names, torn, kills>>

AllocCount(i) ==
    /\ stage = "idle"
    /\ freeInodeNum # 0
    /\ freeInodeNum' = freeInodeNum - 1
    /\ FirstFree(i)
    /\ target' = i
    /\ stage' = "counted"
    /\ UNCHANGED <<inodeBitmap, names, torn, kills>>

AllocMark ==
    /\ stage = "counted"
    /\ inodeBitmap' = inodeBitmap \cup {target}
    /\ stage' = "marked"
    /\ UNCHANGED <<freeInodeNum, names, target, torn, kills>>

WriteEntry ==
    /\ stage = "marked"
    /\ names' = [names EXCEPT ![target] = @ + 1]
    /\ stage' = "idle"
    /\ UNCHANGED <<freeInodeNum, inodeBitmap, target, torn, kills>>

\* Seeded fault: the caller takes the count back and leaves the bit.
GiveUpHalf ==
    /\ stage = "marked"
    /\ stage' = "idle"
    /\ freeInodeNum' = freeInodeNum + 1
    /\ UNCHANGED <<inodeBitmap, names, target, torn, kills>>

\* No block is left for the new file or directory: the caller returns and the
\* inode stays marked.
GiveUpEntry ==
    /\ stage = "marked"
    /\ stage' = "idle"
    /\ UNCHANGED <<freeInodeNum, inodeBitmap, names, target, torn, kills>>

-----------------------------------------------------------------------------
(* INodeFree for an inode found through an entry: the inode is zeroed and   *)
(* counted, then its bit cleared; its caller then clears the entry.  An     *)
(* inode whose bit is 0 is refused, and the entry is cleared all the same.  *)

\* Seeded fault: an inode whose bit is 0 is counted all the same.
FreeCountAlways(i) ==
    /\ stage = "idle"
    /\ names[i] > 0
    /\ target' = i
    /\ freeInodeNum' = freeInodeNum + 1
    /\ stage' = IF i \in inodeBitmap THEN "released" ELSE "unmarked"
    /\ UNCHANGED <<inodeBitmap, names, torn, kills>>

FreeCount(i) ==
    /\ stage = "idle"
    /\ names[i] > 0
    /\ target' = i
    /\ IF i \in inodeBitmap
       THEN freeInodeNum' = freeInodeNum + 1 /\ stage' = "released"
       ELSE stage' = "unmarked" /\ UNCHANGED freeInodeNum
    /\ UNCHANGED <<inodeBitmap, names, torn, kills>>

FreeUnmark ==
    /\ stage = "released"
    /\ inodeBitmap' = inodeBitmap \ {target}
    /\ stage' = "unmarked"
    /\ UNCHANGED <<freeInodeNum, names, target, torn, kills>>

\* Seeded fault: the cleared entry is not written back.
ClearEntryInMemory ==
    /\ stage = "unmarked"
    /\ stage' = "idle"
    /\ UNCHANGED <<freeInodeNum, inodeBitmap, names, target, torn, kills>>

ClearEntry ==
    /\ stage = "unmarked"
    /\ names' = [names EXCEPT ![target] = @ - 1]
    /\ stage' = "idle"
    /\ UNCHANGED <<freeInodeNum, inodeBitmap, target, torn, kills>>

-----------------------------------------------------------------------------
\* The process dies inside an operation; InitFileSystem reads the superblock
\* and the bitmap back and repairs neither.
KillAndRestart ==
    /\ stage # "idle"
    /\ kills < MaxKills
    /\ torn' = torn \cup {stage}
    /\ kills' = kills + 1
    /\ stage' = "idle"
    /\ UNCHANGED <<freeInodeNum, inodeBitmap, names, target>>

Next ==
    \/ Format
    \/ \E i \in Inodes : AllocCount(i)
    \/ AllocMark
    \/ WriteEntry
    \/ GiveUpEntry
    \/ \E i \in Inodes : FreeCount(i)
    \/ FreeUnmark
    \/ ClearEntry
    \/ KillAndRestart

Spec == Init /\ [][Next]_vars

-----------------------------------------------------------------------------
Zeros == Cardinality(Inodes \ inodeBitmap)

\* What the running operation has counted and not yet marked.
Pending == IF stage = "counted" THEN 1 ELSE IF stage = "released" THEN -1 ELSE 0

\* Unless a kill fell between a count and its bit, the counter and the bitmap
\* agree, so that INodeAlloc reports exhaustion exactly when every inode is
\* marked; a kill in INodeAlloc can only make the counter too small.
CountExact ==
    /\ torn \cap {"counted", "released"} = {} => freeInodeNum + Pending = Zeros
    /\ "released" \notin torn => freeInodeNum + Pending <= Zeros

\* Kills while a file or directory is being created cost inodes and never
\* make two entries share one: an entry's inode is marked, until the moment
\* its own removal unmarks it.
SingleName ==
    torn \subseteq {"counted", "marked"} =>
        \A i \in Inodes :
            /\ names[i] <= 1
            /\ names[i] = 1 => i \in inodeBitmap \/ (stage = "unmarked" /\ i = target)

\* The root directory's inode is not handed out a second time, unless a kill
\* inside INodeFree left the counter above the number of zero bits.
RootKept ==
    "released" \notin torn =>
        /\ Root \in inodeBitmap
        /\ names[Root] = 0
        /\ stage \in {"counted", "marked"} => target # Root
=============================================================================
