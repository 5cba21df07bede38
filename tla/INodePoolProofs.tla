--------------------------- MODULE INodePoolProofs ---------------------------
(***************************************************************************)
(* Proofs about INodePool for every number of inodes and of kills.         *)
(***************************************************************************)
EXTENDS INodePool, FiniteSetTheorems, TLAPS

\* There are finitely many inodes, INODE_NUM in all.
LEMMA InodesFinite ==
    /\ IsFiniteSet(Inodes)
    /\ Cardinality(Inodes) = NI
    /\ Root \in Inodes
BY FS_Interval, SizeAssumption DEF Inodes, Root

\* How the number of zero bits follows the bitmap.
LEMMA ZerosBound ==
    ASSUME NEW bits \in SUBSET Inodes
    PROVE  /\ Cardinality(Inodes \ bits) \in 0 .. NI
           /\ \A i \in Inodes \ bits :
                 Cardinality(Inodes \ (bits \cup {i})) = Cardinality(Inodes \ bits) - 1
           /\ \A i \in bits :
                 Cardinality(Inodes \ (bits \ {i})) = Cardinality(Inodes \ bits) + 1
           /\ Inodes \subseteq bits => Cardinality(Inodes \ bits) = 0
<1>1. IsFiniteSet(Inodes \ bits) /\ Cardinality(Inodes \ bits) \in Nat
  BY InodesFinite, FS_Difference, FS_CardinalityType
<1>2. Cardinality(Inodes \ bits) <= NI
  BY InodesFinite, FS_Subset
<1>3. ASSUME NEW i \in Inodes \ bits
      PROVE  Cardinality(Inodes \ (bits \cup {i})) = Cardinality(Inodes \ bits) - 1
  <2>1. Inodes \ (bits \cup {i}) = (Inodes \ bits) \ {i}
    OBVIOUS
  <2>2. Cardinality((Inodes \ bits) \ {i}) = Cardinality(Inodes \ bits) - 1
    BY <1>1, FS_RemoveElement
  <2> QED
    BY <2>1, <2>2
<1>4. ASSUME NEW i \in bits
      PROVE  Cardinality(Inodes \ (bits \ {i})) = Cardinality(Inodes \ bits) + 1
  <2>1. Inodes \ (bits \ {i}) = (Inodes \ bits) \cup {i} /\ i \notin Inodes \ bits
    OBVIOUS
  <2> QED
    BY <1>1, <2>1, FS_AddElement
<1>5. Inodes \subseteq bits => Cardinality(Inodes \ bits) = 0
  <2>1. Inodes \subseteq bits => Inodes \ bits = {}
    OBVIOUS
  <2> QED
    BY <2>1, FS_EmptySet
<1>6. Cardinality(Inodes \ bits) \in 0 .. NI
  BY <1>1, <1>2, SizeAssumption
<1> QED
  BY <1>3, <1>4, <1>5, <1>6, Zenon

-----------------------------------------------------------------------------
(* The inductive invariant.  Each kill adds at most one to what the counter *)
(* says beyond the zero bits; the target of a running operation has the bit *)
(* its stage says.                                                          *)

CountBound == freeInodeNum + Pending <= Zeros + kills

TargetBit ==
    /\ stage = "counted" /\ "released" \notin torn => target \notin inodeBitmap
    /\ stage \in {"marked", "released"} => target \in inodeBitmap
    /\ stage = "unmarked" /\ torn \subseteq {"counted", "marked"} => target \notin inodeBitmap
    /\ stage = "marked" /\ torn \subseteq {"counted", "marked"} => names[target] = 0
    /\ stage \in {"released", "unmarked"} => names[target] > 0

RootUntouched ==
    "released" \notin torn /\ stage \in {"released", "unmarked"} => target # Root

IInv == TypeOK /\ CountBound /\ CountExact /\ TargetBit /\ SingleName /\ RootKept /\ RootUntouched

\* The formatted disk satisfies the invariant.
LEMMA InvInit == Init => IInv
<1> SUFFICES ASSUME Init PROVE IInv
  OBVIOUS
<1>1. Zeros = NI - 1
  <2>1. Inodes \ inodeBitmap = Inodes \ {Root}
    BY DEF Init
  <2> QED
    BY <2>1, InodesFinite, FS_RemoveElement DEF Zeros
<1>2. TypeOK
  BY InodesFinite, SizeAssumption, KillsAssumption DEF Init, TypeOK
<1>3. CountBound /\ CountExact
  BY <1>1, SizeAssumption DEF Init, CountBound, CountExact, Pending
<1>4. TargetBit /\ RootUntouched
  BY DEF Init, TargetBit, RootUntouched
<1>5. SingleName /\ RootKept
  BY InodesFinite DEF Init, SingleName, RootKept
<1> QED
  BY <1>2, <1>3, <1>4, <1>5 DEF IInv

\* An allocation that finds no bit that is 0 needs a counter that is too
\* large; otherwise it picks an inode that is not marked.
LEMMA PicksFree ==
    ASSUME IInv, NEW i \in Inodes, AllocCount(i), "released" \notin torn
    PROVE  i \notin inodeBitmap
<1>1. ASSUME Inodes \subseteq inodeBitmap PROVE FALSE
  <2>1. Zeros = 0
    BY <1>1, ZerosBound DEF IInv, TypeOK, Zeros
  <2>2. freeInodeNum <= 0 /\ freeInodeNum # 0
    BY <2>1 DEF IInv, CountExact, AllocCount, Pending, TypeOK
  <2> QED
    BY <2>2, KillsAssumption, SizeAssumption DEF IInv, TypeOK
<1> QED
  BY <1>1 DEF AllocCount, FirstFree

\* A counted inode whose bit is now set takes at most one zero bit away.
LEMMA CountedBelow ==
    ASSUME NEW n \in Nat, NEW z \in Nat, NEW y \in Nat, NEW k \in Nat,
           n + 1 <= z + k, y >= z - 1
    PROVE  n <= y + k
OBVIOUS

\* Every step keeps the part about the counter.
LEMMA CountNext ==
    ASSUME IInv, Next
    PROVE  CountBound' /\ CountExact' /\ freeInodeNum' \in 0 .. NI + kills'
<1> USE KillsAssumption, SizeAssumption
<1>0. /\ TypeOK /\ CountBound /\ CountExact
      /\ Zeros \in 0 .. NI
      /\ freeInodeNum \in Nat /\ kills \in Nat
  BY ZerosBound DEF IInv, TypeOK, Zeros
<1>1. CASE Format
  <2>1. Zeros' = NI - 1
    <3>1. Inodes \ inodeBitmap' = Inodes \ {Root}
      BY <1>1 DEF Format
    <3> QED
      BY <3>1, InodesFinite, FS_RemoveElement DEF Zeros
  <2> QED
    BY <1>0, <1>1, <2>1 DEF Format, CountBound, CountExact, Pending
<1>2. CASE \E i \in Inodes : AllocCount(i)
  <2>1. Zeros' = Zeros /\ freeInodeNum' = freeInodeNum - 1 /\ freeInodeNum' \in Nat
        /\ Pending' = 1 /\ Pending = 0 /\ torn' = torn /\ kills' = kills
    BY <1>0, <1>2 DEF AllocCount, Zeros, Pending, TypeOK
  <2> QED
    BY <1>0, <2>1 DEF CountBound, CountExact, TypeOK
<1>3. CASE AllocMark
  <2>1. Zeros' <= Zeros /\ Zeros' >= Zeros - 1 /\ Zeros' \in Nat
        /\ ("released" \notin torn => Zeros' = Zeros - 1)
    <3>1. CASE target \in inodeBitmap
      <4>1. inodeBitmap' = inodeBitmap
        BY <1>3, <3>1 DEF AllocMark
      <4>2. "released" \in torn
        BY <1>3, <3>1 DEF IInv, TargetBit, AllocMark
      <4> QED
        BY <1>0, <4>1, <4>2 DEF Zeros
    <3>2. CASE target \in Inodes \ inodeBitmap
      <4>1. Zeros' = Zeros - 1
        BY <1>0, <1>3, <3>2, ZerosBound DEF AllocMark, Zeros, TypeOK
      <4>2. Zeros' \in 0 .. NI
        BY <1>0, <1>3, ZerosBound DEF AllocMark, Zeros, TypeOK
      <4> QED
        BY <1>0, <4>1, <4>2
    <3> QED
      BY <1>0, <3>1, <3>2 DEF TypeOK
  <2>2. freeInodeNum' = freeInodeNum /\ Pending' = 0 /\ Pending = 1 /\ torn' = torn /\ kills' = kills
    BY <1>3 DEF AllocMark, Pending
  <2>3. freeInodeNum + 1 <= Zeros + kills
    BY <1>0, <2>2 DEF CountBound
  <2>4. CountBound'
    <3>1. freeInodeNum <= Zeros' + kills
      <4>1. freeInodeNum \in Nat /\ kills \in Nat
        BY <1>0
      <4>2. Zeros \in Nat
        BY <1>0
      <4>3. Zeros' \in Nat /\ Zeros' >= Zeros - 1
        BY <2>1
      <4> HIDE KillsAssumption, SizeAssumption
      <4> QED
        BY <2>3, <4>1, <4>2, <4>3, CountedBelow
    <3>2. freeInodeNum' + Pending' = freeInodeNum
      BY <1>0, <2>2
    <3> QED
      BY <2>2, <3>1, <3>2 DEF CountBound
  <2>5. CountExact'
    BY <1>0, <2>1, <2>2 DEF CountExact
  <2> QED
    BY <1>0, <2>2, <2>4, <2>5 DEF TypeOK
<1>4. CASE WriteEntry \/ GiveUpEntry \/ ClearEntry
  BY <1>0, <1>4 DEF WriteEntry, GiveUpEntry, ClearEntry, CountBound, CountExact, Zeros, Pending, TypeOK
<1>5. CASE \E i \in Inodes : FreeCount(i)
  <2>1. PICK i \in Inodes : FreeCount(i)
    BY <1>5
  <2>2. CASE i \in inodeBitmap
    <3>1. Zeros' = Zeros /\ freeInodeNum' = freeInodeNum + 1 /\ Pending' = -1 /\ Pending = 0
          /\ torn' = torn /\ kills' = kills
      BY <2>1, <2>2 DEF FreeCount, Zeros, Pending
    <3>2. Zeros <= NI - 1
      <4>1. Cardinality(Inodes \ (inodeBitmap \ {i})) = Zeros + 1
        BY <1>0, <2>2, ZerosBound DEF Zeros, TypeOK
      <4>2. Cardinality(Inodes \ (inodeBitmap \ {i})) \in 0 .. NI
        <5>1. inodeBitmap \ {i} \in SUBSET Inodes
          BY <1>0 DEF TypeOK
        <5> QED
          BY <5>1, ZerosBound
      <4> QED
        BY <1>0, <4>1, <4>2
    <3> QED
      BY <1>0, <3>1, <3>2 DEF CountBound, CountExact
  <2>3. CASE i \notin inodeBitmap
    <3>1. Zeros' = Zeros /\ freeInodeNum' = freeInodeNum /\ Pending' = 0 /\ Pending = 0
          /\ torn' = torn /\ kills' = kills
      BY <2>1, <2>3 DEF FreeCount, Zeros, Pending
    <3> QED
      BY <1>0, <3>1 DEF CountBound, CountExact, TypeOK
  <2> QED
    BY <2>2, <2>3
<1>6. CASE FreeUnmark
  <2>1. Zeros' = Zeros + 1
    BY <1>0, <1>6, ZerosBound DEF FreeUnmark, IInv, TargetBit, Zeros, TypeOK
  <2>2. freeInodeNum' = freeInodeNum /\ Pending' = 0 /\ Pending = -1 /\ torn' = torn /\ kills' = kills
    BY <1>6 DEF FreeUnmark, Pending
  <2> QED
    BY <1>0, <2>1, <2>2 DEF CountBound, CountExact, TypeOK
<1>7. CASE KillAndRestart
  <2>1. Zeros' = Zeros /\ freeInodeNum' = freeInodeNum /\ Pending' = 0 /\ kills' = kills + 1
        /\ torn' = torn \cup {stage}
    BY <1>7 DEF KillAndRestart, Zeros, Pending
  <2> QED
    BY <1>0, <2>1 DEF CountBound, CountExact, Pending, TypeOK
<1> QED
  BY <1>1, <1>2, <1>3, <1>4, <1>5, <1>6, <1>7 DEF Next

\* Bits, entries and stages.  With the target's bit known, each step moves one
\* inode between marked and unmarked, or one entry between written and cleared.
LEMMA TypeNext ==
    ASSUME IInv, Next
    PROVE  TypeOK'
<1>1. freeInodeNum' \in 0 .. NI + kills'
  BY CountNext
<1>2. inodeBitmap' \subseteq Inodes /\ target' \in Inodes
  BY InodesFinite DEF IInv, TypeOK, Next, Format, AllocCount, AllocMark, WriteEntry, GiveUpEntry,
     FreeCount, FreeUnmark, ClearEntry, KillAndRestart
<1>3. stage' \in Stages \cup {"idle"} /\ torn' \subseteq Stages
  BY DEF IInv, TypeOK, Stages, Next, Format, AllocCount, AllocMark, WriteEntry, GiveUpEntry,
     FreeCount, FreeUnmark, ClearEntry, KillAndRestart
<1>4. kills' \in 0 .. MaxKills
  BY KillsAssumption DEF IInv, TypeOK, Next, Format, AllocCount, AllocMark, WriteEntry, GiveUpEntry,
     FreeCount, FreeUnmark, ClearEntry, KillAndRestart
<1>5. names' \in [Inodes -> Nat]
  <2>1. CASE ClearEntry
    <3>1. names[target] > 0
      BY <2>1 DEF ClearEntry, IInv, TargetBit
    <3> QED
      BY <2>1, <3>1 DEF ClearEntry, IInv, TypeOK
  <2> QED
    BY <2>1 DEF IInv, TypeOK, Next, Format, AllocCount, AllocMark, WriteEntry, GiveUpEntry,
       FreeCount, FreeUnmark, KillAndRestart
<1> QED
  BY <1>1, <1>2, <1>3, <1>4, <1>5 DEF TypeOK

Creation == torn \subseteq {"counted", "marked"}

\* Every step keeps the part about the running operation and the entries.
LEMMA StageNext ==
    ASSUME IInv, Next
    PROVE  TargetBit' /\ SingleName' /\ RootKept' /\ RootUntouched'
<1> USE DEF TargetBit, SingleName, RootKept, RootUntouched
<1>0. /\ TargetBit /\ SingleName /\ RootKept /\ RootUntouched
      /\ target \in Inodes /\ names \in [Inodes -> Nat] /\ stage \in Stages \cup {"idle"}
      /\ torn \subseteq Stages /\ Root \in Inodes
  BY InodesFinite DEF IInv, TypeOK
<1>1. CASE Format
  BY <1>0, <1>1 DEF Format
<1>2. CASE \E i \in Inodes : AllocCount(i)
  <2>1. PICK i \in Inodes : AllocCount(i)
    BY <1>2
  <2>2. "released" \notin torn => i \notin inodeBitmap
    BY <2>1, PicksFree
  <2>3. stage = "idle" /\ stage' = "counted" /\ target' = i
        /\ UNCHANGED <<inodeBitmap, names, torn>>
    BY <2>1 DEF AllocCount
  <2> QED
    BY <1>0, <2>2, <2>3
<1>3. CASE AllocMark
  <2>1. stage = "counted" /\ stage' = "marked" /\ inodeBitmap' = inodeBitmap \cup {target}
        /\ UNCHANGED <<names, target, torn>>
    BY <1>3 DEF AllocMark
  <2>2. Creation => names[target] = 0
    BY <1>0, <2>1 DEF Creation
  <2> QED
    BY <1>0, <2>1, <2>2 DEF Creation
<1>4. CASE WriteEntry
  <2>1. stage = "marked" /\ stage' = "idle" /\ names' = [names EXCEPT ![target] = @ + 1]
        /\ UNCHANGED <<inodeBitmap, target, torn>>
    BY <1>4 DEF WriteEntry
  <2>2. SingleName'
    BY <1>0, <2>1
  <2>3. RootKept'
    BY <1>0, <2>1
  <2> QED
    BY <2>1, <2>2, <2>3
<1>5. CASE GiveUpEntry
  BY <1>0, <1>5 DEF GiveUpEntry
<1>6. CASE \E i \in Inodes : FreeCount(i)
  <2>1. PICK i \in Inodes : FreeCount(i)
    BY <1>6
  <2>2. stage = "idle" /\ names[i] > 0 /\ target' = i /\ UNCHANGED <<inodeBitmap, names, torn>>
    BY <2>1 DEF FreeCount
  <2>3. (i \in inodeBitmap /\ stage' = "released") \/ (i \notin inodeBitmap /\ stage' = "unmarked")
    BY <2>1 DEF FreeCount
  <2>4. TargetBit' /\ RootUntouched'
    BY <1>0, <2>2, <2>3
  <2>5. SingleName' /\ RootKept'
    BY <1>0, <2>2, <2>3
  <2> QED
    BY <2>4, <2>5
<1>7. CASE FreeUnmark
  <2>1. stage = "released" /\ stage' = "unmarked" /\ inodeBitmap' = inodeBitmap \ {target}
        /\ UNCHANGED <<names, target, torn>>
    BY <1>7 DEF FreeUnmark
  <2>2. TargetBit' /\ RootUntouched'
    BY <1>0, <2>1
  <2>3. SingleName' /\ RootKept'
    BY <1>0, <2>1
  <2> QED
    BY <2>2, <2>3
<1>8. CASE ClearEntry
  <2>1. stage = "unmarked" /\ stage' = "idle" /\ names' = [names EXCEPT ![target] = @ - 1]
        /\ names[target] > 0 /\ UNCHANGED <<inodeBitmap, target, torn>>
    BY <1>0, <1>8 DEF ClearEntry
  <2>2. SingleName'
    BY <1>0, <2>1
  <2>3. RootKept'
    BY <1>0, <2>1
  <2> QED
    BY <2>1, <2>2, <2>3
<1>9. CASE KillAndRestart
  <2>1. torn' = torn \cup {stage} /\ stage' = "idle" /\ UNCHANGED <<inodeBitmap, names, target>>
    BY <1>9 DEF KillAndRestart
  <2> QED
    BY <1>0, <2>1
<1> QED
  BY <1>1, <1>2, <1>3, <1>4, <1>5, <1>6, <1>7, <1>8, <1>9 DEF Next

\* Every step keeps the invariant.
LEMMA InvNext == IInv /\ [Next]_vars => IInv'
<1> SUFFICES ASSUME IInv, [Next]_vars PROVE IInv'
  OBVIOUS
<1>1. CASE Next
  BY <1>1, CountNext, TypeNext, StageNext DEF IInv
<1>2. CASE UNCHANGED vars
  BY <1>2 DEF vars, IInv, TypeOK, CountBound, CountExact, TargetBit, SingleName, RootKept,
     RootUntouched, Zeros, Pending
<1> QED
  BY <1>1, <1>2

\* The invariant holds in every state.
LEMMA InvAlways == Spec => []IInv
BY InvInit, InvNext, PTL DEF Spec

-----------------------------------------------------------------------------
\* Every variable keeps its type; each kill can put the counter at most one
\* above the number of inodes.
THEOREM TypeCorrect == Spec => []TypeOK
<1>1. IInv => TypeOK
  BY DEF IInv
<1> QED
  BY <1>1, InvAlways, PTL

\* The counter is exact unless a kill fell between a count and its bit, and too
\* large only after a kill inside INodeFree.
THEOREM CounterExact == Spec => []CountExact
<1>1. IInv => CountExact
  BY DEF IInv
<1> QED
  BY <1>1, InvAlways, PTL

\* Kills during creation never make two directory entries share an inode.
THEOREM NoSharedInode == Spec => []SingleName
<1>1. IInv => SingleName
  BY DEF IInv
<1> QED
  BY <1>1, InvAlways, PTL

\* INodeAlloc returns the root's inode only after a kill inside INodeFree.
THEOREM RootNotReused == Spec => []RootKept
<1>1. IInv => RootKept
  BY DEF IInv
<1> QED
  BY <1>1, InvAlways, PTL
=============================================================================
