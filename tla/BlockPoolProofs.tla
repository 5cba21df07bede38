--------------------------- MODULE BlockPoolProofs ---------------------------
(***************************************************************************)
(* Proofs about BlockPool for every number and size of groups: its types,  *)
(* the exactness of the free list until a free meets a full stack or a     *)
(* repair changes the bitmap, single ownership of blocks, and that the     *)
(* exact behaviours implement BlockAllocator.                              *)
(***************************************************************************)
EXTENDS BlockPool, FiniteSetTheorems, TLAPS

\* The last t+1 of k*G+t+1 things fill the current group up to position t.
LEMMA PositionInGroup ==
    ASSUME NEW k \in Nat, NEW t \in Slots
    PROVE  (k * G + t) % G = t
BY GroupAssumption, SMTT(30) DEF Slots

\* One less in the counter's unsigned arithmetic.
LEMMA Predecessor ==
    ASSUME NEW x \in Nat, 0 < x, x <= N
    PROVE  (x + W - 1) % W = x - 1
BY GroupAssumption, WidthAssumption, SMTT(30) DEF N

\* The counter 0 wraps to the last position of a group.
LEMMA WrapsToLast == ((0 + W - 1) % W) % G = G - 1
<1>1. PICK q \in 1 .. W : W = q * G
  BY WidthAssumption
<1>2. (0 + W - 1) % W = W - 1
  BY WidthAssumption, GroupAssumption, SMTT(30)
<1>3. W - 1 = (q - 1) * G + (G - 1)
  BY <1>1, GroupAssumption, WidthAssumption, SMTT(30)
<1>4. q - 1 \in Nat /\ G - 1 \in Slots
  BY <1>1, GroupAssumption, WidthAssumption DEF Slots
<1> QED
  BY <1>2, <1>3, <1>4, PositionInGroup

\* In a chain the stack top that the counter yields is the last stacked block.
LEMMA TopOfChain ==
    ASSUME TypeOK, NEW g \in Groups, NEW t \in Slots, Chain(g, t)
    PROVE  Top = t /\ sFreeNum > 0
<1> DEFINE k == NG - 1 - g
<1>1. k \in Nat /\ k * G \in Nat /\ t \in Nat
  BY GroupAssumption, SMTT(30) DEF Groups, Slots
<1>2. sFreeNum = k * G + (t + 1) /\ sFreeNum <= N
  BY DEF Chain, TypeOK
<1> HIDE DEF k
<1>3. (sFreeNum + W - 1) % W = k * G + t
  BY <1>1, <1>2, Predecessor
<1> QED
  BY <1>1, <1>2, <1>3, PositionInGroup DEF Top

\* There are finitely many blocks, BLOCK_NUM in all.
LEMMA BlocksFinite ==
    /\ IsFiniteSet(Blocks)
    /\ Cardinality(Blocks) = N
<1>1. IsFiniteSet(Groups) /\ Cardinality(Groups) = NG
  BY FS_Interval, GroupAssumption DEF Groups
<1>2. IsFiniteSet(Slots) /\ Cardinality(Slots) = G
  BY FS_Interval, GroupAssumption DEF Slots
<1> QED
  BY <1>1, <1>2, FS_Product DEF Blocks, N

-----------------------------------------------------------------------------
(* Types.                                                                  *)

\* The sizes are positive, and the first and last positions exist.
LEMMA NaturalSizes == N \in Nat /\ N > 0 /\ 0 \in Slots /\ G - 1 \in Slots /\ 0 \in Groups
BY GroupAssumption, SMTT(30) DEF N, Slots, Groups

\* The stacks Format writes, and a zeroed block, are stacks.
LEMMA FormattedType ==
    /\ \A g \in Groups : Formatted(g) \in Stacks /\ Leader(g) \in Blocks /\ NextLeader(g) \in Addrs
    /\ Zeroed \in Stacks
<1>1. ASSUME NEW g \in Groups PROVE Leader(g) \in Blocks
  BY NaturalSizes DEF Leader, Blocks
<1>2. ASSUME NEW g \in Groups PROVE NextLeader(g) \in Addrs
  <2>1. CASE g = NG - 1
    BY <2>1 DEF NextLeader, Addrs
  <2>2. CASE g # NG - 1
    <3>1. g + 1 \in Groups
      BY <2>2, GroupAssumption DEF Groups
    <3> QED
      BY <2>2, <3>1, <1>1 DEF NextLeader, Addrs
  <2> QED
    BY <2>1, <2>2
<1>3. ASSUME NEW g \in Groups PROVE Formatted(g) \in Stacks
  BY <1>2 DEF Formatted, Stacks, Addrs, Blocks
<1> QED
  BY <1>1, <1>2, <1>3 DEF Zeroed, Stacks, Addrs

\* Formatting keeps the disk well typed.
LEMMA FormattedDiskType ==
    ASSUME NEW before \in [Blocks -> Stacks]
    PROVE  FormattedDisk(before) \in [Blocks -> Stacks]
<1>1. ASSUME NEW b \in Blocks PROVE Formatted(b[1]) \in Stacks
  BY FormattedType DEF Blocks
<1> QED
  BY <1>1 DEF FormattedDisk

\* The blocks in inode slots are at most BLOCK_NUM.
LEMMA OwnedSize ==
    ASSUME TypeOK
    PROVE  Cardinality(Owned) \in 0 .. N
<1>1. Owned \subseteq Blocks
  BY DEF Owned
<1> QED
  BY <1>1, BlocksFinite, FS_Subset, FS_CardinalityType, NaturalSizes

\* The formatted disk is well typed.
LEMMA TypeInit == Init => TypeOK
<1> SUFFICES ASSUME Init PROVE TypeOK
  OBVIOUS
<1>1. [b \in Blocks |-> Zeroed] \in [Blocks -> Stacks]
  BY FormattedType
<1>2. disk \in [Blocks -> Stacks]
  BY <1>1, FormattedDiskType DEF Init
<1>3. sFree \in Stacks /\ sFreeAddr \in Addrs
  BY FormattedType, NaturalSizes DEF Init, Addrs
<1> QED
  BY <1>2, <1>3, NaturalSizes, RefsAssumption DEF Init, TypeOK

\* What an allocation leaves behind on the callers' side.
LEMMA TakeType ==
    ASSUME TypeOK, NEW a \in Addrs, Take(a)
    PROVE  blockBitmap' \subseteq Blocks /\ refs' \in [Blocks -> 0 .. MaxRefs]
<1>1. CASE a \in Blocks /\ refs[a] < MaxRefs /\ blockBitmap' = blockBitmap \cup {a}
           /\ refs' = [refs EXCEPT ![a] = @ + 1]
  BY <1>1, RefsAssumption DEF TypeOK
<1>2. CASE UNCHANGED refs /\ blockBitmap' \in {blockBitmap} \cup
             {blockBitmap \cup {b} : b \in IF a = WILD THEN Blocks ELSE {}}
  BY <1>2 DEF TypeOK
<1> QED
  BY <1>1, <1>2 DEF Take

\* Giving up a slot keeps the counts of slots well typed.
LEMMA GiveUpType ==
    ASSUME TypeOK, NEW b \in Blocks, GiveUp(b)
    PROVE  refs' \in [Blocks -> 0 .. MaxRefs]
BY RefsAssumption DEF TypeOK, GiveUp

\* The stack top is a position of the stack.
LEMMA TopType == ASSUME TypeOK PROVE Top \in Slots
BY GroupAssumption, WidthAssumption, SMTT(30) DEF Top, Slots, TypeOK, N

\* Every step keeps the types.
LEMMA TypeNext == TypeOK /\ [Next]_vars => TypeOK'
<1> SUFFICES ASSUME TypeOK, [Next]_vars PROVE TypeOK'
  OBVIOUS
<1> USE DEF TypeOK
<1>1. CASE Format
  <2>1. disk' \in [Blocks -> Stacks]
    BY <1>1, FormattedDiskType DEF Format
  <2>2. sFree' \in Stacks /\ sFreeAddr' \in Addrs
    BY <1>1, FormattedType, NaturalSizes DEF Format, Addrs
  <2> QED
    BY <1>1, <2>1, <2>2, NaturalSizes, RefsAssumption DEF Format
<1>2. CASE AllocFromStack
  <2>1. sFree[Top] \in Addrs
    BY TopType DEF Stacks
  <2>2. blockBitmap' \subseteq Blocks /\ refs' \in [Blocks -> 0 .. MaxRefs]
    BY <1>2, <2>1, TakeType DEF AllocFromStack
  <2>3. sFree' \in Stacks
    BY <1>2 DEF AllocFromStack, Stacks, Addrs
  <2> QED
    BY <1>2, <2>2, <2>3, NaturalSizes DEF AllocFromStack
<1>3. CASE AllocLeader
  <2>1. blockBitmap' \subseteq Blocks /\ refs' \in [Blocks -> 0 .. MaxRefs]
    BY <1>3, TakeType DEF AllocLeader
  <2>2. sFree[0] \in Addrs
    BY NaturalSizes DEF Stacks
  <2>3. sFree' \in Stacks
    BY <1>3, JunkAssumption DEF AllocLeader, ReadStack
  <2> QED
    BY <1>3, <2>1, <2>2, <2>3, NaturalSizes DEF AllocLeader
<1>4. CASE \E b \in Blocks : FreeRefused(b)
  BY <1>4, GiveUpType DEF FreeRefused, pool
<1>5. CASE \E b \in Blocks : FreeOntoStack(b)
  <2>1. PICK b \in Blocks : FreeOntoStack(b)
    BY <1>5
  <2>2. refs' \in [Blocks -> 0 .. MaxRefs]
    BY <2>1, GiveUpType DEF FreeOntoStack
  <2>3. sFree' \in Stacks
    BY <2>1 DEF FreeOntoStack, Stacks, Addrs
  <2>4. disk' \in [Blocks -> Stacks]
    BY <2>1, FormattedType DEF FreeOntoStack
  <2> QED
    BY <2>1, <2>2, <2>3, <2>4, NaturalSizes DEF FreeOntoStack
<1>6. CASE \E b \in Blocks : FreeOntoFullStack(b)
  <2>1. PICK b \in Blocks : FreeOntoFullStack(b)
    BY <1>6
  <2>2. refs' \in [Blocks -> 0 .. MaxRefs]
    BY <2>1, GiveUpType DEF FreeOntoFullStack
  <2>3. sFree' \in Stacks
    BY <2>1 DEF FreeOntoFullStack, Stacks, Addrs
  <2>4. disk' \in [Blocks -> Stacks]
    BY <2>1, <2>3 DEF FreeOntoFullStack
  <2> QED
    BY <2>1, <2>2, <2>3, <2>4, NaturalSizes DEF FreeOntoFullStack
<1>7. CASE \E b \in Blocks : WriteBlock(b)
  BY <1>7, JunkAssumption DEF WriteBlock, pool
<1>8. CASE \E b \in Blocks : Drop(b)
  BY <1>8, GiveUpType DEF Drop, pool
<1>9. CASE Restart
  <2>1. Owned \subseteq Blocks
    BY DEF Owned
  <2>2. N - Cardinality(Owned) \in 0 .. N
    BY OwnedSize, NaturalSizes
  <2> QED
    BY <1>9, <2>1, <2>2 DEF Restart
<1>10. CASE UNCHANGED vars
  BY <1>10 DEF vars
<1> QED
  BY <1>1, <1>2, <1>3, <1>4, <1>5, <1>6, <1>7, <1>8, <1>9, <1>10 DEF Next

\* Every variable keeps its type, the counter stays between 0 and BLOCK_NUM.
THEOREM TypeCorrect == Spec => []TypeOK
<1>1. Init => TypeOK
  BY TypeInit
<1>2. TypeOK /\ [Next]_vars => TypeOK'
  BY TypeNext
<1> QED
  BY <1>1, <1>2, PTL DEF Spec

-----------------------------------------------------------------------------
(* The inductive invariant: the free list is exact, the counter counts zero *)
(* bits, and a block in an inode slot is in no other and is marked used.    *)
(* The last part is what keeps writes off the stacks stored in free blocks. *)

HeldIsUsed ==
    faults = {} => \A b \in Blocks : refs[b] <= 1 /\ (refs[b] = 1 => b \in blockBitmap)

IInv == TypeOK /\ ChainExact /\ CountExact /\ HeldIsUsed

Fresh ==
    /\ sFreeNum = N
    /\ sFreeAddr = Leader(0)
    /\ sFree = Formatted(0)
    /\ \A g \in Groups : disk[Leader(g)] = Formatted(g)
    /\ blockBitmap = {}
    /\ refs = [b \in Blocks |-> 0]

\* Formatting leaves all of group 0 on the stack and the other groups chained.
LEMMA FreshChain == Fresh => Chain(0, G - 1)
<1> SUFFICES ASSUME Fresh PROVE Chain(0, G - 1)
  OBVIOUS
<1>1. sFreeNum = (NG - 1 - 0) * G + (G - 1 + 1)
  BY GroupAssumption, SMTT(30) DEF Fresh, N
<1>2. sFree[0] = NextLeader(0)
  BY NaturalSizes DEF Fresh, Formatted
<1>3. \A i \in 1 .. G - 1 : i \in Slots /\ sFree[i] = <<0, i>>
  BY GroupAssumption DEF Fresh, Formatted, Slots
<1>4. \A i \in 1 .. G - 1 :
         sFree[i] \in Blocks /\ sFree[i][1] <= 0 /\ sFree[i] # Leader(0)
  <2>1. ASSUME NEW i \in 1 .. G - 1
        PROVE  <<0, i>> \in Blocks /\ <<0, i>>[1] = 0 /\ <<0, i>>[2] = i /\ i # 0
    BY <1>3, NaturalSizes DEF Blocks
  <2> QED
    BY <1>3, <2>1 DEF Leader
<1>5. \A i, j \in 1 .. G - 1 : sFree[i] = sFree[j] => i = j
  BY <1>3
<1>6. ASSUME NEW b \in Blocks
      PROVE  b[1] > 0 \/ b = Leader(0) \/ b \in Stacked(G - 1)
  <2>1. b[1] \in Groups /\ b[2] \in Slots /\ b = <<b[1], b[2]>>
    BY DEF Blocks
  <2>2. CASE b[1] = 0 /\ b[2] # 0
    <3>1. b[2] \in 1 .. G - 1
      BY <2>1, <2>2, GroupAssumption DEF Slots
    <3> QED
      BY <2>1, <2>2, <3>1, <1>3 DEF Stacked
  <2> QED
    BY <2>1, <2>2 DEF Leader, Groups
<1> QED
  BY <1>1, <1>2, <1>4, <1>5, <1>6 DEF Fresh, Chain

\* The initial state is a freshly formatted one,
LEMMA InitFresh == Init => Fresh
<1>1. ASSUME NEW g \in Groups PROVE Leader(g) \in Blocks /\ Leader(g)[1] = g /\ Leader(g)[2] = 0
  BY FormattedType DEF Leader
<1> QED
  BY <1>1 DEF Init, Fresh, FormattedDisk

\* and so is the state Format leaves.
LEMMA FormatFresh == Format => Fresh'
<1>1. ASSUME NEW g \in Groups PROVE Leader(g) \in Blocks /\ Leader(g)[1] = g /\ Leader(g)[2] = 0
  BY FormattedType DEF Leader
<1> QED
  BY <1>1 DEF Format, Fresh, FormattedDisk

\* A freshly formatted disk satisfies every part of the invariant.
LEMMA FreshExact == Fresh => ChainExact /\ CountExact /\ HeldIsUsed
<1> SUFFICES ASSUME Fresh PROVE ChainExact /\ CountExact /\ HeldIsUsed
  OBVIOUS
<1>1. ChainExact
  BY FreshChain, NaturalSizes DEF ChainExact
<1>2. CountExact
  <2>1. Blocks \ blockBitmap = Blocks
    BY DEF Fresh
  <2> QED
    BY <2>1, BlocksFinite DEF Fresh, CountExact
<1>3. HeldIsUsed
  BY DEF Fresh, HeldIsUsed
<1> QED
  BY <1>1, <1>2, <1>3

\* The same of the next state.
LEMMA FreshExactAfter == Fresh' => ChainExact' /\ CountExact' /\ HeldIsUsed'
BY FreshExact, PTL

-----------------------------------------------------------------------------
(* One lemma for each way the list changes.                                *)

\* Taking the stack top leaves the chain one block shorter.
LEMMA AllocFromStackStep ==
    ASSUME TypeOK, NEW g \in Groups, NEW t \in Slots, Chain(g, t), AllocFromStack
    PROVE  /\ t - 1 \in Slots
           /\ Chain(g, t - 1)'
           /\ sFree[t] \in Blocks \ blockBitmap
           /\ blockBitmap' = blockBitmap \cup {sFree[t]}
           /\ refs' = [refs EXCEPT ![sFree[t]] = @ + 1]
<1>1. Top = t /\ t # 0 /\ t \in 1 .. t /\ t - 1 \in Slots
  <2>1. Top = t /\ t # 0
    BY TopOfChain DEF AllocFromStack
  <2> QED
    BY <2>1, GroupAssumption DEF Slots
<1>2. sFree[t] \in Blocks /\ sFree[t] \in Stacked(t)
  BY <1>1 DEF Chain, Stacked
<1>3. sFree[t] \notin blockBitmap
  BY <1>2 DEF Chain
<1>4. blockBitmap' = blockBitmap \cup {sFree[t]} /\ refs' = [refs EXCEPT ![sFree[t]] = @ + 1]
  BY <1>1, <1>2 DEF AllocFromStack, Take
<1>5. sFree' = [sFree EXCEPT ![t] = NIL] /\ sFreeNum' = sFreeNum - 1
      /\ UNCHANGED <<sFreeAddr, disk>>
  BY <1>1 DEF AllocFromStack
<1>6. sFree'[0] = sFree[0] /\ \A i \in 1 .. t - 1 : sFree'[i] = sFree[i] /\ i \in 1 .. t /\ i # t
  BY <1>1, <1>5 DEF TypeOK, Stacks, Slots
<1>7. sFreeNum' = (NG - 1 - g) * G + (t - 1 + 1)
  BY <1>1, <1>5, GroupAssumption DEF Chain, Groups, Slots
<1>8. \A b \in Blocks : b \in Stacked(t) <=> b \in Stacked(t - 1)' \/ b = sFree[t]
  BY <1>1, <1>6 DEF Stacked, Slots
<1>9. \A b \in Stacked(t - 1)' : b # sFree[t]
  BY <1>1, <1>6 DEF Chain, Stacked
<1>10. sFree[t] # Leader(g) /\ sFree[t][1] <= g
  BY <1>1 DEF Chain
<1>11. ASSUME NEW b \in Blocks
       PROVE  b \notin blockBitmap' <=> b[1] > g \/ b = Leader(g) \/ b \in Stacked(t - 1)'
  <2>1. b \notin blockBitmap <=> b[1] > g \/ b = Leader(g) \/ b \in Stacked(t)
    BY DEF Chain
  <2>2. CASE b = sFree[t]
    <3>1. ~(b[1] > g)
      BY <2>2, <1>10 DEF Blocks, Groups
    <3> QED
      BY <2>2, <3>1, <1>4, <1>9, <1>10
  <2>3. CASE b # sFree[t]
    BY <2>1, <2>3, <1>4, <1>8
  <2> QED
    BY <2>2, <2>3
<1>12. \A i \in 1 .. t - 1 : sFree'[i] \in Blocks /\ sFree'[i][1] <= g /\ sFree'[i] # Leader(g)
  BY <1>6 DEF Chain
<1>13. \A i, j \in 1 .. t - 1 : sFree'[i] = sFree'[j] => i = j
  BY <1>6 DEF Chain
<1>14. Chain(g, t - 1)'
  BY <1>5, <1>6, <1>7, <1>11, <1>12, <1>13 DEF Chain
<1> QED
  BY <1>1, <1>2, <1>3, <1>4, <1>14

\* Taking the last leader exhausts the list; taking an earlier one moves the
\* next group's stack into the superblock.
LEMMA AllocLeaderStep ==
    ASSUME TypeOK, NEW g \in Groups, NEW t \in Slots, Chain(g, t), AllocLeader
    PROVE  /\ Exhausted' \/ (g + 1 \in Groups /\ Chain(g + 1, G - 1)')
           /\ Leader(g) \in Blocks \ blockBitmap
           /\ blockBitmap' = blockBitmap \cup {Leader(g)}
           /\ refs' = [refs EXCEPT ![Leader(g)] = @ + 1]
<1>1. t = 0 /\ sFreeAddr = Leader(g) /\ Leader(g) \in Blocks
  BY TopOfChain, FormattedType DEF AllocLeader, Chain
<1>2. Leader(g) \notin blockBitmap
  BY <1>1 DEF Chain
<1>3. blockBitmap' = blockBitmap \cup {Leader(g)} /\ refs' = [refs EXCEPT ![Leader(g)] = @ + 1]
  BY <1>1 DEF AllocLeader, Take
<1>4. \A b \in Blocks : b \notin blockBitmap' <=> b[1] > g
  <2>1. Stacked(0) = {}
    BY DEF Stacked
  <2>2. ~(Leader(g)[1] > g)
    BY DEF Leader, Groups
  <2> QED
    BY <1>1, <1>3, <2>1, <2>2 DEF Chain
<1>5. CASE g = NG - 1
  <2>1. sFreeNum' = 0
    BY <1>1, <1>5, GroupAssumption DEF AllocLeader, Chain
  <2>2. \A b \in Blocks : ~(b[1] > g)
    BY <1>5, GroupAssumption DEF Blocks, Groups
  <2>3. blockBitmap' \subseteq Blocks
    BY <1>1, <1>3 DEF TypeOK
  <2> QED
    BY <1>1, <1>2, <1>3, <1>4, <2>1, <2>2, <2>3 DEF Exhausted
<1>6. CASE g # NG - 1
  <2>1. g + 1 \in Groups /\ NextLeader(g) = Leader(g + 1) /\ Leader(g + 1) \in Blocks
    BY <1>6, FormattedType, GroupAssumption DEF Groups, NextLeader
  <2>2. sFreeAddr' = Leader(g + 1) /\ UNCHANGED disk /\ sFreeNum' = sFreeNum - 1
    BY <2>1 DEF AllocLeader, Chain
  <2>3. sFree' = Formatted(g + 1)
    <3>1. disk[Leader(g + 1)] = Formatted(g + 1)
      BY <2>1 DEF Chain, Groups
    <3> QED
      BY <2>1, <3>1 DEF AllocLeader, Chain, ReadStack
  <2>4. sFreeNum' = (NG - 1 - (g + 1)) * G + (G - 1 + 1)
    <3>1. sFreeNum' = (NG - 1 - g) * G
      BY <1>1, <2>2, GroupAssumption, SMTT(30) DEF Chain, Groups
    <3> QED
      BY <3>1, GroupAssumption, SMTT(30) DEF Groups
  <2>5. sFree'[0] = NextLeader(g + 1)
    BY <2>3, NaturalSizes DEF Formatted
  <2>6. \A i \in 1 .. G - 1 : i \in Slots /\ sFree'[i] = <<g + 1, i>>
    BY <2>3, GroupAssumption DEF Formatted, Slots
  <2>7. \A i \in 1 .. G - 1 :
           sFree'[i] \in Blocks /\ sFree'[i][1] <= g + 1 /\ sFree'[i] # Leader(g + 1)
    BY <2>1, <2>6 DEF Blocks, Leader, Groups
  <2>8. \A i, j \in 1 .. G - 1 : sFree'[i] = sFree'[j] => i = j
    BY <2>6
  <2>9. ASSUME NEW b \in Blocks
        PROVE  b[1] > g <=> b[1] > g + 1 \/ b = Leader(g + 1) \/ b \in Stacked(G - 1)'
    <3>1. b[1] \in Groups /\ b[2] \in Slots /\ b = <<b[1], b[2]>>
      BY DEF Blocks
    <3>2. \A c \in Stacked(G - 1)' : c[1] = g + 1
      BY <2>6 DEF Stacked
    <3>3. b[1] = g + 1 /\ b[2] # 0 => b \in Stacked(G - 1)'
      <4>1. b[2] # 0 => b[2] \in 1 .. G - 1
        BY <3>1, GroupAssumption DEF Slots
      <4> QED
        BY <3>1, <4>1, <2>6 DEF Stacked
    <3>4. Leader(g + 1)[1] = g + 1
      BY DEF Leader
    <3> QED
      BY <3>1, <3>2, <3>3, <3>4 DEF Leader, Groups
  <2>10. \A h \in Groups : h > g + 1 => disk'[Leader(h)] = Formatted(h)
    BY <2>1, <2>2 DEF Chain, Groups
  <2>11. Chain(g + 1, G - 1)'
    BY <1>4, <2>2, <2>4, <2>5, <2>7, <2>8, <2>9, <2>10 DEF Chain
  <2> QED
    BY <1>1, <1>2, <1>3, <2>1, <2>11
<1> QED
  BY <1>5, <1>6

\* A free below a full stack leaves the chain one block longer.
LEMMA FreeOntoStackStep ==
    ASSUME TypeOK, NEW g \in Groups, NEW t \in Slots, Chain(g, t),
           NEW b \in Blocks, FreeOntoStack(b)
    PROVE  t + 1 \in Slots /\ Chain(g, t + 1)'
<1>1. Top = t /\ t + 1 \in Slots
  BY TopOfChain, GroupAssumption DEF FreeOntoStack, Slots
<1>2. ~(b[1] > g) /\ b # Leader(g) /\ b \notin Stacked(t)
  BY DEF Chain, FreeOntoStack
<1>3. sFree' = [sFree EXCEPT ![t + 1] = b] /\ sFreeNum' = sFreeNum + 1 /\ UNCHANGED sFreeAddr
      /\ disk' = [disk EXCEPT ![b] = Zeroed] /\ blockBitmap' = blockBitmap \ {b}
  BY <1>1 DEF FreeOntoStack
<1>4. sFree'[t + 1] = b /\ sFree'[0] = sFree[0] /\ \A i \in 1 .. t : sFree'[i] = sFree[i]
  BY <1>1, <1>3 DEF TypeOK, Stacks, Slots
<1>5. \A i \in 1 .. t + 1 : i \in 1 .. t \/ i = t + 1
  BY <1>1 DEF Slots
<1>6. \A i \in 1 .. t + 1 : sFree'[i] \in Blocks /\ sFree'[i][1] <= g /\ sFree'[i] # Leader(g)
  BY <1>2, <1>4, <1>5 DEF Chain, Blocks, Groups
<1>7. \A i, j \in 1 .. t + 1 : sFree'[i] = sFree'[j] => i = j
  BY <1>2, <1>4, <1>5 DEF Chain, Stacked
<1>8. \A c \in Blocks : c \in Stacked(t + 1)' <=> c \in Stacked(t) \/ c = b
  <2>1. t + 1 \in 1 .. t + 1 /\ \A i \in 1 .. t : i \in 1 .. t + 1
    BY DEF Slots
  <2> QED
    BY <2>1, <1>4, <1>5 DEF Stacked
<1>9. \A c \in Blocks : c \notin blockBitmap' <=> c[1] > g \/ c = Leader(g) \/ c \in Stacked(t + 1)'
  BY <1>2, <1>3, <1>8 DEF Chain
<1>10. \A h \in Groups : h > g => disk'[Leader(h)] = Formatted(h)
  <2>1. \A h \in Groups : h > g => Leader(h) # b /\ Leader(h) \in Blocks
    BY <1>2, FormattedType DEF Leader
  <2> QED
    BY <1>3, <2>1 DEF Chain, TypeOK
<1>11. sFreeNum' = (NG - 1 - g) * G + (t + 1 + 1)
  BY <1>3, GroupAssumption, SMTT(30) DEF Chain, Groups, Slots
<1> QED
  BY <1>1, <1>3, <1>4, <1>6, <1>7, <1>9, <1>10, <1>11 DEF Chain

\* With no free block the counter points at a full stack, so that a free then
\* always takes the full-stack branch.
LEMMA ExhaustedTop == ASSUME Exhausted PROVE Top = G - 1
BY WrapsToLast DEF Exhausted, Top

-----------------------------------------------------------------------------
(* The callers' view of a step while the list is exact.                    *)

Grants(a) ==
    /\ a \in Blocks \ blockBitmap
    /\ blockBitmap' = blockBitmap \cup {a}
    /\ refs' = [refs EXCEPT ![a] = @ + 1]
    /\ sFreeNum' = sFreeNum - 1
    /\ UNCHANGED faults

\* Every allocation that happens hands out a block whose bit was 0.
LEMMA AllocExact ==
    ASSUME IInv, faults = {}, AllocFromStack \/ AllocLeader
    PROVE  ChainExact' /\ \E a \in Blocks : Grants(a)
<1>1. sFreeNum > 0
  BY DEF AllocFromStack, AllocLeader
<1>2. PICK g \in Groups, t \in Slots : Chain(g, t)
  BY <1>1 DEF IInv, ChainExact, Exhausted
<1>3. CASE AllocFromStack
  <2>1. t - 1 \in Slots /\ Chain(g, t - 1)' /\ Grants(sFree[t])
    BY <1>2, <1>3, AllocFromStackStep DEF IInv, Grants, AllocFromStack
  <2> QED
    BY <2>1 DEF ChainExact, Grants
<1>4. CASE AllocLeader
  <2>1. Exhausted' \/ (g + 1 \in Groups /\ Chain(g + 1, G - 1)')
    BY <1>2, <1>4, AllocLeaderStep DEF IInv
  <2>2. Grants(Leader(g))
    BY <1>2, <1>4, AllocLeaderStep DEF IInv, Grants, AllocLeader
  <2> QED
    BY <2>1, <2>2, NaturalSizes DEF ChainExact, Grants
<1> QED
  BY <1>3, <1>4

\* A held block is marked used and the counter is below BLOCK_NUM.
LEMMA HeldBlocks ==
    ASSUME IInv, faults = {}, NEW b \in Blocks, refs[b] > 0
    PROVE  refs[b] = 1 /\ b \in blockBitmap /\ sFreeNum < N
<1>1. refs[b] = 1 /\ b \in blockBitmap
  BY DEF IInv, HeldIsUsed, TypeOK
<1>2. IsFiniteSet(Blocks \ blockBitmap) /\ Cardinality(Blocks \ blockBitmap) \in Nat
  BY BlocksFinite, FS_Difference, FS_CardinalityType
<1>3. Cardinality((Blocks \ blockBitmap) \cup {b}) = Cardinality(Blocks \ blockBitmap) + 1
  BY <1>1, <1>2, FS_AddElement
<1>4. Cardinality((Blocks \ blockBitmap) \cup {b}) <= N
  BY BlocksFinite, FS_Subset
<1> QED
  BY <1>1, <1>2, <1>3, <1>4, NaturalSizes DEF IInv, CountExact

\* A release that a stack with room takes.
LEMMA FreeOntoStackExact ==
    ASSUME IInv, faults = {}, NEW b \in Blocks, FreeOntoStack(b)
    PROVE  ChainExact' /\ CountExact' /\ HeldIsUsed'
<1>1. b \in blockBitmap /\ blockBitmap' = blockBitmap \ {b} /\ sFreeNum' = sFreeNum + 1
      /\ refs' = [refs EXCEPT ![b] = @ - 1] /\ refs[b] > 0 /\ faults' = {}
  BY DEF FreeOntoStack, GiveUp
<1>2. ChainExact'
  <2>1. ~Exhausted
    BY ExhaustedTop DEF FreeOntoStack
  <2>2. PICK g \in Groups, t \in Slots : Chain(g, t)
    BY <2>1 DEF IInv, ChainExact
  <2> QED
    BY <2>2, FreeOntoStackStep DEF IInv, ChainExact
<1>3. CountExact'
  <2>1. Blocks \ blockBitmap' = (Blocks \ blockBitmap) \cup {b} /\ b \notin Blocks \ blockBitmap
    BY <1>1
  <2>2. IsFiniteSet(Blocks \ blockBitmap)
    BY BlocksFinite, FS_Difference
  <2>3. Cardinality(Blocks \ blockBitmap') = Cardinality(Blocks \ blockBitmap) + 1
    BY <2>1, <2>2, FS_AddElement
  <2> QED
    BY <1>1, <2>3 DEF IInv, CountExact
<1>4. HeldIsUsed'
  <2>1. refs[b] = 1
    BY <1>1, HeldBlocks
  <2> QED
    BY <1>1, <2>1 DEF IInv, HeldIsUsed, TypeOK
<1> QED
  BY <1>2, <1>3, <1>4

\* Steps that leave the pool, the blocks and the slots alone.
LEMMA IdleExact ==
    ASSUME IInv, faults = {}, UNCHANGED <<pool, disk, refs>>
    PROVE  ChainExact' /\ CountExact' /\ HeldIsUsed'
<1>1. UNCHANGED <<sFreeNum, sFreeAddr, sFree, blockBitmap, disk, refs>>
  BY DEF pool
<1>2. ASSUME NEW g \in Groups, NEW t \in Slots, Chain(g, t) PROVE Chain(g, t)'
  BY <1>1, <1>2 DEF Chain, Stacked
<1>3. ChainExact'
  BY <1>1, <1>2 DEF IInv, ChainExact, Exhausted
<1>4. CountExact' /\ HeldIsUsed'
  BY <1>1 DEF IInv, CountExact, HeldIsUsed
<1> QED
  BY <1>3, <1>4

\* The invariant is kept by every step.
LEMMA InvNext == IInv /\ [Next]_vars => IInv'
<1> SUFFICES ASSUME IInv, [Next]_vars PROVE ChainExact' /\ CountExact' /\ HeldIsUsed'
  BY TypeNext DEF IInv
<1>1. CASE Format
  BY <1>1, FormatFresh, FreshExactAfter
<1>2. CASE faults' # {}
  BY <1>2 DEF ChainExact, CountExact, HeldIsUsed
<1> SUFFICES ASSUME ~Format, faults' = {} PROVE ChainExact' /\ CountExact' /\ HeldIsUsed'
  BY <1>1, <1>2
<1>3. faults = {}
  BY DEF Next, vars, AllocFromStack, AllocLeader, FreeRefused, FreeOntoStack,
         FreeOntoFullStack, WriteBlock, Drop, Restart
<1>4. CASE AllocFromStack \/ AllocLeader
  <2>1. ChainExact'
    BY <1>3, <1>4, AllocExact
  <2>2. PICK a \in Blocks : Grants(a)
    BY <1>3, <1>4, AllocExact
  <2>3. CountExact'
    <3>1. Blocks \ blockBitmap' = (Blocks \ blockBitmap) \ {a} /\ a \in Blocks \ blockBitmap
      BY <2>2 DEF Grants
    <3>2. IsFiniteSet(Blocks \ blockBitmap)
      BY BlocksFinite, FS_Difference
    <3>3. Cardinality(Blocks \ blockBitmap') = Cardinality(Blocks \ blockBitmap) - 1
      BY <3>1, <3>2, FS_RemoveElement
    <3> QED
      BY <1>3, <2>2, <3>3 DEF IInv, CountExact, Grants
  <2>4. HeldIsUsed'
    <3>1. refs[a] = 0
      BY <1>3, <2>2 DEF IInv, HeldIsUsed, TypeOK, Grants
    <3> QED
      BY <1>3, <2>2, <3>1 DEF IInv, HeldIsUsed, TypeOK, Grants
  <2> QED
    BY <2>1, <2>3, <2>4
<1>5. CASE \E b \in Blocks : FreeRefused(b)
  BY <1>3, <1>5, HeldBlocks DEF FreeRefused, GiveUp, IInv, TypeOK
<1>6. CASE \E b \in Blocks : FreeOntoStack(b)
  BY <1>3, <1>6, FreeOntoStackExact
<1>7. CASE \E b \in Blocks : FreeOntoFullStack(b)
  BY <1>7 DEF FreeOntoFullStack
<1>8. CASE \E b \in Blocks : WriteBlock(b)
  <2>1. PICK b \in Blocks : WriteBlock(b)
    BY <1>8
  <2>2. b \in blockBitmap /\ UNCHANGED <<pool, refs>> /\ \E s \in Junk : disk' = [disk EXCEPT ![b] = s]
    BY <1>3, <2>1, HeldBlocks DEF WriteBlock
  <2>3. ASSUME NEW g \in Groups, NEW t \in Slots, Chain(g, t) PROVE Chain(g, t)'
    <3>1. ~(b[1] > g)
      BY <2>2, <2>3 DEF Chain
    <3>2. \A h \in Groups : h > g => Leader(h) # b
      BY <3>1 DEF Leader
    <3>3. \A h \in Groups : h > g => disk'[Leader(h)] = Formatted(h)
      BY <2>2, <2>3, <3>2, FormattedType DEF Chain, IInv, TypeOK
    <3>4. UNCHANGED <<sFreeNum, sFreeAddr, sFree, blockBitmap>>
      BY <2>2 DEF pool
    <3> QED
      BY <2>3, <3>3, <3>4 DEF Chain, Stacked
  <2>4. ChainExact'
    BY <1>3, <2>2, <2>3 DEF IInv, ChainExact, Exhausted, pool
  <2> QED
    BY <1>3, <2>2, <2>4 DEF IInv, CountExact, HeldIsUsed, pool
<1>9. CASE \E b \in Blocks : Drop(b)
  <2>1. PICK b \in Blocks : Drop(b)
    BY <1>9
  <2>2. UNCHANGED <<pool, disk>> /\ refs[b] = 1 /\ refs' = [refs EXCEPT ![b] = @ - 1]
    BY <1>3, <2>1, HeldBlocks DEF Drop, GiveUp
  <2>3. ChainExact'
    BY <1>3, <2>2 DEF IInv, ChainExact, Exhausted, Chain, Stacked, pool
  <2>4. HeldIsUsed'
    BY <1>3, <2>2 DEF IInv, HeldIsUsed, TypeOK, pool
  <2> QED
    BY <1>3, <2>2, <2>3, <2>4 DEF IInv, CountExact, pool
<1>10. CASE Restart
  <2>1. UNCHANGED <<pool, disk, refs>>
    BY <1>3, <1>10 DEF Restart, pool
  <2> QED
    BY <1>3, <2>1, IdleExact
<1>11. CASE UNCHANGED vars
  BY <1>3, <1>11, IdleExact DEF vars, pool
<1> QED
  BY <1>4, <1>5, <1>6, <1>7, <1>8, <1>9, <1>10, <1>11 DEF Next

\* The invariant holds in every state.
LEMMA InvAlways == Spec => []IInv
<1>1. Init => IInv
  BY TypeInit, InitFresh, FreshExact DEF IInv
<1>2. IInv /\ [Next]_vars => IInv'
  BY InvNext
<1> QED
  BY <1>1, <1>2, PTL DEF Spec

-----------------------------------------------------------------------------
\* The counter, the cached stack, the stacks on disk and the bitmap agree in
\* every state before the first full-stack free or changing repair.
THEOREM FreeListExact == Spec => []ChainExact
<1>1. IInv => ChainExact
  BY DEF IInv
<1> QED
  BY <1>1, InvAlways, PTL

\* BlockAlloc reports a full disk exactly when every block is marked used.
THEOREM FullOnlyWhenFull == Spec => []CountExact
<1>1. IInv => CountExact
  BY DEF IInv
<1> QED
  BY <1>1, InvAlways, PTL

\* No block is in two inode slots, and a release of a held block is accepted.
THEOREM SingleOwner == Spec => []OwnersExact
<1>1. IInv => OwnersExact
  <2>1. ASSUME IInv, faults = {}, NEW b \in Blocks
        PROVE  refs[b] <= 1 /\ (refs[b] = 1 => b \in blockBitmap /\ sFreeNum < N)
    BY <2>1, HeldBlocks DEF IInv, HeldIsUsed
  <2> QED
    BY <2>1 DEF OwnersExact
<1> QED
  BY <1>1, InvAlways, PTL

\* A restart finds nothing to repair unless a block was dropped.
THEOREM RestartIdle == Spec => RestartIsIdle
<1>1. IInv /\ Restart /\ faults = {} /\ blockBitmap = Owned => UNCHANGED vars
  <2> SUFFICES ASSUME IInv, Restart, faults = {}, blockBitmap = Owned
               PROVE  UNCHANGED vars
    OBVIOUS
  <2>1. blockBitmap \subseteq Blocks
    BY DEF IInv, TypeOK
  <2>2. IsFiniteSet(blockBitmap) /\ Cardinality(blockBitmap) \in Nat
    BY <2>1, BlocksFinite, FS_Subset, FS_CardinalityType
  <2>3. Cardinality(Blocks \ blockBitmap) = N - Cardinality(Blocks \cap blockBitmap)
    BY BlocksFinite, FS_Difference
  <2>4. Blocks \cap blockBitmap = blockBitmap
    BY <2>1
  <2>5. sFreeNum' = sFreeNum
    BY <2>3, <2>4 DEF IInv, CountExact, Restart
  <2> QED
    BY <2>5 DEF Restart, vars
<1>2. []IInv => RestartIsIdle
  BY <1>1, PTL DEF RestartIsIdle
<1> QED
  BY <1>2, InvAlways

\* In the behaviours without the two faults every step is a step of the plain
\* allocator: what is given out was free, what is released was held.
THEOREM Implementation == ExactSpec => ImplementsAllocator
<1>1. Init => Abs!Init
  BY RefsAssumption DEF Init, Abs!Init, Owned
<1>2. ExactSpec => []IInv
  <2>1. Init => IInv
    BY TypeInit, InitFresh, FreshExact DEF IInv
  <2>2. IInv /\ [Next /\ faults' = {}]_vars => IInv'
    BY InvNext
  <2> QED
    BY <2>1, <2>2, PTL DEF ExactSpec
<1>3. ExactSpec => [](faults = {})
  <2>1. Init => faults = {}
    BY DEF Init
  <2>2. faults = {} /\ [Next /\ faults' = {}]_vars => (faults = {})'
    BY DEF vars
  <2> QED
    BY <2>1, <2>2, PTL DEF ExactSpec
<1>4. IInv /\ faults = {} /\ [Next /\ faults' = {}]_vars => [Abs!Next]_<<blockBitmap, Owned>>
  <2> SUFFICES ASSUME IInv, faults = {}, [Next /\ faults' = {}]_vars
               PROVE  Abs!Next \/ UNCHANGED <<blockBitmap, Owned>>
    OBVIOUS
  <2>1. CASE Format
    BY <2>1 DEF Format, Abs!Next, Abs!Reset, Owned
  <2>2. CASE AllocFromStack \/ AllocLeader
    <3>1. PICK a \in Blocks : Grants(a)
      BY <2>2, AllocExact
    <3>2. Owned' = Owned \cup {a}
      BY <3>1 DEF Grants, Owned, IInv, TypeOK
    <3> QED
      BY <3>1, <3>2 DEF Grants, Abs!Next, Abs!Alloc
  <2>3. ASSUME NEW b \in Blocks, GiveUp(b)
        PROVE  b \in Owned /\ b \in blockBitmap /\ sFreeNum # N /\ Owned' = Owned \ {b}
    <3>1. refs[b] = 1 /\ b \in blockBitmap /\ sFreeNum < N
      BY <2>3, HeldBlocks DEF GiveUp
    <3> QED
      BY <2>3, <3>1, NaturalSizes DEF GiveUp, Owned, IInv, TypeOK
  <2>4. ASSUME NEW b \in Blocks, FreeRefused(b) PROVE FALSE
    BY <2>3, <2>4 DEF FreeRefused
  <2>5. ASSUME NEW b \in Blocks, FreeOntoStack(b) PROVE Abs!Release(b)
    BY <2>3, <2>5 DEF FreeOntoStack, Abs!Release
  <2>6. ASSUME NEW b \in Blocks, FreeOntoFullStack(b) PROVE FALSE
    BY <2>6 DEF FreeOntoFullStack, vars
  <2>7. ASSUME NEW b \in Blocks, WriteBlock(b) PROVE UNCHANGED <<blockBitmap, Owned>>
    BY <2>7 DEF WriteBlock, pool, Owned
  <2>8. ASSUME NEW b \in Blocks, Drop(b) PROVE Abs!Lose(b)
    BY <2>3, <2>8 DEF Drop, pool, Abs!Lose
  <2>9. CASE Restart
    BY <2>9 DEF Restart, Owned, vars
  <2>10. CASE UNCHANGED vars
    BY <2>10 DEF vars, Owned
  <2> QED
    BY <2>1, <2>2, <2>4, <2>5, <2>6, <2>7, <2>8, <2>9, <2>10 DEF Next, Abs!Next
<1> QED
  BY <1>1, <1>2, <1>3, <1>4, PTL DEF ExactSpec, ImplementsAllocator, Abs!Spec
=============================================================================
