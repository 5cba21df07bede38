---------------------------- MODULE ListingProofs ----------------------------
(***************************************************************************)
(* Proofs about Listing for every number of blocks and of entries in a     *)
(* block.                                                                  *)
(***************************************************************************)
EXTENDS Listing, RecursionLemmas

-----------------------------------------------------------------------------
(* Numbers of places and blocks *)

LEMMA Division ==
    ASSUME NEW n \in Nat
    PROVE  /\ n \div E \in Nat /\ n % E \in 0 .. E - 1
           /\ n = (n \div E) * E + (n % E)
BY SizesAssumption

LEMMA Product ==
    ASSUME NEW m \in Nat, NEW n \in Nat
    PROVE  /\ m * n \in Nat
           /\ (m + 1) * n = m * n + n
OBVIOUS

LEMMA ProductOrder ==
    ASSUME NEW k \in Nat, NEW m \in Nat, k <= m
    PROVE  k * E <= m * E
BY SizesAssumption

LEMMA Quotient ==
    ASSUME NEW k \in Nat, NEW r \in Nat, r < E
    PROVE  /\ (k * E + r) \div E = k
           /\ (k * E + r) % E = r
BY SizesAssumption

\* The places are finitely many, and so are the entries.
LEMMA Counting ==
    ASSUME occupied \subseteq Places
    PROVE  /\ IsFiniteSet(Places) /\ Cardinality(Places) = B * E
           /\ IsFiniteSet(occupied) /\ inode_cnt \in Nat /\ inode_cnt <= B * E
<1>1. /\ IsFiniteSet(0 .. B - 1) /\ Cardinality(0 .. B - 1) = B
      /\ IsFiniteSet(0 .. E - 1) /\ Cardinality(0 .. E - 1) = E
  BY FS_Interval, SizesAssumption
<1>2. IsFiniteSet(Places) /\ Cardinality(Places) = B * E
  BY <1>1, FS_Product DEF Places
<1> QED
  BY <1>2, FS_Subset, FS_CardinalityType DEF inode_cnt

-----------------------------------------------------------------------------
(* ShowDir's inner loop *)

Progress == [i : Nat, shown : Seq(occupied)]

\* f is what i and the output are before each place of the block b.
Passes(f, b) ==
    /\ f \in [Nat -> Progress]
    /\ f[0] = [i |-> i, shown |-> shown]
    /\ \A j \in 0 .. E - 1 : f[j + 1] = ShowPlace(<<b, j>>, f[j])
    /\ ShowDirFor(b) = f[E]

\* The recursive function in ShowDirFor exists, and is as its equation says.
LEMMA ShowDirForPasses ==
    ASSUME TypeOK, NEW b
    PROVE  \E f : Passes(f, b)
<1> DEFINE Step(g, j) == IF j = 0
                         THEN [i |-> i, shown |-> shown]
                         ELSE ShowPlace(<<b, j - 1>>, g[j - 1])
           F == CHOOSE g : g = [j \in 0 .. E |-> Step(g, j)]
           G == [x \in Nat \X Progress |-> ShowPlace(<<b, x[1]>>, x[2])]
<1>1. [i |-> i, shown |-> shown] \in Progress
  BY SizesAssumption DEF TypeOK, Progress
<1>2. ASSUME NEW r \in Progress, NEW p PROVE ShowPlace(p, r) \in Progress
  BY DEF ShowPlace, Progress
<1>3. G \in [Nat \X Progress -> Progress]
  BY <1>2
<1>4. PICK f : Iterates(f, Progress, [i |-> i, shown |-> shown], G)
  <2> HIDE DEF G
  <2> QED
    BY <1>1, <1>3, Recursion, Zenon
<1>5. f \in [Nat -> Progress] /\ f[0] = [i |-> i, shown |-> shown]
  BY <1>4 DEF Iterates
<1>6. ASSUME NEW j \in Nat PROVE f[j + 1] = ShowPlace(<<b, j>>, f[j])
  <2>1. f[j + 1] = G[<<j, f[j]>>]
    BY <1>4 DEF Iterates
  <2> QED
    BY <2>1, <1>5
<1> DEFINE h == [j \in 0 .. E |-> f[j]]
<1>7. h = [j \in 0 .. E |-> Step(h, j)]
  <2>1. ASSUME NEW j \in 0 .. E PROVE f[j] = Step(h, j)
    <3>1. CASE j = 0
      BY <3>1, <1>5
    <3>2. CASE j # 0
      <4>1. j - 1 \in Nat /\ j - 1 \in 0 .. E /\ (j - 1) + 1 = j
        BY <3>2, SizesAssumption
      <4>2. f[j] = ShowPlace(<<b, j - 1>>, f[j - 1]) /\ h[j - 1] = f[j - 1]
        BY <4>1, <1>6
      <4> QED
        BY <3>2, <4>2
    <3> QED
      BY <3>1, <3>2
  <2> HIDE DEF Step
  <2> QED
    BY <2>1
<1>8. F = [j \in 0 .. E |-> Step(F, j)]
  <2> HIDE DEF h, Step
  <2> QED
    BY <1>7
<1>9. ShowDirFor(b) = F[E]
  BY DEF ShowDirFor
<1> DEFINE Same == {n \in Nat : n <= E => F[n] = f[n]}
<1> HIDE DEF F
<1>10. Nat \subseteq Same
  <2>1. 0 \in Same
    <3>1. F[0] = Step(F, 0)
      <4> HIDE DEF Step
      <4> QED
        BY <1>8, SizesAssumption
    <3> QED
      BY <3>1, <1>5
  <2>2. ASSUME NEW n \in Nat, n \in Same PROVE n + 1 \in Same
    <3> SUFFICES ASSUME n + 1 <= E PROVE F[n + 1] = f[n + 1]
      OBVIOUS
    <3>1. F[n + 1] = Step(F, n + 1)
      <4> HIDE DEF Step
      <4> QED
        BY <1>8, SizesAssumption
    <3>2. Step(F, n + 1) = ShowPlace(<<b, n>>, F[n])
      <4>1. n + 1 # 0 /\ (n + 1) - 1 = n
        OBVIOUS
      <4> QED
        BY <4>1
    <3>3. F[n] = f[n]
      BY <2>2, SizesAssumption
    <3> QED
      BY <3>1, <3>2, <3>3, <1>6
  <2> HIDE DEF Same
  <2> QED
    BY <2>1, <2>2, SetInduction
<1>11. F[E] = f[E]
  BY <1>10, SizesAssumption
<1> QED
  BY <1>5, <1>6, <1>9, <1>11 DEF Passes

-----------------------------------------------------------------------------
(* Type correctness *)

\* The pass over a block adds at most E to i, and shows entries only.
LEMMA ShowDirForType ==
    ASSUME TypeOK, NEW b
    PROVE  /\ ShowDirFor(b) \in Progress
           /\ ShowDirFor(b).i <= i + E
<1>1. PICK f : Passes(f, b)
  BY ShowDirForPasses
<1> DEFINE Bounded == {n \in Nat : n <= E => f[n].i <= i + n}
<1>2. ASSUME NEW j \in Nat PROVE f[j] \in Progress /\ f[j].i \in Nat
  BY <1>1 DEF Passes, Progress
<1>3. i \in Nat /\ E \in Nat
  BY SizesAssumption DEF TypeOK
<1>4. Nat \subseteq Bounded
  <2>1. 0 \in Bounded
    BY <1>1, <1>3 DEF Passes
  <2>2. ASSUME NEW n \in Nat, n \in Bounded PROVE n + 1 \in Bounded
    <3> SUFFICES ASSUME n + 1 <= E PROVE f[n + 1].i <= i + (n + 1)
      OBVIOUS
    <3>1. n \in 0 .. E - 1 /\ f[n].i <= i + n
      BY <2>2, <1>3
    <3>2. f[n + 1] = ShowPlace(<<b, n>>, f[n])
      BY <3>1, <1>1 DEF Passes
    <3>3. f[n + 1].i = f[n].i \/ f[n + 1].i = f[n].i + 1
      BY <3>2 DEF ShowPlace
    <3> QED
      BY <3>1, <3>3, <1>2, <1>3
  <2> HIDE DEF Bounded
  <2> QED
    BY <2>1, <2>2, SetInduction
<1> QED
  BY <1>1, <1>2, <1>3, <1>4 DEF Passes

LEMMA InitType == Init => TypeOK
<1> SUFFICES ASSUME Init PROVE TypeOK
  OBVIOUS
<1>1. Dots \subseteq Places /\ <<0, 0>> \in Places /\ \A p \in Dots : p[1] = 0
  BY SizesAssumption DEF Dots, Places
<1>2. 0 \in 0 .. (B + 1) * E
  BY SizesAssumption, Product
<1>3. <<>> \in Seq(Dots)
  OBVIOUS
<1>4. blocks \in 1 .. B /\ occupied = Dots /\ \A p \in Dots : p[1] < blocks
  BY <1>1, SizesAssumption DEF Init
<1>5. occupied \subseteq {p \in Places : p[1] < blocks}
  BY <1>1, <1>4
<1>6. i \in 0 .. (B + 1) * E /\ target \in Places /\ shown \in Seq(occupied)
  BY <1>1, <1>2, <1>3, <1>4 DEF Init
<1>7. op \in Ops \cup {"none"} /\ running \in BOOLEAN /\ found \in BOOLEAN
  BY DEF Init
<1> QED
  BY <1>4, <1>5, <1>6, <1>7 DEF TypeOK

LEMMA NextType ==
    ASSUME TypeOK, [Next]_vars
    PROVE  TypeOK'
<1> USE SizesAssumption
<1>1. /\ i \in Nat /\ (B + 1) * E = B * E + E /\ B * E \in Nat
      /\ occupied \subseteq Places
  BY Product DEF TypeOK
<1>2. i < B * E => i + E \in 0 .. (B + 1) * E /\ i + 1 \in 0 .. (B + 1) * E
  BY <1>1
<1>3. CASE AddEntry
  <2>1. PICK p \in Places \ occupied :
            /\ occupied' = occupied \cup {p}
            /\ blocks' = IF p[1] < blocks THEN blocks ELSE p[1] + 1
    BY <1>3 DEF AddEntry
  <2>2. p[1] \in 0 .. B - 1
    BY <2>1 DEF Places
  <2>3. blocks' \in 1 .. B /\ p[1] < blocks' /\ blocks <= blocks'
    BY <2>1, <2>2 DEF TypeOK
  <2>4. occupied' \subseteq {q \in Places : q[1] < blocks'}
    <3> SUFFICES ASSUME NEW q \in occupied' PROVE q \in Places /\ q[1] < blocks'
      OBVIOUS
    <3>1. CASE q = p
      BY <3>1, <2>1, <2>3
    <3>2. CASE q \in occupied
      <4>1. q \in Places /\ q[1] < blocks /\ q[1] \in 0 .. B - 1
        BY <3>2 DEF TypeOK, Places
      <4> QED
        BY <4>1, <2>2, <2>3 DEF TypeOK
    <3> QED
      BY <3>1, <3>2, <2>1
  <2>5. Dots \subseteq occupied'
    BY <2>1 DEF TypeOK
  <2>6. /\ op' = "none" /\ target' = <<0, 0>> /\ i' = 0 /\ shown' = <<>>
        /\ found' = FALSE /\ running' = running
    BY <1>3 DEF AddEntry, Idle
  <2>7. target' \in Places /\ i' \in 0 .. (B + 1) * E /\ shown' \in Seq(occupied')
    BY <2>6, <1>1 DEF Places
  <2> QED
    BY <2>3, <2>4, <2>5, <2>6, <2>7 DEF TypeOK
<1>4. ASSUME NEW p \in Places, RemoveEntry(p) PROVE TypeOK'
  <2>1. /\ occupied' = occupied \ {p} /\ p \notin Dots /\ blocks' = blocks
        /\ op' = "none" /\ target' = <<0, 0>> /\ i' = 0 /\ shown' = <<>>
        /\ found' = FALSE /\ running' = running
    BY <1>4 DEF RemoveEntry, Idle
  <2>2. target' \in Places /\ i' \in 0 .. (B + 1) * E /\ shown' \in Seq(occupied')
    BY <2>1, <1>1 DEF Places
  <2> QED
    BY <2>1, <2>2 DEF TypeOK
<1>5. ASSUME NEW o \in Ops, NEW p \in Places, Start(o, p) PROVE TypeOK'
  <2>1. 0 \in 0 .. (B + 1) * E /\ <<>> \in Seq(occupied)
    BY <1>1
  <2> QED
    BY <1>5, <2>1 DEF Start, directory, TypeOK
<1>6. CASE ShowDirBlock
  <2>1. i < B * E /\ UNCHANGED <<blocks, occupied, op, target, running, found>>
    BY <1>6 DEF ShowDirBlock, directory
  <2>2. i' \in 0 .. (B + 1) * E /\ shown' \in Seq(occupied)
    <3>1. CASE i \div E >= blocks
      BY <3>1, <1>6, <2>1, <1>2 DEF ShowDirBlock, TypeOK
    <3>2. CASE ~(i \div E >= blocks)
      <4> DEFINE r == ShowDirFor(i \div E)
      <4>1. i' = r.i /\ shown' = r.shown
        BY <3>2, <1>6 DEF ShowDirBlock
      <4>2. r.i \in Nat /\ r.i <= i + E /\ r.shown \in Seq(occupied)
        BY ShowDirForType DEF Progress
      <4> HIDE DEF r
      <4> QED
        BY <4>1, <4>2, <2>1, <1>1
    <3> QED
      BY <3>1, <3>2
  <2> QED
    BY <2>1, <2>2 DEF TypeOK
<1>7. ASSUME End PROVE TypeOK'
  BY <1>7 DEF End, directory, TypeOK
<1>8. target[2] \in 0 .. E - 1
  BY DEF TypeOK, Places
<1>9. i < B * E => i + target[2] \in 0 .. (B + 1) * E
  BY <1>1, <1>8
<1>10. CASE FindDirBlock
  <2>1. i < B * E /\ UNCHANGED <<blocks, occupied, op, target, running, shown>>
    BY <1>10 DEF FindDirBlock, directory
  <2>2. i' \in 0 .. (B + 1) * E /\ found' \in BOOLEAN
    BY <1>10, <2>1, <1>2, <1>9 DEF FindDirBlock, TypeOK
  <2> QED
    BY <2>1, <2>2 DEF TypeOK
<1>11. CASE ChmodBlock
  <2>1. i < B * E /\ UNCHANGED <<blocks, occupied, op, target, running, shown>>
    BY <1>11 DEF ChmodBlock, directory
  <2>2. i' \in 0 .. (B + 1) * E /\ found' \in BOOLEAN
    BY <1>11, <2>1, <1>2, <1>9 DEF ChmodBlock, TypeOK
  <2> QED
    BY <2>1, <2>2 DEF TypeOK
<1>12. CASE PropertiesBlock
  <2>1. i < inode_cnt /\ i < B * E /\ UNCHANGED <<blocks, occupied, op, target, running, shown>>
    BY <1>12 DEF PropertiesBlock, directory
  <2>2. inode_cnt \in Nat
    BY <1>1, Counting
  <2>3. i' = i + E \/ i' = i + target[2] \/ (inode_cnt - i < E /\ i' = i + (inode_cnt - i))
    BY <1>12 DEF PropertiesBlock
  <2>4. i' \in 0 .. (B + 1) * E
    BY <2>1, <2>2, <2>3, <1>1, <1>2, <1>9
  <2>5. found' \in BOOLEAN
    BY <1>12 DEF PropertiesBlock, TypeOK
  <2> QED
    BY <2>1, <2>4, <2>5 DEF TypeOK
<1>13. CASE UNCHANGED vars
  BY <1>13 DEF vars, directory, scan, TypeOK
<1>14. <<0, 0>> \in Places /\ {"ShowDir", "FindDir", "GetEntryProperties", "Chmod"} \subseteq Ops
  BY DEF Places, Ops
<1> QED
  BY <1>3, <1>4, <1>5, <1>6, <1>7, <1>10, <1>11, <1>12, <1>13, <1>14
     DEF Next, Scan, ShowDirEnd, FindDirEnd, ChmodEnd, PropertiesEnd

\* The directory and the scan have their types: a call's counter stays within
\* one block of the last place, and every place lies in a block that exists.
THEOREM TypeCorrect == Spec => []TypeOK
<1>1. TypeOK /\ [Next]_vars => TypeOK'
  BY NextType
<1> QED
  BY InitType, <1>1, PTL DEF Spec

-----------------------------------------------------------------------------
(* Looking a name up *)

LookUps == {"FindDir", "Chmod", "GetEntryProperties"}

\* The counter of FindDir's loop is at the first place of a block; so is that
\* of GetEntryProperties, until it has reached the number of entries.
AtBlocks ==
    /\ op = "FindDir" /\ ~found => i % E = 0
    /\ op = "GetEntryProperties" /\ ~found => (i % E = 0 \/ i >= inode_cnt)

\* A name not found yet is not at a place that has been passed.
NotPassed == op \in LookUps /\ ~found /\ target \in occupied => i <= Slot(target)

\* A look-up returns when it has found the name or passed the last place.
Done ==
    ~running /\ op \in LookUps =>
        found \/ i >= B * E \/ (op = "GetEntryProperties" /\ i >= inode_cnt)

LookUpInv == /\ found => target \in occupied
             /\ AtBlocks /\ NotPassed /\ Done

\* Where a place is: its block and index are the quotient and the remainder.
LEMMA SlotFacts ==
    ASSUME NEW p \in Places
    PROVE  /\ Slot(p) \in Nat /\ Slot(p) < B * E
           /\ p[1] \in 0 .. B - 1 /\ p[2] \in 0 .. E - 1
           /\ Slot(p) \div E = p[1] /\ Slot(p) % E = p[2]
           /\ Slot(p) = p[1] * E + p[2]
           /\ (p[1] + 1) * E = p[1] * E + E
<1>1. PICK b \in 0 .. B - 1, x \in 0 .. E - 1 : p[1] = b /\ p[2] = x
  BY DEF Places
<1>2. b \in Nat /\ x \in Nat /\ E \in Nat /\ B \in Nat /\ x < E /\ b + 1 <= B
  BY SizesAssumption
<1>3. b * E \in Nat /\ (b + 1) * E = b * E + E /\ B * E \in Nat
  BY <1>2, Product
<1>4. (b + 1) * E <= B * E
  BY <1>2, ProductOrder
<1>5. (b * E + x) \div E = b /\ (b * E + x) % E = x
  BY <1>2, Quotient
<1>6. Slot(p) = b * E + x
  BY <1>1 DEF Slot
<1>7. Slot(p) \in Nat /\ Slot(p) < B * E
  BY <1>2, <1>3, <1>4, <1>6
<1> QED
  BY <1>1, <1>3, <1>5, <1>6, <1>7

\* If the counter n has not passed a place, n's block is not a later one.
LEMMA BlockOf ==
    ASSUME NEW n \in Nat, NEW p \in Places, n <= Slot(p)
    PROVE  /\ n \div E <= p[1]
           /\ n \div E # p[1] => n + 1 <= Slot(p)
           /\ n \div E # p[1] /\ n % E = 0 => n + E <= Slot(p)
<1>1. /\ Slot(p) \in Nat /\ p[1] \in Nat /\ p[2] \in 0 .. E - 1
      /\ Slot(p) = p[1] * E + p[2] /\ (p[1] + 1) * E = p[1] * E + E
  BY SlotFacts
<1>2. /\ n \div E \in Nat /\ n % E \in 0 .. E - 1
      /\ n = (n \div E) * E + (n % E) /\ (n \div E) * E \in Nat
  BY Division, Product, SizesAssumption
<1>3. p[1] * E \in Nat /\ E \in Nat
  BY <1>1, Product, SizesAssumption
<1>4. n \div E <= p[1]
  <2> SUFFICES ASSUME p[1] + 1 <= n \div E PROVE FALSE
    BY <1>1, <1>2
  <2>1. (p[1] + 1) * E <= (n \div E) * E
    BY <1>1, <1>2, ProductOrder
  <2> QED
    BY <2>1, <1>1, <1>2, <1>3
<1>5. n \div E # p[1] => (n \div E) * E + E <= p[1] * E
  <2> SUFFICES ASSUME n \div E # p[1] PROVE (n \div E) * E + E <= p[1] * E
    OBVIOUS
  <2>1. n \div E + 1 <= p[1]
    BY <1>1, <1>2, <1>4
  <2>2. (n \div E + 1) * E <= p[1] * E
    BY <2>1, <1>1, <1>2, ProductOrder
  <2> QED
    BY <2>2, <1>2, <1>3, Product
<1> QED
  BY <1>1, <1>2, <1>3, <1>4, <1>5

\* A multiple of E stays one when E is added.
LEMMA NextBlock ==
    ASSUME NEW n \in Nat, n % E = 0
    PROVE  (n + E) % E = 0 /\ (n + E) \div E = n \div E + 1
<1>1. n \div E \in Nat /\ n = (n \div E) * E
  BY Division, SizesAssumption, Product
<1>2. n \div E + 1 \in Nat /\ (n \div E + 1) * E = n + E
  BY <1>1, Product, SizesAssumption
<1>3. (n \div E + 1) * E + 0 = n + E
  BY <1>1, <1>2, SizesAssumption
<1>4. ((n \div E + 1) * E + 0) \div E = n \div E + 1 /\ ((n \div E + 1) * E + 0) % E = 0
  BY <1>2, Quotient, SizesAssumption
<1> QED
  BY <1>3, <1>4

LEMMA InitLookUp == Init => LookUpInv
BY DEF Init, LookUpInv, AtBlocks, NotPassed, Done, LookUps

\* One pass of FindDir's loop.
LEMMA FindDirLooks ==
    ASSUME TypeOK, LookUpInv, FindDirBlock
    PROVE  LookUpInv'
<1>1. /\ op = "FindDir" /\ running /\ ~found /\ i \in Nat /\ target \in Places
      /\ UNCHANGED <<blocks, occupied, op, target, running>>
  BY DEF FindDirBlock, Reading, directory, TypeOK
<1>2. i % E = 0 /\ (target \in occupied => i <= Slot(target))
  BY <1>1 DEF LookUpInv, AtBlocks, NotPassed, LookUps
<1>3. CASE i \div E < blocks /\ target \in occupied /\ target[1] = i \div E
  <2>1. found' = TRUE
    BY <1>3 DEF FindDirBlock
  <2> QED
    BY <1>1, <1>3, <2>1 DEF LookUpInv, AtBlocks, NotPassed, Done
<1>4. CASE ~(i \div E < blocks /\ target \in occupied /\ target[1] = i \div E)
  <2>1. found' = found /\ i' = i + E
    BY <1>4 DEF FindDirBlock
  <2>2. i' % E = 0
    BY <1>1, <1>2, <2>1, NextBlock
  <2>3. target \in occupied => i' <= Slot(target)
    <3> SUFFICES ASSUME target \in occupied PROVE i + E <= Slot(target)
      BY <2>1
    <3>1. target[1] < blocks /\ target[1] \in Nat /\ blocks \in Nat
      BY SlotFacts, <1>1 DEF TypeOK
    <3>2. i \div E <= target[1] /\ i \div E \in Nat
      BY <1>1, <1>2, BlockOf, Division
    <3>3. i \div E # target[1]
      BY <1>4, <3>1, <3>2
    <3> QED
      BY <1>1, <1>2, <3>3, BlockOf
  <2>4. Slot(target)' = Slot(target)
    BY <1>1 DEF Slot
  <2> QED
    BY <1>1, <2>1, <2>2, <2>3, <2>4 DEF LookUpInv, AtBlocks, NotPassed, Done
<1> QED
  BY <1>3, <1>4

\* One pass of Chmod's loop.
LEMMA ChmodLooks ==
    ASSUME TypeOK, LookUpInv, ChmodBlock
    PROVE  LookUpInv'
<1>1. /\ op = "Chmod" /\ running /\ ~found /\ i \in Nat /\ target \in Places
      /\ UNCHANGED <<blocks, occupied, op, target, running>>
  BY DEF ChmodBlock, Reading, directory, TypeOK
<1>2. target \in occupied =>
          /\ i <= Slot(target) /\ target[1] < blocks
          /\ target[1] \in Nat /\ blocks \in Nat /\ i \div E <= target[1] /\ i \div E \in Nat
  <2> SUFFICES ASSUME target \in occupied
               PROVE  /\ i <= Slot(target) /\ target[1] < blocks
                      /\ target[1] \in Nat /\ blocks \in Nat /\ i \div E <= target[1] /\ i \div E \in Nat
    OBVIOUS
  <2>1. i <= Slot(target)
    BY <1>1 DEF LookUpInv, NotPassed, LookUps
  <2>2. target[1] < blocks /\ target[1] \in Nat /\ blocks \in Nat
    BY SlotFacts, <1>1 DEF TypeOK
  <2> QED
    BY <1>1, <2>1, <2>2, BlockOf, Division
<1>3. Slot(target)' = Slot(target)
  BY <1>1 DEF Slot
<1>4. CASE i \div E >= blocks
  <2>1. target \notin occupied
    BY <1>2, <1>4
  <2>2. found' = found
    BY <1>4 DEF ChmodBlock
  <2> QED
    BY <1>1, <2>1, <2>2 DEF LookUpInv, AtBlocks, NotPassed, Done
<1>5. CASE i \div E < blocks /\ target \in occupied /\ target[1] = i \div E
  <2>1. ~(i \div E >= blocks)
    BY <1>2, <1>5
  <2>2. found' = TRUE
    BY <1>5, <2>1 DEF ChmodBlock
  <2> QED
    BY <1>1, <1>5, <2>2 DEF LookUpInv, AtBlocks, NotPassed, Done
<1>6. CASE ~(i \div E >= blocks) /\ ~(target \in occupied /\ target[1] = i \div E)
  <2>1. found' = found /\ i' = i + 1
    BY <1>6 DEF ChmodBlock
  <2>2. target \in occupied => i' <= Slot(target)
    BY <1>1, <1>2, <1>6, <2>1, BlockOf
  <2> QED
    BY <1>1, <1>3, <2>1, <2>2 DEF LookUpInv, AtBlocks, NotPassed, Done
<1>7. i \div E >= blocks \/ i \div E < blocks
  BY <1>1, Division DEF TypeOK
<1> QED
  BY <1>4, <1>5, <1>6, <1>7

\* One pass of the loop in GetEntryProperties.
LEMMA PropertiesLooks ==
    ASSUME TypeOK, LookUpInv, PropertiesBlock
    PROVE  LookUpInv'
<1>1. /\ op = "GetEntryProperties" /\ running /\ ~found /\ i < inode_cnt
      /\ i \in Nat /\ target \in Places /\ E \in Nat
      /\ UNCHANGED <<blocks, occupied, op, target, running>>
  BY SizesAssumption DEF PropertiesBlock, Reading, directory, TypeOK
<1>2. inode_cnt \in Nat /\ inode_cnt' = inode_cnt /\ Slot(target)' = Slot(target)
  BY <1>1, Counting DEF TypeOK, inode_cnt, Slot
<1>3. i % E = 0 /\ (target \in occupied => i <= Slot(target))
  BY <1>1, <1>2 DEF LookUpInv, AtBlocks, NotPassed, LookUps
<1>4. /\ target[1] \in Nat /\ target[2] \in Nat /\ target[2] < E
      /\ Slot(target) = target[1] * E + target[2] /\ target[1] * E \in Nat
  <2>1. /\ target[1] \in 0 .. B - 1 /\ target[2] \in 0 .. E - 1
        /\ Slot(target) = target[1] * E + target[2]
    BY <1>1, SlotFacts
  <2>2. target[1] \in Nat /\ target[2] \in Nat /\ target[2] < E
    BY <2>1, <1>1
  <2>3. target[1] * E \in Nat
    BY <2>2, <1>1, Product
  <2> QED
    BY <2>1, <2>2, <2>3
<1>5. i \div E \in Nat /\ i = (i \div E) * E
  BY <1>1, <1>3, Division, Product
<1> DEFINE left == IF inode_cnt - i < E THEN inode_cnt - i ELSE E
<1>6. left \in Nat /\ left <= E /\ (left = E \/ i + left = inode_cnt)
  BY <1>1, <1>2
<1> HIDE DEF left
<1>7. CASE i \div E >= blocks
  <2>1. target \notin occupied
    <3> SUFFICES ASSUME target \in occupied PROVE FALSE
      OBVIOUS
    <3>1. target[1] < blocks /\ blocks \in Nat
      BY DEF TypeOK
    <3>2. i \div E <= target[1]
      BY <1>1, <1>3, BlockOf
    <3> QED
      BY <1>4, <1>5, <1>7, <3>1, <3>2
  <2>2. found' = found /\ i' = i + E
    BY <1>7 DEF PropertiesBlock
  <2>3. i' % E = 0
    BY <1>1, <1>3, <2>2, NextBlock
  <2> QED
    BY <1>1, <2>1, <2>2, <2>3 DEF LookUpInv, AtBlocks, NotPassed, Done
<1>8. CASE ~(i \div E >= blocks) /\ target \in occupied /\ target[1] = i \div E /\ target[2] < left
  <2>1. found' = TRUE
    BY <1>8 DEF PropertiesBlock, left
  <2> QED
    BY <1>1, <1>8, <2>1 DEF LookUpInv, AtBlocks, NotPassed, Done
<1>9. CASE ~(i \div E >= blocks) /\ ~(target \in occupied /\ target[1] = i \div E /\ target[2] < left)
  <2>1. found' = found /\ i' = i + left
    BY <1>9 DEF PropertiesBlock, left
  <2>2. i' % E = 0 \/ i' >= inode_cnt
    <3>1. CASE left = E
      BY <3>1, <2>1, <1>1, <1>3, NextBlock
    <3>2. CASE i + left = inode_cnt
      BY <3>2, <2>1, <1>2
    <3> QED
      BY <1>6, <3>1, <3>2
  <2>3. target \in occupied => i' <= Slot(target)
    <3> SUFFICES ASSUME target \in occupied PROVE i + left <= Slot(target)
      BY <2>1
    <3>1. CASE target[1] # i \div E
      <4>1. i + E <= Slot(target) /\ Slot(target) \in Nat
        BY <3>1, <1>1, <1>3, BlockOf, SlotFacts
      <4> QED
        BY <4>1, <1>1, <1>6
    <3>2. CASE target[1] = i \div E
      <4>1. left <= target[2]
        BY <3>2, <1>4, <1>6, <1>9
      <4>2. Slot(target) = i + target[2]
        BY <3>2, <1>4, <1>5
      <4> QED
        BY <4>1, <4>2, <1>1, <1>4, <1>6
    <3> QED
      BY <3>1, <3>2
  <2> QED
    BY <1>1, <1>2, <2>1, <2>2, <2>3 DEF LookUpInv, AtBlocks, NotPassed, Done
<1> QED
  BY <1>7, <1>8, <1>9

LEMMA NextLookUp ==
    ASSUME TypeOK, LookUpInv, [Next]_vars
    PROVE  LookUpInv'
<1>1. ASSUME Idle PROVE LookUpInv'
  BY <1>1 DEF Idle, LookUpInv, AtBlocks, NotPassed, Done, LookUps
<1>2. ASSUME NEW o, NEW p \in Places, Start(o, p) PROVE LookUpInv'
  <2>1. op' = o /\ target' = p /\ i' = 0 /\ found' = FALSE /\ running' = TRUE
    BY <1>2 DEF Start
  <2>2. 0 % E = 0
    BY Quotient, SizesAssumption
  <2>3. Slot(target)' >= 0
    <3>1. Slot(p) \in Nat /\ Slot(target)' = Slot(p)
      BY <2>1, SlotFacts DEF Slot
    <3> QED
      BY <3>1
  <2> QED
    BY <2>1, <2>2, <2>3 DEF LookUpInv, AtBlocks, NotPassed, Done
<1>3. CASE ShowDirBlock
  BY <1>3 DEF ShowDirBlock, Reading, directory, LookUpInv, AtBlocks, NotPassed, Done, LookUps
<1>4. ASSUME End, running,
             op \in LookUps => found \/ i >= B * E \/ (op = "GetEntryProperties" /\ i >= inode_cnt)
      PROVE  LookUpInv'
  <2>1. UNCHANGED <<blocks, occupied, op, target, i, found>> /\ inode_cnt' = inode_cnt
        /\ Slot(target)' = Slot(target)
    BY <1>4 DEF End, directory, inode_cnt, Slot
  <2> QED
    BY <1>4, <2>1 DEF LookUpInv, AtBlocks, NotPassed, Done
<1>5. CASE ShowDirEnd
  BY <1>4, <1>5 DEF ShowDirEnd, Reading, LookUps
<1>6. CASE FindDirEnd
  BY <1>4, <1>6 DEF FindDirEnd, Reading
<1>7. CASE ChmodEnd
  BY <1>4, <1>7 DEF ChmodEnd, Reading
<1>8. CASE PropertiesEnd
  <2>1. i \in Nat /\ inode_cnt \in Nat /\ B * E \in Nat
    BY Counting, Product, SizesAssumption DEF TypeOK
  <2> QED
    BY <1>4, <1>8, <2>1 DEF PropertiesEnd, Reading
<1>9. CASE UNCHANGED vars
  <2>1. UNCHANGED <<blocks, occupied, op, target, running, i, found>> /\ inode_cnt' = inode_cnt
        /\ Slot(target)' = Slot(target)
    BY <1>9 DEF vars, directory, scan, inode_cnt, Slot
  <2> QED
    BY <2>1 DEF LookUpInv, AtBlocks, NotPassed, Done
<1>10. <<0, 0>> \in Places
  BY SizesAssumption DEF Places
<1> QED
  BY <1>1, <1>2, <1>3, <1>5, <1>6, <1>7, <1>8, <1>9, <1>10, FindDirLooks, ChmodLooks, PropertiesLooks
     DEF Next, Scan, AddEntry, RemoveEntry

LEMMA LookUpInvHolds == Spec => [](TypeOK /\ LookUpInv)
<1>1. TypeOK /\ LookUpInv /\ [Next]_vars => LookUpInv'
  BY NextLookUp
<1> QED
  BY InitLookUp, TypeCorrect, <1>1, PTL DEF Spec

\* FindDir's loop and Chmod's find a name exactly when the directory has it.
THEOREM LookUpsExact == Spec => []LookupExact
<1>1. TypeOK /\ LookUpInv => LookupExact
  <2> SUFFICES ASSUME TypeOK, LookUpInv, ~running, op \in {"FindDir", "Chmod"}
               PROVE  found <=> target \in occupied
    BY DEF LookupExact
  <2>1. found \/ i >= B * E
    BY DEF LookUpInv, Done, LookUps
  <2>2. ~found /\ target \in occupied => i <= Slot(target)
    BY DEF LookUpInv, NotPassed, LookUps
  <2>3. target \in Places /\ i \in Nat /\ B * E \in Nat
    BY Product, SizesAssumption DEF TypeOK
  <2>4. Slot(target) \in Nat /\ Slot(target) < B * E
    BY <2>3, SlotFacts
  <2> QED
    BY <2>1, <2>2, <2>3, <2>4 DEF LookUpInv
<1> QED
  BY LookUpInvHolds, <1>1, PTL

\* Every number below B * E is that of a place.
LEMMA PlaceAt ==
    ASSUME NEW n \in Nat, n < B * E
    PROVE  <<n \div E, n % E>> \in Places /\ Slot(<<n \div E, n % E>>) = n
<1>1. n \div E \in Nat /\ n % E \in 0 .. E - 1 /\ n = (n \div E) * E + (n % E) /\ (n \div E) * E \in Nat
  BY Division, Product, SizesAssumption
<1>2. n \div E < B
  <2> SUFFICES ASSUME B <= n \div E PROVE FALSE
    BY <1>1, SizesAssumption
  <2>1. B * E <= (n \div E) * E /\ B * E \in Nat
    BY <1>1, ProductOrder, Product, SizesAssumption
  <2> QED
    BY <1>1, <2>1
<1>3. n \div E \in 0 .. B - 1
  BY <1>1, <1>2, SizesAssumption
<1> QED
  BY <1>1, <1>3 DEF Places, Slot

\* A set that has the first m places has at least m members.
LEMMA FirstPlaces ==
    ASSUME NEW S \in SUBSET Places, IsFiniteSet(S),
           NEW m \in Nat, m <= B * E,
           \A q \in Places : Slot(q) < m => q \in S
    PROVE  m <= Cardinality(S)
<1> DEFINE D == 0 .. m - 1
           f == [n \in D |-> <<n \div E, n % E>>]
<1>1. IsFiniteSet(D) /\ Cardinality(D) = m
  BY FS_Interval
<1>2. ASSUME NEW n \in D PROVE f[n] \in S /\ n = f[n][1] * E + f[n][2]
  <2>1. n \in Nat /\ n < m /\ n < B * E
    BY Product, SizesAssumption
  <2>2. <<n \div E, n % E>> \in Places /\ Slot(<<n \div E, n % E>>) = n
    BY <2>1, PlaceAt
  <2>3. f[n] = <<n \div E, n % E>>
    OBVIOUS
  <2> QED
    BY <2>1, <2>2, <2>3 DEF Slot
<1>3. f \in [D -> S]
  BY <1>2
<1>4. f \in Injection(D, S)
  <2> HIDE DEF f, D
  <2>1. \A a, b \in D : f[a] = f[b] => a = b
    BY <1>2
  <2> QED
    BY <1>3, <2>1 DEF Injection, IsInjective
<1> HIDE DEF f, D
<1> QED
  BY <1>1, <1>4, FS_Injection

\* GetEntryProperties finds no wrong entry, and misses one only if there is a
\* hole before it.
THEOREM MissesExplained == Spec => []MissedOnlyBehindHoles
<1>1. TypeOK /\ LookUpInv => MissedOnlyBehindHoles
  <2> SUFFICES ASSUME TypeOK, LookUpInv, ~running, op = "GetEntryProperties",
                      target \in occupied, ~found
               PROVE  \E p \in Places \ occupied : Slot(p) < Slot(target)
    BY DEF MissedOnlyBehindHoles, LookUpInv
  <2>1. i >= B * E \/ i >= inode_cnt
    BY DEF LookUpInv, Done, LookUps
  <2>2. i <= Slot(target)
    BY DEF LookUpInv, NotPassed, LookUps
  <2>3. target \in Places /\ i \in Nat /\ B * E \in Nat /\ occupied \subseteq Places
    BY Product, SizesAssumption DEF TypeOK
  <2>4. Slot(target) \in Nat /\ Slot(target) < B * E /\ IsFiniteSet(occupied) /\ inode_cnt \in Nat
    BY <2>3, SlotFacts, Counting
  <2>5. inode_cnt <= Slot(target)
    BY <2>1, <2>2, <2>3, <2>4
  <2> SUFFICES ASSUME \A q \in Places : Slot(q) < Slot(target) => q \in occupied
               PROVE  FALSE
    OBVIOUS
  <2>6. IsFiniteSet(occupied \ {target}) /\ Cardinality(occupied \ {target}) = inode_cnt - 1
    BY <2>4, FS_RemoveElement DEF inode_cnt
  <2>7. \A q \in Places : Slot(q) < Slot(target) => q \in occupied \ {target}
    BY <2>4
  <2>8. Slot(target) <= Cardinality(occupied \ {target})
    BY <2>3, <2>4, <2>6, <2>7, FirstPlaces
  <2> QED
    BY <2>4, <2>5, <2>6, <2>8
<1> QED
  BY LookUpInvHolds, <1>1, PTL

-----------------------------------------------------------------------------
(* Listing a compact directory *)

\* The output r shows each member of S once.
Shows(r, S) ==
    /\ r.i = Cardinality(S) /\ Len(r.shown) = r.i
    /\ {r.shown[k] : k \in 1 .. Len(r.shown)} = S

now == [i |-> i, shown |-> shown]

\* The entries of the blocks before b, and those before the index j of b.
Before(b) == {p \in occupied : p[1] < b}
Upto(b, j) == {p \in occupied : p[1] < b \/ (p[1] = b /\ p[2] < j)}

\* ShowDir has shown every entry, or those of the blocks before the one it
\* reads next, which are full.
ListInv ==
    op = "ShowDir" /\ Compact =>
        /\ \/ Shows(now, occupied)
           \/ i % E = 0 /\ Shows(now, Before(i \div E))
        /\ ~running => i >= inode_cnt \/ i >= B * E

LEMMA Appended ==
    ASSUME NEW X, NEW s \in Seq(X), NEW p \in X
    PROVE  /\ Len(Append(s, p)) = Len(s) + 1
           /\ {Append(s, p)[k] : k \in 1 .. Len(Append(s, p))} = {s[k] : k \in 1 .. Len(s)} \cup {p}
<1>1. Len(s) \in Nat /\ Len(Append(s, p)) = Len(s) + 1
  OBVIOUS
<1>2. \A k \in 1 .. Len(s) : Append(s, p)[k] = s[k]
  OBVIOUS
<1>3. Append(s, p)[Len(s) + 1] = p
  OBVIOUS
<1>4. \A k : k \in 1 .. Len(s) + 1 <=> (k \in 1 .. Len(s) \/ k = Len(s) + 1)
  BY <1>1
<1> DEFINE t == Append(s, p)
           n == Len(s)
<1> HIDE DEF t, n
<1>5. {t[k] : k \in 1 .. n + 1} = {s[k] : k \in 1 .. n} \cup {p}
  BY <1>2, <1>3, <1>4, Zenon DEF t, n
<1> QED
  BY <1>1, <1>5 DEF t, n

\* One entry more: the pass over the place <<b, j>>.
LEMMA ShowsPlace ==
    ASSUME TypeOK, NEW b \in Nat, NEW j \in 0 .. E - 1,
           NEW r \in Progress, Shows(r, Upto(b, j))
    PROVE  Shows(ShowPlace(<<b, j>>, r), Upto(b, j + 1))
<1> DEFINE p == <<b, j>>
           S == Upto(b, j)
<1>1. occupied \subseteq Places /\ IsFiniteSet(occupied) /\ inode_cnt \in Nat
  BY Counting DEF TypeOK
<1>2. \A q \in occupied : q[1] \in Nat /\ q[2] \in Nat /\ q = <<q[1], q[2]>>
  BY <1>1, SizesAssumption DEF Places
<1>3. S \subseteq occupied /\ p \notin S
  BY DEF Upto
<1>4. IsFiniteSet(S) /\ Cardinality(S) \in Nat /\ r.i = Cardinality(S)
  BY <1>1, <1>3, FS_Subset, FS_CardinalityType DEF Shows
<1>5. CASE p \notin occupied
  <2>1. Upto(b, j + 1) = Upto(b, j)
    BY <1>2, <1>5 DEF Upto
  <2> QED
    BY <1>5, <2>1 DEF ShowPlace
<1>6. CASE p \in occupied
  <2>1. Upto(b, j + 1) = S \cup {p}
    BY <1>2, <1>6 DEF Upto
  <2>2. Cardinality(S) < inode_cnt
    <3>1. S # occupied /\ Cardinality(S) <= inode_cnt
      BY <1>1, <1>3, <1>6, FS_Subset DEF inode_cnt
    <3>2. Cardinality(S) # inode_cnt
      BY <3>1, <1>1, <1>3, FS_Subset DEF inode_cnt
    <3> QED
      BY <3>1, <3>2, <1>1, <1>4
  <2>3. p \in Dots => Cardinality(S) <= 2
    <3> SUFFICES ASSUME p \in Dots PROVE Cardinality(S) <= 2
      OBVIOUS
    <3>1. b = 0 /\ j <= 1
      BY DEF Dots
    <3>2. S \subseteq {<<0, 0>>}
      BY <1>2, <3>1 DEF Upto
    <3>3. IsFiniteSet({<<0, 0>>}) /\ Cardinality({<<0, 0>>}) = 1
      BY FS_Singleton
    <3>4. Cardinality(S) <= 1
      <4> HIDE DEF S
      <4> QED
        BY <3>2, <3>3, FS_Subset
    <3> QED
      BY <3>4, <1>4
  <2>4. ShowPlace(p, r) = [i |-> r.i + 1, shown |-> Append(r.shown, p)]
    BY <1>1, <1>4, <1>6, <2>2, <2>3 DEF ShowPlace
  <2>5. Cardinality(S \cup {p}) = r.i + 1
    BY <1>3, <1>4, FS_AddElement
  <2>6. r.shown \in Seq(occupied) /\ Len(r.shown) = r.i /\ {r.shown[k] : k \in 1 .. Len(r.shown)} = S
    BY DEF Progress, Shows
  <2> HIDE DEF S, p
  <2>7. /\ Len(Append(r.shown, p)) = r.i + 1
        /\ {Append(r.shown, p)[k] : k \in 1 .. Len(Append(r.shown, p))} = S \cup {p}
    BY <1>6, <2>6, Appended
  <2>8. Shows([i |-> r.i + 1, shown |-> Append(r.shown, p)], S \cup {p})
    BY <2>5, <2>7 DEF Shows
  <2> QED
    BY <2>1, <2>4, <2>8 DEF p
<1> QED
  BY <1>5, <1>6

\* The pass over the block b adds the entries of b.
LEMMA ShowsBlock ==
    ASSUME TypeOK, NEW b \in Nat, Shows(now, Before(b))
    PROVE  Shows(ShowDirFor(b), Before(b + 1))
<1>1. PICK f : Passes(f, b)
  BY ShowDirForPasses
<1> DEFINE Right == {n \in Nat : n <= E => Shows(f[n], Upto(b, n))}
<1>2. \A q \in occupied : q[1] \in Nat /\ q[2] \in 0 .. E - 1
  BY SizesAssumption DEF TypeOK, Places
<1>3. Upto(b, 0) = Before(b) /\ Upto(b, E) = Before(b + 1)
  BY <1>2, SizesAssumption DEF Upto, Before
<1>4. Nat \subseteq Right
  <2>1. 0 \in Right
    BY <1>1, <1>3 DEF Passes, now
  <2>2. ASSUME NEW n \in Nat, n \in Right PROVE n + 1 \in Right
    <3> SUFFICES ASSUME n + 1 <= E PROVE Shows(f[n + 1], Upto(b, n + 1))
      OBVIOUS
    <3>1. n \in 0 .. E - 1 /\ n <= E
      BY SizesAssumption
    <3>2. Shows(f[n], Upto(b, n)) /\ f[n] \in Progress /\ f[n + 1] = ShowPlace(<<b, n>>, f[n])
      BY <2>2, <3>1, <1>1 DEF Passes
    <3> QED
      BY <3>1, <3>2, ShowsPlace
  <2> HIDE DEF Right
  <2> QED
    BY <2>1, <2>2, SetInduction
<1>5. Shows(f[E], Upto(b, E))
  BY <1>4, SizesAssumption
<1> QED
  BY <1>1, <1>3, <1>5 DEF Passes

\* A full block has E entries.
LEMMA FullBlock ==
    ASSUME TypeOK, NEW b \in 0 .. B - 1, \A q \in Places : q[1] = b => q \in occupied
    PROVE  Cardinality(Before(b + 1)) = Cardinality(Before(b)) + E
<1> DEFINE Row == {b} \X (0 .. E - 1)
<1>1. occupied \subseteq Places /\ IsFiniteSet(occupied)
  BY Counting DEF TypeOK
<1>2. /\ IsFiniteSet({b}) /\ Cardinality({b}) = 1
      /\ IsFiniteSet(0 .. E - 1) /\ Cardinality(0 .. E - 1) = E
  <2>1. IsFiniteSet({b}) /\ Cardinality({b}) = 1
    BY FS_Singleton
  <2>2. IsFiniteSet(0 .. E - 1) /\ Cardinality(0 .. E - 1) = E
    BY FS_Interval, SizesAssumption
  <2> QED
    BY <2>1, <2>2
<1>3. IsFiniteSet(Row) /\ Cardinality(Row) = 1 * E
  BY <1>2, FS_Product
<1>4. Row \subseteq Places /\ \A q \in Places : q \in Row <=> q[1] = b
  BY DEF Places
<1>5. \A q \in occupied : q[1] \in Nat
  BY <1>1, SizesAssumption DEF Places
<1> HIDE DEF Row
<1>6. Before(b + 1) = Before(b) \cup Row
  <2>1. ASSUME NEW q \in Before(b + 1) PROVE q \in Before(b) \cup Row
    BY <1>1, <1>4, <1>5 DEF Before
  <2>2. ASSUME NEW q \in Before(b) PROVE q \in Before(b + 1)
    BY <1>5 DEF Before
  <2>3. ASSUME NEW q \in Row PROVE q \in Before(b + 1)
    BY <1>4 DEF Before
  <2> QED
    BY <2>1, <2>2, <2>3
<1>7. Before(b) \cap Row = {}
  BY <1>1, <1>4, <1>5 DEF Before
<1>8. IsFiniteSet(Before(b)) /\ Cardinality(Before(b)) \in Nat
  BY <1>1, FS_Subset, FS_CardinalityType DEF Before
<1>9. Cardinality(Before(b) \cup Row) = Cardinality(Before(b)) + Cardinality(Row) - Cardinality({})
  BY <1>3, <1>7, <1>8, FS_Union
<1>10. Cardinality({}) = 0
  BY FS_EmptySet
<1> QED
  BY <1>3, <1>6, <1>8, <1>9, <1>10, SizesAssumption

LEMMA ShowDirShows ==
    ASSUME TypeOK, ListInv, ShowDirBlock
    PROVE  ListInv'
<1> SUFFICES ASSUME Compact'
             PROVE  Shows(now, occupied)' \/ (i % E = 0 /\ Shows(now, Before(i \div E)))'
  BY DEF ShowDirBlock, Reading, ListInv
<1>1. /\ op = "ShowDir" /\ i < inode_cnt /\ i < B * E /\ i \in Nat
      /\ UNCHANGED <<blocks, occupied>>
  BY DEF ShowDirBlock, Reading, directory, TypeOK
<1>2. Compact
  BY <1>1 DEF Compact
<1>3. occupied \subseteq Places /\ IsFiniteSet(occupied) /\ inode_cnt \in Nat
  BY Counting DEF TypeOK
<1>4. ~Shows(now, occupied)
  BY <1>1, <1>3 DEF Shows, now, inode_cnt
<1> PICK b \in Nat : b = i \div E
  BY <1>1, Division
<1>5. i % E = 0 /\ Shows(now, Before(b))
  BY <1>1, <1>2, <1>4 DEF ListInv
<1>6. b \in Nat /\ i = b * E
  <2>1. i = b * E + 0 /\ b * E \in Nat
    BY <1>1, <1>5, Division, Product, SizesAssumption
  <2> QED
    BY <2>1
<1>7. b < B
  <2> SUFFICES ASSUME B <= b PROVE FALSE
    BY <1>6, SizesAssumption
  <2> QED
    BY <1>1, <1>6, ProductOrder, Product, SizesAssumption
<1>8. b < blocks
  <2> SUFFICES ASSUME blocks <= b PROVE FALSE
    BY <1>6 DEF TypeOK
  <2>1. \A q \in occupied : q[1] < blocks /\ q[1] \in Nat
    BY <1>3, SizesAssumption DEF TypeOK, Places
  <2>2. Before(b) = occupied
    BY <2>1, <1>6 DEF Before, TypeOK
  <2> QED
    BY <2>2, <1>4, <1>5
<1>9. i' = ShowDirFor(b).i /\ shown' = ShowDirFor(b).shown
  BY <1>6, <1>8 DEF ShowDirBlock, TypeOK
<1>10. ShowDirFor(b) \in Progress /\ Shows(ShowDirFor(b), Before(b + 1))
  BY <1>5, <1>6, ShowsBlock, ShowDirForType
<1>11. now' = ShowDirFor(b)
  BY <1>9, <1>10 DEF now, Progress
<1>12. CASE \A q \in Places : q[1] = b => q \in occupied
  <2>1. Cardinality(Before(b + 1)) = Cardinality(Before(b)) + E
    <3>1. b \in 0 .. B - 1
      BY <1>6, <1>7, SizesAssumption
    <3> QED
      BY <3>1, <1>12, FullBlock
  <2>2. i' = i + E
    BY <2>1, <1>5, <1>9, <1>10 DEF Shows, now
  <2>3. i' % E = 0 /\ i' \div E = b + 1
    BY <2>2, <1>1, <1>5, NextBlock
  <2>4. Shows(now', Before(b + 1)) /\ Before(b + 1)' = Before(b + 1)
    <3>1. Before(b + 1)' = Before(b + 1)
      BY <1>1 DEF Before
    <3> QED
      BY <3>1, <1>10, <1>11
  <2>5. Before(i \div E)' = Before(b + 1)
    BY <2>3, <1>1 DEF Before
  <2> QED
    BY <2>3, <2>4, <2>5 DEF Shows
<1>13. CASE ~\A q \in Places : q[1] = b => q \in occupied
  <2>1. PICK q \in Places : q[1] = b /\ q \notin occupied
    BY <1>13
  <2>2. \A p \in occupied : p[1] \in Nat /\ ~(b < p[1])
    BY <2>1, <1>2, <1>3, SizesAssumption DEF Compact, Places
  <2>3. Before(b + 1) = occupied
    BY <2>2, <1>6 DEF Before
  <2> QED
    BY <2>3, <1>1, <1>10, <1>11 DEF Shows
<1> QED
  BY <1>12, <1>13

LEMMA NextList ==
    ASSUME TypeOK, ListInv, [Next]_vars
    PROVE  ListInv'
<1>1. ASSUME op' # "ShowDir" PROVE ListInv'
  BY <1>1 DEF ListInv
<1>2. CASE Start("ShowDir", <<0, 0>>)
  <2>1. i' = 0 /\ shown' = <<>> /\ running' = TRUE
    BY <1>2 DEF Start
  <2>2. 0 % E = 0 /\ 0 \div E = 0
    BY Quotient, SizesAssumption
  <2>3. Before(0)' = {}
    <3>1. occupied' \subseteq Places
      BY <1>2 DEF Start, directory, TypeOK
    <3> QED
      BY <3>1, SizesAssumption DEF Before, Places
  <2>4. Shows([i |-> 0, shown |-> <<>>], {})
    BY FS_EmptySet DEF Shows
  <2>5. Before(i \div E)' = {}
    BY <2>1, <2>2, <2>3 DEF Before
  <2>6. (i % E = 0)' /\ Shows(now, Before(i \div E))'
    BY <2>1, <2>2, <2>4, <2>5 DEF Shows, now
  <2> QED
    BY <2>1, <2>6 DEF ListInv
<1>3. ASSUME UNCHANGED <<directory, op, i, shown>>,
             running' = running \/ ~(i < inode_cnt /\ i < B * E)
      PROVE  ListInv'
  <2>1. i \in Nat /\ inode_cnt \in Nat /\ B * E \in Nat
    BY Counting, Product, SizesAssumption DEF TypeOK
  <2>2. /\ occupied' = occupied /\ op' = op /\ now' = now /\ i' = i
        /\ Compact' = Compact /\ inode_cnt' = inode_cnt
        /\ Before(i \div E)' = Before(i \div E)
    BY <1>3 DEF directory, now, Compact, inode_cnt, Before
  <2> QED
    BY <1>3, <2>1, <2>2 DEF ListInv, Shows
<1>4. CASE ShowDirEnd
  BY <1>3, <1>4 DEF ShowDirEnd, End
<1>5. CASE UNCHANGED vars
  BY <1>3, <1>5 DEF vars, scan
<1> QED
  BY <1>1, <1>2, <1>4, <1>5, ShowDirShows
     DEF Next, Scan, AddEntry, RemoveEntry, Idle, Start, Reading, End,
         FindDirBlock, FindDirEnd, ChmodBlock, ChmodEnd, PropertiesBlock, PropertiesEnd

\* ShowDir shows each entry of a directory without holes before its last block
\* once.
THEOREM ListingsExact == Spec => []ListingExact
<1>1. Init => ListInv
  BY DEF Init, ListInv
<1>2. TypeOK /\ ListInv /\ [Next]_vars => ListInv'
  BY NextList
<1>3. TypeOK /\ ListInv => ListingExact
  <2> SUFFICES ASSUME TypeOK, ListInv, ~running, op = "ShowDir", Compact
               PROVE  /\ Len(shown) = inode_cnt
                      /\ {shown[k] : k \in 1 .. Len(shown)} = occupied
    BY DEF ListingExact
  <2>1. Shows(now, occupied)
    <3> SUFFICES ASSUME Shows(now, Before(i \div E)) PROVE Before(i \div E) = occupied
      BY DEF ListInv
    <3>1. /\ occupied \subseteq Places /\ IsFiniteSet(occupied) /\ inode_cnt \in Nat
          /\ i \in Nat /\ B * E \in Nat
      BY Counting, Product, SizesAssumption DEF TypeOK
    <3>2. CASE i >= inode_cnt
      <4>1. Before(i \div E) \subseteq occupied /\ Cardinality(Before(i \div E)) = i
        BY DEF Before, Shows, now
      <4>2. Cardinality(Before(i \div E)) <= inode_cnt
        BY <4>1, <3>1, FS_Subset DEF inode_cnt
      <4>3. Cardinality(Before(i \div E)) = Cardinality(occupied)
        BY <4>1, <4>2, <3>1, <3>2 DEF inode_cnt
      <4> QED
        BY <4>1, <4>3, <3>1, FS_Subset
    <3>3. CASE i >= B * E
      <4>1. \A q \in occupied : q[1] \in Nat /\ q[1] < B
        BY <3>1, SizesAssumption DEF Places
      <4>2. i \div E >= B /\ i \div E \in Nat
        <5>1. i \div E \in Nat /\ i % E \in 0 .. E - 1 /\ i = (i \div E) * E + (i % E)
          BY <3>1, Division
        <5> SUFFICES ASSUME i \div E + 1 <= B PROVE FALSE
          BY <5>1, SizesAssumption
        <5>2. (i \div E + 1) * E <= B * E /\ (i \div E + 1) * E = (i \div E) * E + E
              /\ (i \div E) * E \in Nat
          BY <5>1, ProductOrder, Product, SizesAssumption
        <5> QED
          BY <5>1, <5>2, <3>1, <3>3, SizesAssumption
      <4> QED
        BY <4>1, <4>2, SizesAssumption DEF Before
    <3> QED
      BY <3>2, <3>3 DEF ListInv
  <2> QED
    BY <2>1 DEF Shows, now, inode_cnt
<1> QED
  BY TypeCorrect, <1>1, <1>2, <1>3, PTL DEF Spec
=============================================================================
