---------------------------- MODULE VolumeProofs ----------------------------
(***************************************************************************)
(* Proofs about Volume for every number of inodes, blocks, slots and       *)
(* entries.                                                                *)
(***************************************************************************)
EXTENDS Volume, RecursionLemmas

-----------------------------------------------------------------------------
(* The inductive invariant.  It speaks of the marked directories; that      *)
(* those a path reaches are among them follows.                             *)

Dirs == {d \in inodeBitmap : inodes[d].mode = "dir"}

\* Unmarked inodes are zeroed.
Clean == \A i \in Inodes \ inodeBitmap : inodes[i] = Zeroed

\* A block in a slot of a marked inode is marked, and in no other such slot.
Owners ==
    /\ Owned \subseteq blockBitmap
    /\ \A i, j \in inodeBitmap, k, l \in Slots :
          inodes[i].slot[k] \in Blocks /\ inodes[i].slot[k] = inodes[j].slot[l] => i = j /\ k = l

DotsAt(d) ==
    /\ <<0, 0>> \in Entries(d) /\ At(d, <<0, 0>>) = [name |-> DOT, ino |-> d]
    /\ d # Root => <<0, 1>> \in Entries(d) /\ At(d, <<0, 1>>).name = DOTDOT

\* The entry at x in d leads to a marked inode that has been written, not to
\* the root, and to a directory only if d is its parent.
Sound(d, x) ==
    LET i == At(d, x).ino IN
    /\ i \in inodeBitmap /\ i # Root /\ inodes[i].cnt > 0
    /\ inodes[i].mode = "dir" => At(i, <<0, 1>>) = [name |-> DOTDOT, ino |-> d]

Tree ==
    /\ Root \in Dirs
    /\ \A d \in Dirs : DotsAt(d) /\ \A x \in Links(d) : Sound(d, x)
    /\ \A d, e \in Dirs : \A x \in Links(d), y \in Links(e) :
          At(d, x).ino = At(e, y).ino => d = e /\ x = y

\* The count of d, as far as faults allows.
Counted(d) ==
    LET n == Cardinality(Entries(d)) IN
    /\ faults \subseteq {"repair", "uninitialisedSlot"} => inodes[d].cnt = n
    /\ faults = {"killedInMake"} => inodes[d].cnt \in {n - 1, n}
    /\ faults = {"killedInDelete"} => inodes[d].cnt \in {n, n + 1}

IInv ==
    /\ TypeOK
    /\ Clean
    /\ "uninitialisedSlot" \notin faults => Owners
    /\ "killedInDelete" \notin faults => Tree
    /\ \A d \in Dirs : Counted(d)

-----------------------------------------------------------------------------
(* What the operators of Volume return.                                     *)

\* There are NI inodes, and finitely many places.
LEMMA SizesFinite ==
    /\ IsFiniteSet(Inodes) /\ Cardinality(Inodes) = NI /\ NI \in Nat /\ Root \in Inodes
    /\ IsFiniteSet(Places) /\ IsFiniteSet(Inodes \X Slots)
    /\ 0 \in Direct /\ Direct \subseteq Slots /\ {0, 1} \subseteq Offsets
    /\ \A x \in Places : x[1] \in Direct /\ x[1] \in Slots /\ x[2] \in Offsets /\ x = <<x[1], x[2]>>
<1>1. IsFiniteSet(Inodes) /\ Cardinality(Inodes) = NI
  BY FS_Interval, SizeAssumption DEF Inodes
<1>2. IsFiniteSet(Direct) /\ IsFiniteSet(Offsets) /\ IsFiniteSet(Slots)
  BY FS_Interval, SizeAssumption DEF Direct, Offsets, Slots
<1>3. IsFiniteSet(Places) /\ IsFiniteSet(Inodes \X Slots)
  BY <1>1, <1>2, FS_Product DEF Places
<1> QED
  BY <1>1, <1>3, SizeAssumption DEF Inodes, Root, Direct, Slots, Offsets, Places

\* What i leads to is the least set that has i and that next does not leave.
LEMMA ReachableLeast ==
    ASSUME NEW i \in Inodes, NEW next \in [Inodes -> SUBSET Inodes]
    PROVE  /\ i \in Reachable(i, next) /\ Reachable(i, next) \subseteq Inodes
           /\ \A d \in Reachable(i, next) : next[d] \subseteq Reachable(i, next)
           /\ \A T : i \in T /\ (\A d \in T : d \in Inodes => next[d] \subseteq T)
                    => Reachable(i, next) \subseteq T
<1> DEFINE Step(u, k) == IF k = 0 THEN {i}
                         ELSE LET near == u[k - 1] IN near \cup UNION {next[d] : d \in near}
           G == [p \in Nat \X SUBSET Inodes |-> p[2] \cup UNION {next[d] : d \in p[2]}]
           U == CHOOSE u : u = [k \in Nat |-> Step(u, k)]
<1>1. G \in [Nat \X SUBSET Inodes -> SUBSET Inodes]
  OBVIOUS
<1>2. {i} \in SUBSET Inodes
  OBVIOUS
<1>3. PICK f : Iterates(f, SUBSET Inodes, {i}, G)
  <2> HIDE DEF G
  <2> QED
    BY <1>1, <1>2, Recursion, Zenon
<1>4. f = [k \in Nat |-> Step(f, k)]
  <2> SUFFICES ASSUME NEW k \in Nat PROVE f[k] = Step(f, k)
    <3> HIDE DEF Step
    <3> QED
      BY <1>3 DEF Iterates
  <2>1. CASE k = 0
    BY <2>1, <1>3 DEF Iterates
  <2>2. CASE k # 0
    <3>1. k - 1 \in Nat /\ (k - 1) + 1 = k
      BY <2>2
    <3>2. f[k] = G[<<k - 1, f[k - 1]>>]
      BY <3>1, <1>3 DEF Iterates
    <3>3. Step(f, k) = f[k - 1] \cup UNION {next[d] : d \in f[k - 1]}
      BY <2>2
    <3>4. G[<<k - 1, f[k - 1]>>] = f[k - 1] \cup UNION {next[d] : d \in f[k - 1]}
      BY <3>1, <1>3 DEF Iterates
    <3> HIDE DEF Step, G
    <3> QED
      BY <3>2, <3>3, <3>4
  <2> QED
    BY <2>1, <2>2
<1>5. U = [k \in Nat |-> Step(U, k)]
  <2>1. \E u : u = [k \in Nat |-> Step(u, k)]
    BY <1>4, Zenon
  <2> HIDE DEF Step
  <2> QED
    BY <2>1, Zenon
<1>6. Reachable(i, next) = U[NI]
  BY DEF Reachable
<1> HIDE DEF U
<1>7. U[0] = {i} /\ \A k \in Nat : U[k + 1] = U[k] \cup UNION {next[d] : d \in U[k]}
  <2>1. U[0] = Step(U, 0) /\ \A k \in Nat : U[k + 1] = Step(U, k + 1)
    <3> HIDE DEF Step
    <3> QED
      BY <1>5
  <2>2. Step(U, 0) = {i}
    OBVIOUS
  <2>3. ASSUME NEW k \in Nat PROVE Step(U, k + 1) = U[k] \cup UNION {next[d] : d \in U[k]}
    <3>1. k + 1 # 0 /\ (k + 1) - 1 = k
      OBVIOUS
    <3> QED
      BY <3>1
  <2> QED
    BY <2>1, <2>2, <2>3
<1>8. U \in [Nat -> SUBSET Inodes]
  <2> DEFINE Typed == {k \in Nat : U[k] \in SUBSET Inodes}
  <2>1. 0 \in Typed
    BY <1>7
  <2>2. ASSUME NEW k \in Nat, k \in Typed PROVE k + 1 \in Typed
    BY <1>7, <2>2
  <2>3. Nat \subseteq Typed
    <3> HIDE DEF Typed
    <3> QED
      BY <2>1, <2>2, SetInduction
  <2> QED
    BY <2>3, <1>5
<1> QED
  BY <1>6, <1>7, <1>8, SizesFinite, Closure

\* An entry has a name and an inode.
LEMMA EntryType ==
    ASSUME TypeOK, NEW d \in Inodes, NEW x \in Entries(d)
    PROVE  /\ x \in Places /\ inodes[d].slot[x[1]] \in Blocks
           /\ At(d, x) \in Entry /\ At(d, x).ino \in Inodes /\ At(d, x) # NIL
<1>1. x \in Places /\ x[1] \in Slots /\ x[2] \in Offsets /\ inodes[d].slot[x[1]] \in Blocks
  BY SizesFinite DEF Entries
<1>2. dirs[inodes[d].slot[x[1]]] \in [Offsets -> Entry \cup {NIL}]
  BY <1>1 DEF TypeOK
<1>3. At(d, x) \in Entry /\ At(d, x) # NIL
  BY <1>1, <1>2 DEF At, Entries
<1> QED
  BY <1>1, <1>3 DEF Entry

LEMMA ChildrenType ==
    ASSUME TypeOK, NEW d \in Inodes
    PROVE  Children(d) \subseteq Inodes
BY EntryType DEF Children, Links

\* The linked inodes are the least set that has the root and, with a directory,
\* the inodes of its entries.
LEMMA LinkedLeast ==
    ASSUME TypeOK
    PROVE  /\ Root \in Linked /\ Linked \subseteq Inodes
           /\ \A d \in Linked : Children(d) \subseteq Linked
           /\ \A T : Root \in T /\ (\A d \in T : d \in Inodes => Children(d) \subseteq T)
                    => Linked \subseteq T
<1> DEFINE next == [d \in Inodes |-> Children(d)]
<1>1. next \in [Inodes -> SUBSET Inodes] /\ Root \in Inodes
  BY ChildrenType, SizesFinite
<1>2. Linked = Reachable(Root, next)
  BY DEF Linked
<1>3. \A d \in Inodes : next[d] = Children(d)
  OBVIOUS
<1> HIDE DEF next
<1> QED
  BY <1>1, <1>2, <1>3, ReachableLeast

\* The directories that a path leads to are marked.
LEMMA LinkedDirsMarked ==
    ASSUME TypeOK, Clean
    PROVE  LinkedDirs \subseteq Dirs
BY LinkedLeast DEF LinkedDirs, Dirs, Clean, Zeroed

\* What an operation does elsewhere leaves a directory as it is.
LEMMA SameDirectory ==
    ASSUME NEW d,
           inodes'[d].slot = inodes[d].slot,
           \A k \in Slots : inodes[d].slot[k] \in Blocks =>
               dirs'[inodes[d].slot[k]] = dirs[inodes[d].slot[k]]
    PROVE  /\ Entries(d)' = Entries(d)
           /\ \A x \in Entries(d) : At(d, x)' = At(d, x)
           /\ Links(d)' = Links(d)
<1>1. \A x \in Places : x[1] \in Slots
  BY SizesFinite
<1>2. Entries(d)' = Entries(d)
  BY <1>1 DEF Entries
<1>3. \A x \in Entries(d) : At(d, x)' = At(d, x)
  BY <1>1 DEF Entries, At
<1> QED
  BY <1>2, <1>3 DEF Links, Special

\* A block is owned when it is in a slot of a marked inode.
LEMMA OwnedMeans ==
    ASSUME NEW recs, NEW marked, NEW b
    PROVE  b \in OwnedIn(recs, marked) <=>
               b \in Blocks /\ \E j \in marked, l \in Slots : recs[j].slot[l] = b
BY DEF OwnedIn

LEMMA Positive == \A m \in Nat : m # 0 => m > 0
OBVIOUS

LEMMA CountUp ==
    ASSUME NEW r \in INode
    PROVE  [r EXCEPT !.cnt = r.cnt + 1] \in INode
BY DEF INode

\* The parent's inode after one more entry, in the block b of its slot k.
Extended(r, k, b) == [r EXCEPT !.slot[k] = b, !.cnt = @ + 1]

LEMMA SlotAndCount ==
    ASSUME NEW r \in INode, NEW k \in Slots, NEW b \in Blocks
    PROVE  /\ Extended(r, k, b) \in INode
           /\ Extended(r, k, b).mode = r.mode /\ Extended(r, k, b).cnt = r.cnt + 1
           /\ Extended(r, k, b).slot = [r.slot EXCEPT ![k] = b]
<1> DEFINE new == Extended(r, k, b)
           mid == [r EXCEPT !.slot[k] = b]
<1>1. mid \in INode /\ mid.cnt = r.cnt /\ mid.mode = r.mode
      /\ mid.slot = [r.slot EXCEPT ![k] = b]
  BY DEF INode
<1>2. new = [mid EXCEPT !.cnt = mid.cnt + 1]
  BY DEF INode, Extended
<1> HIDE DEF mid, new
<1>3. new \in INode
  BY <1>1, <1>2, CountUp
<1> QED
  BY <1>1, <1>2, <1>3 DEF INode, new

-----------------------------------------------------------------------------
(* MakeDir and Create.                                                      *)

\* Where the parent's new entry goes: into a block that is in no other slot,
\* into an empty entry of it.
Placed(d, x, pb, n, i, parent) ==
    /\ parent.block \in Blocks
    /\ \A j \in inodeBitmap, k \in Slots :
           inodes[j].slot[k] = parent.block => j = d /\ k = x[1]
    /\ parent.rec \in INode /\ parent.rec.mode = "dir"
    /\ parent.rec.cnt = inodes[d].cnt + 1
    /\ parent.rec.slot = [inodes[d].slot EXCEPT ![x[1]] = parent.block]
    /\ parent.data \in [Offsets -> Entry \cup {NIL}]
    /\ parent.data[x[2]] = [name |-> n, ino |-> i]
    /\ pb = {} => /\ inodes[d].slot[x[1]] = parent.block /\ parent.block \notin Free
                  /\ dirs[parent.block][x[2]] = NIL
                  /\ \A o \in Offsets \ {x[2]} : parent.data[o] = dirs[parent.block][o]
    /\ pb # {} => /\ pb = {parent.block} /\ parent.block \in Free
                  /\ inodes[d].slot[x[1]] = NIL
                  /\ \A o \in Offsets \ {x[2]} : parent.data[o] = NIL

LEMMA ParentEntry ==
    ASSUME TypeOK, Owners, NEW d \in Dirs, NEW x \in Places, Open(d, x),
           NEW pb \in ParentBlocks(d, x), NEW n \in Names, NEW i \in Inodes,
           NEW parent, parent = WithEntry(d, x, pb, n, i)
    PROVE  Placed(d, x, pb, n, i, parent)
<1> DEFINE b == IF pb = {} THEN inodes[d].slot[x[1]] ELSE CHOOSE c \in pb : TRUE
           old == IF pb = {} THEN dirs[b] ELSE Empty
           e == [name |-> n, ino |-> i]
<1>1. /\ d \in Inodes /\ inodes[d] \in INode /\ inodes[d].mode = "dir" /\ d \in inodeBitmap
      /\ x[1] \in Slots /\ x[2] \in Offsets /\ inodes[d].cnt \in Nat
      /\ inodes[d].slot \in [Slots -> Blocks \cup {NIL, WILD}]
  BY SizesFinite DEF Dirs, TypeOK, INode
<1>2. /\ b \in Blocks
      /\ pb = {} => inodes[d].slot[x[1]] = b /\ dirs[b][x[2]] = NIL /\ b \notin Free
      /\ pb # {} => pb = {b} /\ b \in Free /\ inodes[d].slot[x[1]] = NIL
  <2>1. CASE inodes[d].slot[x[1]] = NIL
    <3>1. PICK c \in Free : pb = {c}
      BY <2>1 DEF ParentBlocks
    <3>2. b = c
      BY <3>1
    <3> QED
      BY <3>1, <3>2, <2>1 DEF Free
  <2>2. CASE inodes[d].slot[x[1]] # NIL
    <3>1. pb = {} /\ b = inodes[d].slot[x[1]] /\ b \in Blocks /\ dirs[b][x[2]] = NIL
      BY <2>2 DEF ParentBlocks, Open
    <3>2. b \in Owned
      BY <3>1, <1>1 DEF Owned, OwnedIn
    <3> QED
      BY <3>1, <3>2 DEF Owners, Free
  <2> QED
    BY <2>1, <2>2
<1>3. parent = [rec |-> [inodes[d] EXCEPT !.slot[x[1]] = b, !.cnt = @ + 1],
                block |-> b, data |-> [old EXCEPT ![x[2]] = e]]
  BY DEF WithEntry
<1> HIDE DEF b
<1>4. \A j \in inodeBitmap, k \in Slots : inodes[j].slot[k] = b => j = d /\ k = x[1]
  <2>1. CASE pb = {}
    BY <2>1, <1>1, <1>2 DEF Owners
  <2>2. CASE pb # {}
    BY <2>2, <1>1, <1>2 DEF Owners, Owned, OwnedIn, Free
  <2> QED
    BY <2>1, <2>2
<1>5. old \in [Offsets -> Entry \cup {NIL}] /\ e \in Entry
  BY <1>2 DEF TypeOK, Empty, Entry
<1>6. \A o \in Offsets : pb # {} => old[o] = NIL
  BY DEF Empty
<1>7. parent.block = b /\ parent.data = [old EXCEPT ![x[2]] = e]
      /\ parent.rec = [inodes[d] EXCEPT !.slot[x[1]] = b, !.cnt = @ + 1]
  BY <1>3
<1>9. /\ parent.rec \in INode /\ parent.rec.mode = "dir" /\ parent.rec.cnt = inodes[d].cnt + 1
      /\ parent.rec.slot = [inodes[d].slot EXCEPT ![x[1]] = b]
  <2>1. parent.rec = Extended(inodes[d], x[1], b)
    BY <1>7 DEF Extended
  <2> QED
    BY <2>1, <1>1, <1>2, SlotAndCount
<1> QED
  BY <1>1, <1>2, <1>4, <1>5, <1>6, <1>7, <1>9 DEF Placed

\* Nothing is open where there is an entry.
LEMMA OpenIsEmpty ==
    ASSUME NEW d, NEW x \in Places, Open(d, x)
    PROVE  x \notin Entries(d)
BY BlockAssumption DEF Open, Entries

\* However far a creation in d gets, it leaves the other directories alone, and
\* d either as it was or with one entry more, at x.
LEMMA Growth ==
    ASSUME TypeOK, Owners, NEW d \in Dirs, NEW x \in Places, Open(d, x),
           NEW pb \in ParentBlocks(d, x), NEW n \in Names, NEW i \in Inodes \ inodeBitmap,
           NEW parent, parent = WithEntry(d, x, pb, n, i), NEW c \in Free \ pb,
           inodes'[d] \in {inodes[d], parent.rec},
           \A j \in Inodes \ {d, i} : inodes'[j] = inodes[j],
           dirs'[parent.block] \in {dirs[parent.block], parent.data},
           inodes'[d] = parent.rec => dirs'[parent.block] = parent.data,
           \A b \in Blocks \ {c, parent.block} : dirs'[b] = dirs[b]
    PROVE  /\ \A e \in Dirs \ {d} :
                  /\ Entries(e)' = Entries(e) /\ Links(e)' = Links(e)
                  /\ \A y \in Entries(e) : At(e, y)' = At(e, y)
           /\ x \notin Entries(d)
           /\ \A y \in Entries(d) : At(d, y)' = At(d, y)
           /\ \/ Entries(d)' = Entries(d)
              \/ Entries(d)' = Entries(d) \cup {x} /\ At(d, x)' = [name |-> n, ino |-> i]
           /\ inodes'[d] = parent.rec => Entries(d)' = Entries(d) \cup {x}
<1> DEFINE b == parent.block
<1>1. /\ b \in Blocks /\ c \in Blocks /\ c # b
      /\ \A j \in inodeBitmap, k \in Slots : inodes[j].slot[k] = b => j = d /\ k = x[1]
      /\ parent.rec.slot = [inodes[d].slot EXCEPT ![x[1]] = b]
      /\ parent.data[x[2]] = [name |-> n, ino |-> i]
      /\ pb = {} => /\ inodes[d].slot[x[1]] = b /\ dirs[b][x[2]] = NIL
                    /\ \A o \in Offsets \ {x[2]} : parent.data[o] = dirs[b][o]
      /\ pb # {} => /\ pb = {b} /\ b \in Free /\ inodes[d].slot[x[1]] = NIL
                    /\ \A o \in Offsets \ {x[2]} : parent.data[o] = NIL
  <2>1. i \in Inodes
    OBVIOUS
  <2> QED
    BY <2>1, ParentEntry DEF Free, Placed
<1>2. /\ d \in Inodes /\ d \in inodeBitmap /\ x[1] \in Slots /\ x[2] \in Offsets
      /\ x = <<x[1], x[2]>> /\ inodes[d].slot \in [Slots -> Blocks \cup {NIL, WILD}]
  BY SizesFinite DEF Dirs, TypeOK, INode
<1>3. \A j \in inodeBitmap, k \in Slots : inodes[j].slot[k] # c
  BY DEF Owners, Owned, OwnedIn, Free
<1>4. [name |-> n, ino |-> i] \in Entry
  BY DEF Entry
<1>5. ASSUME NEW e \in Dirs \ {d}
      PROVE  /\ Entries(e)' = Entries(e) /\ Links(e)' = Links(e)
             /\ \A y \in Entries(e) : At(e, y)' = At(e, y)
  <2>1. inodes'[e] = inodes[e] /\ e \in inodeBitmap
    BY DEF Dirs, TypeOK
  <2>2. ASSUME NEW k \in Slots, inodes[e].slot[k] \in Blocks
        PROVE  dirs'[inodes[e].slot[k]] = dirs[inodes[e].slot[k]]
    BY <2>1, <2>2, <1>1, <1>3
  <2> QED
    BY <2>1, <2>2, SameDirectory
<1> HIDE DEF b
<1>6. x \notin Entries(d)
  BY OpenIsEmpty
<1>7. \A k \in Slots \ {x[1]} : /\ inodes'[d].slot[k] = inodes[d].slot[k]
                                /\ inodes[d].slot[k] \in Blocks =>
                                      dirs'[inodes[d].slot[k]] = dirs[inodes[d].slot[k]]
  BY <1>1, <1>2, <1>3 DEF b
<1>8. \A y \in Places : /\ y[1] \in Slots /\ y[2] \in Offsets
                        /\ y[1] = x[1] /\ y[2] = x[2] => y = x
  BY SizesFinite
<1>9. CASE pb = {}
  <2>1. inodes'[d].slot[x[1]] = b /\ inodes[d].slot[x[1]] = b
    BY <1>1, <1>2, <1>9
  <2>2. \A o \in Offsets \ {x[2]} : dirs'[b][o] = dirs[b][o]
    BY <1>1, <1>9 DEF b
  <2>3. \A y \in Places \ {x} : y \in Entries(d)' <=> y \in Entries(d)
    BY <2>1, <2>2, <1>7, <1>8 DEF Entries
  <2>4. \A y \in Entries(d) : At(d, y)' = At(d, y)
    <3> SUFFICES ASSUME NEW y \in Entries(d) PROVE At(d, y)' = At(d, y)
      OBVIOUS
    <3>1. y \in Places /\ y # x /\ inodes[d].slot[y[1]] \in Blocks
      BY <1>6 DEF Entries
    <3> QED
      BY <3>1, <2>1, <2>2, <1>7, <1>8 DEF At
  <2>5. CASE dirs'[b] = dirs[b]
    <3>1. parent.data # dirs[b]
      BY <1>1, <1>4, <1>9, EmptyAssumption
    <3>2. inodes'[d] # parent.rec
      BY <3>1, <2>5 DEF b
    <3>3. x \notin Entries(d)'
      BY <2>5, <2>1, <1>1, <1>9 DEF Entries
    <3>4. Entries(d)' = Entries(d)
      BY <3>3, <2>3, <1>6 DEF Entries
    <3> QED
      BY <3>2, <3>4, <2>4, <1>5, <1>6
  <2>6. CASE dirs'[b] = parent.data
    <3>1. At(d, x)' = [name |-> n, ino |-> i] /\ x \in Entries(d)'
      BY <2>6, <2>1, <1>1, <1>4, EmptyAssumption DEF At, Entries
    <3>2. Entries(d)' = Entries(d) \cup {x}
      BY <3>1, <2>3 DEF Entries
    <3> QED
      BY <3>1, <3>2, <2>4, <1>5, <1>6
  <2> QED
    BY <2>5, <2>6 DEF b
<1>10. CASE pb # {}
  <2>1. \A y \in Entries(d) : y \in Places /\ y[1] # x[1]
    BY <1>1, <1>10, BlockAssumption DEF Entries
  <2>2. \A y \in Entries(d) : At(d, y)' = At(d, y)
    BY <2>1, <1>7, <1>8 DEF At, Entries
  <2>3. \A y \in Places : y[1] # x[1] => (y \in Entries(d)' <=> y \in Entries(d))
    BY <1>7, <1>8 DEF Entries
  <2>4. CASE inodes'[d] = inodes[d] /\ inodes'[d] # parent.rec
    <3>1. \A y \in Places : y[1] = x[1] => y \notin Entries(d)'
      BY <2>4, <1>1, <1>10, BlockAssumption DEF Entries
    <3>2. Entries(d)' = Entries(d)
      BY <3>1, <2>1, <2>3 DEF Entries
    <3> QED
      BY <3>2, <2>2, <2>4, <1>5, <1>6
  <2>5. CASE inodes'[d] = parent.rec
    <3>1. inodes'[d].slot[x[1]] = b /\ dirs'[b] = parent.data
      BY <2>5, <1>1, <1>2 DEF b
    <3>2. At(d, x)' = [name |-> n, ino |-> i] /\ x \in Entries(d)'
      BY <3>1, <1>1, <1>4, EmptyAssumption DEF At, Entries
    <3>3. \A y \in Places : y[1] = x[1] /\ y # x => y \notin Entries(d)'
      BY <3>1, <1>1, <1>8, <1>10 DEF Entries
    <3>4. Entries(d)' = Entries(d) \cup {x}
      BY <3>2, <3>3, <2>1, <2>3 DEF Entries
    <3> QED
      BY <3>2, <3>4, <2>2, <1>5, <1>6
  <2> QED
    BY <2>4, <2>5
<1> QED
  BY <1>9, <1>10

\* The tree stays one when a new inode is written, whether or not the entry
\* that leads to it is.
LEMMA GrownTree ==
    ASSUME TypeOK, Tree, NEW d \in Dirs, NEW x, NEW n \in Names, NEW i \in Inodes \ inodeBitmap,
           inodeBitmap' = inodeBitmap \cup {i},
           inodes'[d].mode = "dir", inodes'[d].cnt \in Nat, inodes'[d].cnt >= inodes[d].cnt,
           \A j \in Inodes \ {d, i} : inodes'[j] = inodes[j],
           \A e \in Dirs \ {d} :
               /\ Entries(e)' = Entries(e) /\ Links(e)' = Links(e)
               /\ \A y \in Entries(e) : At(e, y)' = At(e, y),
           \A y \in Entries(d) : At(d, y)' = At(d, y),
           \/ Entries(d)' = Entries(d)
           \/ Entries(d)' = Entries(d) \cup {x} /\ At(d, x)' = [name |-> n, ino |-> i],
           inodes'[i].cnt > 0,
           inodes'[i].mode = "dir" => /\ Entries(i)' = {<<0, 0>>, <<0, 1>>}
                                      /\ At(i, <<0, 0>>)' = [name |-> DOT, ino |-> i]
                                      /\ At(i, <<0, 1>>)' = [name |-> DOTDOT, ino |-> d]
    PROVE  Tree'
<1>1. d \in Inodes /\ d \in inodeBitmap /\ d # i /\ inodes[d].mode = "dir" /\ inodes[d].cnt \in Nat
  BY DEF Dirs, TypeOK, INode
<1>2. \A e \in Dirs' : e \in Dirs \/ (e = i /\ inodes'[i].mode = "dir")
  BY <1>1 DEF Dirs, TypeOK
<1>3. \A e \in Dirs : e \in Dirs' /\ e # i /\ e \in Inodes
  BY <1>1 DEF Dirs, TypeOK
<1>4. \A e \in Dirs : \A y \in Entries(e) : y \in Entries(e)' /\ At(e, y)' = At(e, y)
  OBVIOUS
<1>5. Root \in Dirs'
  BY <1>3 DEF Tree
<1>6. \A e \in Dirs' : DotsAt(e)'
  <2> SUFFICES ASSUME NEW e, e \in Dirs' PROVE DotsAt(e)'
    OBVIOUS
  <2>1. CASE e \in Dirs
    BY <2>1, <1>4 DEF Tree, DotsAt
  <2>2. CASE e = i /\ inodes'[i].mode = "dir"
    BY <2>2 DEF DotsAt
  <2> QED
    BY <2>1, <2>2, <1>2
<1>7. ASSUME NEW e, e \in Dirs', NEW y, y \in Links(e)'
      PROVE  \/ e \in Dirs /\ y \in Links(e) /\ At(e, y)' = At(e, y)
             \/ e = d /\ y = x /\ At(d, x)'.ino = i
  <2>1. y \in Entries(e)' /\ At(e, y)'.name \notin {DOT, DOTDOT}
    BY <1>7 DEF Links, Special
  <2>2. CASE e \in Dirs /\ y \in Entries(e)
    BY <2>1, <2>2, <1>4 DEF Links, Special
  <2>3. CASE e \in Dirs /\ y \notin Entries(e)
    BY <2>1, <2>3
  <2>4. CASE e = i /\ inodes'[i].mode = "dir"
    BY <2>1, <2>4
  <2> QED
    BY <2>2, <2>3, <2>4, <1>2, <1>7
<1>8. ASSUME NEW e \in Dirs, NEW y \in Links(e) PROVE At(e, y).ino # i
  <2>1. Sound(e, y)
    BY DEF Tree
  <2> QED
    BY <2>1 DEF Sound
<1>9. ASSUME NEW e, e \in Dirs', NEW y, y \in Links(e)'
      PROVE  Sound(e, y)'
  <2>1. CASE e \in Dirs /\ y \in Links(e) /\ At(e, y)' = At(e, y)
    <3> PICK j : j = At(e, y).ino
      OBVIOUS
    <3>1. /\ j \in inodeBitmap /\ j # Root /\ inodes[j].cnt > 0 /\ j # i /\ j \in Inodes
          /\ inodes[j].mode = "dir" => At(j, <<0, 1>>) = [name |-> DOTDOT, ino |-> e]
      BY <2>1, <1>8 DEF Tree, Sound, TypeOK
    <3>2. inodes'[j].cnt > 0
      BY <3>1, <1>1
    <3>3. ASSUME inodes'[j].mode = "dir"
          PROVE  At(j, <<0, 1>>)' = [name |-> DOTDOT, ino |-> e]
      <4>1. j \in Dirs
        BY <3>1, <3>3, <1>1 DEF Dirs
      <4>2. <<0, 1>> \in Entries(j) /\ At(j, <<0, 1>>) = [name |-> DOTDOT, ino |-> e]
        BY <4>1, <3>1 DEF Tree, DotsAt, Dirs
      <4> QED
        BY <4>1, <4>2, <1>4
    <3> QED
      BY <3>1, <3>2, <3>3, <2>1 DEF Sound
  <2>2. CASE e = d /\ y = x /\ At(d, x)'.ino = i
    <3>1. i # Root
      BY DEF Tree, Dirs
    <3> QED
      BY <2>2, <3>1 DEF Sound
  <2> QED
    BY <2>1, <2>2, <1>7, <1>9
<1>10. ASSUME NEW e, e \in Dirs', NEW f, f \in Dirs', NEW y, y \in Links(e)', NEW z, z \in Links(f)',
              At(e, y)'.ino = At(f, z)'.ino
       PROVE  e = f /\ y = z
  <2>1. \/ e \in Dirs /\ y \in Links(e) /\ At(e, y)' = At(e, y)
        \/ e = d /\ y = x /\ At(d, x)'.ino = i
    BY <1>7, <1>10
  <2>2. \/ f \in Dirs /\ z \in Links(f) /\ At(f, z)' = At(f, z)
        \/ f = d /\ z = x /\ At(d, x)'.ino = i
    BY <1>7, <1>10
  <2> QED
    BY <2>1, <2>2, <1>8, <1>10 DEF Tree
<1> QED
  BY <1>5, <1>6, <1>9, <1>10 DEF Tree

\* What leaves the directories alone leaves the tree alone.
LEMMA SameTree ==
    ASSUME TypeOK, Tree, inodeBitmap \subseteq inodeBitmap', Dirs' = Dirs,
           \A j \in inodeBitmap : inodes'[j].mode = inodes[j].mode /\ inodes'[j].cnt = inodes[j].cnt,
           \A e \in Dirs : /\ Entries(e)' = Entries(e) /\ Links(e)' = Links(e)
                           /\ \A y \in Entries(e) : At(e, y)' = At(e, y)
    PROVE  Tree'
<1>1. \A e \in Dirs : DotsAt(e)'
  BY DEF Tree, DotsAt
<1>2. \A e \in Dirs : Links(e) \subseteq Entries(e)
  BY DEF Links
<1>3. ASSUME NEW e \in Dirs, NEW y \in Links(e) PROVE Sound(e, y)'
  <2> PICK j : j = At(e, y).ino
    OBVIOUS
  <2>1. /\ j \in inodeBitmap /\ j # Root /\ inodes[j].cnt > 0
        /\ inodes[j].mode = "dir" => At(j, <<0, 1>>) = [name |-> DOTDOT, ino |-> e]
    BY DEF Tree, Sound
  <2>2. At(e, y)' = At(e, y)
    BY <1>2
  <2>3. inodes[j].mode = "dir" => At(j, <<0, 1>>)' = At(j, <<0, 1>>)
    BY <2>1 DEF Dirs, Tree, DotsAt
  <2> QED
    BY <2>1, <2>2, <2>3 DEF Sound
<1>4. ASSUME NEW e \in Dirs, NEW g \in Dirs, NEW y \in Links(e), NEW z \in Links(g),
             At(e, y)'.ino = At(g, z)'.ino
      PROVE  e = g /\ y = z
  BY <1>2, <1>4 DEF Tree
<1> QED
  BY <1>1, <1>3, <1>4 DEF Tree

-----------------------------------------------------------------------------
(* Format.                                                                  *)

\* An empty block, and a zeroed inode, have their types.
LEMMA EmptyType ==
    /\ Empty \in [Offsets -> Entry \cup {NIL}]
    /\ Zeroed \in INode /\ Zeroed.mode = "file"
    /\ \A k \in Slots : Zeroed.slot[k] = WILD
BY DEF Empty, Zeroed, INode

LEMMA InitInv == Init => IInv
<1> SUFFICES ASSUME Init PROVE IInv
  OBVIOUS
<1> DEFINE dot == [name |-> DOT, ino |-> Root]
           rec == [mode |-> "dir", cnt |-> 1,
                   slot |-> [k \in Slots |-> IF k = 0 THEN RootBlock ELSE NIL]]
<1>1. /\ inodes = [j \in Inodes |-> IF j = Root THEN rec ELSE Zeroed]
      /\ dirs = [b \in Blocks |-> IF b = RootBlock THEN [Empty EXCEPT ![0] = dot] ELSE Empty]
      /\ inodeBitmap = {Root} /\ blockBitmap = {RootBlock} /\ faults = {}
  BY DEF Init, Formatted
<1>2. rec \in INode /\ dot \in Entry
  BY BlockAssumption, SizesFinite DEF INode, Entry
<1>3. TypeOK
  BY <1>1, <1>2, EmptyType, SizesFinite, BlockAssumption DEF TypeOK, Faults
<1>4. /\ inodes[Root] = rec /\ rec.mode = "dir" /\ rec.cnt = 1
      /\ rec.slot[0] = RootBlock /\ \A k \in Slots : k # 0 => rec.slot[k] = NIL
  BY <1>1, SizesFinite
<1>5. /\ dirs[RootBlock][0] = dot /\ dot # NIL
      /\ \A o \in Offsets : o # 0 => dirs[RootBlock][o] = NIL
  BY <1>1, <1>2, SizesFinite, BlockAssumption, EmptyAssumption DEF Empty
<1> HIDE DEF rec, dot
<1>6. Entries(Root) = {<<0, 0>>}
  <2>1. <<0, 0>> \in Entries(Root)
    BY <1>4, <1>5, SizesFinite, BlockAssumption DEF Entries, Places
  <2>2. ASSUME NEW y \in Entries(Root) PROVE y = <<0, 0>>
    BY <1>4, <1>5, SizesFinite, BlockAssumption DEF Entries
  <2> QED
    BY <2>1, <2>2
<1>7. At(Root, <<0, 0>>) = [name |-> DOT, ino |-> Root]
  BY <1>4, <1>5 DEF At, dot
<1>8. Dirs = {Root}
  BY <1>1, <1>4 DEF Dirs
<1>9. Clean
  BY <1>1 DEF Clean
<1>10. Owners
  <2>1. \A k \in Slots : inodes[Root].slot[k] \in Blocks => k = 0 /\ inodes[Root].slot[k] = RootBlock
    BY <1>4, BlockAssumption
  <2> QED
    BY <1>1, <2>1 DEF Owners, Owned, OwnedIn
<1>11. Tree
  <2>1. Links(Root) = {}
    BY <1>6, <1>7 DEF Links, Special
  <2>2. DotsAt(Root)
    BY <1>6, <1>7 DEF DotsAt
  <2> QED
    BY <1>8, <2>1, <2>2 DEF Tree
<1>12. Counted(Root)
  BY <1>1, <1>4, <1>6, FS_Singleton DEF Counted
<1> QED
  BY <1>3, <1>8, <1>9, <1>10, <1>11, <1>12 DEF IInv

-----------------------------------------------------------------------------
(* A creation that succeeds.                                                *)

\* What follows from the invariant where an operation begins.
LEMMA Begin ==
    ASSUME IInv, faults = {}
    PROVE  /\ TypeOK /\ Clean /\ Owners /\ Tree
           /\ \A d \in Dirs : inodes[d].cnt = Cardinality(Entries(d))
           /\ LinkedDirs \subseteq Dirs
           /\ \A d \in Dirs : IsFiniteSet(Entries(d)) /\ Cardinality(Entries(d)) \in Nat
<1>1. \A d : Entries(d) \subseteq Places
  BY DEF Entries
<1>2. \A d : IsFiniteSet(Entries(d)) /\ Cardinality(Entries(d)) \in Nat
  BY <1>1, SizesFinite, FS_Subset, FS_CardinalityType
<1> QED
  BY <1>2, LinkedDirsMarked DEF IInv, Counted

\* The dots of a directory that has just been made.
LEMMA NewDirEntries ==
    ASSUME NEW d \in Inodes, NEW i \in Inodes, NEW s, s[0] \in Blocks,
           inodes'[i] = NewDir(d, i, s).rec, dirs'[s[0]] = NewDir(d, i, s).data
    PROVE  /\ Entries(i)' = {<<0, 0>>, <<0, 1>>}
           /\ At(i, <<0, 0>>)' = [name |-> DOT, ino |-> i]
           /\ At(i, <<0, 1>>)' = [name |-> DOTDOT, ino |-> d]
<1> DEFINE a == [name |-> DOT, ino |-> i]
           b == [name |-> DOTDOT, ino |-> d]
<1>1. a \in Entry /\ b \in Entry /\ a # NIL /\ b # NIL
  BY EmptyAssumption DEF Entry
<1>2. inodes'[i].slot[0] = s[0] /\ \A k \in Slots : k # 0 => inodes'[i].slot[k] = NIL
  BY SizesFinite DEF NewDir
<1>3. /\ dirs'[s[0]][0] = a /\ dirs'[s[0]][1] = b
      /\ \A o \in Offsets : o \notin {0, 1} => dirs'[s[0]][o] = NIL
  BY SizesFinite DEF NewDir, Empty
<1> HIDE DEF a, b
<1>4. {<<0, 0>>, <<0, 1>>} \subseteq Entries(i)'
  BY <1>1, <1>2, <1>3, SizesFinite DEF Entries, Places
<1>5. ASSUME NEW y, y \in Entries(i)' PROVE y \in {<<0, 0>>, <<0, 1>>}
  <2>1. y \in Places /\ inodes'[i].slot[y[1]] \in Blocks
        /\ dirs'[inodes'[i].slot[y[1]]][y[2]] # NIL
    BY <1>5 DEF Entries
  <2>2. y[1] = 0
    BY <2>1, <1>2, SizesFinite, BlockAssumption
  <2> QED
    BY <2>1, <2>2, <1>2, <1>3, SizesFinite
<1> QED
  BY <1>2, <1>3, <1>4, <1>5 DEF At, a, b

LEMMA TwoDots == Cardinality({<<0, 0>>, <<0, 1>>}) = 2
<1>1. IsFiniteSet({<<0, 0>>}) /\ Cardinality({<<0, 0>>}) = 1
  BY FS_Singleton
<1>2. {<<0, 0>>} \cup {<<0, 1>>} = {<<0, 0>>, <<0, 1>>} /\ <<0, 1>> \notin {<<0, 0>>}
  OBVIOUS
<1>3. Cardinality({<<0, 0>>} \cup {<<0, 1>>}) = Cardinality({<<0, 0>>}) + 1
  BY <1>1, <1>2, FS_AddElement
<1> QED
  BY <1>1, <1>2, <1>3

\* A creation that succeeds: the new inode i, with what its first block holds, is
\* new, its blocks are s, and the entry for it goes to x in d.
Made(d, x, pb, n, i, k, s, new) ==
    /\ faults = {} /\ d \in Dirs /\ d \in LinkedDirs
    /\ x \in Places /\ Open(d, x)
    /\ pb \in ParentBlocks(d, x)
    /\ n \in Names
    /\ i \in Inodes \ inodeBitmap
    /\ k \in 1 .. S /\ s \in Injections(k, Free \ pb)
    /\ new.rec \in INode /\ new.rec.cnt > 0
    /\ new.data \in [Offsets -> Entry \cup {NIL}]
    /\ new.rec.mode = "file" \/ new = NewDir(d, i, s)
    /\ \A l \in DOMAIN s : new.rec.slot[l] = s[l]
    /\ Put(d, x, pb, n, i, s, new)
    /\ faults' \in {{}, {"uninitialisedSlot"}}
    /\ faults' = {} => \A l \in Slots : new.rec.slot[l] \in Blocks =>
                           l \in DOMAIN s /\ new.rec.slot[l] = s[l]

\* What it does to the inodes, to the blocks and to the entries.
BlocksTaken(d, x, pb, k, s, parent) ==
    /\ s \in [0 .. k - 1 -> Free \ pb] /\ DOMAIN s = 0 .. k - 1 /\ 0 \in DOMAIN s
    /\ s[0] \in Free \ pb /\ s[0] \in Blocks /\ \A l \in DOMAIN s : s[l] \in Free \ pb
    /\ \A l, m \in DOMAIN s : s[l] = s[m] => l = m
    /\ parent.block \in Blocks /\ parent.block # s[0]
    /\ parent.rec \in INode /\ parent.rec.mode = "dir" /\ parent.rec.cnt = inodes[d].cnt + 1
    /\ parent.rec.slot = [inodes[d].slot EXCEPT ![x[1]] = parent.block]
    /\ parent.data \in [Offsets -> Entry \cup {NIL}]
    /\ \A j \in inodeBitmap, l \in Slots :
          inodes[j].slot[l] = parent.block => j = d /\ l = x[1]
    /\ pb = {} => /\ parent.block \notin Free /\ parent.block \in blockBitmap
                  /\ inodes[d].slot[x[1]] = parent.block
    /\ pb # {} => pb = {parent.block} /\ parent.block \in Free /\ inodes[d].slot[x[1]] = NIL

DiskWritten(d, i, pb, s, new, parent) ==
    /\ inodes' = [inodes EXCEPT ![i] = new.rec, ![d] = parent.rec]
    /\ dirs' = [dirs EXCEPT ![s[0]] = new.data, ![parent.block] = parent.data]
    /\ inodeBitmap' = inodeBitmap \cup {i}
    /\ blockBitmap' = blockBitmap \cup pb \cup {s[l] : l \in DOMAIN s}
    /\ inodes'[i] = new.rec /\ inodes'[d] = parent.rec
    /\ \A j \in Inodes \ {d, i} : inodes'[j] = inodes[j]
    /\ dirs'[s[0]] = new.data /\ dirs'[parent.block] = parent.data
    /\ \A b \in Blocks \ {s[0], parent.block} : dirs'[b] = dirs[b]

EntryAdded(d, x, n, i) ==
    /\ \A e \in Dirs \ {d} : /\ Entries(e)' = Entries(e) /\ Links(e)' = Links(e)
                             /\ \A y \in Entries(e) : At(e, y)' = At(e, y)
    /\ x \notin Entries(d)
    /\ \A y \in Entries(d) : At(d, y)' = At(d, y)
    /\ Entries(d)' = Entries(d) \cup {x} /\ At(d, x)' = [name |-> n, ino |-> i]

LEMMA MadeDoes ==
    ASSUME TypeOK, Owners, NEW d \in Dirs, NEW x \in Places, Open(d, x),
           NEW pb \in ParentBlocks(d, x), NEW n \in Names, NEW i \in Inodes \ inodeBitmap,
           NEW k \in 1 .. S, NEW s \in Injections(k, Free \ pb),
           NEW new, new.rec \in INode,
           Put(d, x, pb, n, i, s, new),
           NEW parent, parent = WithEntry(d, x, pb, n, i)
    PROVE  /\ BlocksTaken(d, x, pb, k, s, parent)
           /\ DiskWritten(d, i, pb, s, new, parent)
           /\ EntryAdded(d, x, n, i)
<1>3. /\ s \in [0 .. k - 1 -> Free \ pb] /\ DOMAIN s = 0 .. k - 1 /\ 0 \in DOMAIN s
      /\ s[0] \in Free \ pb /\ s[0] \in Blocks /\ \A l \in DOMAIN s : s[l] \in Free \ pb
      /\ \A l, m \in DOMAIN s : s[l] = s[m] => l = m
  BY DEF Injections, Free
<1>4. /\ parent.block \in Blocks /\ parent.block # s[0]
      /\ parent.rec \in INode /\ parent.rec.mode = "dir" /\ parent.rec.cnt = inodes[d].cnt + 1
      /\ parent.rec.slot = [inodes[d].slot EXCEPT ![x[1]] = parent.block]
      /\ parent.data \in [Offsets -> Entry \cup {NIL}]
      /\ \A j \in inodeBitmap, l \in Slots :
            inodes[j].slot[l] = parent.block => j = d /\ l = x[1]
      /\ pb = {} => /\ parent.block \notin Free /\ parent.block \in blockBitmap
                    /\ inodes[d].slot[x[1]] = parent.block
      /\ pb # {} => pb = {parent.block} /\ parent.block \in Free /\ inodes[d].slot[x[1]] = NIL
  <2>1. i \in Inodes
    OBVIOUS
  <2>2. /\ parent.block \in Blocks
        /\ parent.rec \in INode /\ parent.rec.mode = "dir" /\ parent.rec.cnt = inodes[d].cnt + 1
        /\ parent.rec.slot = [inodes[d].slot EXCEPT ![x[1]] = parent.block]
        /\ parent.data \in [Offsets -> Entry \cup {NIL}]
        /\ \A j \in inodeBitmap, l \in Slots :
              inodes[j].slot[l] = parent.block => j = d /\ l = x[1]
        /\ pb = {} => parent.block \notin Free /\ inodes[d].slot[x[1]] = parent.block
        /\ pb # {} => pb = {parent.block} /\ parent.block \in Free /\ inodes[d].slot[x[1]] = NIL
    <3>1. Placed(d, x, pb, n, i, parent)
      BY <2>1, ParentEntry
    <3> QED
      BY <3>1 DEF Placed
  <2>3. parent.block # s[0]
    BY <2>2, <1>3
  <2>4. pb = {} => parent.block \in blockBitmap
    BY <2>2 DEF Free
  <2> QED
    BY <2>2, <2>3, <2>4
<1>5. /\ d \in Inodes /\ d \in inodeBitmap /\ i # d /\ inodes[d] \in INode
      /\ inodes[d].mode = "dir" /\ inodes[d].cnt \in Nat
      /\ inodes[d].slot \in [Slots -> Blocks \cup {NIL, WILD}] /\ x[1] \in Slots
  BY SizesFinite DEF Dirs, TypeOK, INode
<1>6. /\ inodes' = [inodes EXCEPT ![i] = new.rec, ![d] = parent.rec]
      /\ dirs' = [dirs EXCEPT ![s[0]] = new.data, ![parent.block] = parent.data]
      /\ inodeBitmap' = inodeBitmap \cup {i}
      /\ blockBitmap' = blockBitmap \cup pb \cup {s[l] : l \in DOMAIN s}
  BY DEF Put
<1>7. /\ inodes'[i] = new.rec /\ inodes'[d] = parent.rec
      /\ \A j \in Inodes \ {d, i} : inodes'[j] = inodes[j]
      /\ dirs'[s[0]] = new.data /\ dirs'[parent.block] = parent.data
      /\ \A b \in Blocks \ {s[0], parent.block} : dirs'[b] = dirs[b]
  BY <1>3, <1>4, <1>5, <1>6 DEF TypeOK
<1>8. /\ \A e \in Dirs \ {d} : /\ Entries(e)' = Entries(e) /\ Links(e)' = Links(e)
                              /\ \A y \in Entries(e) : At(e, y)' = At(e, y)
      /\ x \notin Entries(d)
      /\ \A y \in Entries(d) : At(d, y)' = At(d, y)
      /\ \/ Entries(d)' = Entries(d)
         \/ Entries(d)' = Entries(d) \cup {x} /\ At(d, x)' = [name |-> n, ino |-> i]
      /\ Entries(d)' = Entries(d) \cup {x}
  <2>1. inodes'[d] \in {inodes[d], parent.rec} /\ dirs'[parent.block] \in {dirs[parent.block], parent.data}
    BY <1>7
  <2> QED
    BY <2>1, <1>3, <1>7, Growth
<1>9. At(d, x)' = [name |-> n, ino |-> i]
  BY <1>8
<1>10. BlocksTaken(d, x, pb, k, s, parent)
  BY <1>3, <1>4 DEF BlocksTaken
<1>11. DiskWritten(d, i, pb, s, new, parent)
  BY <1>6, <1>7 DEF DiskWritten
<1>12. EntryAdded(d, x, n, i)
  BY <1>8, <1>9 DEF EntryAdded
<1> QED
  BY <1>10, <1>11, <1>12

\* A creation that succeeds keeps the invariant.
LEMMA PutInv ==
    ASSUME IInv, faults = {}, NEW d \in Dirs, NEW x \in Places, Open(d, x),
           NEW pb \in ParentBlocks(d, x), NEW n \in Names, NEW i \in Inodes \ inodeBitmap,
           NEW k \in 1 .. S, NEW s \in Injections(k, Free \ pb),
           NEW new, new.rec \in INode, new.rec.cnt > 0,
           new.data \in [Offsets -> Entry \cup {NIL}],
           \/ new.rec.mode = "file"
           \/ new = NewDir(d, i, s),
           Put(d, x, pb, n, i, s, new),
           faults' \in {{}, {"uninitialisedSlot"}},
           faults' = {} => \A l \in Slots : new.rec.slot[l] \in Blocks =>
                               l \in DOMAIN s /\ new.rec.slot[l] = s[l]
    PROVE  IInv'
<1>1. /\ TypeOK /\ Clean /\ Owners /\ Tree
      /\ \A e \in Dirs : inodes[e].cnt = Cardinality(Entries(e)) /\ IsFiniteSet(Entries(e))
  BY Begin
<1>2. PICK parent : parent = WithEntry(d, x, pb, n, i)
  OBVIOUS
<1>15. /\ BlocksTaken(d, x, pb, k, s, parent)
       /\ DiskWritten(d, i, pb, s, new, parent)
       /\ EntryAdded(d, x, n, i)
  BY <1>1, <1>2, MadeDoes
<1>3. /\ s \in [0 .. k - 1 -> Free \ pb] /\ DOMAIN s = 0 .. k - 1 /\ 0 \in DOMAIN s
      /\ s[0] \in Free \ pb /\ s[0] \in Blocks /\ \A l \in DOMAIN s : s[l] \in Free \ pb
      /\ \A l, m \in DOMAIN s : s[l] = s[m] => l = m
  BY <1>15 DEF BlocksTaken
<1>4. /\ parent.block \in Blocks /\ parent.block # s[0]
      /\ parent.rec \in INode /\ parent.rec.mode = "dir" /\ parent.rec.cnt = inodes[d].cnt + 1
      /\ parent.rec.slot = [inodes[d].slot EXCEPT ![x[1]] = parent.block]
      /\ parent.data \in [Offsets -> Entry \cup {NIL}]
      /\ \A j \in inodeBitmap, l \in Slots :
            inodes[j].slot[l] = parent.block => j = d /\ l = x[1]
      /\ pb = {} => parent.block \notin Free /\ parent.block \in blockBitmap
      /\ pb # {} => pb = {parent.block} /\ parent.block \in Free
  BY <1>15 DEF BlocksTaken
<1>5. /\ d \in Inodes /\ d \in inodeBitmap /\ i # d /\ inodes[d] \in INode
      /\ inodes[d].mode = "dir" /\ inodes[d].cnt \in Nat
      /\ inodes[d].slot \in [Slots -> Blocks \cup {NIL, WILD}] /\ x[1] \in Slots
  BY <1>1, SizesFinite DEF Dirs, TypeOK, INode
<1>6. /\ inodes' = [inodes EXCEPT ![i] = new.rec, ![d] = parent.rec]
      /\ dirs' = [dirs EXCEPT ![s[0]] = new.data, ![parent.block] = parent.data]
      /\ inodeBitmap' = inodeBitmap \cup {i}
      /\ blockBitmap' = blockBitmap \cup pb \cup {s[l] : l \in DOMAIN s}
  BY <1>15 DEF DiskWritten
<1>7. /\ inodes'[i] = new.rec /\ inodes'[d] = parent.rec
      /\ \A j \in Inodes \ {d, i} : inodes'[j] = inodes[j]
      /\ dirs'[s[0]] = new.data /\ dirs'[parent.block] = parent.data
      /\ \A b \in Blocks \ {s[0], parent.block} : dirs'[b] = dirs[b]
  BY <1>15 DEF DiskWritten
<1>8. TypeOK'
  <2>1. inodes' \in [Inodes -> INode] /\ dirs' \in [Blocks -> [Offsets -> Entry \cup {NIL}]]
    BY <1>1, <1>4, <1>6 DEF TypeOK
  <2>2. pb \subseteq Blocks /\ {s[l] : l \in DOMAIN s} \subseteq Blocks
    BY <1>3, <1>4 DEF Free
  <2> QED
    BY <2>1, <2>2, <1>1, <1>6 DEF TypeOK, Faults
<1>9. Clean'
  BY <1>1, <1>5, <1>6, <1>7 DEF Clean
<1>10. ASSUME faults' = {} PROVE Owners'
  <2>1. \A l \in Slots : inodes'[i].slot[l] \in Blocks => l \in DOMAIN s /\ inodes'[i].slot[l] = s[l]
    BY <1>7, <1>10
  <2>2. \A j \in inodeBitmap, l \in Slots :
           \/ inodes'[j].slot[l] = inodes[j].slot[l]
           \/ j = d /\ l = x[1] /\ inodes'[j].slot[l] = parent.block
    BY <1>1, <1>4, <1>5, <1>7 DEF TypeOK
  <2>3. \A l \in DOMAIN s : s[l] \notin blockBitmap /\ s[l] # parent.block
    BY <1>3, <1>4 DEF Free
  <2>4. \A j \in inodeBitmap, l \in Slots :
           inodes[j].slot[l] \in Blocks => inodes[j].slot[l] \in blockBitmap
    BY <1>1 DEF Owners, Owned, OwnedIn
  <2>5. parent.block \in blockBitmap'
    BY <1>4, <1>6
  <2>6. Owned' \subseteq blockBitmap'
    <3>1. blockBitmap \subseteq blockBitmap' /\ \A l \in DOMAIN s : s[l] \in blockBitmap'
      BY <1>6
    <3>2. ASSUME NEW j \in inodeBitmap, NEW l \in Slots, inodes'[j].slot[l] \in Blocks
          PROVE  inodes'[j].slot[l] \in blockBitmap'
      BY <3>1, <3>2, <2>2, <2>4, <2>5
    <3>3. \A l \in Slots : inodes'[i].slot[l] \in Blocks => inodes'[i].slot[l] \in blockBitmap'
      BY <3>1, <2>1
    <3>4. ASSUME NEW b, b \in Owned' PROVE b \in blockBitmap'
      <4>1. PICK j \in inodeBitmap \cup {i}, l \in Slots : b = inodes'[j].slot[l] /\ b \in Blocks
        <5>1. b \in OwnedIn(inodes', inodeBitmap')
          BY <3>4 DEF Owned
        <5>2. b \in Blocks /\ \E j \in inodeBitmap', l \in Slots : inodes'[j].slot[l] = b
          BY <5>1, OwnedMeans
        <5> QED
          BY <5>2, <1>6
      <4> QED
        BY <4>1, <3>2, <3>3
    <3> QED
      BY <3>4
  <2>7. ASSUME NEW j \in inodeBitmap', NEW h \in inodeBitmap', NEW l \in Slots, NEW m \in Slots,
               inodes'[j].slot[l] \in Blocks, inodes'[j].slot[l] = inodes'[h].slot[m]
        PROVE  j = h /\ l = m
    <3>1. CASE j = i /\ h = i
      BY <3>1, <2>1, <2>7, <1>3
    <3>2. CASE j = i /\ h \in inodeBitmap
      BY <3>2, <2>1, <2>2, <2>3, <2>4, <2>7
    <3>3. CASE j \in inodeBitmap /\ h = i
      BY <3>3, <2>1, <2>2, <2>3, <2>4, <2>7
    <3>4. CASE j \in inodeBitmap /\ h \in inodeBitmap
      BY <3>4, <2>2, <2>7, <1>1, <1>4 DEF Owners
    <3> QED
      BY <3>1, <3>2, <3>3, <3>4, <1>6
  <2> QED
    BY <2>6, <2>7 DEF Owners
<1>11. /\ \A e \in Dirs \ {d} : /\ Entries(e)' = Entries(e) /\ Links(e)' = Links(e)
                               /\ \A y \in Entries(e) : At(e, y)' = At(e, y)
       /\ x \notin Entries(d)
       /\ \A y \in Entries(d) : At(d, y)' = At(d, y)
       /\ \/ Entries(d)' = Entries(d)
          \/ Entries(d)' = Entries(d) \cup {x} /\ At(d, x)' = [name |-> n, ino |-> i]
       /\ Entries(d)' = Entries(d) \cup {x}
  BY <1>15 DEF EntryAdded
<1>12. inodes'[i].mode = "dir" => /\ Entries(i)' = {<<0, 0>>, <<0, 1>>}
                                  /\ At(i, <<0, 0>>)' = [name |-> DOT, ino |-> i]
                                  /\ At(i, <<0, 1>>)' = [name |-> DOTDOT, ino |-> d]
                                  /\ inodes'[i].cnt = 2
  <2>1. CASE new.rec.mode = "file"
    BY <2>1, <1>7
  <2>2. CASE new = NewDir(d, i, s)
    <3>1. NewDir(d, i, s).rec.cnt = 2
      BY DEF NewDir
    <3> QED
      BY <3>1, <2>2, <1>3, <1>5, <1>7, NewDirEntries
  <2> QED
    BY <2>1, <2>2
<1>13. Tree'
  <2>1. inodes'[d].mode = "dir" /\ inodes'[d].cnt \in Nat /\ inodes'[d].cnt >= inodes[d].cnt
        /\ inodes'[i].cnt > 0
    BY <1>4, <1>5, <1>7
  <2>2. /\ inodeBitmap' = inodeBitmap \cup {i}
        /\ \A j \in Inodes \ {d, i} : inodes'[j] = inodes[j]
    BY <1>6, <1>7
  <2>3. inodes'[i].mode = "dir" => /\ Entries(i)' = {<<0, 0>>, <<0, 1>>}
                                   /\ At(i, <<0, 0>>)' = [name |-> DOT, ino |-> i]
                                   /\ At(i, <<0, 1>>)' = [name |-> DOTDOT, ino |-> d]
    BY <1>12
  <2>4. \/ Entries(d)' = Entries(d)
        \/ Entries(d)' = Entries(d) \cup {x} /\ At(d, x)' = [name |-> n, ino |-> i]
    BY <1>11
  <2>5. \A e \in Dirs \ {d} : /\ Entries(e)' = Entries(e) /\ Links(e)' = Links(e)
                              /\ \A y \in Entries(e) : At(e, y)' = At(e, y)
    BY <1>11
  <2>6. \A y \in Entries(d) : At(d, y)' = At(d, y)
    BY <1>11
  <2> QED
    BY <2>1, <2>2, <2>3, <2>4, <2>5, <2>6, <1>1, GrownTree
<1>14. \A e \in Dirs' : Counted(e)'
  <2> SUFFICES ASSUME NEW e, e \in Dirs' PROVE inodes'[e].cnt = Cardinality(Entries(e)')
    BY DEF Counted
  <2>1. CASE e = i
    BY <2>1, <1>12, TwoDots DEF Dirs
  <2>2. CASE e = d
    <3>1. Cardinality(Entries(d) \cup {x}) = Cardinality(Entries(d)) + 1
      BY <1>1, <1>11, FS_AddElement
    <3> QED
      BY <3>1, <2>2, <1>1, <1>4, <1>7, <1>11
  <2>3. CASE e \in Dirs \ {d}
    <3>1. inodes'[e] = inodes[e]
      BY <2>3, <1>1, <1>7 DEF Dirs, TypeOK
    <3> QED
      BY <3>1, <2>3, <1>1, <1>11
  <2> QED
    BY <2>1, <2>2, <2>3, <1>1, <1>6, <1>7 DEF Dirs, TypeOK
<1> QED
  BY <1>8, <1>9, <1>10, <1>13, <1>14 DEF IInv

\* Marking inodes and blocks that nothing uses keeps the invariant, and so does
\* marking no block but those in a slot.
LEMMA MarkInv ==
    ASSUME IInv, faults = {}, UNCHANGED <<inodes, dirs>>,
           inodeBitmap \subseteq inodeBitmap', inodeBitmap' \subseteq Inodes,
           blockBitmap' \subseteq Blocks,
           Owned \subseteq blockBitmap' \/ Owned' \subseteq blockBitmap',
           faults' \in {{}, {"repair"}, {"killedInMake"}}
    PROVE  IInv'
<1>1. /\ TypeOK /\ Clean /\ Owners /\ Tree
      /\ \A e \in Dirs : inodes[e].cnt = Cardinality(Entries(e))
  BY Begin
<1>2. inodes' = inodes /\ dirs' = dirs
  OBVIOUS
<1>3. \A j \in inodeBitmap' \ inodeBitmap :
          inodes[j].mode = "file" /\ \A l \in Slots : inodes[j].slot[l] \notin Blocks
  BY <1>1, EmptyType, BlockAssumption DEF Clean
<1>4. \A j \in inodeBitmap', l \in Slots : inodes[j].slot[l] \in Blocks => j \in inodeBitmap
  BY <1>3
<1>5. Owned' = Owned
  <2>1. \A b : b \in OwnedIn(inodes, inodeBitmap) <=>
                  b \in Blocks /\ \E j \in inodeBitmap, l \in Slots : inodes[j].slot[l] = b
    BY OwnedMeans
  <2>2. \A b : b \in OwnedIn(inodes, inodeBitmap') <=>
                  b \in Blocks /\ \E j \in inodeBitmap', l \in Slots : inodes[j].slot[l] = b
    BY OwnedMeans
  <2>3. OwnedIn(inodes, inodeBitmap') = OwnedIn(inodes, inodeBitmap)
    BY <2>1, <2>2, <1>4
  <2>4. Owned' = OwnedIn(inodes, inodeBitmap') /\ Owned = OwnedIn(inodes, inodeBitmap)
    BY <1>2 DEF Owned
  <2> QED
    BY <2>3, <2>4
<1>6. TypeOK'
  BY <1>1, <1>2 DEF TypeOK, Faults
<1>7. Clean'
  BY <1>1, <1>2 DEF Clean
<1>8. Owners'
  BY <1>1, <1>2, <1>4, <1>5 DEF Owners
<1>9. Dirs' = Dirs
  BY <1>2, <1>3 DEF Dirs
<1>10. \A e : /\ Entries(e)' = Entries(e) /\ Links(e)' = Links(e) /\ DotsAt(e)' = DotsAt(e)
             /\ \A y : At(e, y)' = At(e, y)
  BY <1>2 DEF Entries, Links, At, DotsAt
<1>11. \A e \in Dirs : \A y \in Links(e) : Sound(e, y)'
  <2> SUFFICES ASSUME NEW e \in Dirs, NEW y \in Links(e) PROVE Sound(e, y)'
    OBVIOUS
  <2>1. Sound(e, y)
    BY <1>1 DEF Tree
  <2> QED
    BY <2>1, <1>2 DEF Sound, At
<1>12. Tree'
  BY <1>1, <1>9, <1>10, <1>11 DEF Tree
<1>13. \A e \in Dirs' : Counted(e)'
  BY <1>1, <1>2, <1>9, <1>10 DEF Counted
<1> QED
  BY <1>6, <1>7, <1>8, <1>12, <1>13 DEF IInv

\* A creation that fails marks an inode and blocks, and changes nothing else.
LEMMA FailedMakeInv ==
    ASSUME IInv, NEW d \in Inodes, NEW n \in Names, NEW k \in Nat,
           MakeWithoutInode(d, n) \/ MakeWithoutBlocks(d, n, k)
    PROVE  IInv'
<1>1. faults = {}
  BY DEF MakeWithoutInode, MakeWithoutBlocks, NewName, Reached
<1>2. TypeOK /\ Owners
  BY <1>1, Begin
<1>3. UNCHANGED <<inodes, dirs>> /\ faults' = {}
  BY <1>1 DEF MakeWithoutInode, MakeWithoutBlocks
<1>4. inodeBitmap \subseteq inodeBitmap' /\ inodeBitmap' \subseteq Inodes
  BY <1>2 DEF MakeWithoutInode, MakeWithoutBlocks, TypeOK
<1>5. blockBitmap \subseteq blockBitmap' /\ blockBitmap' \subseteq Blocks
  BY <1>2 DEF MakeWithoutInode, MakeWithoutBlocks, TypeOK, ParentBlocks, Free
<1>6. Owned \subseteq blockBitmap'
  BY <1>2, <1>5 DEF Owners
<1>7. faults' \in {{}, {"repair"}, {"killedInMake"}}
  BY <1>3
<1> QED
  BY <1>1, <1>3, <1>4, <1>5, <1>6, <1>7, MarkInv

\* MakeDir and Create fail for want of an inode or of blocks, or they succeed.
LEMMA MakeDirMakes ==
    ASSUME IInv, NEW d \in Inodes, NEW n \in Names, MakeDir(d, n)
    PROVE  \/ MakeWithoutInode(d, n) \/ MakeWithoutBlocks(d, n, 1)
           \/ \E x, pb, i, k, s, new : Made(d, x, pb, n, i, k, s, new)
<1>1. CASE MakeWithoutInode(d, n) \/ MakeWithoutBlocks(d, n, 1)
  BY <1>1
<1>2. CASE /\ NewName(d, n)
           /\ \E x \in Places, i \in Inodes :
              /\ FirstOpen(d, x)
              /\ FirstFree(i)
              /\ \E pb \in ParentBlocks(d, x) : \E s \in Injections(1, Free \ pb) :
                    Put(d, x, pb, n, i, s, NewDir(d, i, s))
              /\ UNCHANGED faults
  <2>1. faults = {} /\ faults' = {} /\ d \in Dirs /\ d \in LinkedDirs
    BY <1>2, Begin DEF NewName, Reached
  <2>2. PICK x \in Places, i \in Inodes :
              /\ FirstOpen(d, x) /\ FirstFree(i)
              /\ \E pb \in ParentBlocks(d, x) : \E s \in Injections(1, Free \ pb) :
                    Put(d, x, pb, n, i, s, NewDir(d, i, s))
    BY <1>2
  <2>13. PICK pb \in ParentBlocks(d, x) : \E s \in Injections(1, Free \ pb) :
              Put(d, x, pb, n, i, s, NewDir(d, i, s))
    BY <2>2
  <2>3. PICK s \in Injections(1, Free \ pb) : Put(d, x, pb, n, i, s, NewDir(d, i, s))
    BY <2>13
  <2>4. PICK new : new = NewDir(d, i, s)
    OBVIOUS
  <2>5. Open(d, x) /\ i \in Inodes \ inodeBitmap /\ 1 \in 1 .. S
    BY <2>2, SizeAssumption DEF FirstOpen, FirstFree
  <2>6. DOMAIN s = {0} /\ s[0] \in Blocks
    BY DEF Injections, Free
  <2>7. new.rec.mode = "dir" /\ new.rec.cnt = 2
        /\ new.rec.slot = [l \in Slots |-> IF l = 0 THEN s[0] ELSE NIL]
    BY <2>4 DEF NewDir
  <2>8. new.rec \in INode
    BY <2>4, <2>6 DEF INode, NewDir
  <2>9. new.data \in [Offsets -> Entry \cup {NIL}]
    BY <2>4 DEF NewDir, Empty, Entry
  <2>10. \A l \in Slots : new.rec.slot[l] \in Blocks => l \in DOMAIN s /\ new.rec.slot[l] = s[l]
    BY <2>6, <2>7, BlockAssumption
  <2>11. Put(d, x, pb, n, i, s, new) /\ new.rec.cnt > 0
    BY <2>3, <2>4, <2>7
  <2>12. faults' \in {{}, {"uninitialisedSlot"}}
    BY <2>1
  <2>14. \A l \in DOMAIN s : new.rec.slot[l] = s[l]
    BY <2>6, <2>7, SizesFinite
  <2>15. Made(d, x, pb, n, i, 1, s, new)
    BY <2>1, <2>4, <2>5, <2>8, <2>9, <2>10, <2>11, <2>12, <2>14 DEF Made
  <2> QED
    BY <2>15
<1> QED
  BY <1>1, <1>2 DEF MakeDir

LEMMA CreateMakes ==
    ASSUME IInv, NEW d \in Inodes, NEW n \in Names, NEW len \in 0 .. S, NEW whole \in BOOLEAN,
           Create(d, n, len, whole)
    PROVE  \/ MakeWithoutInode(d, n)
           \/ \E k \in Nat : MakeWithoutBlocks(d, n, k)
           \/ \E x, pb, i, k, s, new : Made(d, x, pb, n, i, k, s, new)
<1> DEFINE k == IF len = 0 THEN 1 ELSE len
<1>0. k \in 1 .. S /\ k \in Nat
  BY SizeAssumption
<1> HIDE DEF k
<1>1. CASE MakeWithoutInode(d, n) \/ MakeWithoutBlocks(d, n, k)
  BY <1>0, <1>1
<1>2. CASE /\ NewName(d, n)
           /\ \E x \in Places, i \in Inodes :
              /\ FirstOpen(d, x)
              /\ FirstFree(i)
              /\ \E pb \in ParentBlocks(d, x) : \E s \in Injections(k, Free \ pb) :
                 \E garbage \in [Unset(len, whole) -> Blocks \cup {NIL, WILD}] :
                    Put(d, x, pb, n, i, s, NewFile(s, garbage))
              /\ faults' = IF Unset(len, whole) = {} THEN faults ELSE {"uninitialisedSlot"}
  <2>1. faults = {} /\ d \in Dirs /\ d \in LinkedDirs
    BY <1>2, Begin DEF NewName, Reached
  <2>2. PICK x \in Places, i \in Inodes :
              /\ FirstOpen(d, x) /\ FirstFree(i)
              /\ \E pb \in ParentBlocks(d, x) : \E s \in Injections(k, Free \ pb) :
                 \E garbage \in [Unset(len, whole) -> Blocks \cup {NIL, WILD}] :
                    Put(d, x, pb, n, i, s, NewFile(s, garbage))
              /\ faults' = IF Unset(len, whole) = {} THEN faults ELSE {"uninitialisedSlot"}
    BY <1>2
  <2>13. PICK pb \in ParentBlocks(d, x) : \E s \in Injections(k, Free \ pb) :
              \E garbage \in [Unset(len, whole) -> Blocks \cup {NIL, WILD}] :
                 Put(d, x, pb, n, i, s, NewFile(s, garbage))
    BY <2>2
  <2>3. PICK s \in Injections(k, Free \ pb),
             garbage \in [Unset(len, whole) -> Blocks \cup {NIL, WILD}] :
              Put(d, x, pb, n, i, s, NewFile(s, garbage))
    BY <2>13
  <2>4. PICK new : new = NewFile(s, garbage)
    OBVIOUS
  <2>5. Open(d, x) /\ i \in Inodes \ inodeBitmap
    BY <2>2 DEF FirstOpen, FirstFree
  <2>6. \A l \in DOMAIN s : s[l] \in Blocks
    BY DEF Injections, Free
  <2>7. new.rec.mode = "file" /\ new.rec.cnt = 1
        /\ new.rec.slot = [l \in Slots |-> IF l \in DOMAIN s THEN s[l]
                                           ELSE IF l \in DOMAIN garbage THEN garbage[l] ELSE NIL]
    BY <2>4 DEF NewFile
  <2>8. new.rec \in INode
    <3>1. \A l \in Slots : new.rec.slot[l] \in Blocks \cup {NIL, WILD}
      BY <2>6, <2>7
    <3>2. new.rec.slot \in [Slots -> Blocks \cup {NIL, WILD}]
      BY <3>1, <2>7
    <3>3. new.rec = [mode |-> "file", cnt |-> 1, slot |-> new.rec.slot]
      BY <2>4 DEF NewFile
    <3> QED
      BY <3>2, <3>3 DEF INode
  <2>9. new.data \in [Offsets -> Entry \cup {NIL}]
    BY <2>4 DEF NewFile, Empty
  <2>10. faults' = {} => \A l \in Slots : new.rec.slot[l] \in Blocks =>
                             l \in DOMAIN s /\ new.rec.slot[l] = s[l]
    <3>1. faults' = {} => DOMAIN garbage = {}
      BY <2>2
    <3> QED
      BY <3>1, <2>7, BlockAssumption
  <2>11. Put(d, x, pb, n, i, s, new) /\ new.rec.cnt > 0
    BY <2>3, <2>4, <2>7
  <2>12. faults' \in {{}, {"uninitialisedSlot"}}
    BY <2>1, <2>2
  <2>14. \A l \in DOMAIN s : l \in Slots
    <3>1. DOMAIN s = 0 .. k - 1
      BY DEF Injections
    <3> QED
      BY <3>1, <1>0, SizeAssumption DEF Slots
  <2>16. \A l \in DOMAIN s : new.rec.slot[l] = s[l]
    BY <2>7, <2>14
  <2>15. Made(d, x, pb, n, i, k, s, new)
    BY <2>1, <2>5, <2>7, <2>8, <2>9, <2>10, <2>11, <2>12, <2>16, <1>0 DEF Made
  <2> QED
    BY <2>15
<1> QED
  BY <1>1, <1>2 DEF Create, k

LEMMA MadeInv ==
    ASSUME IInv, NEW d, NEW x, NEW pb, NEW n, NEW i, NEW k, NEW s, NEW new,
           Made(d, x, pb, n, i, k, s, new)
    PROVE  IInv'
BY PutInv DEF Made

LEMMA MakeDirInv ==
    ASSUME IInv, NEW d \in Inodes, NEW n \in Names, MakeDir(d, n)
    PROVE  IInv'
<1>1. 1 \in Nat
  OBVIOUS
<1> QED
  BY <1>1, MakeDirMakes, FailedMakeInv, MadeInv, Zenon

LEMMA CreateInv ==
    ASSUME IInv, NEW d \in Inodes, NEW n \in Names, NEW len \in 0 .. S, NEW whole \in BOOLEAN,
           Create(d, n, len, whole)
    PROVE  IInv'
<1>1. 1 \in Nat
  OBVIOUS
<1> QED
  BY <1>1, CreateMakes, FailedMakeInv, MadeInv, Zenon

LEMMA RestartInv ==
    ASSUME IInv, Restart
    PROVE  IInv'
<1>1. faults = {} /\ UNCHANGED <<inodes, dirs, inodeBitmap>> /\ blockBitmap' = Owned
  BY DEF Restart
<1>2. inodeBitmap' \subseteq Inodes /\ Owned \subseteq Blocks
  BY <1>1 DEF IInv, TypeOK, Owned, OwnedIn
<1>3. faults' \in {{}, {"repair"}, {"killedInMake"}}
  BY DEF Restart
<1> QED
  BY <1>1, <1>2, <1>3, MarkInv

-----------------------------------------------------------------------------
(* WriteFile.                                                               *)

LEMMA WriteFileInv ==
    ASSUME IInv, NEW f \in Inodes, NEW k \in 1 .. S + 1, WriteFile(f, k)
    PROVE  IInv'
<1>1. /\ faults = {} /\ faults' = {} /\ inodes[f].mode = "file"
      /\ dirs' = dirs /\ inodeBitmap' = inodeBitmap
  BY DEF WriteFile
<1>2. /\ TypeOK /\ Clean /\ Owners /\ Tree
      /\ \A e \in Dirs : inodes[e].cnt = Cardinality(Entries(e))
  BY <1>1, Begin
<1>3. CASE blockBitmap' = Blocks /\ inodes' = inodes
  <2>1. inodeBitmap \subseteq inodeBitmap' /\ inodeBitmap' \subseteq Inodes
        /\ blockBitmap' \subseteq Blocks /\ UNCHANGED <<inodes, dirs>>
    BY <1>1, <1>2, <1>3 DEF TypeOK
  <2>2. Owned \subseteq blockBitmap'
    BY <1>3 DEF Owned, OwnedIn
  <2>3. faults' \in {{}, {"repair"}, {"killedInMake"}}
    BY <1>1
  <2> QED
    BY <2>1, <2>2, <2>3, <1>1, MarkInv
<1>4. ASSUME NEW s \in [Missing(f, k) -> Free],
             \A i, j \in DOMAIN s : s[i] = s[j] => i = j,
             inodes' = [inodes EXCEPT ![f].slot =
                            [j \in Slots |-> IF j \in DOMAIN s THEN s[j] ELSE @[j]]],
             blockBitmap' = blockBitmap \cup {s[j] : j \in DOMAIN s}
      PROVE  IInv'
  <2>1. /\ DOMAIN s \subseteq Slots /\ \A j \in DOMAIN s : inodes[f].slot[j] = NIL
        /\ \A j \in DOMAIN s : s[j] \in Blocks /\ s[j] \notin blockBitmap
    BY <1>4, SizeAssumption DEF Missing, Slots, Free
  <2>2. /\ inodes[f] \in INode /\ inodes[f].slot \in [Slots -> Blocks \cup {NIL, WILD}]
        /\ f \in Inodes
    BY <1>2 DEF TypeOK, INode
  <2>3. /\ \A i \in Inodes \ {f} : inodes'[i] = inodes[i]
        /\ inodes'[f] = [inodes[f] EXCEPT !.slot =
                             [j \in Slots |-> IF j \in DOMAIN s THEN s[j] ELSE inodes[f].slot[j]]]
    BY <1>2, <1>4 DEF TypeOK
  <2>4. inodes'[f] \in INode
    BY <2>1, <2>2, <2>3 DEF INode
  <2>5. /\ inodes'[f].mode = "file" /\ inodes'[f].cnt = inodes[f].cnt
        /\ \A j \in Slots : inodes'[f].slot[j] = IF j \in DOMAIN s THEN s[j] ELSE inodes[f].slot[j]
    BY <2>2, <2>3, <1>1 DEF INode
  <2>6. TypeOK'
    <3>1. inodes' \in [Inodes -> INode]
      <4>1. DOMAIN inodes' = Inodes /\ inodes' = [i \in Inodes |-> inodes'[i]]
        BY <1>4, <1>2 DEF TypeOK
      <4>2. \A i \in Inodes : inodes'[i] \in INode
        BY <2>3, <2>4, <1>2 DEF TypeOK
      <4> QED
        BY <4>1, <4>2
    <3>2. blockBitmap' \subseteq Blocks
      BY <1>2, <1>4, <2>1 DEF TypeOK
    <3> QED
      BY <3>1, <3>2, <1>1, <1>2 DEF TypeOK
  <2>7. Clean'
    <3> SUFFICES ASSUME NEW i \in Inodes \ inodeBitmap PROVE inodes'[i] = Zeroed
      BY <1>1 DEF Clean
    <3>1. inodes[i] = Zeroed
      BY <1>2 DEF Clean
    <3>2. CASE i = f
      <4>1. \A j \in Slots : inodes[f].slot[j] # NIL
        BY <3>1, <3>2, EmptyType, EmptyAssumption
      <4>2. DOMAIN s = {}
        BY <4>1, <2>1
      <4>3. [j \in Slots |-> IF j \in DOMAIN s THEN s[j] ELSE inodes[f].slot[j]] = inodes[f].slot
        BY <4>2, <2>2
      <4>4. inodes'[f] = [inodes[f] EXCEPT !.slot = inodes[f].slot]
        BY <4>3, <2>3
      <4>5. inodes'[f] = inodes[f]
        BY <4>4, <2>2 DEF INode
      <4> QED
        BY <4>5, <3>1, <3>2
    <3> QED
      BY <3>1, <3>2, <2>3
  <2>8. Owners'
    <3>1. \A j \in inodeBitmap, l \in Slots :
             \/ inodes'[j].slot[l] = inodes[j].slot[l] /\ (j = f => l \notin DOMAIN s)
             \/ j = f /\ l \in DOMAIN s /\ inodes'[j].slot[l] = s[l]
      BY <2>3, <2>5, <1>2 DEF TypeOK
    <3>2. \A j \in inodeBitmap, l \in Slots :
             inodes[j].slot[l] \in Blocks => inodes[j].slot[l] \in blockBitmap
      BY <1>2 DEF Owners, Owned, OwnedIn
    <3>3. blockBitmap \subseteq blockBitmap' /\ \A l \in DOMAIN s : s[l] \in blockBitmap'
      BY <1>4
    <3>4. ASSUME NEW b, b \in Owned' PROVE b \in blockBitmap'
      <4>1. b \in OwnedIn(inodes', inodeBitmap')
        BY <3>4 DEF Owned
      <4>2. b \in Blocks /\ \E j \in inodeBitmap', l \in Slots : inodes'[j].slot[l] = b
        BY <4>1, OwnedMeans
      <4> QED
        BY <4>2, <3>1, <3>2, <3>3, <1>1
    <3>5. ASSUME NEW j \in inodeBitmap, NEW h \in inodeBitmap, NEW l \in Slots, NEW m \in Slots,
                 inodes'[j].slot[l] \in Blocks, inodes'[j].slot[l] = inodes'[h].slot[m]
          PROVE  j = h /\ l = m
      <4>1. CASE inodes'[j].slot[l] = inodes[j].slot[l] /\ inodes'[h].slot[m] = inodes[h].slot[m]
        <5>1. inodes[j].slot[l] \in Blocks /\ inodes[j].slot[l] = inodes[h].slot[m]
          BY <4>1, <3>5
        <5> QED
          BY <5>1, <1>2 DEF Owners
      <4>2. CASE j = f /\ l \in DOMAIN s /\ h = f /\ m \in DOMAIN s
        BY <4>2, <3>1, <3>5, <1>4
      <4>3. CASE /\ inodes'[j].slot[l] = inodes[j].slot[l]
                 /\ h = f /\ m \in DOMAIN s /\ inodes'[h].slot[m] = s[m]
        BY <4>3, <3>2, <3>5, <2>1
      <4>4. CASE /\ inodes'[h].slot[m] = inodes[h].slot[m]
                 /\ j = f /\ l \in DOMAIN s /\ inodes'[j].slot[l] = s[l]
        BY <4>4, <3>2, <3>5, <2>1
      <4> QED
        BY <4>1, <4>2, <4>3, <4>4, <3>1
    <3> QED
      BY <3>4, <3>5, <1>1 DEF Owners
  <2>9. \A j \in Inodes : inodes'[j].mode = inodes[j].mode /\ inodes'[j].cnt = inodes[j].cnt
    BY <2>3, <2>5, <1>1
  <2>10. Dirs' = Dirs /\ \A e \in Dirs : inodes'[e] = inodes[e] /\ e \in Inodes
    BY <2>3, <2>9, <1>1, <1>2 DEF Dirs, TypeOK
  <2>11. \A e \in Dirs : /\ Entries(e)' = Entries(e) /\ Links(e)' = Links(e)
                         /\ \A y \in Entries(e) : At(e, y)' = At(e, y)
    <3> SUFFICES ASSUME NEW e \in Dirs
                 PROVE  /\ Entries(e)' = Entries(e) /\ Links(e)' = Links(e)
                        /\ \A y \in Entries(e) : At(e, y)' = At(e, y)
      OBVIOUS
    <3> QED
      BY <2>10, <1>1, SameDirectory
  <2>12. Tree'
    <3>1. inodeBitmap \subseteq inodeBitmap' /\ Dirs' = Dirs
      BY <1>1, <2>10
    <3>2. \A j \in inodeBitmap : inodes'[j].mode = inodes[j].mode /\ inodes'[j].cnt = inodes[j].cnt
      BY <2>9, <1>2 DEF TypeOK
    <3> QED
      BY <3>1, <3>2, <1>2, <2>11, SameTree
  <2>13. \A e \in Dirs' : Counted(e)'
    BY <1>1, <1>2, <2>9, <2>10, <2>11 DEF Counted
  <2> QED
    BY <2>6, <2>7, <2>8, <2>12, <2>13 DEF IInv
<1> QED
  BY <1>3, <1>4 DEF WriteFile

-----------------------------------------------------------------------------
(* DelFile and DeleteDir.                                                   *)

\* When the blocks freed are no survivor's, the directories that survive keep
\* their entries, and d loses the one at x, if that is cleared.
LEMMA EntriesLeft ==
    ASSUME TypeOK, Owners, NEW d \in Dirs, NEW x \in Links(d), NEW doomed, d \notin doomed,
           NEW gone, \A e \in Dirs \ doomed, k \in Slots : inodes[e].slot[k] \notin gone,
           \A e \in Dirs \ doomed : inodes'[e].slot = inodes[e].slot,
           dirs' \in {Erased(gone), WithoutEntry(Erased(gone), d, x)}
    PROVE  /\ \A e \in Dirs \ doomed :
                  e # d \/ dirs' = Erased(gone) =>
                      /\ Entries(e)' = Entries(e) /\ Links(e)' = Links(e)
                      /\ \A y \in Entries(e) : At(e, y)' = At(e, y)
           /\ dirs' = WithoutEntry(Erased(gone), d, x) =>
                  /\ Entries(d)' = Entries(d) \ {x} /\ Links(d)' = Links(d) \ {x}
                  /\ \A y \in Entries(d) \ {x} : At(d, y)' = At(d, y)
<1> PICK b : b = inodes[d].slot[x[1]]
  OBVIOUS
<1>1. /\ d \in inodeBitmap /\ x \in Entries(d) /\ x \in Places /\ b \in Blocks
      /\ x[1] \in Slots /\ x[2] \in Offsets
  BY SizesFinite DEF Dirs, Links, Entries
<1>2. \A c \in Blocks \ gone : Erased(gone)[c] = dirs[c]
  BY DEF Erased
<1>3. /\ DOMAIN Erased(gone) = Blocks
      /\ WithoutEntry(Erased(gone), d, x) = [Erased(gone) EXCEPT ![b][x[2]] = NIL]
  BY DEF Erased, WithoutEntry
<1>4. \A c \in Blocks \ gone : c # b \/ dirs' = Erased(gone) => dirs'[c] = dirs[c]
  BY <1>2, <1>3
<1>5. ASSUME NEW e \in Dirs \ doomed, e # d \/ dirs' = Erased(gone)
      PROVE  /\ Entries(e)' = Entries(e) /\ Links(e)' = Links(e)
             /\ \A y \in Entries(e) : At(e, y)' = At(e, y)
  <2>1. ASSUME NEW k \in Slots, inodes[e].slot[k] \in Blocks
        PROVE  dirs'[inodes[e].slot[k]] = dirs[inodes[e].slot[k]]
    <3>1. inodes[e].slot[k] \notin gone
      OBVIOUS
    <3>2. inodes[e].slot[k] = b => e = d
      BY <1>1, <2>1 DEF Owners, Dirs
    <3> QED
      BY <3>1, <3>2, <2>1, <1>4, <1>5
  <2>2. inodes'[e].slot = inodes[e].slot
    OBVIOUS
  <2> QED
    BY <2>1, <2>2, SameDirectory
<1>6. ASSUME dirs' = WithoutEntry(Erased(gone), d, x)
      PROVE  /\ Entries(d)' = Entries(d) \ {x} /\ Links(d)' = Links(d) \ {x}
             /\ \A y \in Entries(d) \ {x} : At(d, y)' = At(d, y)
  <2>1. b \notin gone
    BY <1>1
  <2>2. /\ dirs'[b] = [dirs[b] EXCEPT ![x[2]] = NIL]
        /\ dirs[b] \in [Offsets -> Entry \cup {NIL}]
    BY <1>1, <1>2, <1>3, <1>6, <2>1 DEF TypeOK
  <2>3. dirs'[b][x[2]] = NIL /\ \A o \in Offsets \ {x[2]} : dirs'[b][o] = dirs[b][o]
    BY <2>2, <1>1
  <2>4. \A k \in Slots \ {x[1]} : inodes[d].slot[k] \in Blocks =>
            dirs'[inodes[d].slot[k]] = dirs[inodes[d].slot[k]]
    BY <1>1, <1>4 DEF Owners
  <2>5. inodes'[d].slot = inodes[d].slot
    OBVIOUS
  <2>6. \A y \in Places : /\ y[1] \in Slots /\ y[2] \in Offsets
                          /\ y[1] = x[1] /\ y[2] = x[2] => y = x
    BY <1>1, SizesFinite
  <2>7. \A y \in Places \ {x} : y \in Entries(d)' <=> y \in Entries(d)
    BY <2>3, <2>4, <2>5, <2>6 DEF Entries
  <2>8. x \notin Entries(d)'
    BY <2>3, <2>5 DEF Entries
  <2>9. Entries(d)' = Entries(d) \ {x}
    BY <2>7, <2>8 DEF Entries
  <2>10. ASSUME NEW y \in Entries(d) \ {x} PROVE At(d, y)' = At(d, y)
    <3>1. y \in Places /\ inodes[d].slot[y[1]] \in Blocks
      BY DEF Entries
    <3> QED
      BY <3>1, <2>3, <2>4, <2>5, <2>6 DEF At
  <2> QED
    BY <2>9, <2>10 DEF Links, Special
<1> QED
  BY <1>5, <1>6

\* A removal: the entry at x in d goes, and with it the inodes in doomed, which it
\* leads to, and the blocks in gone.
Removed(d, x, doomed, gone) ==
    /\ faults = {} /\ faults' = {} /\ d \in Dirs /\ x \in Links(d)
    /\ doomed \in SUBSET Inodes /\ At(d, x).ino \in doomed /\ d \notin doomed /\ Root \notin doomed
    /\ \A e \in doomed : Children(e) \subseteq doomed
    /\ \A e \in Dirs \ doomed : \A y \in Links(e) : At(e, y).ino \in doomed => e = d /\ y = x
    /\ \A j \in inodeBitmap \ doomed, k \in Slots : inodes[j].slot[k] \notin gone
    /\ DOMAIN inodes' = Inodes /\ inodes' = [j \in Inodes |-> inodes'[j]]
    /\ \A j \in doomed : inodes'[j] = Zeroed
    /\ inodes'[d] = [inodes[d] EXCEPT !.cnt = @ - 1]
    /\ \A j \in Inodes \ (doomed \cup {d}) : inodes'[j] = inodes[j]
    /\ dirs' = WithoutEntry(Erased(gone), d, x)
    /\ inodeBitmap' = inodeBitmap \ doomed
    /\ blockBitmap' = blockBitmap \ gone

\* Removing the inode that the entry at x in d leads to, and those that only it
\* leads to, keeps the invariant.
LEMMA RemovalInv ==
    ASSUME IInv, faults = {}, faults' = {}, NEW d \in Dirs, NEW x \in Links(d),
           NEW doomed \in SUBSET Inodes, At(d, x).ino \in doomed, d \notin doomed, Root \notin doomed,
           \A e \in Dirs \ doomed : \A y \in Links(e) : At(e, y).ino \in doomed => e = d /\ y = x,
           NEW gone, \A j \in inodeBitmap \ doomed, k \in Slots : inodes[j].slot[k] \notin gone,
           DOMAIN inodes' = Inodes, inodes' = [j \in Inodes |-> inodes'[j]],
           \A j \in doomed : inodes'[j] = Zeroed,
           inodes'[d] = [inodes[d] EXCEPT !.cnt = @ - 1],
           \A j \in Inodes \ (doomed \cup {d}) : inodes'[j] = inodes[j],
           dirs' = WithoutEntry(Erased(gone), d, x),
           inodeBitmap' = inodeBitmap \ doomed,
           blockBitmap' = blockBitmap \ gone
    PROVE  IInv'
<1>1. /\ TypeOK /\ Clean /\ Owners /\ Tree
      /\ \A e \in Dirs : /\ inodes[e].cnt = Cardinality(Entries(e)) /\ IsFiniteSet(Entries(e))
                         /\ Cardinality(Entries(e)) \in Nat
  BY Begin
<1>2. /\ d \in Inodes /\ d \in inodeBitmap /\ inodes[d] \in INode /\ inodes[d].mode = "dir"
      /\ x \in Entries(d)
  BY <1>1 DEF Dirs, TypeOK, Links
<1>3. Cardinality(Entries(d) \ {x}) = inodes[d].cnt - 1 /\ inodes[d].cnt - 1 \in Nat
  <2>1. /\ IsFiniteSet(Entries(d) \ {x})
        /\ Cardinality(Entries(d) \ {x}) = Cardinality(Entries(d)) - 1
    BY <1>1, <1>2, FS_RemoveElement
  <2>2. Cardinality(Entries(d) \ {x}) \in Nat
    BY <2>1, FS_CardinalityType
  <2> QED
    BY <2>1, <2>2, <1>1
<1>4. /\ inodes'[d] \in INode /\ inodes'[d].mode = "dir" /\ inodes'[d].cnt = inodes[d].cnt - 1
      /\ inodes'[d].slot = inodes[d].slot
  BY <1>2, <1>3 DEF INode
<1>5. TypeOK'
  <2>1. inodes' \in [Inodes -> INode]
    <3>1. \A j \in Inodes : inodes'[j] \in INode
      BY <1>1, <1>4, EmptyType DEF TypeOK
    <3> QED
      BY <3>1
  <2>2. dirs' \in [Blocks -> [Offsets -> Entry \cup {NIL}]]
    <3>1. Erased(gone) \in [Blocks -> [Offsets -> Entry \cup {NIL}]]
      BY <1>1, EmptyType DEF Erased, TypeOK
    <3> HIDE DEF Erased
    <3> QED
      BY <3>1 DEF WithoutEntry
  <2> QED
    BY <2>1, <2>2, <1>1 DEF TypeOK
<1>6. Clean'
  <2> SUFFICES ASSUME NEW j \in Inodes \ inodeBitmap' PROVE inodes'[j] = Zeroed
    BY DEF Clean
  <2>1. CASE j \in doomed
    BY <2>1
  <2>2. CASE j \notin doomed
    <3>1. j \notin inodeBitmap /\ j # d
      BY <2>2, <1>2
    <3> QED
      BY <3>1, <2>2, <1>1 DEF Clean
  <2> QED
    BY <2>1, <2>2
<1>7. \A j \in inodeBitmap' : j \in inodeBitmap /\ j \notin doomed /\ inodes'[j].slot = inodes[j].slot
                              /\ inodes'[j].mode = inodes[j].mode
  BY <1>1, <1>2, <1>4 DEF TypeOK
<1>8. Owners'
  <2>1. ASSUME NEW b, b \in Owned' PROVE b \in blockBitmap'
    <3>1. b \in OwnedIn(inodes', inodeBitmap')
      BY <2>1 DEF Owned
    <3>2. b \in Blocks /\ \E j \in inodeBitmap', l \in Slots : inodes'[j].slot[l] = b
      BY <3>1, OwnedMeans
    <3>3. PICK j \in inodeBitmap', l \in Slots : inodes'[j].slot[l] = b
      BY <3>2
    <3>4. j \in inodeBitmap \ doomed /\ inodes[j].slot[l] = b
      BY <3>3, <1>7
    <3>5. b \in Owned
      BY <3>2, <3>4 DEF Owned, OwnedIn
    <3>6. b \in blockBitmap /\ b \notin gone
      BY <3>4, <3>5, <1>1 DEF Owners
    <3> QED
      BY <3>6
  <2>2. ASSUME NEW j \in inodeBitmap', NEW h \in inodeBitmap', NEW l \in Slots, NEW m \in Slots,
               inodes'[j].slot[l] \in Blocks, inodes'[j].slot[l] = inodes'[h].slot[m]
        PROVE  j = h /\ l = m
    BY <2>2, <1>1, <1>7 DEF Owners
  <2> QED
    BY <2>1, <2>2 DEF Owners
<1>9. Dirs' = Dirs \ doomed
  BY <1>7 DEF Dirs
<1>10. /\ \A e \in Dirs \ (doomed \cup {d}) : /\ Entries(e)' = Entries(e) /\ Links(e)' = Links(e)
                                              /\ \A y \in Entries(e) : At(e, y)' = At(e, y)
       /\ Entries(d)' = Entries(d) \ {x} /\ Links(d)' = Links(d) \ {x}
       /\ \A y \in Entries(d) \ {x} : At(d, y)' = At(d, y)
  <2>1. \A e \in Dirs \ doomed, k \in Slots : inodes[e].slot[k] \notin gone
    BY DEF Dirs
  <2>2. \A e \in Dirs \ doomed : inodes'[e].slot = inodes[e].slot
    BY <1>7, <1>9 DEF Dirs
  <2>3. dirs' \in {Erased(gone), WithoutEntry(Erased(gone), d, x)}
    OBVIOUS
  <2> QED
    BY <2>1, <2>2, <2>3, <1>1, EntriesLeft
<1>11. ASSUME NEW e \in Dirs \ doomed
       PROVE  /\ \A y \in Links(e)' : y \in Links(e) /\ At(e, y)' = At(e, y) /\ (e = d => y # x)
              /\ DotsAt(e)'
  <2>1. \A y \in Links(e) : y \in Entries(e)
    BY DEF Links
  <2>2. DotsAt(e)
    BY <1>1 DEF Tree
  <2>3. x # <<0, 0>> /\ (d # Root => x # <<0, 1>>)
    <3>1. At(d, x).name \notin {DOT, DOTDOT}
      BY DEF Links, Special
    <3>2. DotsAt(d)
      BY <1>1 DEF Tree
    <3>3. At(d, <<0, 0>>).name = DOT
      BY <3>2 DEF DotsAt
    <3>4. d # Root => At(d, <<0, 1>>).name = DOTDOT
      BY <3>2 DEF DotsAt
    <3> QED
      BY <3>1, <3>3, <3>4
  <2> QED
    BY <1>10, <2>1, <2>2, <2>3 DEF DotsAt
<1>12. Root \in Dirs'
  BY <1>1, <1>9 DEF Tree
<1>13. ASSUME NEW e \in Dirs \ doomed, NEW y, y \in Links(e)' PROVE Sound(e, y)'
  <2> PICK j : j = At(e, y).ino
    OBVIOUS
  <2>1. y \in Links(e) /\ At(e, y)' = At(e, y) /\ (e = d => y # x)
    BY <1>11, <1>13
  <2>2. /\ j \in inodeBitmap /\ j # Root /\ inodes[j].cnt > 0 /\ j \in Inodes
        /\ inodes[j].mode = "dir" => At(j, <<0, 1>>) = [name |-> DOTDOT, ino |-> e]
    BY <2>1, <1>1 DEF Tree, Sound, TypeOK
  <2>3. j \notin doomed
    BY <2>1
  <2>4. inodes'[j].cnt > 0
    <3>1. CASE j = d
      <4>1. <<0, 0>> \in Entries(d)'
        BY <1>11 DEF DotsAt
      <4>2. <<0, 0>> \in Entries(d) \ {x} /\ IsFiniteSet(Entries(d) \ {x})
        BY <4>1, <1>1, <1>2, <1>10, FS_RemoveElement
      <4>3. Cardinality(Entries(d) \ {x}) # 0
        BY <4>2, FS_EmptySet
      <4>4. inodes[d].cnt - 1 # 0 /\ inodes[d].cnt - 1 \in Nat
        BY <4>3, <1>3
      <4> PICK m : m = inodes[d].cnt - 1
        OBVIOUS
      <4>6. m \in Nat /\ m # 0
        BY <4>4
      <4>7. m > 0
        BY <4>6, Positive, Zenon
      <4>8. inodes'[d].cnt = m
        BY <1>4, Zenon
      <4>5. inodes'[d].cnt > 0
        BY <4>7, <4>8, Zenon
      <4> QED
        BY <4>5, <3>1
    <3>2. CASE j # d
      BY <3>2, <2>2, <2>3
    <3> QED
      BY <3>1, <3>2
  <2>5. ASSUME inodes'[j].mode = "dir" PROVE At(j, <<0, 1>>)' = [name |-> DOTDOT, ino |-> e]
    <3>1. inodes[j].mode = "dir" /\ j \in Dirs \ doomed
      BY <2>2, <2>3, <2>5, <1>7 DEF Dirs
    <3>2. DotsAt(j) /\ DotsAt(j)'
      BY <3>1, <1>1, <1>11 DEF Tree
    <3>3. <<0, 1>> \in Entries(j) /\ <<0, 1>> \in Entries(j)'
      BY <3>2, <2>2 DEF DotsAt
    <3>4. At(j, <<0, 1>>)' = At(j, <<0, 1>>)
      BY <3>1, <3>3, <1>10
    <3> QED
      BY <3>1, <3>4, <2>2
  <2>6. j \in inodeBitmap'
    BY <2>2, <2>3
  <2> QED
    BY <2>1, <2>2, <2>4, <2>5, <2>6 DEF Sound
<1>14. Tree'
  <2>1. ASSUME NEW e \in Dirs \ doomed, NEW f \in Dirs \ doomed,
               NEW y, y \in Links(e)', NEW z, z \in Links(f)', At(e, y)'.ino = At(f, z)'.ino
        PROVE  e = f /\ y = z
    <3>1. y \in Links(e) /\ At(e, y)' = At(e, y) /\ z \in Links(f) /\ At(f, z)' = At(f, z)
      BY <2>1, <1>11
    <3> QED
      BY <3>1, <2>1, <1>1 DEF Tree
  <2> QED
    BY <2>1, <1>9, <1>11, <1>12, <1>13 DEF Tree
<1>15. \A e \in Dirs' : Counted(e)'
  <2> SUFFICES ASSUME NEW e \in Dirs \ doomed PROVE inodes'[e].cnt = Cardinality(Entries(e)')
    BY <1>9 DEF Counted
  <2>1. CASE e = d
    BY <2>1, <1>3, <1>4, <1>10
  <2>2. CASE e # d
    <3>1. inodes'[e] = inodes[e]
      BY <2>2, <1>1 DEF Dirs, TypeOK
    <3> QED
      BY <3>1, <2>2, <1>1, <1>10
  <2> QED
    BY <2>1, <2>2
<1> QED
  BY <1>5, <1>6, <1>8, <1>14, <1>15 DEF IInv

\* An entry with a user's name is not one of the dots.
LEMMA NamedLink ==
    ASSUME NEW d, NEW n \in Names, NEW x \in Named(d, n)
    PROVE  x \in Links(d)
BY NameAssumption DEF Named, Links, Special

LEMMA RemovedInv ==
    ASSUME IInv, NEW d, NEW x, NEW doomed, NEW gone, Removed(d, x, doomed, gone)
    PROVE  IInv'
BY RemovalInv DEF Removed

\* DelFile removes one inode, with the blocks in its direct slots.
LEMMA DelFileRemoves ==
    ASSUME IInv, NEW d \in Inodes, NEW n \in Names, DelFile(d, n)
    PROVE  \E x, i, gone : /\ Removed(d, x, {i}, gone)
                           /\ x \in Links(d) /\ i = At(d, x).ino /\ i \in inodeBitmap
                           /\ gone = {inodes[i].slot[k] : k \in Direct} \cap blockBitmap
<1>1. faults = {} /\ faults' = {} /\ d \in Dirs
  BY Begin DEF DelFile, Reached
<1>2. TypeOK /\ Clean /\ Owners /\ Tree
  BY <1>1, Begin
<1>3. PICK x \in Named(d, n) :
          LET i    == At(d, x).ino
              gone == {inodes[i].slot[k] : k \in Direct} \cap blockBitmap
          IN  /\ inodes[i].mode = "file"
              /\ inodes' = [inodes EXCEPT ![i] = Zeroed, ![d].cnt = @ - 1]
              /\ dirs' = WithoutEntry(Erased(gone), d, x)
              /\ inodeBitmap' = inodeBitmap \ {i}
              /\ blockBitmap' = blockBitmap \ gone
  BY DEF DelFile
<1>4. PICK i : i = At(d, x).ino
  OBVIOUS
<1>5. PICK gone : gone = {inodes[i].slot[k] : k \in Direct} \cap blockBitmap
  OBVIOUS
<1>6. /\ inodes[i].mode = "file"
      /\ inodes' = [inodes EXCEPT ![i] = Zeroed, ![d].cnt = @ - 1]
      /\ dirs' = WithoutEntry(Erased(gone), d, x)
      /\ inodeBitmap' = inodeBitmap \ {i}
      /\ blockBitmap' = blockBitmap \ gone
  BY <1>3, <1>4, <1>5
<1>7. x \in Links(d)
  BY NamedLink
<1>8. /\ i \in inodeBitmap /\ i \in Inodes /\ i # Root /\ i # d
      /\ d \in Inodes /\ inodes \in [Inodes -> INode]
  BY <1>1, <1>2, <1>4, <1>6, <1>7 DEF Tree, Sound, TypeOK, Dirs
<1>9. PICK doomed : doomed = {i}
  OBVIOUS
<1>10. /\ doomed \in SUBSET Inodes /\ At(d, x).ino \in doomed /\ d \notin doomed /\ Root \notin doomed
  BY <1>4, <1>8, <1>9
<1>11. \A e \in Dirs \ doomed : \A y \in Links(e) : At(e, y).ino \in doomed => e = d /\ y = x
  BY <1>1, <1>2, <1>4, <1>7, <1>9 DEF Tree
<1>12. \A j \in inodeBitmap \ doomed, k \in Slots : inodes[j].slot[k] \notin gone
  <2> SUFFICES ASSUME NEW j \in inodeBitmap \ doomed, NEW k \in Slots, inodes[j].slot[k] \in gone
               PROVE  FALSE
    OBVIOUS
  <2>1. PICK l \in Direct : inodes[j].slot[k] = inodes[i].slot[l]
    BY <1>5
  <2>2. inodes[j].slot[k] \in Blocks /\ l \in Slots
    BY <1>2, <1>5, SizesFinite DEF TypeOK
  <2> QED
    BY <2>1, <2>2, <1>2, <1>8, <1>9 DEF Owners
<1>13. DOMAIN inodes' = Inodes /\ inodes' = [j \in Inodes |-> inodes'[j]]
  BY <1>6, <1>8
<1>14. inodes'[d] = [inodes[d] EXCEPT !.cnt = @ - 1]
  BY <1>6, <1>8
<1>15. /\ \A j \in doomed : inodes'[j] = Zeroed
       /\ \A j \in Inodes \ (doomed \cup {d}) : inodes'[j] = inodes[j]
  BY <1>6, <1>8, <1>9
<1>16. inodeBitmap' = inodeBitmap \ doomed
  BY <1>6, <1>9
<1>17. dirs' = WithoutEntry(Erased(gone), d, x) /\ blockBitmap' = blockBitmap \ gone
  BY <1>6
<1>18. \A e \in doomed : Children(e) \subseteq doomed
  BY <1>6, <1>9 DEF Children
<1>19. Removed(d, x, doomed, gone)
  BY <1>1, <1>7, <1>10, <1>11, <1>12, <1>13, <1>14, <1>15, <1>16, <1>17, <1>18 DEF Removed
<1>20. /\ Removed(d, x, {i}, gone)
       /\ x \in Links(d) /\ i = At(d, x).ino /\ i \in inodeBitmap
       /\ gone = {inodes[i].slot[k] : k \in Direct} \cap blockBitmap
  BY <1>4, <1>5, <1>7, <1>8, <1>9, <1>19
<1> QED
  BY <1>20, Zenon

\* What the removal of a directory takes: inodes that only the removed entry, or
\* an entry of one of them, leads to; the directory it is in is none of them.
LEMMA DoomedTree ==
    ASSUME IInv, faults = {}, NEW d \in LinkedDirs, NEW x \in Links(d),
           NEW doomed, doomed = Doomed(At(d, x).ino)
    PROVE  /\ doomed \in SUBSET Inodes /\ At(d, x).ino \in doomed /\ d \notin doomed
           /\ Root \notin doomed /\ \A e \in doomed : Children(e) \subseteq doomed
           /\ \A e \in Dirs \ doomed : \A y \in Links(e) : At(e, y).ino \in doomed => e = d /\ y = x
<1>1. TypeOK /\ Clean /\ Tree /\ LinkedDirs \subseteq Dirs
  BY Begin
<1>2. d \in Dirs /\ d \in Inodes /\ d \in Linked
  BY <1>1 DEF Dirs, TypeOK, LinkedDirs
<1>3. PICK c : c = At(d, x).ino
  OBVIOUS
<1>4. c \in Inodes /\ c # Root
  BY <1>1, <1>2, <1>3 DEF Tree, Sound, TypeOK
<1> DEFINE next == [j \in Inodes |-> IF Leaf(j) THEN {} ELSE Children(j)]
<1>5. next \in [Inodes -> SUBSET Inodes]
  BY <1>1, ChildrenType
<1>6. doomed = Reachable(c, next)
  BY <1>3 DEF Doomed
<1>7. \A j \in Inodes : next[j] \subseteq Children(j)
  OBVIOUS
<1> HIDE DEF next
<1>8. c \in doomed /\ doomed \subseteq Inodes /\ \A j \in doomed : next[j] \subseteq doomed
  BY <1>4, <1>5, <1>6, ReachableLeast
<1>9. \A T : c \in T /\ (\A j \in T : j \in Inodes => next[j] \subseteq T) => doomed \subseteq T
  BY <1>4, <1>5, <1>6, ReachableLeast
<1>10. \A j \in Inodes : \A m \in Children(j) : j \in Dirs /\ \E y \in Links(j) : At(j, y).ino = m
  BY <1>1, EmptyType DEF Children, Dirs, Clean
<1>11. \A j \in doomed : j = c \/ \E e \in Dirs \cap doomed : \E y \in Links(e) : At(e, y).ino = j
  <2> DEFINE T == {j \in doomed : \/ j = c
                                  \/ \E e \in Dirs \cap doomed : \E y \in Links(e) : At(e, y).ino = j}
  <2>1. c \in T
    BY <1>8
  <2>2. ASSUME NEW j \in T, j \in Inodes PROVE next[j] \subseteq T
    <3> SUFFICES ASSUME NEW m \in next[j] PROVE m \in T
      OBVIOUS
    <3>1. j \in doomed /\ m \in doomed /\ m \in Children(j)
      BY <2>2, <1>7, <1>8
    <3>2. j \in Dirs /\ \E y \in Links(j) : At(j, y).ino = m
      BY <3>1, <2>2, <1>10
    <3> QED
      BY <3>1, <3>2
  <2>3. doomed \subseteq T
    <3> HIDE DEF T
    <3> QED
      BY <2>1, <2>2, <1>9
  <2> QED
    BY <2>3
<1>12. ASSUME NEW e \in Dirs \ doomed, NEW y \in Links(e), At(e, y).ino \in doomed
       PROVE  e = d /\ y = x
  <2>1. CASE At(e, y).ino = c
    BY <2>1, <1>1, <1>2, <1>3 DEF Tree
  <2>2. CASE \E g \in Dirs \cap doomed : \E z \in Links(g) : At(g, z).ino = At(e, y).ino
    BY <2>2, <1>1 DEF Tree
  <2> QED
    BY <2>1, <2>2, <1>11, <1>12
<1>13. Root \notin doomed
  <2>1. \A e \in Dirs : \A y \in Links(e) : At(e, y).ino # Root
    BY <1>1 DEF Tree, Sound
  <2> QED
    BY <2>1, <1>4, <1>11
<1>14. d \notin doomed
  <2> SUFFICES ASSUME d \in doomed PROVE FALSE
    OBVIOUS
  <2> DEFINE T == Linked \ doomed
  <2>1. Root \in T
    BY <1>1, <1>13, LinkedLeast
  <2>2. ASSUME NEW j \in T, j \in Inodes PROVE Children(j) \subseteq T
    <3> SUFFICES ASSUME NEW m \in Children(j) PROVE m \in T
      OBVIOUS
    <3>1. m \in Linked
      BY <1>1, LinkedLeast
    <3>2. PICK y \in Links(j) : At(j, y).ino = m /\ j \in Dirs
      BY <2>2, <1>10
    <3>3. m \notin doomed
      BY <3>2, <1>12
    <3> QED
      BY <3>1, <3>3
  <2>3. Linked \subseteq T
    <3> HIDE DEF T
    <3> QED
      BY <2>1, <2>2, <1>1, LinkedLeast
  <2> QED
    BY <2>3, <1>2
<1>15. ASSUME NEW e \in doomed PROVE Children(e) \subseteq doomed
  <2>1. CASE ~Leaf(e)
    <3>1. next[e] = Children(e)
      BY <2>1, <1>8 DEF next
    <3> QED
      BY <3>1, <1>8
  <2>2. CASE e \notin Dirs
    BY <2>2, <1>8, <1>10
  <2>3. CASE Leaf(e) /\ e \in Dirs
    <3>1. e # Root /\ DotsAt(e)
      BY <2>3, <1>1, <1>13 DEF Tree
    <3>2. /\ {<<0, 0>>, <<0, 1>>} \subseteq Entries(e)
          /\ At(e, <<0, 0>>).name = DOT /\ At(e, <<0, 1>>).name = DOTDOT
      BY <3>1 DEF DotsAt
    <3>3. IsFiniteSet(Entries(e)) /\ Cardinality(Entries(e)) \in Nat /\ Cardinality(Entries(e)) <= 2
      BY <2>3, Begin DEF Leaf
    <3>4. /\ Cardinality({<<0, 0>>, <<0, 1>>}) <= Cardinality(Entries(e))
          /\ Cardinality(Entries(e)) = Cardinality({<<0, 0>>, <<0, 1>>})
                 => Entries(e) = {<<0, 0>>, <<0, 1>>}
      BY <3>2, <3>3, FS_Subset
    <3>5. Entries(e) = {<<0, 0>>, <<0, 1>>}
      BY <3>3, <3>4, TwoDots
    <3>6. Links(e) = {}
      BY <3>2, <3>5 DEF Links, Special
    <3> QED
      BY <3>6 DEF Children
  <2> QED
    BY <2>1, <2>2, <2>3
<1> QED
  BY <1>3, <1>8, <1>12, <1>13, <1>14, <1>15

\* DeleteDir removes the directory and what is in it.
LEMMA DeleteDirRemoves ==
    ASSUME IInv, NEW d \in Inodes, NEW n \in Names, DeleteDir(d, n)
    PROVE  \E x, doomed, gone : Removed(d, x, doomed, gone)
<1>1. faults = {} /\ faults' = {} /\ d \in LinkedDirs /\ d \in Dirs
  BY Begin DEF DeleteDir, Reached
<1>2. TypeOK /\ Clean /\ Owners /\ Tree
  BY <1>1, Begin
<1>3. PICK x \in Named(d, n) :
          LET doomed == Doomed(At(d, x).ino)
              gone   == (UNION {BlocksOf(i) : i \in doomed}) \cap blockBitmap
          IN  /\ inodes' = [i \in Inodes |->
                               IF i \in doomed THEN Zeroed
                               ELSE IF i = d THEN [inodes[d] EXCEPT !.cnt = @ - 1] ELSE inodes[i]]
              /\ dirs' = WithoutEntry(Erased(gone), d, x)
              /\ inodeBitmap' = inodeBitmap \ doomed
              /\ blockBitmap' = blockBitmap \ gone
  BY DEF DeleteDir
<1>4. PICK doomed : doomed = Doomed(At(d, x).ino)
  OBVIOUS
<1>5. PICK gone : gone = (UNION {BlocksOf(i) : i \in doomed}) \cap blockBitmap
  OBVIOUS
<1>6. /\ inodes' = [i \in Inodes |->
                       IF i \in doomed THEN Zeroed
                       ELSE IF i = d THEN [inodes[d] EXCEPT !.cnt = @ - 1] ELSE inodes[i]]
      /\ dirs' = WithoutEntry(Erased(gone), d, x)
      /\ inodeBitmap' = inodeBitmap \ doomed
      /\ blockBitmap' = blockBitmap \ gone
  BY <1>3, <1>4, <1>5
<1>7. x \in Links(d)
  BY NamedLink
<1>8. /\ doomed \in SUBSET Inodes /\ At(d, x).ino \in doomed /\ d \notin doomed /\ Root \notin doomed
      /\ \A e \in doomed : Children(e) \subseteq doomed
      /\ \A e \in Dirs \ doomed : \A y \in Links(e) : At(e, y).ino \in doomed => e = d /\ y = x
  BY <1>1, <1>4, <1>7, DoomedTree
<1>9. \A j \in inodeBitmap \ doomed, k \in Slots : inodes[j].slot[k] \notin gone
  <2> SUFFICES ASSUME NEW j \in inodeBitmap \ doomed, NEW k \in Slots, inodes[j].slot[k] \in gone
               PROVE  FALSE
    OBVIOUS
  <2>1. PICK i \in doomed : inodes[j].slot[k] \in BlocksOf(i)
    BY <1>5
  <2>2. PICK l \in Slots : inodes[j].slot[k] = inodes[i].slot[l]
    <3>1. \A y \in Links(i) : y[1] \in Slots
      BY SizesFinite DEF Links, Entries
    <3> QED
      BY <2>1, <3>1, SizesFinite DEF BlocksOf
  <2>3. inodes[j].slot[k] \in Blocks /\ i \in Inodes
    <3>1. gone \subseteq blockBitmap
      BY <1>5
    <3> QED
      BY <3>1, <1>2, <1>8 DEF TypeOK
  <2>4. i \in inodeBitmap
    BY <2>2, <2>3, <1>2, EmptyType, BlockAssumption DEF Clean
  <2> QED
    BY <2>2, <2>3, <2>4, <1>2 DEF Owners
<1>10. DOMAIN inodes' = Inodes /\ inodes' = [j \in Inodes |-> inodes'[j]]
  BY <1>6
<1>11. inodes'[d] = [inodes[d] EXCEPT !.cnt = @ - 1]
  BY <1>6, <1>8
<1>12. /\ \A j \in doomed : inodes'[j] = Zeroed
       /\ \A j \in Inodes \ (doomed \cup {d}) : inodes'[j] = inodes[j]
  BY <1>6, <1>8
<1>13. Removed(d, x, doomed, gone)
  BY <1>1, <1>6, <1>7, <1>8, <1>9, <1>10, <1>11, <1>12 DEF Removed
<1> QED
  BY <1>13

LEMMA DelFileInv ==
    ASSUME IInv, NEW d \in Inodes, NEW n \in Names, DelFile(d, n)
    PROVE  IInv'
BY DelFileRemoves, RemovedInv, Zenon

LEMMA DeleteDirInv ==
    ASSUME IInv, NEW d \in Inodes, NEW n \in Names, DeleteDir(d, n)
    PROVE  IInv'
BY DeleteDirRemoves, RemovedInv, Zenon

-----------------------------------------------------------------------------
(* A kill of the process, and the repair at the next start.                 *)

\* After a repair a block is marked when it is in a slot.
LEMMA RecoveredOwners ==
    ASSUME TypeOK', blockBitmap' = OwnedIn(inodes', inodeBitmap'),
           \A j, h \in inodeBitmap', l, m \in Slots :
               inodes'[j].slot[l] \in Blocks /\ inodes'[j].slot[l] = inodes'[h].slot[m]
                   => j = h /\ l = m
    PROVE  Owners'
BY DEF Owners, Owned

LEMMA OwnedAreBlocks == \A recs, marked : OwnedIn(recs, marked) \subseteq Blocks
BY DEF OwnedIn

LEMMA KilledInDeleteInv ==
    ASSUME IInv, NEW d \in Inodes, NEW n \in Names, KilledInDelete(d, n)
    PROVE  IInv'
<1>1. faults = {} /\ d \in Dirs /\ faults' = {"killedInDelete"}
      /\ blockBitmap' = OwnedIn(inodes', inodeBitmap')
  BY Begin DEF KilledInDelete, Reached, Recover
<1>2. /\ TypeOK /\ Clean /\ Owners /\ Tree
      /\ \A e \in Dirs : /\ inodes[e].cnt = Cardinality(Entries(e)) /\ IsFiniteSet(Entries(e))
                         /\ Cardinality(Entries(e)) \in Nat
  BY <1>1, Begin
<1>3. PICK x \in Named(d, n) :
          LET i    == At(d, x).ino
              gone == {inodes[i].slot[k] : k \in Direct} \cap blockBitmap
          IN  /\ inodes[i].mode = "file"
              /\ \/ /\ dirs' \in {Erased(g) : g \in SUBSET gone}
                    /\ UNCHANGED <<inodes, inodeBitmap>>
                 \/ /\ dirs' \in {Erased(gone), WithoutEntry(Erased(gone), d, x)}
                    /\ inodes' = [inodes EXCEPT ![i] = Zeroed]
                    /\ inodeBitmap' = inodeBitmap \ {i}
                 \/ /\ dirs' = Erased(gone)
                    /\ inodes' = [inodes EXCEPT ![i] = Zeroed]
                    /\ UNCHANGED inodeBitmap
  BY DEF KilledInDelete
<1>4. PICK i : i = At(d, x).ino
  OBVIOUS
<1>5. PICK gone : gone = {inodes[i].slot[k] : k \in Direct} \cap blockBitmap
  OBVIOUS
<1>6. /\ inodes[i].mode = "file"
      /\ \E g \in SUBSET gone : dirs' \in {Erased(g), WithoutEntry(Erased(g), d, x)}
      /\ \/ inodes' = inodes /\ inodeBitmap' = inodeBitmap
         \/ inodes' = [inodes EXCEPT ![i] = Zeroed] /\ inodeBitmap' \in {inodeBitmap, inodeBitmap \ {i}}
  BY <1>3, <1>4, <1>5
<1>7. PICK g \in SUBSET gone : dirs' \in {Erased(g), WithoutEntry(Erased(g), d, x)}
  BY <1>6
<1>8. x \in Links(d) /\ x \in Entries(d)
  BY NamedLink DEF Links
<1>9. i \in inodeBitmap /\ i \in Inodes /\ i # d /\ inodes \in [Inodes -> INode] /\ i \notin Dirs
  BY <1>1, <1>2, <1>4, <1>6, <1>8 DEF Tree, Sound, TypeOK, Dirs
<1>10. /\ \A j \in Inodes \ {i} : inodes'[j] = inodes[j]
       /\ inodes'[i] \in {inodes[i], Zeroed} /\ (i \notin inodeBitmap' => inodes'[i] = Zeroed)
       /\ inodes' = [j \in Inodes |-> inodes'[j]]
       /\ inodeBitmap' \in {inodeBitmap, inodeBitmap \ {i}}
  BY <1>6, <1>9
<1>11. TypeOK'
  <2>1. inodes' \in [Inodes -> INode]
    <3>1. \A j \in Inodes : inodes'[j] \in INode
      BY <1>9, <1>10, EmptyType
    <3> QED
      BY <3>1, <1>10
  <2>2. dirs' \in [Blocks -> [Offsets -> Entry \cup {NIL}]]
    <3>1. Erased(g) \in [Blocks -> [Offsets -> Entry \cup {NIL}]]
      BY <1>2, EmptyType DEF Erased, TypeOK
    <3> HIDE DEF Erased
    <3> QED
      BY <3>1, <1>7 DEF WithoutEntry
  <2>3. blockBitmap' \subseteq Blocks /\ inodeBitmap' \subseteq Inodes
    BY <1>1, <1>2, <1>10, OwnedAreBlocks DEF TypeOK
  <2> QED
    BY <2>1, <2>2, <2>3, <1>1 DEF TypeOK, Faults
<1>12. Clean'
  BY <1>2, <1>9, <1>10 DEF Clean
<1>13. \A j \in inodeBitmap', l \in Slots :
           inodes'[j].slot[l] \in Blocks => j \in inodeBitmap /\ inodes'[j].slot[l] = inodes[j].slot[l]
  BY <1>2, <1>9, <1>10, EmptyType, BlockAssumption DEF TypeOK
<1>14. Owners'
  <2>1. ASSUME NEW j \in inodeBitmap', NEW h \in inodeBitmap', NEW l \in Slots, NEW m \in Slots,
               inodes'[j].slot[l] \in Blocks, inodes'[j].slot[l] = inodes'[h].slot[m]
        PROVE  j = h /\ l = m
    <3>1. /\ j \in inodeBitmap /\ inodes'[j].slot[l] = inodes[j].slot[l]
          /\ h \in inodeBitmap /\ inodes'[h].slot[m] = inodes[h].slot[m]
      BY <2>1, <1>13
    <3>2. inodes[j].slot[l] \in Blocks /\ inodes[j].slot[l] = inodes[h].slot[m]
      BY <3>1, <2>1
    <3> QED
      BY <3>1, <3>2, <1>2 DEF Owners
  <2> QED
    BY <2>1, <1>1, <1>11, RecoveredOwners
<1>15. Dirs' = Dirs
  BY <1>6, <1>9, <1>10, <1>2, EmptyType DEF Dirs, TypeOK
<1>16. \A e \in Dirs : inodes'[e] = inodes[e]
  BY <1>2, <1>9, <1>10 DEF Dirs, TypeOK
<1>17. /\ \A e \in Dirs \ {i} : e # d \/ dirs' = Erased(g) => Entries(e)' = Entries(e)
       /\ dirs' = WithoutEntry(Erased(g), d, x) => Entries(d)' = Entries(d) \ {x}
  <2> PICK doomed : doomed = {i}
    OBVIOUS
  <2>1. \A e \in Dirs \ doomed, k \in Slots : inodes[e].slot[k] \notin g
    <3> SUFFICES ASSUME NEW e \in Dirs \ {i}, NEW k \in Slots, inodes[e].slot[k] \in gone
                 PROVE  FALSE
      OBVIOUS
    <3>1. PICK l \in Direct : inodes[e].slot[k] = inodes[i].slot[l]
      BY <1>5
    <3>2. inodes[e].slot[k] \in Blocks
      BY <1>2, <1>5 DEF TypeOK
    <3>3. l \in Slots /\ e \in inodeBitmap
      BY SizesFinite DEF Dirs
    <3> QED
      BY <3>1, <3>2, <3>3, <1>2, <1>9 DEF Owners
  <2>2. \A e \in Dirs \ doomed : inodes'[e].slot = inodes[e].slot
    BY <1>16
  <2>3. d \notin doomed
    BY <1>9
  <2>4. /\ \A e \in Dirs \ doomed : e # d \/ dirs' = Erased(g) => Entries(e)' = Entries(e)
        /\ dirs' = WithoutEntry(Erased(g), d, x) => Entries(d)' = Entries(d) \ {x}
    BY <2>1, <2>2, <2>3, <1>1, <1>2, <1>7, <1>8, EntriesLeft
  <2> QED
    BY <2>4
<1>18. \A e \in Dirs' : Counted(e)'
  <2> SUFFICES ASSUME NEW e \in Dirs
               PROVE  inodes[e].cnt \in {Cardinality(Entries(e)'), Cardinality(Entries(e)') + 1}
    BY <1>1, <1>15, <1>16 DEF Counted
  <2>1. CASE e # d \/ dirs' = Erased(g)
    BY <2>1, <1>2, <1>9, <1>17
  <2>2. CASE e = d /\ dirs' = WithoutEntry(Erased(g), d, x)
    <3>1. Cardinality(Entries(d) \ {x}) = Cardinality(Entries(d)) - 1
      BY <1>1, <1>2, <1>8, FS_RemoveElement
    <3> QED
      BY <3>1, <2>2, <1>1, <1>2, <1>17
  <2> QED
    BY <2>1, <2>2, <1>7
<1> QED
  BY <1>1, <1>11, <1>12, <1>14, <1>18 DEF IInv

LEMMA KilledInMakeInv ==
    ASSUME IInv, NEW d \in Inodes, NEW n \in Names, KilledInMake(d, n)
    PROVE  IInv'
<1>1. faults = {} /\ d \in Dirs /\ faults' = {"killedInMake"}
      /\ blockBitmap' = OwnedIn(inodes', inodeBitmap')
  BY Begin DEF KilledInMake, NewName, Reached, Recover
<1>2. /\ TypeOK /\ Clean /\ Owners /\ Tree
      /\ \A e \in Dirs : /\ inodes[e].cnt = Cardinality(Entries(e)) /\ IsFiniteSet(Entries(e))
                         /\ Cardinality(Entries(e)) \in Nat
  BY <1>1, Begin
<1>3. PICK x \in Places, i \in Inodes :
        /\ FirstOpen(d, x)
        /\ FirstFree(i)
        /\ \E pb \in ParentBlocks(d, x) : \E s \in Injections(1, Free \ pb) :
           \E new \in {NewDir(d, i, s), NewFile(s, <<>>)} :
              LET entry   == WithEntry(d, x, pb, n, i)
                  content == [dirs EXCEPT ![s[0]] = new.data]
              IN  \/ UNCHANGED <<inodes, dirs>>
                  \/ /\ inodes' = [inodes EXCEPT ![i] = new.rec]
                     /\ dirs' \in {content, [content EXCEPT ![entry.block] = entry.data]}
        /\ inodeBitmap' = inodeBitmap \cup {i}
  BY DEF KilledInMake
<1>4. Open(d, x) /\ i \in Inodes \ inodeBitmap /\ inodeBitmap' = inodeBitmap \cup {i}
  BY <1>3 DEF FirstOpen, FirstFree
<1>5. CASE UNCHANGED <<inodes, dirs>>
  <2>1. inodeBitmap \subseteq inodeBitmap' /\ inodeBitmap' \subseteq Inodes
    BY <1>2, <1>4 DEF TypeOK
  <2>2. blockBitmap' \subseteq Blocks
    BY <1>1, OwnedAreBlocks
  <2>3. Owned' \subseteq blockBitmap'
    BY <1>1 DEF Owned
  <2>4. faults' \in {{}, {"repair"}, {"killedInMake"}}
    BY <1>1
  <2> QED
    BY <2>1, <2>2, <2>3, <2>4, <1>1, <1>5, MarkInv
<1>6. ASSUME NEW pb \in ParentBlocks(d, x), NEW s \in Injections(1, Free \ pb),
             NEW new \in {NewDir(d, i, s), NewFile(s, <<>>)}, NEW parent,
             parent = WithEntry(d, x, pb, n, i),
             inodes' = [inodes EXCEPT ![i] = new.rec],
             dirs' \in {[dirs EXCEPT ![s[0]] = new.data],
                        [[dirs EXCEPT ![s[0]] = new.data] EXCEPT ![parent.block] = parent.data]}
      PROVE  IInv'
  <2>1. DOMAIN s = {0} /\ s[0] \in Free \ pb /\ s[0] \in Blocks
    BY DEF Injections, Free
  <2>2. /\ parent.block \in Blocks /\ parent.block # s[0]
        /\ parent.rec.cnt = inodes[d].cnt + 1
        /\ parent.data \in [Offsets -> Entry \cup {NIL}]
    <3>1. i \in Inodes
      BY <1>4
    <3>2. Placed(d, x, pb, n, i, parent)
      BY <3>1, <1>1, <1>2, <1>4, <1>6, ParentEntry
    <3>3. pb = {} => parent.block \notin Free
      BY <3>2 DEF Placed
    <3>4. pb # {} => pb = {parent.block}
      BY <3>2 DEF Placed
    <3>5. /\ parent.block \in Blocks /\ parent.rec.cnt = inodes[d].cnt + 1
          /\ parent.data \in [Offsets -> Entry \cup {NIL}]
      BY <3>2 DEF Placed
    <3> QED
      BY <3>3, <3>4, <3>5, <2>1
  <2>3. new.rec.slot = [k \in Slots |-> IF k = 0 THEN s[0] ELSE NIL]
    <3>1. CASE new = NewDir(d, i, s)
      BY <3>1 DEF NewDir
    <3>2. CASE new = NewFile(s, <<>>)
      BY <3>2, <2>1 DEF NewFile
    <3> QED
      BY <3>1, <3>2
  <2>4. /\ new.rec \in INode /\ new.rec.cnt > 0
        /\ new.data \in [Offsets -> Entry \cup {NIL}]
    <3>1. \A r : r.slot \in [Slots -> Blocks \cup {NIL, WILD}] => TRUE
      OBVIOUS
    <3>2. [k \in Slots |-> IF k = 0 THEN s[0] ELSE NIL] \in [Slots -> Blocks \cup {NIL, WILD}]
      BY <2>1
    <3>3. CASE new = NewDir(d, i, s)
      <4>1. new.rec = [mode |-> "dir", cnt |-> 2, slot |-> new.rec.slot]
        BY <3>3 DEF NewDir
      <4>2. new.data \in [Offsets -> Entry \cup {NIL}]
        BY <3>3 DEF NewDir, Empty, Entry
      <4> QED
        BY <4>1, <4>2, <3>2, <2>3 DEF INode
    <3>4. CASE new = NewFile(s, <<>>)
      <4>1. new.rec = [mode |-> "file", cnt |-> 1, slot |-> new.rec.slot]
        BY <3>4 DEF NewFile
      <4>2. new.data \in [Offsets -> Entry \cup {NIL}]
        BY <3>4, EmptyType DEF NewFile
      <4> QED
        BY <4>1, <4>2, <3>2, <2>3 DEF INode
    <3> QED
      BY <3>3, <3>4
  <2>5. /\ d \in Inodes /\ d \in inodeBitmap /\ i # d /\ inodes[d].cnt \in Nat
        /\ inodes[d].mode = "dir" /\ inodes \in [Inodes -> INode]
        /\ dirs \in [Blocks -> [Offsets -> Entry \cup {NIL}]]
    BY <1>1, <1>2, <1>4 DEF Dirs, TypeOK, INode
  <2>6. /\ inodes'[i] = new.rec /\ \A j \in Inodes \ {i} : inodes'[j] = inodes[j]
        /\ inodes' \in [Inodes -> INode]
    BY <1>4, <1>6, <2>4, <2>5
  <2>7. /\ dirs'[s[0]] = new.data
        /\ dirs'[parent.block] \in {dirs[parent.block], parent.data}
        /\ \A b \in Blocks \ {s[0], parent.block} : dirs'[b] = dirs[b]
        /\ dirs' \in [Blocks -> [Offsets -> Entry \cup {NIL}]]
    BY <1>6, <2>1, <2>2, <2>4, <2>5
  <2>8. TypeOK'
    BY <1>1, <1>2, <1>4, <2>6, <2>7, OwnedAreBlocks DEF TypeOK, Faults
  <2>9. Clean'
    BY <1>2, <1>4, <2>6 DEF Clean
  <2>10. Owners'
    <3>1. ASSUME NEW j \in inodeBitmap', NEW h \in inodeBitmap', NEW l \in Slots, NEW m \in Slots,
                 inodes'[j].slot[l] \in Blocks, inodes'[j].slot[l] = inodes'[h].slot[m]
          PROVE  j = h /\ l = m
      <4>1. \A k \in Slots : inodes'[i].slot[k] \in Blocks => k = 0 /\ inodes'[i].slot[k] = s[0]
        BY <2>3, <2>6, BlockAssumption
      <4>2. \A e \in inodeBitmap, k \in Slots :
               inodes'[e].slot[k] = inodes[e].slot[k] /\ inodes[e].slot[k] # s[0]
        BY <1>2, <1>4, <2>1, <2>6 DEF Owners, Owned, OwnedIn, Free, TypeOK
      <4>3. CASE j \in inodeBitmap /\ h \in inodeBitmap
        <5>1. inodes[j].slot[l] \in Blocks /\ inodes[j].slot[l] = inodes[h].slot[m]
          BY <4>2, <4>3, <3>1
        <5> QED
          BY <5>1, <4>3, <1>2 DEF Owners
      <4>4. CASE j = i /\ h = i
        BY <4>1, <4>4, <3>1
      <4>5. CASE j = i /\ h \in inodeBitmap
        BY <4>1, <4>2, <4>5, <3>1
      <4>6. CASE j \in inodeBitmap /\ h = i
        BY <4>1, <4>2, <4>6, <3>1
      <4> QED
        BY <4>3, <4>4, <4>5, <4>6, <1>4
    <3> QED
      BY <3>1, <1>1, <2>8, RecoveredOwners
  <2>11. /\ \A e \in Dirs \ {d} : /\ Entries(e)' = Entries(e) /\ Links(e)' = Links(e)
                                 /\ \A y \in Entries(e) : At(e, y)' = At(e, y)
         /\ x \notin Entries(d)
         /\ \A y \in Entries(d) : At(d, y)' = At(d, y)
         /\ \/ Entries(d)' = Entries(d)
            \/ Entries(d)' = Entries(d) \cup {x} /\ At(d, x)' = [name |-> n, ino |-> i]
    <3>1. inodes'[d] \in {inodes[d], parent.rec} /\ \A j \in Inodes \ {d, i} : inodes'[j] = inodes[j]
      BY <2>5, <2>6
    <3>2. inodes'[d] # parent.rec
      BY <2>2, <2>5, <2>6
    <3>3. i \in Inodes \ inodeBitmap /\ s[0] \in Free \ pb
      BY <1>4, <2>1
    <3>4. PICK c : c = s[0]
      OBVIOUS
    <3>5. c \in Free \ pb /\ \A b \in Blocks \ {c, parent.block} : dirs'[b] = dirs[b]
      BY <3>3, <3>4, <2>7
    <3>6. dirs'[parent.block] \in {dirs[parent.block], parent.data}
      BY <2>7
    <3> QED
      BY <3>1, <3>2, <3>3, <3>5, <3>6, <1>1, <1>2, <1>4, <1>6, Growth
  <2>12. inodes'[i].mode = "dir" => /\ Entries(i)' = {<<0, 0>>, <<0, 1>>}
                                    /\ At(i, <<0, 0>>)' = [name |-> DOT, ino |-> i]
                                    /\ At(i, <<0, 1>>)' = [name |-> DOTDOT, ino |-> d]
                                    /\ inodes'[i].cnt = 2
    <3>1. CASE new = NewFile(s, <<>>)
      <4>1. NewFile(s, <<>>).rec.mode = "file"
        BY DEF NewFile
      <4> QED
        BY <4>1, <3>1, <2>6
    <3>2. CASE new = NewDir(d, i, s)
      <4>1. NewDir(d, i, s).rec.cnt = 2
        BY DEF NewDir
      <4> QED
        BY <4>1, <3>2, <1>4, <2>1, <2>5, <2>6, <2>7, NewDirEntries
    <3> QED
      BY <3>1, <3>2
  <2>13. Tree'
    <3>1. /\ inodes'[d].mode = "dir" /\ inodes'[d].cnt \in Nat /\ inodes'[d].cnt >= inodes[d].cnt
          /\ inodes'[i].cnt > 0
      BY <2>4, <2>5, <2>6
    <3>2. i \in Inodes \ inodeBitmap /\ \A j \in Inodes \ {d, i} : inodes'[j] = inodes[j]
      BY <1>4, <2>6
    <3>3. inodes'[i].mode = "dir" => /\ Entries(i)' = {<<0, 0>>, <<0, 1>>}
                                     /\ At(i, <<0, 0>>)' = [name |-> DOT, ino |-> i]
                                     /\ At(i, <<0, 1>>)' = [name |-> DOTDOT, ino |-> d]
      BY <2>12
    <3>4. inodeBitmap' = inodeBitmap \cup {i}
      BY <1>4
    <3>5. \A y \in Entries(d) : At(d, y)' = At(d, y)
      BY <2>11
    <3>6. \/ Entries(d)' = Entries(d)
          \/ Entries(d)' = Entries(d) \cup {x} /\ At(d, x)' = [name |-> n, ino |-> i]
      BY <2>11
    <3>7. \A e \in Dirs \ {d} : /\ Entries(e)' = Entries(e) /\ Links(e)' = Links(e)
                                /\ \A y \in Entries(e) : At(e, y)' = At(e, y)
      BY <2>11
    <3> QED
      <4>1. TypeOK /\ Tree
        BY <1>2
      <4>2. d \in Dirs
        BY <1>1
      <4> QED
        BY <3>1, <3>2, <3>3, <3>4, <3>5, <3>6, <3>7, <4>1, <4>2, GrownTree, SMTT(60)
  <2>14. \A e \in Dirs' : Counted(e)'
    <3> SUFFICES ASSUME NEW e, e \in Dirs'
                 PROVE  inodes'[e].cnt \in {Cardinality(Entries(e)') - 1, Cardinality(Entries(e)')}
      BY <1>1 DEF Counted
    <3>1. CASE e = i
      BY <3>1, <2>12, TwoDots DEF Dirs
    <3>2. CASE e = d
      <4>1. Cardinality(Entries(d) \cup {x}) = Cardinality(Entries(d)) + 1
        BY <1>1, <1>2, <2>11, FS_AddElement
      <4>2. inodes'[d].cnt = Cardinality(Entries(d)) /\ Cardinality(Entries(d)) \in Nat
        BY <1>1, <1>2, <2>5, <2>6
      <4>3. Entries(d)' = Entries(d) \/ Entries(d)' = Entries(d) \cup {x}
        BY <2>11
      <4> PICK m : m = Cardinality(Entries(d))
        OBVIOUS
      <4>4. Cardinality(Entries(d)') \in {m, m + 1}
        BY <4>1, <4>3
      <4>5. m \in Nat /\ inodes'[d].cnt = m
        BY <4>2
      <4> QED
        BY <4>4, <4>5, <3>2
    <3>3. CASE e \in Dirs \ {d}
      <4>1. inodes'[e] = inodes[e]
        BY <3>3, <1>2, <1>4, <2>6 DEF Dirs, TypeOK
      <4> QED
        BY <4>1, <3>3, <1>2, <2>11
    <3> QED
      BY <3>1, <3>2, <3>3, <1>2, <1>4, <2>6 DEF Dirs, TypeOK
  <2> QED
    BY <2>8, <2>9, <2>10, <2>13, <2>14, <1>1 DEF IInv
<1> QED
  BY <1>3, <1>5, <1>6, Zenon

-----------------------------------------------------------------------------
\* The invariant is inductive.
LEMMA FormatInv == Format => IInv'
<1>1. Init => IInv
  BY InitInv
<1>2. Init' => IInv'
  BY <1>1, PTL
<1>3. Format => Init'
  BY DEF Format, Init, Formatted
<1> QED
  BY <1>2, <1>3

LEMMA NextInv == IInv /\ [Next]_vars => IInv'
<1> SUFFICES ASSUME IInv, [Next]_vars PROVE IInv'
  OBVIOUS
<1>1. CASE Format
  BY <1>1, FormatInv
<1>2. ASSUME NEW d \in Inodes, NEW n \in Names, MakeDir(d, n) PROVE IInv'
  BY <1>2, MakeDirInv
<1>3. ASSUME NEW d \in Inodes, NEW n \in Names, NEW len \in 0 .. S, NEW whole \in BOOLEAN,
             Create(d, n, len, whole)
      PROVE  IInv'
  BY <1>3, CreateInv
<1>4. ASSUME NEW f \in Inodes, NEW k \in 1 .. S + 1, WriteFile(f, k) PROVE IInv'
  BY <1>4, WriteFileInv
<1>5. ASSUME NEW d \in Inodes, NEW n \in Names, DelFile(d, n) PROVE IInv'
  BY <1>5, DelFileInv
<1>6. ASSUME NEW d \in Inodes, NEW n \in Names, DeleteDir(d, n) PROVE IInv'
  BY <1>6, DeleteDirInv
<1>7. CASE Restart
  BY <1>7, RestartInv
<1>8. ASSUME NEW d \in Inodes, NEW n \in Names, KilledInMake(d, n) PROVE IInv'
  BY <1>8, KilledInMakeInv
<1>9. ASSUME NEW d \in Inodes, NEW n \in Names, KilledInDelete(d, n) PROVE IInv'
  BY <1>9, KilledInDeleteInv
<1>10. CASE UNCHANGED vars
  <2>1. /\ inodes' = inodes /\ dirs' = dirs /\ inodeBitmap' = inodeBitmap
        /\ blockBitmap' = blockBitmap /\ faults' = faults
    BY <1>10 DEF vars
  <2>2. Dirs' = Dirs
    BY <2>1 DEF Dirs
  <2>3. \A e : /\ Entries(e)' = Entries(e) /\ Links(e)' = Links(e)
              /\ \A y : At(e, y)' = At(e, y)
    BY <2>1 DEF Entries, Links, At
  <2>4. TypeOK' /\ Clean'
    BY <2>1 DEF IInv, TypeOK, Clean
  <2>5. Owners => Owners'
    BY <2>1 DEF Owners, Owned
  <2>6. Tree => Tree'
    <3> SUFFICES ASSUME Tree PROVE Tree'
      OBVIOUS
    <3>1. inodeBitmap \subseteq inodeBitmap' /\ TypeOK
      BY <2>1 DEF IInv
    <3>2. \A j \in inodeBitmap : inodes'[j].mode = inodes[j].mode /\ inodes'[j].cnt = inodes[j].cnt
      BY <2>1
    <3> QED
      BY <2>2, <2>3, <3>1, <3>2, SameTree
  <2>7. \A e \in Dirs' : Counted(e)'
    BY <2>1, <2>2, <2>3 DEF IInv, Counted
  <2> QED
    BY <2>1, <2>4, <2>5, <2>6, <2>7 DEF IInv
<1> QED
  BY <1>1, <1>2, <1>3, <1>4, <1>5, <1>6, <1>7, <1>8, <1>9, <1>10 DEF Next

LEMMA Invariance == Spec => []IInv
<1> QED
  BY InitInv, NextInv, PTL DEF Spec

\* Every variable keeps its type through every operation, kill and repair.
THEOREM TypeCorrect == Spec => []TypeOK
<1>1. IInv => TypeOK
  BY DEF IInv
<1> QED
  BY <1>1, Invariance, PTL

\* No two slots of marked inodes hold the same block, and a block in a slot is
\* marked, unless a file was created with an uninitialised slot.
THEOREM BlocksOwnedOnce == Spec => []OneOwner
<1>1. ASSUME IInv PROVE OneOwner
  <2> SUFFICES ASSUME "uninitialisedSlot" \notin faults, NEW b \in Owned
               PROVE  Owned \subseteq blockBitmap /\ Cardinality(SlotsHolding(b)) = 1
    BY <1>1 DEF OneOwner, IInv, Owners
  <2>1. Owners
    BY <1>1 DEF IInv
  <2>2. b \in OwnedIn(inodes, inodeBitmap)
    BY DEF Owned
  <2>3. b \in Blocks /\ \E j \in inodeBitmap, l \in Slots : inodes[j].slot[l] = b
    BY <2>2, OwnedMeans
  <2>4. PICK j \in inodeBitmap, l \in Slots : inodes[j].slot[l] = b
    BY <2>3
  <2>5. \A p \in SlotsHolding(b) : p = <<j, l>>
    BY <2>1, <2>3, <2>4 DEF SlotsHolding, Owners
  <2>6. <<j, l>> \in SlotsHolding(b)
    BY <2>4 DEF SlotsHolding
  <2>7. SlotsHolding(b) = {<<j, l>>}
    BY <2>5, <2>6
  <2>8. Cardinality({<<j, l>>}) = 1
    BY FS_Singleton
  <2> QED
    BY <2>1, <2>7, <2>8 DEF Owners
<1> QED
  BY <1>1, Invariance, PTL

\* Every entry a path reaches leads to a marked inode that was written, no two
\* to the same one, and . and .. lead where they should, unless the process was
\* killed while it deleted a file.
THEOREM NamesLeadToInodes == Spec => []NamesExact
<1>1. ASSUME IInv PROVE NamesExact
  <2> SUFFICES ASSUME "killedInDelete" \notin faults PROVE NamesExact
    BY DEF NamesExact
  <2>1. Tree /\ LinkedDirs \subseteq Dirs
    BY <1>1, LinkedDirsMarked DEF IInv
  <2>2. ASSUME NEW d \in LinkedDirs
        PROVE  /\ d \in inodeBitmap
               /\ At(d, <<0, 0>>) = [name |-> DOT, ino |-> d]
               /\ \A x \in Links(d) :
                     LET i == At(d, x).ino IN
                     /\ i \in inodeBitmap /\ inodes[i].cnt > 0
                     /\ inodes[i].mode = "dir" => At(i, <<0, 1>>) = [name |-> DOTDOT, ino |-> d]
    BY <2>1 DEF Tree, Dirs, DotsAt, Sound
  <2>3. ASSUME NEW p \in AllLinks, NEW q \in AllLinks, At(p[1], p[2]).ino = At(q[1], q[2]).ino
        PROVE  p = q
    <3>1. PICK d \in LinkedDirs : \E x \in Links(d) : p = <<d, x>>
      BY DEF AllLinks
    <3>2. PICK x \in Links(d) : p = <<d, x>>
      BY <3>1
    <3>3. PICK e \in LinkedDirs : \E y \in Links(e) : q = <<e, y>>
      BY DEF AllLinks
    <3>4. PICK y \in Links(e) : q = <<e, y>>
      BY <3>3
    <3>5. d \in Dirs /\ e \in Dirs /\ At(d, x).ino = At(e, y).ino
      BY <2>1, <2>3, <3>2, <3>4
    <3> QED
      BY <3>2, <3>4, <3>5, <2>1 DEF Tree
  <2> QED
    BY <2>2, <2>3 DEF NamesExact
<1> QED
  BY <1>1, Invariance, PTL

\* A directory counts the entries a listing finds, after a kill one more or less.
THEOREM CountsAgree == Spec => []CountsExact
<1>1. ASSUME IInv PROVE CountsExact
  <2>1. LinkedDirs \subseteq Dirs
    BY <1>1, LinkedDirsMarked DEF IInv
  <2> QED
    BY <1>1, <2>1 DEF IInv, Counted, CountsExact
<1> QED
  BY <1>1, Invariance, PTL

-----------------------------------------------------------------------------
(* What an operation may lose.                                              *)

\* The linked inodes after a step.
LEMMA LinkedNext ==
    TypeOK' => Root \in Linked' /\ \A d \in Linked' : Children(d)' \subseteq Linked'
<1> DEFINE P == Root \in Linked /\ \A d \in Linked : Children(d) \subseteq Linked
<1>1. TypeOK => P
  BY LinkedLeast
<1> HIDE DEF P
<1>2. TypeOK' => P'
  BY <1>1, PTL
<1> QED
  BY <1>2 DEF P

\* If every directory still leads where it led, or to inodes in gone that lead
\* nowhere else, then a path that led to an inode still does, or it is in gone.
LEMMA LinkedKept ==
    ASSUME TypeOK, TypeOK', Clean, NEW gone, Root \notin gone,
           \A e \in gone \cap Inodes : Children(e) \subseteq gone,
           \A e \in Dirs \ gone : Children(e) \subseteq Children(e)' \cup gone
    PROVE  Linked \subseteq Linked' \cup gone
<1> DEFINE T == Linked' \cup gone
<1>1. Root \in T
  BY LinkedNext
<1>2. \A e \in Linked' : Children(e)' \subseteq Linked'
  BY LinkedNext
<1>3. ASSUME NEW e \in T, e \in Inodes PROVE Children(e) \subseteq T
  <2>1. CASE e \in gone
    BY <2>1, <1>3
  <2>2. CASE e \notin Dirs
    BY <2>2, <1>3, EmptyType DEF Children, Dirs, Clean
  <2>3. CASE e \in Dirs \ gone
    BY <2>3, <1>2
  <2> QED
    BY <2>1, <2>2, <2>3
<1>4. Linked \subseteq T
  <2> HIDE DEF T
  <2> QED
    BY <1>1, <1>3, LinkedLeast
<1> QED
  BY <1>4

\* A creation that succeeds loses nothing.
LEMMA MadeKeeps ==
    ASSUME IInv, IInv', faults = {}, faults' = {}, NEW d \in Dirs, d \in LinkedDirs,
           NEW x \in Places, Open(d, x),
           NEW pb \in ParentBlocks(d, x), NEW n \in Names, NEW i \in Inodes \ inodeBitmap,
           NEW k \in 1 .. S, NEW s \in Injections(k, Free \ pb),
           NEW new, new.rec \in INode, \A l \in DOMAIN s : new.rec.slot[l] = s[l],
           Put(d, x, pb, n, i, s, new)
    PROVE  Orphans' \subseteq Orphans /\ Leaked' \subseteq Leaked
<1>1. TypeOK /\ Clean /\ Owners /\ Tree /\ TypeOK'
  BY Begin DEF IInv
<1>2. PICK parent : parent = WithEntry(d, x, pb, n, i)
  OBVIOUS
<1>3. /\ BlocksTaken(d, x, pb, k, s, parent)
      /\ DiskWritten(d, i, pb, s, new, parent)
      /\ EntryAdded(d, x, n, i)
  BY <1>1, <1>2, MadeDoes
<1>4. /\ DOMAIN s = 0 .. k - 1 /\ \A l \in DOMAIN s : s[l] \in Free \ pb
      /\ parent.block \in Blocks /\ parent.rec.mode = "dir"
      /\ parent.rec.slot = [inodes[d].slot EXCEPT ![x[1]] = parent.block]
      /\ pb = {} => inodes[d].slot[x[1]] = parent.block
      /\ pb # {} => pb = {parent.block} /\ inodes[d].slot[x[1]] = NIL
  BY <1>3 DEF BlocksTaken
<1>5. /\ inodeBitmap' = inodeBitmap \cup {i}
      /\ blockBitmap' = blockBitmap \cup pb \cup {s[l] : l \in DOMAIN s}
      /\ inodes'[i] = new.rec /\ inodes'[d] = parent.rec
      /\ \A j \in Inodes \ {d, i} : inodes'[j] = inodes[j]
  BY <1>3 DEF DiskWritten
<1>6. /\ \A e \in Dirs \ {d} : /\ Links(e)' = Links(e)
                              /\ \A y \in Entries(e) : At(e, y)' = At(e, y)
      /\ \A y \in Entries(d) : At(d, y)' = At(d, y)
      /\ Entries(d)' = Entries(d) \cup {x} /\ At(d, x)' = [name |-> n, ino |-> i]
  BY <1>3 DEF EntryAdded
<1>7. /\ d \in Inodes /\ d \in inodeBitmap /\ d # i /\ inodes[d].mode = "dir" /\ d \in Linked
      /\ inodes[d].slot \in [Slots -> Blocks \cup {NIL, WILD}] /\ x[1] \in Slots
  BY <1>1, SizesFinite DEF Dirs, TypeOK, LinkedDirs, INode
<1>8. x \in Links(d)' /\ \A y \in Links(d) : y \in Links(d)' /\ At(d, y)' = At(d, y)
  <2>1. x \in Links(d)'
    BY <1>6, NameAssumption DEF Links, Special
  <2>2. ASSUME NEW y \in Links(d) PROVE y \in Links(d)' /\ At(d, y)' = At(d, y)
    BY <1>6 DEF Links, Special
  <2> QED
    BY <2>1, <2>2
<1>9. ASSUME NEW e \in Dirs PROVE Children(e) \subseteq Children(e)'
  <2>1. inodes[e].mode = "dir" /\ inodes'[e].mode = "dir"
    BY <1>1, <1>4, <1>5 DEF Dirs, TypeOK
  <2>2. \A y \in Links(e) : y \in Links(e)' /\ At(e, y)' = At(e, y)
    BY <1>6, <1>8 DEF Links
  <2> QED
    BY <2>1, <2>2 DEF Children
<1>10. i \in Children(d)'
  BY <1>4, <1>5, <1>6, <1>8 DEF Children
<1>11. Linked \subseteq Linked'
  <2>1. Linked \subseteq Linked' \cup {}
    <3>1. \A e \in Dirs \ {} : Children(e) \subseteq Children(e)' \cup {}
      BY <1>9
    <3> QED
      BY <3>1, <1>1, LinkedKept
  <2> QED
    BY <2>1
<1>12. i \in Linked'
  BY <1>1, <1>7, <1>10, <1>11, LinkedNext
<1>13. Orphans' \subseteq Orphans
  BY <1>5, <1>11, <1>12 DEF Orphans
<1>14. ASSUME NEW b \in Blocks, NEW j \in inodeBitmap \cup {i}, NEW l \in Slots,
              inodes'[j].slot[l] = b
       PROVE  b \in Owned'
  <2>1. b \in OwnedIn(inodes', inodeBitmap')
    BY <1>5, <1>14, OwnedMeans
  <2> QED
    BY <2>1 DEF Owned
<1>15. parent.block \in Owned'
  <2>1. inodes'[d].slot[x[1]] = parent.block
    BY <1>4, <1>5, <1>7
  <2> QED
    BY <2>1, <1>4, <1>7, <1>14
<1>16. \A l \in DOMAIN s : s[l] \in Owned'
  <2> SUFFICES ASSUME NEW l \in DOMAIN s PROVE s[l] \in Owned'
    OBVIOUS
  <2>1. l \in Slots /\ s[l] \in Blocks
    BY <1>4, SizeAssumption DEF Slots, Free
  <2>2. inodes'[i].slot[l] = s[l]
    BY <1>5
  <2> QED
    BY <2>1, <2>2, <1>14
<1>17. Owned \subseteq Owned'
  <2> SUFFICES ASSUME NEW b \in Owned PROVE b \in Owned'
    OBVIOUS
  <2>1. b \in OwnedIn(inodes, inodeBitmap)
    BY DEF Owned
  <2>2. PICK j \in inodeBitmap, l \in Slots : inodes[j].slot[l] = b /\ b \in Blocks
    BY <2>1, OwnedMeans
  <2>3. CASE j = d /\ l = x[1]
    BY <2>2, <2>3, <1>4, <1>15, BlockAssumption
  <2>4. CASE ~(j = d /\ l = x[1])
    <3>1. inodes'[j].slot[l] = b
      BY <2>2, <2>4, <1>1, <1>4, <1>5, <1>7 DEF TypeOK
    <3> QED
      BY <3>1, <2>2, <1>14
  <2> QED
    BY <2>3, <2>4
<1>18. Leaked' \subseteq Leaked
  BY <1>4, <1>5, <1>15, <1>16, <1>17 DEF Leaked
<1> QED
  BY <1>13, <1>18

\* A removal makes no orphan: what it takes away led nowhere else.
LEMMA RemovedKeeps ==
    ASSUME IInv, IInv', NEW d, NEW x, NEW doomed, NEW gone, Removed(d, x, doomed, gone)
    PROVE  Orphans' \subseteq Orphans
<1>1. /\ faults = {} /\ d \in Dirs /\ x \in Links(d) /\ d \notin doomed /\ Root \notin doomed
      /\ At(d, x).ino \in doomed
      /\ \A e \in doomed : Children(e) \subseteq doomed
      /\ \A j \in inodeBitmap \ doomed, k \in Slots : inodes[j].slot[k] \notin gone
      /\ inodes'[d] = [inodes[d] EXCEPT !.cnt = @ - 1]
      /\ \A j \in Inodes \ (doomed \cup {d}) : inodes'[j] = inodes[j]
      /\ dirs' = WithoutEntry(Erased(gone), d, x)
      /\ inodeBitmap' = inodeBitmap \ doomed
  BY DEF Removed
<1>2. TypeOK /\ Clean /\ Owners /\ Tree /\ TypeOK'
  BY <1>1, Begin DEF IInv
<1>3. \A e \in Dirs \ doomed : inodes'[e].slot = inodes[e].slot /\ inodes'[e].mode = "dir"
  <2>1. inodes[d] \in INode /\ inodes[d].mode = "dir" /\ d \in Inodes
    BY <1>1, <1>2 DEF Dirs, TypeOK
  <2>2. inodes'[d].slot = inodes[d].slot /\ inodes'[d].mode = "dir"
    BY <2>1, <1>1 DEF INode
  <2>3. ASSUME NEW e \in Dirs \ doomed, e # d
        PROVE  inodes'[e].slot = inodes[e].slot /\ inodes'[e].mode = "dir"
    BY <2>3, <1>1, <1>2 DEF Dirs, TypeOK
  <2> QED
    BY <2>2, <2>3
<1>4. /\ \A e \in Dirs \ doomed : e # d =>
             Links(e)' = Links(e) /\ \A y \in Entries(e) : At(e, y)' = At(e, y)
      /\ Links(d)' = Links(d) \ {x} /\ \A y \in Entries(d) \ {x} : At(d, y)' = At(d, y)
  <2>1. \A e \in Dirs \ doomed, k \in Slots : inodes[e].slot[k] \notin gone
    BY <1>1 DEF Dirs
  <2>2. dirs' \in {Erased(gone), WithoutEntry(Erased(gone), d, x)}
    BY <1>1
  <2>3. \A e \in Dirs \ doomed : inodes'[e].slot = inodes[e].slot
    BY <1>3
  <2> QED
    BY <2>1, <2>2, <2>3, <1>1, <1>2, EntriesLeft
<1>5. ASSUME NEW e \in Dirs \ doomed PROVE Children(e) \subseteq Children(e)' \cup doomed
  <2>1. \A y \in Links(e) : y \in Entries(e)
    BY DEF Links
  <2>2. \A y \in Links(e) : (e = d /\ y = x) \/ (y \in Links(e)' /\ At(e, y)' = At(e, y))
    BY <2>1, <1>4
  <2>3. inodes'[e].mode = "dir" /\ inodes[e].mode = "dir"
    BY <1>3 DEF Dirs
  <2> QED
    BY <2>2, <2>3, <1>1 DEF Children
<1>6. Linked \subseteq Linked' \cup doomed
  <2>1. \A e \in doomed \cap Inodes : Children(e) \subseteq doomed
    BY <1>1
  <2> QED
    BY <2>1, <1>1, <1>2, <1>5, LinkedKept
<1> QED
  BY <1>1, <1>6 DEF Orphans

\* A block that DelFile leaves behind is in the slot past the direct ones.
LEMMA DelFileKeeps ==
    ASSUME IInv, IInv', NEW d \in Inodes, NEW n \in Names, DelFile(d, n)
    PROVE  /\ Orphans' \subseteq Orphans
           /\ Leaked' \subseteq Leaked \/ \E f \in Linked : inodes[f].slot[S] \in Leaked'
<1>1. PICK x, i, gone : /\ Removed(d, x, {i}, gone)
                        /\ x \in Links(d) /\ i = At(d, x).ino /\ i \in inodeBitmap
                        /\ gone = {inodes[i].slot[k] : k \in Direct} \cap blockBitmap
  BY DelFileRemoves
<1>2. Orphans' \subseteq Orphans
  BY <1>1, RemovedKeeps
<1>3. faults = {} /\ d \in Linked /\ inodes[d].mode = "dir"
  BY DEF DelFile, Reached, LinkedDirs
<1>4. TypeOK
  BY DEF IInv
<1>5. i \in Linked
  <2>1. i \in Children(d)
    BY <1>1, <1>3 DEF Children
  <2> QED
    BY <2>1, <1>3, <1>4, LinkedLeast
<1>6. /\ blockBitmap' = blockBitmap \ gone /\ inodeBitmap' = inodeBitmap \ {i}
      /\ \A j \in Inodes \ {i} : inodes'[j].slot = inodes[j].slot
  <2>1. /\ blockBitmap' = blockBitmap \ gone /\ inodeBitmap' = inodeBitmap \ {i} /\ d # i
        /\ inodes'[d] = [inodes[d] EXCEPT !.cnt = @ - 1]
        /\ \A j \in Inodes \ ({i} \cup {d}) : inodes'[j] = inodes[j]
    BY <1>1 DEF Removed
  <2>2. inodes'[d].slot = inodes[d].slot
    BY <2>1, <1>4 DEF TypeOK, INode
  <2> QED
    BY <2>1, <2>2
<1>7. ASSUME NEW b, b \in Leaked', b \notin Leaked PROVE b = inodes[i].slot[S]
  <2>1. b \in blockBitmap /\ b \notin gone /\ b \in Owned /\ b \notin Owned'
    BY <1>6, <1>7 DEF Leaked
  <2>2. b \in OwnedIn(inodes, inodeBitmap) /\ b \notin OwnedIn(inodes', inodeBitmap')
    BY <2>1 DEF Owned
  <2>3. PICK j \in inodeBitmap, l \in Slots : inodes[j].slot[l] = b /\ b \in Blocks
    BY <2>2, OwnedMeans
  <2>4. j = i
    <3> SUFFICES ASSUME j # i PROVE FALSE
      OBVIOUS
    <3>1. j \in inodeBitmap' /\ inodes'[j].slot[l] = b
      BY <2>3, <1>4, <1>6 DEF TypeOK
    <3> QED
      BY <3>1, <2>2, <2>3, OwnedMeans
  <2>5. l \notin Direct
    BY <2>1, <2>3, <2>4, <1>1
  <2>6. l = S
    BY <2>5, SizeAssumption DEF Direct, Slots
  <2> QED
    BY <2>3, <2>4, <2>6
<1> QED
  BY <1>2, <1>5, <1>7

\* A step that leaves every directory as it is, and frees no inode, makes no
\* orphan.
LEMMA SameLinks ==
    ASSUME IInv, IInv', faults = {}, inodeBitmap' = inodeBitmap, dirs' = dirs,
           \A e \in Dirs : inodes'[e] = inodes[e]
    PROVE  Orphans' \subseteq Orphans
<1>1. TypeOK /\ TypeOK' /\ Clean
  BY Begin DEF IInv
<1>2. \A e \in Dirs \ {} : Children(e) \subseteq Children(e)' \cup {}
  BY DEF Children, Links, Entries, At
<1>3. Linked \subseteq Linked' \cup {}
  BY <1>1, <1>2, LinkedKept
<1> QED
  BY <1>3 DEF Orphans

\* WriteFile loses a block only when it runs out of them.
LEMMA WriteFileKeeps ==
    ASSUME IInv, IInv', NEW f \in Inodes, NEW k \in 1 .. S + 1, WriteFile(f, k)
    PROVE  /\ Orphans' \subseteq Orphans
           /\ Leaked' \subseteq Leaked \/ (inodes' = inodes /\ blockBitmap' = Blocks)
<1>1. /\ faults = {} /\ inodes[f].mode = "file" /\ dirs' = dirs /\ inodeBitmap' = inodeBitmap
  BY DEF WriteFile
<1>2. TypeOK /\ Clean
  BY <1>1, Begin
<1>3. CASE blockBitmap' = Blocks /\ inodes' = inodes
  <2>1. \A e \in Dirs : inodes'[e] = inodes[e]
    BY <1>3
  <2> QED
    BY <2>1, <1>1, <1>3, SameLinks
<1>4. ASSUME NEW s \in [Missing(f, k) -> Free],
             inodes' = [inodes EXCEPT ![f].slot =
                            [j \in Slots |-> IF j \in DOMAIN s THEN s[j] ELSE @[j]]],
             blockBitmap' = blockBitmap \cup {s[j] : j \in DOMAIN s}
      PROVE  Orphans' \subseteq Orphans /\ Leaked' \subseteq Leaked
  <2>1. /\ \A j \in Inodes \ {f} : inodes'[j] = inodes[j]
        /\ inodes'[f].slot = [j \in Slots |-> IF j \in DOMAIN s THEN s[j] ELSE inodes[f].slot[j]]
    BY <1>2, <1>4 DEF TypeOK, INode
  <2>2. \A e \in Dirs : inodes'[e] = inodes[e]
    BY <2>1, <1>1, <1>2 DEF Dirs, TypeOK
  <2>3. Orphans' \subseteq Orphans
    BY <2>2, <1>1, SameLinks
  <2>4. /\ DOMAIN s \subseteq Slots /\ \A j \in DOMAIN s : inodes[f].slot[j] = NIL /\ s[j] \in Blocks
    BY SizeAssumption DEF Missing, Slots, Free
  <2>5. ASSUME NEW b \in Blocks, NEW j \in inodeBitmap, NEW l \in Slots, inodes'[j].slot[l] = b
        PROVE  b \in Owned'
    <3>1. b \in OwnedIn(inodes', inodeBitmap')
      BY <2>5, <1>1, OwnedMeans
    <3> QED
      BY <3>1 DEF Owned
  <2>6. Owned \subseteq Owned'
    <3> SUFFICES ASSUME NEW b \in Owned PROVE b \in Owned'
      OBVIOUS
    <3>1. b \in OwnedIn(inodes, inodeBitmap)
      BY DEF Owned
    <3>2. PICK j \in inodeBitmap, l \in Slots : inodes[j].slot[l] = b /\ b \in Blocks
      BY <3>1, OwnedMeans
    <3>3. inodes'[j].slot[l] = b
      BY <3>2, <2>1, <2>4, <1>2, BlockAssumption DEF TypeOK
    <3> QED
      BY <3>2, <3>3, <2>5
  <2>7. f \in inodeBitmap \/ DOMAIN s = {}
    BY <2>4, <1>2, EmptyType, EmptyAssumption DEF Clean
  <2>8. \A l \in DOMAIN s : s[l] \in Owned'
    <3> SUFFICES ASSUME NEW l \in DOMAIN s PROVE s[l] \in Owned'
      OBVIOUS
    <3>1. inodes'[f].slot[l] = s[l] /\ l \in Slots /\ s[l] \in Blocks
      BY <2>1, <2>4
    <3> QED
      BY <3>1, <2>5, <2>7
  <2>9. Leaked' \subseteq Leaked
    BY <2>6, <2>8, <1>4 DEF Leaked
  <2> QED
    BY <2>3, <2>9
<1> QED
  BY <1>3, <1>4 DEF WriteFile

\* A creation that fails.
LEMMA FailedMakeKeeps ==
    ASSUME IInv, IInv', NEW d \in Inodes, NEW n \in Names, NEW k \in Nat,
           MakeWithoutInode(d, n) \/ MakeWithoutBlocks(d, n, k)
    PROVE  /\ Orphans' \subseteq Orphans \/ (inodes' = inodes /\ blockBitmap' = Blocks)
           /\ inodes' = inodes /\ (blockBitmap' = Blocks \/ inodeBitmap = Inodes)
<1>1. CASE MakeWithoutInode(d, n)
  <2>1. /\ faults = {} /\ inodeBitmap = Inodes
        /\ inodes' = inodes /\ dirs' = dirs /\ inodeBitmap' = inodeBitmap
    BY <1>1 DEF MakeWithoutInode, NewName, Reached
  <2>2. \A e \in Dirs : inodes'[e] = inodes[e]
    BY <2>1
  <2> QED
    BY <2>1, <2>2, SameLinks
<1>2. CASE MakeWithoutBlocks(d, n, k)
  BY <1>2 DEF MakeWithoutBlocks
<1> QED
  BY <1>1, <1>2

LEMMA MadeLoses ==
    ASSUME IInv, IInv', faults' = {},
           NEW d, NEW x, NEW pb, NEW n, NEW i, NEW k, NEW s, NEW new,
           Made(d, x, pb, n, i, k, s, new)
    PROVE  Orphans' \subseteq Orphans /\ Leaked' \subseteq Leaked
BY MadeKeeps DEF Made

LEMMA RestartKeeps ==
    ASSUME IInv, IInv', Restart
    PROVE  Orphans' \subseteq Orphans /\ Leaked' \subseteq Leaked
<1>1. /\ faults = {} /\ inodes' = inodes /\ dirs' = dirs /\ inodeBitmap' = inodeBitmap
      /\ blockBitmap' = Owned
  BY DEF Restart
<1>2. Owned' = Owned
  BY <1>1 DEF Owned
<1>3. \A e \in Dirs : inodes'[e] = inodes[e]
  BY <1>1
<1> QED
  BY <1>1, <1>2, <1>3, SameLinks DEF Leaked

LEMMA FormatKeeps ==
    ASSUME IInv', Format
    PROVE  Orphans' = {} /\ Leaked' = {}
<1>1. inodeBitmap' = {Root} /\ blockBitmap' = {RootBlock} /\ inodes'[Root].slot[0] = RootBlock
  BY SizesFinite DEF Format, Formatted
<1>2. Root \in Linked'
  BY LinkedNext DEF IInv
<1>3. RootBlock \in Owned'
  <2>1. RootBlock \in OwnedIn(inodes', inodeBitmap')
    BY <1>1, SizesFinite, BlockAssumption, OwnedMeans
  <2> QED
    BY <2>1 DEF Owned
<1> QED
  BY <1>1, <1>2, <1>3 DEF Orphans, Leaked

LEMMA StepKeeps == IInv /\ IInv' /\ [Next]_vars => [LossExplained]_vars
<1> SUFFICES ASSUME IInv, IInv', Next, faults' = {} PROVE LossExplained
  BY DEF LossExplained
<1>1. CASE Format
  BY <1>1, FormatKeeps DEF LossExplained
<1>2. ASSUME NEW d \in Inodes, NEW n \in Names, MakeDir(d, n) PROVE LossExplained
  <2>1. CASE MakeWithoutInode(d, n) \/ MakeWithoutBlocks(d, n, 1)
    <3>1. 1 \in Nat
      OBVIOUS
    <3> QED
      BY <2>1, <3>1, FailedMakeKeeps DEF LossExplained
  <2>2. ASSUME NEW x, NEW pb, NEW i, NEW k, NEW s, NEW new, Made(d, x, pb, n, i, k, s, new)
        PROVE  LossExplained
    <3>1. Orphans' \subseteq Orphans /\ Leaked' \subseteq Leaked
      BY <2>2, MadeLoses
    <3> QED
      BY <3>1 DEF LossExplained
  <2> QED
    BY <2>1, <2>2, <1>2, MakeDirMakes, Zenon
<1>3. ASSUME NEW d \in Inodes, NEW n \in Names, NEW len \in 0 .. S, NEW whole \in BOOLEAN,
             Create(d, n, len, whole)
      PROVE  LossExplained
  <2>1. ASSUME NEW k \in Nat, MakeWithoutInode(d, n) \/ MakeWithoutBlocks(d, n, k)
        PROVE  LossExplained
    BY <2>1, FailedMakeKeeps DEF LossExplained
  <2>2. ASSUME NEW x, NEW pb, NEW i, NEW k, NEW s, NEW new, Made(d, x, pb, n, i, k, s, new)
        PROVE  LossExplained
    <3>1. Orphans' \subseteq Orphans /\ Leaked' \subseteq Leaked
      BY <2>2, MadeLoses
    <3> QED
      BY <3>1 DEF LossExplained
  <2>3. 1 \in Nat
    OBVIOUS
  <2> QED
    BY <2>1, <2>2, <2>3, <1>3, CreateMakes, Zenon
<1>4. ASSUME NEW f \in Inodes, NEW k \in 1 .. S + 1, WriteFile(f, k) PROVE LossExplained
  BY <1>4, WriteFileKeeps DEF LossExplained
<1>5. ASSUME NEW d \in Inodes, NEW n \in Names, DelFile(d, n) PROVE LossExplained
  BY <1>5, DelFileKeeps DEF LossExplained
<1>6. ASSUME NEW d \in Inodes, NEW n \in Names, DeleteDir(d, n) PROVE LossExplained
  <2>1. Orphans' \subseteq Orphans
    <3>1. PICK x, doomed, gone : Removed(d, x, doomed, gone)
      BY <1>6, DeleteDirRemoves
    <3> QED
      BY <3>1, RemovedKeeps
  <2>2. d \in LinkedDirs
    BY <1>6 DEF DeleteDir, Reached
  <2> QED
    BY <2>1, <2>2, <1>6 DEF LossExplained
<1>7. CASE Restart
  BY <1>7, RestartKeeps DEF LossExplained
<1>8. ASSUME NEW d \in Inodes, NEW n \in Names, KilledInMake(d, n) PROVE FALSE
  BY <1>8 DEF KilledInMake, Recover
<1>9. ASSUME NEW d \in Inodes, NEW n \in Names, KilledInDelete(d, n) PROVE FALSE
  BY <1>9 DEF KilledInDelete, Recover
<1> QED
  BY <1>1, <1>2, <1>3, <1>4, <1>5, <1>6, <1>7, <1>8, <1>9 DEF Next

\* No operation loses an inode or a block but in the ways LossExplained names.
THEOREM LossesExplained == Spec => LossOnlyWhen
<1> QED
  BY Invariance, StepKeeps, PTL DEF Spec, LossOnlyWhen
=============================================================================
