-------------------------------- MODULE Volume --------------------------------
(***************************************************************************)
(* Files and directories on the simulated disk: FileSystem::MakeDir,       *)
(* Create, WriteFile, DelFile, DeleteDir and DeleteFileOrDir, with the     *)
(* failures that leave them half done, the start-up repair, and a kill of  *)
(* the process between two of the writes an operation makes.               *)
(*                                                                         *)
(* Blocks and inodes are taken from their bitmaps (BlockPool and INodePool *)
(* say when the code's allocators do that).  Which operations a user may   *)
(* call is left open: a denied call changes nothing.  File contents are    *)
(* left out.  faults records the first event after which the code gives no *)
(* guarantee; the model follows a behaviour no further than that, until    *)
(* the next format.                                                        *)
(***************************************************************************)
EXTENDS Integers, FiniteSets

CONSTANTS
    NI,           \* INODE_NUM (640 in the code)
    Blocks,       \* the data blocks (2048)
    RootBlock,    \* the first of them, which the root directory gets
    S,            \* direct blocks of an inode (10)
    E,            \* directory entries of a block (16)
    Names,        \* the names users give
    DOT, DOTDOT,  \* the names . and ..
    NIL,          \* -1, and an empty directory entry
    WILD          \* the address 0, which zeroed inodes hold

ASSUME SizeAssumption == NI \in Nat \ {0} /\ S \in Nat \ {0} /\ E \in Nat \ {0, 1}
ASSUME BlockAssumption == RootBlock \in Blocks /\ NIL \notin Blocks /\ WILD \notin Blocks
ASSUME NameAssumption  == DOT \notin Names /\ DOTDOT \notin Names /\ DOT # DOTDOT

Inodes   == 0 .. NI - 1
Root     == 0
Direct   == 0 .. S - 1        \* inode_dirblock
Slots    == 0 .. S            \* followed in memory by inode_indirect_block_first
Offsets  == 0 .. E - 1
Places   == Direct \X Offsets
Entry    == [name : Names \cup {DOT, DOTDOT}, ino : Inodes]
INode    == [mode : {"file", "dir"}, cnt : Nat, slot : [Slots -> Blocks \cup {NIL, WILD}]]
ASSUME EmptyAssumption == NIL \notin Entry /\ NIL # WILD
Faults   == {"uninitialisedSlot", "killedInMake", "killedInDelete", "repair"}

VARIABLES
    inodes,       \* the inode area
    dirs,         \* block contents, as directory entries
    inodeBitmap,  \* marked inodes
    blockBitmap,  \* marked blocks
    faults

disk == <<inodes, dirs, inodeBitmap, blockBitmap>>
vars == <<inodes, dirs, inodeBitmap, blockBitmap, faults>>

TypeOK ==
    /\ inodes \in [Inodes -> INode]
    /\ dirs \in [Blocks -> [Offsets -> Entry \cup {NIL}]]
    /\ inodeBitmap \subseteq Inodes
    /\ blockBitmap \subseteq Blocks
    /\ faults \subseteq Faults

-----------------------------------------------------------------------------
Empty  == [j \in Offsets |-> NIL]
Zeroed == [mode |-> "file", cnt |-> 0, slot |-> [k \in Slots |-> WILD]]
Free   == Blocks \ blockBitmap

\* Directory d's entries, by place, and the content of one.
Entries(d) ==
    {x \in Places : LET b == inodes[d].slot[x[1]] IN b \in Blocks /\ dirs[b][x[2]] # NIL}
At(d, x)    == dirs[inodes[d].slot[x[1]]][x[2]]
Special(e)  == e.name \in {DOT, DOTDOT}
Links(d)    == {x \in Entries(d) : ~Special(At(d, x))}
Children(d) == IF inodes[d].mode = "dir" THEN {At(d, x).ino : x \in Links(d)} ELSE {}
Named(d, n) == {x \in Entries(d) : At(d, x).name = n}

\* The inodes that i leads to, in any number of steps, if j leads to next[j].
Reachable(i, next) ==
    LET upTo[k \in Nat] ==
            IF k = 0 THEN {i}
            ELSE LET near == upTo[k - 1] IN near \cup UNION {next[d] : d \in near}
    IN  upTo[NI]

\* What a path can lead to.
Linked == Reachable(Root, [d \in Inodes |-> Children(d)])
LinkedDirs == {d \in Linked : inodes[d].mode = "dir"}

\* A path led an operation to the directory d.
Reached(d) == faults = {} /\ d \in LinkedDirs

\* The place the scans of MakeDir and Create settle on: the first slot without
\* a block or the first empty entry, whichever comes first.
Open(d, x) ==
    LET b == inodes[d].slot[x[1]]
    IN  (b = NIL /\ x[2] = 0) \/ (b \in Blocks /\ dirs[b][x[2]] = NIL)
FirstOpen(d, x) ==
    /\ Open(d, x)
    /\ \A y \in Places : Open(d, y) => x[1] < y[1] \/ (x[1] = y[1] /\ x[2] <= y[2])

\* The block allocated for the parent's slot, if that slot has none.
ParentBlocks(d, x) ==
    IF inodes[d].slot[x[1]] = NIL THEN {{b} : b \in Free} ELSE {{}}

FirstFree(i) == i \notin inodeBitmap /\ \A j \in Inodes : j < i => j \in inodeBitmap

Injections(k, T) ==
    {f \in [0 .. k - 1 -> T] : \A i, j \in 0 .. k - 1 : f[i] = f[j] => i = j}

-----------------------------------------------------------------------------
Formatted(i, d, ib, bb) ==
    /\ i = [j \in Inodes |->
               IF j = Root
               THEN [mode |-> "dir", cnt |-> 1,
                     slot |-> [k \in Slots |-> IF k = 0 THEN RootBlock ELSE NIL]]
               ELSE Zeroed]
    /\ d = [b \in Blocks |->
               IF b = RootBlock THEN [Empty EXCEPT ![0] = [name |-> DOT, ino |-> Root]]
                                ELSE Empty]
    /\ ib = {Root}
    /\ bb = {RootBlock}

Init == Formatted(inodes, dirs, inodeBitmap, blockBitmap) /\ faults = {}

\* Format up to the root directory; home, root, etc and the three account
\* files are then made with MakeDir and Create.
Format == Formatted(inodes', dirs', inodeBitmap', blockBitmap') /\ faults' = {}

-----------------------------------------------------------------------------
(* MakeDir and Create allocate, in this order, a block for the parent if    *)
(* its slot has none, the inode, and the inode's blocks.                    *)

\* The new inode and what its first block holds.
NewDir(d, i, s) ==
    [rec  |-> [mode |-> "dir", cnt |-> 2,
               slot |-> [k \in Slots |-> IF k = 0 THEN s[0] ELSE NIL]],
     data |-> [Empty EXCEPT ![0] = [name |-> DOT, ino |-> i], ![1] = [name |-> DOTDOT, ino |-> d]]]

NewFile(s, garbage) ==
    [rec  |-> [mode |-> "file", cnt |-> 1,
               slot |-> [k \in Slots |-> IF k \in DOMAIN s THEN s[k]
                                         ELSE IF k \in DOMAIN garbage THEN garbage[k] ELSE NIL]],
     data |-> Empty]

\* Seeded fault: the parent does not count its new entry.
WithEntryUncounted(d, x, pb, n, i) ==
    LET b == IF pb = {} THEN inodes[d].slot[x[1]] ELSE CHOOSE c \in pb : TRUE
        old == IF pb = {} THEN dirs[b] ELSE Empty
    IN  [rec   |-> [inodes[d] EXCEPT !.slot[x[1]] = b],
         block |-> b,
         data  |-> [old EXCEPT ![x[2]] = [name |-> n, ino |-> i]]]

\* The parent's slot and block with the entry added at x.
WithEntry(d, x, pb, n, i) ==
    LET b == IF pb = {} THEN inodes[d].slot[x[1]] ELSE CHOOSE c \in pb : TRUE
        old == IF pb = {} THEN dirs[b] ELSE Empty
    IN  [rec   |-> [inodes[d] EXCEPT !.slot[x[1]] = b, !.cnt = @ + 1],
         block |-> b,
         data  |-> [old EXCEPT ![x[2]] = [name |-> n, ino |-> i]]]

\* Seeded fault: the parent's new block is not marked.
PutUnmarked(d, x, pb, n, i, s, new) ==
    LET parent == WithEntry(d, x, pb, n, i)
    IN  /\ inodes' = [inodes EXCEPT ![i] = new.rec, ![d] = parent.rec]
        /\ dirs' = [dirs EXCEPT ![s[0]] = new.data, ![parent.block] = parent.data]
        /\ inodeBitmap' = inodeBitmap \cup {i}
        /\ blockBitmap' = blockBitmap \cup {s[k] : k \in DOMAIN s}

Put(d, x, pb, n, i, s, new) ==
    LET parent == WithEntry(d, x, pb, n, i)
    IN  /\ inodes' = [inodes EXCEPT ![i] = new.rec, ![d] = parent.rec]
        /\ dirs' = [dirs EXCEPT ![s[0]] = new.data, ![parent.block] = parent.data]
        /\ inodeBitmap' = inodeBitmap \cup {i}
        /\ blockBitmap' = blockBitmap \cup pb \cup {s[k] : k \in DOMAIN s}

NewName(d, n) == Reached(d) /\ Named(d, n) = {}

\* Without an inode the parent's new block stays marked and is in no slot.
MakeWithoutInode(d, n) ==
    /\ inodeBitmap = Inodes
    /\ NewName(d, n)
    /\ \E x \in Places : /\ FirstOpen(d, x)
                         /\ \E pb \in ParentBlocks(d, x) : blockBitmap' = blockBitmap \cup pb
    /\ UNCHANGED <<inodes, dirs, inodeBitmap, faults>>

\* Allocation goes on until it fails: every block and the inode stay marked.
MakeWithoutBlocks(d, n, k) ==
    /\ NewName(d, n)
    /\ \E x \in Places : /\ FirstOpen(d, x)
                         /\ \E pb \in ParentBlocks(d, x) : Cardinality(Free \ pb) < k
    /\ \E i \in Inodes : FirstFree(i) /\ inodeBitmap' = inodeBitmap \cup {i}
    /\ blockBitmap' = Blocks
    /\ UNCHANGED <<inodes, dirs, faults>>

MakeDir(d, n) ==
    \/ MakeWithoutInode(d, n)
    \/ MakeWithoutBlocks(d, n, 1)
    \/ /\ NewName(d, n)
       /\ \E x \in Places, i \in Inodes :
          /\ FirstOpen(d, x)
          /\ FirstFree(i)
          /\ \E pb \in ParentBlocks(d, x) : \E s \in Injections(1, Free \ pb) :
                Put(d, x, pb, n, i, s, NewDir(d, i, s))
          /\ UNCHANGED faults

\* len is the file's length in blocks; whole says that it ends at a block's
\* end.  An empty file gets one block too.  The loop that sets the other slots
\* to -1 starts at len/512 + 1, so that for a whole length below ten blocks
\* slot len/512 is what the stack held.
Unset(len, whole) == IF whole /\ len > 0 /\ len < S THEN {len} ELSE {}

Create(d, n, len, whole) ==
    LET k == IF len = 0 THEN 1 ELSE len IN
    \/ MakeWithoutInode(d, n)
    \/ MakeWithoutBlocks(d, n, k)
    \/ /\ NewName(d, n)
       /\ \E x \in Places, i \in Inodes :
          /\ FirstOpen(d, x)
          /\ FirstFree(i)
          /\ \E pb \in ParentBlocks(d, x) : \E s \in Injections(k, Free \ pb) :
             \E garbage \in [Unset(len, whole) -> Blocks \cup {NIL, WILD}] :
                Put(d, x, pb, n, i, s, NewFile(s, garbage))
          /\ faults' = IF Unset(len, whole) = {} THEN faults ELSE {"uninitialisedSlot"}

-----------------------------------------------------------------------------
(* WriteFile with a text of k blocks into a file that is already there.  The *)
(* adapter passes up to 9999 bytes, twenty blocks; the model follows it to   *)
(* the first one past inode_dirblock, which lands in                         *)
(* inode_indirect_block_first.                                               *)
Missing(f, k) == {j \in 0 .. k - 1 : inodes[f].slot[j] = NIL}

WriteFile(f, k) ==
    /\ faults = {}
    /\ f \in Linked /\ inodes[f].mode = "file"
    /\ \/ /\ Cardinality(Free) < Cardinality(Missing(f, k))
          /\ blockBitmap' = Blocks
          /\ UNCHANGED inodes
       \/ \E s \in [Missing(f, k) -> Free] :
             /\ \A i, j \in DOMAIN s : s[i] = s[j] => i = j
             /\ inodes' = [inodes EXCEPT ![f].slot =
                              [j \in Slots |-> IF j \in DOMAIN s THEN s[j] ELSE @[j]]]
             /\ blockBitmap' = blockBitmap \cup {s[j] : j \in DOMAIN s}
    /\ UNCHANGED <<dirs, inodeBitmap, faults>>

-----------------------------------------------------------------------------
(* DelFile frees the inode's ten blocks and the inode, then clears the      *)
(* entry and counts it off in the parent.                                   *)

WithoutEntry(content, d, x) == [content EXCEPT ![inodes[d].slot[x[1]]][x[2]] = NIL]
Erased(gone) == [b \in Blocks |-> IF b \in gone THEN Empty ELSE dirs[b]]

\* Seeded faults: the parent keeps its count; only the first block is freed.
DelFileUncounted(d, n) ==
    /\ Reached(d)
    /\ \E x \in Named(d, n) :
          LET i    == At(d, x).ino
              gone == {inodes[i].slot[k] : k \in Direct} \cap blockBitmap
          IN  /\ inodes[i].mode = "file"
              /\ inodes' = [inodes EXCEPT ![i] = Zeroed]
              /\ dirs' = WithoutEntry(Erased(gone), d, x)
              /\ inodeBitmap' = inodeBitmap \ {i}
              /\ blockBitmap' = blockBitmap \ gone
    /\ UNCHANGED faults

DelFileFirstBlock(d, n) ==
    /\ Reached(d)
    /\ \E x \in Named(d, n) :
          LET i    == At(d, x).ino
              gone == {inodes[i].slot[0]} \cap blockBitmap
          IN  /\ inodes[i].mode = "file"
              /\ inodes' = [inodes EXCEPT ![i] = Zeroed, ![d].cnt = @ - 1]
              /\ dirs' = WithoutEntry(Erased(gone), d, x)
              /\ inodeBitmap' = inodeBitmap \ {i}
              /\ blockBitmap' = blockBitmap \ gone
    /\ UNCHANGED faults

DelFile(d, n) ==
    /\ Reached(d)
    /\ \E x \in Named(d, n) :
          LET i    == At(d, x).ino
              gone == {inodes[i].slot[k] : k \in Direct} \cap blockBitmap
          IN  /\ inodes[i].mode = "file"
              /\ inodes' = [inodes EXCEPT ![i] = Zeroed, ![d].cnt = @ - 1]
              /\ dirs' = WithoutEntry(Erased(gone), d, x)
              /\ inodeBitmap' = inodeBitmap \ {i}
              /\ blockBitmap' = blockBitmap \ gone
    /\ UNCHANGED faults

\* DeleteFileOrDir: an inode that counts at most two entries is freed with its
\* first block only; of any other, the children are deleted and the blocks in
\* which some were found are freed.
Leaf(i) == inodes[i].cnt <= 2

Doomed(i) ==
    Reachable(i, [j \in Inodes |-> IF Leaf(j) THEN {} ELSE Children(j)])

BlocksOf(i) ==
    IF Leaf(i) THEN {inodes[i].slot[0]} ELSE {inodes[i].slot[x[1]] : x \in Links(i)}

DeleteDir(d, n) ==
    /\ Reached(d)
    /\ \E x \in Named(d, n) :
          LET doomed == Doomed(At(d, x).ino)
              gone   == (UNION {BlocksOf(i) : i \in doomed}) \cap blockBitmap
          IN  /\ inodes[At(d, x).ino].mode = "dir"
              /\ inodes' = [i \in Inodes |->
                               IF i \in doomed THEN Zeroed
                               ELSE IF i = d THEN [inodes[d] EXCEPT !.cnt = @ - 1] ELSE inodes[i]]
              /\ dirs' = WithoutEntry(Erased(gone), d, x)
              /\ inodeBitmap' = inodeBitmap \ doomed
              /\ blockBitmap' = blockBitmap \ gone
    /\ UNCHANGED faults

-----------------------------------------------------------------------------
(* Restarts.  RepairBlockBitmapFromInodes marks the blocks in the slots of  *)
(* marked inodes, and no others.                                            *)
OwnedIn(recs, marked) == {recs[i].slot[k] : i \in marked, k \in Slots} \cap Blocks
Owned == OwnedIn(inodes, inodeBitmap)

Restart ==
    /\ faults = {}
    /\ blockBitmap' = Owned
    /\ faults' = IF blockBitmap' = blockBitmap THEN {} ELSE {"repair"}
    /\ UNCHANGED <<inodes, dirs, inodeBitmap>>

Recover(fault) == blockBitmap' = OwnedIn(inodes', inodeBitmap') /\ faults' = {fault}

\* Seeded fault: the entry is written before the inode it leads to.
KilledEntryFirst(d, n) ==
    /\ NewName(d, n)
    /\ \E x \in Places, i \in Inodes :
        /\ FirstOpen(d, x)
        /\ FirstFree(i)
        /\ \E pb \in ParentBlocks(d, x) :
              LET entry == WithEntry(d, x, pb, n, i)
              IN  dirs' \in {dirs, [dirs EXCEPT ![entry.block] = entry.data]}
        /\ UNCHANGED inodes
        /\ inodeBitmap' = inodeBitmap \cup {i}
        /\ Recover("killedInMake")

\* The process dies in MakeDir, or in Create for a file of one block: before
\* the new inode is written, before the parent's block is, or before the
\* parent's inode is.  A block new to the parent is then in none of its slots.
KilledInMake(d, n) ==
    /\ NewName(d, n)
    /\ \E x \in Places, i \in Inodes :
        /\ FirstOpen(d, x)
        /\ FirstFree(i)
        /\ \E pb \in ParentBlocks(d, x) : \E s \in Injections(1, Free \ pb) :
           \E new \in {NewDir(d, i, s), NewFile(s, <<>>)} :
              LET entry   == WithEntry(d, x, pb, n, i)
                  content == [dirs EXCEPT ![s[0]] = new.data]
              IN  \/ UNCHANGED <<inodes, dirs>>
                  \/ /\ inodes' = [inodes EXCEPT ![i] = new.rec]
                     /\ dirs' \in {content, [content EXCEPT ![entry.block] = entry.data]}
        /\ inodeBitmap' = inodeBitmap \cup {i}
        /\ Recover("killedInMake")

\* In DelFile: after some blocks were freed, before the inode's bit is
\* cleared, before the entry is, or before the parent's inode is written.
KilledInDelete(d, n) ==
    /\ Reached(d)
    /\ \E x \in Named(d, n) :
          LET i    == At(d, x).ino
              gone == {inodes[i].slot[k] : k \in Direct} \cap blockBitmap
          IN  /\ inodes[i].mode = "file"
              /\ \/ /\ dirs' \in {Erased(g) : g \in SUBSET gone}
                    /\ UNCHANGED <<inodes, inodeBitmap>>
                 \/ /\ dirs' \in {Erased(gone), WithoutEntry(Erased(gone), d, x)}
                    /\ inodes' = [inodes EXCEPT ![i] = Zeroed]
                    /\ inodeBitmap' = inodeBitmap \ {i}
                 \/ /\ dirs' = Erased(gone)
                    /\ inodes' = [inodes EXCEPT ![i] = Zeroed]
                    /\ UNCHANGED inodeBitmap
    /\ Recover("killedInDelete")

-----------------------------------------------------------------------------
Next ==
    \/ Format
    \/ \E d \in Inodes, n \in Names : MakeDir(d, n)
    \/ \E d \in Inodes, n \in Names, len \in 0 .. S, whole \in BOOLEAN :
          Create(d, n, len, whole)
    \/ \E f \in Inodes, k \in 1 .. S + 1 : WriteFile(f, k)
    \/ \E d \in Inodes, n \in Names : DelFile(d, n)
    \/ \E d \in Inodes, n \in Names : DeleteDir(d, n)
    \/ Restart
    \/ \E d \in Inodes, n \in Names : KilledInMake(d, n)
    \/ \E d \in Inodes, n \in Names : KilledInDelete(d, n)

Spec == Init /\ [][Next]_vars

-----------------------------------------------------------------------------
\* No block is in two slots of marked inodes, and a block in a slot is marked
\* used: across every operation, failure, kill and repair, with the exception
\* of a file created with an uninitialised slot.
SlotsHolding(b) == {p \in inodeBitmap \X Slots : inodes[p[1]].slot[p[2]] = b}

OneOwner ==
    "uninitialisedSlot" \notin faults =>
        /\ Owned \subseteq blockBitmap
        /\ \A b \in Owned : Cardinality(SlotsHolding(b)) = 1

\* Every entry a path can reach leads to a marked inode that has been written,
\* no two lead to the same one, and a directory's first two entries are itself
\* and its parent.  A kill during creation keeps this, one in DelFile does not.
AllLinks == UNION {{<<d, x>> : x \in Links(d)} : d \in LinkedDirs}

NamesExact ==
    "killedInDelete" \notin faults =>
        /\ \A d \in LinkedDirs :
              /\ d \in inodeBitmap
              /\ At(d, <<0, 0>>) = [name |-> DOT, ino |-> d]
              /\ \A x \in Links(d) :
                    LET i == At(d, x).ino IN
                    /\ i \in inodeBitmap /\ inodes[i].cnt > 0
                    /\ inodes[i].mode = "dir" => At(i, <<0, 1>>) = [name |-> DOTDOT, ino |-> d]
        /\ \A p, q \in AllLinks : At(p[1], p[2]).ino = At(q[1], q[2]).ino => p = q

\* inode_cnt is the number of entries that a listing or a lookup will find.  A
\* kill may leave the parent's count one short (creation) or one over (DelFile).
CountsExact ==
    \A d \in LinkedDirs :
        LET n == Cardinality(Entries(d)) IN
        /\ faults \subseteq {"repair", "uninitialisedSlot"} => inodes[d].cnt = n
        /\ faults = {"killedInMake"} => inodes[d].cnt \in {n - 1, n}
        /\ faults = {"killedInDelete"} => inodes[d].cnt \in {n, n + 1}

\* Marked inodes no path reaches, and marked blocks in no slot.
Orphans == inodeBitmap \ Linked
Leaked  == blockBitmap \ Owned

\* An inode is lost only to a creation that ran out of blocks, and a block only
\* to an operation that ran out of blocks or inodes (and so changed no inode)
\* or to the removal of a directory.  Removing a file loses neither, unless
\* WriteFile ran past its ten blocks.
LossExplained ==
    faults' = {} =>
        /\ Orphans' \subseteq Orphans \/ (inodes' = inodes /\ blockBitmap' = Blocks)
        /\ \/ Leaked' \subseteq Leaked
           \/ inodes' = inodes /\ (blockBitmap' = Blocks \/ inodeBitmap = Inodes)
           \/ \E d \in LinkedDirs, n \in Names : DeleteDir(d, n)
           \/ \E f \in Linked : inodes[f].slot[S] \in Leaked'

\* No step loses an inode or a block in another way.
LossOnlyWhen == [][LossExplained]_vars

\* The comment in Create: the slots that got no content block are set to -1.
OtherSlotsEmpty ==
    [][\A d \in Inodes, n \in Names, len \in 0 .. S, whole \in BOOLEAN :
         Create(d, n, len, whole) =>
           \A i \in inodeBitmap' \ inodeBitmap : \A k \in Direct :
              k >= len /\ k > 0 => inodes'[i].slot[k] = NIL]_vars
=============================================================================
