------------------------------ MODULE Listing -------------------------------
(***************************************************************************)
(* The loops that read a directory: ShowDir, the look-up shared by FindDir,*)
(* Cat, DelFile and DeleteDir, Chmod's, and the adapter's                  *)
(* GetEntryProperties, over one directory as creations and removals leave  *)
(* it.  An entry is the place <<block slot, index>> it is stored at; the   *)
(* names in a directory are different, so that looking for a name is       *)
(* looking for the place it has, or for one that is empty.                 *)
(*                                                                         *)
(* One step is one pass of the outer loop, which reads one block.          *)
(***************************************************************************)
EXTENDS Naturals, Sequences, FiniteSets

CONSTANTS B,   \* direct blocks of an inode
          E    \* entries of a block

ASSUME SizesAssumption == B \in Nat \ {0} /\ E \in Nat /\ E >= 2

VARIABLES blocks,    \* slots 0 .. blocks-1 of inode_dirblock hold a block
          occupied,  \* the places of the entries
          op, target,
          running,   \* op has not returned yet
          i,         \* the loop's counter
          shown,     \* ShowDir's output
          found

directory == <<blocks, occupied>>
scan      == <<op, target, running, i, shown, found>>
vars      == <<directory, scan>>

Places == (0 .. B - 1) \X (0 .. E - 1)
Dots   == {<<0, 0>>, <<0, 1>>}
Slot(p) == p[1] * E + p[2]
inode_cnt == Cardinality(occupied)

Ops == {"ShowDir", "FindDir", "Chmod", "GetEntryProperties"}

TypeOK ==
    /\ blocks \in 1 .. B
    /\ occupied \subseteq {p \in Places : p[1] < blocks}
    /\ Dots \subseteq occupied
    /\ op \in Ops \cup {"none"}
    /\ running \in BOOLEAN
    /\ target \in Places
    /\ i \in 0 .. (B + 1) * E
    /\ shown \in Seq(occupied)
    /\ found \in BOOLEAN

Init ==
    /\ blocks = 1
    /\ occupied = Dots
    /\ op = "none" /\ target = <<0, 0>> /\ running = FALSE
    /\ i = 0 /\ shown = <<>> /\ found = FALSE

-----------------------------------------------------------------------------
(* Creation and removal *)

Idle == /\ ~running /\ UNCHANGED running
        /\ op' = "none" /\ target' = <<0, 0>>
        /\ i' = 0 /\ shown' = <<>> /\ found' = FALSE

\* The first empty place; the first one of a new block if there is none.
AddEntry ==
    /\ Idle
    /\ \E p \in Places \ occupied :
           /\ \A q \in Places \ occupied : Slot(p) <= Slot(q)
           /\ occupied' = occupied \cup {p}
           /\ blocks' = IF p[1] < blocks THEN blocks ELSE p[1] + 1

\* Seeded fault: ".." can be removed.
RemoveEntryAny(p) ==
    /\ Idle
    /\ p \in occupied \ {<<0, 0>>}
    /\ occupied' = occupied \ {p}
    /\ UNCHANGED blocks

\* The name is cleared; the block stays with the directory.
RemoveEntry(p) ==
    /\ Idle
    /\ p \in occupied \ Dots
    /\ occupied' = occupied \ {p}
    /\ UNCHANGED blocks

-----------------------------------------------------------------------------
(* Calls *)

Start(o, p) ==
    /\ ~running /\ running' = TRUE
    /\ op' = o /\ target' = p
    /\ i' = 0 /\ shown' = <<>> /\ found' = FALSE
    /\ UNCHANGED directory

Reading(o) == running /\ op = o

End == running' = FALSE /\ UNCHANGED <<directory, op, target, i, shown, found>>

-----------------------------------------------------------------------------
(* ShowDir: i counts the entries shown, and chooses the block *)

\* Seeded fault: "." and ".." are left out whenever they are met again.
ShowPlaceOnce(p, before) ==
    IF \/ before.i >= inode_cnt
       \/ p \notin occupied
       \/ before.i > 0 /\ p \in Dots
    THEN before
    ELSE [i |-> before.i + 1, shown |-> Append(before.shown, p)]

\* The body of the inner for, at the place p.
ShowPlace(p, before) ==
    IF \/ before.i >= inode_cnt
       \/ p \notin occupied
       \/ before.i > 2 /\ p \in Dots
    THEN before
    ELSE [i |-> before.i + 1, shown |-> Append(before.shown, p)]

\* The inner for over the places of block b.
ShowDirFor(b) ==
    LET for[j \in 0 .. E] ==
            IF j = 0
            THEN [i |-> i, shown |-> shown]
            ELSE ShowPlace(<<b, j - 1>>, for[j - 1])
    IN  for[E]

ShowDirBlock ==
    /\ Reading("ShowDir")
    /\ i < inode_cnt /\ i < B * E
    /\ IF i \div E >= blocks
       THEN i' = i + E /\ UNCHANGED shown
       ELSE LET after == ShowDirFor(i \div E)
            IN  i' = after.i /\ shown' = after.shown
    /\ UNCHANGED <<directory, op, target, running, found>>

ShowDirEnd ==
    /\ Reading("ShowDir")
    /\ ~(i < inode_cnt /\ i < B * E)
    /\ End

-----------------------------------------------------------------------------
(* FindDir: i counts the places looked at.  Cat, DelFile, DeleteDir and the *)
(* adapter's findChild and WriteFile run the same loop.                     *)

\* Seeded fault: the scan stops at the number of entries.
FindDirBlockCounting ==
    /\ Reading("FindDir")
    /\ ~found /\ i < B * E
    /\ IF i \div E < blocks /\ target \in occupied /\ target[1] = i \div E
          /\ Slot(target) < inode_cnt
       THEN found' = TRUE /\ i' = i + target[2]
       ELSE UNCHANGED found /\ i' = i + E
    /\ UNCHANGED <<directory, op, target, running, shown>>

FindDirBlock ==
    /\ Reading("FindDir")
    /\ ~found /\ i < B * E
    /\ IF i \div E < blocks /\ target \in occupied /\ target[1] = i \div E
       THEN found' = TRUE /\ i' = i + target[2]
       ELSE UNCHANGED found /\ i' = i + E
    /\ UNCHANGED <<directory, op, target, running, shown>>

FindDirEnd == Reading("FindDir") /\ (found \/ i >= B * E) /\ End

-----------------------------------------------------------------------------
(* Chmod: a block that does not hold the name is read again for each of its *)
(* places                                                                   *)

\* Seeded fault: no step past a block that does not exist.
ChmodBlockStuck ==
    /\ Reading("Chmod")
    /\ ~found /\ i < B * E
    /\ IF i \div E >= blocks
       THEN UNCHANGED <<found, i>>
       ELSE IF target \in occupied /\ target[1] = i \div E
       THEN found' = TRUE /\ UNCHANGED i
       ELSE UNCHANGED found /\ i' = i + 1
    /\ UNCHANGED <<directory, op, target, running, shown>>

ChmodBlock ==
    /\ Reading("Chmod")
    /\ ~found /\ i < B * E
    /\ IF i \div E >= blocks
       THEN UNCHANGED found /\ i' = i + E
       ELSE IF target \in occupied /\ target[1] = i \div E
       THEN found' = TRUE /\ UNCHANGED i
       ELSE UNCHANGED found /\ i' = i + 1
    /\ UNCHANGED <<directory, op, target, running, shown>>

ChmodEnd == Reading("Chmod") /\ (found \/ i >= B * E) /\ End

-----------------------------------------------------------------------------
(* GetEntryProperties: visited counts places, and is compared with the      *)
(* number of entries                                                        *)

\* Seeded fault: one place too few.
PropertiesBlockShort ==
    /\ Reading("GetEntryProperties")
    /\ ~found /\ i < inode_cnt /\ i < B * E
    /\ LET left == IF inode_cnt - i < E THEN inode_cnt - i ELSE E
       IN  IF target \in occupied /\ target[1] = i \div E /\ target[2] < left - 1
           THEN found' = TRUE /\ i' = i + target[2]
           ELSE UNCHANGED found /\ i' = i + left
    /\ UNCHANGED <<directory, op, target, running, shown>>

PropertiesBlock ==
    /\ Reading("GetEntryProperties")
    /\ ~found /\ i < inode_cnt /\ i < B * E
    /\ IF i \div E >= blocks
       THEN UNCHANGED found /\ i' = i + E
       ELSE LET left == IF inode_cnt - i < E THEN inode_cnt - i ELSE E
            IN  IF target \in occupied /\ target[1] = i \div E /\ target[2] < left
                THEN found' = TRUE /\ i' = i + target[2]
                ELSE UNCHANGED found /\ i' = i + left
    /\ UNCHANGED <<directory, op, target, running, shown>>

PropertiesEnd ==
    /\ Reading("GetEntryProperties")
    /\ found \/ ~(i < inode_cnt /\ i < B * E)
    /\ End

Scan ==
    \/ ShowDirBlock \/ ShowDirEnd
    \/ FindDirBlock \/ FindDirEnd
    \/ ChmodBlock \/ ChmodEnd
    \/ PropertiesBlock \/ PropertiesEnd

Next ==
    \/ AddEntry
    \/ \E p \in Places : RemoveEntry(p)
    \/ Start("ShowDir", <<0, 0>>)
    \/ \E o \in {"FindDir", "GetEntryProperties"}, p \in Places : Start(o, p)
    \/ \E p \in Places \ Dots : Start("Chmod", p)
    \/ Scan

\* A call that has begun runs on.
Spec == Init /\ [][Next]_vars /\ WF_vars(Scan)

-----------------------------------------------------------------------------
(* Properties *)

\* A look-up by FindDir's loop or by Chmod's finds a name exactly when the
\* directory has it, whatever holes removals have left and wherever they are.
LookupExact ==
    ~running /\ op \in {"FindDir", "Chmod"} => (found <=> target \in occupied)

\* The adapter's look-up finds no wrong entry, and misses one only if at least
\* one hole comes before it.
MissedOnlyBehindHoles ==
    ~running /\ op = "GetEntryProperties" =>
        /\ found => target \in occupied
        /\ (target \in occupied /\ ~found) =>
               \E p \in Places \ occupied : Slot(p) < Slot(target)

\* No hole comes before an entry of a later block.
Compact ==
    \A p \in occupied, q \in Places : q[1] < p[1] => q \in occupied

\* ShowDir shows each entry of a compact directory once.
ListingExact ==
    ~running /\ op = "ShowDir" /\ Compact =>
        /\ Len(shown) = inode_cnt
        /\ {shown[k] : k \in 1 .. Len(shown)} = occupied

\* Every look-up comes to its end, in any directory, and so does the listing of
\* a compact one.
ScansEnd == (running /\ (op = "ShowDir" => Compact)) ~> ~running

\* Every listing comes to its end.  The test CLI-001 says that `ls` lists the
\* directory, and nothing in it depends on what was removed before.
ListingEnds == (running /\ op = "ShowDir") ~> ~running

=============================================================================
