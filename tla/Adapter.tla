-------------------------------- MODULE Adapter --------------------------------
(***************************************************************************)
(* The tree of directories and files as FileSystemAdapter's commands see   *)
(* it, and the session they share: who is logged in, the inode of the      *)
(* current directory, and the path that is kept beside it.  The commands   *)
(* run one after the other, so that a command is one action.               *)
(*                                                                         *)
(* Volume says how a directory is stored; here it is a function from names *)
(* to inodes.  A creation may fail for want of blocks at any time, which   *)
(* leaves the tree as it is.  The directory /etc is not an operand.        *)
(***************************************************************************)
EXTENDS Integers, FiniteSets, SequencesExt

CONSTANTS
    NI,           \* INODE_NUM
    Users,        \* the names of accounts besides root's
    Created,      \* the names that mkdir, touch and upload are given
    ROOT, HOME,   \* the names root and home
    UP,           \* ..
    NOBODY,       \* the empty user name
    Chmods        \* the modes that users give

ASSUME InodeAssumption == NI \in Nat /\ NI > 3
ASSUME NameAssumption ==
    /\ ROOT \notin Users \cup {HOME} /\ HOME \notin Users \cup Created
    /\ UP \notin Users \cup Created \cup {ROOT, HOME}
    /\ NOBODY \notin Users \cup {ROOT}
    /\ Chmods \subseteq {"open", "group", "private", "none"}

Inodes   == 0 .. NI - 1
Root     == 0                   \* ROOT_DIR_ADDR
Home     == 1                   \* the inodes of /home and
RootHome == 2                   \* /home/root after a format
Names    == Users \cup Created \cup {ROOT, HOME}
Modes    == {"open", "group", "private", "none"}     \* 0755, 0660, 0600, 0000
Groups   == {"root", "user", ""}
Node     == [kind  : {"free", "dir", "file"}, owner : Users \cup {ROOT, NOBODY},
             group : Groups, mode : Modes, up : Inodes,
             kids  : UNION {[N -> Inodes] : N \in SUBSET Names}]

VARIABLES
    tree,         \* the inodes; up is the entry ..
    state,        \* FileSystemState: cur_user_name, cur_grop_name, cur_dir_addr,
                  \* cur_dir_name
    hung,         \* the I/O thread is in a loop that does not end
    stranded      \* the current directory was removed under the session

adapterVars == <<tree, state, hung, stranded>>

-----------------------------------------------------------------------------
NoKids == [n \in {} |-> Root]

\* The entries of a directory with one more, that of the name n.
WithName(kids, n, i) == [m \in DOMAIN kids \cup {n} |-> IF m = n THEN i ELSE kids[m]]

Zeroed == [kind |-> "free", owner |-> NOBODY, group |-> "", mode |-> "none", up |-> Root,
           kids |-> NoKids]
File   == [Zeroed EXCEPT !.kind = "file"]
Dir(s, up) == [kind |-> "dir", owner |-> s.user, group |-> s.group, mode |-> "open", up |-> up,
               kids |-> NoKids]

\* Seeded fault: the address of the current directory is not set.
AtNowhere(u, g) == [user |-> u, group |-> g, dir |-> 0 - 1, name |-> <<>>]

\* The session of u, of the group g, in the root directory.
At(u, g) == [user |-> u, group |-> g, dir |-> Root, name |-> <<>>]
AtStart  == At(ROOT, "root")

FormattedTree ==
    [i \in Inodes |->
        CASE i = Root     -> [Dir(AtStart, Root) EXCEPT !.kids = WithName(@, HOME, Home)]
          [] i = Home     -> [Dir(AtStart, Root) EXCEPT !.kids = WithName(@, ROOT, RootHome)]
          [] i = RootHome -> [Dir(AtStart, Home) EXCEPT !.mode = "group"]
          [] OTHER        -> Zeroed]

AdapterInit == tree = FormattedTree /\ state = AtStart /\ hung = FALSE /\ stranded = FALSE

\* What lies below i: each inode with the path that leads to it.
Reach(t, i) ==
    LET within[k \in Nat] ==
            {<< <<>>, i>>} \cup
            (IF k = 0 THEN {}
             ELSE UNION {{<<Append(x[1], n), t[x[2]].kids[n]>> : n \in DOMAIN t[x[2]].kids}
                             : x \in within[k - 1]})
    IN  within[NI - 1]
Below(t, i) == {x[2] : x \in Reach(t, i)}
Linked(t)   == Below(t, Root)
Parent(t, i) == CHOOSE d \in Inodes : \E n \in DOMAIN t[d].kids : t[d].kids[n] = i
NameOf(t, i) == CHOOSE n \in DOMAIN t[Parent(t, i)].kids : t[Parent(t, i)].kids[n] = i
Free(t)     == {i \in Inodes : t[i].kind = "free"}
FirstFree(t) == CHOOSE i \in Free(t) : \A j \in Free(t) : i <= j

\* The bits of the mode: those of the owner, of the group, of the others.
CanEnter(t, s, d) ==
    \/ s.user = ROOT \/ t[d].mode = "open"
    \/ t[d].owner = s.user /\ t[d].mode # "none"
    \/ t[d].owner # s.user /\ t[d].group = s.group /\ t[d].mode = "group"
CanRemoveDir(t, s, d) == s.user = ROOT \/ (t[d].owner = s.user /\ t[d].mode # "none")

\* MakeFile compares the user with the group, DelFile the groups.
CanWrite(t, s, d)  == s.user \in {ROOT, t[d].owner} /\ t[d].mode # "none"
CanDelete(t, s, d) ==
    CanWrite(t, s, d) \/ (s.user \notin {ROOT, t[d].owner} /\ t[d].group = s.group
                             /\ t[d].mode = "group")

-----------------------------------------------------------------------------
(* FileSystem's operations, on a tree t.                                    *)

\* Seeded fault: the name is appended before the rights are looked at.
EnteredEarly(t, s, n) ==
    IF n = UP
    THEN IF t[s.dir].kind = "dir" /\ s.dir # Root /\ CanEnter(t, s, t[s.dir].up)
         THEN [s EXCEPT !.dir = t[s.dir].up,
                        !.name = IF s.name = <<>> THEN <<>> ELSE Front(s.name)]
         ELSE s
    ELSE IF n \in DOMAIN t[s.dir].kids /\ t[t[s.dir].kids[n]].kind = "dir"
         THEN [s EXCEPT !.dir = IF CanEnter(t, s, t[s.dir].kids[n])
                                THEN t[s.dir].kids[n] ELSE s.dir,
                        !.name = Append(s.name, n)]
         ELSE s

\* FindDir enters the directory that n names and keeps the path in step.
Entered(t, s, n) ==
    IF n = UP
    THEN IF t[s.dir].kind = "dir" /\ s.dir # Root /\ CanEnter(t, s, t[s.dir].up)
         THEN [s EXCEPT !.dir = t[s.dir].up,
                        !.name = IF s.name = <<>> THEN <<>> ELSE Front(s.name)]
         ELSE s
    ELSE IF n \in DOMAIN t[s.dir].kids
         THEN LET i == t[s.dir].kids[n]
              IN  IF t[i].kind = "dir" /\ CanEnter(t, s, i)
                  THEN [s EXCEPT !.dir = i, !.name = Append(s.name, n)] ELSE s
         ELSE s

Linking(t, d, n, node) ==
    LET i == FirstFree(t) IN [t EXCEPT ![i] = node, ![d].kids = WithName(@, n, i)]

CanMakeDir(t, s, d, n) ==
    t[d].kind = "dir" /\ n \notin DOMAIN t[d].kids /\ Free(t) # {} /\ CanEnter(t, s, d)
CanCreate(t, d, n) == t[d].kind = "dir" /\ n \notin DOMAIN t[d].kids /\ Free(t) # {}

Unlinked(t, d, n) ==
    LET gone == Below(t, t[d].kids[n])
    IN  [i \in Inodes |->
            IF i \in gone THEN Zeroed
            ELSE IF i = d THEN [t[d] EXCEPT !.kids = [m \in DOMAIN @ \ {n} |-> @[m]]]
            ELSE t[i]]

-----------------------------------------------------------------------------
(* Navigation.                                                              *)

\* ".." until the path is "/": each success takes one name off the path, and
\* the loop goes on for ever once a ".." is refused.
Climbed(s) ==
    LET after[k \in Nat] == IF k = 0 THEN s
                            ELSE IF after[k - 1].name = <<>> THEN after[k - 1]
                            ELSE Entered(tree, after[k - 1], UP)
    IN  after[Len(s.name)]

\* The components of the path up to the first that is refused.
Walked(s, path) ==
    LET after[k \in Nat] ==
            IF k = 0 THEN [s |-> s, ok |-> TRUE]
            ELSE LET last == after[k - 1]
                     e    == Entered(tree, last.s, path[k])
                 IN  IF last.ok THEN [s |-> e, ok |-> e # last.s] ELSE last
    IN  after[Len(path)].s

ChangeDirectory(absolute, path) ==
    LET s == IF absolute THEN Climbed(state) ELSE state
        loops == absolute /\ s.name # <<>>
    IN  /\ hung' = loops
        /\ state' = IF loops THEN s ELSE Walked(s, path)
        /\ UNCHANGED <<tree, stranded>>

-----------------------------------------------------------------------------
(* The commands on one name of the current directory.  In a directory that  *)
(* was removed MakeDirectory and CreateFile would write into block 0, which *)
(* is not followed.                                                         *)

MakeDirectory(n) ==
    /\ CanMakeDir(tree, state, state.dir, n)
    /\ tree' = Linking(tree, state.dir, n, Dir(state, state.dir))
    /\ UNCHANGED <<state, hung, stranded>>

CreateFile(n) ==
    /\ CanCreate(tree, state.dir, n) /\ CanWrite(tree, state, state.dir)
    /\ tree' = Linking(tree, state.dir, n, File)
    /\ UNCHANGED <<state, hung, stranded>>

RemoveDirectory(n) ==
    /\ n \in DOMAIN tree[state.dir].kids /\ tree[tree[state.dir].kids[n]].kind = "dir"
    /\ CanRemoveDir(tree, state, state.dir)
    /\ tree' = Unlinked(tree, state.dir, n)
    /\ UNCHANGED <<state, hung, stranded>>

DeleteFile(n) ==
    /\ n \in DOMAIN tree[state.dir].kids /\ tree[tree[state.dir].kids[n]].kind = "file"
    /\ CanDelete(tree, state, state.dir)
    /\ tree' = Unlinked(tree, state.dir, n)
    /\ UNCHANGED <<state, hung, stranded>>

\* Chmod by the owner or root; the mode of a file has no effect here.
ChangeMode(n, m) ==
    /\ n \in DOMAIN tree[state.dir].kids
    /\ LET i == tree[state.dir].kids[n]
       IN  /\ tree[i].kind = "dir" /\ state.user \in {ROOT, tree[i].owner}
           /\ tree' = [tree EXCEPT ![i].mode = m]
    /\ UNCHANGED <<state, hung, stranded>>

\* UploadFile resolves a path without asking for access on the way.
UploadFile(n) ==
    /\ \E d \in Linked(tree) : CanCreate(tree, d, n) /\ tree' = Linking(tree, d, n, File)
    /\ UNCHANGED <<state, hung, stranded>>

-----------------------------------------------------------------------------
(* Copy and move.  copyRecursive makes a directory, then its children one   *)
(* after the other, and gives up at the first failure.                      *)

\* What may have been copied of the inodes below s: with an inode its parent,
\* and of two in one directory at most one is incomplete.
Copied(t, s) ==
    {P \in SUBSET Below(t, s) :
        /\ Cardinality(P) <= Cardinality(Free(t))
        /\ \A i \in P : i = s \/ Parent(t, i) \in P
        /\ \A i, j \in P \ {s} : i # j /\ Parent(t, i) = Parent(t, j) =>
              Below(t, i) \subseteq P \/ Below(t, j) \subseteq P}

FirstFrees(t, k) == {i \in Free(t) : Cardinality({j \in Free(t) : j < i}) < k}

\* t with the inodes P below s copied to f, under the name n in d.
WithCopy(t, who, s, d, n, P, f) ==
    LET new == {f[i] : i \in P}
        of(j) == CHOOSE i \in P : f[i] = j
        node(i) == IF t[i].kind = "file" THEN File
                   ELSE [Dir(who, IF i = s THEN d ELSE f[Parent(t, i)]) EXCEPT !.kids =
                            [m \in {m \in DOMAIN t[i].kids : t[i].kids[m] \in P}
                                |-> f[t[i].kids[m]]]]
        old == IF s \in P THEN [t EXCEPT ![d].kids = WithName(@, n, f[s])] ELSE t
    IN  [i \in Inodes |-> IF i \in new THEN node(of(i)) ELSE old[i]]

\* What copying s into the directory d can lead to.
Copies(t, who, s, d) ==
    LET n == NameOf(t, s)
    IN  IF n \in DOMAIN t[d].kids \/ (t[s].kind = "dir" /\ ~CanEnter(t, who, d))
        THEN {[tree |-> t, whole |-> FALSE]}
        ELSE {[tree  |-> WithCopy(t, who, s, d, n, P,
                            CHOOSE f \in Bijection(P, FirstFrees(t, Cardinality(P))) : TRUE),
               whole |-> P = Below(t, s)] : P \in Copied(t, s)}

\* resolveEntry finds what is linked, and the target must not lie in the source.
Operands ==
    LET found == Linked(tree)
        dirs  == {d \in found : tree[d].kind = "dir"}
    IN  UNION {{s} \X (dirs \ Below(tree, s)) : s \in found \ {Root}}

CopyEntry ==
    /\ \E x \in Operands :
          \E c \in Copies(tree, state, x[1], x[2]) : tree' = c.tree
    /\ UNCHANGED <<state, hung, stranded>>

\* Seeded fault: the source is removed however much was copied.
MoveAnyway(s, d) ==
    LET p == Parent(tree, s)
        mayRemove == IF tree[s].kind = "dir" THEN CanRemoveDir(tree, state, p)
                                             ELSE CanDelete(tree, state, p)
    IN  \E c \in Copies(tree, state, s, d) :
           IF mayRemove
           THEN /\ tree' = Unlinked(c.tree, p, NameOf(tree, s))
                /\ stranded' = (stranded \/ state.dir \in Below(tree, s))
           ELSE tree' = c.tree /\ UNCHANGED stranded

\* The source is removed after a copy that succeeded, if its directory allows.
Move(s, d) ==
    LET p == Parent(tree, s)
        mayRemove == IF tree[s].kind = "dir" THEN CanRemoveDir(tree, state, p)
                                             ELSE CanDelete(tree, state, p)
    IN  \E c \in Copies(tree, state, s, d) :
           IF c.whole /\ mayRemove
           THEN /\ tree' = Unlinked(c.tree, p, NameOf(tree, s))
                /\ stranded' = (stranded \/ state.dir \in Below(tree, s))
           ELSE tree' = c.tree /\ UNCHANGED stranded

MoveEntry ==
    /\ \E x \in Operands : Move(x[1], x[2])
    /\ UNCHANGED <<state, hung>>

-----------------------------------------------------------------------------
\* Quit keeps the group.
Logout ==
    /\ state' = At(NOBODY, state.group) /\ stranded' = FALSE
    /\ UNCHANGED <<tree, hung>>

\* The process is killed, or ends, and starts again: FileSystem's constructor.
Restart ==
    /\ state' = AtStart /\ hung' = FALSE /\ stranded' = FALSE
    /\ UNCHANGED tree

\* The commands that change the session, ...
SessionCommand ==
    \/ /\ ~hung
       /\ \/ \E absolute \in BOOLEAN, path \in {<<>>} \cup {<<n>> : n \in Names \cup {UP}} :
               ChangeDirectory(absolute, path)
          \/ Logout
    \/ Restart

\* ... and those that change the tree.
TreeCommand ==
    /\ ~hung
    /\ \/ \E n \in Names : RemoveDirectory(n)
       \/ \E n \in Names : DeleteFile(n)
       \/ \E n \in Created : MakeDirectory(n)
       \/ \E n \in Created : CreateFile(n)
       \/ \E n \in Names, m \in Chmods : ChangeMode(n, m)
       \/ \E n \in Created : UploadFile(n)
       \/ CopyEntry
       \/ MoveEntry
===============================================================================
