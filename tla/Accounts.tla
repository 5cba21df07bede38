------------------------------- MODULE Accounts -------------------------------
(***************************************************************************)
(* Accounts and sessions on top of Adapter: AddUser, DeleteUser, the login *)
(* and the three text files under /etc that describe an account, together  *)
(* with the home directory.  An operation is the list of what it has put   *)
(* on the disk after each of its writes; a kill of the process leaves one  *)
(* of them.                                                                *)
(*                                                                         *)
(* A name is a sequence of letters, because the code looks for it as a     *)
(* substring.  The rest of a text is tokens: a user's record is            *)
(* name COLON LINE (":x:", the numbers, the end of the line; the numbers   *)
(* are never read), a password's is name COLON password LINE, and HEAD     *)
(* stands for "::0:" and for "user::1" in the group file.                  *)
(***************************************************************************)
EXTENDS Adapter

CONSTANTS
    Passwords,            \* what users type, sequences of letters
    BlockLen,             \* tokens to a block (BLOCK_SIZE)
    MaxChanges,           \* bound: changes of the disk from one format to the next
    COLON, COMMA, LINE, HEAD

ASSUME BlockLenAssumption == BlockLen \in Nat \ {0} /\ MaxChanges \in Nat
ASSUME NoEmptyText == <<>> \notin Users \cup {ROOT} \cup Passwords

Faults == {"killedInAdd", "killedInDelete", "crashed", "clash", "long"}

VARIABLES
    etc,          \* the files user, passwd and group; shared: the inode of
                  \* passwd is a copy of that of user
    faults,       \* not in the code: what has gone wrong since the format
    changes       \* not in the code: commands since the format that changed
                  \* the disk

vars == <<tree, state, hung, stranded, etc, faults, changes>>

Letters == UNION {{n[i] : i \in DOMAIN n} : n \in Users \cup {ROOT} \cup Passwords}
Tokens  == Letters \cup {COLON, COMMA, LINE, HEAD}

\* No name and no password has a token in it that separates the others.
ASSUME LettersAssumption ==
    /\ \A n \in Users \cup {ROOT} \cup Passwords : n \in Seq(Letters)
    /\ {COLON, COMMA, LINE, HEAD} \cap Letters = {}
    /\ COLON \notin {COMMA, LINE, HEAD} /\ COMMA \notin {LINE, HEAD} /\ LINE # HEAD

\* The tree, the session and the account files have the shape the commands
\* expect; the session's directory is an inode of the table.
TypeOK ==
    /\ tree \in [Inodes -> Node]
    /\ state.user \in Users \cup {ROOT, NOBODY} /\ state.group \in Groups /\ state.dir \in Inodes
    /\ state.name \in Seq(Names)
    /\ hung \in BOOLEAN /\ stranded \in BOOLEAN /\ etc.shared \in BOOLEAN
    /\ \A f \in {etc.user, etc.passwd, etc.group} : f \in Seq(Tokens)
    /\ faults \subseteq Faults /\ changes \in 0 .. MaxChanges

-----------------------------------------------------------------------------
(* Texts.                                                                   *)

Occurs(f, n, p) == p + Len(n) - 1 <= Len(f) /\ SubSeq(f, p, p + Len(n) - 1) = n
Least(P) == CHOOSE p \in P : \A q \in P : p <= q

\* strstr: the first place, 0 if there is none.
StrStr(f, n) ==
    LET P == {p \in DOMAIN f : Occurs(f, n, p)} IN IF P = {} THEN 0 ELSE Least(P)
Has(f, n) == StrStr(f, n) # 0

\* The first token x at or after p, or the end.  The text of the group file may
\* have lost its last LINE; what the code reads then lies behind the end of the
\* text, where the line that was cut off has left its own.
Next1(f, p, x) ==
    LET P == {q \in p .. Len(f) : f[q] = x} IN IF P = {} THEN Len(f) ELSE Least(P)

\* DeleteUserContent: the line of the first occurrence, from there on.
Cut(f, n) ==
    LET p == StrStr(f, n) IN SubSeq(f, 1, p - 1) \o SubSeq(f, Next1(f, p, LINE) + 1, Len(f))

\* What AddUser and DeleteUser read: each block is read over the one before.
Read(f) ==
    IF f = <<>> THEN f ELSE SubSeq(f, ((Len(f) - 1) \div BlockLen) * BlockLen + 1, Len(f))

UserRecord(n)       == n \o <<COLON, LINE>>
PasswdRecord(n, pw) == n \o <<COLON>> \o pw \o <<LINE>>

\* The last token is overwritten; a comma unless the list of members is empty.
WithMember(g, n) ==
    SubSeq(g, 1, Len(g) - 1) \o (IF g[Len(g) - 1] = COLON THEN <<>> ELSE <<COMMA>>) \o n \o <<LINE>>

FormattedEtc ==
    [user |-> UserRecord(ROOT), passwd |-> PasswdRecord(ROOT, ROOT),
     group |-> ROOT \o <<HEAD>> \o ROOT \o <<LINE, HEAD, COLON, LINE>>, shared |-> FALSE]

\* The accounts a text describes, those with their passwords, and the members of
\* the group of users.
Listed(f) ==
    {n \in Users \cup {ROOT} : \E p \in DOMAIN f :
        /\ Occurs(f, n, p) /\ (p = 1 \/ f[p - 1] = LINE)
        /\ p + Len(n) <= Len(f) /\ f[p + Len(n)] = COLON}
Accounts(f) ==
    {x \in (Users \cup {ROOT}) \X (Passwords \cup {ROOT}) : \E p \in DOMAIN f :
        Occurs(f, PasswdRecord(x[1], x[2]), p) /\ (p = 1 \/ f[p - 1] = LINE)}
Members(g) ==
    {n \in Users : \E p \in DOMAIN g \ {1} :
        /\ Occurs(g, n, p) /\ g[p - 1] \in {COLON, COMMA}
        /\ (p + Len(n) <= Len(g) => g[p + Len(n)] \in {COMMA, LINE})}
Lines(f) == Cardinality({p \in DOMAIN f : f[p] = LINE})

\* The first occurrence of n in a text is n's own.
Own(f, n, before, after) ==
    LET p == StrStr(f, n)
    IN  /\ p = 1 \/ f[p - 1] \in before
        /\ p + Len(n) > Len(f) \/ f[p + Len(n)] \in after

-----------------------------------------------------------------------------
Init == AdapterInit /\ etc = FormattedEtc /\ faults = {} /\ changes = 0

Disk(t, e) == [tree |-> t, etc |-> e]

\* Both go to /home with the rights of nobody or of root; where that cannot be
\* entered they stay at the root.
HomeDir(t, u) == Entered(t, At(u, "root"), HOME).dir

\* The commands are root's.  Once passwd is a copy of user they are not followed:
\* they would write through one inode into the blocks of the other.
Writing == ~hung /\ state.user = ROOT /\ ~etc.shared

\* Seeded fault: the name is looked for in the file group.
AddUserWritesOnGroup(n, pw) ==
    LET d == HomeDir(tree, NOBODY)
        t == Linking(tree, d, n, [Dir(At(n, "user"), d) EXCEPT !.mode = "private"])
        u == [etc EXCEPT !.user = Read(@) \o UserRecord(n)]
        p == [u EXCEPT !.passwd = Read(@) \o PasswdRecord(n, pw)]
    IN  IF Has(Read(etc.group), n) THEN <<Disk(t, etc), Disk(t, u)>>
        ELSE <<Disk(t, etc), Disk(t, u), Disk(t, p),
               Disk(t, [p EXCEPT !.group = WithMember(Read(@), n)])>>

\* Seeded fault: the records are written at the start of the files.
AddUserWritesAtStart(n, pw) ==
    LET d == HomeDir(tree, NOBODY)
        t == Linking(tree, d, n, [Dir(At(n, "user"), d) EXCEPT !.mode = "private"])
        u == [etc EXCEPT !.user = UserRecord(n)]
        p == [u EXCEPT !.passwd = PasswdRecord(n, pw)]
        g == [p EXCEPT !.group = WithMember(Read(@), n)]
    IN  IF Has(Read(etc.user), n) THEN <<Disk(t, etc)>>
        ELSE <<Disk(t, etc), Disk(t, u), Disk(t, p), Disk(t, g)>>

\* What AddUser has written, one after the other: the home directory, unless
\* the name occurs in the file user its record, that in passwd, that in group.
AddUserWrites(n, pw) ==
    LET d == HomeDir(tree, NOBODY)
        t == Linking(tree, d, n, [Dir(At(n, "user"), d) EXCEPT !.mode = "private"])
        u == [etc EXCEPT !.user = Read(@) \o UserRecord(n)]
        p == [u EXCEPT !.passwd = Read(@) \o PasswdRecord(n, pw)]
        g == [p EXCEPT !.group = WithMember(Read(@), n)]
    IN  IF Has(Read(etc.user), n) THEN <<Disk(t, etc)>>
        ELSE <<Disk(t, etc), Disk(t, u), Disk(t, p), Disk(t, g)>>

TooLong == \E f \in {etc.user, etc.passwd, etc.group} : Read(f) # f

AddUserAllowed(n) == Writing /\ CanMakeDir(tree, At(n, "user"), HomeDir(tree, NOBODY), n)

AddUser(n, pw) ==
    /\ AddUserAllowed(n)
    /\ LET w == AddUserWrites(n, pw)
       IN  /\ tree' = Last(w).tree /\ etc' = Last(w).etc
           /\ faults' = faults \cup (IF TooLong /\ Len(w) > 1 THEN {"long"} ELSE {})
    /\ UNCHANGED <<state, hung, stranded>>

KilledInAddUser(n, pw) ==
    /\ AddUserAllowed(n)
    /\ LET w == AddUserWrites(n, pw)
       IN  \E k \in 1 .. Len(w) - 1 :
              /\ tree' = w[k].tree /\ etc' = w[k].etc
              /\ faults' = faults \cup {"killedInAdd"} \cup (IF TooLong THEN {"long"} ELSE {})
    /\ state' = AtStart /\ stranded' = FALSE
    /\ UNCHANGED hung

\* Seeded fault: the text of passwd is written with the inode of user again.
DeleteUserWritesShared(n) ==
    LET u == [etc EXCEPT !.user = Cut(Read(@), n)]
        x == [u EXCEPT !.shared = TRUE]
        g == [x EXCEPT !.group = Cut(Read(@), n)]
        d == HomeDir(tree, ROOT)
        t == IF n \in DOMAIN tree[d].kids /\ tree[tree[d].kids[n]].kind = "dir"
             THEN Unlinked(tree, d, n) ELSE tree
        early == <<Disk(tree, u), Disk(tree, x)>>
    IN  IF ~Has(Read(etc.passwd), n) THEN early
        ELSE IF ~Has(Read(etc.group), n) THEN Append(early, Disk(tree, x))
        ELSE early \o <<Disk(tree, x), Disk(tree, g), Disk(t, g)>>

\* What DeleteUser has written: the block of the file user, its inode over that
\* of passwd, passwd, group, and the home directory.  A name that is not found
\* in passwd or group ends it, and the process, with a write through a null pointer.
DeleteUserWrites(n) ==
    LET u == [etc EXCEPT !.user = Cut(Read(@), n)]
        x == [u EXCEPT !.shared = TRUE]
        p == [x EXCEPT !.passwd = Cut(Read(@), n), !.shared = FALSE]
        g == [p EXCEPT !.group = Cut(Read(@), n)]
        d == HomeDir(tree, ROOT)
        t == IF n \in DOMAIN tree[d].kids /\ tree[tree[d].kids[n]].kind = "dir"
             THEN Unlinked(tree, d, n) ELSE tree
        early == <<Disk(tree, u), Disk(tree, x)>>
    IN  IF ~Has(Read(etc.passwd), n) THEN early
        ELSE IF ~Has(Read(etc.group), n) THEN Append(early, Disk(tree, p))
        ELSE early \o <<Disk(tree, p), Disk(tree, g), Disk(t, g)>>

DeleteUserAllowed(n) == Writing /\ Has(Read(etc.user), n)

Clash(n) ==
    ~ /\ Own(Read(etc.user), n, {LINE}, {COLON})
      /\ Has(Read(etc.passwd), n) => Own(Read(etc.passwd), n, {LINE}, {COLON})
      /\ Has(Read(etc.group), n) => Own(Read(etc.group), n, {COLON, COMMA}, {COMMA, LINE})

DeleteFaults(n) ==
    (IF TooLong THEN {"long"} ELSE {}) \cup (IF Clash(n) THEN {"clash"} ELSE {})

\* What the removal of the home directory of n frees.
HomeOf(n) ==
    LET kids == tree[HomeDir(tree, ROOT)].kids
    IN  IF n \in DOMAIN kids /\ tree[kids[n]].kind = "dir" THEN Below(tree, kids[n]) ELSE {}

\* A session inside the home directory goes to the root; the test is on the path
\* /home/n, which is not the path of what is removed where /home is missing.
DeleteUser(n) ==
    LET w == DeleteUserWrites(n)
        inside == IsPrefix(<<HOME, n>>, state.name)
    IN  /\ DeleteUserAllowed(n) /\ Len(w) = 5
        /\ tree' = w[5].tree /\ etc' = w[5].etc
        /\ state' = IF inside THEN AtStart ELSE state
        /\ stranded' = (~inside /\
               (stranded \/ (HomeDir(tree, ROOT) = Root /\ state.dir \in HomeOf(n))))
        /\ faults' = faults \cup DeleteFaults(n)
        /\ UNCHANGED hung

CrashInDeleteUser(n) ==
    LET w == DeleteUserWrites(n)
    IN  /\ DeleteUserAllowed(n) /\ Len(w) < 5
        /\ tree' = Last(w).tree /\ etc' = Last(w).etc
        /\ faults' = faults \cup DeleteFaults(n) \cup {"crashed"}
        /\ state' = AtStart /\ stranded' = FALSE
        /\ UNCHANGED hung

KilledInDeleteUser(n) ==
    /\ DeleteUserAllowed(n)
    /\ LET w == DeleteUserWrites(n)
       IN  \E k \in 1 .. Len(w) - 1 : tree' = w[k].tree /\ etc' = w[k].etc
    /\ faults' = faults \cup DeleteFaults(n) \cup {"killedInDelete"}
    /\ state' = AtStart /\ stranded' = FALSE
    /\ UNCHANGED hung

-----------------------------------------------------------------------------
\* The text between the first ':' behind the name in passwd and the end of the
\* line; where there is none the code reads on behind the text.
PasswordOf(n) ==
    LET f == IF etc.shared THEN etc.user ELSE etc.passwd
        c == Next1(f, StrStr(f, n), COLON)
    IN  SubSeq(f, c + 1, Next1(f, c, LINE) - 1)

Checked(n, pw) ==
    Has(etc.user, n) /\ Has(IF etc.shared THEN etc.user ELSE etc.passwd, n) /\ PasswordOf(n) = pw

\* The session is reset before the check, and stays reset if that fails.
Login(n, pw) ==
    /\ ~hung
    /\ state' = IF Checked(n, pw)
              THEN Walked(At(n, IF n = ROOT THEN "root" ELSE "user"), <<HOME, n>>)
              ELSE At(NOBODY, "")
    /\ stranded' = FALSE
    /\ UNCHANGED <<tree, hung, etc, faults>>

\* FormatAndLogout, which the server refuses to all but root.
Format ==
    /\ ~hung /\ state.user = ROOT
    /\ tree' = FormattedTree /\ etc' = FormattedEtc /\ faults' = {}
    /\ state' = At(NOBODY, state.group) /\ stranded' = FALSE
    /\ UNCHANGED hung

DiskCommand ==
    \/ TreeCommand /\ UNCHANGED <<etc, faults>>
    \/ \E n \in Users, pw \in Passwords : AddUser(n, pw) \/ KilledInAddUser(n, pw)
    \/ \E n \in Users \cup {ROOT} :
          DeleteUser(n) \/ CrashInDeleteUser(n) \/ KilledInDeleteUser(n)

Next ==
    \/ SessionCommand /\ UNCHANGED <<etc, faults, changes>>
    \/ /\ \E n \in Users \cup {ROOT}, pw \in Passwords \cup {ROOT} : Login(n, pw)
       /\ UNCHANGED changes
    \/ /\ changes < MaxChanges /\ DiskCommand
       /\ changes' = IF tree' = tree /\ etc' = etc THEN changes ELSE changes + 1
    \/ Format /\ changes' = 0

Spec == Init /\ [][Next]_vars

-----------------------------------------------------------------------------
(* Properties.                                                              *)

\* FindDir changes the current directory and, beside it, the text of its path.
\* After any commands of any users the text leads to that directory, through
\* directories that the user may enter, so that a cd to an absolute path comes
\* back to the root; only a move of the directory under the session breaks this,
\* or a DeleteUser that removes it where /home is missing.
PathAgrees ==
    /\ ~stranded =>
          /\ <<state.name, state.dir>> \in Reach(tree, Root) /\ tree[state.dir].kind = "dir"
          /\ \A x \in Reach(tree, Root) :
                IsStrictPrefix(x[1], state.name) => CanEnter(tree, state, x[2])
    /\ hung => stranded

Shape(t, i) == {<<x[1], t[x[2]].kind>> : x \in Reach(t, i)}
Lost == Shape(tree, Root) \ Shape(tree', Root)

\* A move or a copy, however it ends, loses nothing: whatever is no longer where
\* it was is the whole of one source, and stands under the target as it was.
NothingLost ==
    [][tree' # tree /\ Lost # {} /\ (CopyEntry \/ MoveEntry) =>
        \E operands \in Operands :
            LET s    == operands[1]
                d    == operands[2]
                from == CHOOSE x \in Reach(tree, Root) : x[2] = s
            IN  /\ \A x \in Lost : IsPrefix(from[1], x[1])
                /\ NameOf(tree, s) \in DOMAIN tree'[d].kids
                /\ Shape(tree', tree'[d].kids[NameOf(tree, s)]) = Shape(tree, s)]_vars

\* As long as no operation was cut short and no name was found inside another,
\* user and passwd describe the same accounts, one line for each, and the group
\* file has no other members.
FilesInStep ==
    faults = {} =>
        /\ Listed(etc.user) = Listed(etc.passwd)
        /\ \A f \in {etc.user, etc.passwd} : Lines(f) = Cardinality(Listed(f))
        /\ Members(etc.group) \subseteq Listed(etc.user)

\* DeleteUser writes the inode of user over that of passwd, and makes up for it
\* with its next write: only where it ended in between is passwd left a copy of
\* user, and it ends there by itself only if passwd had lost the account before.
PasswdFileKept ==
    etc.shared => \/ "killedInDelete" \in faults
                  \/ "crashed" \in faults /\ faults \cap {"killedInAdd", "clash", "long"} # {}

\* An operation that succeeds on one account leaves the others, with their
\* passwords, as they were.
OneAccountChanged ==
    etc' # etc /\ faults' = {} /\ changes' # 0 =>
        \E n \in Users \cup {ROOT} : \A m \in (Users \cup {ROOT}) \ {n} :
            /\ m \in Listed(etc.user) <=> m \in Listed(etc'.user)
            /\ \A pw \in Passwords \cup {ROOT} : <<m, pw>> \in Accounts(etc.passwd)
                                        <=> <<m, pw>> \in Accounts(etc'.passwd)

\* No step changes more than one account.
OthersKept == [][OneAccountChanged]_vars
===============================================================================
