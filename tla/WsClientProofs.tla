--------------------------- MODULE WsClientProofs ---------------------------
(***************************************************************************)
(* The invariants of WsClient, for any number of sockets and requests and  *)
(* any limit on the attempts.  Liveness stays with TLC.                    *)
(***************************************************************************)
EXTENDS WsClient, TLAPS

USE AttemptsAssumption, NullAssumption

-----------------------------------------------------------------------------
(* Types *)

LEMMA InitTypes == Init => TypeOK
<1> SUFFICES ASSUME Init PROVE TypeOK
  OBVIOUS
<1>1. PICK s \in Sockets :
          /\ sock = [t \in Sockets |-> IF t = s THEN "connecting" ELSE "none"]
          /\ ws = s
          /\ awaiting = s
  BY DEF Init
<1>2. sock \in [Sockets -> {"none", "connecting", "open", "aborting", "closing"}]
  BY <1>1
<1>3. pending \in [Requests -> Sockets \cup {NULL}]
  BY DEF Init, None
<1>4. wire \in [Sockets -> SUBSET Requests]
  BY DEF Init
<1>5. /\ ws \in Sockets /\ awaiting \in Sockets
      /\ reconnectAttempts \in 0 .. MaxAttempts
      /\ tries \in Nat
      /\ timers = {} /\ unsettled = {}
  BY <1>1 DEF Init
<1>6. /\ connected = FALSE /\ reconnectTimer = FALSE /\ overlapped = FALSE
      /\ restoring \in BOOLEAN /\ leaving = "no"
  BY Zenon DEF Init
<1> QED
  BY <1>2, <1>3, <1>4, <1>5, <1>6, Zenon DEF TypeOK

LEMMA ScheduleTypes ==
    ASSUME TypeOK, ScheduleReconnect
    PROVE  /\ reconnectTimer' \in BOOLEAN
           /\ reconnectAttempts' \in 0 .. MaxAttempts
           /\ reconnectAttempts' >= reconnectAttempts
           /\ ~reconnectTimer' => reconnectAttempts' = MaxAttempts
<1>1. CASE reconnectAttempts < MaxAttempts /\ ~reconnectTimer
  BY <1>1 DEF TypeOK, ScheduleReconnect
<1>2. CASE ~(reconnectAttempts < MaxAttempts /\ ~reconnectTimer)
  <2>1. /\ reconnectTimer' = reconnectTimer
        /\ reconnectAttempts' = reconnectAttempts
    BY <1>2, Zenon DEF ScheduleReconnect
  <2> QED
    BY <1>2, <2>1 DEF TypeOK
<1> QED
  BY <1>1, <1>2

\* The close handler leaves well-typed state, an empty table and no connection.
LEMMA OnCloseTypes ==
    ASSUME TypeOK, NEW s \in Sockets, OnClose(s)
    PROVE  /\ wire' \in [Sockets -> SUBSET Requests]
           /\ ws' = NULL /\ ~connected'
           /\ connected' \in BOOLEAN
           /\ pending' \in [Requests -> Sockets \cup {NULL}]
           /\ \A r \in Requests : pending'[r] = NULL
           /\ timers' = timers \ {r \in Requests : pending[r] # NULL}
           /\ unsettled' = unsettled \ {r \in Requests : pending[r] # NULL}
           /\ reconnectTimer' \in BOOLEAN
           /\ reconnectAttempts' \in 0 .. MaxAttempts
  BY ScheduleTypes DEF TypeOK, OnClose, RejectAll, None

LEMMA ConnectTypes ==
    ASSUME TypeOK, NEW s \in Sockets, Connect(s)
    PROVE  /\ sock' \in [Sockets -> {"none", "connecting", "open", "aborting", "closing"}]
           /\ ws' \in Sockets
           /\ overlapped' \in BOOLEAN
  BY DEF TypeOK, Connect

LEMMA StepTypes == TypeOK /\ [Next]_vars => TypeOK'
<1> SUFFICES ASSUME TypeOK, [Next]_vars PROVE TypeOK'
  OBVIOUS
<1>1. UNCHANGED vars => TypeOK'
  BY DEF TypeOK, vars, client, table, app, history
<1>2. ASSUME NEW s \in Sockets, Opened(s) PROVE TypeOK'
  BY <1>2 DEF TypeOK, Opened, table
<1>3. ASSUME NEW s \in Sockets, Failed(s) PROVE TypeOK'
  <2>1. OnClose(s) /\ UNCHANGED <<leaving, tries>>
    BY <1>3 DEF Failed
  <2>2. /\ sock' \in [Sockets -> {"none", "connecting", "open", "aborting", "closing"}]
        /\ awaiting' \in Sockets \cup {NULL}
        /\ restoring' \in BOOLEAN
        /\ overlapped' \in BOOLEAN
    BY <1>3 DEF Failed, TypeOK
  <2> QED
    BY <2>1, <2>2, OnCloseTypes DEF TypeOK
<1>4. ASSUME NEW s \in Sockets, Closed(s) PROVE TypeOK'
  <2>1. OnClose(s)
    BY <1>4 DEF Closed
  <2> QED
    BY <1>4, <2>1, OnCloseTypes DEF TypeOK, Closed, app
<1>5. ASSUME NEW s \in Sockets, NEW r \in Requests, Answered(s, r) PROVE TypeOK'
  BY <1>5 DEF TypeOK, Answered, client, table, history
<1>6. ASSUME ReconnectTimer PROVE TypeOK'
  <2>1. PICK s \in Sockets : Connect(s)
    BY <1>6 DEF ReconnectTimer
  <2>2. tries' \in Nat
    BY <1>6 DEF ReconnectTimer, TypeOK
  <2>3. /\ reconnectTimer' = FALSE
        /\ UNCHANGED <<wire, connected, reconnectAttempts, table, app>>
    BY <1>6, Zenon DEF ReconnectTimer
  <2>4. /\ sock' \in [Sockets -> {"none", "connecting", "open", "aborting", "closing"}]
        /\ ws' \in Sockets
        /\ overlapped' \in BOOLEAN
    BY <2>1, ConnectTypes
  <2> QED
    BY <2>2, <2>3, <2>4, Zenon DEF TypeOK, table, app
<1>7. ASSUME NEW r \in Requests, RequestTimeout(r) PROVE TypeOK'
  BY <1>7 DEF TypeOK, RequestTimeout, client, app, history
<1>8. ASSUME NEW r \in Requests, Send(r) PROVE TypeOK'
  BY <1>8 DEF TypeOK, Send, isConnected, client, app, history
<1>9. ASSUME AppConnect PROVE TypeOK'
  <2>1. PICK s \in Sockets : Connect(s) /\ awaiting' = s
    BY <1>9 DEF AppConnect
  <2> QED
    BY <1>9, <2>1, ConnectTypes DEF TypeOK, AppConnect, table
<1>10. ASSUME Disconnect PROVE TypeOK'
  <2>1. /\ sock' \in [Sockets -> {"none", "connecting", "open", "aborting", "closing"}]
        /\ wire' \in [Sockets -> SUBSET Requests]
    <3>1. CASE ws = NULL
      BY <1>10, <3>1 DEF Disconnect, TypeOK
    <3>2. CASE ws # NULL
      BY <1>10, <3>2 DEF Disconnect, TypeOK
    <3> QED
      BY <3>1, <3>2
  <2>2. RejectAll
    BY <1>10 DEF Disconnect
  <2>3. /\ pending' \in [Requests -> Sockets \cup {NULL}]
        /\ timers' \subseteq Requests
        /\ unsettled' \subseteq Requests
    BY <2>2 DEF RejectAll, None, TypeOK
  <2>4. /\ reconnectTimer' = FALSE /\ connected' = FALSE
        /\ ws' = NULL /\ leaving' = "gone"
        /\ reconnectAttempts' = MaxAttempts
        /\ UNCHANGED <<awaiting, restoring, tries, overlapped>>
    BY <1>10, Zenon DEF Disconnect, history
  <2>5. MaxAttempts \in 0 .. MaxAttempts
    OBVIOUS
  <2> QED
    BY <2>1, <2>3, <2>4, <2>5, Zenon DEF TypeOK
<1> QED
  BY <1>1, <1>2, <1>3, <1>4, <1>5, <1>6, <1>7, <1>8, <1>9, <1>10
  DEF Next, SendRefused

\* The variables keep their types; in particular the attempts stay within
\* their limit.
THEOREM TypeCorrect == Spec => []TypeOK
  BY InitTypes, StepTypes, PTL DEF Spec

-----------------------------------------------------------------------------
(* The table of requests *)

TableInv == TypeOK /\ TableExact /\ PendingOnOpenSocket

LEMMA TableStep == TableInv /\ [Next]_vars => TableInv'
<1> SUFFICES ASSUME TableInv, [Next]_vars
             PROVE  TableExact' /\ PendingOnOpenSocket'
  BY StepTypes DEF TableInv
<1> USE DEF TableInv
\* An event that empties the table.
<1>0. ASSUME RejectAll PROVE TableExact' /\ PendingOnOpenSocket'
  <2>1. \A r \in Requests : pending'[r] = NULL
    BY <1>0 DEF RejectAll, None
  <2>2. timers' = {} /\ unsettled' = {}
    BY <1>0 DEF RejectAll, TableExact
  <2> QED
    BY <2>1, <2>2 DEF TableExact, PendingOnOpenSocket
<1>1. ASSUME UNCHANGED vars PROVE TableExact' /\ PendingOnOpenSocket'
  BY <1>1 DEF vars, table, TableExact, PendingOnOpenSocket
<1>2. ASSUME NEW s \in Sockets, Opened(s)
      PROVE  TableExact' /\ PendingOnOpenSocket'
  BY <1>2 DEF Opened, table, TableExact, PendingOnOpenSocket, TypeOK
<1>3. ASSUME NEW s \in Sockets, Failed(s)
      PROVE  TableExact' /\ PendingOnOpenSocket'
  BY <1>0, <1>3 DEF Failed, OnClose
<1>4. ASSUME NEW s \in Sockets, Closed(s)
      PROVE  TableExact' /\ PendingOnOpenSocket'
  BY <1>0, <1>4 DEF Closed, OnClose
<1>5. ASSUME NEW s \in Sockets, NEW r \in Requests, Answered(s, r)
      PROVE  TableExact' /\ PendingOnOpenSocket'
  <2>1. CASE pending[r] # NULL
    BY <1>5, <2>1 DEF Answered, TableExact, PendingOnOpenSocket, TypeOK
  <2>2. CASE pending[r] = NULL
    BY <1>5, <2>2 DEF Answered, table, TableExact, PendingOnOpenSocket
  <2> QED
    BY <2>1, <2>2
<1>6. ASSUME NEW s \in Sockets, Connect(s), UNCHANGED table
      PROVE  TableExact' /\ PendingOnOpenSocket'
  BY <1>6 DEF Connect, Live, table, TableExact, PendingOnOpenSocket, TypeOK
<1>7. ASSUME ReconnectTimer PROVE TableExact' /\ PendingOnOpenSocket'
  BY <1>6, <1>7 DEF ReconnectTimer
<1>8. ASSUME NEW r \in Requests, RequestTimeout(r)
      PROVE  TableExact' /\ PendingOnOpenSocket'
  BY <1>8 DEF RequestTimeout, TableExact, PendingOnOpenSocket, TypeOK
<1>9. ASSUME NEW r \in Requests, Send(r)
      PROVE  TableExact' /\ PendingOnOpenSocket'
  BY <1>9 DEF Send, isConnected, TableExact, PendingOnOpenSocket, TypeOK
<1>10. ASSUME AppConnect PROVE TableExact' /\ PendingOnOpenSocket'
  BY <1>6, <1>10 DEF AppConnect
<1>11. ASSUME Disconnect PROVE TableExact' /\ PendingOnOpenSocket'
  BY <1>0, <1>11 DEF Disconnect
<1> QED
  BY <1>1, <1>2, <1>3, <1>4, <1>5, <1>7, <1>8, <1>9, <1>10, <1>11
  DEF Next, SendRefused

LEMMA TableAlways == Spec => []TableInv
<1>1. Init => TableInv
  <2> SUFFICES ASSUME Init PROVE TableExact /\ PendingOnOpenSocket
    BY InitTypes DEF TableInv
  <2>1. pending = None /\ timers = {} /\ unsettled = {}
    BY DEF Init
  <2> QED
    BY <2>1 DEF None, TableExact, PendingOnOpenSocket
<1> QED
  BY <1>1, TableStep, PTL DEF Spec

\* The three ways a request ends agree on what is still open, for any number
\* of sockets and requests.
THEOREM TableCorrect == Spec => []TableExact
<1>1. TableInv => TableExact
  BY DEF TableInv
<1> QED
  BY <1>1, TableAlways, PTL

\* No request is left waiting on a connection that has ended.
THEOREM NoRequestOnDeadSocket == Spec => []PendingOnOpenSocket
<1>1. TableInv => PendingOnOpenSocket
  BY DEF TableInv
<1> QED
  BY <1>1, TableAlways, PTL

-----------------------------------------------------------------------------
(* The connected flag *)

LEMMA ConnectedStep == TypeOK /\ ConnectedMeansOpen /\ [Next]_vars => ConnectedMeansOpen'
<1> SUFFICES ASSUME TypeOK, ConnectedMeansOpen, [Next]_vars, connected'
             PROVE  \E s \in Sockets : sock'[s] = "open"
  BY DEF ConnectedMeansOpen
<1> DEFINE Goal == \E s \in Sockets : sock'[s] = "open"
<1>1. ASSUME UNCHANGED <<sock, connected>> PROVE Goal
  BY <1>1 DEF ConnectedMeansOpen
<1>2. ASSUME NEW s \in Sockets, Opened(s) PROVE Goal
  BY <1>2 DEF Opened, TypeOK
<1>3. ASSUME NEW s \in Sockets, Connect(s), UNCHANGED connected PROVE Goal
  BY <1>3 DEF Connect, Live, TypeOK, ConnectedMeansOpen
<1>4. ASSUME NEW s \in Sockets, Failed(s) \/ Closed(s) PROVE Goal
  BY <1>4, Zenon DEF Failed, Closed, OnClose
<1>5. ASSUME Disconnect PROVE Goal
  BY <1>5, Zenon DEF Disconnect
<1> QED
  BY <1>1, <1>2, <1>3, <1>4, <1>5, Zenon
  DEF Next, Answered, ReconnectTimer, RequestTimeout, AppConnect, Send,
      SendRefused, vars, client

\* The connected flag never outlives the last open connection, in whatever
\* order the events of replaced sockets arrive.
THEOREM ConnectedCorrect == Spec => []ConnectedMeansOpen
<1>1. Init => ConnectedMeansOpen
  BY DEF Init, ConnectedMeansOpen
<1> QED
  BY <1>1, TypeCorrect, ConnectedStep, PTL DEF Spec

-----------------------------------------------------------------------------
(* Reconnection *)

\* What the close handler leaves behind: an armed timer, or no attempt left.
LEMMA StrandedStep == TypeOK /\ NotStranded /\ [Next]_vars => NotStranded'
<1> SUFFICES ASSUME TypeOK, NotStranded, [Next]_vars
             PROVE  NotStranded'
  OBVIOUS
<1>1. ASSUME UNCHANGED <<sock, reconnectTimer, reconnectAttempts>> PROVE NotStranded'
  BY <1>1 DEF NotStranded, Live
<1>2. ASSUME NEW s \in Sockets, sock'[s] # "none" PROVE NotStranded'
  BY <1>2 DEF NotStranded, Live
<1>3. ASSUME NEW s \in Sockets, OnClose(s) PROVE NotStranded'
  BY <1>3, ScheduleTypes DEF OnClose, NotStranded
<1>4. ASSUME NEW s \in Sockets, Opened(s) \/ Connect(s) PROVE NotStranded'
  BY <1>2, <1>4 DEF Opened, Connect, TypeOK
<1>5. ASSUME Disconnect PROVE NotStranded'
  BY <1>5 DEF Disconnect, NotStranded
<1> QED
  BY <1>1, <1>3, <1>4, <1>5, Zenon
  DEF Next, Failed, Closed, Answered, ReconnectTimer, RequestTimeout, AppConnect,
      Send, SendRefused, vars, client

\* The client never sits without socket and timer before its attempts are used up.
THEOREM NeverStranded == Spec => []NotStranded
<1>1. Init => NotStranded
  BY DEF Init, NotStranded, Live
<1> QED
  BY <1>1, TypeCorrect, StrandedStep, PTL DEF Spec

\* An attempt that was made or is due has been counted, except for one that was
\* due when a socket opened.
Counted == tries + (IF reconnectTimer THEN 1 ELSE 0) <= reconnectAttempts + 1

LEMMA CountedStep == TypeOK /\ Counted /\ [Next]_vars => Counted'
<1> SUFFICES ASSUME TypeOK, Counted, [Next]_vars
             PROVE  Counted'
  OBVIOUS
<1>1. ASSUME UNCHANGED <<tries, reconnectTimer, reconnectAttempts>> PROVE Counted'
  BY <1>1 DEF Counted
<1>2. ASSUME NEW s \in Sockets, Opened(s) PROVE Counted'
  <2>1. tries' = 0 /\ reconnectAttempts' = 0 /\ reconnectTimer' = reconnectTimer
    BY <1>2 DEF Opened
  <2> QED
    BY <2>1 DEF Counted, TypeOK
<1>3. ASSUME ScheduleReconnect, UNCHANGED tries PROVE Counted'
  <2>1. CASE reconnectAttempts < MaxAttempts /\ ~reconnectTimer
    BY <1>3, <2>1 DEF ScheduleReconnect, Counted, TypeOK
  <2>2. CASE ~(reconnectAttempts < MaxAttempts /\ ~reconnectTimer)
    BY <1>1, <1>3, <2>2, Zenon DEF ScheduleReconnect
  <2> QED
    BY <2>1, <2>2
<1>4. ASSUME ReconnectTimer PROVE Counted'
  BY <1>4 DEF ReconnectTimer, Counted, TypeOK
<1>5. ASSUME Disconnect PROVE Counted'
  <2>1. tries' = tries /\ reconnectAttempts' = MaxAttempts /\ reconnectTimer' = FALSE
    BY <1>5 DEF Disconnect, history
  <2> QED
    BY <2>1 DEF Counted, TypeOK
<1> QED
  BY <1>1, <1>2, <1>3, <1>4, <1>5, Zenon
  DEF Next, Failed, Closed, OnClose, Answered, RequestTimeout, AppConnect, Send,
      SendRefused, vars, client, history

\* The number of reconnections without success is bounded.
THEOREM RetriesAreBounded == Spec => []RetriesBounded
<1>1. Init => Counted
  BY DEF Init, Counted
<1>2. TypeOK /\ Counted => RetriesBounded
  BY DEF TypeOK, Counted, RetriesBounded
<1> QED
  BY <1>1, <1>2, TypeCorrect, CountedStep, PTL DEF Spec

-----------------------------------------------------------------------------
(* One socket at a time *)

\* SingleSocketConsistent alone is not inductive: it does not say that the one
\* socket that is about to open is the one in ws, nor that it is the only one.
Single ==
    ~overlapped =>
        /\ \A s, t \in Sockets : Live(s) /\ Live(t) => s = t
        /\ \A s \in Sockets : sock[s] = "connecting" => ws = s
        /\ \A s \in Sockets : sock[s] = "open" <=> (connected /\ ws = s)

LEMMA SingleStep ==
    TypeOK /\ ConnectedMeansOpen /\ Single /\ [Next]_vars => Single'
<1> SUFFICES ASSUME TypeOK, ConnectedMeansOpen, Single, [Next]_vars, ~overlapped'
             PROVE  /\ \A s, t \in Sockets : Live(s)' /\ Live(t)' => s = t
                    /\ \A s \in Sockets : sock'[s] = "connecting" => ws' = s
                    /\ \A s \in Sockets : sock'[s] = "open" <=> (connected' /\ ws' = s)
  BY DEF Single
<1> DEFINE Goal == /\ \A s, t \in Sockets : Live(s)' /\ Live(t)' => s = t
                   /\ \A s \in Sockets : sock'[s] = "connecting" => ws' = s
                   /\ \A s \in Sockets : sock'[s] = "open" <=> (connected' /\ ws' = s)
<1>1. ASSUME UNCHANGED <<sock, ws, connected, overlapped>> PROVE Goal
  BY <1>1 DEF Single, Live
<1>2. ASSUME NEW s \in Sockets, Opened(s) PROVE Goal
  <2>1. /\ ~overlapped /\ ws' = ws /\ connected'
        /\ sock[s] = "connecting"
        /\ sock' = [sock EXCEPT ![s] = "open"]
    BY <1>2 DEF Opened
  <2>2. ws = s /\ \A t \in Sockets : t # s => sock[t] = "none"
    BY <2>1 DEF Single, Live
  <2> QED
    BY <2>1, <2>2 DEF Live, TypeOK
<1>3. ASSUME NEW s \in Sockets, Connect(s), UNCHANGED connected PROVE Goal
  <2>1. \A t \in Sockets : sock[t] = "none"
    BY <1>3 DEF Connect, Live
  <2>2. ~connected'
    BY <1>3, <2>1 DEF ConnectedMeansOpen
  <2> QED
    BY <1>3, <2>1, <2>2 DEF Connect, Live, TypeOK
<1>4. ASSUME NEW s \in Sockets, Failed(s) \/ Closed(s) PROVE Goal
  <2>1. /\ sock' = [sock EXCEPT ![s] = "none"]
        /\ ~overlapped \/ \A t \in Sockets \ {s} : ~Live(t)
    BY <1>4 DEF Failed, Closed
  <2>2. Live(s)
    BY <1>4 DEF Failed, Closed, Live
  <2>3. \A t \in Sockets : t # s => sock[t] = "none"
    BY <2>1, <2>2 DEF Single, Live
  <2>4. ~connected'
    BY <1>4 DEF Failed, Closed, OnClose
  <2> QED
    BY <2>1, <2>3, <2>4 DEF Live, TypeOK
<1>5. ASSUME Disconnect PROVE Goal
  <2>1. ~overlapped /\ ~connected'
    BY <1>5 DEF Disconnect, history
  <2>2. \A t \in Sockets : sock'[t] \notin {"connecting", "open"}
    <3>1. CASE ws = NULL
      BY <1>5, <2>1, <3>1 DEF Disconnect, Single, TypeOK
    <3>2. CASE ws # NULL
      BY <1>5, <2>1, <3>2 DEF Disconnect, Single, TypeOK
    <3> QED
      BY <3>1, <3>2
  <2>3. \A t \in Sockets : Live(t)' => Live(t)
    BY <1>5 DEF Disconnect, Live, TypeOK
  <2> QED
    BY <2>1, <2>2, <2>3 DEF Single
<1> QED
  BY <1>1, <1>2, <1>3, <1>4, <1>5, Zenon
  DEF Next, Answered, ReconnectTimer, RequestTimeout, AppConnect, Send,
      SendRefused, vars, client, history

\* While sockets do not overlap, the client knows its connection, and every
\* pending request is on it.
THEOREM SingleSocket == Spec => []SingleSocketConsistent
<1>1. Init => Single
  <2> SUFFICES ASSUME Init PROVE Single
    OBVIOUS
  <2>1. PICK s \in Sockets :
            /\ sock = [t \in Sockets |-> IF t = s THEN "connecting" ELSE "none"]
            /\ ws = s
    BY DEF Init
  <2>2. connected = FALSE
    BY DEF Init
  <2> QED
    BY <2>1, <2>2 DEF Single, Live
<1>2. TypeOK /\ PendingOnOpenSocket /\ Single => SingleSocketConsistent
  BY DEF TypeOK, PendingOnOpenSocket, Single, SingleSocketConsistent
<1> QED
  BY <1>1, <1>2, TypeCorrect, ConnectedCorrect, NoRequestOnDeadSocket, SingleStep,
     PTL DEF Spec

=============================================================================
