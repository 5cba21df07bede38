------------------------------ MODULE WsClient ------------------------------
(***************************************************************************)
(* The browser's connection to the server (frontend/js/ws-client.js), used *)
(* the way app.js uses it.  One action is one callback: a socket event, a  *)
(* timer, or a call of the application, with the continuations that run    *)
(* before the next callback.  Time is left out: a timer may fire whenever  *)
(* it is armed.                                                            *)
(*                                                                         *)
(* Sockets and requests are slots.  A slot is used again when nothing in   *)
(* the client or on the wire refers to it, so that behaviours are endless  *)
(* although only so many sockets live, and requests fly, at one time.      *)
(***************************************************************************)
EXTENDS Naturals

CONSTANTS Sockets,       \* slots for WebSocket objects
          Requests,      \* slots for request ids
          MaxAttempts,   \* MAX_RECONNECT_ATTEMPTS
          NULL

ASSUME AttemptsAssumption == MaxAttempts \in Nat \ {0}
ASSUME NullAssumption == NULL \notin Sockets

VARIABLES sock,          \* state of each WebSocket object
          wire,          \* requests sent on a socket and not answered yet
          ws, connected, reconnectAttempts, reconnectTimer,
          pending,       \* pendingRequests: the socket a request went out on
          timers,        \* requests whose time-out is armed
          unsettled,     \* requests whose promise is neither resolved nor rejected
          awaiting,      \* the socket whose connect() the application awaits
          restoring,     \* the page start awaits it with saved credentials
          leaving,       \* the shutdown: "no", "soon" once answered, "gone"
          tries,         \* reconnections since a socket last opened
          overlapped     \* two sockets have lived at once since none lived

client  == <<ws, connected, reconnectAttempts, reconnectTimer>>
table   == <<pending, timers, unsettled>>
app     == <<awaiting, restoring, leaving>>
history == <<tries, overlapped>>
vars    == <<sock, wire, client, table, app, history>>

None == [r \in Requests |-> NULL]
Live(s) == sock[s] # "none"

TypeOK ==
    /\ sock \in [Sockets -> {"none", "connecting", "open", "aborting", "closing"}]
    /\ wire \in [Sockets -> SUBSET Requests]
    /\ ws \in Sockets \cup {NULL}
    /\ connected \in BOOLEAN
    /\ reconnectAttempts \in 0 .. MaxAttempts
    /\ reconnectTimer \in BOOLEAN
    /\ pending \in [Requests -> Sockets \cup {NULL}]
    /\ timers \subseteq Requests
    /\ unsettled \subseteq Requests
    /\ awaiting \in Sockets \cup {NULL}
    /\ restoring \in BOOLEAN
    /\ leaving \in {"no", "soon", "gone"}
    /\ tries \in Nat
    /\ overlapped \in BOOLEAN

\* The page has called connect() for the first time, either to restore a
\* session or to show the login form.
Init ==
    /\ \E s \in Sockets :
           /\ sock = [t \in Sockets |-> IF t = s THEN "connecting" ELSE "none"]
           /\ ws = s
           /\ awaiting = s
    /\ wire = [s \in Sockets |-> {}]
    /\ connected = FALSE
    /\ reconnectAttempts = 0
    /\ reconnectTimer = FALSE
    /\ pending = None
    /\ timers = {}
    /\ unsettled = {}
    /\ restoring \in BOOLEAN
    /\ leaving = "no"
    /\ tries = 0
    /\ overlapped = FALSE

isConnected == connected /\ ws # NULL /\ sock[ws] = "open"

-----------------------------------------------------------------------------
(* Parts of the handlers *)

\* connect(): the new socket takes the place of whatever ws held.
Connect(s) ==
    /\ ~Live(s)
    /\ sock' = [sock EXCEPT ![s] = "connecting"]
    /\ ws' = s
    /\ overlapped' = (overlapped \/ \E t \in Sockets : Live(t))

\* Seeded fault: the table is emptied and nobody is told.
RejectAllSilent ==
    /\ pending' = None
    /\ timers' = timers \ {r \in Requests : pending[r] # NULL}
    /\ UNCHANGED unsettled

\* Seeded fault: the time-outs are left armed.
RejectAllKeepTimers ==
    /\ pending' = None
    /\ UNCHANGED timers
    /\ unsettled' = unsettled \ {r \in Requests : pending[r] # NULL}

RejectAll ==
    /\ pending' = None
    /\ timers' = timers \ {r \in Requests : pending[r] # NULL}
    /\ unsettled' = unsettled \ {r \in Requests : pending[r] # NULL}

\* Seeded fault: a connection that never opened is not tried again.
ScheduleIfConnected ==
    IF connected /\ reconnectAttempts < MaxAttempts /\ ~reconnectTimer
    THEN /\ reconnectTimer' = TRUE
         /\ reconnectAttempts' = reconnectAttempts + 1
    ELSE UNCHANGED <<reconnectTimer, reconnectAttempts>>

\* Seeded fault: no limit.
ScheduleUnlimited ==
    IF ~reconnectTimer
    THEN /\ reconnectTimer' = TRUE
         /\ reconnectAttempts' = reconnectAttempts + 1
    ELSE UNCHANGED <<reconnectTimer, reconnectAttempts>>

\* Seeded fault: an attempt is not counted.
ScheduleUncounted ==
    /\ reconnectTimer' = (reconnectTimer \/ reconnectAttempts < MaxAttempts)
    /\ UNCHANGED reconnectAttempts

ScheduleReconnect ==
    IF reconnectAttempts < MaxAttempts /\ ~reconnectTimer
    THEN /\ reconnectTimer' = TRUE
         /\ reconnectAttempts' = reconnectAttempts + 1
    ELSE UNCHANGED <<reconnectTimer, reconnectAttempts>>

\* Whichever socket the event is of.
\* Seeded fault: the events of a replaced socket are taken for old news.
OnCloseCurrent(s) ==
    /\ connected' = (connected /\ ws # s)
    /\ ws' = IF ws = s THEN NULL ELSE ws
    /\ wire' = [wire EXCEPT ![s] = {}]
    /\ IF ws = s THEN RejectAll ELSE UNCHANGED table
    /\ ScheduleReconnect

\* Seeded fault: pending requests are left for the next connection.
OnCloseKeepPending(s) ==
    /\ connected' = FALSE
    /\ ws' = NULL
    /\ wire' = [wire EXCEPT ![s] = {}]
    /\ UNCHANGED table
    /\ ScheduleReconnect

OnClose(s) ==
    /\ connected' = FALSE
    /\ ws' = NULL
    /\ wire' = [wire EXCEPT ![s] = {}]
    /\ RejectAll
    /\ ScheduleReconnect

-----------------------------------------------------------------------------
(* Socket events *)

\* Seeded fault: the promise of connect() is resolved for the socket in ws only.
OpenedCurrent(s) ==
    /\ sock[s] = "connecting"
    /\ sock' = [sock EXCEPT ![s] = "open"]
    /\ connected' = TRUE
    /\ reconnectAttempts' = 0
    /\ tries' = 0
    /\ awaiting' = IF awaiting = s /\ ws = s THEN NULL ELSE awaiting
    /\ restoring' = (restoring /\ awaiting # s)
    /\ UNCHANGED <<wire, ws, reconnectTimer, table, leaving, overlapped>>

Opened(s) ==
    /\ sock[s] = "connecting"
    /\ sock' = [sock EXCEPT ![s] = "open"]
    /\ connected' = TRUE
    /\ reconnectAttempts' = 0
    /\ tries' = 0
    /\ awaiting' = IF awaiting = s THEN NULL ELSE awaiting
    /\ restoring' = (restoring /\ awaiting # s)
    /\ UNCHANGED <<wire, ws, reconnectTimer, table, leaving, overlapped>>

\* The error event, then the close event.  The rejected connect() resumes its
\* caller in between: the page start then opens the login form, which connects
\* again, and the close event of the first socket clears the second one's ws.
Failed(s) ==
    /\ sock[s] \in {"connecting", "aborting"}
    /\ \/ /\ restoring /\ awaiting = s
          /\ \E t \in Sockets \ {s} :
                 /\ ~Live(t)
                 /\ sock' = [sock EXCEPT ![s] = "none", ![t] = "connecting"]
                 /\ awaiting' = t
          /\ restoring' = FALSE
          /\ overlapped' = TRUE
       \/ /\ ~(restoring /\ awaiting = s)
          /\ sock' = [sock EXCEPT ![s] = "none"]
          /\ awaiting' = IF awaiting = s THEN NULL ELSE awaiting
          /\ overlapped' = (overlapped /\ \E t \in Sockets \ {s} : Live(t))
          /\ UNCHANGED restoring
    /\ OnClose(s)
    /\ UNCHANGED <<leaving, tries>>

Closed(s) ==
    /\ sock[s] \in {"open", "closing"}
    /\ sock' = [sock EXCEPT ![s] = "none"]
    /\ overlapped' = (overlapped /\ \E t \in Sockets \ {s} : Live(t))
    /\ OnClose(s)
    /\ UNCHANGED <<app, tries>>

\* handleMessage: an answer without a pending request is ignored.  When the
\* answer is that to "shutdown", the application will disconnect.
Answered(s, r) ==
    /\ sock[s] = "open"
    /\ r \in wire[s]
    /\ wire' = [wire EXCEPT ![s] = @ \ {r}]
    /\ \/ /\ pending[r] # NULL
          /\ pending' = [pending EXCEPT ![r] = NULL]
          /\ timers' = timers \ {r}
          /\ unsettled' = unsettled \ {r}
          /\ leaving' \in {leaving, IF leaving = "no" THEN "soon" ELSE leaving}
       \/ /\ pending[r] = NULL
          /\ UNCHANGED <<table, leaving>>
    /\ UNCHANGED <<sock, client, awaiting, restoring, history>>

-----------------------------------------------------------------------------
(* Timers *)

ReconnectTimer ==
    /\ reconnectTimer
    /\ reconnectTimer' = FALSE
    /\ \E s \in Sockets : Connect(s)
    /\ tries' = tries + 1
    /\ UNCHANGED <<wire, connected, reconnectAttempts, table, app>>

RequestTimeout(r) ==
    /\ r \in timers
    /\ timers' = timers \ {r}
    /\ pending' = [pending EXCEPT ![r] = NULL]
    /\ unsettled' = unsettled \ {r}
    /\ UNCHANGED <<sock, wire, client, app, history>>

-----------------------------------------------------------------------------
(* Calls of the application *)

\* Login and shutdown connect first if there is no connection; the buttons are
\* disabled while they wait.
AppConnect ==
    /\ awaiting = NULL /\ leaving = "no"
    /\ ~isConnected
    /\ \E s \in Sockets : Connect(s) /\ awaiting' = s
    /\ UNCHANGED <<wire, connected, reconnectAttempts, reconnectTimer, table,
                   restoring, leaving, tries>>

Send(r) ==
    /\ isConnected
    /\ r \notin unsettled
    /\ \A s \in Sockets : r \notin wire[s]
    /\ pending' = [pending EXCEPT ![r] = ws]
    /\ timers' = timers \cup {r}
    /\ unsettled' = unsettled \cup {r}
    /\ wire' = [wire EXCEPT ![ws] = @ \cup {r}]
    /\ UNCHANGED <<sock, client, app, history>>

\* "Not connected": the promise is rejected at once.
SendRefused ==
    /\ ~isConnected
    /\ UNCHANGED vars

Disconnect ==
    /\ leaving = "soon"
    /\ leaving' = "gone"
    /\ reconnectTimer' = FALSE
    /\ reconnectAttempts' = MaxAttempts
    /\ IF ws = NULL
       THEN UNCHANGED <<sock, wire>>
       ELSE /\ sock' = [sock EXCEPT ![ws] =
                            CASE @ = "open"       -> "closing"
                              [] @ = "connecting" -> "aborting"
                              [] OTHER            -> @]
            /\ wire' = [wire EXCEPT ![ws] = {}]
    /\ ws' = NULL
    /\ connected' = FALSE
    /\ RejectAll
    /\ UNCHANGED <<awaiting, restoring, history>>

Next ==
    \/ \E s \in Sockets : Opened(s) \/ Failed(s) \/ Closed(s)
    \/ \E s \in Sockets, r \in Requests : Answered(s, r)
    \/ ReconnectTimer
    \/ \E r \in Requests : RequestTimeout(r) \/ Send(r)
    \/ AppConnect
    \/ SendRefused
    \/ Disconnect

\* An armed time-out fires, and the browser reports the outcome of every
\* connection it tries to open.  Nothing is assumed of the server, the
\* network or the user.
Fairness ==
    /\ \A r \in Requests : WF_vars(RequestTimeout(r))
    /\ \A s \in Sockets : WF_vars(Opened(s) \/ Failed(s))

Spec == Init /\ [][Next]_vars /\ Fairness

-----------------------------------------------------------------------------
(* Properties *)

\* The table of pending requests, the armed time-outs and the open promises are
\* always the same requests: none is forgotten by the three ways a request
\* ends (answer, time-out, end of the connection), none outlives its promise.
TableExact ==
    LET table_ == {r \in Requests : pending[r] # NULL}
    IN  timers = table_ /\ unsettled = table_

\* No request waits for an answer on a connection that has ended, also when a
\* later connection is in use by then.
PendingOnOpenSocket ==
    \A r \in Requests : pending[r] # NULL => sock[pending[r]] = "open"

\* The connected flag is up only while some connection is open, whatever the
\* order in which the events of replaced sockets arrive.
ConnectedMeansOpen == connected => \E s \in Sockets : sock[s] = "open"

\* The client with no socket and no timer has used up its attempts (or has been
\* told to disconnect): no order of failures leaves it idle before.
NotStranded ==
    ((\A s \in Sockets : ~Live(s)) /\ ~reconnectTimer)
        => reconnectAttempts = MaxAttempts

\* It reconnects by itself at most MaxAttempts times without success, however
\* many sockets report their failure; once more, when the timer was already
\* armed as the last socket opened and set the counter back.
RetriesBounded == tries + (IF reconnectTimer THEN 1 ELSE 0) <= MaxAttempts + 1

\* As long as no two sockets have lived at once, the client's idea of its
\* connection is right, and every pending request is on that connection.
SingleSocketConsistent ==
    ~overlapped =>
        /\ \A s \in Sockets : sock[s] = "open" <=> (connected /\ ws = s)
        /\ \A r \in Requests : pending[r] \in {NULL, ws}

\* Every promise send() returned is settled at last, by the time-out if by
\* nothing else.
RequestsSettle == \A r \in Requests : r \in unsettled ~> r \notin unsettled

\* Every connect() the application awaits comes back: a login form is never
\* disabled for good.
ConnectSettles == awaiting # NULL ~> awaiting = NULL

\* When a connect() resolves, the client is connected.  "If connection lost, try
\* to reconnect first" (app.js): the login goes on when connect() resolves, and
\* send() then asks for an open socket in ws.
ConnectGivesConnection ==
    [][\A s \in Sockets :
           (awaiting = s /\ awaiting' = NULL /\ sock'[s] = "open")
               => isConnected']_vars

=============================================================================
