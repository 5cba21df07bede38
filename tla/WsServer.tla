-------------------------------- MODULE WsServer --------------------------------
(***************************************************************************)
(* The threads of the WebSocket server: the main thread, which runs every  *)
(* handler, the detached thread that each shutdown command leaves behind,  *)
(* and the signal handler, which runs on the main thread between any two   *)
(* of its steps.  All of them, and the destructor, may call stop().        *)
(*                                                                         *)
(* The I/O library is external: it dispatches one handler at a time, run() *)
(* returns when it was stopped or when nothing is left to wait for, and    *)
(* stop_listening() on a server that does not listen throws.  What a       *)
(* command does to the file system is in Accounts; here it ends, or is the *)
(* cd that does not.                                                       *)
(***************************************************************************)
EXTENDS Integers, FiniteSets

CONSTANTS
    Clients,      \* the connections
    Workers,      \* the detached threads
    SIGNAL,       \* the handler of SIGINT and SIGTERM
    DESTRUCTOR,   \* ~WebSocketServer, at the end of main()
    MAIN, FREE,   \* who holds m_mutex besides the above
    NoClient,
    RecordLimit,  \* kTimingRecordLimit
    MaxSignals    \* bound: signals

Stoppers == Workers \cup {SIGNAL, DESTRUCTOR}

ASSUME ThreadAssumption ==
    /\ SIGNAL \notin Workers /\ DESTRUCTOR \notin Workers /\ SIGNAL # DESTRUCTOR
    /\ MAIN \notin Stoppers /\ FREE \notin Stoppers /\ MAIN # FREE
ASSUME ClientAssumption == NoClient \notin Clients
ASSUME LimitAssumption == RecordLimit \in Nat /\ MaxSignals \in Nat

VARIABLES
    at,           \* where the main thread is
    op, hdl,      \* the handler it runs, and for which connection
    pc,           \* where each stop() is
    m_mutex,      \* who holds it
    m_sessions,
    m_shutdownRequested,
    recent,       \* m_recentTimingRecords: how many
    conns,        \* stop()'s copy of m_sessions
    conn,         \* the state of the connections
    listening,    \* the acceptor is open
    halted,       \* m_server.stop() was called
    alive,        \* the server was not destroyed
    signals

vars == <<at, op, hdl, pc, m_mutex, m_sessions, m_shutdownRequested, recent, conns,
          conn, listening, halted, alive, signals>>

\* What no stop() touches, and what no handler touches.
mainVars == <<at, op, hdl, m_shutdownRequested, recent, alive, signals>>
stopVars == <<conns, listening, halted, alive, signals>>

Places == {"off", "sleep", "listen", "passed", "lock", "drain", "close", "halt", "done"}

\* The places, the mutex and the flags of the threads range over these values; no
\* more timing records are kept than the limit.
TypeOK ==
    /\ at \in {"starting", "idle", "wait", "locked", "reply", "hung", "destroying",
               "destroyed", "gone"}
    /\ op \in {"none", "open", "close", "record", "stats"} /\ hdl \in Clients \cup {NoClient}
    /\ pc \in [Stoppers -> Places] /\ m_mutex \in Stoppers \cup {MAIN, FREE}
    /\ m_sessions \subseteq Clients /\ conns \subseteq Clients
    /\ conn \in [Clients -> {"none", "open", "closing"}]
    /\ recent \in 0 .. RecordLimit /\ signals \in 0 .. MaxSignals
    /\ m_shutdownRequested \in BOOLEAN /\ listening \in BOOLEAN /\ halted \in BOOLEAN
    /\ alive \in BOOLEAN

Init ==
    /\ at = "starting" /\ op = "none" /\ hdl = NoClient
    /\ pc = [t \in Stoppers |-> "off"] /\ m_mutex = FREE
    /\ m_sessions = {} /\ conns = {} /\ conn = [c \in Clients |-> "none"]
    /\ recent = 0 /\ signals = 0
    /\ m_shutdownRequested = FALSE /\ listening = FALSE /\ halted = FALSE /\ alive = TRUE

-----------------------------------------------------------------------------
(* The main thread: start() and the handlers.                               *)

\* Seeded fault: the signal handler runs beside the main thread.
RunningBeside(a) == at = a

\* The main thread goes on when no signal handler runs on it.
Running(a) == at = a /\ pc[SIGNAL] = "off"

Listen ==
    /\ Running("starting")
    /\ at' = "idle" /\ listening' = TRUE
    /\ UNCHANGED <<op, hdl, pc, m_mutex, m_sessions, m_shutdownRequested, recent, conns, conn,
                   halted, alive, signals>>

\* listen() throws, and start() returns.
ListenFails ==
    /\ Running("starting")
    /\ at' = "destroying" /\ pc' = [pc EXCEPT ![DESTRUCTOR] = "listen"]
    /\ UNCHANGED <<op, hdl, m_mutex, m_sessions, m_shutdownRequested, recent, conn>>
    /\ UNCHANGED stopVars

Dispatch == Running("idle") /\ ~halted

\* A handler begins; those named here take m_mutex.
Enter(place, o, c) ==
    /\ at' = place /\ op' = o /\ hdl' = c
    /\ UNCHANGED <<pc, m_mutex, m_sessions, recent>> /\ UNCHANGED stopVars

Accept(c) ==
    /\ Dispatch /\ listening /\ conn[c] = "none"
    /\ conn' = [conn EXCEPT ![c] = "open"]
    /\ Enter("wait", "open", c) /\ UNCHANGED m_shutdownRequested

\* The connection is lost, closed by the client, or answered the close of stop().
Disconnect(c) ==
    /\ Dispatch /\ conn[c] # "none"
    /\ conn' = [conn EXCEPT ![c] = "none"]
    /\ Enter("wait", "close", c) /\ UNCHANGED m_shutdownRequested

\* on_message up to the mutex: handleCommand has been through, except for
\* performance_stats, which takes the mutex itself.
Command(c) ==
    /\ Dispatch /\ conn[c] = "open"
    /\ Enter("wait", "record", c) /\ UNCHANGED <<conn, m_shutdownRequested>>

PerformanceStats(c) ==
    /\ Dispatch /\ conn[c] = "open"
    /\ Enter("wait", "stats", c) /\ UNCHANGED <<conn, m_shutdownRequested>>

\* A text that cannot be parsed leads to an answer only.
Garbled(c) ==
    /\ Dispatch /\ conn[c] = "open"
    /\ Enter("reply", "none", c) /\ UNCHANGED <<conn, m_shutdownRequested>>

\* The bound on the threads is on the commands that start them.
Shutdown(c) ==
    /\ Dispatch /\ conn[c] = "open" /\ \E w \in Workers : pc[w] = "off"
    /\ m_shutdownRequested' = TRUE
    /\ Enter("wait", "record", c) /\ UNCHANGED conn

\* ChangeDirectory's loop that waits for the path to become "/".
EndlessCd(c) ==
    /\ Dispatch /\ conn[c] = "open"
    /\ Enter("hung", "none", c) /\ UNCHANGED <<conn, m_shutdownRequested>>

TakeMutex ==
    /\ Running("wait") /\ m_mutex = FREE
    /\ at' = "locked" /\ m_mutex' = MAIN
    /\ UNCHANGED <<op, hdl, pc, m_sessions, m_shutdownRequested, recent, conn>>
    /\ UNCHANGED stopVars

\* The end of a handler's critical section.
Unlock(next) ==
    /\ at' = next /\ m_mutex' = FREE /\ op' = "none" /\ hdl' = NoClient
    /\ UNCHANGED <<pc, m_shutdownRequested, conn>> /\ UNCHANGED stopVars

OnOpen ==
    /\ Running("locked") /\ op = "open"
    /\ m_sessions' = m_sessions \cup {hdl}
    /\ Unlock("idle") /\ UNCHANGED recent

OnClose ==
    /\ Running("locked") /\ op = "close"
    /\ m_sessions' = m_sessions \ {hdl}
    /\ Unlock("idle") /\ UNCHANGED recent

\* Seeded fault: the oldest record is not dropped.
RecordUntrimmed ==
    /\ Running("locked") /\ op = "record"
    /\ recent' = recent + 1
    /\ Unlock("reply") /\ UNCHANGED m_sessions

RecordCommandTiming ==
    /\ Running("locked") /\ op = "record"
    /\ recent' = IF recent = RecordLimit THEN recent ELSE recent + 1
    /\ Unlock("reply") /\ UNCHANGED m_sessions

BuildPerformanceStats ==
    /\ Running("locked") /\ op = "stats"
    /\ Unlock("reply") /\ UNCHANGED <<m_sessions, recent>>

\* Seeded fault: the request is not looked at.
ReplyOnly ==
    /\ Running("reply")
    /\ at' = "idle" /\ op' = "none" /\ hdl' = NoClient
    /\ UNCHANGED <<pc, m_shutdownRequested, m_mutex, m_sessions, recent, conn>>
    /\ UNCHANGED stopVars

\* The answer is sent; a requested shutdown starts a thread.
Reply ==
    /\ Running("reply")
    /\ at' = "idle" /\ op' = "none" /\ hdl' = NoClient /\ m_shutdownRequested' = FALSE
    /\ IF m_shutdownRequested
       THEN \E w \in Workers : pc[w] = "off" /\ pc' = [pc EXCEPT ![w] = "sleep"]
       ELSE UNCHANGED pc
    /\ UNCHANGED <<m_mutex, m_sessions, recent, conn>> /\ UNCHANGED stopVars

\* run() returns, and main() destroys the server on its way out.
Return ==
    /\ Running("idle")
    /\ halted \/ (~listening /\ \A c \in Clients : conn[c] = "none")
    /\ at' = "destroying" /\ pc' = [pc EXCEPT ![DESTRUCTOR] = "listen"]
    /\ UNCHANGED <<op, hdl, m_mutex, m_sessions, m_shutdownRequested, recent, conn>>
    /\ UNCHANGED stopVars

Destroy ==
    /\ Running("destroying") /\ pc[DESTRUCTOR] = "done"
    /\ at' = "destroyed" /\ alive' = FALSE
    /\ UNCHANGED <<op, hdl, pc, m_mutex, m_sessions, m_shutdownRequested, recent, conns, conn,
                   listening, halted, signals>>

\* The process ends, with all of its threads.
Exit ==
    /\ Running("destroyed")
    /\ at' = "gone"
    /\ UNCHANGED <<op, hdl, pc, m_mutex, m_sessions, m_shutdownRequested, recent, conn>>
    /\ UNCHANGED stopVars

-----------------------------------------------------------------------------
(* stop(), by whoever calls it.                                             *)

Signal ==
    /\ at # "gone" /\ pc[SIGNAL] = "off" /\ signals < MaxSignals
    /\ signals' = signals + 1 /\ pc' = [pc EXCEPT ![SIGNAL] = "listen"]
    /\ UNCHANGED <<at, op, hdl, m_mutex, m_sessions, m_shutdownRequested, recent, conns, conn,
                   listening, halted, alive>>

\* t is at p, and goes on unless it is the destructor under a signal handler.
At(t, p) ==
    /\ at # "gone" /\ pc[t] = p /\ (t = DESTRUCTOR => pc[SIGNAL] = "off")

Go(t, p) == pc' = [pc EXCEPT ![t] = p] /\ UNCHANGED mainVars

\* stop() returns; so does the signal handler.
Ended(t) == IF t = SIGNAL THEN "off" ELSE "done"

Wake(t) ==
    /\ At(t, "sleep") /\ Go(t, "listen")
    /\ UNCHANGED <<m_mutex, m_sessions, conns, conn, listening, halted>>

\* stop_listening() looks at its state, without a lock, and throws if it does
\* not listen, ...
StopListening(t) ==
    /\ At(t, "listen") /\ alive
    /\ Go(t, IF listening THEN "passed" ELSE Ended(t))
    /\ UNCHANGED <<m_mutex, m_sessions, conns, conn, listening, halted>>

\* ... or closes the acceptor.
CloseAcceptor(t) ==
    /\ At(t, "passed") /\ alive
    /\ listening' = FALSE /\ Go(t, "lock")
    /\ UNCHANGED <<m_mutex, m_sessions, conns, conn, halted>>

\* Seeded fault: the sessions are copied and closed without the mutex.
AcquireNone(t) ==
    /\ At(t, "lock") /\ alive
    /\ Go(t, "drain")
    /\ UNCHANGED <<m_mutex, m_sessions, conns, conn, listening, halted>>

Acquire(t) ==
    /\ At(t, "lock") /\ alive /\ m_mutex = FREE
    /\ m_mutex' = t /\ Go(t, "drain")
    /\ UNCHANGED <<m_sessions, conns, conn, listening, halted>>

CopySessions(t) ==
    /\ At(t, "drain") /\ alive
    /\ conns' = m_sessions /\ m_sessions' = {} /\ Go(t, "close")
    /\ UNCHANGED <<m_mutex, conn, listening, halted>>

\* Seeded fault: the mutex is not released.
CloseSessionsLocked(t) ==
    /\ At(t, "close") /\ alive
    /\ conn' = [c \in Clients |-> IF c \in conns /\ conn[c] = "open" THEN "closing" ELSE conn[c]]
    /\ conns' = {} /\ Go(t, "halt")
    /\ UNCHANGED <<m_mutex, m_sessions, listening, halted>>

\* close() throws, and is caught, for a connection that is gone.
CloseSessions(t) ==
    /\ At(t, "close") /\ alive
    /\ conn' = [c \in Clients |-> IF c \in conns /\ conn[c] = "open" THEN "closing" ELSE conn[c]]
    /\ m_mutex' = FREE /\ conns' = {} /\ Go(t, "halt")
    /\ UNCHANGED <<m_sessions, listening, halted>>

Halt(t) ==
    /\ At(t, "halt") /\ alive
    /\ halted' = TRUE /\ Go(t, Ended(t))
    /\ UNCHANGED <<m_mutex, m_sessions, conns, conn, listening>>

\* The server is used after its end.  What that does is not followed: the thread
\* is not seen again.
UseDestroyed(t) ==
    /\ \E p \in {"listen", "passed", "lock", "drain", "close", "halt"} : At(t, p)
    /\ ~alive /\ Go(t, Ended(t))
    /\ UNCHANGED <<m_mutex, m_sessions, conns, conn, listening, halted>>

-----------------------------------------------------------------------------
Event ==
    \E c \in Clients :
        \/ Accept(c) \/ Disconnect(c) \/ Command(c) \/ PerformanceStats(c)
        \/ Garbled(c) \/ Shutdown(c) \/ EndlessCd(c)

Main ==
    \/ Listen \/ ListenFails \/ TakeMutex
    \/ OnOpen \/ OnClose \/ RecordCommandTiming \/ BuildPerformanceStats
    \/ Reply \/ Return \/ Destroy \/ Exit

Stop(t) ==
    \/ Wake(t) \/ StopListening(t) \/ CloseAcceptor(t) \/ Acquire(t)
    \/ CopySessions(t) \/ CloseSessions(t) \/ Halt(t) \/ UseDestroyed(t)

Next == Event \/ Main \/ Signal \/ \E t \in Stoppers : Stop(t)

\* A thread that can go on does, the timer expires, and who waits for the mutex
\* gets it if it is free again and again.  Nothing is asked of the clients.
Fairness ==
    /\ WF_vars(Main) /\ SF_vars(TakeMutex)
    /\ \A t \in Stoppers : WF_vars(Stop(t)) /\ SF_vars(Acquire(t))

Spec == Init /\ [][Next]_vars
FairSpec == Spec /\ Fairness

-----------------------------------------------------------------------------
(* Properties.                                                              *)

Pending(c) == hdl = c /\ op \in {"open", "close"}
Closing(c) == c \in conns

\* m_sessions holds the open connections: all of them, unless on_open or on_close
\* is still on its way, or stop() has taken the connection to close it; and none
\* that was closed or told to close.
SessionsExact ==
    \A c \in Clients : Pending(c) \/ Closing(c) \/ (c \in m_sessions <=> conn[c] = "open")

\* The signal handler interrupted the holder of the mutex that it waits for.
SelfDeadlock == pc[SIGNAL] = "lock" /\ m_mutex \in {MAIN, DESTRUCTOR}

InHandler == at \in {"wait", "locked", "reply"}

\* A handler that has begun comes to its end, whoever calls stop() meanwhile; only
\* the signal handler can prevent it, by waiting for the mutex of the handler.
HandlersReturn == InHandler ~> (~InHandler \/ SelfDeadlock)

Stopping ==
    \/ m_shutdownRequested \/ \E w \in Workers : pc[w] \in {"sleep", "listen"}
    \/ \E t \in Stoppers : pc[t] \in {"passed", "lock", "drain", "close", "halt"}

\* Once a shutdown was asked for, or a stop() has found the server listening, the
\* process ends, with clients that go on sending, several of them shutdowns, and
\* signals at any time; except in the endless cd and by the deadlock of a signal
\* handler with the thread it interrupted.
ShutdownEnds == Stopping ~> (at \in {"gone", "hung"} \/ SelfDeadlock)

\* When the server is destroyed, main() and the signal handler are not inside it
\* and do not hold its mutex; a detached thread can be.
OnlyWorkersOutlive ==
    [][alive /\ ~alive' => /\ m_mutex \in Workers \cup {FREE}
                           /\ \A t \in Stoppers \ Workers : pc[t] \in {"off", "done"}]_vars
===============================================================================
