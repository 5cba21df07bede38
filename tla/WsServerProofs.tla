---------------------------- MODULE WsServerProofs ----------------------------
(***************************************************************************)
(* Theorems about WsServer for any number of connections, threads and      *)
(* signals.  The invariant says who may hold the mutex (Holder), where the *)
(* main thread may be after the server's end (Phases) and what becomes of  *)
(* a connection between the copy of m_sessions and its closing (Taken).    *)
(***************************************************************************)
EXTENDS WsServer, TLAPS

\* Outside of the handlers that take the mutex no handler is noted, and before the
\* end of main() the destructor has not begun.
Phases ==
    /\ at \notin {"wait", "locked"} => op = "none"
    /\ op \in {"open", "close"} => hdl \in Clients
    /\ alive <=> at \notin {"destroyed", "gone"}
    /\ at \notin {"destroying", "destroyed", "gone"} => pc[DESTRUCTOR] = "off"

\* The mutex is held by the one thread that is in its critical section.
Holder ==
    /\ at = "locked" <=> m_mutex = MAIN
    /\ alive => \A t \in Stoppers : pc[t] \in {"drain", "close"} <=> m_mutex = t

\* The copy is in use in one critical section only.
Copied == alive /\ conns # {} => \E t \in Stoppers : pc[t] = "close"

\* What the copy, and a handler on its way, mean for a connection.
Taken ==
    \A c \in Clients :
        /\ c \in conns => /\ conn[c] = "open" \/ (hdl = c /\ op = "close")
                          /\ c \notin m_sessions
        /\ hdl = c /\ op = "open" => conn[c] = "open" /\ c \notin m_sessions \cup conns
        /\ hdl = c /\ op = "close" => conn[c] = "none"

IInv == TypeOK /\ Phases /\ Holder /\ Copied /\ Taken /\ SessionsExact

LEMMA InitInv == Init => IInv
<1> SUFFICES ASSUME Init PROVE IInv
  OBVIOUS
<1>1. TypeOK
  <2>1. /\ pc \in [Stoppers -> Places] /\ m_mutex \in Stoppers \cup {MAIN, FREE}
        /\ conn \in [Clients -> {"none", "open", "closing"}]
        /\ m_sessions \subseteq Clients /\ conns \subseteq Clients
    BY DEF Init, Places
  <2>2. recent \in 0 .. RecordLimit /\ signals \in 0 .. MaxSignals
    BY LimitAssumption DEF Init
  <2>3. /\ m_shutdownRequested \in BOOLEAN /\ listening \in BOOLEAN /\ halted \in BOOLEAN
        /\ alive \in BOOLEAN
    BY Zenon DEF Init
  <2>4. QED
    BY <2>1, <2>2, <2>3, Zenon DEF Init, TypeOK
<1>2. Phases
  BY DEF Init, Phases, Stoppers
<1>3. Holder
  BY ThreadAssumption DEF Init, Holder, Stoppers
<1>4. Copied /\ Taken
  BY DEF Init, Copied, Taken
<1>5. SessionsExact
  BY DEF Init, SessionsExact
<1>6. QED
  BY <1>1, <1>2, <1>3, <1>4, <1>5 DEF IInv

\* The types, step by step.
LEMMA TypeStep ==
    ASSUME IInv, [Next]_vars
    PROVE  TypeOK'
<1> USE LimitAssumption
<1> USE DEF IInv, TypeOK, Places, Phases,
            Enter, Dispatch, Running, Unlock, At, Go, Ended, mainVars, stopVars
<1>1. ASSUME NEW c \in Clients, Accept(c) PROVE TypeOK'
  BY <1>1 DEF Accept
<1>2. ASSUME NEW c \in Clients, Disconnect(c) PROVE TypeOK'
  BY <1>2 DEF Disconnect
<1>3. ASSUME NEW c \in Clients, Command(c) PROVE TypeOK'
  BY <1>3 DEF Command
<1>4. ASSUME NEW c \in Clients, PerformanceStats(c) PROVE TypeOK'
  BY <1>4 DEF PerformanceStats
<1>5. ASSUME NEW c \in Clients, Garbled(c) PROVE TypeOK'
  BY <1>5 DEF Garbled
<1>6. ASSUME NEW c \in Clients, Shutdown(c) PROVE TypeOK'
  BY <1>6 DEF Shutdown
<1>7. ASSUME NEW c \in Clients, EndlessCd(c) PROVE TypeOK'
  BY <1>7 DEF EndlessCd
<1>8. CASE Listen
  BY <1>8 DEF Listen
<1>9. CASE ListenFails
  BY <1>9 DEF ListenFails
<1>10. CASE TakeMutex
  BY <1>10 DEF TakeMutex
<1>11. CASE OnOpen
  BY <1>11 DEF OnOpen
<1>12. CASE OnClose
  BY <1>12 DEF OnClose
<1>13. CASE RecordCommandTiming
  BY <1>13 DEF RecordCommandTiming
<1>14. CASE BuildPerformanceStats
  BY <1>14 DEF BuildPerformanceStats
<1>15. CASE Reply
  BY <1>15 DEF Reply
<1>16. CASE Return
  BY <1>16 DEF Return
<1>17. CASE Destroy
  BY <1>17 DEF Destroy
<1>18. CASE Exit
  BY <1>18 DEF Exit
<1>19. CASE Signal
  <2>1. signals' \in 0 .. MaxSignals
    BY <1>19 DEF Signal
  <2>2. pc' \in [Stoppers -> Places]
    BY <1>19 DEF Signal
  <2>3. QED
    BY <1>19, <2>1, <2>2 DEF Signal
<1>20. ASSUME NEW t \in Stoppers, Wake(t) PROVE TypeOK'
  BY <1>20 DEF Wake
<1>21. ASSUME NEW t \in Stoppers, StopListening(t) PROVE TypeOK'
  BY <1>21 DEF StopListening
<1>22. ASSUME NEW t \in Stoppers, CloseAcceptor(t) PROVE TypeOK'
  BY <1>22 DEF CloseAcceptor
<1>23. ASSUME NEW t \in Stoppers, Acquire(t) PROVE TypeOK'
  BY <1>23 DEF Acquire
<1>24. ASSUME NEW t \in Stoppers, CopySessions(t) PROVE TypeOK'
  BY <1>24 DEF CopySessions
<1>25. ASSUME NEW t \in Stoppers, CloseSessions(t) PROVE TypeOK'
  BY <1>25 DEF CloseSessions
<1>26. ASSUME NEW t \in Stoppers, Halt(t) PROVE TypeOK'
  BY <1>26 DEF Halt
<1>27. ASSUME NEW t \in Stoppers, UseDestroyed(t) PROVE TypeOK'
  BY <1>27 DEF UseDestroyed
<1>28. CASE UNCHANGED vars
  BY <1>28 DEF vars
<1>29. QED
  BY <1>1, <1>2, <1>3, <1>4, <1>5, <1>6, <1>7, <1>8, <1>9, <1>10, <1>11, <1>12, <1>13,
     <1>14, <1>15, <1>16, <1>17, <1>18, <1>19, <1>20, <1>21, <1>22, <1>23, <1>24, <1>25,
     <1>26, <1>27, <1>28 DEF Next, Event, Main, Stop

\* Handlers begin and end with op, and the destructor after them.
LEMMA PhasesStep ==
    ASSUME IInv, [Next]_vars
    PROVE  Phases'
<1> USE ThreadAssumption
<1> USE DEF IInv, Phases, TypeOK, Stoppers,
            Enter, Dispatch, Running, Unlock, At, Go, Ended, mainVars, stopVars
<1>1. ASSUME NEW c \in Clients, Accept(c) PROVE Phases'
  BY <1>1 DEF Accept
<1>2. ASSUME NEW c \in Clients, Disconnect(c) PROVE Phases'
  BY <1>2 DEF Disconnect
<1>3. ASSUME NEW c \in Clients, Command(c) PROVE Phases'
  BY <1>3 DEF Command
<1>4. ASSUME NEW c \in Clients, PerformanceStats(c) PROVE Phases'
  BY <1>4 DEF PerformanceStats
<1>5. ASSUME NEW c \in Clients, Garbled(c) PROVE Phases'
  BY <1>5 DEF Garbled
<1>6. ASSUME NEW c \in Clients, Shutdown(c) PROVE Phases'
  BY <1>6 DEF Shutdown
<1>7. ASSUME NEW c \in Clients, EndlessCd(c) PROVE Phases'
  BY <1>7 DEF EndlessCd
<1>8. CASE Listen
  BY <1>8 DEF Listen
<1>9. CASE ListenFails
  BY <1>9 DEF ListenFails
<1>10. CASE TakeMutex
  BY <1>10 DEF TakeMutex
<1>11. CASE OnOpen
  BY <1>11 DEF OnOpen
<1>12. CASE OnClose
  BY <1>12 DEF OnClose
<1>13. CASE RecordCommandTiming
  BY <1>13 DEF RecordCommandTiming
<1>14. CASE BuildPerformanceStats
  BY <1>14 DEF BuildPerformanceStats
<1>15. CASE Reply
  BY <1>15 DEF Reply
<1>16. CASE Return
  BY <1>16 DEF Return
<1>17. CASE Destroy
  BY <1>17 DEF Destroy
<1>18. CASE Exit
  BY <1>18 DEF Exit
<1>19. CASE Signal
  BY <1>19 DEF Signal
<1>20. ASSUME NEW t \in Stoppers, Wake(t) PROVE Phases'
  BY <1>20 DEF Wake
<1>21. ASSUME NEW t \in Stoppers, StopListening(t) PROVE Phases'
  BY <1>21 DEF StopListening
<1>22. ASSUME NEW t \in Stoppers, CloseAcceptor(t) PROVE Phases'
  BY <1>22 DEF CloseAcceptor
<1>23. ASSUME NEW t \in Stoppers, Acquire(t) PROVE Phases'
  BY <1>23 DEF Acquire
<1>24. ASSUME NEW t \in Stoppers, CopySessions(t) PROVE Phases'
  BY <1>24 DEF CopySessions
<1>25. ASSUME NEW t \in Stoppers, CloseSessions(t) PROVE Phases'
  BY <1>25 DEF CloseSessions
<1>26. ASSUME NEW t \in Stoppers, Halt(t) PROVE Phases'
  BY <1>26 DEF Halt
<1>27. ASSUME NEW t \in Stoppers, UseDestroyed(t) PROVE Phases'
  BY <1>27 DEF UseDestroyed
<1>28. CASE UNCHANGED vars
  BY <1>28 DEF vars
<1>29. QED
  BY <1>1, <1>2, <1>3, <1>4, <1>5, <1>6, <1>7, <1>8, <1>9, <1>10, <1>11, <1>12, <1>13,
     <1>14, <1>15, <1>16, <1>17, <1>18, <1>19, <1>20, <1>21, <1>22, <1>23, <1>24, <1>25,
     <1>26, <1>27, <1>28 DEF Next, Event, Main, Stop

\* Who leaves a critical section gives the mutex back; who enters one found it free.
LEMMA HolderStep ==
    ASSUME IInv, [Next]_vars
    PROVE  Holder'
<1> USE ThreadAssumption
<1> USE DEF IInv, Holder, Phases, TypeOK, Stoppers,
            Enter, Dispatch, Running, Unlock, At, Go, Ended, mainVars, stopVars
<1>1. ASSUME NEW c \in Clients, Accept(c) PROVE Holder'
  BY <1>1 DEF Accept
<1>2. ASSUME NEW c \in Clients, Disconnect(c) PROVE Holder'
  BY <1>2 DEF Disconnect
<1>3. ASSUME NEW c \in Clients, Command(c) PROVE Holder'
  BY <1>3 DEF Command
<1>4. ASSUME NEW c \in Clients, PerformanceStats(c) PROVE Holder'
  BY <1>4 DEF PerformanceStats
<1>5. ASSUME NEW c \in Clients, Garbled(c) PROVE Holder'
  BY <1>5 DEF Garbled
<1>6. ASSUME NEW c \in Clients, Shutdown(c) PROVE Holder'
  BY <1>6 DEF Shutdown
<1>7. ASSUME NEW c \in Clients, EndlessCd(c) PROVE Holder'
  BY <1>7 DEF EndlessCd
<1>8. CASE Listen
  BY <1>8 DEF Listen
<1>9. CASE ListenFails
  BY <1>9 DEF ListenFails
<1>10. CASE TakeMutex
  BY <1>10 DEF TakeMutex
<1>11. CASE OnOpen
  BY <1>11 DEF OnOpen
<1>12. CASE OnClose
  BY <1>12 DEF OnClose
<1>13. CASE RecordCommandTiming
  BY <1>13 DEF RecordCommandTiming
<1>14. CASE BuildPerformanceStats
  BY <1>14 DEF BuildPerformanceStats
<1>15. CASE Reply
  BY <1>15 DEF Reply
<1>16. CASE Return
  BY <1>16 DEF Return
<1>17. CASE Destroy
  BY <1>17 DEF Destroy
<1>18. CASE Exit
  BY <1>18 DEF Exit
<1>19. CASE Signal
  BY <1>19 DEF Signal
<1>20. ASSUME NEW t \in Stoppers, Wake(t) PROVE Holder'
  BY <1>20 DEF Wake
<1>21. ASSUME NEW t \in Stoppers, StopListening(t) PROVE Holder'
  BY <1>21 DEF StopListening
<1>22. ASSUME NEW t \in Stoppers, CloseAcceptor(t) PROVE Holder'
  BY <1>22 DEF CloseAcceptor
<1>23. ASSUME NEW t \in Stoppers, Acquire(t) PROVE Holder'
  BY <1>23 DEF Acquire
<1>24. ASSUME NEW t \in Stoppers, CopySessions(t) PROVE Holder'
  BY <1>24 DEF CopySessions
<1>25. ASSUME NEW t \in Stoppers, CloseSessions(t) PROVE Holder'
  BY <1>25 DEF CloseSessions
<1>26. ASSUME NEW t \in Stoppers, Halt(t) PROVE Holder'
  BY <1>26 DEF Halt
<1>27. ASSUME NEW t \in Stoppers, UseDestroyed(t) PROVE Holder'
  BY <1>27 DEF UseDestroyed
<1>28. CASE UNCHANGED vars
  BY <1>28 DEF vars
<1>29. QED
  BY <1>1, <1>2, <1>3, <1>4, <1>5, <1>6, <1>7, <1>8, <1>9, <1>10, <1>11, <1>12, <1>13,
     <1>14, <1>15, <1>16, <1>17, <1>18, <1>19, <1>20, <1>21, <1>22, <1>23, <1>24, <1>25,
     <1>26, <1>27, <1>28 DEF Next, Event, Main, Stop

\* The copy is made and emptied under the mutex.
LEMMA CopiedStep ==
    ASSUME IInv, [Next]_vars
    PROVE  Copied'
<1> USE ThreadAssumption
<1> USE DEF IInv, Copied, Holder, Phases, TypeOK, Stoppers,
            Enter, Dispatch, Running, Unlock, At, Go, Ended, mainVars, stopVars
<1>1. ASSUME NEW c \in Clients, Accept(c) PROVE Copied'
  BY <1>1 DEF Accept
<1>2. ASSUME NEW c \in Clients, Disconnect(c) PROVE Copied'
  BY <1>2 DEF Disconnect
<1>3. ASSUME NEW c \in Clients, Command(c) PROVE Copied'
  BY <1>3 DEF Command
<1>4. ASSUME NEW c \in Clients, PerformanceStats(c) PROVE Copied'
  BY <1>4 DEF PerformanceStats
<1>5. ASSUME NEW c \in Clients, Garbled(c) PROVE Copied'
  BY <1>5 DEF Garbled
<1>6. ASSUME NEW c \in Clients, Shutdown(c) PROVE Copied'
  BY <1>6 DEF Shutdown
<1>7. ASSUME NEW c \in Clients, EndlessCd(c) PROVE Copied'
  BY <1>7 DEF EndlessCd
<1>8. CASE Listen
  BY <1>8 DEF Listen
<1>9. CASE ListenFails
  BY <1>9 DEF ListenFails
<1>10. CASE TakeMutex
  BY <1>10 DEF TakeMutex
<1>11. CASE OnOpen
  BY <1>11 DEF OnOpen
<1>12. CASE OnClose
  BY <1>12 DEF OnClose
<1>13. CASE RecordCommandTiming
  BY <1>13 DEF RecordCommandTiming
<1>14. CASE BuildPerformanceStats
  BY <1>14 DEF BuildPerformanceStats
<1>15. CASE Reply
  BY <1>15 DEF Reply
<1>16. CASE Return
  BY <1>16 DEF Return
<1>17. CASE Destroy
  BY <1>17 DEF Destroy
<1>18. CASE Exit
  BY <1>18 DEF Exit
<1>19. CASE Signal
  BY <1>19 DEF Signal
<1>20. ASSUME NEW t \in Stoppers, Wake(t) PROVE Copied'
  BY <1>20 DEF Wake
<1>21. ASSUME NEW t \in Stoppers, StopListening(t) PROVE Copied'
  BY <1>21 DEF StopListening
<1>22. ASSUME NEW t \in Stoppers, CloseAcceptor(t) PROVE Copied'
  BY <1>22 DEF CloseAcceptor
<1>23. ASSUME NEW t \in Stoppers, Acquire(t) PROVE Copied'
  BY <1>23 DEF Acquire
<1>24. ASSUME NEW t \in Stoppers, CopySessions(t) PROVE Copied'
  BY <1>24 DEF CopySessions
<1>25. ASSUME NEW t \in Stoppers, CloseSessions(t) PROVE Copied'
  BY <1>25 DEF CloseSessions
<1>26. ASSUME NEW t \in Stoppers, Halt(t) PROVE Copied'
  BY <1>26 DEF Halt
<1>27. ASSUME NEW t \in Stoppers, UseDestroyed(t) PROVE Copied'
  BY <1>27 DEF UseDestroyed
<1>28. CASE UNCHANGED vars
  BY <1>28 DEF vars
<1>29. QED
  BY <1>1, <1>2, <1>3, <1>4, <1>5, <1>6, <1>7, <1>8, <1>9, <1>10, <1>11, <1>12, <1>13,
     <1>14, <1>15, <1>16, <1>17, <1>18, <1>19, <1>20, <1>21, <1>22, <1>23, <1>24, <1>25,
     <1>26, <1>27, <1>28 DEF Next, Event, Main, Stop

\* A connection that stop() has copied is closed before any handler can change it
\* again, because the handlers wait for the mutex.
LEMMA TakenStep ==
    ASSUME IInv, [Next]_vars
    PROVE  Taken'
<1> USE ThreadAssumption, ClientAssumption
<1> USE DEF IInv, Taken, Copied, Holder, Phases, SessionsExact, Pending, Closing, TypeOK,
            Enter, Dispatch, Running, Unlock, At, Go, Ended, mainVars, stopVars
<1>1. ASSUME NEW c \in Clients, Accept(c) PROVE Taken'
  BY <1>1 DEF Accept
<1>2. ASSUME NEW c \in Clients, Disconnect(c) PROVE Taken'
  BY <1>2 DEF Disconnect
<1>3. ASSUME NEW c \in Clients, Command(c) PROVE Taken'
  BY <1>3 DEF Command
<1>4. ASSUME NEW c \in Clients, PerformanceStats(c) PROVE Taken'
  BY <1>4 DEF PerformanceStats
<1>5. ASSUME NEW c \in Clients, Garbled(c) PROVE Taken'
  BY <1>5 DEF Garbled
<1>6. ASSUME NEW c \in Clients, Shutdown(c) PROVE Taken'
  BY <1>6 DEF Shutdown
<1>7. ASSUME NEW c \in Clients, EndlessCd(c) PROVE Taken'
  BY <1>7 DEF EndlessCd
<1>8. CASE Listen
  BY <1>8 DEF Listen
<1>9. CASE ListenFails
  BY <1>9 DEF ListenFails
<1>10. CASE TakeMutex
  BY <1>10 DEF TakeMutex
<1>11. CASE OnOpen
  BY <1>11 DEF OnOpen
<1>12. CASE OnClose
  BY <1>12 DEF OnClose
<1>13. CASE RecordCommandTiming
  BY <1>13 DEF RecordCommandTiming
<1>14. CASE BuildPerformanceStats
  BY <1>14 DEF BuildPerformanceStats
<1>15. CASE Reply
  BY <1>15 DEF Reply
<1>16. CASE Return
  BY <1>16 DEF Return
<1>17. CASE Destroy
  BY <1>17 DEF Destroy
<1>18. CASE Exit
  BY <1>18 DEF Exit
<1>19. CASE Signal
  BY <1>19 DEF Signal
<1>20. ASSUME NEW t \in Stoppers, Wake(t) PROVE Taken'
  BY <1>20 DEF Wake
<1>21. ASSUME NEW t \in Stoppers, StopListening(t) PROVE Taken'
  BY <1>21 DEF StopListening
<1>22. ASSUME NEW t \in Stoppers, CloseAcceptor(t) PROVE Taken'
  BY <1>22 DEF CloseAcceptor
<1>23. ASSUME NEW t \in Stoppers, Acquire(t) PROVE Taken'
  BY <1>23 DEF Acquire
<1>24. ASSUME NEW t \in Stoppers, CopySessions(t) PROVE Taken'
  BY <1>24 DEF CopySessions
<1>25. ASSUME NEW t \in Stoppers, CloseSessions(t) PROVE Taken'
  BY <1>25 DEF CloseSessions
<1>26. ASSUME NEW t \in Stoppers, Halt(t) PROVE Taken'
  BY <1>26 DEF Halt
<1>27. ASSUME NEW t \in Stoppers, UseDestroyed(t) PROVE Taken'
  BY <1>27 DEF UseDestroyed
<1>28. CASE UNCHANGED vars
  BY <1>28 DEF vars
<1>29. QED
  BY <1>1, <1>2, <1>3, <1>4, <1>5, <1>6, <1>7, <1>8, <1>9, <1>10, <1>11, <1>12, <1>13,
     <1>14, <1>15, <1>16, <1>17, <1>18, <1>19, <1>20, <1>21, <1>22, <1>23, <1>24, <1>25,
     <1>26, <1>27, <1>28 DEF Next, Event, Main, Stop

\* Each handler brings the session of its connection in step.
LEMMA SessionsStep ==
    ASSUME IInv, [Next]_vars
    PROVE  SessionsExact'
<1> USE ThreadAssumption, ClientAssumption
<1> USE DEF IInv, Taken, Copied, Holder, Phases, SessionsExact, Pending, Closing, TypeOK,
            Enter, Dispatch, Running, Unlock, At, Go, Ended, mainVars, stopVars
<1>1. ASSUME NEW c \in Clients, Accept(c) PROVE SessionsExact'
  BY <1>1 DEF Accept
<1>2. ASSUME NEW c \in Clients, Disconnect(c) PROVE SessionsExact'
  BY <1>2 DEF Disconnect
<1>3. ASSUME NEW c \in Clients, Command(c) PROVE SessionsExact'
  BY <1>3 DEF Command
<1>4. ASSUME NEW c \in Clients, PerformanceStats(c) PROVE SessionsExact'
  BY <1>4 DEF PerformanceStats
<1>5. ASSUME NEW c \in Clients, Garbled(c) PROVE SessionsExact'
  BY <1>5 DEF Garbled
<1>6. ASSUME NEW c \in Clients, Shutdown(c) PROVE SessionsExact'
  BY <1>6 DEF Shutdown
<1>7. ASSUME NEW c \in Clients, EndlessCd(c) PROVE SessionsExact'
  BY <1>7 DEF EndlessCd
<1>8. CASE Listen
  BY <1>8 DEF Listen
<1>9. CASE ListenFails
  BY <1>9 DEF ListenFails
<1>10. CASE TakeMutex
  BY <1>10 DEF TakeMutex
<1>11. CASE OnOpen
  BY <1>11 DEF OnOpen
<1>12. CASE OnClose
  BY <1>12 DEF OnClose
<1>13. CASE RecordCommandTiming
  BY <1>13 DEF RecordCommandTiming
<1>14. CASE BuildPerformanceStats
  BY <1>14 DEF BuildPerformanceStats
<1>15. CASE Reply
  BY <1>15 DEF Reply
<1>16. CASE Return
  BY <1>16 DEF Return
<1>17. CASE Destroy
  BY <1>17 DEF Destroy
<1>18. CASE Exit
  BY <1>18 DEF Exit
<1>19. CASE Signal
  BY <1>19 DEF Signal
<1>20. ASSUME NEW t \in Stoppers, Wake(t) PROVE SessionsExact'
  BY <1>20 DEF Wake
<1>21. ASSUME NEW t \in Stoppers, StopListening(t) PROVE SessionsExact'
  BY <1>21 DEF StopListening
<1>22. ASSUME NEW t \in Stoppers, CloseAcceptor(t) PROVE SessionsExact'
  BY <1>22 DEF CloseAcceptor
<1>23. ASSUME NEW t \in Stoppers, Acquire(t) PROVE SessionsExact'
  BY <1>23 DEF Acquire
<1>24. ASSUME NEW t \in Stoppers, CopySessions(t) PROVE SessionsExact'
  BY <1>24 DEF CopySessions
<1>25. ASSUME NEW t \in Stoppers, CloseSessions(t) PROVE SessionsExact'
  BY <1>25 DEF CloseSessions
<1>26. ASSUME NEW t \in Stoppers, Halt(t) PROVE SessionsExact'
  BY <1>26 DEF Halt
<1>27. ASSUME NEW t \in Stoppers, UseDestroyed(t) PROVE SessionsExact'
  BY <1>27 DEF UseDestroyed
<1>28. CASE UNCHANGED vars
  BY <1>28 DEF vars
<1>29. QED
  BY <1>1, <1>2, <1>3, <1>4, <1>5, <1>6, <1>7, <1>8, <1>9, <1>10, <1>11, <1>12, <1>13,
     <1>14, <1>15, <1>16, <1>17, <1>18, <1>19, <1>20, <1>21, <1>22, <1>23, <1>24, <1>25,
     <1>26, <1>27, <1>28 DEF Next, Event, Main, Stop

LEMMA NextInv == IInv /\ [Next]_vars => IInv'
  BY TypeStep, PhasesStep, HolderStep, CopiedStep, TakenStep, SessionsStep DEF IInv

\* What every reachable state of the server satisfies.
THEOREM Invariance == Spec => []IInv
  BY InitInv, NextInv, PTL DEF Spec

\* The threads are where the model says, and no more timing records are kept than
\* the limit.
THEOREM TypeCorrect == Spec => []TypeOK
<1>1. IInv => TypeOK
  BY DEF IInv
<1>2. QED
  BY Invariance, <1>1, PTL

\* m_sessions agrees with the open connections, whatever on_open, on_close and the
\* calls of stop() do to each other.
THEOREM SessionsAlwaysExact == Spec => []SessionsExact
<1>1. IInv => SessionsExact
  BY DEF IInv
<1>2. QED
  BY Invariance, <1>1, PTL

\* At most one thread is in a critical section of m_mutex.
MutualExclusion ==
    alive => \A t, u \in Stoppers :
        /\ pc[t] \in {"drain", "close"} => at # "locked"
        /\ pc[t] \in {"drain", "close"} /\ pc[u] \in {"drain", "close"} => t = u

THEOREM MutexExcludes == Spec => []MutualExclusion
<1>1. IInv => MutualExclusion
  BY ThreadAssumption DEF IInv, Holder, MutualExclusion
<1>2. QED
  BY Invariance, <1>1, PTL

\* The server is destroyed outside of every stop() of the main thread.
THEOREM OnlyWorkersStay == Spec => OnlyWorkersOutlive
<1> DEFINE Outside == alive /\ ~alive' => /\ m_mutex \in Workers \cup {FREE}
                                          /\ \A t \in Stoppers \ Workers : pc[t] \in {"off", "done"}
<1>1. ASSUME IInv, [Next]_vars PROVE Outside \/ UNCHANGED vars
  <2>1. CASE Destroy
    BY <1>1, <2>1, ThreadAssumption DEF IInv, TypeOK, Holder, Phases, Destroy, Running, Stoppers
  <2>2. CASE ~Destroy
    <3>1. alive' = alive \/ UNCHANGED vars
      BY <1>1, <2>2
      DEF Next, Event, Main, Stop, Accept, Disconnect, Command, PerformanceStats,
         Garbled, Shutdown, EndlessCd, Enter, Listen, ListenFails, TakeMutex, OnOpen, OnClose,
         RecordCommandTiming, BuildPerformanceStats, Unlock, Reply, Return, Exit, Signal,
         Wake, StopListening, CloseAcceptor, Acquire, CopySessions, CloseSessions, Halt,
         UseDestroyed, Go, stopVars, mainVars
    <3>2. QED
      BY <3>1
  <2>3. QED
    BY <2>1, <2>2
<1>2. IInv /\ [Next]_vars => [Outside]_vars
  BY <1>1
<1>3. QED
  BY Invariance, <1>2, PTL DEF Spec, OnlyWorkersOutlive
===============================================================================
