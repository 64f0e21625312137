--------------------------- MODULE FtpServer_proofs ---------------------------
(***************************************************************************)
(* The server's sessions are accounted for, with any number of connections *)
(* and of threads that call stop().                                        *)
(*                                                                         *)
(* Every action preserves the five parts of IInv.  The one that carries the*)
(* argument is RegistryInv: once start() has taken its last snapshot no one*)
(* registers any more, so what is registered is in that snapshot; and a    *)
(* session's own thread always passes through unregister_client before it  *)
(* ends, whoever else has cleaned the session up before.                   *)
(***************************************************************************)
EXTENDS FtpServer, TLAPS

\* The process starts with no session.
LEMMA InitInv == Init => IInv
<1> USE AgentsAssumption DEF Agents, Threads, StartPlaces, StopPlaces, CleanupPlaces,
        SessionPlaces
<1> SUFFICES ASSUME Init PROVE IInv
  OBVIOUS
<1>1. TypeOK
  BY DEF Init, TypeOK
<1>2. PlaceInv
  BY DEF Init, PlaceInv, Critical
<1>3. SessionInv
  BY DEF Init, SessionInv
<1>4. RegistryInv
  BY DEF Init, RegistryInv
<1>5. OpenInv
  BY DEF Init, OpenInv
<1> QED
  BY <1>1, <1>2, <1>3, <1>4, <1>5 DEF IInv

-----------------------------------------------------------------------------
(* start *)

\* The listening socket exists.
LEMMA OpenListenerStep ==
    ASSUME IInv, OpenListener
    PROVE  IInv'
<1> USE AgentsAssumption DEF IInv, Agents, Threads, OpenListener, Goes, serverVars,
        stopVars, StartPlaces, StopPlaces, CleanupPlaces, SessionPlaces
<1>1. TypeOK'
  BY DEF TypeOK
<1>2. PlaceInv'
  BY DEF PlaceInv, Critical
<1>3. SessionInv'
  BY DEF SessionInv
<1>4. RegistryInv'
  BY DEF RegistryInv
<1>5. OpenInv'
  BY DEF OpenInv, Closing, Victim
<1> QED
  BY <1>1, <1>2, <1>3, <1>4, <1>5

\* bind or listen raises.
LEMMA ListenFailsStep ==
    ASSUME IInv, ListenFails
    PROVE  IInv'
<1> USE AgentsAssumption DEF IInv, Agents, Threads, ListenFails, Goes, serverVars,
        stopVars, StartPlaces, StopPlaces, CleanupPlaces, SessionPlaces
<1>1. TypeOK'
  BY DEF TypeOK
<1>2. PlaceInv'
  BY DEF PlaceInv, Critical
<1>3. SessionInv'
  BY DEF SessionInv
<1>4. RegistryInv'
  BY DEF RegistryInv
<1>5. OpenInv'
  BY DEF OpenInv, Closing, Victim
<1> QED
  BY <1>1, <1>2, <1>3, <1>4, <1>5

\* is_running is written.
LEMMA SetRunningStep ==
    ASSUME IInv, SetRunning
    PROVE  IInv'
<1> USE AgentsAssumption DEF IInv, Agents, Threads, SetRunning, Goes, serverVars,
        stopVars, StartPlaces, StopPlaces, CleanupPlaces, SessionPlaces
<1>1. TypeOK'
  BY DEF TypeOK
<1>2. PlaceInv'
  BY DEF PlaceInv, Critical
<1>3. SessionInv'
  BY DEF SessionInv
<1>4. RegistryInv'
  BY DEF RegistryInv
<1>5. OpenInv'
  BY DEF OpenInv, Closing, Victim
<1> QED
  BY <1>1, <1>2, <1>3, <1>4, <1>5

\* The loop goes on, or its end is start()'s own stop().
LEMMA TestRunningStep ==
    ASSUME IInv, TestRunning
    PROVE  IInv'
<1> USE AgentsAssumption DEF IInv, Agents, Threads, TestRunning, Goes,
        AfterAcceptError, AfterLoop, serverVars, stopVars, StartPlaces, StopPlaces,
        CleanupPlaces, SessionPlaces
<1>1. TypeOK'
  BY DEF TypeOK
<1>2. PlaceInv'
  BY DEF TypeOK, PlaceInv, Critical
<1>3. SessionInv'
  BY DEF TypeOK, SessionInv
<1>4. RegistryInv'
  BY DEF TypeOK, RegistryInv
<1>5. OpenInv'
  BY DEF TypeOK, OpenInv, Closing, Victim
<1> QED
  BY <1>1, <1>2, <1>3, <1>4, <1>5

\* accept() times out.
LEMMA AcceptTimeoutStep ==
    ASSUME IInv, AcceptTimeout
    PROVE  IInv'
<1> USE AgentsAssumption DEF IInv, Agents, Threads, AcceptTimeout, Goes, serverVars,
        stopVars, StartPlaces, StopPlaces, CleanupPlaces, SessionPlaces
<1>1. TypeOK'
  BY DEF TypeOK
<1>2. PlaceInv'
  BY DEF PlaceInv, Critical
<1>3. SessionInv'
  BY DEF SessionInv
<1>4. RegistryInv'
  BY DEF RegistryInv
<1>5. OpenInv'
  BY DEF OpenInv, Closing, Victim
<1> QED
  BY <1>1, <1>2, <1>3, <1>4, <1>5

\* accept() raises.
LEMMA AcceptFailsStep ==
    ASSUME IInv, AcceptFails
    PROVE  IInv'
<1> USE AgentsAssumption DEF IInv, Agents, Threads, AcceptFails, Goes,
        AfterAcceptError, serverVars, stopVars, StartPlaces, StopPlaces,
        CleanupPlaces, SessionPlaces
<1>1. TypeOK'
  BY DEF TypeOK
<1>2. PlaceInv'
  BY DEF PlaceInv, Critical
<1>3. SessionInv'
  BY DEF SessionInv
<1>4. RegistryInv'
  BY DEF RegistryInv
<1>5. OpenInv'
  BY DEF OpenInv, Closing, Victim
<1> QED
  BY <1>1, <1>2, <1>3, <1>4, <1>5

\* A connection comes: its session is in start()'s hands only.
LEMMA AcceptStep ==
    ASSUME IInv, NEW c \in Clients, Accept(c)
    PROVE  IInv'
<1> USE AgentsAssumption DEF IInv, Agents, Threads, Accept, serverVars, stopVars,
        StartPlaces, StopPlaces, CleanupPlaces, SessionPlaces
<1>1. TypeOK'
  BY DEF TypeOK
<1>2. PlaceInv'
  BY DEF TypeOK, PlaceInv, Critical
<1>3. SessionInv'
  BY DEF TypeOK, SessionInv
<1>4. RegistryInv'
  BY DEF TypeOK, RegistryInv
<1>5. OpenInv'
  BY DEF TypeOK, PlaceInv, SessionInv, OpenInv, Closing, Victim
<1> QED
  BY <1>1, <1>2, <1>3, <1>4, <1>5

\* register_client: from here on a stop() may clean the session up.
LEMMA RegisterStep ==
    ASSUME IInv, Register
    PROVE  IInv'
<1> USE AgentsAssumption DEF IInv, Agents, Threads, Register, Goes, serverVars,
        stopVars, StartPlaces, StopPlaces, CleanupPlaces, SessionPlaces
<1>1. TypeOK'
  BY DEF TypeOK, SessionInv
<1>2. PlaceInv'
  BY DEF TypeOK, PlaceInv, Critical
<1>3. SessionInv'
  BY DEF SessionInv
<1>4. RegistryInv'
  BY DEF TypeOK, PlaceInv, SessionInv, RegistryInv
<1>5. OpenInv'
  BY DEF OpenInv, Closing, Victim
<1> QED
  BY <1>1, <1>2, <1>3, <1>4, <1>5

\* The session's thread starts, its session cleaned up before or not.
LEMMA StartHandlerStep ==
    ASSUME IInv, StartHandler
    PROVE  IInv'
<1> USE AgentsAssumption DEF IInv, Agents, Threads, StartHandler, serverVars,
        stopVars, StartPlaces, StopPlaces, CleanupPlaces, SessionPlaces
<1>1. TypeOK'
  BY DEF TypeOK
<1>2. PlaceInv'
  BY DEF TypeOK, PlaceInv, SessionInv, Critical
<1>3. SessionInv'
  BY DEF TypeOK, SessionInv
<1>4. RegistryInv'
  BY DEF TypeOK, RegistryInv
<1>5. OpenInv'
  BY DEF TypeOK, PlaceInv, SessionInv, OpenInv, Closing, Victim
<1> QED
  BY <1>1, <1>2, <1>3, <1>4, <1>5

\* No thread can be made: the session stays registered.
LEMMA StartFailsStep ==
    ASSUME IInv, StartFails
    PROVE  IInv'
<1> USE AgentsAssumption DEF IInv, Agents, Threads, StartFails, Goes, serverVars,
        stopVars, StartPlaces, StopPlaces, CleanupPlaces, SessionPlaces
<1>1. TypeOK'
  BY DEF TypeOK
<1>2. PlaceInv'
  BY DEF PlaceInv, Critical
<1>3. SessionInv'
  BY DEF TypeOK, SessionInv
<1>4. RegistryInv'
  BY DEF RegistryInv
<1>5. OpenInv'
  BY DEF OpenInv, Closing, Victim
<1> QED
  BY <1>1, <1>2, <1>3, <1>4, <1>5

\* KeyboardInterrupt in start(): a session not yet registered is dropped.
LEMMA InterruptStep ==
    ASSUME IInv, Interrupt
    PROVE  IInv'
<1> USE AgentsAssumption DEF IInv, Agents, Threads, Interrupt, Goes, serverVars,
        stopVars, StartPlaces, StopPlaces, CleanupPlaces, SessionPlaces
<1>1. TypeOK'
  BY DEF TypeOK
<1>2. PlaceInv'
  BY DEF TypeOK, PlaceInv, Critical
<1>3. SessionInv'
  BY DEF TypeOK, SessionInv
<1>4. RegistryInv'
  BY DEF RegistryInv
<1>5. OpenInv'
  BY DEF OpenInv, Closing, Victim
<1> QED
  BY <1>1, <1>2, <1>3, <1>4, <1>5

-----------------------------------------------------------------------------
(* stop *)

\* Another thread calls stop().
LEMMA CallStopStep ==
    ASSUME IInv, NEW t \in Stoppers, CallStop(t)
    PROVE  IInv'
<1> USE AgentsAssumption DEF IInv, Agents, Threads, CallStop, Goes, serverVars,
        stopVars, StartPlaces, StopPlaces, CleanupPlaces, SessionPlaces
<1>1. TypeOK'
  BY DEF TypeOK
<1>2. PlaceInv'
  BY DEF PlaceInv, Critical
<1>3. SessionInv'
  BY DEF SessionInv
<1>4. RegistryInv'
  BY DEF RegistryInv
<1>5. OpenInv'
  BY DEF OpenInv, Closing, Victim
<1> QED
  BY <1>1, <1>2, <1>3, <1>4, <1>5

\* is_running is cleared.
LEMMA StopFlagStep ==
    ASSUME IInv, NEW t \in Threads, StopFlag(t)
    PROVE  IInv'
<1> USE AgentsAssumption DEF IInv, Agents, Threads, StopFlag, Goes, serverVars,
        stopVars, StartPlaces, StopPlaces, CleanupPlaces, SessionPlaces
<1>1. TypeOK'
  BY DEF TypeOK
<1>2. PlaceInv'
  BY DEF PlaceInv, Critical
<1>3. SessionInv'
  BY DEF SessionInv
<1>4. RegistryInv'
  BY DEF RegistryInv
<1>5. OpenInv'
  BY DEF OpenInv, Closing, Victim
<1> QED
  BY <1>1, <1>2, <1>3, <1>4, <1>5

\* The listener is closed.
LEMMA StopListenerStep ==
    ASSUME IInv, NEW t \in Threads, StopListener(t)
    PROVE  IInv'
<1> USE AgentsAssumption DEF IInv, Agents, Threads, StopListener, Goes, serverVars,
        stopVars, StartPlaces, StopPlaces, CleanupPlaces, SessionPlaces
<1>1. TypeOK'
  BY DEF TypeOK
<1>2. PlaceInv'
  BY DEF PlaceInv, Critical
<1>3. SessionInv'
  BY DEF SessionInv
<1>4. RegistryInv'
  BY DEF RegistryInv
<1>5. OpenInv'
  BY DEF OpenInv, Closing, Victim
<1> QED
  BY <1>1, <1>2, <1>3, <1>4, <1>5

\* The snapshot of start()'s own stop() has all that is registered.
LEMMA SnapshotStep ==
    ASSUME IInv, NEW t \in Threads, Snapshot(t)
    PROVE  IInv'
<1> USE AgentsAssumption DEF IInv, Agents, Threads, Snapshot, Goes,
        OwnerAfterSnapshot, serverVars, stopVars, StartPlaces, StopPlaces,
        CleanupPlaces, SessionPlaces
<1>1. TypeOK'
  BY DEF TypeOK
<1>2. PlaceInv'
  BY DEF TypeOK, PlaceInv, Critical
<1>3. SessionInv'
  BY DEF SessionInv
<1>4. RegistryInv'
  BY DEF TypeOK, RegistryInv
<1>5. OpenInv'
  BY DEF OpenInv, Closing, Victim
<1> QED
  BY <1>1, <1>2, <1>3, <1>4, <1>5

\* The next session of the snapshot.
LEMMA StopNextStep ==
    ASSUME IInv, NEW t \in Threads, StopNext(t)
    PROVE  IInv'
<1> USE AgentsAssumption DEF IInv, Agents, Threads, StopNext, Goes, serverVars,
        stopVars, StartPlaces, StopPlaces, CleanupPlaces, SessionPlaces
<1>1. TypeOK'
  BY DEF TypeOK
<1>2. PlaceInv'
  BY DEF PlaceInv, Critical
<1>3. SessionInv'
  BY DEF TypeOK, SessionInv
<1>4. RegistryInv'
  BY DEF TypeOK, PlaceInv, SessionInv, RegistryInv
<1>5. OpenInv'
  BY DEF OpenInv, Closing, Victim
<1> QED
  BY <1>1, <1>2, <1>3, <1>4, <1>5

\* The snapshot is used up.
LEMMA StopReturnStep ==
    ASSUME IInv, NEW t \in Threads, StopReturn(t)
    PROVE  IInv'
<1> USE AgentsAssumption DEF IInv, Agents, Threads, StopReturn, Goes, serverVars,
        stopVars, StartPlaces, StopPlaces, CleanupPlaces, SessionPlaces
<1>1. TypeOK'
  BY DEF TypeOK
<1>2. PlaceInv'
  BY DEF PlaceInv, Critical
<1>3. SessionInv'
  BY DEF SessionInv
<1>4. RegistryInv'
  BY DEF RegistryInv
<1>5. OpenInv'
  BY DEF OpenInv, Closing, Victim
<1> QED
  BY <1>1, <1>2, <1>3, <1>4, <1>5

-----------------------------------------------------------------------------
(* The critical sections and cleanup *)

\* clients_lock is taken.
LEMMA AcquireStep ==
    ASSUME IInv, NEW a \in Agents, Acquire(a)
    PROVE  IInv'
<1> USE AgentsAssumption DEF IInv, Agents, Threads, Acquire, Goes, serverVars,
        stopVars, StartPlaces, StopPlaces, CleanupPlaces, SessionPlaces
<1>1. TypeOK'
  BY DEF TypeOK
<1>2. PlaceInv'
  BY DEF TypeOK, PlaceInv, Critical
<1>3. SessionInv'
  BY DEF TypeOK, SessionInv
<1>4. RegistryInv'
  BY DEF TypeOK, RegistryInv
<1>5. OpenInv'
  BY DEF TypeOK, OpenInv, Closing, Victim
<1> QED
  BY <1>1, <1>2, <1>3, <1>4, <1>5

\* A session leaves the registry, on its way to be closed.
LEMMA UnregisterStep ==
    ASSUME IInv, NEW a \in Agents, Unregister(a)
    PROVE  IInv'
<1> USE AgentsAssumption DEF IInv, Agents, Threads, Unregister, Goes, serverVars,
        stopVars, StartPlaces, StopPlaces, CleanupPlaces, SessionPlaces
<1>1. TypeOK'
  BY DEF TypeOK
<1>2. PlaceInv'
  BY DEF TypeOK, PlaceInv, Critical
<1>3. SessionInv'
  BY DEF SessionInv
<1>4. RegistryInv'
  BY DEF TypeOK, PlaceInv, SessionInv, RegistryInv, Victim
<1>5. OpenInv'
  BY DEF TypeOK, OpenInv, Closing, Victim
<1> QED
  BY <1>1, <1>2, <1>3, <1>4, <1>5

\* Its control socket is closed.
LEMMA CloseControlStep ==
    ASSUME IInv, NEW a \in Agents, CloseControl(a)
    PROVE  IInv'
<1> USE AgentsAssumption DEF IInv, Agents, Threads, CloseControl, Goes, AfterClose,
        serverVars, stopVars, StartPlaces, StopPlaces, CleanupPlaces, SessionPlaces
<1>1. TypeOK'
  BY DEF TypeOK, SessionInv
<1>2. PlaceInv'
  BY DEF PlaceInv, Critical
<1>3. SessionInv'
  BY DEF TypeOK, PlaceInv, SessionInv, Victim
<1>4. RegistryInv'
  BY DEF TypeOK, RegistryInv
<1>5. OpenInv'
  BY DEF TypeOK, OpenInv, Closing, Victim
<1> QED
  BY <1>1, <1>2, <1>3, <1>4, <1>5

-----------------------------------------------------------------------------
(* ClientHandler.run *)

\* recv() waits, or raises on a closed socket.
LEMMA CallRecvStep ==
    ASSUME IInv, NEW c \in Clients, CallRecv(c)
    PROVE  IInv'
<1> USE AgentsAssumption DEF IInv, Agents, Threads, CallRecv, Goes, serverVars,
        stopVars, StartPlaces, StopPlaces, CleanupPlaces, SessionPlaces
<1>1. TypeOK'
  BY DEF TypeOK
<1>2. PlaceInv'
  BY DEF PlaceInv, Critical
<1>3. SessionInv'
  BY DEF SessionInv
<1>4. RegistryInv'
  BY DEF RegistryInv
<1>5. OpenInv'
  BY DEF OpenInv, Closing, Victim
<1> QED
  BY <1>1, <1>2, <1>3, <1>4, <1>5

\* recv() returns commands.
LEMMA RecvDataStep ==
    ASSUME IInv, NEW c \in Clients, RecvData(c)
    PROVE  IInv'
<1> USE AgentsAssumption DEF IInv, Agents, Threads, RecvData, Goes, serverVars,
        stopVars, StartPlaces, StopPlaces, CleanupPlaces, SessionPlaces
<1>1. TypeOK'
  BY DEF TypeOK
<1>2. PlaceInv'
  BY DEF PlaceInv, Critical
<1>3. SessionInv'
  BY DEF SessionInv
<1>4. RegistryInv'
  BY DEF RegistryInv
<1>5. OpenInv'
  BY DEF OpenInv, Closing, Victim
<1> QED
  BY <1>1, <1>2, <1>3, <1>4, <1>5

\* recv() returns nothing.
LEMMA RecvEofStep ==
    ASSUME IInv, NEW c \in Clients, RecvEof(c)
    PROVE  IInv'
<1> USE AgentsAssumption DEF IInv, Agents, Threads, RecvEof, Goes, AfterEof,
        serverVars, stopVars, StartPlaces, StopPlaces, CleanupPlaces, SessionPlaces
<1>1. TypeOK'
  BY DEF TypeOK
<1>2. PlaceInv'
  BY DEF PlaceInv, Critical
<1>3. SessionInv'
  BY DEF SessionInv
<1>4. RegistryInv'
  BY DEF RegistryInv
<1>5. OpenInv'
  BY DEF OpenInv, Closing, Victim
<1> QED
  BY <1>1, <1>2, <1>3, <1>4, <1>5

\* The commands have been handled.
LEMMA ServeStep ==
    ASSUME IInv, NEW c \in Clients, Serve(c)
    PROVE  IInv'
<1> USE AgentsAssumption DEF IInv, Agents, Threads, Serve, Goes, AfterQuit,
        serverVars, stopVars, StartPlaces, StopPlaces, CleanupPlaces, SessionPlaces
<1>1. TypeOK'
  BY DEF TypeOK
<1>2. PlaceInv'
  BY DEF TypeOK, PlaceInv, Critical
<1>3. SessionInv'
  BY DEF TypeOK, SessionInv
<1>4. RegistryInv'
  BY DEF TypeOK, RegistryInv
<1>5. OpenInv'
  BY DEF TypeOK, OpenInv, Closing, Victim
<1> QED
  BY <1>1, <1>2, <1>3, <1>4, <1>5

\* The peer has gone.
LEMMA ClientGoesStep ==
    ASSUME IInv, NEW c \in Clients, ClientGoes(c)
    PROVE  IInv'
<1> USE AgentsAssumption DEF IInv, Agents, Threads, ClientGoes, serverVars, stopVars,
        StartPlaces, StopPlaces, CleanupPlaces, SessionPlaces
<1>1. TypeOK'
  BY DEF TypeOK
<1>2. PlaceInv'
  BY DEF PlaceInv
<1>3. SessionInv'
  BY DEF SessionInv
<1>4. RegistryInv'
  BY DEF RegistryInv
<1>5. OpenInv'
  BY DEF OpenInv, Closing, Victim
<1> QED
  BY <1>1, <1>2, <1>3, <1>4, <1>5

-----------------------------------------------------------------------------
\* Every step of start().
LEMMA StartSteps ==
    ASSUME IInv, AcceptorStep \/ ListenFails \/ AcceptFails \/ StartFails \/ Interrupt
    PROVE  IInv'
  BY OpenListenerStep, ListenFailsStep, SetRunningStep, TestRunningStep, AcceptTimeoutStep,
     AcceptFailsStep, AcceptStep, RegisterStep, StartHandlerStep, StartFailsStep,
     InterruptStep DEF AcceptorStep

\* Every step of a stop(), its cleanups included.
LEMMA StopSteps ==
    ASSUME IInv, NEW t \in Threads, StopStep(t)
    PROVE  IInv'
  BY StopFlagStep, StopListenerStep, SnapshotStep, StopNextStep, StopReturnStep,
     AcquireStep, UnregisterStep, CloseControlStep DEF StopStep, CleanupStep, Agents

\* Every step of a session's thread, its cleanup included.
LEMMA SessionSteps ==
    ASSUME IInv, NEW c \in Clients, SessionStep(c) \/ RecvData(c) \/ ClientGoes(c)
    PROVE  IInv'
  BY CallRecvStep, RecvDataStep, RecvEofStep, ServeStep, ClientGoesStep,
     AcquireStep, UnregisterStep, CloseControlStep DEF SessionStep, CleanupStep, Agents

\* No step, and no stuttering, breaks the invariant.
LEMMA NextInv == IInv /\ [Next]_vars => IInv'
<1> SUFFICES ASSUME IInv, [Next]_vars PROVE IInv'
  OBVIOUS
<1>1. CASE AcceptorStep \/ ListenFails \/ AcceptFails \/ StartFails \/ Interrupt
  BY <1>1, StartSteps
<1>2. CASE Acquire(Acceptor)
  BY <1>2, AcquireStep DEF Agents, Threads
<1>3. ASSUME NEW t \in Stoppers, CallStop(t) PROVE IInv'
  BY <1>3, CallStopStep
<1>4. ASSUME NEW t \in Threads, StopStep(t) PROVE IInv'
  BY <1>4, StopSteps
<1>5. ASSUME NEW c \in Clients, SessionStep(c) \/ RecvData(c) \/ ClientGoes(c) PROVE IInv'
  BY <1>5, SessionSteps
<1>6. CASE UNCHANGED vars
  BY <1>6 DEF vars, serverVars, stopVars, IInv, TypeOK, PlaceInv, SessionInv, RegistryInv,
     OpenInv, Closing, Victim
<1> QED
  BY <1>1, <1>2, <1>3, <1>4, <1>5, <1>6 DEF Next, Finished

\* Types, places, the lock's owner and the registry's content stay consistent,
\* whatever threads call stop() and whenever they do.
THEOREM Invariance == Spec => []IInv
  BY InitInv, NextInv, PTL DEF Spec

\* When start() has returned, no session is left in the registry.
THEOREM NoSessionLeft == Spec => []NoneLeft
<1>1. IInv => NoneLeft
  BY AgentsAssumption DEF IInv, TypeOK, PlaceInv, SessionInv, RegistryInv, NoneLeft, Agents,
     Threads, StopPlaces, CleanupPlaces
<1> QED
  BY <1>1, Invariance, PTL

\* The active session count never includes a session whose thread has ended.
THEOREM NoGhostSessions == Spec => []NoGhost
<1>1. IInv => NoGhost
  BY DEF IInv, RegistryInv, NoGhost
<1> QED
  BY <1>1, Invariance, PTL

\* No control socket is lost: who has to close it is always known.
THEOREM SocketsAccounted == Spec => []OpenIsAccounted
<1>1. IInv => OpenIsAccounted
  BY DEF IInv, OpenInv, OpenIsAccounted, Closing
<1> QED
  BY <1>1, Invariance, PTL

=============================================================================
