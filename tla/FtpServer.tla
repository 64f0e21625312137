------------------------------ MODULE FtpServer ------------------------------
(***************************************************************************)
(* The server process: FTPServer.start and stop (server/threaded_server.py)*)
(* and the life of each ClientHandler thread (server/client_handler.py).   *)
(*                                                                         *)
(* start() runs in one thread, Acceptor, and ends with a stop() of its own;*)
(* Stoppers are other threads that may call stop() at any time.  A stop()  *)
(* and the session's own thread may all run cleanup() of one session, at   *)
(* the same time.  Each thread has one program counter, and a step is what *)
(* lies between two things another thread can observe.  What cleanup() does*)
(* to the session's transfer is TransferSession's subject; here cleanup()  *)
(* takes the session out of the registry and closes its control socket.    *)
(***************************************************************************)
EXTENDS Integers, FiniteSets

CONSTANTS
    Clients,          \* connections; each gets a session and a thread
    Stoppers,         \* threads that may call stop()
    Acceptor,         \* the thread that runs start()
    None

Threads == Stoppers \cup {Acceptor}
Agents == Threads \cup Clients

ASSUME AgentsAssumption ==
    /\ Clients \cap Threads = {} /\ Acceptor \notin Stoppers
    /\ None \notin Agents

VARIABLES
    running,          \* is_running
    listener,         \* server_socket
    newcomer,         \* the handler in start()'s hands
    registry,         \* active_clients
    lock,             \* clients_lock: its owner
    pc,
    todo,             \* of a stop(): what is left of its snapshot
    victim,           \* of a stop(): the session it is cleaning up
    open,             \* sessions whose control socket is not closed
    gone,             \* clients that have closed their end
    \* history
    swept             \* sessions that some stop() has cleaned up

serverVars == <<running, listener, newcomer, registry, lock>>
stopVars   == <<todo, victim, swept>>
vars == <<serverVars, pc, stopVars, open, gone>>

StartPlaces == {"opening", "listening", "loop", "accept", "accepted", "registering",
                "registered"}
CleanupPlaces == {"unregister", "unregistering", "close"}
StopPlaces == {"idle", "stop", "closing", "snapshot", "snapping", "next", "returned"}
SessionPlaces == {"none", "made", "top", "recv", "serving", "ended"}

Goes(a, from, to) == pc[a] = from /\ pc' = [pc EXCEPT ![a] = to]

Init ==
    /\ running = FALSE /\ listener = "none" /\ newcomer = None
    /\ registry = {} /\ lock = None
    /\ pc = [a \in Agents |-> CASE a = Acceptor -> "opening"
                                [] a \in Stoppers -> "idle"
                                [] OTHER -> "none"]
    /\ todo = [t \in Threads |-> {}] /\ victim = [t \in Threads |-> None]
    /\ open = {} /\ gone = {} /\ swept = {}

-----------------------------------------------------------------------------
(* with clients_lock: register_client, unregister_client, stop's snapshot  *)

Acquire(a) ==
    /\ lock = None /\ lock' = a
    /\ \/ Goes(a, "accepted", "registering")
       \/ Goes(a, "unregister", "unregistering")
       \/ Goes(a, "snapshot", "snapping")
    /\ UNCHANGED <<running, listener, newcomer, registry, stopVars, open, gone>>

-----------------------------------------------------------------------------
(* start *)

\* The socket exists, and stop() can see it; bind and listen follow
OpenListener ==
    /\ Goes(Acceptor, "opening", "listening")
    /\ listener' = "open"
    /\ UNCHANGED <<running, newcomer, registry, lock, stopVars, open, gone>>

\* bind, listen or settimeout raise, as they do on a socket that stop() closed
ListenFails ==
    /\ Goes(Acceptor, "listening", "raised")
    /\ UNCHANGED <<serverVars, stopVars, open, gone>>

\* Whatever a stop() has written to is_running is overwritten
SetRunning ==
    /\ Goes(Acceptor, "listening", "loop")
    /\ running' = TRUE
    /\ UNCHANGED <<listener, newcomer, registry, lock, stopVars, open, gone>>

\* accept() raises OSError: break
MutantAfterAcceptError == "loop"
AfterAcceptError == "stop"

\* The loop has ended: self.stop()
MutantAfterLoop == "returned"
AfterLoop == "stop"

TestRunning ==
    /\ \/ running /\ listener = "open" /\ Goes(Acceptor, "loop", "accept")
       \/ running /\ listener = "closed" /\ Goes(Acceptor, "loop", AfterAcceptError)
       \/ ~running /\ Goes(Acceptor, "loop", AfterLoop)
    /\ UNCHANGED <<serverVars, stopVars, open, gone>>

AcceptTimeout ==
    /\ Goes(Acceptor, "accept", "loop")
    /\ UNCHANGED <<serverVars, stopVars, open, gone>>

\* The listener is closed, or accept() or the handler's constructor fail
AcceptFails ==
    /\ Goes(Acceptor, "accept", AfterAcceptError)
    /\ UNCHANGED <<serverVars, stopVars, open, gone>>

Accept(c) ==
    /\ listener = "open" /\ pc[c] = "none" /\ pc[Acceptor] = "accept"
    /\ pc' = [pc EXCEPT ![Acceptor] = "accepted", ![c] = "made"]
    /\ newcomer' = c
    /\ open' = open \cup {c}
    /\ UNCHANGED <<running, listener, registry, lock, stopVars, gone>>

Register ==
    /\ Goes(Acceptor, "registering", "registered")
    /\ registry' = registry \cup {newcomer}
    /\ lock' = None
    /\ UNCHANGED <<running, listener, newcomer, stopVars, open, gone>>

StartHandler ==
    /\ pc[Acceptor] = "registered"
    /\ pc' = [pc EXCEPT ![Acceptor] = "loop", ![newcomer] = "top"]
    /\ newcomer' = None
    /\ UNCHANGED <<running, listener, registry, lock, stopVars, open, gone>>

\* No more threads: RuntimeError leaves start(), which does not stop() then
StartFails ==
    /\ Goes(Acceptor, "registered", "raised")
    /\ newcomer' = None
    /\ UNCHANGED <<running, listener, registry, lock, stopVars, open, gone>>

\* main: KeyboardInterrupt, then server.stop().  A handler that is not registered
\* is dropped, and its socket with it.
Interrupt ==
    /\ \E place \in StartPlaces : Goes(Acceptor, place, "stop")
    /\ lock' = IF lock = Acceptor THEN None ELSE lock
    /\ open' = IF newcomer \in registry THEN open ELSE open \ {newcomer}
    /\ newcomer' = None
    /\ UNCHANGED <<running, listener, registry, stopVars, gone>>

AcceptorStep ==
    \/ OpenListener \/ SetRunning \/ TestRunning \/ AcceptTimeout
    \/ (\E c \in Clients : Accept(c)) \/ Register \/ StartHandler

-----------------------------------------------------------------------------
(* stop, by thread t *)

CallStop(t) ==
    /\ Goes(t, "idle", "stop")
    /\ UNCHANGED <<serverVars, stopVars, open, gone>>

StopFlag(t) ==
    /\ Goes(t, "stop", "closing")
    /\ running' = FALSE
    /\ UNCHANGED <<listener, newcomer, registry, lock, stopVars, open, gone>>

StopListener(t) ==
    /\ Goes(t, "closing", "snapshot")
    /\ listener' = IF listener = "open" THEN "closed" ELSE listener
    /\ UNCHANGED <<running, newcomer, registry, lock, stopVars, open, gone>>

\* The lock is free again before the first cleanup()
MutantOwnerAfterSnapshot(t) == t
OwnerAfterSnapshot(t) == None

Snapshot(t) ==
    /\ Goes(t, "snapping", "next")
    /\ todo' = [todo EXCEPT ![t] = registry]
    /\ lock' = OwnerAfterSnapshot(t)
    /\ UNCHANGED <<running, listener, newcomer, registry, victim, swept, open, gone>>

StopNext(t) ==
    /\ Goes(t, "next", "unregister")
    /\ \E c \in todo[t] :
        /\ todo' = [todo EXCEPT ![t] = @ \ {c}]
        /\ victim' = [victim EXCEPT ![t] = c]
    /\ UNCHANGED <<serverVars, swept, open, gone>>

StopReturn(t) ==
    /\ todo[t] = {} /\ Goes(t, "next", "returned")
    /\ UNCHANGED <<serverVars, stopVars, open, gone>>

-----------------------------------------------------------------------------
(* cleanup, by a stop() or by the session's own thread                     *)

Victim(a) == IF a \in Clients THEN a ELSE victim[a]

Unregister(a) ==
    /\ Goes(a, "unregistering", "close")
    /\ registry' = registry \ {Victim(a)}
    /\ lock' = None
    /\ UNCHANGED <<running, listener, newcomer, stopVars, open, gone>>

MutantAfterClose(a) == IF a \in Clients THEN open \ {a} ELSE open
AfterClose(a) == open \ {Victim(a)}

CloseControl(a) ==
    /\ Goes(a, "close", IF a \in Clients THEN "ended" ELSE "next")
    /\ open' = AfterClose(a)
    /\ IF a \in Clients
       THEN UNCHANGED <<victim, swept>>
       ELSE /\ victim' = [victim EXCEPT ![a] = None]
            /\ swept' = swept \cup {victim[a]}
    /\ UNCHANGED <<serverVars, todo, gone>>

CleanupStep(a) == Acquire(a) \/ Unregister(a) \/ CloseControl(a)

StopStep(t) ==
    \/ StopFlag(t) \/ StopListener(t) \/ Snapshot(t) \/ StopNext(t) \/ StopReturn(t)
    \/ CleanupStep(t)

-----------------------------------------------------------------------------
(* ClientHandler.run of session c *)

\* recv() on a socket that is closed raises; one that is already waiting goes on
\* waiting, on a connection that stays up meanwhile
CallRecv(c) ==
    /\ Goes(c, "top", IF c \in open THEN "recv" ELSE "unregister")
    /\ UNCHANGED <<serverVars, stopVars, open, gone>>

\* It returns what the client has sent, commands
RecvData(c) ==
    /\ c \notin gone /\ Goes(c, "recv", "serving")
    /\ UNCHANGED <<serverVars, stopVars, open, gone>>

MutantAfterEof == "top"
AfterEof == "unregister"

RecvEof(c) ==
    /\ c \in gone /\ Goes(c, "recv", AfterEof)
    /\ UNCHANGED <<serverVars, stopVars, open, gone>>

\* The commands read are handled, also when replies can no longer be sent; QUIT
\* returns from run with the rest unread, and its finally is cleanup
MutantAfterQuit == "ended"
AfterQuit == "unregister"

Serve(c) ==
    /\ Goes(c, "serving", "top") \/ Goes(c, "serving", AfterQuit)
    /\ UNCHANGED <<serverVars, stopVars, open, gone>>

SessionStep(c) ==
    \/ CallRecv(c) \/ RecvEof(c) \/ Serve(c) \/ CleanupStep(c)

\* The peer has closed its end, and what it sent before has been read
ClientGoes(c) ==
    /\ pc[c] # "none" /\ c \notin gone
    /\ gone' = gone \cup {c}
    /\ UNCHANGED <<serverVars, pc, stopVars, open>>

-----------------------------------------------------------------------------
Finished ==
    /\ \A c \in Clients : pc[c] \in {"none", "made", "ended"} /\ (pc[c] # "none" => c \in gone)
    /\ \A t \in Threads : pc[t] \in {"returned", "raised"}
    /\ UNCHANGED vars

Next ==
    \/ AcceptorStep \/ Acquire(Acceptor) \/ ListenFails \/ AcceptFails \/ StartFails
    \/ Interrupt
    \/ (\E t \in Stoppers : CallStop(t)) \/ (\E t \in Threads : StopStep(t))
    \/ \E c \in Clients : SessionStep(c) \/ RecvData(c) \/ ClientGoes(c)
    \/ Finished

Spec == Init /\ [][Next]_vars

\* The threads run; what clients do, who calls stop() and what fails is open.
FairSpec ==
    /\ Spec
    /\ WF_vars(AcceptorStep \/ Acquire(Acceptor))
    /\ \A t \in Threads : WF_vars(StopStep(t))
    /\ \A c \in Clients : WF_vars(SessionStep(c))

-----------------------------------------------------------------------------
(* Properties *)

\* Every variable has the type its code gives it.
TypeOK ==
    /\ running \in BOOLEAN /\ listener \in {"none", "open", "closed"}
    /\ newcomer \in Clients \cup {None} /\ lock \in Agents \cup {None}
    /\ registry \subseteq Clients /\ open \subseteq Clients
    /\ gone \subseteq Clients /\ swept \subseteq Clients
    /\ pc \in [Agents -> StartPlaces \cup StopPlaces \cup CleanupPlaces \cup SessionPlaces
                         \cup {"raised"}]
    /\ todo \in [Threads -> SUBSET Clients] /\ victim \in [Threads -> Clients \cup {None}]

\* When start() has returned, no session is registered and none will be: whoever
\* was registered after another stop()'s snapshot is in the last one.
NoneLeft == pc[Acceptor] = "returned" => registry = {}

\* A session whose thread has ended is not counted as active, however its cleanup
\* raced those of stop().
NoGhost == \A c \in registry : pc[c] # "ended"

\* An open control socket is in the registry, in start()'s hands, or in those of a
\* cleanup that is about to close it: between them the threads lose none.
OpenIsAccounted ==
    \A c \in open :
        \/ c = newcomer \/ c \in registry
        \/ \E a \in Agents : pc[a] = "close" /\ Victim(a) = c

\* stop() always returns: it holds clients_lock for the snapshot only, which the
\* cleanups it calls need themselves.
StopReturns == \A t \in Threads : pc[t] = "stop" ~> pc[t] = "returned"

\* Once the listener is closed, start() ends, even when it has overwritten the
\* is_running that stop() wrote.
ClosedListenerEndsServer == listener = "closed" ~> pc[Acceptor] \in {"returned", "raised"}

\* A session ends, and so is cleaned up by its own thread, once its client has left
\* or, after a stop(), has sent another command.
SessionsEnd ==
    \A c \in Clients :
        /\ c \in gone /\ pc[c] \notin {"none", "made"} ~> pc[c] = "ended"
        /\ c \in swept /\ pc[c] = "serving" ~> pc[c] = "ended"

-----------------------------------------------------------------------------
(* The inductive invariant behind these properties: FtpServer_proofs shows   *)
(* that it holds for any number of sessions and of threads that call stop(). *)

Critical == {"registering", "unregistering", "snapping"}

\* Each thread is in its own code, and who is in a critical section has the lock.
PlaceInv ==
    /\ pc[Acceptor] \in StartPlaces \cup StopPlaces \cup CleanupPlaces \cup {"raised"}
    /\ \A t \in Stoppers : pc[t] \in StopPlaces \cup CleanupPlaces
    /\ \A c \in Clients : pc[c] \in SessionPlaces \cup CleanupPlaces
    /\ \A a \in Agents : pc[a] \in Critical <=> lock = a

\* Only accepted sessions are known anywhere.  A session that start() still holds
\* has not run, and once it was registered a stop() may have cleaned it up.
SessionInv ==
    /\ newcomer # None <=> pc[Acceptor] \in {"accepted", "registering", "registered"}
    /\ newcomer # None => pc[newcomer] = "made"
    /\ \A t \in Threads : pc[t] \in CleanupPlaces <=> victim[t] # None
    /\ \A c \in Clients :
        pc[c] = "none" => /\ c \notin registry \cup open \cup swept
                          /\ \A t \in Threads : c \notin todo[t] /\ c # victim[t]
    /\ swept \cap open = {}

\* What is registered will be cleaned up: in start()'s last stop() by that, and
\* always by its own thread, which has not done so yet.
RegistryInv ==
    /\ pc[Acceptor] \in {"next", "returned"} \cup CleanupPlaces =>
        registry \subseteq
            todo[Acceptor] \cup (IF pc[Acceptor] = "close" THEN {} ELSE {victim[Acceptor]})
    /\ pc[Acceptor] = "returned" => todo[Acceptor] = {}
    /\ \A c \in registry : pc[c] \notin {"none", "close", "ended"}

Closing(c) == \E a \in Agents : pc[a] = "close" /\ Victim(a) = c

\* OpenIsAccounted, also when start() has just let go of a session it registered.
OpenInv ==
    \A c \in open :
        \/ c = newcomer /\ pc[Acceptor] # "registered"
        \/ c \in registry \/ Closing(c)

\* The strengthening that makes the safety properties above inductive.
IInv == TypeOK /\ PlaceInv /\ SessionInv /\ RegistryInv /\ OpenInv

=============================================================================
