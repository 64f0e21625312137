--------------------------- MODULE TransferSession ---------------------------
(***************************************************************************)
(* One FTP session: the control thread (server/client_handler.py and       *)
(* server/command_handler.py) and the transfer workers it starts           *)
(* (server/transfer_manager.py), which share the unlocked fields of        *)
(* server/session.py.                                                      *)
(*                                                                         *)
(* A command is one action, except where the control thread does something *)
(* the worker can observe in between: the 150 of a transfer is sent after  *)
(* its worker has started, and ABOR and the cleanup of a connection read   *)
(* the worker's event, signal it and then join the worker.  A command that *)
(* is refused (425, 450, 501, 530) changes nothing and is left out, and so *)
(* is the login that the others need, and MODE and TYPE, which             *)
(* ControlConnection has.  What a transfer moves is GoBackN's subject: here*)
(* it ends well or not.                                                    *)
(*                                                                         *)
(* The server is not being stopped: stop() runs the same cleanup from a    *)
(* thread of its own, which clears current_transfer and transfer_worker    *)
(* while this session may still serve.  FtpServer has that cleanup, without*)
(* the transfer.                                                           *)
(***************************************************************************)
EXTENDS Integers, FiniteSets

CONSTANTS
    Transfers,        \* names for transfers, their events and their threads
    Sockets,          \* names for data sockets; a name is reused once it is free
    None

ASSUME NamesAssumption ==
    /\ IsFiniteSet(Transfers)
    /\ None \notin Transfers /\ None \notin Sockets
    /\ "orphan" \notin Transfers

VARIABLES
    \* session fields
    sock,             \* data_socket
    endpoint,         \* data_mode; data_host and data_port are set with it
    current,          \* current_transfer is a dict
    worker,           \* transfer_worker
    event,            \* transfer_cancel_event; "orphan" is one cancel() created
    \* the control thread
    ctl,
    held,             \* the event cancel() has read, its local variable
    \* the worker of each transfer
    op,               \* what it does: "STOR" stands for every upload
    wpc,
    wsock, wmode,     \* the data socket and endpoint it was called with
    \* sockets and events
    open,             \* data sockets not closed
    cancelled,        \* transfers whose event is set
    \* history
    aborted,          \* transfers running when an ABOR or cleanup signalled
    startFailed       \* current_transfer was set for a thread that did not start

sessionVars == <<sock, endpoint, current, worker, event>>
workerVars  == <<op, wpc, wsock, wmode>>
systemVars  == <<open, cancelled>>
controlVars == <<ctl, held>>
historyVars == <<aborted, startFailed>>
vars == <<sessionVars, controlVars, workerVars, systemVars, historyVars>>

Places == {"born", "read", "event", "context", "peer", "moving", "grace",
           "moved", "committing", "finish", "cleaning", "reply", "ending", "dead"}

Alive(t) == wpc[t] # "dead"
AliveTransfers == {t \in Transfers : Alive(t)}

Init ==
    /\ sock = None /\ endpoint = None
    /\ current = FALSE /\ worker = None /\ event = None
    /\ ctl = "ready" /\ held = None
    /\ op = [t \in Transfers |-> None]
    /\ wpc = [t \in Transfers |-> "dead"]
    /\ wsock = [t \in Transfers |-> None]
    /\ wmode = [t \in Transfers |-> None]
    /\ open = {} /\ cancelled = {}
    /\ aborted = {} /\ startFailed = FALSE

-----------------------------------------------------------------------------
(* The control thread.                                                     *)

\* _close_data_socket, before the new endpoint
MutantWithoutOld == open
WithoutOld == open \ {sock}

\* A socket nobody has
FreshSocket(s) == s # sock /\ s \notin open /\ \A t \in Transfers : wsock[t] # s

\* PASV and PORT, also while a transfer is running
OpenEndpoint(mode) ==
    /\ ctl = "ready"
    /\ \E s \in Sockets :
        /\ FreshSocket(s)
        /\ open' = WithoutOld \cup {s}
        /\ sock' = s
    /\ endpoint' = mode
    /\ UNCHANGED <<current, worker, event, controlVars, workerVars, cancelled,
                   historyVars>>

\* The new socket cannot be created or bound: the old one is closed already
OpenFails ==
    /\ ctl = "ready"
    /\ open' = WithoutOld
    /\ sock' = None
    /\ UNCHANGED <<endpoint, current, worker, event, controlVars, workerVars,
                   cancelled, historyVars>>

\* _transfer_in_progress
MutantBusy == current
Busy == current \/ (worker # None /\ Alive(worker))

\* RETR, STOR, APPE, STOU up to the return of the handler.  current_transfer is
\* set before the thread is started.
MayStart == ctl = "ready" /\ (sock # None \/ endpoint # None) /\ ~Busy

StartTransfer(what) ==
    /\ MayStart
    /\ \E t \in Transfers :
        /\ ~Alive(t) /\ event # t
        /\ wpc' = [wpc EXCEPT ![t] = "born"]
        /\ op' = [op EXCEPT ![t] = what]
        /\ worker' = t
        /\ cancelled' = cancelled \ {t}
        /\ aborted' = aborted \ {t}
    /\ current' = TRUE
    /\ ctl' = "send150"
    /\ UNCHANGED <<held, sock, endpoint, event, wsock, wmode, open, startFailed>>

\* t.start() raises.  The reply is 500, and nothing takes current_transfer back:
\* no worker is there to do it.
StartFails ==
    /\ MayStart
    /\ current' = TRUE
    /\ startFailed' = TRUE
    /\ UNCHANGED <<sock, endpoint, worker, event, controlVars, workerVars,
                   systemVars, aborted>>

\* ClientHandler.run sends what the handler returned
Send150 ==
    /\ ctl = "send150"
    /\ ctl' = "ready"
    /\ UNCHANGED <<held, sessionVars, workerVars, systemVars, historyVars>>

\* The path lock that store, append and STOU hold while they pull their chunks
MutantHoldsPath ==
    worker # None /\ wpc[worker] \notin {"born", "read", "event", "context", "peer"}
HoldsPath ==
    /\ worker # None /\ op[worker] = "STOR"
    /\ wpc[worker] \in {"moving", "grace", "moved", "committing"}

\* DELE, RMD and RNTO wait for the lock of their path, here the one that the session's
\* own upload holds.  No command is read meanwhile, an ABOR neither.
AskPath ==
    /\ ctl = "ready" /\ ctl' = "path"
    /\ UNCHANGED <<held, sessionVars, workerVars, systemVars, historyVars>>

PathReply ==
    /\ ctl = "path" /\ ~HoldsPath
    /\ ctl' = "ready"
    /\ UNCHANGED <<held, sessionVars, workerVars, systemVars, historyVars>>

\* cancel, first statement: the session's event, if it has one
CancelReads(place) ==
    /\ ctl = "ready"
    /\ ctl' = place
    /\ held' = event
    /\ UNCHANGED <<sessionVars, workerVars, systemVars, historyVars>>

\* ABOR; and QUIT, or the client is gone: cleanup
Abor == CancelReads("aborSignal")
Leave == CancelReads("quitSignal")

\* cancel, the rest: a new event where there was none, overwriting whatever the
\* worker has put there meanwhile; then the socket.  data_host, data_port and
\* data_mode stay.
MutantStillOpen == open
StillOpen == open \ {sock}

Signal ==
    /\ \/ ctl = "aborSignal" /\ ctl' = "aborJoin"
       \/ ctl = "quitSignal" /\ ctl' = "quitJoin"
    /\ event' = IF held = None THEN "orphan" ELSE event
    /\ cancelled' = cancelled \cup ({held} \cap Transfers)
    /\ held' = None
    /\ open' = StillOpen
    /\ sock' = None
    /\ aborted' = aborted \cup AliveTransfers
    /\ UNCHANGED <<endpoint, current, worker, workerVars, startFailed>>

\* worker.join(timeout=1.0).  A worker that has not reached a wait of its own
\* does so well within the second, so the join does not time out before.
JoinReturns == worker # None => wpc[worker] \notin {"born", "read", "event"}

AborReply ==
    /\ ctl = "aborJoin" /\ JoinReturns
    /\ ctl' = "ready"
    /\ UNCHANGED <<held, sessionVars, workerVars, systemVars, historyVars>>

Cleanup ==
    /\ ctl = "quitJoin" /\ JoinReturns
    /\ ctl' = "closed"
    /\ open' = open \ {sock}
    /\ sock' = None
    /\ endpoint' = None
    /\ current' = FALSE
    /\ worker' = None
    /\ UNCHANGED <<held, event, workerVars, cancelled, historyVars>>

Answer == Send150 \/ PathReply \/ Signal \/ AborReply \/ Cleanup

Command ==
    \/ \E mode \in {"PASSIVE", "ACTIVE"} : OpenEndpoint(mode)
    \/ OpenFails
    \/ \E what \in {"RETR", "STOR"} : StartTransfer(what)
    \/ StartFails \/ AskPath \/ Abor \/ Leave

-----------------------------------------------------------------------------
(* The worker of transfer t: run_transfer and TransferManager.             *)

GoTo(t, place) == wpc' = [wpc EXCEPT ![t] = place]

\* The arguments of action_func: session.data_socket and endpoint
ReadEndpoint(t) ==
    /\ wpc[t] = "born"
    /\ wsock' = [wsock EXCEPT ![t] = sock]
    /\ wmode' = [wmode EXCEPT ![t] = endpoint]
    /\ GoTo(t, "read")
    /\ UNCHANGED <<sessionVars, controlVars, op, systemVars,
                   historyVars>>

\* _event_for: the session's event is always a new one
MutantEventFor(t) == IF event = None THEN cancelled ELSE cancelled \cup {t}
EventFor(t) == cancelled

MakeEvent(t) ==
    /\ wpc[t] = "read"
    /\ event' = t
    /\ cancelled' = EventFor(t)
    /\ GoTo(t, "event")
    /\ UNCHANGED <<sock, endpoint, current, worker, controlVars, op,
                   wsock, wmode, open, historyVars>>

MakeContext(t) ==
    /\ wpc[t] = "event"
    /\ GoTo(t, "context")
    /\ UNCHANGED <<sessionVars, controlVars, op, wsock, wmode, systemVars,
                   historyVars>>

\* A passive RETR waits for the client's probe, which needs an open socket
AwaitPeer(t) ==
    /\ wpc[t] = "context" /\ op[t] = "RETR" /\ endpoint = "PASSIVE"
    /\ GoTo(t, "peer")
    /\ UNCHANGED <<sessionVars, controlVars, op, wsock, wmode,
                   systemVars, historyVars>>

PeerReady(t) == wpc[t] = "peer" /\ wsock[t] \in open

\* The RDT call begins; an upload is in service.store and holds its path
BeginMove(t) ==
    /\ \/ PeerReady(t)
       \/ wpc[t] = "context" /\ ~(op[t] = "RETR" /\ endpoint = "PASSIVE")
    /\ GoTo(t, "moving")
    /\ UNCHANGED <<sessionVars, controlVars, op, wsock, wmode, systemVars,
                   historyVars>>

\* Moving data takes an open socket; send_chunks_rdt opens one of its own when
\* it is given none
HasSocket(t) ==
    \/ wsock[t] \in open
    \/ wsock[t] = None /\ op[t] = "RETR" /\ wmode[t] = "ACTIVE"

\* A transfer takes round trips to the client, longer than the control thread
\* needs from one statement of cancel to the next.
InCancel == ctl \in {"aborSignal", "quitSignal"}

\* A download ends with the last ACK; an upload has its last chunk.
EndMove(t) ==
    /\ wpc[t] = "moving" /\ HasSocket(t) /\ ~InCancel
    /\ GoTo(t, IF op[t] = "STOR" THEN "grace" ELSE "moved")
    /\ UNCHANGED <<sessionVars, controlVars, op, wsock, wmode,
                   systemVars, historyVars>>

\* _fin_grace: it ends well though the socket is closed meanwhile, and the
\* cancel event is not looked at.
LeaveGrace(t) ==
    /\ wpc[t] = "grace"
    /\ GoTo(t, "moved")
    /\ UNCHANGED <<sessionVars, controlVars, op, wsock, wmode,
                   systemVars, historyVars>>

\* _atomic_upload's last check before os.replace
MutantPassesCheck(t) == TRUE
PassesCheck(t) == op[t] = "STOR" => t \notin cancelled

CheckCancel(t) ==
    /\ wpc[t] = "moved" /\ PassesCheck(t)
    /\ GoTo(t, "committing")
    /\ UNCHANGED <<sessionVars, controlVars, op, wsock, wmode,
                   systemVars, historyVars>>

\* os.replace, or prepare_retrieve after a download
Succeed(t) ==
    /\ wpc[t] = "committing"
    /\ GoTo(t, "finish")
    /\ UNCHANGED <<sessionVars, controlVars, op, wsock, wmode,
                   systemVars, historyVars>>

\* Where an exception can end the transfer: path, probe, RDT, cancel, disk
MutantMayFail(t) == wpc[t] \in {"context", "peer", "moving"} /\ t \in cancelled
MayFail(t) == wpc[t] \in {"context", "peer", "moving", "moved", "committing"}

Fail(t) ==
    /\ MayFail(t)
    /\ GoTo(t, "finish")
    /\ UNCHANGED <<sessionVars, controlVars, op, wsock, wmode,
                   systemVars, historyVars>>

\* _finish: the event and current_transfer
MutantCurrentAfter == current
CurrentAfter == FALSE

Finish(t) ==
    /\ wpc[t] = "finish"
    /\ event' = IF event = t THEN None ELSE event
    /\ current' = CurrentAfter
    /\ GoTo(t, "cleaning")
    /\ UNCHANGED <<sock, endpoint, worker, controlVars, op, wsock,
                   wmode, systemVars, historyVars>>

\* _finish: whatever data socket the session has by now.  A socket that the
\* control thread sets in between is dropped unreferenced, which closes it too.
FinishSocket(t) ==
    /\ wpc[t] = "cleaning"
    /\ open' = open \ {sock}
    /\ sock' = None
    /\ endpoint' = None
    /\ GoTo(t, "reply")
    /\ UNCHANGED <<current, worker, event, controlVars, op, wsock,
                   wmode, cancelled, historyVars>>

\* 226, or the code of the failure
FinalReply(t) ==
    /\ wpc[t] = "reply"
    /\ GoTo(t, "ending")
    /\ UNCHANGED <<sessionVars, controlVars, op, wsock, wmode,
                   systemVars, historyVars>>

\* The thread is alive a little longer than its reply; then its locals are gone
Die(t) ==
    /\ wpc[t] = "ending"
    /\ GoTo(t, "dead")
    /\ op' = [op EXCEPT ![t] = None]
    /\ wsock' = [wsock EXCEPT ![t] = None]
    /\ wmode' = [wmode EXCEPT ![t] = None]
    /\ UNCHANGED <<sessionVars, controlVars, systemVars, historyVars>>

Worker(t) ==
    \/ ReadEndpoint(t) \/ MakeEvent(t) \/ MakeContext(t) \/ AwaitPeer(t)
    \/ BeginMove(t) \/ EndMove(t) \/ LeaveGrace(t) \/ CheckCancel(t) \/ Succeed(t) \/ Fail(t)
    \/ Finish(t) \/ FinishSocket(t) \/ FinalReply(t) \/ Die(t)

Ended == ctl = "closed" /\ AliveTransfers = {} /\ UNCHANGED vars

Next == Command \/ Answer \/ (\E t \in Transfers : Worker(t)) \/ Ended

Spec == Init /\ [][Next]_vars

\* The threads run; commands come or not.
FairSpec == Spec /\ WF_vars(Answer) /\ \A t \in Transfers : WF_vars(Worker(t))

-----------------------------------------------------------------------------
(* Properties *)

\* Every variable has the type its code gives it.
TypeOK ==
    /\ sock \in Sockets \cup {None}
    /\ endpoint \in {None, "PASSIVE", "ACTIVE"}
    /\ current \in BOOLEAN
    /\ worker \in Transfers \cup {None}
    /\ event \in Transfers \cup {None, "orphan"}
    /\ ctl \in {"ready", "send150", "path", "aborSignal", "aborJoin", "quitSignal",
               "quitJoin", "closed"}
    /\ held \in Transfers \cup {None, "orphan"}
    /\ op \in [Transfers -> {None, "RETR", "STOR"}]
    /\ wpc \in [Transfers -> Places]
    /\ wsock \in [Transfers -> Sockets \cup {None}]
    /\ wmode \in [Transfers -> {None, "PASSIVE", "ACTIVE"}]
    /\ open \subseteq Sockets
    /\ cancelled \subseteq Transfers
    /\ aborted \subseteq Transfers
    /\ startFailed \in BOOLEAN

\* A session runs one transfer at a time: the worker of an earlier transfer,
\* which clears session fields when it ends, can never clear those of a later one.
OneWorker == Cardinality(AliveTransfers) <= 1

\* An upload that was running when ABOR or a disconnect cancelled it never goes
\* on to publish its file, unless its last cancellation check was already behind
\* it.  The event alone does not ensure it: an ABOR that reads the session's event
\* before _event_for sets one the worker never sees, or even replaces the worker's,
\* and only the closed socket stops it.
AbortedNeverCommits ==
    [][\A t \in aborted :
        op[t] = "STOR" /\ wpc[t] = "moved" => wpc'[t] # "committing"]_vars

\* Cancelling (an idle ABOR, or one for an earlier transfer) never reaches a
\* transfer that starts later.
CancelHitsOnlyAborted == cancelled \cap AliveTransfers \subseteq aborted

\* The 450 refusal ends with the transfer: a session without a worker is busy
\* only if the thread of a transfer could not be started.
NeverStuckBusy == ctl = "ready" /\ AliveTransfers = {} /\ current => startFailed

\* _transfer_in_progress is true only of a session that "already owns an active
\* transfer" (its docstring).  False of the code: after a start() that failed the
\* session refuses every transfer with 450 until it ends.
BusyMeansTransfer == ctl = "ready" /\ Busy => AliveTransfers # {}

\* Every open data socket is the one the session holds, and a closed session
\* leaves none open: PASV, PORT, ABOR, the end of a transfer and cleanup close
\* what they replace, in whatever order the two threads do it.
NoSocketLeak == open \subseteq {sock} /\ (ctl = "closed" => open = {})

\* Once an ABOR is answered, a transfer it found running has been told to stop, by its
\* event or by its socket.  (Only a download that never had a socket, and sends from one
\* of its own, may have been told by neither.)
AbortReachesTransfer ==
    \A t \in aborted :
        ctl = "ready" /\ wpc[t] \in {"event", "context", "peer", "moving", "grace"} =>
            t \in cancelled \/ wsock[t] \notin open

\* Every command is answered: a DELE that waits for its session's own upload too, which
\* no ABOR can stop any more, however the data socket was closed before.
CommandsAnswered == ctl # "ready" ~> ctl \in {"ready", "closed"}

\* Every transfer that starts ends, with its final reply sent.
TransfersEnd == \A t \in Transfers : wpc[t] = "born" ~> wpc[t] = "dead"

-----------------------------------------------------------------------------
(* The inductive invariant behind these properties: TransferSession_proofs   *)
(* shows that it holds for every value of the constants.                     *)

HasEvent == {"event", "context", "peer", "moving", "grace", "moved", "committing",
             "finish"}
Received == {"grace", "moved"}
BeforeMoved == {"read", "event", "context", "peer", "moving"}

\* A live worker is the session's own, and the session is busy while it lives.  It
\* is busy without one, for good, once a thread could not be started.
WorkerInv ==
    /\ \A t, u \in AliveTransfers : t = u
    /\ ctl # "closed" => \A t \in AliveTransfers : worker = t
    /\ \A t \in AliveTransfers :
        ctl # "closed" => current \/ wpc[t] \in {"cleaning", "reply", "ending"}
    /\ ctl = "send150" => worker # None
    /\ current /\ ~startFailed =>
        /\ worker # None
        /\ wpc[worker] \notin {"cleaning", "reply", "ending", "dead"}
    /\ startFailed => AliveTransfers = {} /\ (current \/ ctl = "closed")

\* The session's event is that of a transfer that uses it.  An upload that has
\* moved its data, or still can, is the one a cancel will find: its event is not
\* among those that cancel has overwritten.
MayCommit(t) ==
    /\ op[t] = "STOR"
    /\ \/ wpc[t] \in Received
       \/ wpc[t] \in {"event", "context", "peer", "moving"} /\ wsock[t] \in open

EventInv ==
    /\ event \in Transfers => wpc[event] \in HasEvent
    /\ \A t \in Transfers : wpc[t] = "grace" => op[t] = "STOR"
    /\ \A t \in Transfers : MayCommit(t) => event = t
    /\ \A t \in Transfers :
        InCancel /\ op[t] = "STOR" /\ wpc[t] \in Received => held = t

\* A transfer found running by a cancel has its event set, or no socket to move
\* data on: the one it has is closed, or it will find none.
AbortInv ==
    \A t \in aborted :
        wpc[t] \in BeforeMoved \cup {"born"} \/ (op[t] = "STOR" /\ wpc[t] \in Received) =>
            \/ t \in cancelled
            \/ wpc[t] = "born" /\ sock = None /\ ctl \in {"aborJoin", "quitJoin"}
            \/ wpc[t] \in BeforeMoved /\ wsock[t] \notin open

\* The strengthening that makes the safety properties above inductive.
IInv ==
    /\ TypeOK /\ WorkerInv /\ EventInv /\ AbortInv
    /\ CancelHitsOnlyAborted /\ NoSocketLeak

=============================================================================
