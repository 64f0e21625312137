----------------------- MODULE TransferSession_proofs ------------------------
(***************************************************************************)
(* Safety of a session's two threads for any number of transfers, data     *)
(* sockets and settings.                                                   *)
(***************************************************************************)
EXTENDS TransferSession, FiniteSetTheorems, TLAPS

LEMMA InitInv == Init => IInv
<1> USE NamesAssumption
<1> SUFFICES ASSUME Init PROVE IInv
  OBVIOUS
<1>1. TypeOK
  BY DEF Init, TypeOK, Places
<1>2. WorkerInv
  BY DEF Init, WorkerInv, AliveTransfers, Alive
<1>3. EventInv
  BY DEF Init, EventInv, HasEvent, MayCommit, InCancel, Received
<1>4. AbortInv /\ CancelHitsOnlyAborted /\ NoSocketLeak
  BY DEF Init, AbortInv, CancelHitsOnlyAborted, NoSocketLeak
<1> QED
  BY <1>1, <1>2, <1>3, <1>4 DEF IInv

-----------------------------------------------------------------------------
(* The control thread *)

\* Commands that only touch the endpoint
LEMMA EndpointCommands ==
    ASSUME IInv, OpenFails \/ \E mode \in {"PASSIVE", "ACTIVE"} : OpenEndpoint(mode)
    PROVE  IInv'
<1> USE NamesAssumption DEF IInv, historyVars, Received
<1>0. /\ ctl = "ready"
      /\ UNCHANGED <<current, worker, event, ctl, held, workerVars, cancelled, historyVars>>
  BY DEF OpenFails, OpenEndpoint, systemVars, controlVars
<1>1. TypeOK'
  BY DEF TypeOK, OpenFails, OpenEndpoint, WithoutOld, workerVars,
     systemVars, controlVars
<1>2. WorkerInv'
  BY <1>0 DEF WorkerInv, AliveTransfers, Alive, workerVars
<1>3. \A t \in Transfers : wsock[t] \notin open => wsock[t] \notin open'
  BY DEF OpenFails, OpenEndpoint, WithoutOld, FreshSocket, systemVars
<1>4. EventInv'
  BY <1>0, <1>3 DEF EventInv, MayCommit, InCancel, workerVars
<1>5. AbortInv'
  BY <1>0, <1>3 DEF AbortInv, TypeOK, workerVars
<1>6. CancelHitsOnlyAborted'
  BY <1>0 DEF CancelHitsOnlyAborted, AliveTransfers, Alive, workerVars
<1>7. NoSocketLeak'
  BY <1>0 DEF NoSocketLeak, OpenFails, OpenEndpoint, WithoutOld,
     systemVars
<1> QED
  BY <1>1, <1>2, <1>4, <1>5, <1>6, <1>7

LEMMA StartStep ==
    ASSUME IInv, NEW what \in {"RETR", "STOR"}, StartTransfer(what)
    PROVE  IInv'
<1> USE NamesAssumption DEF IInv, historyVars, Received
<1>0. PICK t \in Transfers :
        /\ ~Alive(t) /\ event # t
        /\ wpc' = [wpc EXCEPT ![t] = "born"]
        /\ op' = [op EXCEPT ![t] = what]
        /\ worker' = t
        /\ cancelled' = cancelled \ {t}
        /\ aborted' = aborted \ {t}
  BY DEF StartTransfer
<1>1. /\ ctl = "ready" /\ ctl' = "send150" /\ ~current /\ current' = TRUE
      /\ UNCHANGED <<held, sock, endpoint, event, wsock, wmode, open, startFailed>>
  BY DEF StartTransfer, MayStart, Busy
<1>2. TypeOK'
  BY <1>0, <1>1 DEF TypeOK, Places
<1>3. AliveTransfers = {}
  BY <1>1 DEF StartTransfer, MayStart, Busy, WorkerInv, AliveTransfers
<1>4. AliveTransfers' = {t} /\ wpc'[t] = "born"
  BY <1>0, <1>3 DEF TypeOK, AliveTransfers, Alive
<1>5. WorkerInv'
  BY <1>0, <1>1, <1>4 DEF WorkerInv, Places
<1>6. EventInv'
  BY <1>0, <1>1 DEF EventInv, HasEvent, TypeOK, MayCommit, InCancel
<1>7. AbortInv'
  BY <1>0, <1>1 DEF AbortInv
<1>8. CancelHitsOnlyAborted'
  BY <1>0 DEF CancelHitsOnlyAborted, AliveTransfers, Alive
<1>9. NoSocketLeak'
  BY <1>1 DEF NoSocketLeak
<1> QED
  BY <1>2, <1>5, <1>6, <1>7, <1>8, <1>9

\* The session is busy from now on, without a worker.
LEMMA StartFailsStep ==
    ASSUME IInv, StartFails
    PROVE  IInv'
<1> USE NamesAssumption DEF IInv, historyVars, Received
<1>0. /\ ctl = "ready" /\ current' = TRUE /\ startFailed' = TRUE
      /\ UNCHANGED <<sock, endpoint, worker, event, ctl, held>>
      /\ UNCHANGED <<op, wpc, wsock, wmode, open, cancelled, aborted>>
  BY DEF StartFails, MayStart, controlVars, workerVars, systemVars
<1>1. TypeOK'
  BY <1>0 DEF TypeOK
<1>2. AliveTransfers = {} /\ AliveTransfers' = {}
  BY <1>0 DEF StartFails, MayStart, Busy, WorkerInv, AliveTransfers, Alive
<1>3. WorkerInv'
  BY <1>0, <1>2 DEF WorkerInv
<1>4. EventInv' /\ AbortInv'
  BY <1>0 DEF EventInv, AbortInv, MayCommit, InCancel
<1>5. CancelHitsOnlyAborted' /\ NoSocketLeak'
  BY <1>0, <1>2 DEF CancelHitsOnlyAborted, NoSocketLeak
<1> QED
  BY <1>1, <1>3, <1>4, <1>5

\* A command that waits for a path lock, and its answer, touch no other state
LEMMA PathStep ==
    ASSUME IInv, AskPath \/ PathReply
    PROVE  IInv'
<1> USE NamesAssumption DEF IInv, historyVars, Received
<1>0. /\ ctl \in {"ready", "path"} /\ ctl' \in {"ready", "path"}
      /\ UNCHANGED <<held, sessionVars, workerVars, systemVars, historyVars>>
  BY DEF AskPath, PathReply
<1>1. TypeOK'
  BY <1>0 DEF TypeOK, sessionVars, workerVars, systemVars
<1>2. WorkerInv' /\ EventInv'
  BY <1>0 DEF WorkerInv, EventInv, AliveTransfers, Alive, sessionVars, workerVars,
     MayCommit, InCancel, systemVars
<1>3. AbortInv'
  BY <1>0 DEF AbortInv, sessionVars, workerVars, systemVars
<1>4. CancelHitsOnlyAborted' /\ NoSocketLeak'
  BY <1>0 DEF CancelHitsOnlyAborted, NoSocketLeak, AliveTransfers, Alive, sessionVars,
     workerVars, systemVars
<1> QED
  BY <1>1, <1>2, <1>3, <1>4

LEMMA CancelReadsStep ==
    ASSUME IInv, NEW place \in {"aborSignal", "quitSignal"}, CancelReads(place)
    PROVE  IInv'
<1> USE NamesAssumption DEF IInv, historyVars, Received
<1>0. /\ ctl = "ready" /\ ctl' = place /\ held' = event
      /\ UNCHANGED <<sessionVars, workerVars, systemVars, historyVars>>
  BY DEF CancelReads
<1>1. TypeOK'
  BY <1>0 DEF TypeOK, sessionVars, workerVars, systemVars
<1>2. WorkerInv'
  BY <1>0 DEF WorkerInv, AliveTransfers, Alive, sessionVars, workerVars
<1>3. EventInv'
  BY <1>0 DEF EventInv, MayCommit, sessionVars, workerVars, systemVars
<1>4. AbortInv'
  BY <1>0 DEF AbortInv, workerVars, systemVars
<1>5. CancelHitsOnlyAborted' /\ NoSocketLeak'
  BY <1>0 DEF CancelHitsOnlyAborted, NoSocketLeak, AliveTransfers, Alive,
     sessionVars, workerVars, systemVars
<1> QED
  BY <1>1, <1>2, <1>3, <1>4, <1>5

LEMMA SignalStep ==
    ASSUME IInv, Signal
    PROVE  IInv'
<1> USE NamesAssumption DEF IInv, historyVars, Received
<1>0. /\ InCancel /\ ctl' \in {"aborJoin", "quitJoin"}
      /\ event' = IF held = None THEN "orphan" ELSE event
      /\ cancelled' = cancelled \cup ({held} \cap Transfers)
      /\ held' = None
      /\ open' = open \ {sock} /\ sock' = None
      /\ aborted' = aborted \cup AliveTransfers
      /\ UNCHANGED <<endpoint, current, worker, startFailed>>
      /\ UNCHANGED <<op, wpc, wsock, wmode>>
  BY DEF Signal, StillOpen, InCancel, workerVars
<1>1. TypeOK'
  BY <1>0 DEF TypeOK, AliveTransfers
<1>2. WorkerInv'
  BY <1>0 DEF WorkerInv, AliveTransfers, Alive, InCancel
<1>3. open' = {} /\ ~InCancel'
  BY <1>0 DEF NoSocketLeak, InCancel
<1>4. EventInv'
  <2>1. event' \in Transfers => wpc'[event'] \in HasEvent
    BY <1>0 DEF EventInv
  \* An upload that has moved its data is the one the cancel has read.
  <2>2. ASSUME NEW t \in Transfers, MayCommit(t)' PROVE event' = t
    <3>1. op[t] = "STOR" /\ wpc[t] \in Received
      BY <1>0, <1>3, <2>2 DEF MayCommit
    <3>2. event = t /\ held = t
      BY <1>0, <3>1 DEF EventInv, MayCommit
    <3> QED
      BY <1>0, <3>2
  <2> QED
    BY <1>0, <1>3, <2>1, <2>2 DEF EventInv
<1>5. AbortInv'
  <2> SUFFICES ASSUME NEW t \in aborted',
                      \/ wpc[t] \in BeforeMoved \cup {"born"}
                      \/ op[t] = "STOR" /\ wpc[t] \in Received
               PROVE  \/ t \in cancelled'
                      \/ wpc[t] = "born" /\ sock' = None /\ ctl' \in {"aborJoin", "quitJoin"}
                      \/ wpc[t] \in BeforeMoved /\ wsock[t] \notin open'
    BY <1>0 DEF AbortInv
  <2>1. t \in Transfers
    BY <1>0 DEF TypeOK, AliveTransfers
  <2>2. CASE op[t] = "STOR" /\ wpc[t] \in Received
    BY <1>0, <2>1, <2>2 DEF EventInv
  <2> QED
    BY <1>0, <1>3, <2>2
<1>6. CancelHitsOnlyAborted'
  BY <1>0 DEF CancelHitsOnlyAborted, AliveTransfers, Alive
<1>7. NoSocketLeak'
  BY <1>0, <1>3 DEF NoSocketLeak
<1> QED
  BY <1>1, <1>2, <1>4, <1>5, <1>6, <1>7

LEMMA AnswerStep ==
    ASSUME IInv, Answer
    PROVE  IInv'
<1> USE NamesAssumption DEF IInv, historyVars, Received
<1>5. CASE Signal
  BY <1>5, SignalStep
<1>1. CASE Send150
  <2>0. /\ ctl = "send150" /\ ctl' = "ready"
        /\ UNCHANGED <<held, sessionVars, workerVars, systemVars, historyVars>>
    BY <1>1 DEF Send150
  <2>1. TypeOK'
    BY <2>0 DEF TypeOK, WorkerInv, sessionVars, workerVars, systemVars
  <2>2. WorkerInv' /\ EventInv'
    BY <2>0 DEF WorkerInv, EventInv, AliveTransfers, Alive, sessionVars,
       workerVars, MayCommit, InCancel, systemVars
  <2>3. AbortInv'
    BY <2>0 DEF AbortInv, workerVars, systemVars
  <2>4. CancelHitsOnlyAborted' /\ NoSocketLeak'
    BY <2>0 DEF CancelHitsOnlyAborted, NoSocketLeak, sessionVars, systemVars,
       AliveTransfers, Alive, workerVars
  <2> QED
    BY <2>1, <2>2, <2>3, <2>4
\* The join returned: the worker is past _event_for.
<1>2. ASSUME ctl \in {"aborJoin", "quitJoin"}, JoinReturns,
             NEW t \in Transfers, wpc[t] = "born"
      PROVE  FALSE
  <2>1. t = worker
    BY <1>2 DEF WorkerInv, AliveTransfers, Alive
  <2> QED
    BY <1>2, <2>1 DEF JoinReturns
<1>3. CASE AborReply
  <2>0. /\ ctl = "aborJoin" /\ ctl' = "ready" /\ JoinReturns
        /\ UNCHANGED <<held, sessionVars, workerVars, systemVars, historyVars>>
    BY <1>3 DEF AborReply
  <2>1. TypeOK'
    BY <2>0 DEF TypeOK, sessionVars, workerVars, systemVars
  <2>2. WorkerInv' /\ EventInv'
    BY <2>0 DEF WorkerInv, EventInv, AliveTransfers, Alive, sessionVars,
       workerVars, MayCommit, InCancel, systemVars
  <2>3. AbortInv'
    BY <1>2, <2>0 DEF AbortInv, TypeOK, workerVars, systemVars
  <2>4. CancelHitsOnlyAborted' /\ NoSocketLeak'
    BY <2>0 DEF CancelHitsOnlyAborted, NoSocketLeak, sessionVars, systemVars, AliveTransfers, Alive, workerVars
  <2> QED
    BY <2>1, <2>2, <2>3, <2>4
<1>4. CASE Cleanup
  <2>0. /\ ctl = "quitJoin" /\ ctl' = "closed" /\ JoinReturns
        /\ open' = open \ {sock} /\ sock' = None /\ endpoint' = None
        /\ current' = FALSE /\ worker' = None
        /\ UNCHANGED <<held, event, workerVars, cancelled, historyVars>>
    BY <1>4 DEF Cleanup
  <2>1. TypeOK'
    BY <2>0 DEF TypeOK, workerVars
  <2>2. WorkerInv' /\ EventInv'
    BY <2>0 DEF WorkerInv, EventInv, AliveTransfers, Alive, workerVars, MayCommit,
       InCancel
  <2>3. AbortInv'
    BY <1>2, <2>0 DEF AbortInv, TypeOK, workerVars
  <2>4. CancelHitsOnlyAborted' /\ NoSocketLeak'
    BY <2>0 DEF CancelHitsOnlyAborted, NoSocketLeak, AliveTransfers,
       Alive, workerVars
  <2> QED
    BY <2>1, <2>2, <2>3, <2>4
<1> QED
  BY <1>1, <1>3, <1>4, <1>5, PathStep DEF Answer

-----------------------------------------------------------------------------
(* The workers *)

\* Steps that move the worker on and change nothing the session can see.  From
\* one of these places to the next no clause of the invariant becomes stronger,
\* unless the upload is about to commit.
LEMMA QuietStep ==
    ASSUME IInv, NEW t \in Transfers,
           AwaitPeer(t) \/ BeginMove(t) \/ EndMove(t) \/ LeaveGrace(t)
             \/ CheckCancel(t) \/ Succeed(t) \/ Fail(t)
    PROVE  IInv'
<1> USE NamesAssumption DEF IInv, historyVars, Received
<1>0. PICK place \in HasEvent :
        /\ wpc' = [wpc EXCEPT ![t] = place]
        /\ wpc[t] \in HasEvent
        /\ place \in BeforeMoved => wpc[t] \in BeforeMoved
        /\ place = "grace" => /\ wpc[t] = "moving" /\ HasSocket(t) /\ ~InCancel
                              /\ op[t] = "STOR"
        /\ place = "moved" => \/ wpc[t] = "moving" /\ op[t] # "STOR"
                              \/ wpc[t] = "grace"
        /\ UNCHANGED <<sessionVars, controlVars, op, wsock, wmode, systemVars, historyVars>>
  BY DEF AwaitPeer, BeginMove, EndMove, LeaveGrace, CheckCancel, Succeed, Fail, MayFail,
     PeerReady, GoTo, HasEvent, BeforeMoved, TypeOK
<1>1. TypeOK'
  BY <1>0 DEF TypeOK, Places, HasEvent, sessionVars, systemVars,
     controlVars
<1>2. AliveTransfers' = AliveTransfers
  BY <1>0 DEF AliveTransfers, Alive, HasEvent
<1>3. WorkerInv'
  BY <1>0, <1>1, <1>2 DEF WorkerInv, HasEvent, Places, sessionVars, controlVars
<1>4. EventInv'
  <2>1. UNCHANGED <<event, held, ctl, op, wsock, open>>
    BY <1>0 DEF sessionVars, controlVars, systemVars
  <2>2. \A u \in Transfers : wpc'[u] = IF u = t THEN place ELSE wpc[u]
    BY <1>0 DEF TypeOK
  \* The worker still has what it needs, or had it when it moved the data.
  <2>3. MayCommit(t)' => MayCommit(t)
    BY <1>0, <2>1, <2>2 DEF MayCommit, HasSocket, HasEvent, BeforeMoved
  <2>4. \A u \in Transfers : MayCommit(u)' => MayCommit(u)
    BY <2>1, <2>2, <2>3 DEF MayCommit
  <2>5. event' \in Transfers => wpc'[event'] \in HasEvent
    BY <2>1, <2>2 DEF EventInv
  <2>7. \A u \in Transfers : wpc'[u] = "grace" => op'[u] = "STOR"
    BY <1>0, <2>1, <2>2 DEF EventInv
  <2>6. \A u \in Transfers : InCancel' /\ op'[u] = "STOR" /\ wpc'[u] \in Received
                                => held' = u
    BY <1>0, <2>1, <2>2 DEF EventInv, InCancel
  <2> QED
    BY <2>1, <2>4, <2>5, <2>6, <2>7 DEF EventInv
<1>5. AbortInv'
  <2>1. UNCHANGED <<ctl, sock, op, wsock, open, cancelled, historyVars>>
    BY <1>0 DEF sessionVars, controlVars, systemVars
  <2>2. \A u \in Transfers : wpc'[u] = IF u = t THEN place ELSE wpc[u]
    BY <1>0 DEF TypeOK
  <2>3. aborted \subseteq Transfers
    BY DEF TypeOK
  <2> QED
    BY <1>0, <2>1, <2>2, <2>3 DEF AbortInv, HasSocket, BeforeMoved, HasEvent
<1>6. CancelHitsOnlyAborted' /\ NoSocketLeak'
  BY <1>0, <1>2 DEF CancelHitsOnlyAborted, NoSocketLeak, sessionVars, controlVars,
                    systemVars
<1> QED
  BY <1>1, <1>3, <1>4, <1>5, <1>6

\* A worker that takes up the session's socket finds the cancelled one gone.
LEMMA ReadEndpointStep ==
    ASSUME IInv, NEW t \in Transfers, ReadEndpoint(t)
    PROVE  IInv'
<1> USE NamesAssumption DEF IInv, historyVars, Received
<1>0. /\ wpc[t] = "born" /\ wpc' = [wpc EXCEPT ![t] = "read"]
      /\ wsock' = [wsock EXCEPT ![t] = sock]
      /\ wmode' = [wmode EXCEPT ![t] = endpoint]
      /\ UNCHANGED <<sessionVars, controlVars, op, systemVars, historyVars>>
  BY DEF ReadEndpoint, GoTo
<1>1. TypeOK'
  BY <1>0 DEF TypeOK, Places, sessionVars, systemVars, controlVars
<1>2. WorkerInv'
  BY <1>0, <1>1 DEF WorkerInv, AliveTransfers, Alive, Places, sessionVars,
     controlVars
<1>3. EventInv'
  BY <1>0 DEF EventInv, HasEvent, sessionVars, MayCommit, InCancel, controlVars,
     systemVars
<1>4. sock = None => wsock'[t] \notin open
  BY <1>0 DEF TypeOK
<1>5. AbortInv'
  BY <1>0, <1>4 DEF AbortInv, BeforeMoved, sessionVars, systemVars,
     controlVars
<1>6. CancelHitsOnlyAborted' /\ NoSocketLeak'
  BY <1>0 DEF CancelHitsOnlyAborted, NoSocketLeak, sessionVars, systemVars, AliveTransfers, Alive, controlVars
<1> QED
  BY <1>1, <1>2, <1>3, <1>5, <1>6

LEMMA MakeEventStep ==
    ASSUME IInv, NEW t \in Transfers, MakeEvent(t)
    PROVE  IInv'
<1> USE NamesAssumption DEF IInv, historyVars, Received
<1>0. /\ wpc[t] = "read" /\ wpc' = [wpc EXCEPT ![t] = "event"]
      /\ event' = t /\ cancelled' = cancelled
      /\ UNCHANGED <<sock, endpoint, current, worker, controlVars, op, wsock,
                     wmode, open, historyVars>>
  BY DEF MakeEvent, EventFor, GoTo
<1>1. TypeOK'
  BY <1>0 DEF TypeOK, Places, controlVars
<1>2. WorkerInv'
  BY <1>0, <1>1 DEF WorkerInv, AliveTransfers, Alive, Places, controlVars
<1>3. EventInv'
  <2>1. \A u \in Transfers : Alive(u) => u = t
    BY <1>0 DEF WorkerInv, AliveTransfers, Alive
  <2> QED
    BY <1>0, <2>1 DEF EventInv, TypeOK, HasEvent, Alive, MayCommit
<1>4. AbortInv'
  BY <1>0 DEF AbortInv, BeforeMoved, controlVars
<1>5. CancelHitsOnlyAborted' /\ NoSocketLeak'
  BY <1>0 DEF CancelHitsOnlyAborted, NoSocketLeak, AliveTransfers,
     Alive, controlVars
<1> QED
  BY <1>1, <1>2, <1>3, <1>4, <1>5

LEMMA MakeContextStep ==
    ASSUME IInv, NEW t \in Transfers, MakeContext(t)
    PROVE  IInv'
<1> USE NamesAssumption DEF IInv, historyVars, Received
<1>0. /\ wpc[t] = "event" /\ wpc' = [wpc EXCEPT ![t] = "context"]
      /\ UNCHANGED <<sessionVars, controlVars, op, wsock, wmode, systemVars, historyVars>>
  BY DEF MakeContext, GoTo
<1>1. TypeOK'
  BY <1>0 DEF TypeOK, Places, sessionVars, systemVars, controlVars
<1>2. WorkerInv'
  BY <1>0, <1>1 DEF WorkerInv, AliveTransfers, Alive, Places, sessionVars,
     controlVars
<1>3. EventInv'
  BY <1>0 DEF EventInv, HasEvent, sessionVars, MayCommit, InCancel, controlVars,
     systemVars
<1>4. AbortInv'
  BY <1>0 DEF AbortInv, BeforeMoved, sessionVars, systemVars,
     controlVars
<1>5. CancelHitsOnlyAborted' /\ NoSocketLeak'
  BY <1>0 DEF CancelHitsOnlyAborted, NoSocketLeak, sessionVars, systemVars, AliveTransfers, Alive, controlVars
<1> QED
  BY <1>1, <1>2, <1>3, <1>4, <1>5

LEMMA FinishStep ==
    ASSUME IInv, NEW t \in Transfers, Finish(t)
    PROVE  IInv'
<1> USE NamesAssumption DEF IInv, historyVars, Received
<1>0. /\ wpc[t] = "finish" /\ wpc' = [wpc EXCEPT ![t] = "cleaning"]
      /\ event' = IF event = t THEN None ELSE event
      /\ current' = FALSE
      /\ UNCHANGED <<sock, endpoint, worker, controlVars, op, wsock, wmode, systemVars, historyVars>>
  BY DEF Finish, CurrentAfter, GoTo
<1>1. TypeOK'
  BY <1>0 DEF TypeOK, Places, systemVars, controlVars
<1>2. \A u \in Transfers : Alive(u) => u = t
  BY <1>0 DEF WorkerInv, AliveTransfers, Alive
<1>3. WorkerInv'
  BY <1>0, <1>1, <1>2 DEF WorkerInv, TypeOK, AliveTransfers, Alive, controlVars
<1>4. EventInv'
  BY <1>0, <1>2 DEF EventInv, HasEvent, Alive, MayCommit
<1>5. AbortInv'
  BY <1>0 DEF AbortInv, BeforeMoved, systemVars, controlVars
<1>6. CancelHitsOnlyAborted' /\ NoSocketLeak'
  BY <1>0 DEF CancelHitsOnlyAborted, NoSocketLeak, systemVars,
     AliveTransfers, Alive, controlVars
<1> QED
  BY <1>1, <1>3, <1>4, <1>5, <1>6

\* The end of a worker, after its transfer
LEMMA EndingStep ==
    ASSUME IInv, NEW t \in Transfers, FinishSocket(t) \/ FinalReply(t) \/ Die(t)
    PROVE  IInv'
<1> USE NamesAssumption DEF IInv, historyVars, Received
<1> DEFINE Ending == {"reply", "ending", "dead"}
<1>0. PICK place \in Ending :
        /\ wpc' = [wpc EXCEPT ![t] = place]
        /\ wpc[t] \in {"cleaning", "reply", "ending"}
        /\ open' \subseteq open /\ open' \subseteq {sock'} /\ (sock = None => sock' = None)
        /\ ctl = "closed" => open' = {}
        /\ \A u \in Transfers : u # t => op'[u] = op[u] /\ wsock'[u] = wsock[u]
        /\ UNCHANGED <<current, worker, event, controlVars, cancelled, historyVars>>
  BY DEF FinishSocket, FinalReply, Die, GoTo, NoSocketLeak, TypeOK, sessionVars,
     systemVars, controlVars
<1>1. TypeOK'
  BY DEF FinishSocket, FinalReply, Die, GoTo, TypeOK, Places, sessionVars,
     systemVars, controlVars
<1>2. \A u \in Transfers : Alive(u) => u = t
  BY <1>0 DEF WorkerInv, AliveTransfers, Alive
<1>3. WorkerInv'
  BY <1>0, <1>1, <1>2 DEF WorkerInv, AliveTransfers, Alive, controlVars
<1>4. EventInv'
  BY <1>0 DEF EventInv, HasEvent, MayCommit, InCancel, controlVars
<1>5. AbortInv'
  BY <1>0 DEF AbortInv, TypeOK, BeforeMoved, controlVars
<1>6. CancelHitsOnlyAborted' /\ NoSocketLeak'
  BY <1>0 DEF CancelHitsOnlyAborted, NoSocketLeak, AliveTransfers,
     Alive, controlVars
<1> QED
  BY <1>1, <1>3, <1>4, <1>5, <1>6

-----------------------------------------------------------------------------
LEMMA NextInv == IInv /\ [Next]_vars => IInv'
<1> SUFFICES ASSUME IInv, [Next]_vars PROVE IInv'
  OBVIOUS
<1>1. CASE Command
  BY <1>1, EndpointCommands, PathStep, StartStep, StartFailsStep,
     CancelReadsStep DEF Command, Abor, Leave
<1>2. CASE Answer
  BY <1>2, AnswerStep
<1>3. ASSUME NEW t \in Transfers, Worker(t) PROVE IInv'
  BY <1>3, ReadEndpointStep, MakeEventStep, MakeContextStep, QuietStep, FinishStep,
     EndingStep DEF Worker
<1>4. CASE UNCHANGED vars
  BY <1>4 DEF vars, sessionVars, controlVars, workerVars, systemVars,
     IInv, TypeOK,
     WorkerInv, EventInv, AbortInv, CancelHitsOnlyAborted, NoSocketLeak,
     AliveTransfers, Alive, MayCommit, InCancel, historyVars
<1> QED
  BY <1>1, <1>2, <1>3, <1>4 DEF Next, Ended

\* The inductive invariant holds in every reachable state.
THEOREM Invariance == Spec => []IInv
  BY InitInv, NextInv, PTL DEF Spec

\* At most one worker is alive, whatever the client sends: the 450 check of
\* _transfer_in_progress covers the worker from its start to its last step.
THEOREM OneAtATime == Spec => []OneWorker
<1>1. IInv => OneWorker
  <2> SUFFICES ASSUME IInv PROVE Cardinality(AliveTransfers) <= 1
    BY DEF OneWorker
  <2>1. CASE AliveTransfers = {}
    BY <2>1, FS_EmptySet
  <2>2. ASSUME NEW t \in AliveTransfers PROVE Cardinality(AliveTransfers) <= 1
    <3>1. AliveTransfers = {t}
      BY <2>2 DEF IInv, WorkerInv
    <3> QED
      BY <3>1, FS_Singleton
  <2> QED
    BY <2>1, <2>2
<1> QED
  BY <1>1, Invariance, PTL

\* An upload that a cancel found running never publishes its file afterwards,
\* although the worker may never see the event that ABOR set.
THEOREM AbortStopsUploads == Spec => AbortedNeverCommits
<1>1. IInv /\ [Next]_vars =>
        [\A t \in aborted :
            op[t] = "STOR" /\ wpc[t] = "moved" => wpc'[t] # "committing"]_vars
  <2> SUFFICES ASSUME IInv, Next, NEW t \in aborted, op[t] = "STOR",
                      wpc[t] = "moved", wpc'[t] = "committing"
               PROVE  FALSE
    OBVIOUS
  <2>1. t \in cancelled /\ t \in Transfers
    BY DEF IInv, AbortInv, BeforeMoved, Received, TypeOK
  <2>2. ASSUME NEW u \in Transfers, Worker(u) PROVE CheckCancel(t)
    BY <2>1, <2>2 DEF Worker, ReadEndpoint, MakeEvent, MakeContext, AwaitPeer,
       BeginMove,
       PeerReady, EndMove, LeaveGrace, CheckCancel, Succeed, Fail, Finish, FinishSocket, FinalReply,
       Die, GoTo, IInv, TypeOK
  <2>3. wpc' = wpc \/ \E u \in Transfers : Worker(u) \/ wpc' = [wpc EXCEPT ![u] = "born"]
    BY DEF Next, Command, OpenEndpoint, OpenFails, StartTransfer, StartFails, Abor,
       Leave, AskPath, PathReply,
       CancelReads, Answer, Send150, Signal, AborReply, Cleanup, Ended, vars, workerVars
  <2>4. CheckCancel(t)
    BY <2>1, <2>2, <2>3 DEF IInv, TypeOK
  <2> QED
    BY <2>1, <2>4 DEF CheckCancel, PassesCheck
<1> QED
  BY <1>1, Invariance, PTL DEF Spec, AbortedNeverCommits

\* An ABOR that has been answered has reached the transfer it found, by its event or
\* by its socket, in whatever order the two threads read and wrote the session.
THEOREM AbortReaches == Spec => []AbortReachesTransfer
<1>1. IInv => AbortReachesTransfer
  BY DEF IInv, AbortInv, EventInv, AbortReachesTransfer, BeforeMoved, Received,
     TypeOK
<1> QED
  BY <1>1, Invariance, PTL

\* No open data socket is lost track of, and a closed session leaves none.
THEOREM SocketsAccounted == Spec => []NoSocketLeak
<1>1. IInv => NoSocketLeak
  BY DEF IInv
<1> QED
  BY <1>1, Invariance, PTL

\* A cancel never reaches a transfer that starts after it.
THEOREM CancelIsLocal == Spec => []CancelHitsOnlyAborted
<1>1. IInv => CancelHitsOnlyAborted
  BY DEF IInv
<1> QED
  BY <1>1, Invariance, PTL

\* The 450 refusal ends with the transfer.
THEOREM BusyEnds == Spec => []NeverStuckBusy
<1>1. IInv => NeverStuckBusy
  BY NamesAssumption DEF IInv, TypeOK, WorkerInv, NeverStuckBusy, AliveTransfers,
     Alive, Places
<1> QED
  BY <1>1, Invariance, PTL
=============================================================================
