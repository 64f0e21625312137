------------------------------ MODULE GoBackN -------------------------------
(***************************************************************************)
(* One transfer of common/rdt_sender.py and common/rdt_receiver.py: the    *)
(* START handshake, the Go-Back-N data window, cumulative ACKs, the FIN    *)
(* grace period, ABORT, cancellation and closed data sockets, over a UDP   *)
(* network that may lose, delay, reorder, duplicate and corrupt.           *)
(*                                                                         *)
(* A datagram is named by what the code distinguishes: its type and its    *)
(* sequence (or ACK) number.  JUNK is any datagram that a receive loop     *)
(* takes from its socket and then ignores: bad checksum, length, flags,    *)
(* transfer id or source address, or a readiness probe.  A lost datagram   *)
(* is one nobody ever receives.                                            *)
(***************************************************************************)
EXTENDS Integers, Sequences, FiniteSets

CONSTANTS
    File,             \* the chunks the sender's iterable yields
    WindowSize,       \* window_size
    RetryLimit,       \* retry_limit, for START and for each window
    MaxTimeouts,      \* max_timeouts of the receive loop
    GraceAttempts,    \* grace_attempts of _fin_grace
    MaxCopies,        \* bound: copies of one datagram the network holds
    Probes,           \* bound: readiness probes waiting at the sender's socket
    LossBudget,       \* bound: losses by the explicit Lose action
    TimerLag,         \* patient timers: receiver timeouts in one sender wait
    Faults            \* what may go wrong, a subset of AllFaults

AllFaults == {"earlyTimeout", "duplicate", "corrupt", "cancel", "close",
              "source", "consumer", "mismatch"}

N == Len(File)

ASSUME FileAssumption == File \in Seq(STRING) /\ N \in Nat \ {0}
ASSUME LimitAssumption ==
    /\ WindowSize \in Nat \ {0}
    /\ RetryLimit \in Nat \ {0}
    /\ MaxTimeouts \in Nat \ {0}
    /\ GraceAttempts \in Nat
    /\ MaxCopies \in Nat \ {0}
    /\ Probes \in 0..MaxCopies
    /\ LossBudget \in Nat
    /\ TimerLag \in Nat
ASSUME FaultAssumption == Faults \subseteq AllFaults

VARIABLES
    \* the sender: send_chunks_rdt
    spc,              \* where it is in the function
    attempt,          \* START attempts made
    nextSeq,          \* next_seq
    lastAcked,        \* last_acked
    window,           \* keys of window
    exhausted,        \* pending_exhausted
    sTimeouts,        \* timeout_count
    sCancel,          \* its cancel_event
    sOpen,            \* its data socket is open
    sWhy,             \* the reason it raised
    \* the receiver: receive_chunks_rdt
    rpc,
    expected,         \* expected_seq
    delivered,        \* the payloads it has yielded
    rTimeouts,        \* timeout_count
    graceLeft,        \* iterations left in _fin_grace
    rCancel,
    rOpen,
    \* the environment
    agreed,           \* both ends negotiated the same MODE and TYPE
    toR, toS,         \* copies in flight to the receiver, to the sender
    losses,           \* history: datagrams dropped by Lose
    lag               \* patient timers: receiver timeouts since the sender's
                      \* recvfrom began

sVars == <<spc, attempt, nextSeq, lastAcked, window, exhausted, sTimeouts, sWhy>>
rVars == <<rpc, expected, delivered, rTimeouts, graceLeft>>
nVars == <<sCancel, sOpen, rCancel, rOpen, agreed, losses>>
eVars == <<nVars, lag>>
vars  == <<sVars, rVars, eVars, toR, toS>>

-----------------------------------------------------------------------------
(* Datagrams and channels *)

START == [type |-> "START", seq |-> 0]
ABORT == [type |-> "ABORT", seq |-> 0]
JUNK  == [type |-> "JUNK", seq |-> 0]
Ack(k) == [type |-> "ACK", seq |-> k]

\* _lookahead marks the last chunk, and only it, as FIN
MutantPacket(k) ==
    [type |-> IF k + 2 >= N THEN "FIN" ELSE "DATA", seq |-> k, chunk |-> File[k + 1]]
Packet(k) ==
    [type |-> IF k = N - 1 THEN "FIN" ELSE "DATA", seq |-> k, chunk |-> File[k + 1]]

DataPackets == {Packet(k) : k \in 0 .. N - 1}
ToReceiver  == {START, ABORT, JUNK} \cup DataPackets
ToSender    == {Ack(k) : k \in 0 .. N - 1} \cup {JUNK}

\* sendto: a copy beyond the network's capacity is lost
Put(chan, p) == [chan EXCEPT ![p] = IF @ < MaxCopies THEN @ + 1 ELSE @]
PutAll(chan, ps) ==
    [p \in DOMAIN chan |->
        IF p \in ps /\ chan[p] < MaxCopies THEN chan[p] + 1 ELSE chan[p]]
Take(chan, p) == [chan EXCEPT ![p] = @ - 1]
Empty(chan) == \A p \in DOMAIN chan : chan[p] = 0

SenderEnded   == spc \in {"done", "failed"}
ReceiverEnded == rpc \in {"done", "failed"}

\* Patient timers: datagrams travel, and the callers take chunks, in no time
\* next to timeout_s.  An end then times out only in its recvfrom, with nothing
\* in flight, while the other end is in its own recvfrom or has ended.  Both
\* timers are timeout_s long: while one recvfrom of the sender lasts, the
\* receiver times out at most TimerLag times.
Patient == "earlyTimeout" \notin Faults
Quiet == Empty(toS) /\ Empty(toR)
SenderTimer ==
    Patient => \/ ReceiverEnded /\ Empty(toS)
               \/ rpc \in {"recv", "grace"} /\ Quiet
ReceiverTimer ==
    Patient => \/ SenderEnded /\ Empty(toR)
               \/ spc \in {"startWait", "wait"} /\ Quiet /\ lag < TimerLag
SenderWaits == lag' = 0
ReceiverTimesOut == lag' = IF Patient /\ ~SenderEnded THEN lag + 1 ELSE lag

-----------------------------------------------------------------------------
Init ==
    /\ spc = "start" /\ attempt = 0
    /\ nextSeq = 0 /\ lastAcked = -1 /\ window = {} /\ exhausted = FALSE
    /\ sTimeouts = 0 /\ sCancel = FALSE /\ sOpen = TRUE /\ sWhy = "none"
    /\ rpc = "top" /\ expected = 0 /\ delivered = <<>> /\ rTimeouts = 0
    /\ graceLeft = GraceAttempts /\ rCancel = FALSE /\ rOpen = TRUE
    /\ agreed \in IF "mismatch" \in Faults THEN BOOLEAN ELSE {TRUE}
    /\ toR = [p \in ToReceiver |-> 0]
    /\ \E n \in 0 .. Probes : toS = [p \in ToSender |-> IF p = JUNK THEN n ELSE 0]
    /\ losses = 0 /\ lag = 0

-----------------------------------------------------------------------------
(* The sender.  SFail raises: why is the exception's reason.               *)

SFail(why) ==
    /\ spc' = "failed"
    /\ sWhy' = why
    /\ UNCHANGED <<attempt, nextSeq, lastAcked, window, exhausted, sTimeouts>>

\* _send_abort: a closed socket's error is swallowed
SendAbort == toR' = IF sOpen THEN Put(toR, ABORT) ELSE toR

\* One iteration of _send_start_with_ack up to its recvfrom
StartAttempt ==
    /\ spc = "start"
    /\ IF attempt = RetryLimit
         THEN SFail("startRetries") /\ UNCHANGED <<toR, lag>>
         ELSE IF sCancel
         THEN SFail("cancelled") /\ SendAbort /\ UNCHANGED lag
         ELSE /\ spc' = "startWait" /\ SenderWaits
              /\ attempt' = attempt + 1
              /\ toR' = IF sOpen THEN Put(toR, START) ELSE toR
              /\ UNCHANGED <<nextSeq, lastAcked, window, exhausted, sTimeouts, sWhy>>
    /\ UNCHANGED <<rVars, nVars, toS>>

\* ACK 0 opens the data window; any other datagram uses the attempt up
StartReply ==
    /\ spc = "startWait" /\ sOpen
    /\ \E p \in ToSender :
        /\ toS[p] > 0
        /\ toS' = Take(toS, p)
        /\ spc' = IF p = Ack(0) THEN "loop" ELSE "start"
    /\ UNCHANGED <<attempt, nextSeq, lastAcked, window, exhausted, sTimeouts,
                   sWhy, rVars, eVars, toR>>

StartTimeout ==
    /\ spc = "startWait" /\ SenderTimer
    /\ spc' = "start"
    /\ UNCHANGED <<attempt, nextSeq, lastAcked, window, exhausted, sTimeouts,
                   sWhy, rVars, eVars, toR, toS>>

MutantCanFill == ~exhausted /\ Cardinality(window) <= WindowSize
CanFill == ~exhausted /\ Cardinality(window) < WindowSize

\* recvfrom or sendto on the data socket another thread has closed
SenderSocketError ==
    /\ ~sOpen
    /\ spc \in {"startWait", "wait"} \/ (spc = "fill" /\ CanFill /\ nextSeq < N)
    /\ SFail("closed")
    /\ UNCHANGED <<rVars, eVars, toR, toS>>

\* The head of the while loop and its cancellation check
LoopHead ==
    /\ spc = "loop"
    /\ IF exhausted /\ window = {}
         THEN /\ spc' = "done"
              /\ UNCHANGED <<attempt, nextSeq, lastAcked, window, exhausted,
                             sTimeouts, sWhy, toR>>
         ELSE IF sCancel
         THEN SFail("cancelled") /\ SendAbort
         ELSE /\ spc' = "fill"
              /\ UNCHANGED <<attempt, nextSeq, lastAcked, window, exhausted,
                             sTimeouts, sWhy, toR>>
    /\ UNCHANGED <<rVars, eVars, toS>>

\* One iteration of the fill loop that gets a chunk and sends it
FillSend ==
    /\ spc = "fill" /\ CanFill /\ nextSeq < N /\ sOpen
    /\ window' = window \cup {nextSeq}
    /\ nextSeq' = nextSeq + 1
    /\ toR' = Put(toR, Packet(nextSeq))
    /\ UNCHANGED <<spc, attempt, lastAcked, exhausted, sTimeouts, sWhy,
                   rVars, eVars, toS>>

\* StopIteration
FillExhausted ==
    /\ spc = "fill" /\ CanFill /\ nextSeq = N
    /\ exhausted' = TRUE
    /\ spc' = "wait" /\ SenderWaits
    /\ UNCHANGED <<attempt, nextSeq, lastAcked, window, sTimeouts, sWhy,
                   rVars, nVars, toR, toS>>

FillFull ==
    /\ spc = "fill" /\ ~CanFill
    /\ spc' = "wait" /\ SenderWaits
    /\ UNCHANGED <<attempt, nextSeq, lastAcked, window, exhausted, sTimeouts,
                   sWhy, rVars, nVars, toR, toS>>

\* The iterable (file read, mode encoder) raises instead of yielding
SourceFails ==
    /\ "source" \in Faults
    /\ spc = "fill" /\ CanFill
    /\ SFail("source")
    /\ UNCHANGED <<rVars, eVars, toR, toS>>

AckInWindow(k) == lastAcked < k /\ k < nextSeq

\* timeout_count after a valid new ACK
MutantTimeoutsAfterAck == sTimeouts
TimeoutsAfterAck == 0

\* A valid new ACK slides the window
WindowAck ==
    /\ spc = "wait" /\ sOpen
    /\ \E k \in 0 .. N - 1 :
        /\ toS[Ack(k)] > 0
        /\ AckInWindow(k)
        /\ toS' = Take(toS, Ack(k))
        /\ window' = {s \in window : s > k}
        /\ lastAcked' = k
    /\ sTimeouts' = TimeoutsAfterAck
    /\ spc' = "loop"
    /\ UNCHANGED <<attempt, nextSeq, exhausted, sWhy, rVars, eVars, toR>>

\* Any other datagram is taken from the socket and ignored
IgnoredReply ==
    /\ spc = "wait" /\ sOpen
    /\ \E p \in ToSender :
        /\ toS[p] > 0
        /\ p.type = "ACK" => ~AckInWindow(p.seq)
        /\ toS' = Take(toS, p)
    /\ spc' = "loop"
    /\ UNCHANGED <<attempt, nextSeq, lastAcked, window, exhausted, sTimeouts,
                   sWhy, rVars, eVars, toR>>

\* Retransmit the whole window, or give up at the retry limit.  A sendto that
\* fails halfway (closed socket) is the batch with its tail lost.
WindowTimeout ==
    /\ spc = "wait" /\ SenderTimer
    /\ IF sTimeouts + 1 >= RetryLimit
         THEN SFail("retries") /\ UNCHANGED toR
         ELSE /\ sTimeouts' = sTimeouts + 1
              /\ IF sOpen \/ window = {}
                   THEN /\ spc' = "loop" /\ UNCHANGED sWhy
                        /\ toR' = PutAll(toR, {Packet(k) : k \in window})
                   ELSE spc' = "failed" /\ sWhy' = "closed" /\ UNCHANGED toR
              /\ UNCHANGED <<attempt, nextSeq, lastAcked, window, exhausted>>
    /\ UNCHANGED <<rVars, eVars, toS>>

Sender ==
    \/ StartAttempt \/ StartReply \/ StartTimeout \/ SenderSocketError
    \/ LoopHead \/ FillSend \/ FillExhausted \/ FillFull \/ SourceFails
    \/ WindowAck \/ IgnoredReply \/ WindowTimeout

-----------------------------------------------------------------------------
(* The receiver.                                                           *)

\* The head of the receive loop: the cancellation check
ReceiveHead ==
    /\ rpc = "top"
    /\ rpc' = IF rCancel THEN "failed" ELSE "recv"
    /\ UNCHANGED <<expected, delivered, rTimeouts, graceLeft,
                   sVars, eVars, toR, toS>>

\* The MODE and TYPE that START carries are the ones this end negotiated
MutantCompatible == TRUE
Compatible == agreed

\* START: every one is acknowledged, unless MODE or TYPE disagree
ReceiveStart ==
    /\ rpc = "recv" /\ rOpen /\ toR[START] > 0
    /\ toR' = Take(toR, START)
    /\ rTimeouts' = 0
    /\ IF Compatible
         THEN rpc' = "top" /\ toS' = Put(toS, Ack(0))
         ELSE rpc' = "failed" /\ UNCHANGED toS
    /\ UNCHANGED <<expected, delivered, graceLeft, sVars, eVars>>

ReceiveAbort ==
    /\ rpc = "recv" /\ rOpen /\ toR[ABORT] > 0
    /\ toR' = Take(toR, ABORT)
    /\ rTimeouts' = 0
    /\ rpc' = "failed"
    /\ UNCHANGED <<expected, delivered, graceLeft, sVars, eVars, toS>>

ReceiveJunk ==
    /\ rpc = "recv" /\ rOpen /\ toR[JUNK] > 0
    /\ toR' = Take(toR, JUNK)
    /\ rTimeouts' = 0
    /\ rpc' = "top"
    /\ UNCHANGED <<expected, delivered, graceLeft, sVars, eVars, toS>>

\* The datagram the loop is waiting for: ACK it, then yield its payload
MutantAccepts(p) == p.seq >= expected
MutantAcceptsAgain(p) == p.seq <= expected
Accepts(p) == p.seq = expected

ReceiveInOrder ==
    /\ rpc = "recv" /\ rOpen
    /\ \E p \in DataPackets :
        /\ toR[p] > 0
        /\ Accepts(p)
        /\ toR' = Take(toR, p)
        /\ toS' = Put(toS, Ack(p.seq))
        /\ expected' = expected + 1
        /\ delivered' = Append(delivered, p.chunk)
        /\ rpc' = IF p.type = "FIN" THEN "yieldLast" ELSE "yield"
    /\ rTimeouts' = 0
    /\ UNCHANGED <<graceLeft, sVars, eVars>>

\* A duplicate or a gap: repeat the cumulative ACK, if there is one
MutantReAck(chan, p) == Put(chan, Ack(p.seq))
MutantNoReAck(chan, p) == chan
ReAck(chan, p) == IF expected > 0 THEN Put(chan, Ack(expected - 1)) ELSE chan

ReceiveOther ==
    /\ rpc = "recv" /\ rOpen
    /\ \E p \in DataPackets :
        /\ toR[p] > 0
        /\ ~Accepts(p)
        /\ toR' = Take(toR, p)
        /\ toS' = ReAck(toS, p)
    /\ rTimeouts' = 0
    /\ rpc' = "top"
    /\ UNCHANGED <<expected, delivered, graceLeft, sVars, eVars>>

ReceiveTimeout ==
    /\ rpc = "recv" /\ ReceiverTimer
    /\ rTimeouts' = rTimeouts + 1
    /\ rpc' = IF rTimeouts + 1 >= MaxTimeouts THEN "failed" ELSE "top"
    /\ ReceiverTimesOut
    /\ UNCHANGED <<expected, delivered, graceLeft, sVars, nVars, toR, toS>>

ReceiverSocketError ==
    /\ rpc = "recv" /\ ~rOpen
    /\ rpc' = "failed"
    /\ UNCHANGED <<expected, delivered, rTimeouts, graceLeft,
                   sVars, eVars, toR, toS>>

\* The caller asks the generator for the next payload.  After the last one,
\* _fin_grace's settimeout raises on a closed socket, outside its try.
ConsumerResumes ==
    /\ rpc \in {"yield", "yieldLast"}
    /\ rpc' = IF rpc = "yield" THEN "top" ELSE IF rOpen THEN "grace" ELSE "failed"
    /\ UNCHANGED <<expected, delivered, rTimeouts, graceLeft,
                   sVars, eVars, toR, toS>>

\* The caller raises (disk, decoder, cancellation) and drops the generator
ConsumerFails ==
    /\ "consumer" \in Faults
    /\ rpc \in {"yield", "yieldLast"}
    /\ rpc' = "failed"
    /\ UNCHANGED <<expected, delivered, rTimeouts, graceLeft,
                   sVars, eVars, toR, toS>>

\* _fin_grace: one iteration per datagram or timeout, whatever it is.  A FIN is
\* acknowledged again without a look at its checksum, corrupted or not.
GraceAcks(p) == p.type = "FIN" \/ (p = JUNK /\ "corrupt" \in Faults)

GraceDatagram ==
    /\ rpc = "grace" /\ rOpen /\ graceLeft > 0
    /\ \E p \in ToReceiver :
        /\ toR[p] > 0
        /\ toR' = Take(toR, p)
        /\ \/ GraceAcks(p) /\ toS' = Put(toS, Ack(N - 1))
           \/ p.type # "FIN" /\ UNCHANGED toS
    /\ graceLeft' = graceLeft - 1
    /\ UNCHANGED <<rpc, expected, delivered, rTimeouts, sVars, eVars>>

MutantGraceAfterTimeout == graceLeft
GraceAfterTimeout == graceLeft - 1

GraceTimeout ==
    /\ rpc = "grace" /\ graceLeft > 0 /\ ReceiverTimer
    /\ graceLeft' = GraceAfterTimeout
    /\ ReceiverTimesOut
    /\ UNCHANGED <<rpc, expected, delivered, rTimeouts, sVars, nVars, toR, toS>>

GraceEnds ==
    /\ rpc = "grace"
    /\ graceLeft = 0 \/ ~rOpen
    /\ rpc' = "done"
    /\ UNCHANGED <<expected, delivered, rTimeouts, graceLeft,
                   sVars, eVars, toR, toS>>

Receiver ==
    \/ ReceiveHead \/ ReceiveStart \/ ReceiveAbort \/ ReceiveJunk
    \/ ReceiveInOrder \/ ReceiveOther \/ ReceiveTimeout \/ ReceiverSocketError
    \/ ConsumerResumes \/ ConsumerFails
    \/ GraceDatagram \/ GraceTimeout \/ GraceEnds

-----------------------------------------------------------------------------
(* The environment: the other threads of each process, and the network.    *)

CancelSender ==
    /\ "cancel" \in Faults /\ ~SenderEnded /\ ~sCancel
    /\ sCancel' = TRUE
    /\ UNCHANGED <<sVars, rVars, sOpen, rCancel, rOpen, agreed, losses, lag, toR, toS>>

CancelReceiver ==
    /\ "cancel" \in Faults /\ ~ReceiverEnded /\ ~rCancel
    /\ rCancel' = TRUE
    /\ UNCHANGED <<sVars, rVars, sCancel, sOpen, rOpen, agreed, losses, lag, toR, toS>>

CloseSender ==
    /\ "close" \in Faults /\ ~SenderEnded /\ sOpen
    /\ sOpen' = FALSE
    /\ UNCHANGED <<sVars, rVars, sCancel, rCancel, rOpen, agreed, losses, lag, toR, toS>>

CloseReceiver ==
    /\ "close" \in Faults /\ ~ReceiverEnded /\ rOpen
    /\ rOpen' = FALSE
    /\ UNCHANGED <<sVars, rVars, sCancel, sOpen, rCancel, agreed, losses, lag, toR, toS>>

Duplicate ==
    /\ "duplicate" \in Faults
    /\ \/ \E p \in ToReceiver : toR[p] > 0 /\ toR' = Put(toR, p) /\ UNCHANGED toS
       \/ \E p \in ToSender : toS[p] > 0 /\ toS' = Put(toS, p) /\ UNCHANGED toR
    /\ UNCHANGED <<sVars, rVars, eVars>>

Corrupt ==
    /\ "corrupt" \in Faults
    /\ \/ \E p \in ToReceiver \ {JUNK} :
            toR[p] > 0 /\ toR' = Put(Take(toR, p), JUNK) /\ UNCHANGED toS
       \/ \E p \in ToSender \ {JUNK} :
            toS[p] > 0 /\ toS' = Put(Take(toS, p), JUNK) /\ UNCHANGED toR
    /\ UNCHANGED <<sVars, rVars, eVars>>

Lose ==
    /\ losses < LossBudget
    /\ \/ \E p \in ToReceiver : toR[p] > 0 /\ toR' = Take(toR, p) /\ UNCHANGED toS
       \/ \E p \in ToSender : toS[p] > 0 /\ toS' = Take(toS, p) /\ UNCHANGED toR
    /\ losses' = losses + 1
    /\ UNCHANGED <<sVars, rVars, sCancel, sOpen, rCancel, rOpen, agreed, lag>>

\* Both functions have returned or raised
Finished == SenderEnded /\ ReceiverEnded /\ UNCHANGED vars

Environment ==
    \/ CancelSender \/ CancelReceiver \/ CloseSender \/ CloseReceiver
    \/ Duplicate \/ Corrupt \/ Lose

Next == Sender \/ Receiver \/ Environment \/ Finished

Spec == Init /\ [][Next]_vars

\* Each side runs in a thread of its own and every receive has a timeout.
FairSpec == Spec /\ WF_vars(Sender) /\ WF_vars(Receiver)

-----------------------------------------------------------------------------
(* Properties *)

Chan(S) == [S -> 0 .. MaxCopies]

\* Every variable has the type its code gives it.
TypeOK ==
    /\ spc \in {"start", "startWait", "loop", "fill", "wait", "done", "failed"}
    /\ attempt \in 0 .. RetryLimit
    /\ nextSeq \in 0 .. N
    /\ lastAcked \in -1 .. N - 1
    /\ window \subseteq 0 .. N - 1
    /\ exhausted \in BOOLEAN
    /\ sTimeouts \in 0 .. RetryLimit - 1
    /\ sWhy \in {"none", "startRetries", "cancelled", "closed", "source", "retries"}
    /\ rpc \in {"top", "recv", "yield", "yieldLast", "grace", "done", "failed"}
    /\ expected \in 0 .. N
    /\ delivered \in Seq(STRING)
    /\ rTimeouts \in 0 .. MaxTimeouts
    /\ graceLeft \in 0 .. GraceAttempts
    /\ agreed \in BOOLEAN
    /\ sCancel \in BOOLEAN /\ sOpen \in BOOLEAN
    /\ rCancel \in BOOLEAN /\ rOpen \in BOOLEAN
    /\ toR \in Chan(ToReceiver)
    /\ toS \in Chan(ToSender)
    /\ losses \in 0 .. LossBudget
    /\ lag \in 0 .. TimerLag

\* Whatever the network does, the receiver yields the file's chunks in order,
\* each once, and nothing else (rdt_receiver.py's in-order test).
DeliveredPrefix == delivered = SubSeq(File, 1, expected)

\* The generator ends normally only after the whole file: a FIN is never taken
\* early, so a commit never publishes a truncated file.
ReceiverCompleteHasFile == rpc \in {"yieldLast", "grace", "done"} => delivered = File

\* send_chunks_rdt returns only when the receiver has been handed every chunk.
\* True of a file of two chunks or more.  A one-chunk file is different: see the
\* run start_ack_alias.
SuccessMeansDelivered == spc = "done" => delivered = File

\* The window holds exactly the sent and unacknowledged chunks, never more than
\* window_size, so everything a retransmission must repeat is there.
WindowIsUnacked ==
    /\ window = lastAcked + 1 .. nextSeq - 1
    /\ Cardinality(window) <= WindowSize

\* The sender reports an exhausted retry limit only while a chunk really is
\* unacknowledged.  When the last ACK empties the window before the end of the
\* iterable was seen, the loop waits once more for nothing: that wait must not
\* turn a complete transfer into a failure (it does when retry_limit is 1).
RetriesExhaustedOnlyIfUnacked ==
    RetryLimit > 1 /\ sWhy = "retries" => window # {}

\* If the two ends negotiated different MODE or TYPE, the START check stops the
\* transfer before a single chunk is yielded, and the sender never reports success.
MismatchDeliversNothing == ~agreed => delivered = <<>> /\ spc # "done"

-----------------------------------------------------------------------------
(* The inductive invariant behind the properties above: GoBackN_proofs shows *)
(* that it holds for every value of the constants.                           *)

\* The sender's bookkeeping agrees with the control state.
SenderInv ==
    /\ lastAcked < nextSeq
    /\ window = lastAcked + 1 .. nextSeq - 1
    /\ exhausted => nextSeq = N
    /\ spc = "done" => exhausted /\ window = {}

\* A receiver past its last payload has the whole file.
ReceiverInv ==
    /\ DeliveredPrefix
    /\ rpc \in {"yieldLast", "grace", "done"} => expected = N
    /\ rpc # "failed" => rTimeouts < MaxTimeouts

\* A cumulative ACK at or beyond sequence 1 is about chunks the receiver has.
\* Nothing can be said of ACK 0: it is also the ACK of START.
AcksInFlight == {k \in 0 .. N - 1 : toS[Ack(k)] > 0}
DataInFlight == {k \in 0 .. N - 1 : toR[Packet(k)] > 0}

AcksAreSound ==
    /\ \A k \in AcksInFlight : k >= 1 => k < expected
    /\ lastAcked >= 1 => lastAcked < expected

\* After a MODE or TYPE mismatch the data window never opens.
MismatchInv ==
    ~agreed =>
        /\ spc \in {"start", "startWait", "failed"}
        /\ expected = 0
        /\ AcksInFlight = {} /\ DataInFlight = {}

\* The strengthening that makes delivery, completion, success, window and
\* mismatch properties inductive.
IInv == TypeOK /\ SenderInv /\ ReceiverInv /\ AcksAreSound /\ MismatchInv

-----------------------------------------------------------------------------
Promise == INSTANCE ReliableTransfer WITH
    sender <- IF SenderEnded THEN spc ELSE "running",
    receiver <- IF ReceiverEnded THEN rpc ELSE "running"

\* The protocol implements in-order, exactly-once, all-or-nothing delivery.
ImplementsReliableTransfer == Promise!Spec

\* Both calls return or raise, whatever was lost: every wait is bounded.
BothEnd == <>(SenderEnded /\ ReceiverEnded)

\* With patient timers, and no more losses than the retry limits survive, the
\* receiver gets the whole file and ends, and the sender reports success if at
\* most one datagram was lost, be it the FIN or its ACK.  After two losses it may
\* fail although the file is there: receiver timeouts, old DATA and repeated
\* FINs all use up grace attempts.
SurvivesLosses ==
    <>(rpc = "done" /\ SenderEnded /\ (losses <= 1 => spc = "done"))
=============================================================================
