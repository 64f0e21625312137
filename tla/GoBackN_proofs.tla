--------------------------- MODULE GoBackN_proofs ---------------------------
(***************************************************************************)
(* Safety of the RDT transfer for every file, window size, retry limit,    *)
(* network capacity and set of faults.                                     *)
(***************************************************************************)
EXTENDS GoBackN, SequenceTheorems, FiniteSetTheorems, TLAPS

-----------------------------------------------------------------------------
(* Datagrams *)

LEMMA FileFacts ==
    /\ N \in Nat \ {0}
    /\ \A i \in 1 .. N : File[i] \in STRING
BY FileAssumption DEF N

\* Datagrams of different kinds are different, and ACK numbers identify ACKs.
LEMMA DatagramFacts ==
    /\ START \in ToReceiver /\ ABORT \in ToReceiver /\ JUNK \in ToReceiver
    /\ JUNK \in ToSender
    /\ \A k \in 0 .. N - 1 : Ack(k) \in ToSender /\ Ack(k) # JUNK
    /\ \A j, k \in 0 .. N - 1 : Ack(j) = Ack(k) => j = k
    /\ \A p \in ToSender : p = JUNK \/ \E k \in 0 .. N - 1 : p = Ack(k)
    /\ \A k \in 0 .. N - 1 : Ack(k).type = "ACK" /\ Ack(k).seq = k
BY FileFacts DEF START, ABORT, JUNK, ToReceiver, ToSender, Ack

LEMMA PacketFacts ==
    /\ \A k \in 0 .. N - 1 :
        /\ Packet(k) \in DataPackets
        /\ Packet(k) \in ToReceiver
        /\ Packet(k).seq = k
        /\ Packet(k).chunk = File[k + 1]
        /\ Packet(k).type = (IF k = N - 1 THEN "FIN" ELSE "DATA")
        /\ Packet(k) \notin {START, ABORT, JUNK}
    /\ \A p \in DataPackets : p.seq \in 0 .. N - 1 /\ p = Packet(p.seq) /\ p \in ToReceiver
    /\ \A p \in ToReceiver : p.type = "FIN" => p \in DataPackets /\ p.seq = N - 1
BY FileFacts DEF START, ABORT, JUNK, ToReceiver, DataPackets, Packet

-----------------------------------------------------------------------------
(* Channels *)

LEMMA PutFacts ==
    ASSUME NEW S, NEW chan \in Chan(S), NEW p \in S
    PROVE  /\ Put(chan, p) \in Chan(S)
           /\ \A q \in S : q # p => Put(chan, p)[q] = chan[q]
BY LimitAssumption DEF Put, Chan

LEMMA TakeFacts ==
    ASSUME NEW S, NEW chan \in Chan(S), NEW p \in S, chan[p] > 0
    PROVE  /\ Take(chan, p) \in Chan(S)
           /\ \A q \in S : Take(chan, p)[q] > 0 => chan[q] > 0
           /\ \A q \in S : chan[q] = 0 => Take(chan, p)[q] = 0
BY LimitAssumption DEF Take, Chan

LEMMA PutAllFacts ==
    ASSUME NEW S, NEW chan \in Chan(S), NEW ps
    PROVE  /\ PutAll(chan, ps) \in Chan(S)
           /\ ps = {} => PutAll(chan, ps) = chan
BY LimitAssumption DEF PutAll, Chan

TypedChannels == toR \in Chan(ToReceiver) /\ toS \in Chan(ToSender)

\* What a send or a receive does to the ACKs and the data in flight.
LEMMA AckSent ==
    ASSUME TypedChannels, NEW k \in 0 .. N - 1, toS' = Put(toS, Ack(k))
    PROVE  toS' \in Chan(ToSender) /\ AcksInFlight' \subseteq AcksInFlight \cup {k}
<1>1. /\ toS' \in Chan(ToSender)
      /\ \A q \in ToSender : q # Ack(k) => toS'[q] = toS[q]
  BY DatagramFacts, PutFacts DEF TypedChannels
<1> QED
  BY <1>1, DatagramFacts DEF AcksInFlight

LEMMA ReplyTaken ==
    ASSUME TypedChannels, NEW p \in ToSender, toS[p] > 0, toS' = Take(toS, p)
    PROVE  toS' \in Chan(ToSender) /\ AcksInFlight' \subseteq AcksInFlight
BY DatagramFacts, TakeFacts DEF TypedChannels, AcksInFlight

LEMMA ControlSent ==
    ASSUME TypedChannels, NEW p \in {START, ABORT, JUNK}, toR' = Put(toR, p)
    PROVE  toR' \in Chan(ToReceiver) /\ DataInFlight' \subseteq DataInFlight
<1>1. p \in ToReceiver /\ \A k \in 0 .. N - 1 : Packet(k) \in ToReceiver /\ Packet(k) # p
  BY DatagramFacts, PacketFacts
<1>2. /\ toR' \in Chan(ToReceiver)
      /\ \A q \in ToReceiver : q # p => toR'[q] = toR[q]
  BY <1>1, PutFacts DEF TypedChannels
<1> QED
  BY <1>1, <1>2 DEF DataInFlight

LEMMA DatagramTaken ==
    ASSUME TypedChannels, NEW p \in ToReceiver, toR[p] > 0, toR' = Take(toR, p)
    PROVE  toR' \in Chan(ToReceiver) /\ DataInFlight' \subseteq DataInFlight
BY PacketFacts, TakeFacts DEF TypedChannels, DataInFlight

\* One more chunk in order extends the delivered prefix by one.
LEMMA PrefixGrows ==
    ASSUME NEW n \in 0 .. N - 1
    PROVE  Append(SubSeq(File, 1, n), File[n + 1]) = SubSeq(File, 1, n + 1)
<1>1. SubSeq(File, 1, n) \in Seq(STRING) /\ Len(SubSeq(File, 1, n)) = n
      /\ \A i \in 1 .. n : SubSeq(File, 1, n)[i] = File[i]
  BY FileFacts, SubSeqProperties
<1>2. SubSeq(File, 1, n + 1) \in Seq(STRING) /\ Len(SubSeq(File, 1, n + 1)) = n + 1
      /\ \A i \in 1 .. n + 1 : SubSeq(File, 1, n + 1)[i] = File[i]
  BY FileFacts, SubSeqProperties
<1>3. File[n + 1] \in STRING
  BY FileFacts
<1>4. /\ Append(SubSeq(File, 1, n), File[n + 1]) \in Seq(STRING)
      /\ Len(Append(SubSeq(File, 1, n), File[n + 1])) = n + 1
      /\ \A i \in 1 .. n : Append(SubSeq(File, 1, n), File[n + 1])[i] = File[i]
      /\ Append(SubSeq(File, 1, n), File[n + 1])[n + 1] = File[n + 1]
  BY <1>1, <1>3, AppendProperties
<1>5. \A i \in 1 .. n + 1 :
        Append(SubSeq(File, 1, n), File[n + 1])[i] = SubSeq(File, 1, n + 1)[i]
  BY <1>2, <1>4
<1> QED
  BY <1>2, <1>4, <1>5, SeqEqual

LEMMA WholePrefix == SubSeq(File, 1, N) = File /\ SubSeq(File, 1, 0) = <<>>
BY FileAssumption, SubSeqFull, SubSeqEmpty DEF N

-----------------------------------------------------------------------------
(* The channels: what each process and the network may add to them *)

LEMMA SenderChannels ==
    IInv /\ Sender =>
        /\ TypedChannels'
        /\ AcksInFlight' \subseteq AcksInFlight
        /\ agreed \/ DataInFlight' \subseteq DataInFlight
<1> SUFFICES ASSUME IInv, Sender
    PROVE  /\ TypedChannels'
           /\ AcksInFlight' \subseteq AcksInFlight
           /\ agreed \/ DataInFlight' \subseteq DataInFlight
  OBVIOUS
<1>0. TypedChannels
  BY DEF IInv, TypeOK, TypedChannels
<1>1. UNCHANGED toS => toS' \in Chan(ToSender) /\ AcksInFlight' = AcksInFlight
  BY <1>0 DEF TypedChannels, AcksInFlight
<1>2. UNCHANGED toR => toR' \in Chan(ToReceiver) /\ DataInFlight' = DataInFlight
  BY <1>0 DEF TypedChannels, DataInFlight
<1>3. CASE StartAttempt
  <2>1. UNCHANGED toR \/ toR' = Put(toR, START) \/ toR' = Put(toR, ABORT)
    BY <1>3 DEF StartAttempt, SendAbort
  <2> QED
    BY <1>0, <1>1, <1>2, <1>3, <2>1, ControlSent DEF StartAttempt, TypedChannels
<1>4. CASE LoopHead
  <2>1. UNCHANGED toR \/ toR' = Put(toR, ABORT)
    BY <1>4 DEF LoopHead, SendAbort
  <2> QED
    BY <1>0, <1>1, <1>2, <1>4, <2>1, ControlSent DEF LoopHead, TypedChannels
<1>5. CASE StartReply
  BY <1>0, <1>2, <1>5, ReplyTaken DEF StartReply, TypedChannels
<1>6. CASE WindowAck
  BY <1>0, <1>2, <1>6, ReplyTaken, DatagramFacts DEF WindowAck, TypedChannels
<1>7. CASE IgnoredReply
  BY <1>0, <1>2, <1>7, ReplyTaken DEF IgnoredReply, TypedChannels
<1>8. CASE FillSend
  <2>1. agreed /\ nextSeq \in 0 .. N - 1
    BY <1>8, FileFacts DEF FillSend, IInv, MismatchInv, TypeOK
  <2>2. toR' \in Chan(ToReceiver)
    BY <1>0, <1>8, <2>1, PacketFacts, PutFacts DEF FillSend, TypedChannels
  <2> QED
    BY <1>1, <1>8, <2>1, <2>2 DEF FillSend, TypedChannels
<1>9. CASE WindowTimeout
  <2>1. agreed
    BY <1>9 DEF WindowTimeout, IInv, MismatchInv, TypeOK
  <2>2. toR' \in Chan(ToReceiver)
    BY <1>0, <1>2, <1>9, PutAllFacts DEF WindowTimeout, TypedChannels
  <2> QED
    BY <1>1, <1>9, <2>1, <2>2 DEF WindowTimeout, TypedChannels
<1>10. CASE UNCHANGED <<toR, toS>>
  BY <1>1, <1>2, <1>10 DEF TypedChannels
<1> QED
  BY <1>3, <1>4, <1>5, <1>6, <1>7, <1>8, <1>9, <1>10
  DEF Sender, StartTimeout, SenderSocketError, FillExhausted, FillFull, SourceFails

\* An ACK is new only as an ACK of START or of chunks already received.
LEMMA ReceiverChannels ==
    IInv /\ Receiver =>
        /\ TypedChannels'
        /\ DataInFlight' \subseteq DataInFlight
        /\ \A k \in AcksInFlight' : k \in AcksInFlight \/ k = 0 \/ k < expected'
        /\ agreed \/ AcksInFlight' \subseteq AcksInFlight
<1> SUFFICES ASSUME IInv, Receiver
    PROVE  /\ TypedChannels'
           /\ DataInFlight' \subseteq DataInFlight
           /\ \A k \in AcksInFlight' : k \in AcksInFlight \/ k = 0 \/ k < expected'
           /\ agreed \/ AcksInFlight' \subseteq AcksInFlight
  OBVIOUS
<1>0. TypedChannels /\ expected \in 0 .. N /\ agreed \in BOOLEAN
  BY DEF IInv, TypeOK, TypedChannels
<1>1. UNCHANGED toS => toS' \in Chan(ToSender) /\ AcksInFlight' = AcksInFlight
  BY <1>0 DEF TypedChannels, AcksInFlight
<1>2. UNCHANGED toR => toR' \in Chan(ToReceiver) /\ DataInFlight' = DataInFlight
  BY <1>0 DEF TypedChannels, DataInFlight
<1>a. ASSUME NEW p \in DataPackets, toR[p] > 0
      PROVE  agreed /\ p.seq \in 0 .. N - 1
  BY <1>a, PacketFacts DEF IInv, MismatchInv, DataInFlight
<1>3. CASE ReceiveStart
  <2>1. toR' \in Chan(ToReceiver) /\ DataInFlight' \subseteq DataInFlight
    BY <1>0, <1>3, DatagramTaken, DatagramFacts DEF ReceiveStart
  <2>2. UNCHANGED toS \/ (agreed /\ toS' = Put(toS, Ack(0)))
    BY <1>3 DEF ReceiveStart, Compatible
  <2> QED
    BY <1>0, <1>1, <2>1, <2>2, AckSent, FileFacts DEF TypedChannels
<1>4. CASE ReceiveAbort
  BY <1>0, <1>1, <1>4, DatagramTaken, DatagramFacts DEF ReceiveAbort, TypedChannels
<1>5. CASE ReceiveJunk
  BY <1>0, <1>1, <1>5, DatagramTaken, DatagramFacts DEF ReceiveJunk, TypedChannels
<1>6. CASE ReceiveInOrder
  <2>1. PICK p \in DataPackets :
          /\ toR[p] > 0 /\ Accepts(p)
          /\ toR' = Take(toR, p) /\ toS' = Put(toS, Ack(p.seq))
          /\ expected' = expected + 1
    BY <1>6 DEF ReceiveInOrder
  <2>2. toR' \in Chan(ToReceiver) /\ DataInFlight' \subseteq DataInFlight
    BY <1>0, <2>1, DatagramTaken, PacketFacts
  <2>3. toS' \in Chan(ToSender) /\ AcksInFlight' \subseteq AcksInFlight \cup {p.seq}
    BY <1>0, <1>a, <2>1, AckSent
  <2> QED
    BY <1>0, <1>a, <2>1, <2>2, <2>3 DEF Accepts, TypedChannels
<1>7. CASE ReceiveOther
  <2>1. PICK p \in DataPackets :
          toR[p] > 0 /\ toR' = Take(toR, p) /\ toS' = ReAck(toS, p)
    BY <1>7 DEF ReceiveOther
  <2>2. toR' \in Chan(ToReceiver) /\ DataInFlight' \subseteq DataInFlight
    BY <1>0, <2>1, DatagramTaken, PacketFacts
  <2>3. UNCHANGED expected
    BY <1>7 DEF ReceiveOther
  <2>4. CASE expected = 0
    BY <1>0, <1>1, <2>1, <2>2, <2>4 DEF ReAck, TypedChannels
  <2>5. CASE expected # 0
    <3>1. expected - 1 \in 0 .. N - 1 /\ toS' = Put(toS, Ack(expected - 1))
      BY <1>0, <2>1, <2>5, FileFacts DEF ReAck
    <3>2. toS' \in Chan(ToSender) /\ AcksInFlight' \subseteq AcksInFlight \cup {expected - 1}
      BY <1>0, <3>1, AckSent
    <3> QED
      BY <1>0, <1>a, <2>1, <2>2, <2>3, <3>1, <3>2 DEF TypedChannels
  <2> QED
    BY <2>4, <2>5
<1>8. CASE GraceDatagram
  <2>1. PICK p \in ToReceiver :
          /\ toR[p] > 0 /\ toR' = Take(toR, p)
          /\ UNCHANGED toS \/ toS' = Put(toS, Ack(N - 1))
    BY <1>8 DEF GraceDatagram
  <2>2. toR' \in Chan(ToReceiver) /\ DataInFlight' \subseteq DataInFlight
    BY <1>0, <2>1, DatagramTaken
  <2>3. expected' = N /\ agreed
    BY <1>0, <1>8, FileFacts DEF GraceDatagram, IInv, ReceiverInv, MismatchInv
  <2>4. toS' = Put(toS, Ack(N - 1)) =>
          toS' \in Chan(ToSender) /\ AcksInFlight' \subseteq AcksInFlight \cup {N - 1}
    BY <1>0, AckSent, FileFacts
  <2> QED
    BY <1>1, <2>1, <2>2, <2>3, <2>4, FileFacts DEF TypedChannels
<1>9. CASE UNCHANGED <<toR, toS>>
  BY <1>1, <1>2, <1>9 DEF TypedChannels
<1> QED
  BY <1>3, <1>4, <1>5, <1>6, <1>7, <1>8, <1>9
  DEF Receiver, ReceiveHead, ReceiveTimeout, ReceiverSocketError, ConsumerResumes,
      ConsumerFails, GraceTimeout, GraceEnds

\* The network forges nothing.
LEMMA EnvironmentChannels ==
    IInv /\ Environment =>
        /\ TypedChannels'
        /\ AcksInFlight' \subseteq AcksInFlight
        /\ DataInFlight' \subseteq DataInFlight
<1> SUFFICES ASSUME IInv, Environment
    PROVE  /\ TypedChannels'
           /\ AcksInFlight' \subseteq AcksInFlight
           /\ DataInFlight' \subseteq DataInFlight
  OBVIOUS
<1>0. TypedChannels
  BY DEF IInv, TypeOK, TypedChannels
<1>1. UNCHANGED toS => toS' \in Chan(ToSender) /\ AcksInFlight' = AcksInFlight
  BY <1>0 DEF TypedChannels, AcksInFlight
<1>2. UNCHANGED toR => toR' \in Chan(ToReceiver) /\ DataInFlight' = DataInFlight
  BY <1>0 DEF TypedChannels, DataInFlight
<1>3. ASSUME NEW p \in ToReceiver, toR[p] > 0, toR' = Put(toR, p)
      PROVE  toR' \in Chan(ToReceiver) /\ DataInFlight' \subseteq DataInFlight
  BY <1>0, <1>3, PutFacts, PacketFacts DEF TypedChannels, DataInFlight
<1>4. ASSUME NEW p \in ToSender, toS[p] > 0, toS' = Put(toS, p)
      PROVE  toS' \in Chan(ToSender) /\ AcksInFlight' \subseteq AcksInFlight
  BY <1>0, <1>4, PutFacts, DatagramFacts DEF TypedChannels, AcksInFlight
<1>5. ASSUME NEW p \in ToReceiver, toR[p] > 0, toR' = Put(Take(toR, p), JUNK)
      PROVE  toR' \in Chan(ToReceiver) /\ DataInFlight' \subseteq DataInFlight
  <2>1. Take(toR, p) \in Chan(ToReceiver)
    BY <1>0, <1>5, TakeFacts DEF TypedChannels
  <2>2. /\ toR' \in Chan(ToReceiver)
        /\ \A q \in ToReceiver : q # JUNK => toR'[q] = Take(toR, p)[q]
    <3>1. JUNK \in ToReceiver
      BY DatagramFacts
    <3> QED
      BY <1>5, <2>1, <3>1, PutFacts
  <2> QED
    BY <1>0, <1>5, <2>2, TakeFacts, PacketFacts DEF TypedChannels, DataInFlight
<1>6. ASSUME NEW p \in ToSender, toS[p] > 0, toS' = Put(Take(toS, p), JUNK)
      PROVE  toS' \in Chan(ToSender) /\ AcksInFlight' \subseteq AcksInFlight
  <2>1. Take(toS, p) \in Chan(ToSender)
    BY <1>0, <1>6, TakeFacts DEF TypedChannels
  <2>2. /\ toS' \in Chan(ToSender)
        /\ \A q \in ToSender : q # JUNK => toS'[q] = Take(toS, p)[q]
    BY <1>6, <2>1, PutFacts, DatagramFacts
  <2> QED
    BY <1>0, <1>6, <2>2, TakeFacts, DatagramFacts DEF TypedChannels, AcksInFlight
<1>7. CASE Duplicate
  BY <1>1, <1>2, <1>3, <1>4, <1>7 DEF Duplicate, TypedChannels
<1>8. CASE Corrupt
  BY <1>1, <1>2, <1>5, <1>6, <1>8 DEF Corrupt, TypedChannels
<1>9. CASE Lose
  BY <1>0, <1>1, <1>2, <1>9, DatagramTaken, ReplyTaken DEF Lose, TypedChannels
<1>10. CASE UNCHANGED <<toR, toS>>
  BY <1>1, <1>2, <1>10 DEF TypedChannels
<1> QED
  BY <1>7, <1>8, <1>9, <1>10
  DEF Environment, CancelSender, CancelReceiver, CloseSender, CloseReceiver

-----------------------------------------------------------------------------
(* Initiation and consecution *)

LEMMA InitInv == Init => IInv
<1> SUFFICES ASSUME Init PROVE IInv
  OBVIOUS
<1> USE FileFacts, LimitAssumption DEF Init
<1>1. toR \in Chan(ToReceiver) /\ toS \in Chan(ToSender)
  BY DEF Chan
<1>2. TypeOK
  <2>1. agreed \in BOOLEAN
    OBVIOUS
  <2>2. delivered \in Seq(STRING)
    BY EmptySeq
  <2>3. /\ attempt \in 0 .. RetryLimit /\ nextSeq \in 0 .. N /\ lastAcked \in -1 .. N - 1
        /\ sTimeouts \in 0 .. RetryLimit - 1 /\ rTimeouts \in 0 .. MaxTimeouts
        /\ expected \in 0 .. N /\ graceLeft \in 0 .. GraceAttempts
        /\ losses \in 0 .. LossBudget /\ lag \in 0 .. TimerLag
    OBVIOUS
  <2> QED
    BY <1>1, <2>1, <2>2, <2>3 DEF TypeOK
<1>3. SenderInv
  BY DEF SenderInv
<1>4. ReceiverInv
  BY WholePrefix DEF ReceiverInv, DeliveredPrefix
<1>5. AcksInFlight = {} /\ DataInFlight = {}
  BY DatagramFacts, PacketFacts DEF AcksInFlight, DataInFlight
<1>6. AcksAreSound /\ MismatchInv
  BY <1>5 DEF AcksAreSound, MismatchInv
<1> QED
  BY <1>2, <1>3, <1>4, <1>6 DEF IInv

\* The sender keeps its own bookkeeping in order.  It learns a new last_acked
\* only from an ACK in flight, and opens the window only after an ACK of START.
LEMMA SenderStep == IInv /\ Sender => IInv'
<1> DEFINE Goal ==
        /\ TypeOK'
        /\ SenderInv'
        /\ lastAcked' = lastAcked \/ lastAcked' \in AcksInFlight
        /\ spc # "failed"
        /\ spc \in {"start", "startWait"} =>
               spc' \in {"start", "startWait", "failed"} \/ AcksInFlight # {}
<1> SUFFICES ASSUME IInv, Sender PROVE IInv'
  OBVIOUS
<1>0. TypedChannels' /\ AcksInFlight' \subseteq AcksInFlight
      /\ (agreed \/ DataInFlight' \subseteq DataInFlight)
  BY SenderChannels
<1> USE FileFacts, LimitAssumption
    DEF IInv, TypeOK, SenderInv, TypedChannels, rVars, nVars, eVars, SenderWaits
<1>1. Goal
  <2>1. CASE StartAttempt
    <3>1. /\ UNCHANGED <<nextSeq, lastAcked, window, exhausted, sTimeouts>>
          /\ UNCHANGED <<rVars, nVars>> /\ lag' \in {lag, 0}
          /\ spc = "start"
          /\ spc' \in {"startWait", "failed"} /\ sWhy' \in {sWhy, "startRetries", "cancelled"}
          /\ attempt' = attempt \/ (attempt' = attempt + 1 /\ attempt # RetryLimit)
      BY <2>1 DEF StartAttempt, SFail
    <3> QED
      BY <1>0, <3>1
  <2>2. CASE StartReply
    <3>1. spc' # "start" => AcksInFlight # {}
      BY <2>2 DEF StartReply, AcksInFlight
    <3> QED
      BY <1>0, <2>2, <3>1 DEF StartReply
  <2>3. CASE StartTimeout
    BY <1>0, <2>3 DEF StartTimeout
  <2>4. CASE SenderSocketError
    BY <1>0, <2>4 DEF SenderSocketError, SFail
  <2>5. CASE LoopHead
    <3>1. /\ UNCHANGED <<attempt, nextSeq, lastAcked, window, exhausted, sTimeouts>>
          /\ UNCHANGED <<rVars, eVars>>
          /\ spc = "loop"
          /\ spc' \in {"done", "fill", "failed"} /\ sWhy' \in {sWhy, "cancelled"}
          /\ spc' = "done" => exhausted /\ window = {}
      BY <2>5 DEF LoopHead, SFail
    <3> QED
      BY <1>0, <3>1
  <2>6. CASE FillSend
    BY <1>0, <2>6 DEF FillSend, CanFill
  <2>7. CASE FillExhausted
    BY <1>0, <2>7 DEF FillExhausted
  <2>8. CASE FillFull
    BY <1>0, <2>8 DEF FillFull
  <2>9. CASE SourceFails
    BY <1>0, <2>9 DEF SourceFails, SFail
  <2>10. CASE WindowAck
    <3>1. PICK k \in 0 .. N - 1 :
            /\ toS[Ack(k)] > 0 /\ AckInWindow(k)
            /\ window' = {s \in window : s > k} /\ lastAcked' = k
      BY <2>10 DEF WindowAck
    <3>2. k \in AcksInFlight
      BY <3>1 DEF AcksInFlight
    <3>3. window' = k + 1 .. nextSeq - 1
      BY <3>1 DEF AckInWindow
    <3> QED
      BY <1>0, <2>10, <3>1, <3>2, <3>3 DEF WindowAck, AckInWindow, TimeoutsAfterAck
  <2>11. CASE IgnoredReply
    BY <1>0, <2>11 DEF IgnoredReply
  <2>12. CASE WindowTimeout
    <3>1. /\ UNCHANGED <<attempt, nextSeq, lastAcked, window, exhausted>>
          /\ UNCHANGED <<rVars, eVars>>
          /\ spc = "wait"
          /\ spc' \in {"loop", "failed"} /\ sWhy' \in {sWhy, "retries", "closed"}
          /\ sTimeouts' = sTimeouts
               \/ (sTimeouts' = sTimeouts + 1 /\ sTimeouts + 1 < RetryLimit)
      BY <2>12 DEF WindowTimeout, SFail
    <3> QED
      BY <1>0, <3>1
  <2> QED
    BY <2>1, <2>2, <2>3, <2>4, <2>5, <2>6, <2>7, <2>8, <2>9, <2>10, <2>11, <2>12 DEF Sender
<1>2. UNCHANGED <<rVars, nVars>>
  BY DEF Sender, StartAttempt, StartReply, StartTimeout, SenderSocketError, LoopHead,
         FillSend, FillExhausted, FillFull, SourceFails, WindowAck, IgnoredReply,
         WindowTimeout
<1>3. ReceiverInv'
  BY <1>2 DEF ReceiverInv, DeliveredPrefix
<1>4. AcksAreSound'
  BY <1>0, <1>1, <1>2 DEF AcksAreSound
<1>5. MismatchInv'
  BY <1>0, <1>1, <1>2 DEF MismatchInv
<1> QED
  BY <1>1, <1>3, <1>4, <1>5

\* The receiver accepts only the next chunk, and leaves the sender alone.
LEMMA ReceiverStep == IInv /\ Receiver => IInv'
<1> DEFINE Goal ==
        /\ TypeOK'
        /\ ReceiverInv'
        /\ expected <= expected'
        /\ expected' = expected \/ DataInFlight # {}
<1> SUFFICES ASSUME IInv, Receiver PROVE IInv'
  OBVIOUS
<1>0. /\ TypedChannels'
      /\ DataInFlight' \subseteq DataInFlight
      /\ \A k \in AcksInFlight' : k \in AcksInFlight \/ k = 0 \/ k < expected'
      /\ agreed \/ AcksInFlight' \subseteq AcksInFlight
  BY ReceiverChannels
<1> USE FileFacts, LimitAssumption
    DEF IInv, TypeOK, ReceiverInv, DeliveredPrefix, TypedChannels, sVars, nVars, eVars
<1>1. Goal
  <2>1. CASE ReceiveHead
    BY <1>0, <2>1 DEF ReceiveHead
  <2>2. CASE ReceiveStart
    BY <1>0, <2>2 DEF ReceiveStart
  <2>3. CASE ReceiveAbort
    BY <1>0, <2>3 DEF ReceiveAbort
  <2>4. CASE ReceiveJunk
    BY <1>0, <2>4 DEF ReceiveJunk
  <2>5. CASE ReceiveInOrder
    <3>1. PICK p \in DataPackets :
            /\ toR[p] > 0 /\ Accepts(p)
            /\ expected' = expected + 1
            /\ delivered' = Append(delivered, p.chunk)
            /\ rpc' = IF p.type = "FIN" THEN "yieldLast" ELSE "yield"
      BY <2>5 DEF ReceiveInOrder
    <3>2. /\ expected \in 0 .. N - 1
          /\ p = Packet(expected) /\ p.chunk = File[expected + 1]
          /\ p.type = IF expected = N - 1 THEN "FIN" ELSE "DATA"
          /\ expected \in DataInFlight
      BY <3>1, PacketFacts DEF Accepts, DataInFlight
    <3>3. delivered' = SubSeq(File, 1, expected')
      BY <3>1, <3>2, PrefixGrows
    <3>4. delivered' \in Seq(STRING)
      BY <3>1, <3>2, AppendProperties
    <3> QED
      BY <1>0, <2>5, <3>1, <3>2, <3>3, <3>4 DEF ReceiveInOrder
  <2>6. CASE ReceiveOther
    BY <1>0, <2>6 DEF ReceiveOther
  <2>7. CASE ReceiveTimeout
    <3>1. lag' \in 0 .. TimerLag
      BY <2>7 DEF ReceiveTimeout, ReceiverTimer, ReceiverTimesOut
    <3> QED
      BY <1>0, <2>7, <3>1 DEF ReceiveTimeout
  <2>8. CASE ReceiverSocketError
    BY <1>0, <2>8 DEF ReceiverSocketError
  <2>9. CASE ConsumerResumes
    BY <1>0, <2>9 DEF ConsumerResumes
  <2>10. CASE ConsumerFails
    BY <1>0, <2>10 DEF ConsumerFails
  <2>11. CASE GraceDatagram
    BY <1>0, <2>11 DEF GraceDatagram
  <2>12. CASE GraceTimeout
    <3>1. lag' \in 0 .. TimerLag
      BY <2>12 DEF GraceTimeout, ReceiverTimer, ReceiverTimesOut
    <3> QED
      BY <1>0, <2>12, <3>1 DEF GraceTimeout, GraceAfterTimeout
  <2>13. CASE GraceEnds
    BY <1>0, <2>13 DEF GraceEnds
  <2> QED
    BY <2>1, <2>2, <2>3, <2>4, <2>5, <2>6, <2>7, <2>8, <2>9, <2>10, <2>11, <2>12, <2>13
    DEF Receiver
<1>2. UNCHANGED <<sVars, nVars>>
  BY DEF Receiver, ReceiveHead, ReceiveStart, ReceiveAbort, ReceiveJunk, ReceiveInOrder,
         ReceiveOther, ReceiveTimeout, ReceiverSocketError, ConsumerResumes,
         ConsumerFails, GraceDatagram, GraceTimeout, GraceEnds
<1>3. SenderInv'
  BY <1>2 DEF SenderInv
<1>4. AcksAreSound'
  BY <1>0, <1>1, <1>2 DEF AcksAreSound, AcksInFlight
<1>5. MismatchInv'
  BY <1>0, <1>1, <1>2 DEF MismatchInv
<1> QED
  BY <1>1, <1>3, <1>4, <1>5

LEMMA EnvironmentStep == IInv /\ Environment => IInv'
<1> SUFFICES ASSUME IInv, Environment PROVE IInv'
  OBVIOUS
<1>0. /\ TypedChannels'
      /\ AcksInFlight' \subseteq AcksInFlight
      /\ DataInFlight' \subseteq DataInFlight
  BY EnvironmentChannels
<1>1. /\ UNCHANGED <<sVars, rVars, agreed>>
      /\ sCancel' \in BOOLEAN /\ sOpen' \in BOOLEAN
      /\ rCancel' \in BOOLEAN /\ rOpen' \in BOOLEAN
      /\ losses' \in 0 .. LossBudget /\ lag' \in 0 .. TimerLag
  <2> USE DEF IInv, TypeOK, nVars, eVars
  <2>1. CASE CancelSender
    BY <2>1 DEF CancelSender
  <2>2. CASE CancelReceiver
    BY <2>2 DEF CancelReceiver
  <2>3. CASE CloseSender
    BY <2>3 DEF CloseSender
  <2>4. CASE CloseReceiver
    BY <2>4 DEF CloseReceiver
  <2>5. CASE Duplicate
    BY <2>5 DEF Duplicate
  <2>6. CASE Corrupt
    BY <2>6 DEF Corrupt
  <2>7. CASE Lose
    <3>1. losses' = losses + 1 /\ losses < LossBudget /\ losses \in 0 .. LossBudget
      BY <2>7 DEF Lose
    <3>2. losses' \in 0 .. LossBudget
      BY <3>1, LimitAssumption
    <3> QED
      BY <2>7, <3>2 DEF Lose
  <2> QED
    BY <2>1, <2>2, <2>3, <2>4, <2>5, <2>6, <2>7 DEF Environment
<1>2. TypeOK'
  BY <1>0, <1>1 DEF IInv, TypeOK, TypedChannels, sVars, rVars
<1>3. SenderInv' /\ ReceiverInv'
  BY <1>1 DEF IInv, SenderInv, ReceiverInv, DeliveredPrefix, sVars, rVars
<1>4. AcksAreSound' /\ MismatchInv'
  BY <1>0, <1>1 DEF IInv, AcksAreSound, MismatchInv, sVars, rVars
<1> QED
  BY <1>2, <1>3, <1>4 DEF IInv

LEMMA NextInv == IInv /\ [Next]_vars => IInv'
<1> USE DEF vars, sVars, rVars, nVars, eVars
<1>1. IInv /\ UNCHANGED vars => IInv'
  <2> SUFFICES ASSUME IInv, UNCHANGED vars PROVE IInv'
    OBVIOUS
  <2>1. TypeOK'
    BY DEF IInv, TypeOK
  <2>2. SenderInv' /\ ReceiverInv'
    BY DEF IInv, SenderInv, ReceiverInv, DeliveredPrefix
  <2>3. AcksAreSound' /\ MismatchInv'
    BY DEF IInv, AcksAreSound, MismatchInv, AcksInFlight, DataInFlight
  <2> QED
    BY <2>1, <2>2, <2>3 DEF IInv
<1> QED
  BY <1>1, SenderStep, ReceiverStep, EnvironmentStep DEF Next, Finished

-----------------------------------------------------------------------------
(* The theorems *)

\* The inductive invariant holds in every reachable state, for every file,
\* window, retry limit and set of faults.
THEOREM Invariance == Spec => []IInv
BY InitInv, NextInv, PTL DEF Spec

\* Every variable of the sender, the receiver and the network has its type.
THEOREM TypeCorrect == Spec => []TypeOK
BY Invariance, PTL DEF IInv

\* receive_chunks_rdt yields a prefix of the file, in order and each chunk once.
THEOREM DeliveryInOrder == Spec => []DeliveredPrefix
<1>1. IInv => DeliveredPrefix
  BY DEF IInv, ReceiverInv
<1> QED
  BY <1>1, Invariance, PTL

\* receive_chunks_rdt ends normally only with the whole file.
THEOREM CompletionHasFile == Spec => []ReceiverCompleteHasFile
<1>1. IInv => ReceiverCompleteHasFile
  BY WholePrefix DEF IInv, ReceiverInv, DeliveredPrefix, ReceiverCompleteHasFile
<1> QED
  BY <1>1, Invariance, PTL

\* What the sender's success rests on: its last ACK is at or beyond sequence 1,
\* hence not an ACK of START.
LEMMA AllAckedMeansDelivered ==
    ASSUME N >= 2
    PROVE  IInv /\ exhausted /\ window = {} => delivered = File
<1> SUFFICES ASSUME IInv, exhausted, window = {} PROVE delivered = File
  OBVIOUS
<1>1. nextSeq = N /\ lastAcked \in -1 .. N - 1 /\ lastAcked + 1 .. N - 1 = {}
  BY DEF IInv, SenderInv, TypeOK
<1>2. lastAcked = N - 1
  <2>1. CASE lastAcked < N - 1
    <3>1. lastAcked + 1 \in lastAcked + 1 .. N - 1
      BY <1>1, <2>1, FileFacts
    <3> QED
      BY <1>1, <3>1
  <2> QED
    BY <1>1, <2>1, FileFacts
<1>3. expected = N
  BY <1>2, FileFacts DEF IInv, AcksAreSound, TypeOK
<1> QED
  BY <1>3, WholePrefix DEF IInv, ReceiverInv, DeliveredPrefix

\* send_chunks_rdt returns only when everything was handed over, for a file of
\* two chunks or more.
THEOREM SuccessIsDelivery ==
    ASSUME N >= 2
    PROVE  Spec => []SuccessMeansDelivered
<1>1. IInv => SuccessMeansDelivered
  BY AllAckedMeansDelivered DEF IInv, SenderInv, SuccessMeansDelivered
<1> QED
  BY <1>1, Invariance, PTL

\* A MODE or TYPE mismatch delivers nothing and never looks like a success.
THEOREM MismatchIsHarmless == Spec => []MismatchDeliversNothing
<1>1. IInv => MismatchDeliversNothing
  BY WholePrefix DEF IInv, MismatchInv, ReceiverInv, DeliveredPrefix, MismatchDeliversNothing
<1> QED
  BY <1>1, Invariance, PTL

-----------------------------------------------------------------------------
(* The window *)

\* A step adds at most one chunk to the window, and only when it is not full.
LEMMA WindowStep ==
    ASSUME IInv, [Next]_vars
    PROVE  \/ window' \subseteq window
           \/ Cardinality(window) < WindowSize /\ window' = window \cup {nextSeq}
<1>1. CASE Sender
  BY <1>1 DEF Sender, StartAttempt, StartReply, StartTimeout, SenderSocketError, LoopHead,
         FillSend, FillExhausted, FillFull, SourceFails, WindowAck, IgnoredReply,
         WindowTimeout, SFail, CanFill
<1>2. CASE Receiver
  BY <1>2 DEF Receiver, ReceiveHead, ReceiveStart, ReceiveAbort, ReceiveJunk,
         ReceiveInOrder, ReceiveOther, ReceiveTimeout, ReceiverSocketError,
         ConsumerResumes, ConsumerFails, GraceDatagram, GraceTimeout, GraceEnds, sVars
<1>3. CASE Environment
  BY <1>3 DEF Environment, CancelSender, CancelReceiver, CloseSender, CloseReceiver,
         Duplicate, Corrupt, Lose, sVars
<1>4. CASE UNCHANGED vars
  BY <1>4 DEF vars, sVars
<1> QED
  BY <1>1, <1>2, <1>3, <1>4 DEF Next, Finished

\* The window is the sent and unacknowledged chunks, and never overfull.
THEOREM WindowBound == Spec => []WindowIsUnacked
<1> DEFINE Fits == IsFiniteSet(window) /\ Cardinality(window) <= WindowSize
<1>1. Init => Fits
  BY FS_EmptySet, LimitAssumption DEF Init
<1>2. IInv /\ Fits /\ [Next]_vars => Fits'
  <2> SUFFICES ASSUME IInv, Fits, [Next]_vars PROVE Fits'
    OBVIOUS
  <2>0. Cardinality(window) \in Nat /\ WindowSize \in Nat
    BY FS_CardinalityType, LimitAssumption
  <2>1. CASE window' \subseteq window
    <3>1. IsFiniteSet(window') /\ Cardinality(window') <= Cardinality(window)
      BY <2>1, FS_Subset
    <3>2. Cardinality(window') \in Nat
      BY <3>1, FS_CardinalityType
    <3> QED
      BY <2>0, <3>1, <3>2
  <2>2. CASE Cardinality(window) < WindowSize /\ window' = window \cup {nextSeq}
    <3>1. /\ IsFiniteSet(window \cup {nextSeq})
          /\ Cardinality(window \cup {nextSeq}) \in {Cardinality(window), Cardinality(window) + 1}
      BY FS_AddElement
    <3>2. Cardinality(window') \in Nat
      BY <2>2, <3>1, FS_CardinalityType
    <3> QED
      BY <2>0, <2>2, <3>1, <3>2
  <2> QED
    BY <2>1, <2>2, WindowStep
<1>3. IInv /\ Fits => WindowIsUnacked
  BY DEF IInv, SenderInv, WindowIsUnacked
<1> QED
  BY <1>1, <1>2, <1>3, Invariance, PTL DEF Spec

-----------------------------------------------------------------------------
(* The retry limit *)

\* While nothing is unacknowledged no timeout has been counted, except one just
\* before the loop ends.
RetryInv ==
    /\ spc \in {"start", "startWait"} => sTimeouts = 0
    /\ spc = "fill" => ~(exhausted /\ window = {})
    /\ spc = "wait" /\ window = {} => exhausted
    /\ spc \in {"loop", "fill", "wait"} /\ window = {} =>
        sTimeouts = 0 \/ (spc = "loop" /\ exhausted)
    /\ spc # "failed" => sWhy = "none"
    /\ RetriesExhaustedOnlyIfUnacked

LEMMA RetryStep ==
    ASSUME IInv, RetryInv, [Next]_vars
    PROVE  RetryInv'
<1> USE LimitAssumption DEF RetryInv, RetriesExhaustedOnlyIfUnacked
<1>1. CASE StartAttempt \/ StartReply \/ StartTimeout \/ SenderSocketError \/ SourceFails
  BY <1>1 DEF StartAttempt, StartReply, StartTimeout, SenderSocketError, SourceFails, SFail
<1>2. CASE LoopHead
  BY <1>2 DEF LoopHead, SFail
<1>3. CASE FillSend \/ FillExhausted
  BY <1>3 DEF FillSend, FillExhausted
<1>4. CASE FillFull
  <2>1. window = {} => exhausted
    BY <1>4, FS_EmptySet DEF FillFull, CanFill
  <2> QED
    BY <1>4, <2>1 DEF FillFull
<1>5. CASE WindowAck \/ IgnoredReply
  BY <1>5 DEF WindowAck, IgnoredReply, TimeoutsAfterAck
<1>6. CASE WindowTimeout
  <2>1. window = {} => sTimeouts = 0 /\ exhausted
    BY <1>6 DEF WindowTimeout
  <2> QED
    BY <1>6, <2>1 DEF WindowTimeout, SFail
<1>7. CASE UNCHANGED sVars
  BY <1>7 DEF sVars
<1>8. Receiver \/ Environment \/ UNCHANGED vars => UNCHANGED sVars
  BY DEF Receiver, ReceiveHead, ReceiveStart, ReceiveAbort, ReceiveJunk, ReceiveInOrder,
         ReceiveOther, ReceiveTimeout, ReceiverSocketError, ConsumerResumes,
         ConsumerFails, GraceDatagram, GraceTimeout, GraceEnds, Environment,
         CancelSender, CancelReceiver, CloseSender, CloseReceiver, Duplicate, Corrupt,
         Lose, vars
<1> QED
  BY <1>1, <1>2, <1>3, <1>4, <1>5, <1>6, <1>7, <1>8 DEF Next, Sender, Finished

\* The extra wait after the last ACK never turns a complete transfer into one that
\* has run out of retries.
THEOREM RetriesAreForChunks == Spec => []RetriesExhaustedOnlyIfUnacked
<1>1. Init => RetryInv
  BY DEF Init, RetryInv, RetriesExhaustedOnlyIfUnacked
<1>2. RetryInv => RetriesExhaustedOnlyIfUnacked
  BY DEF RetryInv
<1> QED
  BY <1>1, <1>2, RetryStep, Invariance, PTL DEF Spec

-----------------------------------------------------------------------------
(* The protocol implements ReliableTransfer *)

LEMMA RefinesInit == Init => Promise!Init
BY DEF Init, Promise!Init, SenderEnded, ReceiverEnded

LEMMA RefinesSender ==
    ASSUME N >= 2
    PROVE  IInv /\ Sender => [Promise!Next]_Promise!vars
<1> SUFFICES ASSUME IInv, Sender PROVE [Promise!Next]_Promise!vars
  OBVIOUS
<1>1. UNCHANGED <<delivered, rpc>> /\ ~SenderEnded
  BY DEF Sender, StartAttempt, StartReply, StartTimeout, SenderSocketError, LoopHead,
         FillSend, FillExhausted, FillFull, SourceFails, WindowAck, IgnoredReply,
         WindowTimeout, rVars, SenderEnded
<1>2. spc' = "done" => delivered = File
  <2>1. spc' = "done" => exhausted /\ window = {}
    BY DEF Sender, StartAttempt, StartReply, StartTimeout, SenderSocketError, LoopHead,
           FillSend, FillExhausted, FillFull, SourceFails, WindowAck, IgnoredReply,
           WindowTimeout, SFail
  <2> QED
    BY <2>1, AllAckedMeansDelivered
<1>3. CASE spc' = "done"
  BY <1>1, <1>2, <1>3
  DEF Promise!Next, Promise!SenderSucceeds, SenderEnded, ReceiverEnded
<1>4. CASE spc' = "failed"
  BY <1>1, <1>4
  DEF Promise!Next, Promise!SenderGivesUp, SenderEnded, ReceiverEnded
<1>5. CASE spc' \notin {"done", "failed"}
  BY <1>1, <1>5 DEF Promise!vars, SenderEnded, ReceiverEnded
<1> QED
  BY <1>3, <1>4, <1>5

LEMMA RefinesReceiver == IInv /\ Receiver => [Promise!Next]_Promise!vars
<1> SUFFICES ASSUME IInv, Receiver PROVE [Promise!Next]_Promise!vars
  OBVIOUS
<1>1. UNCHANGED spc /\ ~ReceiverEnded
  BY DEF Receiver, ReceiveHead, ReceiveStart, ReceiveAbort, ReceiveJunk, ReceiveInOrder,
         ReceiveOther, ReceiveTimeout, ReceiverSocketError, ConsumerResumes,
         ConsumerFails, GraceDatagram, GraceTimeout, GraceEnds, sVars, ReceiverEnded
<1>2. CASE ReceiveInOrder
  <2>1. PICK p \in DataPackets :
          Accepts(p) /\ delivered' = Append(delivered, p.chunk)
    BY <1>2 DEF ReceiveInOrder
  <2>2. expected \in 0 .. N - 1 /\ p.chunk = File[expected + 1]
    BY <2>1, PacketFacts DEF Accepts
  <2>3. delivered = SubSeq(File, 1, expected)
    BY DEF IInv, ReceiverInv, DeliveredPrefix
  <2>4. Len(delivered) = expected
    BY <2>2, <2>3, FileFacts, SubSeqProperties
  <2>5. rpc' \in {"yield", "yieldLast"}
    BY <1>2 DEF ReceiveInOrder
  <2> QED
    BY <1>1, <2>1, <2>2, <2>4, <2>5, FileFacts
    DEF Promise!Next, Promise!Deliver, SenderEnded, ReceiverEnded, N
<1>3. CASE GraceEnds
  <2>1. delivered = File /\ UNCHANGED delivered /\ rpc' = "done"
    BY <1>3, WholePrefix DEF GraceEnds, IInv, ReceiverInv, DeliveredPrefix
  <2> QED
    BY <1>1, <2>1
    DEF Promise!Next, Promise!ReceiverSucceeds, SenderEnded, ReceiverEnded
<1>4. CASE UNCHANGED delivered /\ rpc' # "done"
  <2>1. CASE rpc' = "failed"
    BY <1>1, <1>4, <2>1
    DEF Promise!Next, Promise!ReceiverGivesUp, SenderEnded, ReceiverEnded
  <2>2. CASE rpc' # "failed"
    BY <1>1, <1>4, <2>2 DEF Promise!vars, SenderEnded, ReceiverEnded
  <2> QED
    BY <2>1, <2>2
<1>5. Receiver /\ ~ReceiveInOrder /\ ~GraceEnds => UNCHANGED delivered /\ rpc' # "done"
  BY DEF Receiver, ReceiveHead, ReceiveStart, ReceiveAbort, ReceiveJunk, ReceiveOther,
         ReceiveTimeout, ReceiverSocketError, ConsumerResumes, ConsumerFails,
         GraceDatagram, GraceTimeout
<1> QED
  BY <1>2, <1>3, <1>4, <1>5

LEMMA RefinesStutter ==
    Environment \/ UNCHANGED vars => UNCHANGED Promise!vars
BY DEF Environment, CancelSender, CancelReceiver, CloseSender, CloseReceiver, Duplicate,
       Corrupt, Lose, vars, sVars, rVars, Promise!vars, SenderEnded, ReceiverEnded

\* The protocol of rdt_sender.py and rdt_receiver.py implements in-order,
\* exactly-once, all-or-nothing delivery of every file of two chunks or more.
THEOREM Refinement ==
    ASSUME N >= 2
    PROVE  Spec => ImplementsReliableTransfer
<1>1. IInv /\ [Next]_vars => [Promise!Next]_Promise!vars
  BY RefinesSender, RefinesReceiver, RefinesStutter DEF Next, Finished
<1> QED
  BY <1>1, RefinesInit, Invariance, PTL DEF Spec, ImplementsReliableTransfer, Promise!Spec
=============================================================================
