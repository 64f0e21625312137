----------------------- MODULE ControlConnection_proofs -----------------------
(***************************************************************************)
(* The pairing of commands and replies, for any number of commands and any *)
(* values of MODE: as long as nothing has slipped, the lines on their way  *)
(* are those the client waits for.                                         *)
(*                                                                         *)
(* CallInv and DoneInv hold whatever happens.  The others are about a      *)
(* client that keeps count, and a step that slips leaves nothing to show:  *)
(* each action has a lemma for the case in which it does not.  A command is*)
(* pending only when no transfer is in the way (PendingCase), so that the  *)
(* handlers with one reply are one case (OneAnswer).                       *)
(***************************************************************************)
EXTENDS ControlConnection, SequenceTheorems, TLAPS

\* Nothing is on its way at first.
LEMMA InitInv == Init => IInv
<1> USE ConnectionAssumption
<1> SUFFICES ASSUME Init PROVE IInv
  OBVIOUS
<1>1. CallInv
  BY DEF Init, CallInv, NoCall, NoTransfer, Places, Transfers, Working, Resting
<1>2. PairInv
  BY DEF Init, PairInv, Served, Resting, NoTransfer
<1>3. SettingInv
  BY DEF Init, SettingInv, HasNegotiated, Answered, NoCall, Transfers
<1>4. DoneInv /\ TrueMeansDone
  BY DEF Init, DoneInv, TrueMeansDone, NoTransfer
<1> QED
  BY <1>1, <1>2, <1>3, <1>4 DEF IInv

-----------------------------------------------------------------------------
(* Where the calls are, and what the server has done *)

\* The codes with which a call of two commands, or of a transfer, goes on
LEMMA Successes ==
    /\ \A name \in Transfers : Success(name) = {"150 id"}
    /\ Success("MODE") = {"200", "200 port"}
BY Zenon DEF Success, Transfers

\* A reply leaves the client in a place of its call.
LEMMA ReadReplyCall == ASSUME CallInv, ReadReply PROVE CallInv'
<1> USE DEF ReadReply, sessionVars, resultVars, Working, Resting
<1> DEFINE line == Head(toClient)
<1>1. cpc' \in {"closed", "idle", "rdt", "next"} /\ cpc' = AfterReply(local.name, line.code)
  BY DEF AfterReply
<1>2. cpc' = "rdt" => local.name \in Transfers /\ local' = [local EXCEPT !.tid = line.id]
  BY DEF AfterReply
<1>3. cpc' = "next" =>
        /\ local.call \in Transfers \cup {"login"}
        /\ local' = [local EXCEPT !.target = line.id] \/ local' = local
  BY <1>1 DEF AfterReply, CallInv
<1>4. cpc' \in {"closed", "idle"} => local' = NoCall
  OBVIOUS
<1>5. wanted' \in Values
  BY DEF CallInv
<1>6. CASE cpc' = "rdt"
  BY <1>2, <1>5, <1>6 DEF CallInv, NoCall, Transfers, Places
<1>7. CASE cpc' = "next"
  BY <1>3, <1>5, <1>7 DEF CallInv, NoCall, Transfers, Places
<1>8. CASE cpc' \in {"closed", "idle"}
  BY <1>4, <1>5, <1>8 DEF CallInv, NoCall, Transfers, Places
<1> QED
  BY <1>1, <1>6, <1>7, <1>8

\* A command is sent by a call that has it.
LEMMA AskCall ==
    ASSUME CallInv, NEW call, NEW name, NEW arg, DOMAIN call = DOMAIN NoCall,
           Ask(call, name, arg), UNCHANGED <<wanted, worker>>, Resting \/ Working,
           call.call \in Transfers \cup {"login", "command", "close"},
           call.call \in Transfers => call.via \in {"PASV", "PORT"},
           name = "MODE" => arg \in Values,
           name \in Transfers => call.call = name,
           call.call \in Transfers => name \in Transfers \cup {"MODE", "PASV", "PORT"}
    PROVE  CallInv'
<1>1. cpc' \in {"reply", "listing"} /\ (cpc' = "reply" => name # "NLST")
  BY DEF Ask
<1>2. local' = [call EXCEPT !.name = name, !.arg = arg]
  BY DEF Ask
<1>3. /\ DOMAIN local' = DOMAIN NoCall
      /\ local'.call = call.call /\ local'.via = call.via
      /\ local'.name = name /\ local'.arg = arg
  BY <1>2 DEF NoCall
<1>4. wanted' \in Values /\ worker' = worker /\ DOMAIN worker = DOMAIN NoTransfer
  BY DEF CallInv
<1>5. (Working \/ Resting)'
  BY <1>4 DEF Working, Resting
<1>6. cpc' \in Places /\ cpc' \notin {"next", "rdt", "final"}
  BY <1>1 DEF Places
<1> QED
  BY <1>1, <1>3, <1>4, <1>5, <1>6 DEF CallInv

LEMMA BeginCall == ASSUME CallInv, BeginCommand PROVE CallInv'
<1> USE ConnectionAssumption
<1>1. PICK call \in {"command", "login", "close"} :
        \/ \E name \in {"USER", "CDUP", "NLST", "RNFR", "RNTO", "ABOR", "QUIT"} :
              Ask([NoCall EXCEPT !.call = call], name, Default)
        \/ \E v \in Values : Ask([NoCall EXCEPT !.call = call], "MODE", v)
  BY Zenon DEF BeginCommand
<1>2. PICK name, arg :
        /\ Ask([NoCall EXCEPT !.call = call], name, arg)
        /\ name = "MODE" => arg \in Values
        /\ name \notin Transfers
  <2>1. CASE \E v \in Values : Ask([NoCall EXCEPT !.call = call], "MODE", v)
    <3>1. "MODE" \notin Transfers
      BY DEF Transfers
    <3> QED
      BY <2>1, <3>1, Zenon
  <2>2. CASE \E name \in {"USER", "CDUP", "NLST", "RNFR", "RNTO", "ABOR", "QUIT"} :
                Ask([NoCall EXCEPT !.call = call], name, Default)
    <3>1. \A name \in {"USER", "CDUP", "NLST", "RNFR", "RNTO", "ABOR", "QUIT"} :
            name # "MODE" /\ name \notin Transfers
      BY DEF Transfers
    <3> QED
      BY <2>2, <3>1, Zenon
  <2> QED
    BY <1>1, <2>1, <2>2, Zenon
<1> DEFINE new == [NoCall EXCEPT !.call = call]
<1>3. DOMAIN new = DOMAIN NoCall /\ new.call = call
  BY DEF NoCall
<1>4. UNCHANGED <<wanted, worker>> /\ (Resting \/ Working)
  BY DEF BeginCommand, CallInv
<1>5. call \notin Transfers
  BY DEF Transfers
<1> HIDE DEF new
<1> QED
  BY <1>2, <1>3, <1>4, <1>5, AskCall DEF new

LEMMA NextCall == ASSUME CallInv, NextCommand PROVE CallInv'
<1>1. /\ UNCHANGED <<wanted, worker>> /\ (Resting \/ Working) /\ wanted \in Values
      /\ DOMAIN local = DOMAIN NoCall /\ local.call \in Transfers \cup {"login"}
      /\ local.call \in Transfers => local.via \in {"PASV", "PORT"}
  BY DEF NextCommand, CallInv
<1>2. \E name, arg :
        /\ Ask(local, name, arg)
        /\ name = "MODE" => arg \in Values
        /\ name \in Transfers => local.call = name
        /\ local.call \in Transfers => name \in Transfers \cup {"MODE", "PASV", "PORT"}
  <2>1. "login" \notin Transfers
    BY DEF Transfers
  <2>2. CASE local.call = "login"
    BY <2>1, <2>2 DEF NextCommand, Transfers
  <2>3. CASE local.call # "login" /\ Negotiates
    BY <1>1, <2>3 DEF NextCommand, Transfers
  <2>4. CASE local.call # "login" /\ ~Negotiates /\ local.target = 0
    BY <1>1, <2>4 DEF NextCommand, Transfers
  <2>5. CASE local.call # "login" /\ ~Negotiates /\ local.target # 0
    BY <1>1, <2>5 DEF NextCommand, Transfers
  <2> QED
    BY <2>2, <2>3, <2>4, <2>5
<1> QED
  BY <1>1, <1>2, AskCall

\* No step takes a call to a place that is not its own.
LEMMA CallStep == ASSUME CallInv, [Next]_vars PROVE CallInv'
<1> USE DEF CallInv, NoCall, NoTransfer, Transfers, Places, Working, Resting
<1>1. CASE BeginCommand \/ NextCommand
  BY <1>1, BeginCall, NextCall
<1>2. CASE BeginTransfer
  BY <1>2 DEF BeginTransfer, MayBegin, sessionVars
<1>3. CASE ReadReply
  BY <1>3, ReadReplyCall
<1>4. CASE ReadListing
  BY <1>4 DEF ReadListing, sessionVars
<1>5. CASE RdtReturns \/ RaisesAfter150
  BY <1>5 DEF RdtReturns, RaisesAfter150, sessionVars
<1>6. CASE ReadFinal \/ ReadEof
  <2>1. cpc' \in {"idle", "closed"} /\ local' = NoCall /\ UNCHANGED <<wanted, worker>>
    BY <1>6 DEF ReadFinal, ReadEof
  <2> QED
    BY <2>1
<1>7. CASE Refuse \/ Authenticate \/ CdUp \/ SetMode \/ List \/ Rename \/ Endpoint \/ Quit \/ Hangup
  <2>1. UNCHANGED <<clientVars, worker>>
    BY <1>7 DEF Refuse, Authenticate, CdUp, SetMode, List, Rename, Endpoint, Quit, Hangup
  <2> QED
    BY <2>1 DEF clientVars
<1>8. CASE StartTransfer \/ Send150
  <2>1. UNCHANGED <<cpc, local, wanted>>
    BY <1>8 DEF StartTransfer, Send150, clientVars
  <2>2. \/ worker' = worker
        \/ worker' = [id |-> Head(toServer).id, sock |-> sock, st |-> "moving"]
    BY <1>8 DEF StartTransfer, Send150
  <2>3. DOMAIN worker' = DOMAIN NoTransfer /\ (Working \/ Resting)'
    BY <2>2
  <2> QED
    BY <2>1, <2>3
<1>9. CASE Move \/ Finish \/ FinalReply \/ Die
  <2>1. UNCHANGED <<cpc, local, wanted>>
    BY <1>9 DEF Move, Finish, FinalReply, Die, clientVars
  <2>2. \/ \E st \in {"moved", "226", "426", "ending"} : worker' = [worker EXCEPT !.st = st]
        \/ worker' = NoTransfer
    BY <1>9 DEF Move, Finish, FinalReply, Die
  <2>3. DOMAIN worker' = DOMAIN NoTransfer
    BY <2>2
  <2>4. (Working \/ Resting)'
    BY <2>2
  <2> QED
    BY <2>1, <2>3, <2>4
<1>10. CASE UNCHANGED vars
  BY <1>10 DEF vars, clientVars
<1> QED
  BY <1>1, <1>2, <1>3, <1>4, <1>5, <1>6, <1>7, <1>8, <1>9, <1>10
  DEF Next, ClientStep, ServerStep, WorkerStep, Finished

\* A worker announces only what it has recorded, and nothing recorded is forgotten.
LEMMA DoneStep == ASSUME CallInv, DoneInv, [Next]_vars PROVE DoneInv' /\ done \subseteq done'
<1> USE DEF DoneInv, CallInv, NoTransfer, sessionVars, resultVars
<1>1. CASE ClientStep \/ BeginCommand \/ BeginTransfer \/ RaisesAfter150
  BY <1>1 DEF ClientStep, BeginCommand, BeginTransfer, RaisesAfter150, NextCommand, ReadReply,
     ReadListing, RdtReturns, ReadFinal, ReadEof
<1>2. CASE ServerStep \/ Hangup
  <2>1. CASE StartTransfer
    BY <2>1 DEF StartTransfer
  <2>2. CASE ~StartTransfer
    <3>1. UNCHANGED <<done, worker>>
      BY <1>2, <2>2 DEF ServerStep, Hangup, Refuse, Authenticate, CdUp, SetMode, List, Rename,
         Endpoint, Send150, Quit
    <3> QED
      BY <3>1
  <2> QED
    BY <2>1, <2>2
<1>3. CASE Finish
  <2>1. CASE worker' = [worker EXCEPT !.st = "226"] /\ done' = done \cup {worker.id}
    BY <2>1
  <2>2. CASE worker' = [worker EXCEPT !.st = "426"] /\ UNCHANGED done
    BY <2>2
  <2> QED
    BY <1>3, <2>1, <2>2 DEF Finish
<1>5. CASE Move \/ FinalReply \/ Die
  <2>1. UNCHANGED done
    BY <1>5 DEF Move, FinalReply, Die
  <2>2. \/ \E st \in {"moved", "ending"} : worker' = [worker EXCEPT !.st = st]
        \/ worker' = NoTransfer
    BY <1>5 DEF Move, FinalReply, Die
  <2> QED
    BY <2>1, <2>2
<1>4. CASE UNCHANGED vars
  BY <1>4 DEF vars
<1> QED
  BY <1>1, <1>2, <1>3, <1>4, <1>5 DEF Next, WorkerStep, Finished

\* What has slipped stays so.
LEMMA SlipStep == ASSUME slipped, [Next]_vars PROVE slipped'
BY DEF Next, ClientStep, ServerStep, WorkerStep, Finished, vars, readVars, BeginCommand,
   BeginTransfer, RaisesAfter150, NextCommand, ReadReply, ReadListing, RdtReturns, ReadFinal,
   ReadEof, Hangup, Refuse, Authenticate, CdUp, SetMode, List, Rename, Endpoint, StartTransfer,
   Send150, Quit, Move, Finish, FinalReply, Die

-----------------------------------------------------------------------------
(* What is put on a connection and taken from it *)

\* Lines are put on a connection with at most one
LEMMA AppendOne ==
    /\ \A x : Append(<<>>, x) = <<x>>
    /\ \A x, y : Append(<<x>>, y) = <<x, y>>
<1>1. ASSUME NEW x, NEW y
      PROVE  Append(<<x>>, y) = <<x, y>>
  <2> DEFINE s == Append(<<x>>, y)
  <2>1. <<x>> \in Seq({x, y}) /\ y \in {x, y} /\ <<x, y>> \in Seq({x, y})
    OBVIOUS
  <2>2. s \in Seq({x, y}) /\ Len(s) = 2 /\ s[1] = x /\ s[2] = y
    BY <2>1, AppendProperties
  <2> HIDE DEF s
  <2>3. s = <<x, y>>
    BY <2>1, <2>2, SeqEqual
  <2> QED
    BY <2>3 DEF s
<1> QED
  BY <1>1

\* and taken from one with at most two.
LEMMA TakeOne ==
    /\ \A x : Head(<<x>>) = x /\ Tail(<<x>>) = <<>>
    /\ \A x, y : Head(<<x, y>>) = x /\ Tail(<<x, y>>) = <<y>>
<1>1. ASSUME NEW x PROVE Head(<<x>>) = x /\ Tail(<<x>>) = <<>>
  OBVIOUS
<1>2. ASSUME NEW x, NEW y PROVE Head(<<x, y>>) = x /\ Tail(<<x, y>>) = <<y>>
  OBVIOUS
<1> QED
  BY <1>1, <1>2

\* A line is read right by the command that it answers,
LEMMA ReadRight ==
    ASSUME NEW code, NEW line, ~misread,
           Reads(line, asked, FALSE), line = Line(code, asked, FALSE)
    PROVE  ~misread' /\ line.code = code /\ line.id = asked
<1>1. line.code = code /\ line.id = asked /\ line.final = FALSE
  BY DEF Line
<1> QED
  BY <1>1 DEF Reads

\* and a final one by its transfer.
LEMMA ReadFinalRight ==
    ASSUME NEW code, NEW line, NEW id, ~misread,
           Reads(line, id, TRUE), line = Line(code, id, TRUE)
    PROVE  ~misread' /\ line.code = code
<1>1. line.code = code /\ line.id = id /\ line.final = TRUE
  BY DEF Line
<1> QED
  BY <1>1 DEF Reads

\* The only command is answered with the only line,
LEMMA SendOne ==
    ASSUME NEW c, NEW code, toClient = <<>>, toServer = <<c>>, Answers(c, code)
    PROVE  toServer' = <<>> /\ toClient' = <<Line(code, c.id, FALSE)>>
BY DEF Answers

\* or with the three of a listing.
LEMMA SendListing ==
    ASSUME NEW c, toClient = <<>>, toServer = <<c>>, AnswersAll(c, <<"150", "name", "226">>)
    PROVE  /\ toServer' = <<>>
           /\ toClient' = <<Line("150", c.id, FALSE), Line("name", c.id, FALSE),
                            Line("226", c.id, FALSE)>>
BY DEF AnswersAll

-----------------------------------------------------------------------------
(* The session's replies *)

Keeps == PairInv' /\ SettingInv' /\ TrueMeansDone'

\* A command that is pending is the one the client waits for the reply to.
LEMMA PendingCase ==
    ASSUME CallInv, PairInv, ~slipped, Pending
    PROVE  \/ cpc = "closed"
           \/ cpc = "reply" /\ Unserved
           \/ cpc = "listing" /\ local.name = "NLST" /\ Unserved
<1> USE DEF Pending, Served, Transferring, OneReply
<1>1. CASE cpc \in {"idle", "next", "body", "rdt", "final"}
  BY <1>1 DEF PairInv
<1>2. CASE cpc = "reply"
  BY <1>2 DEF PairInv, Replying
<1>3. CASE cpc = "listing"
  BY <1>3 DEF PairInv, Listing
<1> QED
  BY <1>1, <1>2, <1>3 DEF CallInv, Places

\* A step that answers the next command with one line, and sets the MODE if it is one
Expected(c, code) ==
    /\ code \in Codes
    /\ code = "200 port" => c.name = "PORT"
    /\ c.name = "NLST" => code \in {"530", "550"}
Sets(c, code) == setting' = IF c.name = "MODE" /\ code = "200" THEN c.arg ELSE setting
RepliesWith(code) ==
    /\ Pending /\ Answers(Head(toServer), code)
    /\ Expected(Head(toServer), code) /\ Sets(Head(toServer), code)
    /\ spc' # "send150" /\ UNCHANGED <<clientVars, worker, resultVars, misread>>

\* One line is what the client waits for.
LEMMA OneAnswer ==
    ASSUME IInv, ~slipped, ~slipped', NEW code, RepliesWith(code)
    PROVE  Keeps
<1>0. TrueMeansDone'
  BY DEF IInv, TrueMeansDone, resultVars, RepliesWith
<1>1. /\ UNCHANGED <<cpc, local, asked, wanted, negotiated, worker>>
      /\ CallInv /\ PairInv /\ SettingInv
  BY DEF clientVars, IInv, RepliesWith
<1>2. ~misread /\ misread' = misread
  BY <1>1 DEF PairInv, RepliesWith
<1>3. CASE cpc = "closed"
  <2>1. PairInv'
    BY <1>1, <1>2, <1>3 DEF PairInv
  <2> QED
    BY <1>0, <1>1, <1>3, <2>1 DEF SettingInv, Keeps
<1>4. CASE cpc \in {"reply", "listing"} /\ Unserved /\ (cpc = "listing" => local.name = "NLST")
  <2> DEFINE c == Head(toServer)
  <2>1. toServer = <<c>> /\ c.name = local.name /\ c.arg = local.arg /\ c.id = asked
    BY <1>4 DEF Unserved, Command
  <2>2. toClient = <<>> /\ spc # "send150" /\ Resting
    BY <1>4 DEF Unserved
  <2>3. toServer' = <<>> /\ toClient' = <<Line(code, asked, FALSE)>>
    BY <2>1, <2>2, SendOne DEF RepliesWith
  <2>4. OneReply(code)'
    BY <1>1, <2>2, <2>3 DEF OneReply, Served, Resting, RepliesWith
  <2>5. cpc = "reply" => Replying'
    BY <1>1, <2>1, <2>4 DEF Replying, RepliesWith, Expected
  <2>6. cpc = "listing" => Listing'
    BY <1>1, <1>4, <2>1, <2>4 DEF Listing, RepliesWith, Expected
  <2>7. PairInv'
    BY <1>1, <1>2, <1>4, <2>5, <2>6 DEF PairInv
  <2>8. ASSUME NEW other, OneReply(other)'
        PROVE  other = code
    <3>1. <<Line(other, asked, FALSE)>> = <<Line(code, asked, FALSE)>>
      BY <1>1, <2>3, <2>8 DEF OneReply
    <3>2. Line(other, asked, FALSE) = Line(code, asked, FALSE)
      BY <3>1
    <3> QED
      BY <3>2 DEF Line
  <2>9. ~Answered("MODE", "200")
    BY <2>2 DEF Answered, OneReply
  <2>10. HasNegotiated' => HasNegotiated
    BY <1>1 DEF HasNegotiated
  <2>11. Answered("MODE", "200")' <=> cpc = "reply" /\ local.name = "MODE" /\ code = "200"
    BY <1>1, <2>4, <2>8 DEF Answered
  <2>12. SettingInv'
    BY <1>1, <1>4, <2>1, <2>9, <2>10, <2>11 DEF SettingInv, RepliesWith, Sets
  <2> QED
    BY <1>0, <2>7, <2>12 DEF Keeps
<1> QED
  BY <1>1, <1>3, <1>4, PendingCase DEF RepliesWith

\* The handlers that answer with one line
LEMMA OneAnswers ==
    ASSUME Refuse \/ Authenticate \/ CdUp \/ SetMode \/ Rename \/ Endpoint \/ Quit
    PROVE  \E code : RepliesWith(code)
<1> USE DEF RepliesWith, Pending, Expected, Sets, Codes, readVars
<1>1. CASE Refuse
  BY <1>1 DEF Refuse
<1>2. CASE Authenticate
  BY <1>2 DEF Authenticate
<1>3. CASE CdUp
  BY <1>3 DEF CdUp
<1>4. CASE SetMode
  BY <1>4 DEF SetMode
<1>5. CASE Rename
  BY <1>5 DEF Rename
<1>6. CASE Endpoint
  BY <1>6 DEF Endpoint
<1>7. CASE Quit
  BY <1>7 DEF Quit, CleansUp
<1> QED
  BY <1>1, <1>2, <1>3, <1>4, <1>5, <1>6, <1>7

\* The listing is on its way as a whole.
LEMMA ListStep == ASSUME IInv, ~slipped, ~slipped', List PROVE Keeps
<1>1. CASE Answers(Head(toServer), "550")
  <2>1. RepliesWith("550")
    BY <1>1 DEF List, RepliesWith, Pending, Expected, Sets, Codes
  <2> QED
    BY <2>1, OneAnswer
<1>2. CASE AnswersAll(Head(toServer), <<"150", "name", "226">>)
  <2>1. /\ UNCHANGED <<cpc, local, asked, wanted, negotiated, worker, setting, spc>>
        /\ CallInv /\ PairInv /\ SettingInv /\ Pending /\ Head(toServer).name = "NLST"
    BY DEF List, clientVars, IInv
  <2>2. ~misread /\ misread' = misread
    BY <2>1 DEF PairInv, List
  <2>3. TrueMeansDone'
    BY DEF IInv, TrueMeansDone, List, resultVars
  <2>4. CASE cpc = "closed"
    <3>1. PairInv'
      BY <2>1, <2>2, <2>4 DEF PairInv
    <3> QED
      BY <2>1, <2>3, <2>4, <3>1 DEF SettingInv, Keeps
  <2>5. CASE cpc = "reply" /\ Unserved
    BY <2>1, <2>5 DEF Unserved, Command, CallInv
  <2>6. CASE cpc = "listing" /\ local.name = "NLST" /\ Unserved
    <3>1. toServer = <<Head(toServer)>> /\ Head(toServer).id = asked
      BY <2>6 DEF Unserved, Command
    <3>2. toServer' = <<>> /\ toClient' = Listed'
      BY <1>2, <2>1, <2>6, <3>1, SendListing DEF Unserved, Listed
    <3>3. Listing'
      BY <2>1, <2>6, <3>2 DEF Listing, Unserved, Served, Resting
    <3>4. PairInv'
      BY <2>1, <2>2, <2>6, <3>3 DEF PairInv
    <3>5. ~Answered("MODE", "200") /\ ~Answered("MODE", "200")' /\ (HasNegotiated' => HasNegotiated)
      BY <2>1, <2>6 DEF Answered, HasNegotiated
    <3>6. SettingInv'
      BY <2>1, <2>6, <3>5 DEF SettingInv
    <3> QED
      BY <2>3, <3>4, <3>6 DEF Keeps
  <2> QED
    BY <2>1, <2>4, <2>5, <2>6, PendingCase
<1> QED
  BY <1>1, <1>2 DEF List

\* The 150 is to come from the control thread, the final line from the worker.
LEMMA StartTransferStep == ASSUME IInv, ~slipped, ~slipped', StartTransfer PROVE Keeps
<1>1. CASE \E code \in {"425", "450", "500"} :
            Answers(Head(toServer), code) /\ UNCHANGED <<spc, worker>>
  <2>1. \E code : RepliesWith(code)
    BY <1>1 DEF StartTransfer, RepliesWith, Pending, Expected, Sets, Codes, Transfers, readVars
  <2> QED
    BY <2>1, OneAnswer
<1>2. CASE /\ ~Alive /\ toServer' = Tail(toServer) /\ UNCHANGED toClient
           /\ worker' = [id |-> Head(toServer).id, sock |-> sock, st |-> "moving"]
           /\ spc' = "send150"
  <2>1. /\ UNCHANGED <<cpc, local, asked, wanted, negotiated, setting>>
        /\ CallInv /\ PairInv /\ SettingInv /\ Pending /\ Head(toServer).name \in Transfers
    BY DEF StartTransfer, clientVars, IInv
  <2>2. ~misread /\ misread' = misread
    BY <2>1 DEF PairInv, StartTransfer, readVars
  <2>3. TrueMeansDone'
    BY DEF IInv, TrueMeansDone, StartTransfer, resultVars
  <2>4. CASE cpc = "closed"
    <3>1. PairInv'
      BY <2>1, <2>2, <2>4 DEF PairInv
    <3> QED
      BY <2>1, <2>3, <2>4, <3>1 DEF SettingInv, Keeps
  <2>5. CASE cpc = "listing" /\ local.name = "NLST" /\ Unserved
    BY <2>1, <2>5 DEF Unserved, Command, Transfers
  <2>6. CASE cpc = "reply" /\ Unserved
    <3>1. /\ toServer = <<Head(toServer)>>
          /\ Head(toServer).id = asked /\ Head(toServer).name = local.name
      BY <2>6 DEF Unserved, Command
    <3>2. toServer' = <<>> /\ toClient' = <<>> /\ toClient = <<>>
      BY <1>2, <2>6, <3>1 DEF Unserved
    <3>3. worker'.id = asked /\ worker'.st = "moving"
      BY <1>2, <3>1
    <3>4. Replying'
      BY <1>2, <2>1, <3>1, <3>2, <3>3 DEF Replying, Working
    <3>5. PairInv'
      BY <2>1, <2>2, <2>6, <3>4 DEF PairInv
    <3>6. ~Answered("MODE", "200") /\ ~Answered("MODE", "200")' /\ (HasNegotiated' => HasNegotiated)
      BY <2>1, <3>2 DEF Answered, HasNegotiated, OneReply
    <3>7. SettingInv'
      BY <2>1, <2>6, <3>6 DEF SettingInv
    <3> QED
      BY <2>3, <3>5, <3>7 DEF Keeps
  <2> QED
    BY <2>1, <2>4, <2>5, <2>6, PendingCase
<1> QED
  BY <1>1, <1>2 DEF StartTransfer

-----------------------------------------------------------------------------
(* The 150, the worker and the end of the session *)

\* A step of neither the client nor the session's MODE keeps what was negotiated.
LEMMA SettingStays ==
    ASSUME SettingInv, UNCHANGED <<cpc, local, wanted, negotiated, setting>>, ~slipped,
           Answered("MODE", "200")' <=> Answered("MODE", "200")
    PROVE  SettingInv'
<1>1. HasNegotiated' => HasNegotiated
  BY DEF HasNegotiated
<1> QED
  BY <1>1 DEF SettingInv

\* The 150 goes out before the final reply, as long as nothing slips.
LEMMA Send150Step == ASSUME IInv, ~slipped, ~slipped', Send150 PROVE Keeps
<1>1. /\ UNCHANGED <<cpc, local, asked, wanted, negotiated, worker, setting, done, toServer>>
      /\ CallInv /\ PairInv /\ SettingInv
  BY DEF Send150, clientVars, sessionVars, resultVars, IInv
<1>2. ~misread /\ misread' = misread
  BY <1>1 DEF PairInv, Send150, readVars
<1>3. TrueMeansDone'
  BY DEF IInv, TrueMeansDone, Send150, resultVars
<1>4. /\ spc = "send150" /\ spc' = "ready"
      /\ toClient' = Append(toClient, Line("150 id", worker.id, FALSE))
  BY DEF Send150
<1>5. CASE cpc = "closed"
  <2>1. PairInv'
    BY <1>1, <1>2, <1>5 DEF PairInv
  <2> QED
    BY <1>1, <1>3, <1>5, <2>1 DEF SettingInv, Keeps
<1>6. CASE cpc = "reply"
  <2>1. /\ local.name \in Transfers /\ Working /\ worker.id = asked
        /\ toServer = <<>> /\ toClient = <<>>
    BY <1>1, <1>4, <1>6 DEF PairInv, Replying, Unserved, OneReply, Transferring, Served
  <2>2. toClient' = <<Line("150 id", asked, FALSE)>> /\ asked' = asked
    BY <1>1, <1>4, <2>1, AppendOne
  <2>3. Transferring(<<>>)'
    BY <1>1, <1>4, <2>1 DEF Transferring, Served, Working
  <2>4. Replying'
    BY <1>1, <2>1, <2>2, <2>3 DEF Replying
  <2>5. PairInv'
    BY <1>1, <1>2, <1>6, <2>4 DEF PairInv
  <2>6. ~Answered("MODE", "200")' /\ ~Answered("MODE", "200")
    BY <1>1, <2>1 DEF Answered, Transfers
  <2>7. SettingInv'
    BY <1>1, <2>6, SettingStays
  <2> QED
    BY <1>3, <2>5, <2>7 DEF Keeps
<1>7. CASE cpc \in {"idle", "next", "body", "rdt", "final"}
  BY <1>1, <1>4, <1>7 DEF PairInv, Served, Transferring
<1>8. CASE cpc = "listing"
  BY <1>1, <1>4, <1>8 DEF PairInv, Listing, Unserved, OneReply, Served
<1> QED
  BY <1>1, <1>5, <1>6, <1>7, <1>8 DEF CallInv, Places

\* What is on its way stays readable when the session ends.
LEMMA HangupStep == ASSUME IInv, ~slipped, ~slipped', Hangup PROVE Keeps
<1>1. /\ UNCHANGED <<cpc, local, asked, wanted, negotiated, worker, setting, done, toServer,
                   toClient>>
      /\ CallInv /\ PairInv /\ SettingInv /\ spc = "ready" /\ spc' = "closed"
  BY DEF Hangup, CleansUp, clientVars, wireVars, resultVars, IInv
<1>2. ~misread /\ misread' = misread
  BY <1>1 DEF PairInv, Hangup, readVars
<1>3. TrueMeansDone'
  BY DEF IInv, TrueMeansDone, Hangup, resultVars
<1>4. /\ Served => Served'
      /\ Unserved => Unserved'
      /\ Resting => Resting'
      /\ \A rest : Transferring(rest) => Transferring(rest)'
      /\ \A code : OneReply(code)' <=> OneReply(code)
  BY <1>1 DEF Served, Unserved, Resting, Working, Transferring, OneReply
<1>5. cpc = "reply" => Replying'
  BY <1>1, <1>4 DEF PairInv, Replying
<1>6. cpc = "listing" => Listing'
  BY <1>1, <1>4 DEF PairInv, Listing, Listed
<1>7. PairInv'
  BY <1>1, <1>2, <1>4, <1>5, <1>6 DEF PairInv, Listed
<1>8. SettingInv'
  BY <1>1, <1>4, SettingStays DEF Answered
<1> QED
  BY <1>3, <1>7, <1>8 DEF Keeps

\* A transfer that goes on, or whose thread ends, has no part in what is on its way.
LEMMA QuietWorkerStep ==
    ASSUME IInv, ~slipped, ~slipped', Move \/ Finish \/ Die, done \subseteq done'
    PROVE  Keeps
<1>1. /\ UNCHANGED <<cpc, local, asked, wanted, negotiated, setting, toServer, toClient, spc,
                   reported>>
      /\ CallInv /\ PairInv /\ SettingInv
  BY DEF Move, Finish, Die, clientVars, wireVars, sessionVars, resultVars, IInv
<1>2. ~misread /\ misread' = misread
  BY <1>1 DEF PairInv, Move, Finish, Die, readVars
<1>3. TrueMeansDone'
  BY <1>1 DEF IInv, TrueMeansDone
<1>4. /\ Working' <=> Working
      /\ Resting' <=> Resting
      /\ Working => worker'.id = worker.id
      /\ worker'.st = "ending" => worker.st = "ending" /\ worker'.id = worker.id
  <2>1. CASE Move \/ Finish
    <3>1. PICK st \in {"moved", "226", "426"} : worker' = [worker EXCEPT !.st = st]
      BY <2>1 DEF Move, Finish
    <3>2. worker'.st = st /\ worker'.id = worker.id
      BY <1>1, <3>1 DEF CallInv, NoTransfer
    <3>3. Working
      BY <2>1 DEF Move, Finish, Working
    <3> QED
      BY <3>2, <3>3 DEF Working, Resting
  <2>2. CASE Die
    BY <2>2 DEF Die, NoTransfer, Working, Resting
  <2> QED
    BY <2>1, <2>2
<1>5. /\ Served' <=> Served
      /\ Unserved' <=> Unserved
      /\ \A code : OneReply(code)' <=> OneReply(code)
  BY <1>1, <1>4 DEF Served, Unserved, OneReply
<1>6. ASSUME NEW rest, Transferring(rest)
      PROVE  Transferring(rest)'
  BY <1>1, <1>4, <1>5, <1>6 DEF Transferring
<1>7. cpc = "reply" => Replying'
  BY <1>1, <1>4, <1>5, <1>6 DEF PairInv, Replying
<1>8. cpc = "listing" => Listing'
  BY <1>1, <1>4, <1>5 DEF PairInv, Listing, Listed
<1>9. PairInv'
  BY <1>1, <1>2, <1>4, <1>5, <1>6, <1>7, <1>8 DEF PairInv, Listed
<1>10. SettingInv'
  BY <1>1, <1>5, SettingStays DEF Answered
<1> QED
  BY <1>3, <1>9, <1>10 DEF Keeps

\* The final reply comes after the 150, and to a client that waits for it.
LEMMA FinalReplyStep == ASSUME IInv, ~slipped, ~slipped', FinalReply PROVE Keeps
<1>1. /\ UNCHANGED <<cpc, local, asked, wanted, negotiated, setting, toServer, spc, done, reported>>
      /\ CallInv /\ PairInv /\ SettingInv /\ DoneInv
  BY DEF FinalReply, clientVars, sessionVars, resultVars, IInv
<1>2. ~misread /\ misread' = misread
  BY <1>1 DEF PairInv, FinalReply
<1>3. TrueMeansDone'
  BY <1>1 DEF IInv, TrueMeansDone
<1>4. PICK st \in {"226", "426"} :
        /\ worker.st = st /\ spc # "send150"
        /\ \/ toClient' = Append(toClient, Line(st, worker.id, TRUE))
           \/ spc = "closed" /\ UNCHANGED toClient
  BY DEF FinalReply
<1>5. /\ Working /\ ~Resting
      /\ worker'.st = "ending" /\ worker'.id = worker.id /\ Resting' /\ ~Working'
  BY <1>1, <1>4 DEF FinalReply, Working, Resting, CallInv, NoTransfer
<1>6. CASE cpc = "closed"
  <2>1. PairInv'
    BY <1>1, <1>2, <1>6 DEF PairInv
  <2> QED
    BY <1>1, <1>3, <1>6, <2>1 DEF SettingInv, Keeps
<1>7. CASE cpc \in {"idle", "next", "listing", "body"}
  BY <1>1, <1>5, <1>7 DEF PairInv, Listing, Unserved, OneReply
<1>8. ASSUME NEW rest, Transferring(rest)
      PROVE  rest = <<>> /\ Served' /\ worker.id = asked
  BY <1>1, <1>5, <1>8 DEF Transferring, Served
<1>9. ASSUME Transferring(<<>>)
      PROVE  Transferring(<<Line(st, asked, TRUE)>>)' /\ (spc = "closed" => Transferring(<<>>)')
  <2>1. Served' /\ worker.id = asked
    BY <1>8, <1>9
  <2>2. st = "226" => asked \in done
    BY <1>1, <1>4, <2>1 DEF DoneInv
  <2>3. Transferring(<<Line(st, asked, TRUE)>>)'
    BY <1>1, <1>5, <2>1, <2>2 DEF Transferring
  <2>4. spc = "closed" => Transferring(<<>>)'
    BY <1>1, <1>5, <2>1 DEF Transferring
  <2> QED
    BY <2>3, <2>4
<1>10. CASE cpc \in {"rdt", "final"}
  <2>1. local.tid = asked /\ Transferring(toClient)
    BY <1>1, <1>10 DEF PairInv
  <2>2. toClient = <<>> /\ worker.id = asked
    BY <1>8, <2>1
  <2>3. toClient' = <<Line(st, asked, TRUE)>> \/ (spc = "closed" /\ toClient' = <<>>)
    BY <1>4, <2>2, AppendOne
  <2>4. Transferring(toClient)'
    BY <1>1, <1>9, <2>1, <2>2, <2>3
  <2>5. PairInv'
    BY <1>1, <1>2, <1>10, <2>1, <2>4 DEF PairInv
  <2>6. SettingInv'
    BY <1>1, <1>10, SettingStays DEF Answered
  <2> QED
    BY <1>3, <2>5, <2>6 DEF Keeps
<1>11. CASE cpc = "reply"
  <2>1. ~Unserved /\ ~\E code : OneReply(code)
    BY <1>5 DEF Unserved, OneReply
  <2>2. ASSUME NEW last, Transferring(<<Line(last, asked, TRUE)>>)
        PROVE  FALSE
    <3>1. <<Line(last, asked, TRUE)>> = <<>>
      BY <1>8, <2>2
    <3> QED
      BY <3>1
  <2>3. /\ local.name \in Transfers /\ Transferring(<<>>)
        /\ toClient = <<Line("150 id", asked, FALSE)>>
    BY <1>1, <1>4, <1>11, <2>1, <2>2 DEF PairInv, Replying
  <2>4. worker.id = asked
    BY <1>8, <2>3
  <2>5. Replying'
    <3>1. CASE toClient' = Append(toClient, Line(st, worker.id, TRUE))
      <4>1. toClient' = <<Line("150 id", asked, FALSE), Line(st, asked, TRUE)>>
        BY <2>3, <2>4, <3>1, AppendOne
      <4> QED
        BY <1>1, <1>9, <2>3, <4>1 DEF Replying
    <3>2. CASE spc = "closed" /\ UNCHANGED toClient
      BY <1>1, <1>9, <2>3, <3>2 DEF Replying
    <3> QED
      BY <1>4, <3>1, <3>2
  <2>6. PairInv'
    BY <1>1, <1>2, <1>11, <2>5 DEF PairInv
  <2>7. ~Answered("MODE", "200")' /\ ~Answered("MODE", "200")
    BY <1>1, <2>3 DEF Answered, Transfers
  <2>8. SettingInv'
    BY <1>1, <2>7, SettingStays
  <2> QED
    BY <1>3, <2>6, <2>8 DEF Keeps
<1> QED
  BY <1>1, <1>6, <1>7, <1>10, <1>11 DEF CallInv, Places

-----------------------------------------------------------------------------
(* The client *)

\* A command is asked when everything asked before has been answered and read.
LEMMA AskStep ==
    ASSUME IInv, ~slipped, ~slipped', BeginCommand \/ NextCommand
    PROVE  Keeps
<1>1. PICK call, name, arg :
        /\ Ask(call, name, arg)
        /\ \/ call.call \notin Transfers
           \/ name = "MODE"
           \/ call.call \in Transfers /\ negotiated = wanted
        /\ DOMAIN call = DOMAIN NoCall
  <2>1. CASE BeginCommand
    <3>1. PICK call \in {"command", "login", "close"} :
            \E name, arg : Ask([NoCall EXCEPT !.call = call], name, arg)
      BY <2>1, Zenon DEF BeginCommand
    <3> DEFINE new == [NoCall EXCEPT !.call = call]
    <3>2. DOMAIN new = DOMAIN NoCall /\ new.call \notin Transfers
      BY DEF NoCall, Transfers
    <3> HIDE DEF new
    <3> QED
      BY <3>1, <3>2 DEF new
  <2>2. CASE NextCommand
    BY <2>2 DEF NextCommand, Negotiates, IInv, CallInv, Transfers
  <2> QED
    BY <2>1, <2>2
<1>2. /\ UNCHANGED <<wanted, negotiated, toClient, spc, worker, setting, done, reported>>
      /\ cpc \in {"idle", "next"} /\ CallInv /\ PairInv /\ SettingInv
  BY DEF BeginCommand, NextCommand, MayBegin, sessionVars, resultVars, IInv
<1>3. ~misread /\ misread' = misread
  BY <1>2 DEF PairInv, BeginCommand, NextCommand, readVars
<1>4. TrueMeansDone'
  BY <1>2 DEF IInv, TrueMeansDone
<1>5. toServer = <<>> /\ toClient = <<>> /\ spc # "send150" /\ Resting
  BY <1>2 DEF PairInv, Served
<1>6. /\ local'.name = name /\ local'.arg = arg /\ local'.call = call.call
      /\ toServer' = Append(toServer, Command(name, arg, asked'))
      /\ cpc' = IF name = "NLST" THEN "listing" ELSE "reply"
  BY <1>1 DEF Ask, NoCall
<1>7. Unserved'
  BY <1>2, <1>5, <1>6, AppendOne DEF Unserved, Resting
<1>8. PairInv'
  BY <1>2, <1>3, <1>6, <1>7 DEF PairInv, Replying, Listing
<1>9. ~Answered("MODE", "200") /\ ~Answered("MODE", "200")'
  BY <1>2, <1>5 DEF Answered, OneReply
<1>10. HasNegotiated' => negotiated = wanted
  BY <1>1, <1>6 DEF HasNegotiated, Transfers
<1>11. SettingInv'
  BY <1>2, <1>9, <1>10 DEF SettingInv
<1> QED
  BY <1>4, <1>8, <1>11 DEF Keeps

\* A transfer begins with nothing sent.
LEMMA BeginTransferStep == ASSUME IInv, ~slipped, ~slipped', BeginTransfer PROVE Keeps
<1>1. /\ UNCHANGED <<asked, wanted, negotiated, toServer, toClient, spc, worker, setting, done,
                   reported>>
      /\ cpc = "idle" /\ cpc' = "next" /\ local'.target = 0 /\ PairInv /\ SettingInv
  BY DEF BeginTransfer, MayBegin, wireVars, sessionVars, resultVars, IInv, NoCall
<1>2. ~misread /\ misread' = misread
  BY <1>1 DEF PairInv, BeginTransfer, readVars
<1>3. TrueMeansDone'
  BY <1>1 DEF IInv, TrueMeansDone
<1>4. PairInv'
  BY <1>1, <1>2 DEF PairInv, Served, Resting
<1>5. SettingInv'
  BY <1>1 DEF SettingInv, HasNegotiated, Answered
<1> QED
  BY <1>3, <1>4, <1>5 DEF Keeps

\* The reply to the command is read for it: the call goes on, or nothing is left.
LEMMA ReadReplyStep == ASSUME IInv, ~slipped, ~slipped', ReadReply PROVE Keeps
<1> DEFINE line == Head(toClient)
<1>1. /\ UNCHANGED <<asked, toServer, spc, worker, setting, done, reported>>
      /\ cpc = "reply" /\ toClient # <<>> /\ CallInv /\ PairInv /\ SettingInv /\ ~misread
  BY DEF ReadReply, sessionVars, resultVars, IInv, PairInv
<1>2. TrueMeansDone'
  BY <1>1 DEF IInv, TrueMeansDone
<1>3. /\ toClient' = Tail(toClient) /\ cpc' = AfterReply(local.name, line.code)
      /\ Reads(line, asked, FALSE)
  BY DEF ReadReply, Reads
<1>4. cpc' \in {"closed", "idle", "rdt", "next"} /\ cpc' # cpc
  BY <1>1, <1>3 DEF AfterReply
<1>5. ~Unserved /\ Replying
  BY <1>1 DEF Unserved, PairInv
<1>6. CASE \E code \in Codes : OneReply(code) /\ (code = "200 port" => local.name = "PORT")
  <2>1. PICK code \in Codes : OneReply(code) /\ (code = "200 port" => local.name = "PORT")
    BY <1>6
  <2>2. line = Line(code, asked, FALSE) /\ toClient' = <<>> /\ Served /\ Resting
    BY <1>3, <2>1, TakeOne DEF OneReply
  <2>3. line.code = code /\ ~misread'
    BY <1>1, <1>3, <2>2, ReadRight
  <2>4. cpc' # "rdt"
    BY <1>3, <2>3, Successes DEF AfterReply, Codes
  <2>5. Served' /\ Resting'
    BY <1>1, <2>2 DEF Served, Resting
  <2>6. PairInv'
    BY <1>1, <1>4, <2>2, <2>3, <2>4, <2>5 DEF PairInv
  <2>7. Answered("MODE", "200") <=> local.name = "MODE" /\ code = "200"
    <3>1. ASSUME OneReply("200")
          PROVE  code = "200"
      <4>1. line = Line("200", asked, FALSE)
        BY <3>1 DEF OneReply
      <4> QED
        BY <2>3, <4>1 DEF Line
    <3> QED
      BY <1>1, <2>1, <3>1 DEF Answered
  <2>8. ~Answered("MODE", "200")'
    BY <1>1, <1>4 DEF Answered
  <2>9. CASE local.name = "MODE" /\ code = "200"
    <3>1. wanted' = local.arg /\ negotiated' = local.arg
      BY <2>3, <2>9, Successes DEF ReadReply
    <3>2. setting = local.arg
      BY <1>1, <2>7, <2>9 DEF SettingInv
    <3> QED
      BY <1>1, <1>2, <2>6, <2>8, <3>1, <3>2 DEF SettingInv, Keeps
  <2>10. CASE ~(local.name = "MODE" /\ code = "200")
    <3>1. UNCHANGED <<wanted, negotiated>>
      BY <2>1, <2>3, <2>10, Successes DEF ReadReply
    <3>2. negotiated \in {"none", setting}
      BY <1>1, <2>7, <2>10 DEF SettingInv
    <3>3. ASSUME HasNegotiated'
          PROVE  negotiated = wanted
      <4>1. cpc' = "next" /\ local'.call \in Transfers /\ local'.target # 0
        BY <1>4, <2>4, <3>3, <1>1 DEF HasNegotiated
      <4>2. local'.call = local.call /\ local.call \in Transfers
        BY <1>1, <4>1 DEF ReadReply, CallInv, NoCall
      <4>3. CASE local.name \in {"PASV", "PORT"}
        BY <1>1, <4>2, <4>3 DEF SettingInv, HasNegotiated
      <4>4. CASE local.name \in Transfers
        BY <1>1, <4>2, <4>4 DEF SettingInv, HasNegotiated
      <4>5. CASE local.name = "MODE"
        <5>1. code \notin {"200", "200 port"}
          BY <2>1, <2>10, <4>5
        <5>2. cpc' # "next"
          BY <1>3, <2>3, <4>5, <5>1, Successes DEF AfterReply
        <5> QED
          BY <4>1, <5>2
      <4> QED
        BY <1>1, <4>2, <4>3, <4>4, <4>5 DEF CallInv
    <3> QED
      BY <1>1, <1>2, <2>6, <2>8, <3>1, <3>2, <3>3 DEF SettingInv, Keeps
  <2> QED
    BY <2>9, <2>10
<1>7. CASE /\ local.name \in Transfers /\ toClient # <<>>
           /\ line = Line("150 id", asked, FALSE) /\ Transferring(Tail(toClient))
  <2>1. line.code = "150 id" /\ line.id = asked /\ ~misread'
    BY <1>1, <1>3, <1>7, ReadRight
  <2>2. local.call = local.name
    BY <1>1, <1>7 DEF CallInv
  <2>3. cpc' = "rdt"
    BY <1>1, <1>3, <1>7, <2>1, <2>2, Successes DEF AfterReply, Transfers
  <2>4. local'.tid = asked
    BY <1>1, <2>1, <2>3 DEF ReadReply, CallInv, NoCall
  <2>5. Transferring(toClient)'
    BY <1>1, <1>3, <1>7 DEF Transferring, Served, Working, Resting
  <2>6. PairInv'
    BY <1>1, <2>1, <2>3, <2>4, <2>5 DEF PairInv
  <2>7. UNCHANGED <<wanted, negotiated>> /\ ~Answered("MODE", "200") /\ ~Answered("MODE", "200")'
    BY <1>1, <1>7, <2>3 DEF ReadReply, Answered, Transfers
  <2>8. HasNegotiated
    BY <1>1, <1>7, <2>2 DEF HasNegotiated
  <2>9. SettingInv'
    BY <1>1, <2>7, <2>8 DEF SettingInv
  <2> QED
    BY <1>2, <2>6, <2>9 DEF Keeps
<1> QED
  <2>1. CASE local.name \in Transfers /\ spc = "send150" /\ toClient = <<>>
    BY <1>1, <2>1
  <2>2. CASE /\ local.name \in Transfers
             /\ toClient = <<Line("150 id", asked, FALSE)>> /\ Transferring(<<>>)
    BY <1>7, <2>2, TakeOne
  <2>3. CASE /\ local.name \in Transfers
             /\ \E last \in {"226", "426"} :
                    /\ toClient = <<Line("150 id", asked, FALSE), Line(last, asked, TRUE)>>
                    /\ Transferring(<<Line(last, asked, TRUE)>>)
    <3>1. PICK last \in {"226", "426"} :
            /\ toClient = <<Line("150 id", asked, FALSE), Line(last, asked, TRUE)>>
            /\ Transferring(<<Line(last, asked, TRUE)>>)
      BY <2>3
    <3> QED
      BY <1>7, <2>3, <3>1, TakeOne
  <2> QED
    BY <1>5, <1>6, <2>1, <2>2, <2>3 DEF Replying

\* The lines of a listing are taken up to the 226, or up to the error that there is instead.
LEMMA ReadListingStep == ASSUME IInv, ~slipped, ~slipped', ReadListing PROVE Keeps
<1> DEFINE line == Head(toClient)
<1>1. /\ UNCHANGED <<asked, wanted, negotiated, toServer, spc, worker, setting, done, reported>>
      /\ cpc \in {"listing", "body"} /\ toClient # <<>>
      /\ CallInv /\ PairInv /\ SettingInv /\ ~misread
  BY DEF ReadListing, sessionVars, resultVars, IInv, PairInv
<1>2. TrueMeansDone'
  BY <1>1 DEF IInv, TrueMeansDone
<1>3. /\ toClient' = Tail(toClient)
      /\ Reads(line, asked, FALSE)
      /\ cpc' = IF ListsOn(line.code) THEN "body" ELSE "idle"
  BY DEF ReadListing, Reads
<1>4. /\ Served /\ Resting
      /\ \/ cpc = "listing" /\ OneReply("530")
         \/ cpc = "listing" /\ OneReply("550")
         \/ cpc = "listing" /\ toClient = Listed
         \/ cpc = "body" /\ toClient \in {Tail(Listed), Tail(Tail(Listed))}
  BY <1>1 DEF PairInv, Listing, Unserved, OneReply
<1>5. Served' /\ Resting'
  BY <1>1, <1>4 DEF Served, Resting
<1>6. /\ Listed' = Listed /\ Head(Listed) = Line("150", asked, FALSE)
      /\ Head(Tail(Listed)) = Line("name", asked, FALSE)
      /\ Head(Tail(Tail(Listed))) = Line("226", asked, FALSE)
      /\ Tail(Tail(Tail(Listed))) = <<>>
  BY <1>1 DEF Listed
<1>7. /\ ~misread'
      /\ \/ cpc' = "idle" /\ toClient' = <<>>
         \/ cpc' = "body" /\ toClient' \in {Tail(Listed), Tail(Tail(Listed))}
  <2>1. CASE cpc = "listing" /\ \E code \in {"530", "550"} : OneReply(code)
    <3>1. PICK code \in {"530", "550"} : line = Line(code, asked, FALSE) /\ toClient' = <<>>
      BY <1>3, <2>1, TakeOne DEF OneReply
    <3> QED
      BY <1>1, <1>3, <2>1, <3>1, ReadRight DEF ListsOn
  <2>2. CASE cpc = "listing" /\ toClient = Listed
    BY <1>1, <1>3, <1>6, <2>2, ReadRight DEF ListsOn
  <2>3. CASE cpc = "body" /\ toClient = Tail(Listed)
    BY <1>1, <1>3, <1>6, <2>3, ReadRight DEF ListsOn, ListingCodes
  <2>4. CASE cpc = "body" /\ toClient = Tail(Tail(Listed))
    BY <1>1, <1>3, <1>6, <2>4, ReadRight DEF ListsOn, ListingCodes
  <2> QED
    BY <1>4, <2>1, <2>2, <2>3, <2>4
<1>8. PairInv'
  BY <1>1, <1>5, <1>6, <1>7 DEF PairInv
<1>9. ~Answered("MODE", "200") /\ ~Answered("MODE", "200")' /\ ~HasNegotiated'
  BY <1>1, <1>7 DEF Answered, HasNegotiated
<1>10. SettingInv'
  BY <1>1, <1>9 DEF SettingInv
<1> QED
  BY <1>2, <1>8, <1>10 DEF Keeps

\* The data has been transferred or not; the final reply is still to be read.
LEMMA RdtReturnsStep == ASSUME IInv, ~slipped, ~slipped', RdtReturns PROVE Keeps
<1>1. /\ UNCHANGED <<asked, wanted, negotiated, toServer, toClient, spc, worker, setting, done,
                   reported>>
      /\ CallInv /\ PairInv /\ SettingInv /\ ~misread /\ misread' = misread
      /\ cpc = "rdt" /\ cpc' = "final"
  BY DEF RdtReturns, wireVars, sessionVars, resultVars, IInv, PairInv
<1>2. TrueMeansDone'
  BY <1>1 DEF IInv, TrueMeansDone
<1>3. local'.tid = local.tid
  BY <1>1 DEF RdtReturns, CallInv, NoCall
<1>4. Transferring(toClient)'
  BY <1>1 DEF PairInv, Transferring, Served, Working, Resting
<1>5. PairInv'
  BY <1>1, <1>3, <1>4 DEF PairInv
<1>6. HasNegotiated /\ ~Answered("MODE", "200") /\ ~Answered("MODE", "200")'
  BY <1>1 DEF HasNegotiated, Answered, CallInv
<1>7. SettingInv'
  BY <1>1, <1>6 DEF SettingInv
<1> QED
  BY <1>2, <1>5, <1>7 DEF Keeps

\* The final reply is that of the call's own transfer, and a 226 says that it is done.
LEMMA ReadFinalStep == ASSUME IInv, ~slipped, ~slipped', ReadFinal PROVE Keeps
<1>1. /\ UNCHANGED <<asked, wanted, negotiated, toServer, spc, worker, setting, done>>
      /\ CallInv /\ PairInv /\ SettingInv /\ ~misread
      /\ cpc = "final" /\ cpc' = "idle" /\ toClient # <<>> /\ toClient' = Tail(toClient)
  BY DEF ReadFinal, Reads, sessionVars, resultVars, IInv, PairInv
<1>2. local.tid = asked /\ Transferring(toClient)
  BY <1>1 DEF PairInv
<1>3. PICK code \in {"226", "426"} :
        /\ toClient = <<Line(code, asked, TRUE)>> /\ Resting /\ Served
        /\ code = "226" => asked \in done
  BY <1>1, <1>2 DEF Transferring
<1>4. Head(toClient) = Line(code, asked, TRUE) /\ toClient' = <<>>
  BY <1>1, <1>3, TakeOne
<1>5. ~misread'
  BY <1>1, <1>2, <1>4, ReadFinalRight DEF ReadFinal
<1>6. Served' /\ Resting'
  BY <1>1, <1>3 DEF Served, Resting
<1>7. PairInv'
  BY <1>1, <1>4, <1>5, <1>6 DEF PairInv
<1>8. IsSuccess(Head(toClient)) => asked \in done
  BY <1>3, <1>4 DEF IsSuccess, Line
<1>9. TrueMeansDone'
  BY <1>1, <1>2, <1>8 DEF ReadFinal, IInv, TrueMeansDone
<1>10. ~Answered("MODE", "200") /\ ~Answered("MODE", "200")' /\ ~HasNegotiated'
  BY <1>1 DEF Answered, HasNegotiated
<1>11. SettingInv'
  BY <1>1, <1>10 DEF SettingInv
<1> QED
  BY <1>7, <1>9, <1>11 DEF Keeps

\* After the end of the connection nothing is read.
LEMMA ReadEofStep == ASSUME IInv, ~slipped, ~slipped', ReadEof PROVE Keeps
<1>1. /\ UNCHANGED <<misread, done, reported>> /\ ~misread /\ cpc' = "closed"
  BY DEF ReadEof, readVars, resultVars, IInv, PairInv
<1> QED
  BY <1>1 DEF Keeps, IInv, PairInv, SettingInv, TrueMeansDone

-----------------------------------------------------------------------------
(* The theorems *)

\* Every step preserves the invariant.
LEMMA NextInv == ASSUME IInv, [Next]_vars PROVE IInv'
<1>1. CallInv' /\ DoneInv' /\ done \subseteq done'
  BY CallStep, DoneStep DEF IInv
<1>2. CASE slipped'
  BY <1>1, <1>2 DEF IInv, PairInv, SettingInv, TrueMeansDone
<1>3. CASE ~slipped'
  <2> SUFFICES Keeps
    BY <1>1 DEF IInv, Keeps
  <2>1. ~slipped
    BY <1>3, SlipStep
  <2>2. CASE BeginCommand \/ NextCommand
    BY <1>3, <2>1, <2>2, AskStep
  <2>3. CASE BeginTransfer
    BY <1>3, <2>1, <2>3, BeginTransferStep
  <2>4. CASE ReadReply \/ ReadListing
    BY <1>3, <2>1, <2>4, ReadReplyStep, ReadListingStep
  <2>5. CASE RdtReturns \/ ReadFinal \/ ReadEof
    BY <1>3, <2>1, <2>5, RdtReturnsStep, ReadFinalStep, ReadEofStep
  <2>6. CASE RaisesAfter150
    BY <1>3, <2>6 DEF RaisesAfter150
  <2>7. CASE Refuse \/ Authenticate \/ CdUp \/ SetMode \/ Rename \/ Endpoint \/ Quit
    BY <1>3, <2>1, <2>7, OneAnswers, OneAnswer
  <2>8. CASE List \/ StartTransfer \/ Send150 \/ Hangup
    BY <1>3, <2>1, <2>8, ListStep, StartTransferStep, Send150Step, HangupStep
  <2>9. CASE FinalReply
    BY <1>3, <2>1, <2>9, FinalReplyStep
  <2>10. CASE Move \/ Finish \/ Die
    BY <1>1, <1>3, <2>1, <2>10, QuietWorkerStep
  <2>11. CASE UNCHANGED vars
    <3>1. /\ UNCHANGED <<cpc, local, asked, wanted, negotiated, toServer, toClient, spc, setting>>
          /\ UNCHANGED <<worker, done, reported, misread, slipped>>
      BY <2>11 DEF vars, clientVars, wireVars, sessionVars, resultVars, readVars
    <3>2. PairInv'
      BY <3>1 DEF IInv, PairInv, Replying, Listing, Listed, OneReply, Unserved, Transferring,
         Served, Working, Resting
    <3>3. SettingInv'
      BY <3>1 DEF IInv, SettingInv, HasNegotiated, Answered, OneReply, Served, Resting
    <3> QED
      BY <3>1, <3>2, <3>3 DEF IInv, TrueMeansDone, Keeps
  <2> QED
    BY <2>2, <2>3, <2>4, <2>5, <2>6, <2>7, <2>8, <2>9, <2>10, <2>11
    DEF Next, ClientStep, ServerStep, WorkerStep, Finished
<1> QED
  BY <1>2, <1>3

\* While the client keeps count, the lines on their way are those it waits for.
THEOREM Invariance == Spec => []IInv
BY InitInv, NextInv, PTL DEF Spec

\* The client takes a reply for another only after one of the four slips.
THEOREM RepliesMatch == Spec => []KnownSlips
<1>1. ASSUME IInv PROVE KnownSlips
  BY <1>1 DEF IInv, PairInv, KnownSlips
<1> QED
  BY <1>1, Invariance, PTL

\* A transfer is on the session's own settings and by the session's own worker.
THEOREM TransfersNegotiated == Spec => []Negotiated
<1>1. ASSUME IInv PROVE Negotiated
  <2>1. SUFFICES ASSUME ~slipped, cpc = "rdt"
                 PROVE  wanted = setting /\ (Alive => worker.id = local.tid)
    BY DEF Negotiated
  <2>2. HasNegotiated /\ ~Answered("MODE", "200") /\ wanted \in Values
    BY <1>1, <2>1 DEF IInv, CallInv, HasNegotiated, Answered
  <2>3. wanted = setting
    BY <1>1, <2>1, <2>2, ConnectionAssumption DEF IInv, SettingInv
  <2>4. Alive => worker.id = local.tid
    BY <1>1, <2>1 DEF IInv, PairInv, Transferring, CallInv, Alive, Working, Resting
  <2> QED
    BY <2>3, <2>4
<1> QED
  BY <1>1, Invariance, PTL

\* A call that returns True has had a transfer that the server completed.
THEOREM SuccessIsDone == Spec => []TrueMeansDone
<1>1. IInv => TrueMeansDone
  BY DEF IInv
<1> QED
  BY <1>1, Invariance, PTL

\* A client that waits for a line has a cause to: the line has come, the session has a
\* command to answer or the 150 to send, the transfer it asked for is still going on and
\* ends with a final reply, or the session has closed, which recv tells.
Waiting == cpc \in {"reply", "listing", "body", "final"}
Awaited ==
    \/ toClient # <<>> \/ spc = "closed"
    \/ toServer # <<>> \/ spc = "send150"
    \/ Working /\ worker.id = asked
NoVainWait == ~slipped /\ Waiting => Awaited

\* While it keeps count the client never waits for a reply that nobody owes it.
THEOREM NobodyWaitsInVain == Spec => []NoVainWait
<1>1. ASSUME IInv PROVE NoVainWait
  <2>1. SUFFICES ASSUME ~slipped, Waiting PROVE Awaited
    BY DEF NoVainWait
  <2>2. PairInv
    BY <1>1 DEF IInv
  <2>3. CASE cpc = "reply"
    <3>1. Replying
      BY <2>1, <2>2, <2>3 DEF PairInv
    <3>2. CASE Unserved
      BY <3>2 DEF Unserved, Awaited
    <3>3. CASE spc = "send150"
      BY <3>3 DEF Awaited
    <3>4. ASSUME NEW code, OneReply(code) PROVE Awaited
      BY <3>4 DEF OneReply, Awaited
    <3>5. CASE toClient = <<Line("150 id", asked, FALSE)>>
      BY <3>5 DEF Awaited
    <3>6. ASSUME NEW last, toClient = <<Line("150 id", asked, FALSE), Line(last, asked, TRUE)>>
          PROVE  Awaited
      BY <3>6 DEF Awaited
    <3> QED
      BY <3>1, <3>2, <3>3, <3>4, <3>5, <3>6, Zenon DEF Replying
  <2>4. CASE cpc = "listing"
    <3>1. Listing
      BY <2>1, <2>2, <2>4 DEF PairInv
    <3>2. CASE Unserved
      BY <3>2 DEF Unserved, Awaited
    <3>3. ASSUME NEW code, OneReply(code) PROVE Awaited
      BY <3>3 DEF OneReply, Awaited
    <3>4. CASE toClient = Listed
      BY <3>4 DEF Listed, Awaited
    <3> QED
      BY <3>1, <3>2, <3>3, <3>4, Zenon DEF Listing
  <2>5. CASE cpc = "body"
    <3>1. toClient \in {Tail(Listed), Tail(Tail(Listed))}
      BY <2>1, <2>2, <2>5 DEF PairInv
    <3>2. CASE toClient = Tail(Listed)
      <4>1. Len(toClient) = 2
        BY <3>2 DEF Listed
      <4> QED
        BY <4>1 DEF Awaited
    <3>3. CASE toClient = Tail(Tail(Listed))
      <4>1. Len(toClient) = 1
        BY <3>3 DEF Listed
      <4> QED
        BY <4>1 DEF Awaited
    <3> QED
      BY <3>1, <3>2, <3>3
  <2>6. CASE cpc = "final"
    <3>1. Transferring(toClient)
      BY <2>1, <2>2, <2>6 DEF PairInv
    <3>2. ASSUME NEW code, toClient = <<Line(code, asked, TRUE)>> PROVE Awaited
      BY <3>2 DEF Awaited
    <3>3. CASE Working \/ spc = "closed"
      BY <3>1, <3>3, Zenon DEF Transferring, Awaited
    <3> QED
      BY <3>1, <3>2, <3>3, Zenon DEF Transferring
  <2> QED
    BY <2>1, <2>3, <2>4, <2>5, <2>6 DEF Waiting
<1> QED
  BY <1>1, Invariance, PTL
=============================================================================
