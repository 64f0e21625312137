-------------------------- MODULE ControlConnection --------------------------
(***************************************************************************)
(* The client library (client/ftp_client.py) and the session it talks to   *)
(* (server/client_handler.py, server/command_handler.py) at the two ends of*)
(* a TCP control connection.                                               *)
(*                                                                         *)
(* FTPClient sends a command and waits for one reply.  A transfer has two, *)
(* the 150 and a final one that its worker thread sends when it ends, so   *)
(* which reply belongs to which command is a matter of counting, on the    *)
(* client's side, and of the order of two threads, on the server's.  Here  *)
(* every reply line carries the number of the command it answers, which the*)
(* program does not have, to tell when the count is lost.                  *)
(*                                                                         *)
(* TransferSession has the details of a transfer's thread and cancellation,*)
(* and GoBackN those of the data: here a transfer moves its data or not.   *)
(***************************************************************************)
EXTENDS Integers, Sequences

CONSTANTS
    Values,           \* values of MODE
    Default,          \* the one a session starts with
    MaxCommands       \* bound: no call begins after this many commands

ASSUME ConnectionAssumption ==
    Default \in Values /\ "none" \notin Values /\ MaxCommands \in Nat

VARIABLES
    \* FTPClient
    cpc,              \* where it is
    local,            \* the call it is in and that call's variables
    asked,            \* the number of commands it has sent
    wanted,           \* transfer_mode; transfer_type goes the same way
    negotiated,       \* _negotiated_mode
    \* the TCP connection
    toServer, toClient,
    \* the session
    spc, login, setting, renameFrom, sock, endpoint,
    stuck,            \* current_transfer is left from a thread that did not start
    worker,           \* the transfer's thread
    \* history
    moved,            \* transfers that have moved all their data
    done,             \* transfers the server has completed
    reported,         \* transfers for which a call returned True
    misread,          \* the client has taken a reply for another
    slipped           \* one of the things that could make it do so has happened

clientVars  == <<cpc, local, asked, wanted, negotiated>>
sessionVars == <<login, setting, renameFrom, sock, endpoint, stuck>>
wireVars    == <<toServer, toClient>>
resultVars  == <<moved, done, reported>>
readVars    == <<misread, slipped>>
vars == <<clientVars, wireVars, spc, sessionVars, worker, resultVars, readVars>>

Transfers == {"RETR", "STOR", "STOU"}       \* STOR stands for APPE too
Command(name, arg, id) == [name |-> name, arg |-> arg, id |-> id]
Line(code, id, final) == [code |-> code, id |-> id, final |-> final]
NoTransfer == [id |-> 0, sock |-> 0, st |-> "none"]
NoCall == [call |-> "none", via |-> "none", name |-> "none", arg |-> Default,
           target |-> 0, tid |-> 0, ok |-> FALSE]

\* A new connection, or one that has logged in and negotiated before
Init ==
    /\ cpc = "idle" /\ local = NoCall /\ asked = 0
    /\ wanted \in Values
    /\ \/ login = "none" /\ negotiated = "none" /\ setting = Default
       \/ login = "in" /\ negotiated = wanted /\ setting = wanted
    /\ toServer = <<>> /\ toClient = <<>>
    /\ spc = "ready" /\ renameFrom = FALSE /\ sock = 0 /\ endpoint = "none"
    /\ stuck = FALSE /\ worker = NoTransfer
    /\ moved = {} /\ done = {} /\ reported = {}
    /\ misread = FALSE /\ slipped = FALSE

-----------------------------------------------------------------------------
(* The client: a call begins, sends its commands and reads their replies   *)

\* command sends its line
Ask(call, name, arg) ==
    /\ asked' = asked + 1
    /\ toServer' = Append(toServer, Command(name, arg, asked'))
    /\ local' = [call EXCEPT !.name = name, !.arg = arg]
    /\ cpc' = IF name = "NLST" THEN "listing" ELSE "reply"

MayBegin == cpc = "idle" /\ asked < MaxCommands

\* command, set_mode, set_type, close and the first half of login.  CDUP stands for
\* the commands with one reply that concern nothing else here, NLST for LIST too.
BeginCommand ==
    /\ MayBegin
    /\ \E call \in {"command", "login", "close"} :
        LET Call(name, arg) == Ask([NoCall EXCEPT !.call = call], name, arg)
        IN  \/ call = "command" /\ \E name \in {"USER", "CDUP", "NLST", "RNFR", "RNTO", "ABOR"} :
                                        Call(name, Default)
            \/ call = "command" /\ \E v \in Values : Call("MODE", v)
            \/ call = "login" /\ Call("USER", Default)
            \/ call = "close" /\ Call("QUIT", Default)
    /\ UNCHANGED <<wanted, negotiated, toClient, spc, sessionVars, worker, resultVars, readVars>>

BeginTransfer ==
    /\ MayBegin
    /\ cpc' = "next"
    /\ \E call \in Transfers, via \in {"PASV", "PORT"} :
        local' = [NoCall EXCEPT !.call = call, !.via = via]
    /\ UNCHANGED <<asked, wanted, negotiated, wireVars, spc, sessionVars, worker,
                   resultVars, readVars>>

\* _ensure_transfer_mode
Negotiates == negotiated # wanted

NextCommand ==
    /\ cpc = "next"
    /\ IF local.call = "login" THEN Ask(local, "PASS", Default)
       ELSE IF Negotiates THEN Ask(local, "MODE", wanted)
       ELSE IF local.target = 0 THEN Ask(local, local.via, Default)
       ELSE Ask(local, local.call, Default)
    /\ UNCHANGED <<wanted, negotiated, toClient, spc, sessionVars, worker, resultVars, readVars>>

\* The next line, taken for a first or a final reply to command id
Reads(line, id, final) ==
    /\ toClient' = Tail(toClient)
    /\ misread' = (misread \/ line.id # id \/ line.final # final)

\* The codes with which a call goes on
MutantSuccess(name) ==
    CASE name = "USER" -> {"331"} [] name = "PASS" -> {"230"} [] name = "PASV" -> {"227"}
      [] name = "PORT" -> {"200 port"} [] name \in Transfers -> {"150 id"}
      [] OTHER -> {"200", "200 port", "530"}
Success(name) ==
    CASE name = "USER" -> {"331"} [] name = "PASS" -> {"230"} [] name = "PASV" -> {"227"}
      [] name = "PORT" -> {"200 port"} [] name \in Transfers -> {"150 id"}
      [] OTHER -> {"200", "200 port"}

\* What a call does with the reply to a command: go on, return, or raise RuntimeError
AfterReply(name, code) ==
    IF local.call = "close" THEN "closed"
    ELSE IF local.call = "command" \/ name = "PASS" \/ code \notin Success(name) THEN "idle"
    ELSE IF name \in Transfers THEN "rdt" ELSE "next"

ReadReply ==
    /\ cpc = "reply" /\ toClient # <<>>
    /\ LET line == Head(toClient) IN
        /\ Reads(line, asked, FALSE)
        /\ cpc' = AfterReply(local.name, line.code)
        /\ local' = IF cpc' = "rdt" THEN [local EXCEPT !.tid = line.id]
                    ELSE IF cpc' # "next" THEN NoCall
                    ELSE IF local.name \in {"PASV", "PORT"}
                         THEN [local EXCEPT !.target = line.id]
                    ELSE local
        \* _record_successful_negotiation
        /\ IF local.name = "MODE" /\ line.code \in Success("MODE")
           THEN wanted' = local.arg /\ negotiated' = local.arg
           ELSE UNCHANGED <<wanted, negotiated>>
    /\ UNCHANGED <<asked, toServer, spc, sessionVars, worker, resultVars, slipped>>

\* _recv_listing_reply: a first line, and after a 150 all lines up to a final code
ListingCodes == {"226", "425", "426", "450", "550"}
MutantListsOneLine(code) == FALSE
MutantListsAlways(code) == code \notin ListingCodes
ListsOn(code) ==
    IF cpc = "listing" THEN code \in {"150", "150 id"} ELSE code \notin ListingCodes

ReadListing ==
    /\ cpc \in {"listing", "body"} /\ toClient # <<>>
    /\ LET line == Head(toClient) IN
        /\ Reads(line, asked, FALSE)
        /\ IF ListsOn(line.code)
           THEN cpc' = "body" /\ UNCHANGED local
           ELSE cpc' = "idle" /\ local' = NoCall
    /\ UNCHANGED <<asked, wanted, negotiated, toServer, spc, sessionVars, worker, resultVars, slipped>>

\* send_file_rdt or receive_file_rdt returns; after a STOU that failed the call
\* returns without the final reply
RdtReturns ==
    /\ cpc = "rdt"
    /\ \E ok \in BOOLEAN :
        /\ ok => local.tid \in moved
        /\ IF local.call = "STOU" /\ ~ok
           THEN cpc' = "idle" /\ local' = NoCall /\ slipped' = TRUE
           ELSE cpc' = "final" /\ local' = [local EXCEPT !.ok = ok] /\ UNCHANGED slipped
    /\ UNCHANGED <<asked, wanted, negotiated, wireVars, spc, sessionVars, worker, resultVars, misread>>

\* reply_callback, the probe of an active download or a local file that cannot be
\* opened raise after the 150
RaisesAfter150 ==
    /\ cpc = "rdt"
    /\ cpc' = "idle" /\ local' = NoCall /\ slipped' = TRUE
    /\ UNCHANGED <<asked, wanted, negotiated, wireVars, spc, sessionVars, worker, resultVars, misread>>

\* ok and complete.startswith("226")
MutantIsSuccess(line) == local.ok
IsSuccess(line) == local.ok /\ line.code = "226"

ReadFinal ==
    /\ cpc = "final" /\ toClient # <<>>
    /\ Reads(Head(toClient), local.tid, TRUE)
    /\ reported' = IF IsSuccess(Head(toClient)) THEN reported \cup {local.tid} ELSE reported
    /\ cpc' = "idle" /\ local' = NoCall
    /\ UNCHANGED <<asked, wanted, negotiated, toServer, spc, sessionVars, worker, moved, done, slipped>>

\* The connection has ended: recv returns nothing, or raises with lines still unread
ReadEof ==
    /\ cpc \in {"reply", "listing", "body", "final"} /\ spc = "closed"
    /\ cpc' = "closed" /\ local' = NoCall
    /\ UNCHANGED <<asked, wanted, negotiated, wireVars, spc, sessionVars, worker, resultVars, readVars>>

ClientStep ==
    \/ NextCommand \/ ReadReply \/ ReadListing \/ RdtReturns \/ ReadFinal \/ ReadEof

-----------------------------------------------------------------------------
(* The session's control thread                                            *)

Pending == spc = "ready" /\ toServer # <<>>

\* The reply to command c, which is the next one
Answers(c, code) ==
    /\ toServer' = Tail(toServer)
    /\ toClient' = Append(toClient, Line(code, c.id, FALSE))

\* handle: any command but RNTO forgets an RNFR
Forget(c) == renameFrom' = (renameFrom /\ c.name = "RNTO")

Refuse ==
    /\ Pending
    /\ LET c == Head(toServer) IN
        /\ c.name \notin {"USER", "PASS", "QUIT"} /\ login # "in"
        /\ Answers(c, "530") /\ Forget(c)
    /\ UNCHANGED <<clientVars, spc, login, setting, stuck, sock, endpoint, worker,
                   resultVars, readVars>>

\* USER logs out; PASS wants a USER before it and accepts any password but none
Authenticate ==
    /\ Pending
    /\ LET c == Head(toServer) IN
        /\ \/ c.name = "USER" /\ Answers(c, "331") /\ login' = "user"
           \/ c.name = "PASS" /\ login = "none" /\ Answers(c, "503") /\ UNCHANGED login
           \/ c.name = "PASS" /\ login # "none" /\ Answers(c, "230") /\ login' = "in"
           \/ c.name = "PASS" /\ login = "user" /\ Answers(c, "530") /\ login' = "none"
        /\ Forget(c)
    /\ UNCHANGED <<clientVars, spc, setting, stuck, sock, endpoint, worker, resultVars,
                   readVars>>

CdUp ==
    /\ Pending /\ login = "in"
    /\ LET c == Head(toServer) IN
        c.name = "CDUP" /\ (Answers(c, "200") \/ Answers(c, "550")) /\ Forget(c)
    /\ UNCHANGED <<clientVars, spc, login, setting, stuck, sock, endpoint, worker, resultVars,
                   readVars>>

\* MODE and TYPE, also while a transfer is running
SetMode ==
    /\ Pending /\ login = "in"
    /\ LET c == Head(toServer) IN
        c.name = "MODE" /\ Answers(c, "200") /\ setting' = c.arg /\ Forget(c)
    /\ UNCHANGED <<clientVars, spc, login, stuck, sock, endpoint, worker, resultVars,
                   readVars>>

AnswersAll(c, codes) ==
    /\ toServer' = Tail(toServer)
    /\ toClient' = toClient \o <<Line(codes[1], c.id, FALSE), Line(codes[2], c.id, FALSE),
                                 Line(codes[3], c.id, FALSE)>>

\* The listing is one sendall.  A name in it, of NLST, may begin like a final code.
List ==
    /\ Pending /\ login = "in"
    /\ LET c == Head(toServer) IN
        /\ c.name = "NLST" /\ Forget(c)
        /\ \/ Answers(c, "550") /\ UNCHANGED slipped
           \/ AnswersAll(c, <<"150", "name", "226">>) /\ UNCHANGED slipped
           \/ AnswersAll(c, <<"150", "226", "226">>) /\ slipped' = TRUE
    /\ UNCHANGED <<clientVars, spc, login, setting, stuck, sock, endpoint, worker,
                   resultVars, misread>>

Rename ==
    /\ Pending /\ login = "in"
    /\ LET c == Head(toServer) IN
        \/ /\ c.name = "RNFR"
           /\ \/ Answers(c, "350") /\ renameFrom' = TRUE
              \/ Answers(c, "550") /\ renameFrom' = FALSE
        \/ c.name = "RNTO" /\ ~renameFrom /\ Answers(c, "503") /\ UNCHANGED renameFrom
        \/ /\ c.name = "RNTO" /\ renameFrom /\ renameFrom' = FALSE
           /\ Answers(c, "250") \/ Answers(c, "550")
    /\ UNCHANGED <<clientVars, spc, login, setting, stuck, sock, endpoint, worker, resultVars,
                   readVars>>

\* PASV and PORT: the new socket is made or not; ABOR closes the one there is
Endpoint ==
    /\ Pending /\ login = "in"
    /\ LET c == Head(toServer) IN
        /\ \/ c.name = "PASV" /\ Answers(c, "227") /\ sock' = c.id /\ endpoint' = c.name
           \/ c.name = "PORT" /\ Answers(c, "200 port") /\ sock' = c.id /\ endpoint' = c.name
           \/ c.name \in {"PASV", "PORT"} /\ Answers(c, "425") /\ sock' = 0 /\ UNCHANGED endpoint
           \/ c.name = "PORT" /\ Answers(c, "501") /\ UNCHANGED <<sock, endpoint>>
           \/ c.name = "ABOR" /\ Answers(c, "226") /\ sock' = 0 /\ UNCHANGED endpoint
        /\ Forget(c)
    /\ UNCHANGED <<clientVars, spc, login, setting, stuck, worker, resultVars, readVars>>

Alive == worker.st # "none"

\* retr, stor, stou, appe: the worker runs before the 150 is sent.  If its thread
\* cannot be started the reply is 500, and from then on the session is busy.
StartTransfer ==
    /\ Pending /\ login = "in"
    /\ LET c == Head(toServer)
           ready == sock # 0 \/ endpoint # "none"
           busy == Alive \/ stuck
       IN
        /\ c.name \in Transfers /\ Forget(c)
        /\ \/ ~ready /\ Answers(c, "425") /\ UNCHANGED <<spc, worker, stuck>>
           \/ ready /\ busy /\ Answers(c, "450") /\ UNCHANGED <<spc, worker, stuck>>
           \/ /\ ready /\ ~busy /\ Answers(c, "500")
              /\ stuck' = TRUE /\ UNCHANGED <<spc, worker>>
           \/ /\ ready /\ ~busy /\ toServer' = Tail(toServer)
              /\ worker' = [id |-> c.id, sock |-> sock, st |-> "moving"]
              /\ spc' = "send150" /\ UNCHANGED <<toClient, stuck>>
    /\ UNCHANGED <<clientVars, login, setting, sock, endpoint, resultVars, readVars>>

Send150 ==
    /\ spc = "send150" /\ spc' = "ready"
    /\ toClient' = Append(toClient, Line("150 id", worker.id, FALSE))
    /\ UNCHANGED <<clientVars, toServer, sessionVars, worker, resultVars, readVars>>

\* run ends with cleanup
CleansUp ==
    /\ spc' = "closed" /\ renameFrom' = FALSE /\ sock' = 0 /\ endpoint' = "none"
    /\ stuck' = FALSE

Quit ==
    /\ Pending
    /\ LET c == Head(toServer) IN c.name = "QUIT" /\ Answers(c, "221")
    /\ CleansUp
    /\ UNCHANGED <<clientVars, login, setting, worker, resultVars, readVars>>

\* stop() has closed the session, or the connection is lost
Hangup ==
    /\ spc = "ready" /\ CleansUp
    /\ UNCHANGED <<clientVars, wireVars, login, setting, worker, resultVars, readVars>>

ServerStep ==
    \/ Refuse \/ Authenticate \/ CdUp \/ SetMode \/ List \/ Rename \/ Endpoint \/ StartTransfer
    \/ Send150 \/ Quit

-----------------------------------------------------------------------------
(* The worker of a transfer                                                *)

\* The client's RDT call for this transfer, on the socket of this transfer, with
\* the same MODE and TYPE
Meets ==
    /\ cpc = "rdt" /\ local.tid = worker.id
    /\ worker.sock # 0 /\ sock = worker.sock /\ local.target = sock
    /\ wanted = setting

Move ==
    /\ worker.st = "moving" /\ Meets
    /\ worker' = [worker EXCEPT !.st = "moved"]
    /\ moved' = moved \cup {worker.id}
    /\ UNCHANGED <<clientVars, wireVars, spc, sessionVars, done, reported, readVars>>

\* The transfer has succeeded or not, and _finish has cleaned the session
Finish ==
    /\ worker.st \in {"moving", "moved"}
    /\ \/ worker.st = "moved" /\ worker' = [worker EXCEPT !.st = "226"]
          /\ done' = done \cup {worker.id}
       \/ worker' = [worker EXCEPT !.st = "426"] /\ UNCHANGED done
    /\ sock' = 0 /\ endpoint' = "none"
    /\ UNCHANGED <<clientVars, wireVars, spc, login, setting, stuck, renameFrom, moved,
                   reported, readVars>>

\* send_reply, from the worker's thread
FinalReply ==
    /\ worker.st \in {"226", "426"}
    /\ worker' = [worker EXCEPT !.st = "ending"]
    /\ \/ toClient' = Append(toClient, Line(worker.st, worker.id, TRUE))
       \/ spc = "closed" /\ UNCHANGED toClient
    /\ slipped' = (slipped \/ spc = "send150")
    /\ UNCHANGED <<clientVars, toServer, spc, sessionVars, resultVars, misread>>

Die ==
    /\ worker.st = "ending" /\ spc # "send150"
    /\ worker' = NoTransfer
    /\ UNCHANGED <<clientVars, wireVars, spc, sessionVars, resultVars, readVars>>

WorkerStep == Move \/ Finish \/ FinalReply \/ Die

-----------------------------------------------------------------------------
Finished ==
    /\ cpc = "closed" \/ (cpc = "idle" /\ ~MayBegin)
    /\ toServer = <<>> \/ spc = "closed"
    /\ spc # "send150" /\ ~Alive
    /\ UNCHANGED vars

Next ==
    \/ BeginCommand \/ BeginTransfer \/ ClientStep \/ RaisesAfter150
    \/ ServerStep \/ Hangup \/ WorkerStep \/ Finished

Spec == Init /\ [][Next]_vars

\* The threads of both ends run; the user makes calls or not.
FairSpec ==
    Spec /\ WF_vars(ClientStep) /\ WF_vars(ServerStep) /\ WF_vars(WorkerStep)

-----------------------------------------------------------------------------
(* Properties *)

\* While the client keeps count, a call returns True only for a transfer that the server
\* has completed.  (One that is several replies behind may take the 226 of a later ABOR
\* for that of the transfer which the ABOR has stopped.)
TrueMeansDone == ~slipped => reported \subseteq done

\* The client takes a reply for another only after one of four things has happened: a
\* STOU failed, a callback or probe raised after the 150, a worker ended before its 150
\* was sent, a listing has a name that looks like a final reply.
KnownSlips == misread => slipped

\* While it keeps count, the client transfers data with the MODE and TYPE that the
\* session has, which it caches and does not ask for, and under the session's transfer.
Negotiated ==
    ~slipped /\ cpc = "rdt" => wanted = setting /\ (Alive => worker.id = local.tid)

InCall == cpc \notin {"idle", "closed"}

\* While it keeps count every call returns or raises, also when the connection ends: no
\* reply it waits for is one that does not come.  (A client out of step may wait for
\* ever: NLST takes an old 150 for its first line and its own 530 for a name.)
CallsReturn == InCall /\ ~slipped ~> ~InCall \/ slipped

-----------------------------------------------------------------------------
(* The inductive invariant behind these properties: ControlConnection_proofs *)
(* shows that it holds for any number of commands and values of MODE.        *)

\* Where a transfer can be in its thread, and where it leaves the replies alone
Working == worker.st \in {"moving", "moved", "226", "426"}
Resting == worker.st \in {"none", "ending"}

\* The session has answered all that was asked, or has closed
Served == toServer = <<>> /\ spc # "send150"
Unserved ==
    /\ toServer = <<Command(local.name, local.arg, asked)>> /\ toClient = <<>>
    /\ spc # "send150" /\ Resting

\* The last command's transfer goes on, or has sent its final reply, the only line in
\* rest; one that the end of the connection kept from it never comes.
Transferring(rest) ==
    /\ Served
    /\ Working \/ worker.st = "ending" => worker.id = asked
    /\ \/ rest = <<>> /\ (Working \/ spc = "closed")
       \/ \E code \in {"226", "426"} :
            /\ rest = <<Line(code, asked, TRUE)>> /\ Resting
            /\ code = "226" => asked \in done

\* The reply is the one line on its way, or the 150 of a transfer that may be over
Codes == {"200", "200 port", "221", "226", "227", "230", "250", "331", "350", "425", "450",
          "500", "501", "503", "530", "550"}
OneReply(code) == Served /\ Resting /\ toClient = <<Line(code, asked, FALSE)>>
Replying ==
    \/ Unserved
    \/ /\ local.name \in Transfers /\ spc = "send150" /\ Working /\ worker.id = asked
       /\ toServer = <<>> /\ toClient = <<>>
    \/ \E code \in Codes : OneReply(code) /\ (code = "200 port" => local.name = "PORT")
    \/ /\ local.name \in Transfers
       /\ \/ toClient = <<Line("150 id", asked, FALSE)>> /\ Transferring(<<>>)
          \/ \E last \in {"226", "426"} :
                /\ toClient = <<Line("150 id", asked, FALSE), Line(last, asked, TRUE)>>
                /\ Transferring(<<Line(last, asked, TRUE)>>)

Listed == <<Line("150", asked, FALSE), Line("name", asked, FALSE), Line("226", asked, FALSE)>>
Listing ==
    /\ local.name = "NLST"
    /\ \/ Unserved
       \/ OneReply("530") \/ OneReply("550")
       \/ Served /\ Resting /\ toClient = Listed

\* While the client keeps count, what is on its way is what it waits for.
PairInv ==
    ~slipped =>
        /\ ~misread
        /\ cpc \in {"idle", "next"} => Served /\ Resting /\ toClient = <<>>
        /\ cpc = "reply" => Replying
        /\ cpc = "listing" => Listing
        /\ cpc = "body" =>
            Served /\ Resting /\ toClient \in {Tail(Listed), Tail(Tail(Listed))}
        /\ cpc \in {"rdt", "final"} => local.tid = asked /\ Transferring(toClient)

\* Each place has the calls that get there.
Places == {"idle", "next", "reply", "listing", "body", "rdt", "final", "closed"}
CallInv ==
    /\ cpc \in Places /\ wanted \in Values
    /\ DOMAIN local = DOMAIN NoCall /\ DOMAIN worker = DOMAIN NoTransfer
    /\ Working \/ Resting
    /\ local.call \in Transfers => local.via \in {"PASV", "PORT"}
    /\ cpc = "next" => local.call \in Transfers \cup {"login"}
    /\ cpc = "reply" =>
        /\ local.call \in Transfers \cup {"login", "command", "close"}
        /\ local.name # "NLST"
        /\ local.name = "MODE" => local.arg \in Values
        /\ local.name \in Transfers => local.call = local.name
        /\ local.call \in Transfers => local.name \in Transfers \cup {"MODE", "PASV", "PORT"}
    /\ cpc \in {"rdt", "final"} => local.call \in Transfers

\* The client's MODE is the session's, or its MODE command has just been answered.  A
\* transfer that has an endpoint has negotiated.
Answered(name, code) == cpc = "reply" /\ local.name = name /\ OneReply(code)
HasNegotiated ==
    /\ local.call \in Transfers
    /\ \/ cpc \in {"rdt", "final"}
       \/ cpc = "next" /\ local.target # 0
       \/ cpc = "reply" /\ local.name \in Transfers \cup {"PASV", "PORT"}

SettingInv ==
    ~slipped /\ cpc # "closed" =>
        /\ IF Answered("MODE", "200") THEN setting = local.arg ELSE negotiated \in {"none", setting}
        /\ HasNegotiated => negotiated = wanted

\* What the server says it has done, it has.
DoneInv == worker.st = "226" => worker.id \in done

IInv == CallInv /\ PairInv /\ SettingInv /\ DoneInv /\ TrueMeansDone

-----------------------------------------------------------------------------
(* What the documents say and the code does not do *)

\* docs/api-contract.md: later replies remain buffered, and splitting or coalescing them
\* does not change the order of a transfer.  The client reads each reply for the command
\* it answers.
InStep == ~misread

=============================================================================
