# A TLA+ model of Hybrid-FTP-Socket

Hybrid-FTP-Socket is an FTP server and client in Python.  Commands and replies
travel over TCP; file contents travel over UDP, under a Go-Back-N protocol of the
project's own ("RDT").  Each TCP client has a control thread, and each transfer a
worker thread.  This directory holds TLA+ modules that model the program, the TLC
configurations that check them on small instances, and proofs for TLAPS.

To run one configuration: `tlc -workers 2 -config session.cfg MCTransferSession`.
To check one module's proofs: `tlapm TransferSession_proofs.tla`.
`PROJECT.json` lists the runs, the source lines each definition stands for, the
hazards and the theorems.

## 1. The system

| Component | State it keeps | Operations | Status |
|---|---|---|---|
| RDT sender, `common/rdt_sender.py` | next_seq, last_acked, window, timeout count | START handshake, fill, ACK, retransmit, ABORT | GoBackN |
| RDT receiver, `common/rdt_receiver.py` | expected_seq, timeout count, grace attempts | one branch per datagram kind, FIN grace | GoBackN |
| RDT header and context, `common/RDTHeader.py`, `rdt_context.py`, `rdt_utils.py` | none | pack, unpack, checksum, START metadata | by what they do |
| Path lock registry, `filesystem_service.py:54-101` | path -> (lock, users) | `acquire` of one or two paths | PathLocks |
| Filesystem service, rest of that file | directory tree, temporary files | store, append, STOU, rename, delete, MKD, RMD | AtomicUpload |
| Transfer manager, `server/transfer_manager.py` | session fields | download, uploads, cancel, finish | TransferSession |
| Session and command handler, `server/session.py`, `server/command_handler.py` | login, cwd, mode, type, data socket, worker, event | one handler per command | ControlConnection, TransferSession; partly |
| Client handler, `server/client_handler.py` | line buffer | read, dispatch, reply, cleanup | FtpServer, TransferSession, ControlConnection |
| FTP server, `server/threaded_server.py` | running flag, listener, registry of sessions | accept, register, unregister, stop | FtpServer |
| Mode codec, `common/mode_codec.py` | none | S/B/C encoders and decoders | ModeCodec |
| FTP client, `client/ftp_client.py` | control buffer, negotiated mode, data socket | login, PASV/PORT, transfers | ControlConnection |
| Command line, display, logging | none | formatting, terminal | not modelled |

How they interact.  A control thread (`ClientHandler.run`) reads a line, calls the
command handler and sends the reply that it returns.  RETR, STOR, APPE and STOU
start a worker *before* that reply, the 150, is sent.  The worker calls the transfer
manager, which pulls chunks through the mode codec into the RDT sender, or out of
the RDT receiver through the codec into the filesystem service.  Both ends of the
pipeline are Python generators, so the receiver's ACKs run ahead of what its
consumer has written by one chunk.  The control thread and the worker share the
fields of `Session` without a lock, and the only signals between them are the
cancel event and the closing of the UDP socket.  Workers of different sessions meet
in the path lock registry.  `FTPServer.start` gives each connection a session, registers it and
starts its thread; `stop`, in any thread, takes a snapshot of the registry and runs
`cleanup` of each session, which may run at the same time in the session's own thread.
On the other side `FTPClient` sends a command and reads one reply for it, two for a
transfer, and counts on the server's two threads to send them in that order.

What is hard: an unreliable network under a protocol with cumulative ACKs and
bounded retries; two threads per session over unlocked fields; cancellation in the
middle of any of it; lock entries that are created and deleted on the fly while
other threads wait for them; two locks taken at once, or one inside another; a shutdown
in one thread while sessions come, go and clean up in others; replies that carry no sign
of the command they answer.
`PROJECT.json` lists each such hazard at its line, with the property that covers it
or the reason that none does yet.

What makes each component correct:

* **RDT.** Chunks are handed over in order, once each; the receiver ends normally
  only with the whole file; the sender returns only when the file was handed over;
  ends that negotiated different MODE or TYPE move nothing; each call ends; a few lost
  datagrams do not keep the receiver from the whole file.
* **Locks.** No two calls in their bodies share a path; reference counts are exact;
  no deadlock.
* **Session.** One worker at a time; an aborted upload publishes nothing; a cancel
  reaches the transfer it was meant for and no other; 450 ends with the transfer (but
  for section 5); no data socket is left open; every command is answered.
* **Filesystem service.** A file is a sequence of whole uploads, also after failures
  and a crash, unless a client has made it out of a temporary file; STOU never overwrites;
  nothing is replaced by a rename; temporary files go.
* **Codec.** Decoding inverts encoding, however the file is cut into chunks; a
  truncated stream or one with data after its end is refused.
* **Client.** Replies are paired with their commands; as long as they are, a call returns
  True only for a transfer the server completed, the cached MODE and TYPE are the
  session's, and each call returns.
* **Server.** When it has ended, no session is registered and every socket was closed or
  will be; `stop` returns; a session whose client has left ends.

## 2. Modules

| Module | What it is |
|---|---|
| `ReliableTransfer` | abstract: what one RDT transfer promises its callers |
| `GoBackN` | the two RDT functions and the network between them |
| `GoBackN_proofs` | its invariant, safety theorems, and refinement of `ReliableTransfer` |
| `PathMutex` | abstract: a mutex over sets of paths, granted all at once |
| `PathLocks` | `PathLockRegistry.acquire`, with STOU's nested call |
| `PathLocks_proofs` | its invariant, exclusion, absence of deadlock, and refinement of `PathMutex` |
| `FileStore` | abstract: the tree under the names that clients choose, changing in whole steps |
| `AtomicUpload` | the operations of `FilesystemService` that change the disk, over `PathMutex` |
| `AtomicUpload_proofs` | its invariant (which stands in the model), two invariants and an action property, and refinement of `FileStore` |
| `ModeCodec` | the encoders and decoders of the three transmission modes |
| `ModeCodec_proofs` | its invariant and three safety theorems |
| `TransferSession` | one session's control thread and transfer workers |
| `TransferSession_proofs` | its invariant and six safety theorems |
| `FtpServer` | the server process: accept loop, registry, `stop`, each session's thread |
| `FtpServer_proofs` | its invariant and three safety theorems |
| `ControlConnection` | the client library and a session at the two ends of a control connection |
| `ControlConnection_proofs` | its invariant and four safety theorems |
| `MCGoBackN`, `MCPathLocks`, `MCAtomicUpload`, `MCModeCodec`, `MCTransferSession`, `MCFtpServer`, `MCControlConnection` | values of the constants for TLC |

A definition named `Mutant...` stands beside one that it could be mistaken for: the
code with a plausible bug in it.  No specification uses one; they are there to
confirm that each property fails when the code is wrong.

### GoBackN

`spc` and `rpc` say where each end is in its function.

| Place | Code |
|---|---|
| `spc` "start", "startWait" | `_send_start_with_ack`: top of the attempt loop; its `recvfrom` |
| "loop", "fill", "wait" | `send_chunks_rdt`: head of the while loop; the fill loop; `recvfrom` |
| "done", "failed" | returned; raised, with `sWhy` the reason |
| `rpc` "top", "recv" | `receive_chunks_rdt`: cancellation check; `recvfrom` |
| "yield", "yieldLast" | suspended at the `yield` of a payload; of the last one |
| "grace", "done", "failed" | `_fin_grace`; the generator ended; it raised or was dropped |

One action is one branch of the code between two waits.  A datagram is what the code
tells apart: its type and its sequence or ACK number.  `JUNK` stands for everything
a receive loop takes off its socket and ignores (a bad checksum, length, flag,
transfer id or address, or a readiness probe).  A channel counts the copies of each
datagram in flight.  It is not a queue, so datagrams arrive in any order; a datagram
nobody takes is a lost one.

Constants that are the code's parameters: `WindowSize`, `RetryLimit`,
`MaxTimeouts`, `GraceAttempts`, and `File`, the sequence of chunks.  Constants that
are bounds of the model: `MaxCopies` (copies of one datagram in flight; a further
`sendto` is lost), `Probes` (stray datagrams at the sender's socket at the start),
`LossBudget` (losses by the action `Lose`).  `Faults` says what may happen besides:

| Fault | Effect |
|---|---|
| earlyTimeout | a timer may fire at any time; without it timers are *patient* (below) |
| duplicate, corrupt | the network copies a datagram, or turns it into `JUNK` |
| cancel, close | another thread sets the cancel event, or closes the UDP socket, at either end |
| source, consumer | the sender's iterable raises; the receiver's consumer raises |
| mismatch | the two ends may have negotiated different MODE or TYPE |

Patient timers are those of a network whose round trip is short next to `timeout_s`, with
callers that take chunks as fast.  Both ends run their timer: in `recvfrom`, with nothing
in flight, either end may time out first, the receiver in its grace period too, and it may
do so again before the sender does (`SenderTimer`, `ReceiverTimer`).  Both timers have the
same length, so while one `recvfrom` of the sender lasts the receiver times out at most
`TimerLag` times: once for a timer that was running already, and once for one that began
at the same moment.  `lag` counts them.

A sender that retransmits its window and has its socket closed halfway is modelled
as the closed socket found at the first `sendto`, or as a batch with its tail lost.

### PathLocks

A frame is one activation of `acquire`.  Each thread has two, because STOU holds its
directory's lock while `_atomic_upload` takes the new file's.  The steps are those
another thread can observe: the guarded block that registers (`Register`), each
`lock.acquire()` (`Lock`), the end of the body (`Leave`), each release in reverse
(`Unlock`), and the guarded block that deregisters (`Unregister`).  `mylock` is the
frame's local list of lock objects, apart from the registry's `lockOf`: the hazard is
that the two come to differ.  Keys are numbers in `sorted()` order.  A lock object is
taken from `Locks` when nothing refers to it any more, as a new `RLock()` would be.
The lock is reentrant in the code; a thread never asks for a path it holds, which
`MayCall` takes from the callers.

### AtomicUpload

Each of `Procs` is a thread in one call of the service: `Begin` is everything up to
the lock, and then one action per step another thread can see.  An upload goes
"locked" (`mkstemp`), "copying" (APPE), "writing", "replacing" (`os.replace`),
"removing" (the `finally` that deletes the temporary file), "unlocking".  STOU first
holds its directory and picks a name ("naming").  The others are one step on the disk
("body"), except RNTO, which checks ("body") and then renames ("renaming"), and MKD, which
takes no lock and may make the directory around a folder first ("making").

The disk has directories with names in the root (`dirAt`), and in them entries
(`entries`): a name leads to a file, to an empty folder, or to nothing.  A directory keeps
its contents when it gets another name, and a thread looks its path up again at each step,
as the code does by passing path strings to `os`.  Files, and folders by MKD or a rename,
compete for the same names: an upload to a folder is refused, and one whose target became a
folder meanwhile fails at `os.replace`.

A file is the number of the upload that made it.  `copied`, `written` and `synced` say what
is in it: the uploads it goes on from, its own chunks, and whether it has been flushed.  So a
partial or lost upload can be told from a whole one, and a file keeps being written
wherever its entry goes.  File 0 stands for each file that was there at the start.

A temporary file is an entry of its target's directory, under a name that `mkstemp` has made
new: `PartNames`, the upload's number.  Clients see it in LIST and NLST, and from then on
they may name it in every command (`Seen`), under the lock of *its* path and not of the
upload's.  So another session can delete it, store to it, append to it or move it while it is
written; the upload goes on, and `os.replace` and the `finally` act on whatever is at the
path by then.  What this leaves of the promises:

* A client that renames a file from or to the name of a temporary file, or appends to one,
  may have half an upload under a name of its own choice.  `touched` is the set of files
  made so, by a rename or, from one of them, by APPE.  `WholeFiles` is about all others:
  whatever clients delete, store or rename, nobody else's file becomes partial by it.
* `PartsRemoved` leaves out temporary files that were renamed.
* `FileStore` is promised of the names that are not of temporary files.  A STOR or DELE on a
  temporary file's name does not void it, a rename or an append does (`disturbed`).
* A file that a client stores under a temporary file's name may be taken for it: section 5.

`Crash` loses bytes that were written and not synced.  The names themselves are taken to
survive: the code does not sync directories, so after a power failure an old file may
also be back under its name, which would be whole as well.  A crash with no temporary file
and no file that was not synced would only end the calls, and is left out.

Left out besides: files directly in the root, what is in a folder, a rename from one level
to the other, and links.

The locks are actions of `PathMutex`, which `PathLocks` is proved to implement.
`FileStore` is the promise: `tree` maps each path to the uploads in its file.  Its steps
are an upload published whole, an append to what the file holds at that moment, a
deletion, and a rename onto a free path.  Renaming a directory voids it too (`moved`), for
the reason given at the end of section 5.

### ModeCodec

`encoded` and `pulled` delimit the encoder's buffer.  `fill(n)` may leave any number
of bytes beyond the needed ones there, since chunks have any size: how runs and
literals are cut depends on it, and the result must not.  `wire` is what `_batch_wire`
has handed over, `batch` its buffer.  Decoders look at their buffer only after a fill
of exactly what they need, so they are modelled on the number of bytes left.
`Receive` is RDT between the two ends (in order, whole) or a peer that sent something
else: `fate` says which.

### TransferSession

The control thread's state is `ctl`.  A command is one action, except three in which
a worker can act midway: a transfer (the worker starts, then the 150 is sent), ABOR
(cancel reads the event, signals, joins) and QUIT or a disconnect (the same, then
cleanup).  A fourth is DELE, RMD or RNTO on the path that the session's own upload has locked:
the control thread waits (`AskPath`, `PathReply`) and reads no other command, an ABOR
neither.  The worker's `wpc` names the gaps between the statements that read or write
what the two threads share:

| `wpc` | The worker has |
|---|---|
| "born" | started |
| "read" | read `session.data_socket` and the endpoint for its call |
| "event" | installed its cancel event (`_event_for`) |
| "context" | built its context (`_context_for`) |
| "peer" | to wait for the client's probe (a passive RETR) |
| "moving" | begun the RDT call; an upload holds its path until "finish" |
| "grace" | an upload: acknowledged the last chunk and had it written; in `_fin_grace`, which looks neither at the event nor, once it waits, at a closed socket |
| "moved" | moved all of it; the last cancellation check is ahead |
| "committing" | passed that check |
| "finish", "cleaning", "reply" | ended; cleared the event and `current_transfer`; closed the session's data socket |
| "ending", "dead" | sent its final reply; its thread has ended |

"STOR" stands for STOR, APPE and STOU, which differ only in what the filesystem
service does.  A command that is refused changes nothing and is left out, and so are
the login, and MODE and TYPE, which `ControlConnection` has.  One failure does change
something: when the thread of a transfer cannot be started, `current_transfer` has been set
already (`StartFails`).  `startFailed` is a history variable for it.  `open` holds the sockets that are not closed.
Names of sockets and transfers are used again once nothing refers to them, so a run
is not limited to two transfers, only to two names.

Abstractions worth knowing:

* `cancel()` is two steps: it reads the session's event into a local (`held`), and
  then signals, storing an event of its own if it had read none.  The worker may
  install its event in between; cancel then overwrites it, never sets it, and closes
  the socket.  The model has that race.  It assumes only (`InCancel`, a guard of
  `EndMove`) that the worker does not complete a whole transfer over the network
  between those two statements.  Without the assumption `AbortedNeverCommits` fails:
  the upload finishes, cancel overwrites its event, and the file is published.
* The server is not being stopped.  `stop` runs the same cleanup in a thread of its own, which
  clears `current_transfer` and `transfer_worker` after a join of one second, while the
  session's own thread may be serving commands.  A worker that outlasts the join can then
  have a second one beside it.  `OneWorker` and the rest are claims about a session that
  cleans up itself; `FtpServer` has the other cleanup, without transfers.
* `JoinReturns`: the one-second join of ABOR and of cleanup does not time out while
  the worker has yet to reach its first wait.  Those are a few statements.
* `send_chunks_rdt` opens a socket of its own when it is given none; `HasSocket` says
  so.  This is what lets an aborted active RETR go on (section 5).
* The lock that a DELE waits for may be held by another session's upload; that it is
  granted then is `PathLocks`' subject.
* `session.transfer_cancelled` is written and never read; it is left out.

### FtpServer

One program counter per thread: `Acceptor` runs `start`, and with its last statement a
`stop`; `Stoppers` are other threads that call `stop`; each of `Clients` is a connection,
its session and its thread.

| `pc` | Code |
|---|---|
| "opening", "listening" | `start`: before the socket exists; before `is_running = True` |
| "loop", "accept" | head of the while loop; `accept()` |
| "accepted", "registering", "registered" | `register_client` before and under the lock; before `handler.start()` |
| "raised" | `start` has raised |
| "stop", "closing", "snapshot", "snapping", "next" | `stop`, statement by statement; "snapping" holds the lock |
| "returned" | `stop`, and with it `start`, has returned |
| "unregister", "unregistering", "close" | `cleanup`, by whoever runs it: before and under the lock; before `socket.close()` |
| "made", "top", "recv", "serving", "ended" | the session's thread: not started; head of `run`'s loop; in `recv`; handling commands; ended |

A step is what lies between two things another thread can observe.  `clients_lock` is
taken by `Acquire`.  `KeyboardInterrupt` may strike `start` anywhere (`Interrupt`), and
leads to `main`'s `server.stop()`.  What to know:

* `recv` on a socket that another thread has closed goes on waiting, as it does on
  Linux; it ends when the peer sends something or leaves.  A `recv` that begins after
  the close fails.
* A second `KeyboardInterrupt`, during the final `stop`, is not modelled.
* Each section under `clients_lock` is one step between taking and releasing it; nothing
  in them can wait or raise.
* What `cleanup` does to the session's transfer is in `TransferSession`.

### ControlConnection

`FTPClient` on one side (`cpc`), the session's control thread (`spc`) and its transfer
thread (`worker.st`) on the other, and the two directions of a TCP connection as queues
of commands and reply lines.

| `cpc` | Code |
|---|---|
| "idle" | in no call |
| "next" | about to send the next command of a call: PASS, MODE, PASV or PORT, the transfer |
| "reply", "listing", "body" | `_recv_reply`; `_recv_listing_reply`, first and further lines |
| "rdt" | the 150 was read: in `send_file_rdt` or `receive_file_rdt` |
| "final" | reads the transfer's final reply |
| "closed" | `close` has returned, or the connection has ended |

Commands are numbered, and each line names the command it answers and whether it is a
final reply.  The program has no such numbers.  They are ghosts, to tell when the client
takes one reply for another (`misread`), and they serve as transfer ids and sockets, which
are as unique.  A transfer whose thread cannot be started is answered 500, and all later ones
of the session 450 (`stuck`).  `slipped` records that one of four things has happened, each a branch of
the code in which the count of replies goes wrong:

1. `upload_unique_file` returns without the final reply when the send failed;
2. a callback, the probe or a local file raises after the 150 was read;
3. a worker sends its final reply before the control thread has sent the 150;
4. a listing contains a name that begins like a final code.

MODE stands for MODE and TYPE, STOR for STOR and APPE, CDUP for the commands with one
reply that concern nothing else here, NLST for NLST and LIST, "426" for every final
failure.  STAT and HELP, the only commands with replies of several lines that end by themselves, are
left out, and with them that part of `_recv_reply`.  Sending a command
on a connection that has ended is a command that nobody reads.  A lost connection may drop
lines that were not read.  A transfer moves its data (`Move`) only when both ends are in
it, with the same socket and the same MODE; how it does so, and the false success of a
file of one chunk (section 5), are `GoBackN`'s; the threads' race for the session's fields
is `TransferSession`'s.  `Init` is a new connection, or one that has logged in and
negotiated already, so that the bound on commands is not used up by that.

## 3. What TLC checks

| Run | Instance | What it shows |
|---|---|---|
| `gbn_delivery` | 3 chunks, window 2, 2 copies, early timers, duplication, mismatch | order, exactly once, completeness, success only after delivery, window bookkeeping, mismatch, the inductive invariant, and refinement of `ReliableTransfer` |
| `gbn_faults` | 2 chunks, corruption, cancellation, closed sockets, failing source and consumer | both calls always end; success and exhausted retries are never reported wrongly |
| `gbn_patient` | 4 chunks, window 3, the code's limits (10 attempts, 10 timeouts, 3 grace attempts), patient timers at both ends, 3 losses anywhere | the receiver completes and the sender ends; with 1 loss the sender succeeds |
| `path_locks` | 3 threads with 2 frames each, 3 paths, 3 lock objects, requests of 1 or 2 paths | the inductive invariant with exact counts, refinement of `PathMutex` and so exclusion, no circular wait, some call always returns |
| `store` | 2 threads, 3 operations of all 8 kinds, 2 directory names, 2 directories, 2 names for files and folders and those of the temporary files, failures anywhere, 1 crash | whole files, nothing replaced by STOU, temporary files removed, refinement of `FileStore`, clients naming temporary files included; no deadlock of the nested locks |
| `codec` | files of up to 5 bytes over the two fillers and another, block size 2, literals up to 2, runs up to 3 | round trip in each mode and type for every chunking; only a wire with its explicit end is accepted |
| `session` | 2 transfer names, 3 sockets | one worker, an answered ABOR has reached its transfer, aborted uploads never publish, cancels stay with their transfer, no 450 without a transfer but after a thread that could not start, no leaked socket, each transfer ends, each command is answered |
| `server` | 2 connections, the accept loop, 1 more thread that calls `stop`, failures and an interrupt anywhere | the inductive invariant, no session left, no ghost, sockets accounted for, `stop` returns, a closed listener ends `start`, sessions end |
| `control` | 5 commands, 2 values of MODE | replies paired until one of the four slips; until then True only for completed transfers, cached MODE and TYPE right, calls return |
| `gbn_start_ack_alias`, `session_stuck_busy`, `client_out_of_step` | smallest that show it, or that of the passing run | what the code and its documents promise and the code does not do (section 5) |

Why the bounds are enough for what they are used for:

* Three chunks and a window of two are the smallest instance with a chunk that was
  acknowledged, one in the window and one not sent yet; two copies let an old
  datagram arrive after a newer one of its kind.  The safety properties are also
  proved, for every value of the constants.
* `gbn_patient` has the limits that the code sets by default, and a file longer than the
  window (of 3, not the code's 4, with a fourth chunk to slide it by one).  It is tight: with 2 grace attempts, with a
  `TimerLag` of 3, or when the sender's success is claimed for 2 losses, TLC finds a
  counterexample.  The last is the program's: two ACKs of the FIN lost in a row cost two
  of the sender's timeouts, and the receiver may have used up its three grace attempts by
  then.  The file is whole at the receiver; the sender reports failure.
* Three threads give a cycle of three waits room to form; pairs and the nested call
  are the only ways to hold one lock and wait for another.  Three lock objects are
  enough for three keys; a fourth could only stand in for another.
* `store`: three operations are two that race and one more to make the situation or
  to profit from it: two uploads and the rename of their target, a directory renamed
  away and back around an upload, an upload to the temporary file of another and one more.
  One chunk is enough to tell an upload begun from one complete; two give the same result
  with 2 operations.
* `codec`: five bytes hold a run longer than the limit, a literal longer than the
  limit, two and a half blocks, and more than two wire chunks.  The sizes 127, 63 and
  1024 are constants, so the boundaries are reached with 2, 3 and 2.
* Two transfer names let the end of one meet the start of the next.  Three sockets
  are the worker's, one the session has replaced it with, and the next one.
* `server`: two connections are one in `stop`'s snapshot and one that is accepted after
  it.  The accept loop ends with a `stop` of its own, so one more thread makes two at once,
  and with the session's own thread three cleanups of one session.
* `control`: a transfer takes two commands, and one more when MODE has changed.  Five hold
  a transfer and the beginning of the next, or a slip and the calls that suffer from it.
  The same run with six commands (4.6 million states) shows nothing else.

Fairness, and why the code justifies it:

* `GoBackN`: weak fairness of each end.  Each runs in a thread of its own and every
  wait has a timeout.  None is assumed of the network: without a delivery the timers
  still fire.
* `PathLocks`: weak fairness of each frame's steps after it has registered.  A body
  ends because an upload ends (`BothEnd`).  Nothing is assumed of new calls, and
  `threading.RLock` promises no order, so only "some call returns" is claimed and
  not that each does.
* `TransferSession`: weak fairness of the control thread's answers and of each worker,
  none of commands.  A worker that waits for data ends because the RDT calls end: in
  this model by `Fail` or `EndMove`.
* `FtpServer`: weak fairness of each thread's own steps.  None of what clients do, of
  calls of `stop`, or of failures.  `accept` has a timeout, so `start` never stays there.
  A session's `recv` has none: it is fair only once there is something to receive.
* `ControlConnection`: weak fairness of the client's steps in a call, of the control
  thread and of the worker; none of new calls, of `RaisesAfter150` or of `Hangup`.

Deadlock is checked in every run.  The final states (`Finished`, `Ended`) are
explicit stuttering steps, so a state that is stuck anywhere else is reported.

## 4. What is proved

Every theorem holds for all values of the constants that satisfy the modules'
`ASSUME`s, which only say that limits are natural numbers, sets of names are finite
and the "none" values are not names, and that the codec's sizes fit the bits that the code
gives them.  Each safety property and each refinement that a passing run checks is also a
theorem.

**GoBackN.** `Invariance` proves `IInv`.  The properties are not inductive alone.
"The sender has an ACK of k" says something about the receiver only through
`AcksAreSound`: an ACK of k, in flight or taken, implies `k < expected`, *for
k >= 1*.  ACK 0 is excluded, because it also acknowledges START; so the argument that
success means delivery needs the last sequence number to be at least 1.  Hence
`SuccessIsDelivery` and `Refinement` assume `N >= 2`, and the run
`gbn_start_ack_alias` shows that a file of one chunk is a true exception.  `SenderInv`
ties the window to `lastAcked` and `nextSeq`; `MismatchInv` adds that after a
disagreement no data and no ACK is ever in flight.  `WindowBound` adds the bound on the
window, and `RetriesAreForChunks` has an invariant of its own, `RetryInv`: an empty
window has counted no timeout, so the extra wait after the last ACK cannot exhaust
the limit.  `TypeCorrect`,
`DeliveryInOrder`, `CompletionHasFile` and `MismatchIsHarmless` follow.  `Refinement`
maps each step to a step of `ReliableTransfer` or a stutter, with the lemma that a
sequence's prefix grows by its next element.

**PathLocks.** `Invariance` proves that a registered frame's lock object is the
registry's, that distinct paths have distinct objects, that an entry's users are the
number of frames that want it (so an entry is deleted only by its last user: the step
that makes deletion on the fly safe), and that each taken lock is owned by the frame
that took it.  `Exclusion` and `Refinement` follow.  `NoDeadlock` is about any
number of threads: in no set of calls does each wait for another of them.  `LocksAreOrdered` says
that a call waits for a greater path than those it holds, and that an inner call asks for
greater ones than the call around it holds.  So of the paths that the calls of a circle wait
for, the greatest would be held by a call that waits, itself or through its inner call, for a
greater one still; there is a greatest since only finitely many paths exist
(`LargestElement`).  `CallsGoOn` adds that nothing but another call keeps one waiting.  This
is the part of `SomeCallReturns` that needs no fairness.

**TransferSession.** `Invariance` proves `IInv`.  `EventInv` says that an
upload that has moved its data, or still can, has its own event in the session, so
that a cancel finds it.  Its heart is `AbortInv`: an upload
that a cancel found running has its event set, *or* the socket it has is closed, *or*
it has not read the session's socket yet and will find none before the control thread
accepts another command.  The last case rests on the join.
`AbortStopsUploads` and `AbortReaches` follow from it, although the cancel event alone
would not give them.  A RETR that had no socket and sends from one of its own is the
exception that both leave open.  `OneAtATime`, `SocketsAccounted`, `CancelIsLocal` and `BusyEnds` rest on
`WorkerInv` and `EventInv`.  `WorkerInv` ties `current_transfer` to a live worker, but for
threads that could not be started: `BusyEnds` says that nothing else leaves a session busy.

**FtpServer.** `Invariance` proves `IInv` for any number of connections and of threads that
call `stop`.  `NoneLeft` is not inductive: that the registry is empty when `start` has
returned depends on what its last `stop` saw.  `RegistryInv` says that from that `stop`'s
snapshot on, whatever is registered is still in its list or the session it is cleaning up.
No session can be registered after the snapshot, because the thread that registers is the
one that runs this `stop`; other `stop`s only take away.  `NoGhost` needs that a session's
own cleanup comes before its end, and that nobody registers it again.  `OpenInv` is
`OpenIsAccounted` with the one place named where `start` holds a session that is
registered already, when another `stop` may have cleaned it up.

**ControlConnection.** `Invariance` proves `IInv` for any number of commands and values of
MODE.  Its heart is `PairInv`: for each place of the client, as long as nothing has slipped,
exactly what is on its way.  An idle client has nothing unread and no transfer that still
has a line to send; one in "reply" has its command unanswered, or its one reply, or its 150
and perhaps the final line after it; one in "rdt" or "final" has at most the final line.
`SettingInv` adds that the client's MODE is the session's, but for the moment in which a
MODE command is answered and not yet read.  So a command is pending only when no transfer
is in the way (lemma `PendingCase`), and each handler with one reply is the same case
(`OneAnswer`).  The steps that slip need no argument: after them the invariant claims
nothing.  `KnownSlips` and `TrueMeansDone` follow at once; `Negotiated` needs that the value
"none" of `_negotiated_mode` is no MODE.  `NobodyWaitsInVain` is what `CallsReturn` needs beyond
fairness: while nothing has slipped, a client that waits for a line has one on its way, or a
command or 150 that the session still owes it, or its own transfer still going on, or the
connection has been closed.

**AtomicUpload.** `Invariance` proves `IInv`, which stands in the model, for any number of
threads, directories, names, chunks and operations, with clients that name temporary files
in any command.  `WholeFiles` needs four things that it does not say.

* An upload is published only when all its chunks are written and synced: `FileInv`, which
  says it of every entry but a temporary file under its own name, and of a thread that is
  about to replace.
* An upload that is about to be published is in no file that APPE could go on from:
  `Published` is the uploads begun, without those of the threads that still may publish
  theirs, and `CopyInv` says that a file goes on from published ones, each once.
* Under the name of another upload's temporary file there are only files begun later, which
  go on from none (`ForeignInv`): a client names what it has seen, so its number is
  greater, and an APPE there makes a file `touched`.  This is what keeps `os.replace`, when it
  finds another file at its temporary path, from publishing an upload twice.
* What was seen under a lock still holds: `SeenInv`, of what APPE has copied and of a free
  destination.  This is where the locks come in, so `LockInv` says that no path has two holders
  and that a thread holds what it works on, and `CallInv` what that is at each place.  It says
  so of names that are not of temporary files: those are replaced and removed without their
  lock.

`NamedOnce`, that a directory has one name, makes two different paths two different entries, so
that a step on one leaves the other alone.  `PartInv` says for `PartsRemoved` in which directory
the upload will look for its temporary file.  `StouIsNew` holds also when directories are
renamed: STOU holds its directory's lock besides the file's, so that `SeenInv` needs no
`moved` for it.  `Refinement` maps the step from "replacing", the deletion and the second
step of RNTO to the steps of `FileStore`, all else to a stutter, until it is `disturbed`.
A step on the name of a temporary file changes nothing in `tree`; neither does `Crash`,
because a file with another name has been synced.  The failures are steps of the
specification like any other.  TLC has checked `IInv` on the instance of `store`, too; no run
repeats that.

**ModeCodec.** That decoding inverts encoding looks like an induction over the wire, and a
decoder is a loop.  The invariant is about frames instead.  There is a set of cuts, each a
position on the wire with a position in the file; from each cut a frame leads to another cut,
or the last frame leads to the end of both (`Whole`), or the encoder stands there
(`Partly`).  `Frame` says which bytes on the wire stand for which bytes of the file: a block,
a literal, a run or a filler.  Each step of an encoder adds a cut (`AddFrame`), whatever the
chunks were and however `_batch_wire` regroups the bytes (`Regrouped`), since the
invariant speaks of `wire \o batch`.  Each step of a decoder goes from its cut to the next
one: the first byte of a frame determines its kind and length, so what the decoder takes is the frame that
is there (`CodedFrame`, `BlockFields`), and its text is the file's (`TextDecoded`).  A wire
that was cut or extended agrees with a whole one as far as both go (`Received`), so the
decoder passes the same cuts and never has the last frame with nothing after it.  Nothing that
was sent is malformed (`MalformedStep`).  The encoder's `Min` and `Max` are characterised
from the well-foundedness of the natural numbers (`LeastElement`).  Of a wire whose
bytes were changed the invariant claims only that a decoder which accepts it has used all of
it: such a wire may stand for another file.
The set of cuts is an existential over sets, which TLC cannot enumerate; the three properties
themselves are checked by `codec`.

Only model-checked, not proved:

* liveness (`BothEnd`, `SurvivesLosses`, `SomeCallReturns`, `TransfersEnd`,
  `CommandsAnswered`, `StopReturns`, `ClosedListenerEndsServer`, `SessionsEnd`,
  `CallsReturn`): fairness and ENABLED are out of the prover's reach;
* the disagreements of section 5, which are counterexamples.

What a recursive definition computes for every input would need induction over data, which
the installed provers cannot instantiate.  No model has such a definition: loops of the code
are steps, and what they build up is in the invariants.

## 5. Where the code and its documents disagree

Each is the counterexample of a run; the quoted lines are in `PROJECT.json`.

1. `gbn_start_ack_alias`.  START was sent twice, and both copies are acknowledged
   with ACK 0.  The second ACK arrives in the data window, where it acknowledges
   sequence 0.  A file of one chunk is reported as sent with nothing delivered.  In a
   longer file the same ACK slides the window past a chunk that may be lost, and then
   the transfer cannot complete; that is a failure and not a false success.
2. `session_stuck_busy`.  The four transfer commands set `current_transfer` before they start
   the worker.  When `Thread.start` raises (no more threads), the client gets a 500, and there
   is no worker whose `_finish` would clear the field: every later transfer of the session is
   refused with 450, and ABOR does not help.  `NeverStuckBusy` says that this is the only way.
3. `client_out_of_step`.  A file called `226.txt` ends the client's reading of an NLST,
   and the rest of the listing is read as the replies of later commands.  The other three
   slips lead there too.  After one, a later call may hang: NLST takes an old 150 for its
   first line and its own 530 for a name.  And one that is several replies behind may return
   True for a transfer that an ABOR has stopped: it takes the ABOR's 226 for the final one.
   That takes more commands than the bound of `control` allows; `TrueMeansDone` claims
   nothing after a slip.

Further behaviour, stated by no run of its own (the models have all of it but the second
reading of MODE and TYPE):

* The worker of a transfer is started before the 150 is sent, so its final reply can come
  first (slip 3; the client then pairs wrongly).
* An ABOR right after an active RETR may set an event that the worker then replaces, and
  close a socket that it has not looked at.  The worker finds no socket, opens its own,
  and sends the file after "226 Abort successful".
* The worker reads MODE and TYPE once for START and once for the codec.  A client that
  changes them during a transfer, which `FTPClient` never does, can have it decoded with
  another mode than was announced.
* A PASV during a transfer is answered 227, and the end of the transfer closes its socket:
  the next transfer gets 425.
* `FilesystemService.rename` of a directory locks the two directory paths, an append the path
  of its file.  With the directory renamed away and back in the middle, the append starts
  from nothing and replaces the file.  RNFR takes files only, but it looks when it is sent:
  when another session deletes that file and makes or renames a directory to its path,
  the RNTO renames the directory.  `ImplementsFileStore` holds until such a rename.
* The report (`docs/report.md`) says that `stop` joins the threads of the sessions it cleans
  up.  It does not, and it closes their sockets without a `shutdown`: a thread in `recv`
  stays there until its client sends something or leaves, and keeps the process.
  `SessionsEnd` says what does hold.
* The `finally` of an upload removes what is at its temporary file's path.  When another
  client has stored a file to that name, which it saw in a listing, its upload is
  complete and acknowledged, and then goes, or is published under the first one's name.
* A temporary file is in the listings of its directory and can be read, renamed or appended to
  by name while it is written, and after a crash (`AtomicUpload` in section 2).
* When two ACKs of the last chunk are lost, the receiver's grace period may be over before
  the sender asks a third time: the file is published and the sender reports failure
  (section 3).

## 6. Not modelled, and why

Byte layout, checksums and formatting: no property depends on them beyond "accepted
or not".  Progress callbacks, byte counts and log lines: nothing reads them back.
Timing: a timer is an action, early or patient.  Command line and terminal output: no
shared state.  An endless stream of foreign datagrams at a receiver: it resets
`timeout_count` each time and keeps the receiver waiting.  `BothEnd` does not speak of
it, because the modelled network holds finitely many stray datagrams.
Listing, metadata, hashing and reading in `filesystem_service.py` and `dir_manager.py` change
nothing and are left out.  `current_dir` and path resolution: paths are canonical in the
models.  Refusals of malformed arguments (501) change nothing.  `FTPClient` in two threads:
it has no lock and is not used so.  `stop` during a transfer: its cleanup is in `FtpServer`,
the transfer in `TransferSession`, and what they do together in neither.

## 7. Plan

Done: (1) `ReliableTransfer` and `GoBackN` with proofs; (2) `PathMutex` and
`PathLocks` with proofs; (3) `TransferSession` with proofs, with the wait of its control
thread for its own upload's path; (4) `FileStore` and `AtomicUpload` with proofs;
(5) `ModeCodec` with proofs; (6) `FtpServer` with proofs; (7) `ControlConnection` with proofs.

Next, in this order:

8. A composition: a STOR from the client's file to the server's, `ReliableTransfer` for the
   transport, `ModeCodec` for the encoding and `FileStore` for the disk: a 226 implies
   that the file is published, whole.  With its proof, since its parts are proved.
9. `stop` during a transfer: `TransferSession` with a second thread in `cleanup`, and what is
   left of one worker at a time.
10. The session's working directory when another session renames or removes it.
