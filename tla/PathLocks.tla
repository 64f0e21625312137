----------------------------- MODULE PathLocks ------------------------------
(***************************************************************************)
(* PathLockRegistry of common/filesystem_service.py, used by every file    *)
(* operation of every session thread: a dictionary from canonical path to  *)
(* (lock, users) under one guard, an entry living only while some caller   *)
(* is registered for it, and the locks of one call taken in sorted order.  *)
(*                                                                         *)
(* A frame is one activation of acquire().  Each thread has two: STOU      *)
(* holds its directory's lock while _atomic_upload takes the new file's.   *)
(* Keys are the ranks of the canonical paths in sorted() order, so a path  *)
(* below a directory has a greater key than the directory.                 *)
(***************************************************************************)
EXTENDS Integers, FiniteSets

CONSTANTS Threads, Keys, Locks,
          Requests,         \* the sets of keys a call may ask for
          NoLock, NoFrame

ASSUME KeysAssumption == Keys \subseteq Nat /\ IsFiniteSet(Keys)
ASSUME ThreadsAssumption == IsFiniteSet(Threads)
ASSUME RequestsAssumption == Requests \subseteq (SUBSET Keys) \ {{}}
ASSUME NoneAssumption == NoLock \notin Locks

Levels == {"outer", "inner"}
Frames == Threads \X Levels

ASSUME NoFrameAssumption == NoFrame \notin Frames

VARIABLES
    lockOf,     \* _locks[key][0], NoLock when the key has no entry
    users,      \* _locks[key][1], 0 when the key has no entry
    owner,      \* the frame that has acquired each lock object
    pc,         \* where each frame is in acquire()
    want,       \* keys, its local list
    mylock,     \* locks, its local list: the lock it will take for each key
    mine        \* the keys whose locks it has acquired

vars == <<lockOf, users, owner, pc, want, mylock, mine>>

Init ==
    /\ lockOf = [k \in Keys |-> NoLock]
    /\ users = [k \in Keys |-> 0]
    /\ owner = [l \in Locks |-> NoFrame]
    /\ pc = [f \in Frames |-> "idle"]
    /\ want = [f \in Frames |-> {}]
    /\ mylock = [f \in Frames |-> [k \in Keys |-> NoLock]]
    /\ mine = [f \in Frames |-> {}]

\* A thread calls acquire() with nothing held, or, inside the body of a call,
\* for one path below the directory it holds (store_unique).
MayCall(f, K) ==
    /\ pc[f] = "idle"
    /\ IF f[2] = "outer"
         THEN TRUE
         ELSE LET dir == <<f[1], "outer">>
              IN  /\ pc[dir] = "body"
                  /\ Cardinality(want[dir]) = 1 /\ Cardinality(K) = 1
                  /\ \A d \in want[dir], k \in K : d < k

\* A lock object that nothing refers to: what threading.RLock() returns
Fresh(l) ==
    /\ \A k \in Keys : lockOf[k] # l
    /\ \A g \in Frames, k \in Keys : mylock[g][k] # l

\* users + 1
MutantReferenced(k) == 1
Referenced(k) == users[k] + 1

\* The first guarded block: one reference per key, new locks where none is
Register(f, K) ==
    /\ MayCall(f, K)
    /\ \E new \in [K -> Locks] :
        /\ \A k \in K : IF users[k] = 0 THEN Fresh(new[k]) ELSE new[k] = lockOf[k]
        /\ \A j, k \in K : new[j] = new[k] => j = k
        /\ lockOf' = [k \in Keys |-> IF k \in K THEN new[k] ELSE lockOf[k]]
        /\ mylock' = [mylock EXCEPT ![f] =
                         [k \in Keys |-> IF k \in K THEN new[k] ELSE NoLock]]
    /\ users' = [k \in Keys |-> IF k \in K THEN Referenced(k) ELSE users[k]]
    /\ pc' = [pc EXCEPT ![f] = "locking"]
    /\ want' = [want EXCEPT ![f] = K]
    /\ UNCHANGED <<owner, mine>>

\* The key whose lock the frame takes next: the list is sorted
MutantNextKey(f, k) == k \in want[f] \ mine[f]
NextKey(f, k) ==
    /\ k \in want[f] \ mine[f]
    /\ \A j \in want[f] \ mine[f] : k <= j

\* lock.acquire() returns
Lock(f) ==
    /\ pc[f] = "locking"
    /\ \E k \in Keys :
        /\ NextKey(f, k)
        /\ owner[mylock[f][k]] = NoFrame
        /\ owner' = [owner EXCEPT ![mylock[f][k]] = f]
        /\ mine' = [mine EXCEPT ![f] = @ \cup {k}]
        /\ pc' = [pc EXCEPT ![f] = IF want[f] = mine[f] \cup {k} THEN "body" ELSE @]
    /\ UNCHANGED <<lockOf, users, want, mylock>>

\* The body returns or raises; an inner call has returned before
Leave(f) ==
    /\ pc[f] = "body"
    /\ f[2] = "outer" => pc[<<f[1], "inner">>] = "idle"
    /\ pc' = [pc EXCEPT ![f] = "unlocking"]
    /\ UNCHANGED <<lockOf, users, owner, want, mylock, mine>>

\* lock.release(), in reverse order
Unlock(f) ==
    /\ pc[f] = "unlocking"
    /\ \E k \in mine[f] :
        /\ \A j \in mine[f] : j <= k
        /\ owner' = [owner EXCEPT ![mylock[f][k]] = NoFrame]
        /\ mine' = [mine EXCEPT ![f] = @ \ {k}]
        /\ pc' = [pc EXCEPT ![f] = IF mine[f] = {k} THEN "leaving" ELSE @]
    /\ UNCHANGED <<lockOf, users, want, mylock>>

\* The last user of an entry deletes it
MutantDropsEntry(f, k) == k \in want[f]
DropsEntry(f, k) == k \in want[f] /\ users[k] = 1

\* The second guarded block
Unregister(f) ==
    /\ pc[f] = "leaving"
    /\ lockOf' = [k \in Keys |-> IF DropsEntry(f, k) THEN NoLock ELSE lockOf[k]]
    /\ users' = [k \in Keys |->
                    IF DropsEntry(f, k) THEN 0
                    ELSE IF k \in want[f] THEN users[k] - 1 ELSE users[k]]
    /\ pc' = [pc EXCEPT ![f] = "idle"]
    /\ want' = [want EXCEPT ![f] = {}]
    /\ mylock' = [mylock EXCEPT ![f] = [k \in Keys |-> NoLock]]
    /\ UNCHANGED <<owner, mine>>

Step(f) == Lock(f) \/ Leave(f) \/ Unlock(f) \/ Unregister(f)

Next == \E f \in Frames : Step(f) \/ \E K \in Requests : Register(f, K)

Spec == Init /\ [][Next]_vars

\* A thread that has called acquire() keeps running, and its body ends.
FairSpec == Spec /\ \A f \in Frames : WF_vars(Step(f))

-----------------------------------------------------------------------------
(* Properties *)

\* Every variable has the type its code gives it.
TypeOK ==
    /\ lockOf \in [Keys -> Locks \cup {NoLock}]
    /\ users \in [Keys -> Nat]
    /\ owner \in [Locks -> Frames \cup {NoFrame}]
    /\ pc \in [Frames -> {"idle", "locking", "body", "unlocking", "leaving"}]
    /\ want \in [Frames -> SUBSET Keys]
    /\ mylock \in [Frames -> [Keys -> Locks \cup {NoLock}]]
    /\ mine \in [Frames -> SUBSET Keys]

\* Two calls in their bodies never share a path: concurrent STOR, APPE, DELE,
\* RMD and RNTO on one path are serialised although the entry, and with it the
\* lock object, is created and deleted on the fly.
MutualExclusion ==
    \A f, g \in Frames :
        pc[f] = "body" /\ pc[g] = "body" /\ f # g => want[f] \cap want[g] = {}

\* The users of an entry are the calls that refer to it: no entry leaks, none
\* is deleted under a waiting thread.
CountsAreExact ==
    \A k \in Keys : users[k] = Cardinality({f \in Frames : k \in want[f]})

\* The invariant behind mutual exclusion: a registered call and the registry
\* agree on the lock object, distinct paths have distinct objects, and a lock a
\* call has taken is marked as its own.
CallsAreConsistent ==
    \A f \in Frames :
        /\ mine[f] \subseteq want[f]
        /\ pc[f] = "idle" => want[f] = {}
        /\ pc[f] = "body" => mine[f] = want[f]
        /\ pc[f] \in {"idle", "leaving"} => mine[f] = {}

LocksAreShared ==
    /\ \A f \in Frames : \A k \in want[f] : mylock[f][k] = lockOf[k] /\ lockOf[k] \in Locks
    /\ \A j, k \in Keys : lockOf[j] = lockOf[k] /\ lockOf[j] \in Locks => j = k

OwnersAreRight ==
    /\ \A f \in Frames : \A k \in mine[f] : owner[mylock[f][k]] = f
    /\ \A l \in Locks : owner[l] # NoFrame =>
          \E k \in mine[owner[l]] : mylock[owner[l]][k] = l

\* A call takes its locks in ascending order, and an inner call asks for greater ones
\* than its thread holds.
LocksAreOrdered ==
    \A f \in Frames :
        /\ pc[f] = "locking" => mine[f] # want[f]
        /\ pc[f] = "locking" => \A j \in mine[f], k \in want[f] \ mine[f] : j < k
        /\ f[2] = "inner" /\ pc[f] # "idle" =>
              LET dir == <<f[1], "outer">>
              IN  pc[dir] = "body" /\ \A d \in want[dir], k \in want[f] : d < k

\* The strengthening that makes mutual exclusion and the absence of deadlock inductive.
IInv ==
    /\ TypeOK /\ CallsAreConsistent /\ CountsAreExact /\ LocksAreShared /\ OwnersAreRight
    /\ LocksAreOrdered

\* f goes on only after g has: g holds f's next lock, or is a call in f's body.
WaitsFor(f, g) ==
    \/ pc[f] = "locking" /\ \E k \in Keys : NextKey(f, k) /\ owner[mylock[f][k]] = g
    \/ pc[f] = "body" /\ f[2] = "outer" /\ g = <<f[1], "inner">> /\ pc[g] # "idle"

\* No deadlock: in no set of calls does each wait for another of them, with the locks
\* of RNTO taken in sorted order and STOU's nested call below its directory.
NoCircularWait ==
    \A T \in (SUBSET Frames) \ {{}} : \E f \in T : \A g \in T : ~WaitsFor(f, g)

\* Nothing else stops a call: as long as there are calls, one of them can go on.
MayGoOn(f) ==
    \/ pc[f] = "locking" /\ \E k \in Keys : NextKey(f, k) /\ owner[mylock[f][k]] = NoFrame
    \/ pc[f] = "body" /\ (f[2] = "outer" => pc[<<f[1], "inner">>] = "idle")
    \/ pc[f] \in {"unlocking", "leaving"}
SomeCallMayGoOn == (\E f \in Frames : pc[f] # "idle") => \E f \in Frames : MayGoOn(f)

Holds == [f \in Frames |-> IF pc[f] = "body" THEN want[f] ELSE {}]
Mutex == INSTANCE PathMutex WITH holds <- Holds

\* The registry implements an all-at-once multi-path mutex.
ImplementsPathMutex == Mutex!Spec

\* With fairness, some call that waits for a lock, or some other, always finishes.
SomeCallReturns ==
    (\E f \in Frames : pc[f] = "locking") ~> (\E f \in Frames : pc[f] = "leaving")

=============================================================================
