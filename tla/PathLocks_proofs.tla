-------------------------- MODULE PathLocks_proofs --------------------------
(***************************************************************************)
(* Safety of PathLockRegistry for any number of threads, paths and locks.  *)
(***************************************************************************)
EXTENDS PathLocks, FiniteSetTheorems, TLAPS

-----------------------------------------------------------------------------
(* The calls registered for a path *)

Users(k) == {f \in Frames : k \in want[f]}

LEMMA FramesFinite == IsFiniteSet(Frames)
<1>1. IsFiniteSet(Levels)
  <2>1. IsFiniteSet({"outer"}) /\ IsFiniteSet({"outer"} \cup {"inner"})
    BY FS_Singleton, FS_AddElement
  <2> QED
    BY <2>1 DEF Levels
<1> QED
  BY <1>1, ThreadsAssumption, FS_Product DEF Frames

LEMMA UsersFinite ==
    /\ \A k \in Keys : IsFiniteSet(Users(k)) /\ Cardinality(Users(k)) \in Nat
    /\ \A k \in Keys : IsFiniteSet(Users(k)') /\ Cardinality(Users(k)') \in Nat
<1>1. \A k \in Keys : Users(k) \in SUBSET Frames /\ Users(k)' \in SUBSET Frames
  BY DEF Users
<1> QED
  BY <1>1, FramesFinite, FS_Subset, FS_CardinalityType

\* A count of one means that nobody else is registered.
LEMMA LastUser ==
    ASSUME CountsAreExact, NEW k \in Keys, NEW f \in Users(k), NEW g \in Users(k),
           users[k] = 1
    PROVE  f = g
<1>1. Cardinality(Users(k)) = 1
  BY DEF CountsAreExact, Users
<1>2. PICK x : Users(k) = {x}
  BY <1>1, UsersFinite, FS_Singleton
<1> QED
  BY <1>2

-----------------------------------------------------------------------------
(* The two calls of a thread *)

LEMMA TwoCalls ==
    ASSUME NEW f \in Frames
    PROVE  /\ <<f[1], "outer">> \in Frames /\ <<f[1], "inner">> \in Frames
           /\ <<f[1], "outer">> # <<f[1], "inner">>
           /\ f[2] = "outer" => f = <<f[1], "outer">>
           /\ f[2] = "inner" => f = <<f[1], "inner">>
           /\ f[2] = "outer" \/ f[2] = "inner"
BY DEF Frames, Levels

\* What an order of locks is about, for one call
Ordered(f) ==
    /\ pc[f] = "locking" => mine[f] # want[f]
    /\ pc[f] = "locking" => \A j \in mine[f], k \in want[f] \ mine[f] : j < k
Nested(f) ==
    f[2] = "inner" /\ pc[f] # "idle" =>
        /\ pc[<<f[1], "outer">>] = "body"
        /\ \A d \in want[<<f[1], "outer">>], k \in want[f] : d < k

LEMMA OrderedNested ==
    /\ LocksAreOrdered <=> \A f \in Frames : Ordered(f) /\ Nested(f)
    /\ LocksAreOrdered' <=> \A f \in Frames : Ordered(f)' /\ Nested(f)'
BY DEF LocksAreOrdered, Ordered, Nested

\* A step of one call leaves the others in order, unless it is one in whose body
\* another call goes on.
LEMMA OthersOrdered ==
    ASSUME TypeOK, LocksAreOrdered, NEW f \in Frames, f[2] = "outer" /\ pc[f] = "body" =>
               pc[<<f[1], "inner">>] = "idle",
           \A g \in Frames : g # f => pc'[g] = pc[g] /\ want'[g] = want[g] /\ mine'[g] = mine[g],
           Ordered(f)', Nested(f)'
    PROVE  LocksAreOrdered'
<1>1. ASSUME NEW g \in Frames, g # f PROVE Ordered(g)' /\ Nested(g)'
  <2>1. Ordered(g) /\ Nested(g)
    BY <1>1, OrderedNested
  <2>2. Ordered(g)'
    BY <1>1, <2>1 DEF Ordered
  <2>3. Nested(g)'
    <3> SUFFICES ASSUME g[2] = "inner", pc[g] # "idle" PROVE Nested(g)'
      BY <1>1 DEF Nested
    <3> DEFINE dir == <<g[1], "outer">>
    <3>1. dir \in Frames /\ g = <<g[1], "inner">>
      BY TwoCalls
    <3>2. pc[dir] = "body" /\ \A d \in want[dir], k \in want[g] : d < k
      BY <2>1 DEF Nested
    <3>3. dir # f
      BY <3>1, <3>2
    <3> QED
      BY <1>1, <3>1, <3>2, <3>3 DEF Nested
  <2> QED
    BY <2>2, <2>3
<1> QED
  BY <1>1, OrderedNested

-----------------------------------------------------------------------------
LEMMA InitInv == Init => IInv
<1> SUFFICES ASSUME Init PROVE IInv
  OBVIOUS
<1>1. TypeOK
  BY DEF Init, TypeOK
<1>2. CallsAreConsistent
  BY DEF Init, CallsAreConsistent
<1>3. CountsAreExact
  <2>1. \A k \in Keys : {f \in Frames : k \in want[f]} = {}
    BY DEF Init
  <2> QED
    BY <2>1, FS_EmptySet DEF Init, CountsAreExact
<1>4. LocksAreShared /\ OwnersAreRight
  BY NoneAssumption DEF Init, LocksAreShared, OwnersAreRight
<1>5. LocksAreOrdered
  BY DEF Init, LocksAreOrdered
<1> QED
  BY <1>1, <1>2, <1>3, <1>4, <1>5 DEF IInv

LEMMA RegisterStep ==
    ASSUME IInv, NEW f \in Frames, NEW K \in Requests, Register(f, K)
    PROVE  IInv'
<1> USE RequestsAssumption DEF IInv
<1>0. /\ K \subseteq Keys /\ K # {}
      /\ pc[f] = "idle" /\ want[f] = {} /\ mine[f] = {}
      /\ pc' = [pc EXCEPT ![f] = "locking"]
      /\ want' = [want EXCEPT ![f] = K]
      /\ UNCHANGED <<owner, mine>>
  BY DEF Register, MayCall, CallsAreConsistent
<1>1. PICK new \in [K -> Locks] :
        /\ \A k \in K : IF users[k] = 0 THEN Fresh(new[k]) ELSE new[k] = lockOf[k]
        /\ \A j, k \in K : new[j] = new[k] => j = k
        /\ lockOf' = [k \in Keys |-> IF k \in K THEN new[k] ELSE lockOf[k]]
        /\ mylock' = [mylock EXCEPT ![f] =
                         [k \in Keys |-> IF k \in K THEN new[k] ELSE NoLock]]
  BY DEF Register
<1>2. users' = [k \in Keys |-> IF k \in K THEN users[k] + 1 ELSE users[k]]
  BY DEF Register, Referenced
<1>3. TypeOK'
  BY <1>0, <1>1, <1>2 DEF TypeOK
<1>4. CallsAreConsistent'
  BY <1>0 DEF CallsAreConsistent, TypeOK
<1>5. CountsAreExact'
  <2> SUFFICES ASSUME NEW k \in Keys PROVE users'[k] = Cardinality(Users(k)')
    BY DEF CountsAreExact, Users
  <2>1. users[k] = Cardinality(Users(k)) /\ f \notin Users(k)
    BY <1>0 DEF CountsAreExact, Users
  <2>2. CASE k \in K
    <3>1. Users(k)' = Users(k) \cup {f}
      BY <1>0, <2>2 DEF Users, TypeOK
    <3>2. Cardinality(Users(k) \cup {f}) = Cardinality(Users(k)) + 1
      BY <2>1, UsersFinite, FS_AddElement
    <3> QED
      BY <1>2, <2>1, <2>2, <3>1, <3>2
  <2>3. CASE k \notin K
    <3>1. Users(k)' = Users(k)
      BY <1>0, <2>1, <2>3 DEF Users, TypeOK
    <3> QED
      BY <1>2, <2>1, <2>3, <3>1
  <2> QED
    BY <2>2, <2>3
<1>6. LocksAreShared'
  <2>1. ASSUME NEW g \in Frames, NEW k \in want'[g]
        PROVE  mylock'[g][k] = lockOf'[k] /\ lockOf'[k] \in Locks
    <3>1. CASE g = f
      BY <1>0, <1>1, <2>1, <3>1 DEF TypeOK
    <3>2. CASE g # f
      <4>1. k \in want[g] /\ k \in Keys /\ mylock'[g] = mylock[g]
        BY <1>0, <1>1, <2>1, <3>2 DEF TypeOK
      <4>2. mylock[g][k] = lockOf[k] /\ lockOf[k] \in Locks
        BY <4>1 DEF LocksAreShared
      <4>3. users[k] # 0
        <5>1. users[k] = Cardinality(Users(k)) /\ g \in Users(k)
          BY <4>1 DEF CountsAreExact, Users
        <5> QED
          BY <5>1, <4>1, UsersFinite, FS_EmptySet
      <4> QED
        BY <1>1, <4>1, <4>2, <4>3 DEF TypeOK
    <3> QED
      BY <3>1, <3>2
  <2>2. ASSUME NEW j \in Keys, NEW k \in Keys,
               lockOf'[j] = lockOf'[k], lockOf'[j] \in Locks
        PROVE  j = k
    <3>1. CASE j \in K /\ k \in K
      BY <1>1, <2>2, <3>1
    <3>2. CASE j \notin K /\ k \notin K
      BY <1>1, <2>2, <3>2 DEF LocksAreShared
    <3>3. CASE j \in K /\ k \notin K
      BY <1>1, <2>2, <3>3 DEF Fresh, LocksAreShared
    <3>4. CASE j \notin K /\ k \in K
      BY <1>1, <2>2, <3>4 DEF Fresh, LocksAreShared
    <3> QED
      BY <3>1, <3>2, <3>3, <3>4
  <2> QED
    BY <2>1, <2>2 DEF LocksAreShared
<1>7. OwnersAreRight'
  <2>1. \A g \in Frames : g # f => mylock'[g] = mylock[g]
    BY <1>1 DEF TypeOK
  <2>2. \A g \in Frames : \A k \in mine[g] : g # f /\ owner'[mylock'[g][k]] = g
    BY <1>0, <2>1 DEF OwnersAreRight, TypeOK
  <2>3. ASSUME NEW l \in Locks, owner[l] # NoFrame
        PROVE  \E k \in mine[owner[l]] : mylock'[owner[l]][k] = l
    <3>1. owner[l] \in Frames
      BY <2>3 DEF TypeOK
    <3> QED
      BY <1>0, <2>1, <2>3, <3>1 DEF OwnersAreRight
  <2> QED
    BY <1>0, <2>2, <2>3 DEF OwnersAreRight
<1>8. LocksAreOrdered'
  <2>1. pc'[f] = "locking" /\ want'[f] = K /\ mine'[f] = {}
    BY <1>0 DEF TypeOK
  <2>2. Ordered(f)'
    BY <1>0, <2>1 DEF Ordered
  <2>3. Nested(f)'
    <3> SUFFICES ASSUME f[2] = "inner" PROVE Nested(f)'
      BY DEF Nested
    <3> DEFINE dir == <<f[1], "outer">>
    <3>1. dir \in Frames /\ dir # f
      BY TwoCalls
    <3>2. pc[dir] = "body" /\ \A d \in want[dir], k \in K : d < k
      BY DEF Register, MayCall
    <3>3. pc'[dir] = "body" /\ want'[dir] = want[dir]
      BY <1>0, <3>1, <3>2 DEF TypeOK
    <3> QED
      BY <2>1, <3>2, <3>3 DEF Nested
  <2>4. \A g \in Frames : g # f => pc'[g] = pc[g] /\ want'[g] = want[g] /\ mine'[g] = mine[g]
    BY <1>0 DEF TypeOK
  <2> QED
    BY <1>0, <2>2, <2>3, <2>4, OthersOrdered
<1> QED
  BY <1>3, <1>4, <1>5, <1>6, <1>7, <1>8

\* Two calls that both hold the lock of one object hold it for one path, and
\* are one call.
LEMMA OneOwner ==
    ASSUME IInv, NEW f \in Frames, NEW g \in Frames,
           NEW j \in mine[f], NEW k \in mine[g], mylock[f][j] = mylock[g][k]
    PROVE  f = g /\ j = k
BY DEF IInv, TypeOK, CallsAreConsistent, LocksAreShared, OwnersAreRight

LEMMA LockStep == ASSUME IInv, NEW f \in Frames, Lock(f) PROVE IInv'
<1> USE DEF IInv
<1>0. pc[f] = "locking" /\ UNCHANGED <<lockOf, users, want, mylock>>
  BY DEF Lock
<1>1. PICK k \in Keys :
        /\ NextKey(f, k)
        /\ owner[mylock[f][k]] = NoFrame
        /\ owner' = [owner EXCEPT ![mylock[f][k]] = f]
        /\ mine' = [mine EXCEPT ![f] = @ \cup {k}]
        /\ pc' = [pc EXCEPT ![f] = IF want[f] = mine[f] \cup {k} THEN "body" ELSE @]
  BY DEF Lock
<1>2. k \in want[f] /\ k \notin mine[f] /\ mylock[f][k] \in Locks
  BY <1>1 DEF NextKey, LocksAreShared
<1>3. TypeOK'
  BY <1>0, <1>1, <1>2 DEF TypeOK
<1>4. CallsAreConsistent'
  BY <1>0, <1>1, <1>2 DEF CallsAreConsistent, TypeOK
<1>5. CountsAreExact' /\ LocksAreShared'
  BY <1>0 DEF CountsAreExact, LocksAreShared
<1>6. ASSUME NEW g \in Frames, NEW j \in mine'[g] PROVE owner'[mylock[g][j]] = g
  <2>1. CASE g = f /\ j = k
    BY <1>1, <1>2, <2>1 DEF TypeOK
  <2>2. CASE ~(g = f /\ j = k)
    <3>1. j \in mine[g]
      BY <1>1, <2>2 DEF TypeOK
    <3>2. owner[mylock[g][j]] = g
      BY <3>1 DEF OwnersAreRight
    <3>3. mylock[g][j] # mylock[f][k]
      BY <1>1, <3>2, NoFrameAssumption
    <3>4. mylock[g][j] \in Locks
      BY <3>1 DEF CallsAreConsistent, LocksAreShared
    <3> QED
      BY <1>1, <3>2, <3>3, <3>4 DEF TypeOK
  <2> QED
    BY <2>1, <2>2
<1>7. OwnersAreRight'
  <2>1. ASSUME NEW l \in Locks, owner'[l] # NoFrame
        PROVE  \E j \in mine'[owner'[l]] : mylock[owner'[l]][j] = l
    <3>1. CASE l = mylock[f][k]
      BY <1>1, <1>2, <3>1 DEF TypeOK
    <3>2. CASE l # mylock[f][k]
      <4>1. owner'[l] = owner[l] /\ owner[l] \in Frames
        BY <1>1, <2>1, <3>2 DEF TypeOK
      <4>2. mine[owner[l]] \subseteq mine'[owner[l]]
        BY <1>1, <4>1 DEF TypeOK
      <4> QED
        BY <2>1, <4>1, <4>2 DEF OwnersAreRight
    <3> QED
      BY <3>1, <3>2
  <2> QED
    BY <1>0, <1>6, <2>1 DEF OwnersAreRight
<1>8. LocksAreOrdered'
  <2>1. /\ pc'[f] = IF want[f] = mine[f] \cup {k} THEN "body" ELSE "locking"
        /\ want'[f] = want[f] /\ mine'[f] = mine[f] \cup {k}
    BY <1>0, <1>1 DEF TypeOK
  <2>2. Ordered(f) /\ Nested(f)
    BY OrderedNested
  <2>3. Ordered(f)'
    <3>1. \A j \in want[f] : j \in Nat
      BY KeysAssumption DEF TypeOK
    <3>2. \A j \in want[f] \ mine[f] : j # k => k < j
      BY <1>1, <1>2, <3>1 DEF NextKey
    <3> QED
      BY <1>0, <2>1, <2>2, <3>2 DEF Ordered
  <2>4. \A g \in Frames : g # f => pc'[g] = pc[g] /\ want'[g] = want[g] /\ mine'[g] = mine[g]
    BY <1>0, <1>1 DEF TypeOK
  <2>5. Nested(f)'
    <3>1. <<f[1], "outer">> \in Frames /\ (f[2] = "inner" => <<f[1], "outer">> # f)
      BY TwoCalls
    <3> QED
      BY <1>0, <2>1, <2>2, <2>4, <3>1 DEF Nested
  <2> QED
    BY <1>0, <2>3, <2>4, <2>5, OthersOrdered
<1> QED
  BY <1>3, <1>4, <1>5, <1>7, <1>8

LEMMA LeaveStep == ASSUME IInv, NEW f \in Frames, Leave(f) PROVE IInv'
<1> USE DEF IInv, Leave
<1>1. TypeOK' /\ CallsAreConsistent'
  BY DEF TypeOK, CallsAreConsistent
<1>2. CountsAreExact' /\ LocksAreShared' /\ OwnersAreRight'
  BY DEF CountsAreExact, LocksAreShared, OwnersAreRight
<1>3. LocksAreOrdered'
  <2>1. Ordered(f) /\ Nested(f)
    BY OrderedNested
  <2>2. pc'[f] = "unlocking" /\ want'[f] = want[f] /\ mine'[f] = mine[f]
    BY DEF TypeOK
  <2>3. \A g \in Frames : g # f => pc'[g] = pc[g] /\ want'[g] = want[g] /\ mine'[g] = mine[g]
    BY DEF TypeOK
  <2>4. Nested(f)'
    <3>1. <<f[1], "outer">> \in Frames /\ (f[2] = "inner" => <<f[1], "outer">> # f)
      BY TwoCalls
    <3> QED
      BY <2>1, <2>2, <2>3, <3>1 DEF Nested
  <2>5. Ordered(f)'
    BY <2>2 DEF Ordered
  <2> QED
    BY <2>3, <2>4, <2>5, OthersOrdered
<1> QED
  BY <1>1, <1>2, <1>3

LEMMA UnlockStep == ASSUME IInv, NEW f \in Frames, Unlock(f) PROVE IInv'
<1> USE DEF IInv
<1>0. pc[f] = "unlocking" /\ UNCHANGED <<lockOf, users, want, mylock>>
  BY DEF Unlock
<1>1. PICK k \in mine[f] :
        /\ owner' = [owner EXCEPT ![mylock[f][k]] = NoFrame]
        /\ mine' = [mine EXCEPT ![f] = @ \ {k}]
        /\ pc' = [pc EXCEPT ![f] = IF mine[f] = {k} THEN "leaving" ELSE @]
  BY DEF Unlock
<1>2. TypeOK'
  BY <1>0, <1>1 DEF TypeOK
<1>3. CallsAreConsistent'
  BY <1>0, <1>1 DEF CallsAreConsistent, TypeOK
<1>4. CountsAreExact' /\ LocksAreShared'
  BY <1>0 DEF CountsAreExact, LocksAreShared
<1>5. ASSUME NEW g \in Frames, NEW j \in mine'[g] PROVE owner'[mylock[g][j]] = g
  <2>1. j \in mine[g] /\ ~(g = f /\ j = k)
    BY <1>1 DEF TypeOK
  <2>2. owner[mylock[g][j]] = g /\ mylock[g][j] # mylock[f][k]
    BY <2>1, OneOwner DEF OwnersAreRight
  <2>3. mylock[g][j] \in Locks
    BY <2>1 DEF CallsAreConsistent, LocksAreShared
  <2> QED
    BY <1>1, <2>2, <2>3 DEF TypeOK
<1>6. OwnersAreRight'
  <2>1. ASSUME NEW l \in Locks, owner'[l] # NoFrame
        PROVE  \E j \in mine'[owner'[l]] : mylock[owner'[l]][j] = l
    <3>1. mylock[f][k] \in Locks
      BY DEF CallsAreConsistent, LocksAreShared
    <3>2. l # mylock[f][k] /\ owner'[l] = owner[l] /\ owner[l] \in Frames
      BY <1>1, <2>1, <3>1 DEF TypeOK
    <3>3. PICK j \in mine[owner[l]] : mylock[owner[l]][j] = l
      BY <2>1, <3>2 DEF OwnersAreRight
    <3>4. j \in mine'[owner[l]]
      BY <1>1, <3>2, <3>3 DEF TypeOK
    <3> QED
      BY <3>2, <3>3, <3>4
  <2> QED
    BY <1>0, <1>5, <2>1 DEF OwnersAreRight
<1>7. LocksAreOrdered'
  <2>1. Ordered(f) /\ Nested(f)
    BY OrderedNested
  <2>2. pc'[f] \in {"unlocking", "leaving"} /\ want'[f] = want[f]
    BY <1>0, <1>1 DEF TypeOK
  <2>3. \A g \in Frames : g # f => pc'[g] = pc[g] /\ want'[g] = want[g] /\ mine'[g] = mine[g]
    BY <1>0, <1>1 DEF TypeOK
  <2>4. Nested(f)'
    <3>1. <<f[1], "outer">> \in Frames /\ (f[2] = "inner" => <<f[1], "outer">> # f)
      BY TwoCalls
    <3> QED
      BY <1>0, <2>1, <2>2, <2>3, <3>1 DEF Nested
  <2>5. Ordered(f)'
    BY <2>2 DEF Ordered
  <2> QED
    BY <1>0, <2>3, <2>4, <2>5, OthersOrdered
<1> QED
  BY <1>2, <1>3, <1>4, <1>6, <1>7

LEMMA UnregisterStep == ASSUME IInv, NEW f \in Frames, Unregister(f) PROVE IInv'
<1> USE DEF IInv
<1>0. /\ pc[f] = "leaving" /\ mine[f] = {}
      /\ lockOf' = [k \in Keys |-> IF DropsEntry(f, k) THEN NoLock ELSE lockOf[k]]
      /\ pc' = [pc EXCEPT ![f] = "idle"]
      /\ want' = [want EXCEPT ![f] = {}]
      /\ mylock' = [mylock EXCEPT ![f] = [k \in Keys |-> NoLock]]
      /\ UNCHANGED <<owner, mine>>
  BY DEF Unregister, CallsAreConsistent
<1>1. \A k \in Keys : k \in want[f] => users[k] >= 1
  <2> SUFFICES ASSUME NEW k \in Keys, k \in want[f] PROVE users[k] >= 1
    OBVIOUS
  <2>1. users[k] = Cardinality(Users(k)) /\ f \in Users(k)
    BY DEF CountsAreExact, Users
  <2> QED
    BY <2>1, UsersFinite, FS_EmptySet
<1>2. users' = [k \in Keys |-> IF k \in want[f] THEN users[k] - 1 ELSE users[k]]
  BY <1>1 DEF Unregister, DropsEntry, TypeOK
<1>3. TypeOK'
  <2>1. users' \in [Keys -> Nat]
    BY <1>1, <1>2 DEF TypeOK
  <2> QED
    BY <1>0, <2>1 DEF TypeOK
<1>4. CallsAreConsistent'
  BY <1>0 DEF CallsAreConsistent, TypeOK
<1>5. CountsAreExact'
  <2> SUFFICES ASSUME NEW k \in Keys PROVE users'[k] = Cardinality(Users(k)')
    BY DEF CountsAreExact, Users
  <2>1. Users(k)' = Users(k) \ {f}
    BY <1>0 DEF Users, TypeOK
  <2>2. users[k] = Cardinality(Users(k)) /\ (f \in Users(k) <=> k \in want[f])
    BY DEF CountsAreExact, Users
  <2>3. Cardinality(Users(k) \ {f}) =
          IF f \in Users(k) THEN Cardinality(Users(k)) - 1 ELSE Cardinality(Users(k))
    BY UsersFinite, FS_RemoveElement
  <2> QED
    BY <1>2, <2>1, <2>2, <2>3
<1>6. LocksAreShared'
  <2>1. ASSUME NEW g \in Frames, NEW k \in want'[g]
        PROVE  mylock'[g][k] = lockOf'[k] /\ lockOf'[k] \in Locks
    <3>1. g # f /\ k \in want[g] /\ k \in Keys /\ mylock'[g] = mylock[g]
      BY <1>0, <2>1 DEF TypeOK
    <3>2. ~DropsEntry(f, k)
      BY <3>1, LastUser DEF DropsEntry, Users
    <3> QED
      BY <1>0, <3>1, <3>2 DEF LocksAreShared
  <2>2. ASSUME NEW j \in Keys, NEW k \in Keys,
               lockOf'[j] = lockOf'[k], lockOf'[j] \in Locks
        PROVE  j = k
    BY <1>0, <2>2, NoneAssumption DEF LocksAreShared
  <2> QED
    BY <2>1, <2>2 DEF LocksAreShared
<1>7. OwnersAreRight'
  <2>1. \A g \in Frames : g # f => mylock'[g] = mylock[g]
    BY <1>0 DEF TypeOK
  <2>2. \A g \in Frames : \A k \in mine[g] : g # f /\ owner'[mylock'[g][k]] = g
    BY <1>0, <2>1 DEF OwnersAreRight, TypeOK
  <2>3. ASSUME NEW l \in Locks, owner[l] # NoFrame
        PROVE  \E k \in mine[owner[l]] : mylock'[owner[l]][k] = l
    <3>1. owner[l] \in Frames
      BY <2>3 DEF TypeOK
    <3> QED
      BY <1>0, <2>1, <2>3, <3>1 DEF OwnersAreRight
  <2> QED
    BY <1>0, <2>2, <2>3 DEF OwnersAreRight
<1>8. LocksAreOrdered'
  <2>1. pc'[f] = "idle"
    BY <1>0 DEF TypeOK
  <2>2. Ordered(f)' /\ Nested(f)'
    BY <2>1 DEF Ordered, Nested
  <2>3. \A g \in Frames : g # f => pc'[g] = pc[g] /\ want'[g] = want[g] /\ mine'[g] = mine[g]
    BY <1>0 DEF TypeOK
  <2> QED
    BY <1>0, <2>2, <2>3, OthersOrdered
<1> QED
  BY <1>3, <1>4, <1>5, <1>6, <1>7, <1>8

LEMMA NextInv == IInv /\ [Next]_vars => IInv'
<1>1. IInv /\ UNCHANGED vars => IInv'
  BY DEF vars, IInv, TypeOK, CallsAreConsistent, CountsAreExact, LocksAreShared,
         OwnersAreRight, LocksAreOrdered
<1> QED
  BY <1>1, RegisterStep, LockStep, LeaveStep, UnlockStep, UnregisterStep DEF Next, Step

-----------------------------------------------------------------------------
(* The theorems *)

\* The inductive invariant of the registry: in particular its counts are exact.
THEOREM Invariance == Spec => []IInv
BY InitInv, NextInv, PTL DEF Spec

LEMMA InvExcludes == IInv => MutualExclusion
BY OneOwner DEF IInv, TypeOK, CallsAreConsistent, LocksAreShared, MutualExclusion

\* No two calls are in their bodies for one path: the with-blocks around STOR,
\* APPE, DELE, RMD and RNTO are critical sections per path.
THEOREM Exclusion == Spec => []MutualExclusion
BY InvExcludes, Invariance, PTL

\* The registry implements the all-at-once multi-path mutex.
THEOREM Refinement == Spec => ImplementsPathMutex
<1>1. Init => Mutex!Init
  BY DEF Init, Mutex!Init, Holds
<1>2. IInv /\ IInv' /\ [Next]_vars => [Mutex!Next]_Holds
  <2> SUFFICES ASSUME IInv, IInv', [Next]_vars PROVE [Mutex!Next]_Holds
    OBVIOUS
  <2> USE DEF IInv, TypeOK, Holds
  <2>1. ASSUME NEW f \in Frames, Lock(f) PROVE [Mutex!Next]_Holds
    <3>1. UNCHANGED want /\ pc[f] = "locking" /\ Holds[f] = {}
          /\ (pc' = [pc EXCEPT ![f] = "body"] \/ UNCHANGED pc)
      BY <2>1 DEF Lock
    <3>2. CASE UNCHANGED pc
      BY <3>1, <3>2
    <3>3. CASE pc' = [pc EXCEPT ![f] = "body"]
      <4>1. Holds' = [Holds EXCEPT ![f] = want[f]]
        BY <3>1, <3>3
      <4>2. \A g \in Frames : Holds[g] \cap want[f] = {}
        <5>1. MutualExclusion'
          BY InvExcludes, PTL
        <5> QED
          BY <3>1, <3>3, <5>1 DEF MutualExclusion
      <4> QED
        BY <3>1, <4>1, <4>2 DEF Mutex!Next, Mutex!Enter
    <3> QED
      BY <3>1, <3>2, <3>3
  <2>2. ASSUME NEW f \in Frames, Leave(f) PROVE [Mutex!Next]_Holds
    <3>1. Holds' = [Holds EXCEPT ![f] = {}]
      BY <2>2 DEF Leave
    <3> QED
      BY <3>1 DEF Mutex!Next, Mutex!Leave
  <2>3. ASSUME NEW f \in Frames, Unlock(f) PROVE UNCHANGED Holds
    BY <2>3 DEF Unlock
  <2>4. ASSUME NEW f \in Frames, Unregister(f) PROVE UNCHANGED Holds
    BY <2>4 DEF Unregister
  <2>5. ASSUME NEW f \in Frames, NEW K \in Requests, Register(f, K) PROVE UNCHANGED Holds
    BY <2>5 DEF Register, MayCall
  <2>6. UNCHANGED vars => UNCHANGED Holds
    BY DEF vars
  <2> QED
    BY <2>1, <2>2, <2>3, <2>4, <2>5, <2>6 DEF Next, Step
<1> QED
  BY <1>1, <1>2, Invariance, PTL DEF Spec, ImplementsPathMutex, Mutex!Spec

-----------------------------------------------------------------------------
(* No deadlock *)

LEMMA LargestElement ==
    ASSUME NEW S \in SUBSET Nat, IsFiniteSet(S), S # {}
    PROVE  \E x \in S : \A y \in S : y <= x
<1> DEFINE Above(x) == {y \in S : x < y}
           C == {Cardinality(Above(x)) : x \in S}
<1>1. \A x \in S : IsFiniteSet(Above(x)) /\ Cardinality(Above(x)) \in Nat
  <2> TAKE x \in S
  <2>1. Above(x) \in SUBSET S
    OBVIOUS
  <2> QED
    BY <2>1, FS_Subset, FS_CardinalityType
<1>2. PICK c \in C : \A b \in C : <<b, c>> \notin OpToRel(<, Nat)
  <2>1. C \subseteq Nat /\ C # {}
    BY <1>1
  <2> QED
    BY <2>1, NatLessThanWellFounded, WFMin, Zenon
<1>3. \A i, j \in Nat : i < j => <<i, j>> \in OpToRel(<, Nat)
  BY Zenon DEF OpToRel
<1>4. PICK x \in S : c = Cardinality(Above(x))
  OBVIOUS
<1>5. ASSUME NEW y \in S, x < y PROVE FALSE
  <2>1. Above(y) \in SUBSET Above(x) /\ y \in Above(x) /\ y \notin Above(y)
    <3>1. x \in Nat /\ y \in Nat /\ \A z \in S : z \in Nat
      OBVIOUS
    <3>2. \A z \in S : y < z => x < z
      BY <1>5, <3>1
    <3>3. ~(y < y)
      BY <3>1
    <3> QED
      BY <1>5, <3>2, <3>3
  <2>2. Cardinality(Above(y)) <= Cardinality(Above(x))
        /\ Cardinality(Above(y)) # Cardinality(Above(x))
    BY <1>1, <2>1, FS_Subset
  <2>3. Cardinality(Above(y)) < c
    BY <1>1, <1>4, <2>2
  <2> QED
    BY <1>1, <1>2, <1>3, <1>4, <2>3
<1> QED
  BY <1>5

\* The call that holds a lock has taken it for the path that it is the lock of.
LEMMA HolderHasKey ==
    ASSUME IInv, NEW f \in Frames, NEW g \in Frames, NEW k \in want[f], owner[mylock[f][k]] = g
    PROVE  k \in mine[g]
<1> USE DEF IInv
<1>1. mylock[f][k] \in Locks /\ mylock[f][k] = lockOf[k] /\ k \in Keys
  BY DEF LocksAreShared, TypeOK
<1>2. PICK j \in mine[g] : mylock[g][j] = mylock[f][k]
  BY <1>1, NoFrameAssumption DEF OwnersAreRight
<1>3. mylock[g][j] = lockOf[j] /\ j \in Keys
  BY DEF LocksAreShared, CallsAreConsistent, TypeOK
<1>4. j = k
  BY <1>1, <1>2, <1>3 DEF LocksAreShared
<1> QED
  BY <1>4

LEMMA NobodyInACircle == IInv => NoCircularWait
<1> SUFFICES ASSUME IInv, NEW T \in SUBSET Frames, T # {},
                    \A f \in T : \E g \in T : WaitsFor(f, g)
             PROVE  FALSE
  BY DEF NoCircularWait
<1> DEFINE W == {k \in Keys : \E f \in T : pc[f] = "locking" /\ NextKey(f, k)}
<1>1. ASSUME NEW f \in T, f[2] = "inner"
      PROVE  pc[f] = "locking" /\ \E k \in W : NextKey(f, k)
  BY <1>1 DEF WaitsFor
<1>2. W # {}
  <2>1. PICK f \in T : TRUE
    OBVIOUS
  <2>2. PICK g \in T : WaitsFor(f, g)
    OBVIOUS
  <2>3. CASE pc[f] = "locking"
    BY <2>2, <2>3 DEF WaitsFor
  <2>4. CASE g = <<f[1], "inner">>
    BY <1>1, <2>4
  <2> QED
    BY <2>2, <2>3, <2>4 DEF WaitsFor
<1>3. PICK k \in W : \A j \in W : j <= k
  <2>1. W \in SUBSET Keys /\ W \in SUBSET Nat /\ IsFiniteSet(W)
    BY KeysAssumption, FS_Subset
  <2> QED
    BY <1>2, <2>1, LargestElement
<1>4. PICK f \in T : pc[f] = "locking" /\ NextKey(f, k)
  OBVIOUS
<1>5. PICK g \in T : k \in mine[g]
  <2>1. PICK g \in T : WaitsFor(f, g)
    OBVIOUS
  <2>2. PICK j \in Keys : NextKey(f, j) /\ owner[mylock[f][j]] = g
    BY <1>4, <2>1 DEF WaitsFor
  <2>3. j = k
    <3>1. j \in Nat /\ k \in Nat /\ j <= k /\ k <= j
      BY <1>4, <2>2, KeysAssumption DEF NextKey
    <3> QED
      BY <3>1
  <2>4. k \in want[f]
    BY <1>4 DEF NextKey
  <2> QED
    BY <2>2, <2>3, <2>4, HolderHasKey
<1>6. PICK h \in T : WaitsFor(g, h)
  OBVIOUS
<1>7. k \in Nat /\ \A j \in W : ~(k < j)
  BY <1>3, KeysAssumption
<1>8. CASE pc[g] = "locking"
  <2>1. PICK j \in W : NextKey(g, j)
    BY <1>6, <1>8 DEF WaitsFor
  <2>2. Ordered(g)
    BY OrderedNested DEF IInv
  <2>3. k < j
    BY <1>5, <1>8, <2>1, <2>2 DEF Ordered, NextKey
  <2> QED
    BY <1>7, <2>3
<1>9. CASE g[2] = "outer" /\ h = <<g[1], "inner">>
  <2>1. h[2] = "inner" /\ g = <<h[1], "outer">>
    BY <1>9, TwoCalls
  <2>2. pc[h] = "locking" /\ \E j \in W : NextKey(h, j)
    BY <1>1, <2>1
  <2>3. PICK j \in W : j \in want[h]
    BY <2>2 DEF NextKey
  <2>4. \A d \in want[g] : d < j
    BY <2>1, <2>2, <2>3, OrderedNested DEF IInv, Nested
  <2>5. k \in want[g]
    BY <1>5 DEF IInv, CallsAreConsistent
  <2> QED
    BY <1>7, <2>4, <2>5
<1> QED
  BY <1>6, <1>8, <1>9 DEF WaitsFor

\* However many threads store, rename and delete, and with STOU's lock inside a lock,
\* acquire() never makes calls wait for each other in a circle.
THEOREM NoDeadlock == Spec => []NoCircularWait
BY NobodyInACircle, Invariance, PTL

\* A call can be kept waiting only by another call of the registry.
LEMMA WaitsOrMayGoOn ==
    ASSUME IInv, NEW f \in Frames, pc[f] # "idle"
    PROVE  MayGoOn(f) \/ \E g \in Frames : pc[g] # "idle" /\ WaitsFor(f, g)
<1> USE DEF IInv
<1>1. pc[f] \in {"locking", "body", "unlocking", "leaving"}
  BY DEF TypeOK
<1>2. CASE pc[f] = "locking"
  <2>1. PICK k \in want[f] \ mine[f] : \A j \in want[f] \ mine[f] : k <= j
    <3> DEFINE S == want[f] \ mine[f]
    <3>1. S # {}
      <4>1. mine[f] # want[f]
        BY <1>2 DEF LocksAreOrdered
      <4>2. mine[f] \subseteq want[f]
        BY DEF CallsAreConsistent
      <4> QED
        BY <4>1, <4>2
    <3>2. S \subseteq Nat
      BY KeysAssumption DEF TypeOK
    <3>3. PICK k \in S : \A j \in S : <<j, k>> \notin OpToRel(<, Nat)
      BY <3>1, <3>2, NatLessThanWellFounded, WFMin, Zenon
    <3>4. \A i, j \in Nat : i < j => <<i, j>> \in OpToRel(<, Nat)
      BY Zenon DEF OpToRel
    <3>5. \A j \in S : ~(j < k)
      BY <3>2, <3>3, <3>4
    <3> QED
      BY <3>2, <3>5
  <2>2. NextKey(f, k) /\ k \in Keys /\ mylock[f][k] \in Locks
    BY <2>1 DEF NextKey, TypeOK, LocksAreShared
  <2>3. CASE owner[mylock[f][k]] = NoFrame
    BY <1>2, <2>2, <2>3 DEF MayGoOn
  <2>4. CASE owner[mylock[f][k]] # NoFrame
    <3>1. PICK g \in Frames : g = owner[mylock[f][k]]
      BY <2>2, <2>4 DEF TypeOK
    <3>2. mine[g] # {}
      BY <2>1, <3>1, HolderHasKey
    <3>3. pc[g] # "idle"
      BY <3>2 DEF CallsAreConsistent
    <3> QED
      BY <1>2, <2>2, <3>1, <3>3 DEF WaitsFor
  <2> QED
    BY <2>3, <2>4
<1>3. CASE pc[f] = "body"
  BY <1>3, TwoCalls DEF MayGoOn, WaitsFor
<1>4. CASE pc[f] \in {"unlocking", "leaving"}
  BY <1>4 DEF MayGoOn
<1> QED
  BY <1>1, <1>2, <1>3, <1>4

\* As long as there are calls, one of them can go on.
THEOREM CallsGoOn == Spec => []SomeCallMayGoOn
<1>1. ASSUME IInv PROVE SomeCallMayGoOn
  <2> DEFINE T == {f \in Frames : pc[f] # "idle"}
  <2>1. ASSUME T # {} PROVE \E f \in Frames : MayGoOn(f)
    <3>1. PICK f \in T : \A g \in T : ~WaitsFor(f, g)
      BY <1>1, <2>1, NobodyInACircle DEF NoCircularWait
    <3> QED
      BY <1>1, <3>1, WaitsOrMayGoOn
  <2> QED
    BY <2>1 DEF SomeCallMayGoOn
<1> QED
  BY <1>1, Invariance, PTL
=============================================================================
