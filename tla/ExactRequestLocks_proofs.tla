---------------------- MODULE ExactRequestLocks_proofs ----------------------
(***************************************************************************)
(* However many Shards, requests, update workers and optimizer tasks there *)
(* are: no generation changes under a request that pinned it, no session   *)
(* slot is lost, and nobody waits in a circle if all requests take the     *)
(* Shards in one order and a Shard has one optimizer task at a time.       *)
(***************************************************************************)
EXTENDS LockSteps_proofs, FiniteSetTheorems

-----------------------------------------------------------------------------
(* The slots a request takes and gives back.                               *)

\* Giving slots back leaves numbers of slots.
LEMMA GiveBackType ==
    ASSUME slots \in [Runtimes -> Nat], NEW used, IsFiniteSet(DOMAIN used), GiveBack(used)
    PROVE  slots' \in [Runtimes -> Nat]
<1>1. \A m \in Runtimes : Cardinality({k \in DOMAIN used : used[k] = m}) \in Nat
  <2> SUFFICES ASSUME NEW m \in Runtimes
               PROVE  Cardinality({k \in DOMAIN used : used[k] = m}) \in Nat
    BY Zenon
  <2>1. {k \in DOMAIN used : used[k] = m} \in SUBSET DOMAIN used
    BY Zenon
  <2>2. IsFiniteSet({k \in DOMAIN used : used[k] = m})
    BY Zenon, <2>1, FS_Subset
  <2> QED
    BY Zenon, <2>2, FS_CardinalityType
<1> DEFINE c(m) == Cardinality({k \in DOMAIN used : used[k] = m})
<1>2. \A m \in Runtimes : c(m) \in Nat
  BY Zenon, <1>1
<1>3. slots' = [m \in Runtimes |-> slots[m] + c(m)]
  BY Zenon DEF GiveBack
<1> HIDE DEF c
<1> QED
  BY <1>2, <1>3

LEMMA TakenIsFinite ==
    ASSUME TypeOK, NEW r \in Requests
    PROVE  /\ IsFiniteSet(DOMAIN taken[r])
           /\ IsFiniteSet(DOMAIN [reader |-> taken[r].reader])
<1>1. IsFiniteSet({"reader"}) /\ IsFiniteSet({"reader"} \cup {"coordinator"})
  BY FS_Singleton, FS_AddElement, Zenon
<1>2. DOMAIN taken[r] = {"reader"} \cup {"coordinator"}
  BY Zenon DEF TypeOK, SlotTypes
<1>3. DOMAIN [reader |-> taken[r].reader] = {"reader"}
  BY Zenon
<1> QED
  BY Zenon, <1>1, <1>2, <1>3

\* The slots of a request are numbers, and it has at most one of each kind.
LEMMA RequestSlotTypes ==
    ASSUME TypeOK, NEW r \in Requests, RequestAct(r)
    PROVE  SlotTypes'
<1>0. SlotTypes
  BY Zenon DEF TypeOK
<1>1. CASE ReserveReader(r)
  BY <1>0, <1>1 DEF SlotTypes, ReserveReader
<1>2. CASE ReserveCoordinator(r)
  BY <1>0, <1>2, RuntimesDiffer DEF SlotTypes, ReserveCoordinator
<1>3. CASE GiveBack(taken[r]) /\ taken' = [taken EXCEPT ![r] = NoSlots]
  BY Zenon, <1>0, <1>3, TakenIsFinite, GiveBackType DEF SlotTypes, NoSlots
<1>4. CASE TimeOut(r)
  BY Zenon, <1>0, <1>4, TakenIsFinite, GiveBackType DEF SlotTypes, TimeOut
<1>5. CASE UNCHANGED reservation
  BY Zenon, <1>0, <1>5 DEF SlotTypes, reservation
<1> QED
  BY Zenon, <1>1, <1>2, <1>3, <1>4, <1>5 DEF RequestAct, RequestStep, RequestUpdateLock,
       GetUpdateLock, CountSegments, TryOtherWay, RefuseReservation, Pin, CloneHandles,
       FinishTask, DropRequest

LEMMA RequestKeepsTypes ==
    ASSUME LocksInv, NEW r \in Requests, RequestAct(r)
    PROVE  TypeOK'
<1>1. RequestEffect(r) /\ TypeOK /\ SlotTypes' /\ LockTypes'
  BY Zenon, RequestEffects, RequestSlotTypes DEF LocksInv, RequestEffect
<1>2. PointTypes
  BY Zenon, <1>1 DEF TypeOK
<1>3. PointTypes'
  <2>1. pc' = [pc EXCEPT ![r] = pc'[r]] /\ pc'[r] \in RequestPoints
    BY Zenon, <1>1 DEF RequestEffect
  <2>2. pc' \in [Threads -> RequestPoints \cup UpdaterPoints \cup OptimizerPoints]
    BY Zenon, <1>2, <2>1 DEF PointTypes
  <2>3. /\ \A x \in Requests : pc'[x] \in RequestPoints
        /\ \A u \in Updaters : pc'[u] \in UpdaterPoints
        /\ \A o \in Optimizers : pc'[o] \in OptimizerPoints
    BY Zenon, <1>1, <1>2, <2>1, RequestOthers DEF PointTypes, Workers
  <2>4. at' \in [Requests -> Nat] /\ \A x \in Requests : at'[x] \in 1 .. Len(Order[x])
    <3>1. at' = [at EXCEPT ![r] = at'[r]] /\ at'[r] \in 1 .. Len(Order[r]) /\ at'[r] \in Nat
      BY <1>1, PositionInOrder DEF RequestEffect
    <3> QED
      BY Zenon, <1>2, <3>1 DEF PointTypes
  <2>5. answered' \subseteq Requests
    BY Zenon, <1>1, <1>2 DEF PointTypes, RequestEffect
  <2> QED
    BY Zenon, <2>2, <2>3, <2>4, <2>5 DEF PointTypes
<1> QED
  BY Zenon, <1>1, <1>3 DEF TypeOK

-----------------------------------------------------------------------------
LEMMA InitLocks == Init => LocksInv
<1> SUFFICES ASSUME Init PROVE LocksInv
  BY Zenon
<1> USE DEF Init
<1>1. LockTypes
  <2>1. <<>> \in Seq(Requests \cup Updaters)
    OBVIOUS
  <2> QED
    BY Zenon, <2>1 DEF LockTypes, UpdateLock, GenerationBarrier, HolderLock
<1>2. PointTypes
  <2>1. \A r \in Requests : Len(Order[r]) \in Nat \ {0}
    BY LocksAssumption
  <2>2. "idle" \in RequestPoints /\ "idle" \in UpdaterPoints /\ "idle" \in OptimizerPoints
    BY Zenon DEF RequestPoints, UpdaterPoints, OptimizerPoints
  <2>3. \A r \in Requests : at[r] \in 1 .. Len(Order[r])
    BY <2>1
  <2> QED
    BY Zenon, <2>2, <2>3 DEF PointTypes, Threads
<1>3. SlotTypes
  BY Zenon, LocksAssumption DEF SlotTypes, NoSlots
<1>4. WorkerLocks
  <2>1. \A t \in Workers : t # None /\ pc[t] = "idle"
    BY Zenon, LocksAssumption DEF Workers, Threads
  <2> QED
    BY Zenon, <2>1 DEF WorkerLocks, BarrierPoints, HolderPoints, UpgradablePoints
<1>5. BarrierIsDrained /\ UpdateLockExcludes /\ UpgradableExcludes
  BY Zenon, LocksAssumption DEF BarrierIsDrained, UpdateLockExcludes, UpgradableExcludes, Workers
<1>6. RequestLocks
  BY DEF RequestLocks, LockedPoints, Threads
<1>7. RequestPins
  BY Zenon DEF RequestPins
<1>8. QueueInv
  <2>1. \A s \in Shards : update_op[s].queue = <<>>
    BY Zenon
  <2>2. Once(<<>>) /\ Standing(<<>>) = {}
    BY DEF Once, Standing
  <2>3. \A s \in Shards : Waiting(s) = {}
    BY Zenon DEF Waiting, Threads
  <2> QED
    BY <2>1, <2>2, <2>3, Zenon DEF QueueInv
<1> QED
  BY Zenon, <1>1, <1>2, <1>3, <1>4, <1>5, <1>6, <1>7, <1>8 DEF LocksInv, TypeOK

LEMMA NextKeepsLocks == LocksInv /\ [Next]_vars => LocksInv'
<1> SUFFICES ASSUME LocksInv, [Next]_vars PROVE LocksInv'
  BY Zenon
<1>1. ASSUME NEW r \in Requests, RequestAct(r) PROVE LocksInv'
  BY Zenon, <1>1, RequestEffects, RequestKeepsTypes, RequestKeepsWorkerLocks, RequestKeepsExclusion,
     RequestKeepsRequestLocks, RequestKeepsPins, RequestKeepsQueues DEF LocksInv
<1>2. ASSUME NEW w \in Workers, WorkerEffect(w) PROVE LocksInv'
  BY Zenon, <1>2, WorkerKeepsTypes, WorkerKeepsWorkerLocks, WorkerKeepsExclusion, WorkerKeepsRequests
     DEF LocksInv
<1>3. CASE UNCHANGED vars
  <2>1. TypeOK' /\ WorkerLocks'
    BY <1>3, SMTT(20) DEF vars, LocksInv, TypeOK, LockTypes, PointTypes, SlotTypes, WorkerLocks
  <2>2. BarrierIsDrained' /\ UpdateLockExcludes' /\ UpgradableExcludes'
    BY Zenon, <1>3 DEF vars, LocksInv, BarrierIsDrained, UpdateLockExcludes, UpgradableExcludes
  <2>3. RequestLocks' /\ RequestPins'
    BY Zenon, <1>3 DEF vars, LocksInv, RequestLocks, RequestPins
  <2>4. QueueInv'
    <3>1. \A s \in Shards : Waiting(s)' = Waiting(s)
      BY Zenon, <1>3 DEF vars, Waiting, Where, Here
    <3> QED
      BY Zenon, <1>3, <3>1 DEF vars, LocksInv, QueueInv
  <2> QED
    BY <2>1, <2>2, <2>3, <2>4, SMTT(20) DEF LocksInv
<1> QED
  BY Zenon, <1>1, <1>2, <1>3, UpdaterEffects, OptimizerEffects
     DEF Next, RequestAct, UpdaterAct, OptimizerAct, Workers

\* The locks, the control points and the slots keep their types, and a generation
\* is never changed under a session that pinned it: who works under the drained
\* barrier shares it with no request, for any number of Shards, requests, update
\* workers and optimizer tasks and any order of the Shards.
THEOREM PinsExcludeChanges == Spec => [](TypeOK /\ PinExcludesChange)
<1>1. LocksInv => TypeOK /\ PinExcludesChange
  BY SMTT(20) DEF LocksInv, WorkerLocks, BarrierIsDrained, PinExcludesChange, Workers, DrainedPoints,
         BarrierPoints
<1> QED
  BY <1>1, InitLocks, NextKeepsLocks, PTL DEF Spec

-----------------------------------------------------------------------------
(* The session slots.                                                      *)

Kinds == {"reader", "coordinator"}

\* A request has no slot before it reserves one, and the reader's is the first.
SlotPoints ==
    \A r \in Requests :
        /\ pc[r] \in {"idle", "update_lock", "count", "reserve", "reserve_again"}
              => taken[r] = NoSlots
        /\ pc[r] \in {"coordinator", "coordinator_again"}
              => taken[r].coordinator = None

SlotsInv == LocksInv /\ SlotPoints /\ SlotsAreConserved

LEMMA HeldPairs ==
    ASSUME TypeOK, NEW m
    PROVE  /\ Held(m) \subseteq Requests \X Kinds
           /\ \A x \in Requests : \A k \in Kinds : <<x, k>> \in Held(m) <=> taken[x][k] = m
           /\ IsFiniteSet(Held(m)) /\ Cardinality(Held(m)) \in Nat
<1>1. Held(m) \subseteq Requests \X Kinds
  BY Zenon DEF Held, Kinds
<1>2. \A x \in Requests : \A k \in Kinds : <<x, k>> \in Held(m) <=> taken[x][k] = m
  BY Zenon DEF Held, Kinds
<1>3. IsFiniteSet(Kinds)
  <2>1. IsFiniteSet({"reader"}) /\ IsFiniteSet({"reader"} \cup {"coordinator"})
    BY Zenon, FS_Singleton, FS_AddElement
  <2>2. Kinds = {"reader"} \cup {"coordinator"}
    BY Zenon DEF Kinds
  <2> QED
    BY Zenon, <2>1, <2>2
<1>4. IsFiniteSet(Requests \X Kinds)
  BY Zenon, <1>3, LocksAssumption, FS_Product
<1>5. IsFiniteSet(Held(m))
  BY Zenon, <1>1, <1>4, FS_Subset
<1> QED
  BY Zenon, <1>1, <1>2, <1>5, FS_CardinalityType

One(x, m) == IF x = m THEN 1 ELSE 0

\* The slots of the other requests.
Others(r, m) == {h \in (Requests \ {r}) \X Kinds : taken[h[1]][h[2]] = m}

\* Those of r come on top.
LEMMA HeldCount ==
    ASSUME TypeOK, NEW r \in Requests, NEW m
    PROVE  /\ Cardinality(Others(r, m)) \in Nat
           /\ Cardinality(Held(m)) = Cardinality(Others(r, m)) + One(taken[r].reader, m)
                                                              + One(taken[r].coordinator, m)
<1> DEFINE a == <<r, "reader">>
           b == <<r, "coordinator">>
           H == Held(m)
           C == (H \ {a}) \ {b}
<1>1. /\ H = {h \in Requests \X Kinds : taken[h[1]][h[2]] = m}
      /\ IsFiniteSet(H) /\ Cardinality(H) \in Nat
      /\ a \in H <=> taken[r].reader = m
      /\ b \in H <=> taken[r].coordinator = m
  <2>1. H = {h \in Requests \X Kinds : taken[h[1]][h[2]] = m}
    BY Zenon DEF Held, Kinds
  <2>2. "reader" \in Kinds /\ "coordinator" \in Kinds
    BY Zenon DEF Kinds
  <2> QED
    BY Zenon, <2>1, <2>2, HeldPairs
<1> HIDE DEF H
<1>2. a # b
  BY Zenon
<1>3. C = Others(r, m)
  <2>1. ASSUME NEW h PROVE h \in C <=> h \in Others(r, m)
    <3>1. CASE h \in Requests \X Kinds
      <4>1. h = <<h[1], h[2]>> /\ h[1] \in Requests /\ h[2] \in Kinds
        BY <3>1
      <4> QED
        BY <1>1, <4>1 DEF Others, Kinds
    <3>2. CASE h \notin Requests \X Kinds
      <4>1. (Requests \ {r}) \X Kinds \subseteq Requests \X Kinds
        BY Zenon
      <4> QED
        BY Zenon, <1>1, <3>2, <4>1 DEF Others
    <3> QED
      BY Zenon, <3>1, <3>2
  <2> QED
    BY Zenon, <2>1
<1> HIDE DEF a, b
<1>4. /\ IsFiniteSet(H \ {a})
      /\ Cardinality(H \ {a}) = IF a \in H THEN Cardinality(H) - 1 ELSE Cardinality(H)
  BY <1>1, FS_RemoveElement
<1>5. /\ IsFiniteSet(C)
      /\ Cardinality(C) = IF b \in H \ {a} THEN Cardinality(H \ {a}) - 1 ELSE Cardinality(H \ {a})
  BY Zenon, <1>4, FS_RemoveElement
<1>6. b \in H \ {a} <=> b \in H
  BY Zenon, <1>2
<1>7. Cardinality(C) \in Nat
  BY Zenon, <1>5, FS_CardinalityType
<1> HIDE DEF C
<1>8. Cardinality(C) + One(taken[r].reader, m) + One(taken[r].coordinator, m) = Cardinality(H)
  BY <1>1, <1>4, <1>5, <1>6, <1>7 DEF One
<1> QED
  BY Zenon, <1>3, <1>7, <1>8 DEF H

\* What r gives back it had.
LEMMA GiveBackCount ==
    ASSUME TypeOK, NEW r \in Requests, NEW m \in Runtimes
    PROVE  /\ GiveBack(taken[r]) =>
                 slots'[m] = slots[m] + (One(taken[r].reader, m) + One(taken[r].coordinator, m))
           /\ GiveBack([reader |-> taken[r].reader]) =>
                 slots'[m] = slots[m] + One(taken[r].reader, m)
<1> DEFINE K == {k \in DOMAIN taken[r] : taken[r][k] = m}
           y == [reader |-> taken[r].reader]
           L == {k \in DOMAIN y : y[k] = m}
<1>0. slots[m] \in Nat
  BY Zenon DEF TypeOK, SlotTypes
<1>1. DOMAIN taken[r] = {"reader", "coordinator"}
  BY Zenon DEF TypeOK, SlotTypes
<1>2. Cardinality(K) = One(taken[r].reader, m) + One(taken[r].coordinator, m)
  <2>1. CASE taken[r].reader = m /\ taken[r].coordinator = m
    <3>1. K = {"reader"} \cup {"coordinator"}
      BY Zenon, <1>1, <2>1
    <3>2. /\ IsFiniteSet({"reader"}) /\ Cardinality({"reader"}) = 1
          /\ "coordinator" \notin {"reader"}
      BY FS_Singleton, Zenon
    <3>3. Cardinality({"reader"} \cup {"coordinator"}) = 1 + 1
      BY <3>2, FS_AddElement, Zenon
    <3> QED
      BY Zenon, <2>1, <3>1, <3>3 DEF One
  <2>2. CASE taken[r].reader = m /\ taken[r].coordinator # m
    <3>1. K = {"reader"}
      BY Zenon, <1>1, <2>2
    <3> QED
      BY <2>2, <3>1, FS_Singleton DEF One
  <2>3. CASE taken[r].reader # m /\ taken[r].coordinator = m
    <3>1. K = {"coordinator"}
      BY Zenon, <1>1, <2>3
    <3> QED
      BY <2>3, <3>1, FS_Singleton, SMTT(20) DEF One
  <2>4. CASE taken[r].reader # m /\ taken[r].coordinator # m
    <3>1. K = {}
      BY Zenon, <1>1, <2>4
    <3> QED
      BY <2>4, <3>1, FS_EmptySet DEF One
  <2> QED
    BY Zenon, <2>1, <2>2, <2>3, <2>4
<1>3. Cardinality(L) = One(taken[r].reader, m)
  <2>1. CASE taken[r].reader = m
    <3>1. L = {"reader"}
      BY <2>1
    <3> QED
      BY Zenon, <2>1, <3>1, FS_Singleton DEF One
  <2>2. CASE taken[r].reader # m
    <3>1. L = {}
      BY <2>2
    <3> QED
      BY Zenon, <2>2, <3>1, FS_EmptySet DEF One
  <2> QED
    BY Zenon, <2>1, <2>2
<1>4. GiveBack(taken[r]) => slots'[m] = slots[m] + Cardinality(K)
  BY Zenon DEF GiveBack
<1>5. GiveBack(y) => slots'[m] = slots[m] + Cardinality(L)
  BY Zenon DEF GiveBack
<1> QED
  BY Zenon, <1>2, <1>3, <1>4, <1>5

\* A step of r in which what the pool loses is what r gains keeps the sum.
LEMMA SlotsMove ==
    ASSUME TypeOK, TypeOK', SlotsAreConserved, NEW r \in Requests,
           \A x \in Requests \ {r} : taken'[x] = taken[x],
           \A m \in Runtimes :
              slots'[m] + (One(taken'[r].reader, m) + One(taken'[r].coordinator, m)) =
              slots[m] + (One(taken[r].reader, m) + One(taken[r].coordinator, m))
    PROVE  SlotsAreConserved'
<1> SUFFICES ASSUME NEW m \in Runtimes
             PROVE  slots'[m] + Cardinality(Held(m)') = SlotCapacity
  BY Zenon DEF SlotsAreConserved
<1> DEFINE c == Cardinality(Others(r, m))
           a == One(taken[r].reader, m)
           b == One(taken[r].coordinator, m)
           x == One(taken'[r].reader, m)
           y == One(taken'[r].coordinator, m)
<1>1. c \in Nat /\ Cardinality(Held(m)) = c + a + b
  BY Zenon, HeldCount
<1>2. Others(r, m)' = Others(r, m)
  BY Zenon DEF Others
<1>3. Cardinality(Held(m)') = c + x + y
  <2>1. (Cardinality(Held(m)) = Cardinality(Others(r, m)) + One(taken[r].reader, m)
                                                          + One(taken[r].coordinator, m))'
    BY HeldCount, PTL
  <2> QED
    BY Zenon, <1>2, <2>1
<1>4. a \in Nat /\ b \in Nat /\ x \in Nat /\ y \in Nat
  BY Zenon DEF One
<1>5. slots[m] \in Nat /\ slots'[m] \in Nat
  BY Zenon DEF TypeOK, SlotTypes
<1>6. slots[m] + Cardinality(Held(m)) = SlotCapacity
  BY Zenon DEF SlotsAreConserved
<1>7. slots'[m] + (x + y) = slots[m] + (a + b)
  BY Zenon
<1> HIDE DEF c, a, b, x, y
<1> QED
  BY <1>1, <1>3, <1>4, <1>5, <1>6, <1>7

LEMMA RequestKeepsSlots ==
    ASSUME SlotsInv, NEW r \in Requests, RequestAct(r), TypeOK'
    PROVE  SlotPoints' /\ SlotsAreConserved'
<1>0. /\ TypeOK /\ SlotsAreConserved /\ SlotTypes /\ SlotTypes' /\ LocksInv
      /\ pc[r] \in {"idle", "update_lock", "count", "reserve", "reserve_again"}
            => taken[r] = NoSlots
      /\ pc[r] \in {"coordinator", "coordinator_again"} => taken[r].coordinator = None
  BY Zenon DEF SlotsInv, LocksInv, TypeOK, SlotPoints
<1>1. /\ \A x \in Requests \ {r} : pc'[x] = pc[x]
      /\ pc \in [Threads -> RequestPoints \cup UpdaterPoints \cup OptimizerPoints]
      /\ r \in Threads
  BY Zenon, <1>0, RequestEffects, RequestOthers DEF TypeOK, PointTypes, Threads
<1>2. ASSUME \A x \in Requests \ {r} : taken'[x] = taken[x],
             /\ pc'[r] \in {"idle", "update_lock", "count", "reserve", "reserve_again"}
                   => taken'[r] = NoSlots
             /\ pc'[r] \in {"coordinator", "coordinator_again"}
                   => taken'[r].coordinator = None
      PROVE  SlotPoints'
  BY Zenon, <1>1, <1>2 DEF SlotsInv, SlotPoints
<1>3. /\ \A m \in Runtimes : m # None /\ One(None, m) = 0
      /\ NoSlots.reader = None /\ NoSlots.coordinator = None
      /\ taken \in [Requests -> [reader : Runtimes \cup {None},
                                 coordinator : Runtimes \cup {None}]]
      /\ slots \in [Runtimes -> Nat]
  BY Zenon, <1>0, LocksAssumption DEF One, NoSlots, SlotTypes
<1>4. ASSUME NEW n \in Runtimes, slots[n] > 0, slots' = [slots EXCEPT ![n] = @ - 1],
             NEW m \in Runtimes
      PROVE  slots'[m] + One(n, m) = slots[m]
  BY <1>3, <1>4 DEF One
<1>5. CASE ReserveReader(r)
  <2> PICK n \in Runtimes : /\ slots[n] > 0
                            /\ pc[r] \in {"reserve", "reserve_again"}
                            /\ pc'[r] \in {"coordinator", "coordinator_again"}
                            /\ slots' = [slots EXCEPT ![n] = @ - 1]
                            /\ taken' = [taken EXCEPT ![r].reader = n]
    BY <1>1, <1>5, Zenon DEF ReserveReader, Goto
  <2>1. /\ taken'[r].reader = n /\ taken'[r].coordinator = taken[r].coordinator
        /\ \A x \in Requests \ {r} : taken'[x] = taken[x]
    BY Zenon, <1>3
  <2>2. taken[r].reader = None /\ taken[r].coordinator = None
    BY Zenon, <1>0, <1>3
  <2>3. SlotPoints'
    BY Zenon, <1>2, <2>1, <2>2
  <2>4. ASSUME NEW m \in Runtimes
        PROVE  slots'[m] + (One(n, m) + One(None, m)) =
               slots[m] + (One(None, m) + One(None, m))
    <3>1. slots'[m] + One(n, m) = slots[m] /\ One(None, m) = 0 /\ slots[m] \in Nat
          /\ One(n, m) \in Nat
      BY Zenon, <1>3, <1>4 DEF One
    <3> QED
      BY <3>1
  <2> QED
    BY <1>0, <2>1, <2>2, <2>3, <2>4, SlotsMove
<1>6. CASE ReserveCoordinator(r)
  <2> DEFINE n == OtherRuntime(taken[r].reader)
  <2>0. n \in Runtimes
    BY Zenon, RuntimesDiffer
  <2> HIDE DEF n
  <2>1. /\ slots[n] > 0
        /\ pc[r] \in {"coordinator", "coordinator_again"}
        /\ pc'[r] = "pin"
        /\ slots' = [slots EXCEPT ![n] = @ - 1]
        /\ taken' = [taken EXCEPT ![r].coordinator = n]
    BY Zenon, <1>1, <1>6 DEF ReserveCoordinator, n
  <2>2. /\ taken'[r].reader = taken[r].reader /\ taken'[r].coordinator = n
        /\ \A x \in Requests \ {r} : taken'[x] = taken[x]
    BY Zenon, <1>3, <2>1
  <2>3. taken[r].coordinator = None
    BY Zenon, <1>0, <2>1
  <2>4. SlotPoints'
    BY Zenon, <1>2, <2>1, <2>2
  <2>5. ASSUME NEW m \in Runtimes
        PROVE  slots'[m] + (One(taken[r].reader, m) + One(n, m)) =
               slots[m] + (One(taken[r].reader, m) + One(None, m))
    <3>1. slots'[m] + One(n, m) = slots[m] /\ One(None, m) = 0 /\ slots'[m] \in Nat
          /\ One(n, m) \in Nat /\ One(taken[r].reader, m) \in Nat
      BY Zenon, <1>0, <1>3, <1>4, <2>0, <2>1 DEF One, SlotTypes
    <3> QED
      BY <3>1
  <2> QED
    BY Zenon, <1>0, <2>2, <2>3, <2>4, <2>5, SlotsMove
<1>7. CASE GiveBack(taken[r]) /\ taken' = [taken EXCEPT ![r] = NoSlots] /\ ~InTask(r)'
  <2>1. /\ taken'[r] = NoSlots
        /\ \A x \in Requests \ {r} : taken'[x] = taken[x]
    BY Zenon, <1>3, <1>7
  <2>2. SlotPoints'
    BY Zenon, <1>2, <1>3, <2>1
  <2>3. ASSUME NEW m \in Runtimes
        PROVE  slots'[m] + (One(None, m) + One(None, m)) =
               slots[m] + (One(taken[r].reader, m) + One(taken[r].coordinator, m))
    <3>1. /\ slots'[m] = slots[m] + (One(taken[r].reader, m) + One(taken[r].coordinator, m))
          /\ One(None, m) = 0 /\ slots'[m] \in Nat
      BY <1>0, <1>3, <1>7, GiveBackCount, Zenon DEF SlotTypes
    <3> QED
      BY <3>1
  <2> QED
    BY Zenon, <1>0, <1>3, <2>1, <2>2, <2>3, SlotsMove
<1>8. CASE TimeOut(r)
  <2>1. /\ pc[r] \in {"pin", "clone", "execute"} /\ pc' = pc
        /\ GiveBack([reader |-> taken[r].reader])
        /\ taken' = [taken EXCEPT ![r].reader = None]
    BY Zenon, <1>8 DEF TimeOut, InTask
  <2>2. /\ taken'[r].reader = None /\ taken'[r].coordinator = taken[r].coordinator
        /\ \A x \in Requests \ {r} : taken'[x] = taken[x]
    BY Zenon, <1>3, <2>1
  <2>3. SlotPoints'
    BY Zenon, <1>2, <2>1, <2>2
  <2>4. ASSUME NEW m \in Runtimes
        PROVE  slots'[m] + (One(None, m) + One(taken[r].coordinator, m)) =
               slots[m] + (One(taken[r].reader, m) + One(taken[r].coordinator, m))
    <3>1. /\ slots'[m] = slots[m] + One(taken[r].reader, m)
          /\ One(None, m) = 0 /\ slots[m] \in Nat
          /\ One(taken[r].reader, m) \in Nat /\ One(taken[r].coordinator, m) \in Nat
      BY Zenon, <1>0, <1>3, <2>1, GiveBackCount DEF One
    <3> QED
      BY <3>1
  <2> QED
    BY Zenon, <1>0, <2>2, <2>3, <2>4, SlotsMove
<1>9. CASE /\ UNCHANGED reservation
           /\ pc'[r] \in {"idle", "update_lock", "count", "reserve", "reserve_again"}
                 => pc[r] \in {"idle", "update_lock", "count", "reserve", "reserve_again"}
           /\ pc'[r] \notin {"coordinator", "coordinator_again"}
  <2>1. slots' = slots /\ taken' = taken
    BY Zenon, <1>9 DEF reservation
  <2>2. SlotPoints'
    BY Zenon, <1>0, <1>2, <1>9, <2>1
  <2>3. SlotsAreConserved'
    BY Zenon, <1>0, <2>1 DEF SlotsAreConserved, Held
  <2> QED
    BY Zenon, <2>2, <2>3
<1>10. CASE \/ RequestUpdateLock(r) \/ GetUpdateLock(r) \/ CountSegments(r) \/ Pin(r)
            \/ CloneHandles(r) \/ DropRequest(r)
  <2>1. UNCHANGED reservation
    BY Zenon, <1>10 DEF RequestUpdateLock, GetUpdateLock, CountSegments, Pin, CloneHandles,
                 DropRequest
  <2>2. /\ pc'[r] \in {"idle", "update_lock", "count", "reserve", "reserve_again"}
              => pc[r] \in {"idle", "update_lock", "count", "reserve", "reserve_again"}
        /\ pc'[r] \notin {"coordinator", "coordinator_again"}
    BY Zenon, <1>1, <1>10 DEF RequestUpdateLock, GetUpdateLock, CountSegments, Pin, CloneHandles,
                 DropRequest, Goto
  <2> QED
    BY Zenon, <1>9, <2>1, <2>2
<1>11. CASE TryOtherWay(r) \/ RefuseReservation(r) \/ FinishTask(r)
  <2>1. GiveBack(taken[r]) /\ taken' = [taken EXCEPT ![r] = NoSlots]
    BY Zenon, <1>11 DEF TryOtherWay, RefuseReservation, FinishTask
  <2>2. ~InTask(r)'
    BY Zenon, <1>1, <1>11 DEF TryOtherWay, RefuseReservation, FinishTask, Goto, InTask
  <2> QED
    BY Zenon, <1>7, <2>1, <2>2
<1> QED
  BY Zenon, <1>5, <1>6, <1>8, <1>10, <1>11 DEF RequestAct, RequestStep

LEMMA NextKeepsSlots == SlotsInv /\ [Next]_vars => SlotsInv'
<1> SUFFICES ASSUME SlotsInv, [Next]_vars PROVE SlotsInv'
  BY Zenon
<1>0. LocksInv /\ LocksInv' /\ TypeOK'
  BY Zenon, NextKeepsLocks DEF SlotsInv, LocksInv
<1>1. ASSUME NEW r \in Requests, RequestAct(r) PROVE SlotPoints' /\ SlotsAreConserved'
  BY Zenon, <1>0, <1>1, RequestKeepsSlots
<1>2. ASSUME \A r \in Requests : pc'[r] = pc[r], slots' = slots, taken' = taken
      PROVE  SlotPoints' /\ SlotsAreConserved'
  BY Zenon, <1>2 DEF SlotsInv, SlotPoints, SlotsAreConserved, Held
<1>3. ASSUME NEW w \in Workers, WorkerEffect(w) PROVE SlotPoints' /\ SlotsAreConserved'
  BY Zenon, <1>0, <1>2, <1>3, WorkerOthers
<1>4. CASE UNCHANGED vars
  <2>1. pc' = pc /\ slots' = slots /\ taken' = taken
    BY Zenon, <1>4 DEF vars
  <2>2. \A r \in Requests : pc'[r] = pc[r]
    BY Zenon, <2>1
  <2> QED
    BY Zenon, <1>0, <1>2, <2>1, <2>2 DEF SlotsInv
<1> QED
  BY Zenon, <1>0, <1>1, <1>3, <1>4, UpdaterEffects, OptimizerEffects
     DEF Next, RequestAct, UpdaterAct, OptimizerAct, Workers, SlotsInv

\* No slot is lost or given back twice: whether a request is refused, dropped,
\* timed out or finished, the free slots of a runtime and the ones requests have
\* add up to its capacity, for any number of requests and any capacity.
THEOREM SlotsAddUp == Spec => []SlotsAreConserved
<1>1. Init => SlotsInv
  <2> SUFFICES ASSUME Init PROVE SlotPoints /\ SlotsAreConserved
    BY Zenon, InitLocks DEF SlotsInv
  <2>1. SlotPoints
    BY Zenon, LocksAssumption DEF Init, SlotPoints, NoSlots, Threads
  <2>2. SlotsAreConserved
    <3> SUFFICES ASSUME NEW m \in Runtimes
                 PROVE  slots[m] + Cardinality(Held(m)) = SlotCapacity
      BY Zenon DEF SlotsAreConserved
    <3>1. /\ slots[m] = SlotCapacity /\ m # None
          /\ \A x \in Requests : taken[x].reader = None /\ taken[x].coordinator = None
      BY Zenon, LocksAssumption DEF Init, NoSlots
    <3>2. Held(m) = {}
      BY Zenon, <3>1 DEF Held
    <3>3. Cardinality(Held(m)) = 0
      BY Zenon, <3>2, FS_EmptySet
    <3> QED
      BY <3>1, <3>3, LocksAssumption
  <2> QED
    BY Zenon, <2>1, <2>2
<1>2. SlotsInv => SlotsAreConserved
  BY Zenon DEF SlotsInv
<1> QED
  BY <1>1, <1>2, NextKeepsSlots, PTL DEF Spec

-----------------------------------------------------------------------------
(* The order of the locks.                                                 *)

\* rank orders the Shards as the lists of all requests of R do.
Follows(R, rank) ==
    \A r \in R : \A i, k \in 1 .. Len(Order[r]) :
        i < k => rank[Order[r][i]] < rank[Order[r][k]]

\* How far a thread that does not wait for an update lock is from going on:
\* who blocks it is nearer.  A request that pins Shard after Shard is nearer the
\* later its Shard is in the order that the requests of the circle share.
Height(t, n, rank) ==
    LET rest == 2 * (n - rank[Here(t)])
    IN  CASE pc[t] \in HolderPoints -> 1
          [] pc[t] \in {"count", "clone", "replace", "drain"} -> 2
          [] pc[t] \in {"finish_drain", "rollback_drain"} -> 3 + rest
          [] pc[t] = "pin" -> 4 + rest
          [] pc[t] \in {"barrier", "finish_barrier", "rollback"} -> 5 + 2 * n
          [] pc[t] = "record" -> 6 + 2 * n
          [] OTHER -> 0

LEMMA Heights ==
    ASSUME NEW n, NEW rank, NEW t
    PROVE  /\ pc[t] \in HolderPoints => Height(t, n, rank) = 1
           /\ pc[t] \in {"count", "clone", "replace", "drain"} => Height(t, n, rank) = 2
           /\ pc[t] \in {"finish_drain", "rollback_drain"} =>
                 Height(t, n, rank) = 3 + 2 * (n - rank[Here(t)])
           /\ pc[t] = "pin" => Height(t, n, rank) = 4 + 2 * (n - rank[Here(t)])
           /\ pc[t] \in {"barrier", "finish_barrier", "rollback"} =>
                 Height(t, n, rank) = 5 + 2 * n
           /\ pc[t] = "record" => Height(t, n, rank) = 6 + 2 * n
           /\ pc[t] \in {"apply", "wrap", "execute"} => Height(t, n, rank) = 0
BY Zenon DEF Height, HolderPoints

\* Every nonempty set of numbers has a least one.
LEMMA LeastNumber ==
    ASSUME NEW T \in SUBSET Nat, T # {}
    PROVE  \E x \in T : \A y \in T : x <= y
<1>1. PICK x \in T : \A y \in T : ~(<<y, x>> \in OpToRel(<, Nat))
  BY NatLessThanWellFounded, WFMin, Zenon
<1>2. ASSUME NEW y \in T PROVE x <= y
  <2>1. x \in Nat /\ y \in Nat /\ <<y, x>> \in Nat \X Nat
    BY Zenon
  <2>2. ~(y < x)
    BY Zenon, <1>1, <2>1 DEF OpToRel
  <2> QED
    BY <2>1, <2>2
<1> QED
  BY Zenon, <1>2

\* What blocks a thread of D that does not wait for an update lock.
LEMMA BlockersDescend ==
    ASSUME LocksInv, NEW D \in SUBSET Threads, ~PublishMeetsRollback(D),
           NEW n \in Nat, NEW rank \in [Shards -> 0 .. n], Follows(D \cap Requests, rank),
           NEW t \in D, pc[t] # "update_lock", NEW x \in Blockers(t), x \in D
    PROVE  /\ pc[x] # "update_lock"
           /\ Height(x, n, rank) < Height(t, n, rank)
<1> DEFINE s == Here(t)
           b == barrier[s]
           h == holder[s]
           H(y) == Height(y, n, rank)
<1>0. /\ TypeOK /\ LockTypes /\ PointTypes /\ WorkerLocks
      /\ RequestPins /\ RequestLocks /\ UpdateLockExcludes
  BY Zenon DEF LocksInv, TypeOK
<1>1. \A y \in Workers : y \in Threads /\ y # None /\ y \notin Requests /\ Here(y) = ShardOf[y]
  BY Zenon, LocksAssumption DEF Workers, Threads, Here
<1>2. s \in Shards /\ (t \in Workers => ShardOf[t] = s) /\ (t \in Requests \/ t \in Workers)
  <2>1. t \in Requests \/ t \in Workers
    BY Zenon DEF Threads, Workers
  <2>2. CASE t \in Requests
    BY Zenon, <1>0, <1>1, <2>2, PositionInOrder
  <2>3. CASE t \in Workers
    BY <1>1, <2>3, OwnLocks
  <2> QED
    BY Zenon, <2>1, <2>2, <2>3
<1>3. /\ b.writer \in Workers \cup {None} /\ b.readers \subseteq Requests
      /\ h.writer \in Workers \cup {None} /\ h.readers \subseteq Workers
      /\ h.upgradable \in Optimizers \cup {None}
  BY Zenon, <1>0, <1>2 DEF LockTypes, GenerationBarrier, HolderLock, Workers
<1>4. rank[s] \in 0 .. n
  BY Zenon, <1>2
\* The owners of the holder's write lock wait for its readers only.
<1>5. ASSUME x \in {h.writer} \ {None}
      PROVE  pc[x] \in HolderPoints /\ pc[x] # "update_lock" /\ H(x) = 1
  <2>1. x \in Workers /\ holder[s].writer = x
    BY Zenon, <1>3, <1>5
  <2>2. pc[x] \in HolderPoints
    BY Zenon, <1>0, <1>2, <2>1 DEF WorkerLocks
  <2>3. pc[x] # "update_lock"
    BY Zenon, <2>2 DEF HolderPoints
  <2> QED
    BY Zenon, <2>2, <2>3, Heights
\* The owner of the barrier has its bit and is at most draining it.
<1>6. ASSUME x \in {b.writer} \ {None}
      PROVE  /\ pc[x] # "update_lock"
             /\ H(x) \in {0, 1, 2, 3 + 2 * (n - rank[s])}
  <2>1. x \in Workers /\ barrier[s].writer = x
    BY Zenon, <1>3, <1>6
  <2>2. pc[x] \in BarrierPoints /\ ShardOf[x] = s /\ Here(x) = s
    BY <1>0, <1>1, <1>2, <2>1 DEF WorkerLocks
  <2>3. pc[x] # "update_lock"
    BY Zenon, <2>2 DEF BarrierPoints
  <2>4. /\ pc[x] \in {"apply", "wrap", "execute"} => H(x) = 0
        /\ pc[x] \in HolderPoints => H(x) = 1
        /\ pc[x] \in {"count", "clone", "replace", "drain"} => H(x) = 2
        /\ pc[x] \in {"finish_drain", "rollback_drain"} => H(x) = 3 + 2 * (n - rank[s])
    BY <2>2, Heights
  <2> HIDE DEF H, s
  <2> QED
    BY Zenon, <2>2, <2>3, <2>4 DEF BarrierPoints, HolderPoints
\* Who has pinned the generation is at a later Shard, or pins no more.
<1>7. ASSUME x \in b.readers
      PROVE  /\ x \in Requests /\ pc[x] \in {"execute", "pin", "clone"}
             /\ pc[x] = "execute" => H(x) = 0
             /\ pc[x] = "clone" => H(x) = 2 /\ x \in update_op[s].readers
             /\ pc[x] = "pin" => /\ x \in update_op[s].readers
                                 /\ H(x) \in Nat /\ H(x) < 3 + 2 * (n - rank[s])
  <2>1. x \in Requests /\ x \in barrier[s].readers
    BY Zenon, <1>3, <1>7
  <2>2. \/ pc[x] = "execute"
        \/ pc[x] = "pin" /\ \E i \in 1 .. at[x] - 1 : Order[x][i] = s
        \/ pc[x] = "clone" /\ \E i \in 1 .. at[x] : Order[x][i] = s
    BY <1>0, <1>2, <2>1 DEF RequestPins
  <2>3. /\ Len(Order[x]) \in Nat /\ at[x] \in 1 .. Len(Order[x])
        /\ Here(x) = Order[x][at[x]] /\ Here(x) \in Shards
    BY Zenon, <1>0, <2>1, PositionInOrder
  <2>4. pc[x] \in {"pin", "clone"} => \E i \in 1 .. Len(Order[x]) : Order[x][i] = s
    BY <2>2, <2>3
  <2>5. pc[x] \in {"pin", "clone"} => x \in update_op[s].readers
    BY Zenon, <1>0, <2>1, <2>4 DEF RequestLocks, LockedPoints
  <2>6. ASSUME pc[x] = "pin"
        PROVE  H(x) \in Nat /\ H(x) < 3 + 2 * (n - rank[s])
    <3>1. PICK i \in 1 .. at[x] - 1 : Order[x][i] = s
      BY Zenon, <2>2, <2>6
    <3>2. i \in 1 .. Len(Order[x]) /\ i < at[x]
      BY <2>3
    <3>3. rank[s] < rank[Here(x)]
      BY Zenon, <2>1, <2>3, <3>1, <3>2 DEF Follows
    <3>4. rank[Here(x)] \in 0 .. n
      BY Zenon, <2>3
    <3>5. H(x) = 4 + 2 * (n - rank[Here(x)])
      BY <2>6, Heights
    <3> HIDE DEF H
    <3> QED
      BY <1>4, <3>3, <3>4, <3>5
  <2> QED
    BY Zenon, <2>1, <2>2, <2>5, <2>6, Heights
<1>8. /\ pc[t] \in {"pin", "barrier", "finish_barrier", "rollback"} => x \in {b.writer} \ {None}
      /\ pc[t] \in {"drain", "finish_drain", "rollback_drain"} =>
            x \in b.readers \/ x \in {h.writer} \ {None}
      /\ pc[t] \in {"count", "clone"} => x \in {h.writer} \ {None}
      /\ pc[t] \in {"replace", "record"} =>
            x \in {h.upgradable} \ {None} \/ x \in {h.writer} \ {None}
      /\ pc[t] \in HolderPoints => x \in h.readers
      /\ pc[t] \in {"pin", "barrier", "finish_barrier", "rollback", "drain", "finish_drain",
                    "rollback_drain", "count", "clone", "replace", "record"} \cup HolderPoints
  BY Zenon DEF Blockers, HolderPoints
<1>9. CASE pc[t] \in HolderPoints
  <2>1. x \in holder[s].readers /\ x \in Workers
    BY Zenon, <1>3, <1>8, <1>9
  <2>2. pc[x] = "apply"
    BY Zenon, <1>0, <1>2, <2>1 DEF WorkerLocks
  <2>3. H(x) = 0 /\ H(t) = 1
    BY Zenon, <1>9, <2>2, Heights
  <2> QED
    BY <2>2, <2>3
<1>10. CASE pc[t] \in {"count", "clone"}
  <2>1. H(t) = 2
    BY Zenon, <1>10, Heights
  <2> QED
    BY <1>5, <1>8, <1>10, <2>1
<1>11. CASE pc[t] \in {"replace", "record"}
  <2>1. ASSUME x \in {h.upgradable} \ {None}
        PROVE  /\ pc[x] # "update_lock"
               /\ pc[t] = "replace" => H(x) = 0
               /\ H(x) \in {0, 5 + 2 * n, 3 + 2 * (n - rank[s])}
    <3>1. x \in Optimizers /\ x \in Workers /\ holder[s].upgradable = x
      BY Zenon, <1>3, <2>1 DEF Workers
    <3>2. pc[x] \in UpgradablePoints /\ ShardOf[x] = s /\ Here(x) = s
      BY <1>0, <1>1, <1>2, <3>1 DEF WorkerLocks
    \* A publisher that has the barrier too would share it with the rollback,
    \* and one that waits for it is the case left out.
    <3>3. ASSUME pc[t] = "replace" PROVE pc[x] = "wrap"
      <4>1. t \in Optimizers /\ t \in Workers
        BY Zenon, <1>0, <3>3 DEF PointTypes, RequestPoints, UpdaterPoints, Threads, Workers
      <4>2. ShardOf[t] = s /\ barrier[s].writer = t
        BY Zenon, <1>0, <1>2, <3>3, <4>1 DEF WorkerLocks, BarrierPoints
      <4>3. pc[x] # "finish_barrier"
        BY Zenon, <3>1, <3>2, <3>3, <4>1, <4>2 DEF PublishMeetsRollback
      <4>4. ASSUME pc[x] = "finish_drain" PROVE FALSE
        <5>1. barrier[s].writer = x
          BY Zenon, <1>0, <1>2, <3>1, <3>2, <4>4 DEF WorkerLocks, BarrierPoints
        <5> QED
          BY Zenon, <3>3, <4>2, <4>4, <5>1
      <4> QED
        BY Zenon, <3>2, <4>3, <4>4 DEF UpgradablePoints
    <3>4. /\ pc[x] = "wrap" => H(x) = 0
          /\ pc[x] = "finish_barrier" => H(x) = 5 + 2 * n
          /\ pc[x] = "finish_drain" => H(x) = 3 + 2 * (n - rank[s])
      BY <3>2, Heights
    <3> HIDE DEF H, s
    <3> QED
      BY Zenon, <3>2, <3>3, <3>4 DEF UpgradablePoints
  <2>2. /\ pc[t] = "replace" => H(t) = 2
        /\ pc[t] = "record" => H(t) = 6 + 2 * n
    BY Heights
  <2>3. CASE x \in {h.writer} \ {None}
    <3>1. pc[x] # "update_lock" /\ H(x) = 1
      BY Zenon, <1>5, <2>3
    <3> HIDE DEF H
    <3> QED
      BY <1>11, <2>2, <3>1 DEF H
  <2>4. CASE x \in {h.upgradable} \ {None}
    <3>1. /\ pc[x] # "update_lock"
          /\ pc[t] = "replace" => H(t) = 2 /\ H(x) = 0
          /\ pc[t] = "record" => H(t) = 6 + 2 * n
          /\ H(x) \in {0, 5 + 2 * n, 3 + 2 * (n - rank[s])}
      BY Zenon, <2>1, <2>2, <2>4
    <3> HIDE DEF H, s
    <3>2. H(x) < H(t)
      BY <1>4, <1>11, <3>1
    <3> QED
      BY Zenon, <3>1, <3>2 DEF H
  <2> QED
    BY Zenon, <1>8, <1>11, <2>3, <2>4
<1>12. CASE pc[t] \in {"pin", "barrier", "finish_barrier", "rollback"}
  <2>1. /\ pc[x] # "update_lock"
        /\ H(x) \in {0, 1, 2, 3 + 2 * (n - rank[s])}
    BY Zenon, <1>6, <1>8, <1>12
  <2>2. H(t) \in {4 + 2 * (n - rank[s]), 5 + 2 * n}
    BY <1>12, Heights
  <2> HIDE DEF H, s
  <2>3. H(x) < H(t)
    BY <1>4, <2>1, <2>2
  <2> QED
    BY Zenon, <2>1, <2>3 DEF H
<1>13. CASE pc[t] \in {"drain", "finish_drain", "rollback_drain"}
  <2>1. /\ pc[t] = "drain" => H(t) = 2
        /\ pc[t] # "drain" => H(t) = 3 + 2 * (n - rank[s])
    BY <1>13, Heights
  <2>2. CASE x \in {h.writer} \ {None}
    <3>1. pc[x] # "update_lock" /\ H(x) = 1
      BY Zenon, <1>5, <2>2
    <3> HIDE DEF H, s
    <3>2. H(x) < H(t)
      BY <1>4, <2>1, <3>1
    <3> QED
      BY Zenon, <3>1, <3>2 DEF H
  \* An update worker has the update lock: no request that can still pin or
  \* clone is inside.
  <2>3. CASE x \in b.readers
    <3>1. /\ pc[x] \in {"execute", "pin", "clone"}
          /\ pc[x] = "execute" => H(x) = 0
          /\ pc[x] = "clone" => H(x) = 2 /\ x \in update_op[s].readers
          /\ pc[x] = "pin" => /\ x \in update_op[s].readers
                              /\ H(x) \in Nat /\ H(x) < 3 + 2 * (n - rank[s])
      BY Zenon, <1>7, <2>3
    <3>2. pc[t] = "drain" => update_op[s].readers = {}
      <4>1. SUFFICES ASSUME pc[t] = "drain" PROVE update_op[s].readers = {}
        BY Zenon
      <4>2. t \in Workers
        BY Zenon, <1>0, <1>2, <4>1 DEF PointTypes, RequestPoints
      <4>3. update_op[s].writer = t /\ t # None
        BY <1>0, <1>1, <1>2, <4>1, <4>2, SMTT(20) DEF WorkerLocks
      <4> QED
        BY Zenon, <1>0, <1>2, <4>3 DEF UpdateLockExcludes
    <3> HIDE DEF H, s
    <3>3. H(x) < H(t)
      BY <1>4, <1>13, <2>1, <3>1, <3>2
    <3> QED
      BY Zenon, <3>1, <3>3 DEF H
  <2> QED
    BY Zenon, <1>8, <1>13, <2>2, <2>3
<1> QED
  BY <1>8, <1>9, <1>10, <1>11, <1>12, <1>13

LEMMA HeightType ==
    ASSUME LocksInv, NEW n \in Nat, NEW rank \in [Shards -> 0 .. n], NEW t \in Threads
    PROVE  Height(t, n, rank) \in Nat
<1>1. Here(t) \in Shards
  <2>1. CASE t \in Requests
    BY Zenon, <2>1, PositionInOrder DEF LocksInv
  <2>2. CASE t \in Workers
    BY Zenon, <2>2, OwnLocks, LocksAssumption DEF Here, Workers
  <2> QED
    BY Zenon, <2>1, <2>2 DEF Threads, Workers
<1>2. rank[Here(t)] \in 0 .. n
  BY Zenon, <1>1
<1> DEFINE z == 2 * (n - rank[Here(t)])
<1>3. z \in Nat
  BY <1>2
<1>4. Height(t, n, rank) = CASE pc[t] \in HolderPoints -> 1
          [] pc[t] \in {"count", "clone", "replace", "drain"} -> 2
          [] pc[t] \in {"finish_drain", "rollback_drain"} -> 3 + z
          [] pc[t] = "pin" -> 4 + z
          [] pc[t] \in {"barrier", "finish_barrier", "rollback"} -> 5 + 2 * n
          [] pc[t] = "record" -> 6 + 2 * n
          [] OTHER -> 0
  BY Zenon DEF Height
<1> HIDE DEF z
<1> QED
  BY <1>3, <1>4

\* If nobody waits for anything but update locks, the first in the queue of the
\* last Shard waits for none of them.
LEMMA FirstOfLastShard ==
    ASSUME LocksInv, NEW n \in Nat, NEW rank \in [Shards -> 0 .. n],
           NEW D \in SUBSET Threads, D # {}, Follows(D \cap Requests, rank),
           \A t \in D : pc[t] = "update_lock"
    PROVE  \E t \in D : Blockers(t) \cap D = {}
<1>0. /\ TypeOK /\ LockTypes /\ PointTypes /\ WorkerLocks /\ RequestLocks /\ QueueInv
  BY Zenon DEF LocksInv, TypeOK
<1>1. \A t \in D : /\ t \in Requests \cup Updaters /\ Here(t) \in Shards
                   /\ t \in Waiting(Here(t)) /\ t \in Threads
  <2> SUFFICES ASSUME NEW t \in D
               PROVE  /\ t \in Requests \cup Updaters /\ Here(t) \in Shards
                      /\ t \in Waiting(Here(t)) /\ t \in Threads
    BY Zenon
  <2>1. t \in Threads /\ pc[t] = "update_lock"
    BY Zenon
  <2>2. t \in Requests \cup Updaters
    BY Zenon, <1>0, <2>1 DEF PointTypes, OptimizerPoints, Threads
  <2>3. Here(t) \in Shards
    <3>1. CASE t \in Requests
      BY Zenon, <1>0, <3>1, PositionInOrder
    <3>2. CASE t \in Updaters /\ t \notin Requests
      BY Zenon, <3>2, LocksAssumption DEF Here
    <3> QED
      BY Zenon, <2>2, <3>1, <3>2
  <2>4. Where[t] = Here(t)
    BY Zenon, <2>1 DEF Where
  <2> QED
    BY Zenon, <2>1, <2>2, <2>3, <2>4 DEF Waiting
<1> DEFINE F == {n - rank[Here(t)] : t \in D}
<1>2. F \in SUBSET Nat /\ F # {}
  <2>1. \A t \in D : n - rank[Here(t)] \in Nat
    BY <1>1
  <2> QED
    BY Zenon, <2>1
<1>3. PICK f \in F : \A g \in F : f <= g
  BY <1>2, LeastNumber, Zenon
<1>4. PICK a \in D : f = n - rank[Here(a)]
  BY Zenon
<1> DEFINE s == Here(a)
           q == update_op[s].queue
<1>5. s \in Shards /\ \A t \in D : rank[Here(t)] <= rank[s]
  <2>1. ASSUME NEW t \in D PROVE rank[Here(t)] <= rank[s]
    <3>1. n - rank[s] <= n - rank[Here(t)]
      BY Zenon, <1>3, <1>4
    <3>2. rank[s] \in 0 .. n /\ rank[Here(t)] \in 0 .. n
      BY Zenon, <1>1
    <3> QED
      BY <3>1, <3>2
  <2> QED
    BY Zenon, <1>1, <2>1
<1> HIDE DEF s
<1>6. q \in Seq(Requests \cup Updaters) /\ Len(q) \in Nat /\ DOMAIN q = 1 .. Len(q)
  BY <1>0, <1>5 DEF LockTypes, UpdateLock
<1>7. Standing(q) = Waiting(s)
  BY Zenon, <1>0, <1>5 DEF QueueInv
<1> DEFINE P == {i \in 1 .. Len(q) : q[i] \in D}
<1>8. P \in SUBSET Nat /\ P # {}
  <2>1. a \in Standing(q)
    BY Zenon, <1>1, <1>7 DEF s
  <2>2. PICK i \in 1 .. Len(q) : q[i] = a
    BY Zenon, <2>1 DEF Standing
  <2> QED
    BY <1>6, <2>2
<1>9. PICK j \in P : \A i \in P : j <= i
  BY <1>8, LeastNumber, Zenon
<1> DEFINE t == q[j]
<1>10. t \in D /\ j \in 1 .. Len(q) /\ pc[t] = "update_lock"
  BY Zenon, <1>9
<1>11. Here(t) = s /\ t \in Threads
  <2>1. t \in Waiting(s)
    BY Zenon, <1>7, <1>10 DEF Standing
  <2> QED
    BY Zenon, <1>10, <2>1 DEF Waiting, Where
<1>12. ASSUME NEW y \in Blockers(t), y \in D PROVE FALSE
  <2>1. \/ y \in Ahead(q, t)
        \/ y = update_op[s].writer /\ y # None
        \/ y \in update_op[s].readers
    BY Zenon, <1>10, <1>11, <1>12 DEF Blockers
  <2>2. CASE y \in Ahead(q, t)
    <3>1. PICK i \in 1 .. Len(q) : y = q[i] /\ \A k \in 1 .. i : q[k] # t
      BY Zenon, <1>6, <2>2 DEF Ahead
    <3>2. i \in P
      BY Zenon, <1>12, <3>1
    <3>3. j <= i
      BY Zenon, <1>9, <3>2
    <3>4. j \in 1 .. i
      BY <1>6, <1>10, <3>3
    <3> QED
      BY Zenon, <3>1, <3>4
  <2>3. CASE y = update_op[s].writer /\ y # None
    <3>1. y \in Workers
      BY Zenon, <1>0, <1>5, <2>3 DEF LockTypes, UpdateLock, Workers
    <3>2. pc[y] \in {"barrier", "drain", "apply"}
      BY <1>0, <1>5, <2>3, <3>1 DEF WorkerLocks
    <3> QED
      BY Zenon, <1>12, <3>2
  <2>4. CASE y \in update_op[s].readers
    <3>1. y \in Requests
      BY Zenon, <1>0, <1>5, <2>4 DEF LockTypes, UpdateLock
    <3>2. pc[y] = "update_lock"
      BY Zenon, <1>12
    <3>3. \E i \in 1 .. at[y] - 1 : Order[y][i] = s
      BY <1>0, <1>5, <2>4, <3>1, <3>2, SMTT(20) DEF RequestLocks, LockedPoints
    <3>4. PICK i \in 1 .. at[y] - 1 : Order[y][i] = s
      BY Zenon, <3>3
    <3>5. /\ Len(Order[y]) \in Nat /\ at[y] \in 1 .. Len(Order[y])
          /\ Here(y) = Order[y][at[y]] /\ Here(y) \in Shards
      BY Zenon, <1>0, <3>1, PositionInOrder
    <3>6. i \in 1 .. Len(Order[y]) /\ i < at[y]
      BY <3>5
    <3>7. rank[s] < rank[Here(y)]
      BY Zenon, <1>12, <3>1, <3>4, <3>5, <3>6 DEF Follows
    <3>8. rank[Here(y)] <= rank[s] /\ rank[s] \in 0 .. n /\ rank[Here(y)] \in 0 .. n
      BY Zenon, <1>5, <1>12, <3>5
    <3> QED
      BY <3>7, <3>8
  <2> QED
    BY Zenon, <2>1, <2>2, <2>3, <2>4
<1> QED
  BY Zenon, <1>10, <1>12

\* Threads wait in a circle for two reasons only: the clients of its requests
\* list the Shards in orders that contradict each other, or two optimizer tasks
\* of one Shard meet, one publishing and one rolling back.  For any number of
\* Shards, requests, update workers and optimizer tasks.
THEOREM NobodyWaitsInACircleWithoutCause == Spec => []CirclesHaveACause
<1>1. ASSUME LocksInv PROVE CirclesHaveACause
  <2> SUFFICES ASSUME NEW D \in SUBSET Threads, D # {},
                      ~PublishMeetsRollback(D), InOneOrder(D \cap Requests)
               PROVE  \E t \in D : Blockers(t) \cap D = {}
    BY Zenon DEF CirclesHaveACause, Circle, Blocked
  <2> DEFINE n == Cardinality(Shards)
  <2>0. n \in Nat
    BY Zenon, FS_CardinalityType, LocksAssumption
  <2>1. PICK rank \in [Shards -> 1 .. n] : Follows(D \cap Requests, rank)
    BY Zenon DEF InOneOrder, Follows
  <2> HIDE DEF n
  <2>2. rank \in [Shards -> 0 .. n]
    BY <2>0
  <2>3. CASE \A t \in D : pc[t] = "update_lock"
    BY Zenon, <1>1, <2>0, <2>1, <2>2, <2>3, FirstOfLastShard
  <2>4. CASE \E t \in D : pc[t] # "update_lock"
    <3> DEFINE E == {t \in D : pc[t] # "update_lock"}
               F == {Height(t, n, rank) : t \in E}
    <3>1. F \in SUBSET Nat /\ F # {}
      BY Zenon, <1>1, <2>0, <2>2, <2>4, HeightType
    <3>2. PICK f \in F : \A g \in F : f <= g
      BY <3>1, LeastNumber, Zenon
    <3>3. PICK t \in E : f = Height(t, n, rank)
      BY Zenon
    <3>4. ASSUME NEW x \in Blockers(t), x \in D PROVE FALSE
      <4>1. pc[x] # "update_lock" /\ Height(x, n, rank) < Height(t, n, rank)
        BY Zenon, <1>1, <2>0, <2>1, <2>2, <3>3, <3>4, BlockersDescend
      <4>2. Height(x, n, rank) \in F
        BY Zenon, <3>4, <4>1
      <4>3. Height(t, n, rank) <= Height(x, n, rank)
        BY Zenon, <3>2, <3>3, <4>2
      <4>4. Height(x, n, rank) \in Nat /\ Height(t, n, rank) \in Nat
        BY Zenon, <3>1, <3>3, <4>2
      <4> QED
        BY <4>1, <4>3, <4>4
    <3> QED
      BY Zenon, <3>3, <3>4
  <2> QED
    BY Zenon, <2>3, <2>4
<1>2. LocksInv => CirclesHaveACause
  BY Zenon, <1>1
<1> QED
  BY <1>2, InitLocks, NextKeepsLocks, PTL DEF Spec
=============================================================================
