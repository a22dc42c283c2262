-------------------------- MODULE LockSteps_proofs --------------------------
(***************************************************************************)
(* The inductive invariant that says who has which lock, what every step   *)
(* of a worker and of a request does to the locks, and that it keeps the   *)
(* invariant.                                                              *)
(***************************************************************************)
EXTENDS ExactRequestLocks, TLAPS

Workers == Updaters \cup Optimizers

-----------------------------------------------------------------------------
(* The inductive invariant.                                                *)

\* Where a worker has the writer bit of the barrier, and where it has also
\* seen the readers leave.
BarrierPoints ==
    {"drain", "apply", "finish_drain", "publish", "rollback_drain", "replace",
     "replace_drain"}
DrainedPoints == {"apply", "publish", "replace", "replace_drain"}

\* Where a worker has the holder's writer bit, or its upgradable lock.
HolderPoints == {"install", "publish", "replace_drain", "record_drain"}
UpgradablePoints == {"wrap", "finish_barrier", "finish_drain"}

\* A lock has the owner whose control point says so, on the owner's Shard.
WorkerLocks ==
    \A t \in Workers, s \in Shards :
        /\ barrier[s].writer = t <=> ShardOf[t] = s /\ pc[t] \in BarrierPoints
        /\ holder[s].writer = t <=> ShardOf[t] = s /\ pc[t] \in HolderPoints
        /\ holder[s].upgradable = t <=> ShardOf[t] = s /\ pc[t] \in UpgradablePoints
        /\ t \in holder[s].readers <=> ShardOf[t] = s /\ pc[t] = "apply"
        /\ update_op[s].writer = t
              <=> ShardOf[t] = s /\ pc[t] \in {"barrier", "drain", "apply"}

BarrierIsDrained ==
    \A t \in Workers : pc[t] \in DrainedPoints => barrier[ShardOf[t]].readers = {}

UpdateLockExcludes ==
    \A s \in Shards : update_op[s].writer # None => update_op[s].readers = {}

UpgradableExcludes ==
    \A s \in Shards : holder[s].upgradable = None \/ holder[s].writer = None

\* From here on a request has the update locks of all its Shards.
LockedPoints ==
    {"count", "reserve", "coordinator", "reserve_again", "coordinator_again",
     "pin", "clone", "execute"}

LockingPoints == {"idle", "update_lock"}

\* The update locks of a request: those of the Shards before its position.
RequestLocks ==
    \A r \in Requests :
        /\ \A i \in 1 .. Len(Order[r]) :
              (pc[r] \in LockedPoints \/ (pc[r] \in LockingPoints /\ r \notin answered
                                            /\ i < at[r]))
                  => r \in update_op[Order[r][i]].readers
        /\ \A s \in Shards : r \in update_op[s].readers =>
              \/ pc[r] \in LockedPoints
              \/ pc[r] \in LockingPoints /\ \E i \in 1 .. at[r] - 1 : Order[r][i] = s
        /\ pc[r] = "update_lock" => r \notin answered

\* The generations a request has pinned: those before its position, and the
\* one at its position while it clones the handles.
RequestPins ==
    \A r \in Requests, s \in Shards : r \in barrier[s].readers =>
        \/ pc[r] = "execute"
        \/ pc[r] = "pin" /\ \E i \in 1 .. at[r] - 1 : Order[r][i] = s
        \/ pc[r] = "clone" /\ \E i \in 1 .. at[r] : Order[r][i] = s

\* The Shard each thread is at.
Where == [t \in Threads |-> Here(t)]

\* In the queue of an update lock stand those who wait there, once each.
Standing(q) == {q[i] : i \in 1 .. Len(q)}

Once(q) == \A i, k \in 1 .. Len(q) : q[i] = q[k] => i = k

Waiting(s) == {t \in Requests \cup Updaters : pc[t] = "update_lock" /\ Where[t] = s}

QueueInv ==
    \A s \in Shards : /\ Once(update_op[s].queue)
                      /\ Standing(update_op[s].queue) = Waiting(s)

LocksInv ==
    /\ TypeOK
    /\ WorkerLocks
    /\ BarrierIsDrained
    /\ UpdateLockExcludes
    /\ UpgradableExcludes
    /\ RequestLocks
    /\ RequestPins
    /\ QueueInv

-----------------------------------------------------------------------------
(* Facts about the operators.                                              *)

\* Who leaves a queue in which everybody stands once is gone from it, and
\* nobody else is.
LEMMA LeaveProperties ==
    ASSUME NEW S, NEW q \in Seq(S), NEW t, Once(q)
    PROVE  /\ Leave(q, t) \in Seq(S) /\ Once(Leave(q, t))
           /\ Standing(Leave(q, t)) = Standing(q) \ {t}
<1>0. \A i, k \in 1 .. Len(q) : q[i] = q[k] => i = k
  BY Zenon DEF Once
<1>1. Len(q) \in Nat /\ DOMAIN q = 1 .. Len(q) /\ \A i \in 1 .. Len(q) : q[i] \in S
  OBVIOUS
<1>2. CASE \A i \in DOMAIN q : q[i] # t
  <2>1. Leave(q, t) = q
    BY Zenon, <1>2 DEF Leave
  <2>2. Standing(q) \ {t} = Standing(q)
    BY Zenon, <1>1, <1>2 DEF Standing
  <2> QED
    BY Zenon, <2>1, <2>2
<1>3. CASE \E i \in DOMAIN q : q[i] = t
  <2> DEFINE j == CHOOSE i \in DOMAIN q : q[i] = t
             p == [k \in 1 .. Len(q) - 1 |-> IF k < j THEN q[k] ELSE q[k + 1]]
  <2>1. j \in 1 .. Len(q) /\ q[j] = t
    BY Zenon, <1>1, <1>3
  <2> HIDE DEF j
  <2>2. Leave(q, t) = p
    BY Zenon, <1>3 DEF Leave, j
  <2>3. p \in [1 .. Len(q) - 1 -> S] /\ Len(q) - 1 \in Nat
    BY <1>1, <2>1
  <2>4. /\ p \in Seq(S)
        /\ \A i \in 1 .. Len(q) - 1 : p[i] = IF i < j THEN q[i] ELSE q[i + 1]
    BY <2>3
  <2> HIDE DEF p
  <2>5. Len(p) = Len(q) - 1
    <3>1. Len(p) \in Nat /\ 1 .. Len(p) = 1 .. Len(q) - 1
      BY <2>3, <2>4
    <3> QED
      BY <2>3, <3>1
  <2>6. \A k \in 1 .. Len(q) : q[k] # t => \E i \in 1 .. Len(p) : p[i] = q[k]
    <3> SUFFICES ASSUME NEW k \in 1 .. Len(q), q[k] # t
                 PROVE  \E i \in 1 .. Len(p) : p[i] = q[k]
      BY Zenon
    <3>1. k < j \/ k > j
      BY <1>1, <2>1
    <3>2. CASE k < j
      BY <1>1, <2>1, <2>4, <2>5, <3>2
    <3>3. CASE k > j
      <4>1. k - 1 \in 1 .. Len(p) /\ p[k - 1] = q[k]
        BY <1>1, <2>1, <2>4, <2>5, <3>3
      <4> QED
        BY Zenon, <4>1
    <3> QED
      BY Zenon, <3>1, <3>2, <3>3
  <2>7. \A i \in 1 .. Len(p) : p[i] # t /\ \E k \in 1 .. Len(q) : q[k] = p[i]
    BY <1>0, <1>1, <2>1, <2>4, <2>5
  <2>8. Once(p)
    BY <1>0, <1>1, <2>1, <2>4, <2>5 DEF Once
  <2>9. Standing(p) = Standing(q) \ {t}
    BY <2>6, <2>7 DEF Standing
  <2> QED
    BY Zenon, <2>2, <2>4, <2>8, <2>9
<1> QED
  BY Zenon, <1>2, <1>3

\* A request is always at one of its Shards.
LEMMA PositionInOrder ==
    ASSUME TypeOK, NEW r \in Requests
    PROVE  /\ Len(Order[r]) \in Nat \ {0}
           /\ at[r] \in 1 .. Len(Order[r])
           /\ \A i \in 1 .. Len(Order[r]) : Order[r][i] \in Shards
           /\ Here(r) = Order[r][at[r]] /\ Here(r) \in Shards
           /\ NextShard(r) \in 1 .. Len(Order[r])
<1>1. Order[r] \in Seq(Shards) /\ Order[r] # <<>>
  BY Zenon, LocksAssumption
<1>2. Len(Order[r]) \in Nat \ {0} /\ \A i \in 1 .. Len(Order[r]) : Order[r][i] \in Shards
  BY <1>1
<1>3. at[r] \in 1 .. Len(Order[r])
  BY Zenon DEF TypeOK, PointTypes
<1>4. Here(r) = Order[r][at[r]]
  BY Zenon DEF Here
<1> QED
  BY <1>2, <1>3, <1>4 DEF NextShard, Last

-----------------------------------------------------------------------------
(* What the steps of a request, and of a worker, leave alone.              *)

RequestAct(r) == RequestStep(r) \/ DropRequest(r) \/ TimeOut(r)
UpdaterAct(u) == StartUpdate(u) \/ UpdateStep(u)
OptimizerAct(o) == StartOptimization(o) \/ OptimizerStep(o)

LEMMA RuntimesDiffer ==
    ASSUME NEW m
    PROVE  OtherRuntime(m) \in Runtimes /\ OtherRuntime(m) # m
<1>1. \E n \in Runtimes : n # m
  BY Zenon DEF Runtimes
<1> QED
  BY Zenon, <1>1 DEF OtherRuntime

-----------------------------------------------------------------------------
(* What the operations on a lock do to it.                                 *)

LEMMA BarrierWriterSet ==
    ASSUME LockTypes, NEW s \in Shards, NEW v \in Workers \cup {None},
           barrier' = [barrier EXCEPT ![s].writer = v]
    PROVE  /\ barrier' \in [Shards -> GenerationBarrier]
           /\ barrier'[s].writer = v /\ barrier'[s].readers = barrier[s].readers
           /\ \A x \in Shards \ {s} : barrier'[x] = barrier[x]
<1> DEFINE y == [barrier[s] EXCEPT !.writer = v]
<1>1. y \in GenerationBarrier /\ y.writer = v /\ y.readers = barrier[s].readers
  BY Zenon DEF LockTypes, GenerationBarrier, Workers
<1>2. barrier' = [barrier EXCEPT ![s] = y] /\ barrier \in [Shards -> GenerationBarrier]
  BY Zenon DEF LockTypes
<1> HIDE DEF y
<1> QED
  BY Zenon, <1>1, <1>2

LEMMA HolderWriterSet ==
    ASSUME LockTypes, NEW s \in Shards, NEW v \in Workers \cup {None},
           holder' = [holder EXCEPT ![s].writer = v]
    PROVE  /\ holder' \in [Shards -> HolderLock]
           /\ holder'[s].writer = v /\ holder'[s].readers = holder[s].readers
           /\ holder'[s].upgradable = holder[s].upgradable
           /\ \A x \in Shards \ {s} : holder'[x] = holder[x]
<1> DEFINE y == [holder[s] EXCEPT !.writer = v]
<1>1. /\ y \in HolderLock /\ y.writer = v /\ y.readers = holder[s].readers
      /\ y.upgradable = holder[s].upgradable
  BY Zenon DEF LockTypes, HolderLock, Workers
<1>2. holder' = [holder EXCEPT ![s] = y] /\ holder \in [Shards -> HolderLock]
  BY Zenon DEF LockTypes
<1> HIDE DEF y
<1> QED
  BY Zenon, <1>1, <1>2

LEMMA UpgradableSet ==
    ASSUME LockTypes, NEW s \in Shards, NEW v \in Optimizers \cup {None},
           holder' = [holder EXCEPT ![s].upgradable = v]
    PROVE  /\ holder' \in [Shards -> HolderLock]
           /\ holder'[s].writer = holder[s].writer /\ holder'[s].readers = holder[s].readers
           /\ holder'[s].upgradable = v
           /\ \A x \in Shards \ {s} : holder'[x] = holder[x]
<1> DEFINE y == [holder[s] EXCEPT !.upgradable = v]
<1>1. /\ y \in HolderLock /\ y.writer = holder[s].writer /\ y.readers = holder[s].readers
      /\ y.upgradable = v
  BY Zenon DEF LockTypes, HolderLock
<1>2. holder' = [holder EXCEPT ![s] = y] /\ holder \in [Shards -> HolderLock]
  BY Zenon DEF LockTypes
<1> HIDE DEF y
<1> QED
  BY Zenon, <1>1, <1>2

LEMMA Upgraded ==
    ASSUME LockTypes, NEW s \in Shards, NEW t \in Workers, Upgrade(s, t)
    PROVE  /\ holder' \in [Shards -> HolderLock]
           /\ holder[s].upgradable = t
           /\ holder'[s].writer = t /\ holder'[s].readers = holder[s].readers
           /\ holder'[s].upgradable = None
           /\ \A x \in Shards \ {s} : holder'[x] = holder[x]
<1> DEFINE y == [holder[s] EXCEPT !.upgradable = None, !.writer = t]
<1>1. /\ y \in HolderLock /\ y.writer = t /\ y.readers = holder[s].readers
      /\ y.upgradable = None
  BY Zenon DEF LockTypes, HolderLock, Workers
<1>2. /\ holder' = [holder EXCEPT ![s] = y] /\ holder \in [Shards -> HolderLock]
      /\ holder[s].upgradable = t
  BY Zenon DEF LockTypes, Upgrade
<1> HIDE DEF y
<1> QED
  BY Zenon, <1>1, <1>2

LEMMA HolderReadersSet ==
    ASSUME LockTypes, NEW s \in Shards, NEW R \in SUBSET Updaters,
           holder' = [holder EXCEPT ![s].readers = R]
    PROVE  /\ holder' \in [Shards -> HolderLock]
           /\ holder'[s].writer = holder[s].writer /\ holder'[s].readers = R
           /\ holder'[s].upgradable = holder[s].upgradable
           /\ \A x \in Shards \ {s} : holder'[x] = holder[x]
<1> DEFINE y == [holder[s] EXCEPT !.readers = R]
<1>1. /\ y \in HolderLock /\ y.writer = holder[s].writer /\ y.readers = R
      /\ y.upgradable = holder[s].upgradable
  BY Zenon DEF LockTypes, HolderLock
<1>2. holder' = [holder EXCEPT ![s] = y] /\ holder \in [Shards -> HolderLock]
  BY Zenon DEF LockTypes
<1> HIDE DEF y
<1> QED
  BY Zenon, <1>1, <1>2

LEMMA Enqueued ==
    ASSUME LockTypes, NEW s \in Shards, NEW t \in Requests \cup Updaters, Enqueue(s, t)
    PROVE  /\ update_op' \in [Shards -> UpdateLock]
           /\ update_op'[s].writer = update_op[s].writer
           /\ update_op'[s].readers = update_op[s].readers
           /\ update_op'[s].queue = Append(update_op[s].queue, t)
           /\ \A x \in Shards \ {s} : update_op'[x] = update_op[x]
<1> DEFINE q == Append(update_op[s].queue, t)
           y == [update_op[s] EXCEPT !.queue = q]
<1>0. update_op[s] \in UpdateLock
  BY Zenon DEF LockTypes
<1>1. q \in Seq(Requests \cup Updaters)
  BY <1>0 DEF UpdateLock
<1>2. update_op' = [update_op EXCEPT ![s] = y] /\ update_op \in [Shards -> UpdateLock]
  BY Zenon DEF LockTypes, Enqueue
<1> HIDE DEF q
<1>3. /\ y \in UpdateLock /\ y.writer = update_op[s].writer
      /\ y.readers = update_op[s].readers /\ y.queue = q
  BY Zenon, <1>0, <1>1 DEF UpdateLock
<1> HIDE DEF y
<1> QED
  BY Zenon, <1>2, <1>3 DEF q

LEMMA ReadEntered ==
    ASSUME LockTypes, NEW s \in Shards, NEW t \in Requests, ReadUpdateOp(s, t)
    PROVE  /\ update_op' \in [Shards -> UpdateLock]
           /\ update_op[s].queue # <<>> /\ Head(update_op[s].queue) = t
           /\ update_op[s].writer = None /\ update_op'[s].writer = None
           /\ update_op'[s].readers = update_op[s].readers \cup {t}
           /\ update_op'[s].queue = Tail(update_op[s].queue)
           /\ \A x \in Shards \ {s} : update_op'[x] = update_op[x]
<1> DEFINE q == Tail(update_op[s].queue)
           y == [update_op[s] EXCEPT !.queue = q, !.readers = @ \cup {t}]
<1>0. /\ update_op[s] \in UpdateLock
      /\ update_op[s].queue # <<>> /\ Head(update_op[s].queue) = t
      /\ update_op[s].writer = None
  BY Zenon DEF LockTypes, ReadUpdateOp
<1>1. q \in Seq(Requests \cup Updaters)
  BY <1>0 DEF UpdateLock
<1>2. update_op' = [update_op EXCEPT ![s] = y] /\ update_op \in [Shards -> UpdateLock]
  BY Zenon DEF LockTypes, ReadUpdateOp
<1> HIDE DEF q
<1>3. /\ y \in UpdateLock /\ y.writer = update_op[s].writer
      /\ y.readers = update_op[s].readers \cup {t} /\ y.queue = q
  BY <1>0, <1>1, Zenon DEF UpdateLock
<1> HIDE DEF y
<1> QED
  BY Zenon, <1>0, <1>2, <1>3 DEF q

LEMMA WriteEntered ==
    ASSUME LockTypes, NEW s \in Shards, NEW t \in Updaters, WriteUpdateOp(s, t)
    PROVE  /\ update_op' \in [Shards -> UpdateLock]
           /\ update_op[s].queue # <<>> /\ Head(update_op[s].queue) = t
           /\ update_op[s].writer = None /\ update_op'[s].writer = t
           /\ update_op[s].readers = {} /\ update_op'[s].readers = {}
           /\ update_op'[s].queue = Tail(update_op[s].queue)
           /\ \A x \in Shards \ {s} : update_op'[x] = update_op[x]
<1> DEFINE q == Tail(update_op[s].queue)
           y == [update_op[s] EXCEPT !.queue = q, !.writer = t]
<1>0. /\ update_op[s] \in UpdateLock
      /\ update_op[s].queue # <<>> /\ Head(update_op[s].queue) = t
      /\ update_op[s].writer = None /\ update_op[s].readers = {}
  BY Zenon DEF LockTypes, WriteUpdateOp
<1>1. q \in Seq(Requests \cup Updaters)
  BY <1>0 DEF UpdateLock
<1>2. update_op' = [update_op EXCEPT ![s] = y] /\ update_op \in [Shards -> UpdateLock]
  BY Zenon DEF LockTypes, WriteUpdateOp
<1> HIDE DEF q
<1>3. /\ y \in UpdateLock /\ y.writer = t
      /\ y.readers = update_op[s].readers /\ y.queue = q
  BY <1>0, <1>1, Zenon DEF UpdateLock
<1> HIDE DEF y
<1> QED
  BY Zenon, <1>0, <1>2, <1>3 DEF q

LEMMA WriterLeft ==
    ASSUME LockTypes, NEW s \in Shards,
           update_op' = [update_op EXCEPT ![s].writer = None]
    PROVE  /\ update_op' \in [Shards -> UpdateLock]
           /\ update_op'[s].writer = None
           /\ update_op'[s].readers = update_op[s].readers
           /\ update_op'[s].queue = update_op[s].queue
           /\ \A x \in Shards \ {s} : update_op'[x] = update_op[x]
<1> DEFINE y == [update_op[s] EXCEPT !.writer = None]
<1>1. /\ y \in UpdateLock /\ y.writer = None
      /\ y.readers = update_op[s].readers /\ y.queue = update_op[s].queue
  BY Zenon DEF LockTypes, UpdateLock
<1>2. update_op' = [update_op EXCEPT ![s] = y] /\ update_op \in [Shards -> UpdateLock]
  BY Zenon DEF LockTypes
<1> HIDE DEF y
<1> QED
  BY Zenon, <1>1, <1>2

\* What dropping the guards of a request does to the update locks.
LEMMA Released ==
    ASSUME LockTypes, QueueInv, NEW r \in Requests, ReleaseUpdateLocks(r)
    PROVE  /\ update_op' \in [Shards -> UpdateLock]
           /\ \A s \in Shards :
                 /\ update_op'[s].readers = update_op[s].readers \ {r}
                 /\ update_op'[s].writer = update_op[s].writer
                 /\ update_op'[s].queue = Leave(update_op[s].queue, r)
<1> DEFINE q(s) == Leave(update_op[s].queue, r)
<1>0. \A s \in Shards : update_op[s] \in UpdateLock
  BY Zenon DEF LockTypes
<1>1. \A s \in Shards : q(s) \in Seq(Requests \cup Updaters)
  BY Zenon, <1>0, LeaveProperties DEF UpdateLock, QueueInv
<1>2. update_op' = [s \in Shards |-> [update_op[s] EXCEPT
                      !.readers = @ \ {r}, !.queue = q(s)]]
  BY Zenon DEF ReleaseUpdateLocks
<1> HIDE DEF q
<1>3. \A s \in Shards :
         /\ update_op'[s].readers = update_op[s].readers \ {r}
         /\ update_op'[s].writer = update_op[s].writer
         /\ update_op'[s].queue = q(s)
         /\ update_op'[s] \in UpdateLock
  BY <1>0, <1>1, <1>2, Zenon DEF UpdateLock
<1> QED
  BY <1>2, <1>3, Zenon DEF q

LEMMA BarrierReadersSet ==
    ASSUME LockTypes, NEW s \in Shards, NEW r \in Requests,
           barrier' = [barrier EXCEPT ![s].readers = @ \cup {r}]
    PROVE  /\ barrier' \in [Shards -> GenerationBarrier]
           /\ barrier'[s].writer = barrier[s].writer
           /\ barrier'[s].readers = barrier[s].readers \cup {r}
           /\ \A x \in Shards \ {s} : barrier'[x] = barrier[x]
<1> DEFINE y == [barrier[s] EXCEPT !.readers = @ \cup {r}]
<1>1. /\ y \in GenerationBarrier /\ y.writer = barrier[s].writer
      /\ y.readers = barrier[s].readers \cup {r}
  BY Zenon DEF LockTypes, GenerationBarrier
<1>2. barrier' = [barrier EXCEPT ![s] = y] /\ barrier \in [Shards -> GenerationBarrier]
  BY Zenon DEF LockTypes
<1> HIDE DEF y
<1> QED
  BY <1>1, <1>2, SMTT(20)

LEMMA Unpinned ==
    ASSUME LockTypes, NEW r \in Requests,
           barrier' = [s \in Shards |-> [barrier[s] EXCEPT !.readers = @ \ {r}]]
    PROVE  /\ barrier' \in [Shards -> GenerationBarrier]
           /\ \A s \in Shards : /\ barrier'[s].writer = barrier[s].writer
                                /\ barrier'[s].readers = barrier[s].readers \ {r}
<1>1. \A s \in Shards : barrier[s] \in GenerationBarrier
  BY Zenon DEF LockTypes
<1>2. \A s \in Shards :
         /\ barrier'[s].writer = barrier[s].writer
         /\ barrier'[s].readers = barrier[s].readers \ {r}
         /\ barrier'[s] \in GenerationBarrier
  BY Zenon, <1>1 DEF GenerationBarrier
<1> QED
  BY Zenon, <1>2

-----------------------------------------------------------------------------
(* What a step of a worker does.                                           *)

\* One step of w takes a lock that is free, gives it back, or leaves it; after
\* it w has the lock if and only if it should.
Bit(old, new, w, should) ==
    /\ new = old \/ (old = None /\ new = w) \/ (old = w /\ new = None)
    /\ new = w <=> should

QueueStep(old, new, w, before, after) ==
    \/ before # "update_lock" /\ after = "update_lock" /\ new = Append(old, w)
    \/ /\ before = "update_lock" /\ after # "update_lock"
       /\ old # <<>> /\ Head(old) = w /\ new = Tail(old)
    \/ before # "update_lock" /\ after # "update_lock" /\ new = old

BarrierEffect(w, s) ==
    /\ \A x \in Shards \ {s} : barrier'[x] = barrier[x]
    /\ barrier'[s].readers = barrier[s].readers
    /\ Bit(barrier[s].writer, barrier'[s].writer, w, pc'[w] \in BarrierPoints)
    /\ pc'[w] \in DrainedPoints => barrier[s].readers = {}

HolderEffect(w, s) ==
    /\ \A x \in Shards \ {s} : holder'[x] = holder[x]
    /\ Bit(holder[s].writer, holder'[s].writer, w, pc'[w] \in HolderPoints)
    /\ Bit(holder[s].upgradable, holder'[s].upgradable, w, pc'[w] \in UpgradablePoints)
    /\ holder'[s].readers \ {w} = holder[s].readers \ {w}
    /\ w \in holder'[s].readers <=> pc'[w] = "apply"
    /\ holder'[s].upgradable = None \/ holder'[s].writer = None

UpdateLockEffect(w, s) ==
    /\ \A x \in Shards \ {s} : update_op'[x] = update_op[x]
    /\ Bit(update_op[s].writer, update_op'[s].writer, w,
           pc'[w] \in {"barrier", "drain", "apply"})
    /\ update_op'[s].readers = update_op[s].readers
    /\ update_op'[s].writer # None => update_op[s].readers = {}
    /\ QueueStep(update_op[s].queue, update_op'[s].queue, w, pc[w], pc'[w])

WorkerEffect(w) ==
    /\ pc' = [pc EXCEPT ![w] = pc'[w]]
    /\ w \in Updaters => pc'[w] \in UpdaterPoints
    /\ w \in Optimizers => pc'[w] \in OptimizerPoints
    /\ UNCHANGED <<at, slots, taken, answered>>
    /\ LockTypes'
    /\ BarrierEffect(w, ShardOf[w])
    /\ HolderEffect(w, ShardOf[w])
    /\ UpdateLockEffect(w, ShardOf[w])

\* The locks of w at its Shard before a step.
LEMMA OwnLocks ==
    ASSUME LocksInv, NEW w \in Workers
    PROVE  /\ LockTypes /\ PointTypes /\ ShardOf[w] \in Shards /\ w \in Threads /\ w # None
           /\ barrier[ShardOf[w]].writer = w <=> pc[w] \in BarrierPoints
           /\ holder[ShardOf[w]].writer = w <=> pc[w] \in HolderPoints
           /\ holder[ShardOf[w]].upgradable = w <=> pc[w] \in UpgradablePoints
           /\ w \in holder[ShardOf[w]].readers <=> pc[w] = "apply"
           /\ update_op[ShardOf[w]].writer = w <=> pc[w] \in {"barrier", "drain", "apply"}
           /\ pc[w] \in DrainedPoints => barrier[ShardOf[w]].readers = {}
           /\ update_op[ShardOf[w]].writer # None => update_op[ShardOf[w]].readers = {}
           /\ holder[ShardOf[w]].upgradable = None \/ holder[ShardOf[w]].writer = None
<1>1. ShardOf[w] \in Shards /\ w \in Threads /\ w # None
  BY Zenon, LocksAssumption DEF Workers, Threads
<1> QED
  BY <1>1 DEF LocksInv, TypeOK, WorkerLocks, BarrierIsDrained, UpdateLockExcludes,
              UpgradableExcludes

\* A step that leaves a lock alone keeps its effect if w moves between points
\* that say the same about the lock.
LEMMA BarrierLeft ==
    ASSUME LocksInv, NEW w \in Workers, barrier' = barrier,
           pc'[w] \in BarrierPoints <=> pc[w] \in BarrierPoints,
           pc'[w] \in DrainedPoints => pc[w] \in DrainedPoints \/ barrier[ShardOf[w]].readers = {}
    PROVE  BarrierEffect(w, ShardOf[w]) /\ barrier' \in [Shards -> GenerationBarrier]
BY Zenon, OwnLocks DEF BarrierEffect, Bit, LockTypes

LEMMA HolderLeft ==
    ASSUME LocksInv, NEW w \in Workers, holder' = holder,
           pc'[w] \in HolderPoints <=> pc[w] \in HolderPoints,
           pc'[w] \in UpgradablePoints <=> pc[w] \in UpgradablePoints,
           pc'[w] = "apply" <=> pc[w] = "apply"
    PROVE  HolderEffect(w, ShardOf[w]) /\ holder' \in [Shards -> HolderLock]
BY Zenon, OwnLocks DEF HolderEffect, Bit, LockTypes

LEMMA UpdateLockLeft ==
    ASSUME LocksInv, NEW w \in Workers, update_op' = update_op,
           pc'[w] \in {"barrier", "drain", "apply"} <=> pc[w] \in {"barrier", "drain", "apply"},
           pc[w] # "update_lock", pc'[w] # "update_lock"
    PROVE  UpdateLockEffect(w, ShardOf[w]) /\ update_op' \in [Shards -> UpdateLock]
BY Zenon, OwnLocks DEF UpdateLockEffect, Bit, LockTypes, QueueStep

\* A step that takes or gives back a lock has its effect if w moves accordingly.
LEMMA BarrierTakes ==
    ASSUME LocksInv, NEW w \in Workers, TakeBarrierBit(ShardOf[w], w),
           pc'[w] \in BarrierPoints, pc'[w] \notin DrainedPoints
    PROVE  BarrierEffect(w, ShardOf[w]) /\ barrier' \in [Shards -> GenerationBarrier]
<1> DEFINE z == ShardOf[w]
<1>0. /\ w \in Workers \cup {None} /\ LockTypes /\ z \in Shards
      /\ barrier[z].writer = None /\ barrier' = [barrier EXCEPT ![z].writer = w]
  BY Zenon, OwnLocks DEF TakeBarrierBit
<1>1. /\ barrier' \in [Shards -> GenerationBarrier]
      /\ barrier'[z].writer = w /\ barrier'[z].readers = barrier[z].readers
      /\ \A x \in Shards \ {z} : barrier'[x] = barrier[x]
      /\ barrier[z].writer = None
  BY <1>0, BarrierWriterSet, Zenon
<1> QED
  BY Zenon, <1>1, OwnLocks DEF BarrierEffect, Bit

LEMMA BarrierGives ==
    ASSUME LocksInv, NEW w \in Workers, FreeBarrier(ShardOf[w]), pc[w] \in BarrierPoints,
           pc'[w] \notin BarrierPoints, pc'[w] \notin DrainedPoints
    PROVE  BarrierEffect(w, ShardOf[w]) /\ barrier' \in [Shards -> GenerationBarrier]
<1> DEFINE z == ShardOf[w]
<1>1. /\ barrier' \in [Shards -> GenerationBarrier]
      /\ barrier'[z].writer = None /\ barrier'[z].readers = barrier[z].readers
      /\ \A x \in Shards \ {z} : barrier'[x] = barrier[x]
  BY OwnLocks, BarrierWriterSet, Zenon DEF FreeBarrier
<1> QED
  BY Zenon, <1>1, OwnLocks DEF BarrierEffect, Bit

LEMMA HolderTakes ==
    ASSUME LocksInv, NEW w \in Workers, TakeHolderBit(ShardOf[w], w), pc'[w] \in HolderPoints,
           pc'[w] \in UpgradablePoints <=> pc[w] \in UpgradablePoints,
           pc'[w] # "apply", pc[w] # "apply"
    PROVE  HolderEffect(w, ShardOf[w]) /\ holder' \in [Shards -> HolderLock]
<1> DEFINE z == ShardOf[w]
<1>1. /\ holder' \in [Shards -> HolderLock]
      /\ holder'[z].writer = w /\ holder'[z].readers = holder[z].readers
      /\ holder'[z].upgradable = holder[z].upgradable
      /\ \A x \in Shards \ {z} : holder'[x] = holder[x]
      /\ holder[z].writer = None /\ holder[z].upgradable = None
  BY OwnLocks, HolderWriterSet, Zenon DEF TakeHolderBit
<1> QED
  BY <1>1, OwnLocks DEF HolderEffect, Bit

LEMMA HolderGives ==
    ASSUME LocksInv, NEW w \in Workers, FreeHolder(ShardOf[w]),
           pc[w] \in HolderPoints, pc'[w] \notin HolderPoints,
           pc'[w] \in UpgradablePoints <=> pc[w] \in UpgradablePoints,
           pc'[w] # "apply", pc[w] # "apply"
    PROVE  HolderEffect(w, ShardOf[w]) /\ holder' \in [Shards -> HolderLock]
<1> DEFINE z == ShardOf[w]
<1>1. /\ holder' \in [Shards -> HolderLock]
      /\ holder'[z].writer = None /\ holder'[z].readers = holder[z].readers
      /\ holder'[z].upgradable = holder[z].upgradable
      /\ \A x \in Shards \ {z} : holder'[x] = holder[x]
  BY OwnLocks, HolderWriterSet, Zenon DEF FreeHolder
<1> QED
  BY <1>1, OwnLocks DEF HolderEffect, Bit

LEMMA UpgradableTakes ==
    ASSUME LocksInv, NEW w \in Workers, w \in Optimizers, TakeUpgradable(ShardOf[w], w),
           pc'[w] \in UpgradablePoints,
           pc'[w] \in HolderPoints <=> pc[w] \in HolderPoints,
           pc'[w] # "apply", pc[w] # "apply"
    PROVE  HolderEffect(w, ShardOf[w]) /\ holder' \in [Shards -> HolderLock]
<1> DEFINE z == ShardOf[w]
<1>1. /\ holder' \in [Shards -> HolderLock]
      /\ holder'[z].writer = holder[z].writer /\ holder'[z].readers = holder[z].readers
      /\ holder'[z].upgradable = w
      /\ \A x \in Shards \ {z} : holder'[x] = holder[x]
      /\ holder[z].upgradable = None /\ holder[z].writer = None
  BY OwnLocks, UpgradableSet, Zenon DEF TakeUpgradable
<1> QED
  BY <1>1, OwnLocks DEF HolderEffect, Bit

LEMMA UpgradableGives ==
    ASSUME LocksInv, NEW w \in Workers,
           holder' = [holder EXCEPT ![ShardOf[w]].upgradable = None],
           pc[w] \in UpgradablePoints, pc'[w] \notin UpgradablePoints,
           pc'[w] \in HolderPoints <=> pc[w] \in HolderPoints,
           pc'[w] # "apply", pc[w] # "apply"
    PROVE  HolderEffect(w, ShardOf[w]) /\ holder' \in [Shards -> HolderLock]
<1> DEFINE z == ShardOf[w]
<1>1. /\ holder' \in [Shards -> HolderLock]
      /\ holder'[z].writer = holder[z].writer /\ holder'[z].readers = holder[z].readers
      /\ holder'[z].upgradable = None
      /\ \A x \in Shards \ {z} : holder'[x] = holder[x]
  BY OwnLocks, UpgradableSet, Zenon
<1> QED
  BY <1>1, OwnLocks DEF HolderEffect, Bit

LEMMA HolderUpgrades ==
    ASSUME LocksInv, NEW w \in Workers, Upgrade(ShardOf[w], w),
           pc'[w] \in HolderPoints, pc'[w] \notin UpgradablePoints,
           pc'[w] # "apply", pc[w] # "apply"
    PROVE  HolderEffect(w, ShardOf[w]) /\ holder' \in [Shards -> HolderLock]
<1> DEFINE z == ShardOf[w]
<1>1. /\ holder' \in [Shards -> HolderLock]
      /\ holder'[z].writer = w /\ holder'[z].readers = holder[z].readers
      /\ holder[z].upgradable = w /\ holder'[z].upgradable = None
      /\ \A x \in Shards \ {z} : holder'[x] = holder[x]
  BY OwnLocks, Upgraded
<1> QED
  BY <1>1, OwnLocks DEF HolderEffect, Bit

LEMMA HolderReaderEnters ==
    ASSUME LocksInv, NEW w \in Workers, w \in Updaters,
           holder' = [holder EXCEPT ![ShardOf[w]].readers = @ \cup {w}], pc'[w] = "apply",
           pc'[w] \in HolderPoints <=> pc[w] \in HolderPoints,
           pc'[w] \in UpgradablePoints <=> pc[w] \in UpgradablePoints
    PROVE  HolderEffect(w, ShardOf[w]) /\ holder' \in [Shards -> HolderLock]
<1> DEFINE z == ShardOf[w]
           R == holder[z].readers \cup {w}
<1>1. R \in SUBSET Updaters
  BY OwnLocks DEF LockTypes, HolderLock
<1>2. holder' = [holder EXCEPT ![z].readers = R]
  BY Zenon, OwnLocks DEF LockTypes
<1>3. R \ {w} = holder[z].readers \ {w} /\ w \in R
  BY Zenon
<1> HIDE DEF R
<1>4. /\ holder' \in [Shards -> HolderLock]
      /\ holder'[z].writer = holder[z].writer /\ holder'[z].readers = R
      /\ holder'[z].upgradable = holder[z].upgradable
      /\ \A x \in Shards \ {z} : holder'[x] = holder[x]
  BY <1>1, <1>2, OwnLocks, HolderReadersSet, Zenon
<1> QED
  BY <1>3, <1>4, OwnLocks DEF HolderEffect, Bit

LEMMA HolderReaderLeaves ==
    ASSUME LocksInv, NEW w \in Workers,
           holder' = [holder EXCEPT ![ShardOf[w]].readers = @ \ {w}], pc'[w] # "apply",
           pc'[w] \in HolderPoints <=> pc[w] \in HolderPoints,
           pc'[w] \in UpgradablePoints <=> pc[w] \in UpgradablePoints
    PROVE  HolderEffect(w, ShardOf[w]) /\ holder' \in [Shards -> HolderLock]
<1> DEFINE z == ShardOf[w]
           R == holder[z].readers \ {w}
<1>1. R \in SUBSET Updaters
  BY OwnLocks DEF LockTypes, HolderLock
<1>2. holder' = [holder EXCEPT ![z].readers = R]
  BY Zenon, OwnLocks DEF LockTypes
<1>3. R \ {w} = holder[z].readers \ {w} /\ w \notin R
  BY Zenon
<1> HIDE DEF R
<1>4. /\ holder' \in [Shards -> HolderLock]
      /\ holder'[z].writer = holder[z].writer /\ holder'[z].readers = R
      /\ holder'[z].upgradable = holder[z].upgradable
      /\ \A x \in Shards \ {z} : holder'[x] = holder[x]
  BY <1>1, <1>2, OwnLocks, HolderReadersSet, Zenon
<1> QED
  BY <1>3, <1>4, OwnLocks DEF HolderEffect, Bit

LEMMA UpdateLockGives ==
    ASSUME LocksInv, NEW w \in Workers,
           update_op' = [update_op EXCEPT ![ShardOf[w]].writer = None],
           pc[w] \in {"barrier", "drain", "apply"}, pc'[w] \notin {"barrier", "drain", "apply"},
           pc[w] # "update_lock", pc'[w] # "update_lock"
    PROVE  UpdateLockEffect(w, ShardOf[w]) /\ update_op' \in [Shards -> UpdateLock]
<1> DEFINE z == ShardOf[w]
<1>1. /\ update_op' \in [Shards -> UpdateLock]
      /\ update_op'[z].writer = None
      /\ update_op'[z].readers = update_op[z].readers
      /\ update_op'[z].queue = update_op[z].queue
      /\ \A x \in Shards \ {z} : update_op'[x] = update_op[x]
  BY OwnLocks, WriterLeft, Zenon
<1> QED
  BY <1>1, OwnLocks DEF UpdateLockEffect, Bit, QueueStep

\* The update worker.
LEMMA UpdaterEffects ==
    ASSUME LocksInv, NEW w \in Updaters, UpdaterAct(w)
    PROVE  WorkerEffect(w)
<1> DEFINE z == ShardOf[w]
<1>0. /\ w \in Workers /\ LocksInv /\ LockTypes /\ PointTypes
      /\ z \in Shards /\ w \in Threads /\ w # None
      /\ w \in Updaters /\ w \notin Optimizers
      /\ barrier[z].writer = w <=> pc[w] \in BarrierPoints
      /\ holder[z].writer = w <=> pc[w] \in HolderPoints
      /\ holder[z].upgradable = w <=> pc[w] \in UpgradablePoints
      /\ w \in holder[z].readers <=> pc[w] = "apply"
      /\ update_op[z].writer = w <=> pc[w] \in {"barrier", "drain", "apply"}
      /\ pc[w] \in DrainedPoints => barrier[z].readers = {}
      /\ update_op[z].writer # None => update_op[z].readers = {}
  BY OwnLocks, LocksAssumption, Zenon DEF Workers
<1>1. CASE StartUpdate(w)
  <2>1. /\ pc[w] = "idle" /\ pc'[w] = "update_lock"
        /\ pc' = [pc EXCEPT ![w] = pc'[w]]
        /\ UNCHANGED <<at, slots, taken, answered>>
    BY Zenon, <1>0, <1>1 DEF StartUpdate, Goto, PointTypes, UpdaterPoints, reservation, locks
  <2>2. BarrierEffect(w, z) /\ barrier' \in [Shards -> GenerationBarrier]
    BY Zenon, <1>0, <1>1, <2>1, BarrierLeft DEF StartUpdate, locks, BarrierPoints, DrainedPoints
  <2>3. HolderEffect(w, z) /\ holder' \in [Shards -> HolderLock]
    BY Zenon, <1>0, <1>1, <2>1, HolderLeft DEF StartUpdate, locks, HolderPoints, UpgradablePoints
  <2>4. UpdateLockEffect(w, z) /\ update_op' \in [Shards -> UpdateLock]
    BY Zenon, <1>0, <1>1, <2>1, Enqueued DEF StartUpdate, UpdateLockEffect, Bit, QueueStep
  <2> QED
    BY Zenon, <1>0, <2>1, <2>2, <2>3, <2>4 DEF WorkerEffect, LockTypes, UpdaterPoints
<1>2. CASE GetUpdateWrite(w)
  <2>1. /\ pc[w] = "update_lock" /\ pc'[w] = "barrier"
        /\ pc' = [pc EXCEPT ![w] = pc'[w]]
        /\ UNCHANGED <<at, slots, taken, answered>>
    BY Zenon, <1>0, <1>2 DEF GetUpdateWrite, Goto, PointTypes, UpdaterPoints, reservation, locks
  <2>2. BarrierEffect(w, z) /\ barrier' \in [Shards -> GenerationBarrier]
    BY Zenon, <1>0, <1>2, <2>1, BarrierLeft DEF GetUpdateWrite, locks, BarrierPoints, DrainedPoints
  <2>3. HolderEffect(w, z) /\ holder' \in [Shards -> HolderLock]
    BY Zenon, <1>0, <1>2, <2>1, HolderLeft DEF GetUpdateWrite, locks, HolderPoints, UpgradablePoints
  <2>4. UpdateLockEffect(w, z) /\ update_op' \in [Shards -> UpdateLock]
    BY <1>0, <1>2, <2>1, WriteEntered, Zenon DEF GetUpdateWrite, UpdateLockEffect, Bit, QueueStep
  <2> QED
    BY Zenon, <1>0, <2>1, <2>2, <2>3, <2>4 DEF WorkerEffect, LockTypes, UpdaterPoints
<1>3. CASE TakeBarrier(w)
  <2>1. /\ pc[w] = "barrier" /\ pc'[w] = "drain"
        /\ pc' = [pc EXCEPT ![w] = pc'[w]]
        /\ UNCHANGED <<at, slots, taken, answered>>
    BY Zenon, <1>0, <1>3 DEF TakeBarrier, Goto, PointTypes, UpdaterPoints, reservation, locks
  <2>2. BarrierEffect(w, z) /\ barrier' \in [Shards -> GenerationBarrier]
    BY Zenon, <1>0, <1>3, <2>1, BarrierTakes DEF TakeBarrier, locks, BarrierPoints, DrainedPoints
  <2>3. HolderEffect(w, z) /\ holder' \in [Shards -> HolderLock]
    BY Zenon, <1>0, <1>3, <2>1, HolderLeft DEF TakeBarrier, locks, HolderPoints, UpgradablePoints
  <2>4. UpdateLockEffect(w, z) /\ update_op' \in [Shards -> UpdateLock]
    BY Zenon, <1>0, <1>3, <2>1, UpdateLockLeft DEF TakeBarrier, locks
  <2> QED
    BY Zenon, <1>0, <2>1, <2>2, <2>3, <2>4 DEF WorkerEffect, LockTypes, UpdaterPoints
<1>4. CASE ReadHolderForUpdate(w)
  <2>1. /\ pc[w] = "drain" /\ pc'[w] = "apply"
        /\ pc' = [pc EXCEPT ![w] = pc'[w]]
        /\ UNCHANGED <<at, slots, taken, answered>>
    BY Zenon, <1>0, <1>4 DEF ReadHolderForUpdate, Goto, PointTypes, UpdaterPoints, reservation, locks
  <2>2. BarrierEffect(w, z) /\ barrier' \in [Shards -> GenerationBarrier]
    BY Zenon, <1>0, <1>4, <2>1, BarrierLeft
       DEF ReadHolderForUpdate, BarrierDrained, locks, BarrierPoints, DrainedPoints
  <2>3. HolderEffect(w, z) /\ holder' \in [Shards -> HolderLock]
    BY <1>0, <1>4, <2>1, HolderReaderEnters, Zenon
       DEF ReadHolderForUpdate, locks, HolderPoints, UpgradablePoints
  <2>4. UpdateLockEffect(w, z) /\ update_op' \in [Shards -> UpdateLock]
    BY Zenon, <1>0, <1>4, <2>1, UpdateLockLeft DEF ReadHolderForUpdate, locks
  <2> QED
    BY Zenon, <1>0, <2>1, <2>2, <2>3, <2>4 DEF WorkerEffect, LockTypes, UpdaterPoints
<1>5. CASE EndUpdate(w)
  <2>1. /\ pc[w] = "apply" /\ pc'[w] \in {"idle", "record"}
        /\ pc' = [pc EXCEPT ![w] = pc'[w]]
        /\ UNCHANGED <<at, slots, taken, answered>>
    BY Zenon, <1>0, <1>5 DEF EndUpdate, Goto, PointTypes, UpdaterPoints, reservation, locks
  <2>2. BarrierEffect(w, z) /\ barrier' \in [Shards -> GenerationBarrier]
    BY Zenon, <1>0, <1>5, <2>1, BarrierGives DEF EndUpdate, locks, BarrierPoints, DrainedPoints
  <2>3. HolderEffect(w, z) /\ holder' \in [Shards -> HolderLock]
    BY <1>0, <1>5, <2>1, HolderReaderLeaves, Zenon
       DEF EndUpdate, locks, HolderPoints, UpgradablePoints
  <2>4. UpdateLockEffect(w, z) /\ update_op' \in [Shards -> UpdateLock]
    BY <1>0, <1>5, <2>1, UpdateLockGives, Zenon DEF EndUpdate
  <2> QED
    BY Zenon, <1>0, <2>1, <2>2, <2>3, <2>4 DEF WorkerEffect, LockTypes, UpdaterPoints
<1>6. CASE TakeHolder(w)
  <2>1. /\ pc[w] = "record" /\ pc'[w] = "record_drain"
        /\ pc' = [pc EXCEPT ![w] = pc'[w]]
        /\ UNCHANGED <<at, slots, taken, answered>>
    BY Zenon, <1>0, <1>6 DEF TakeHolder, Goto, PointTypes, UpdaterPoints, reservation, locks
  <2>2. BarrierEffect(w, z) /\ barrier' \in [Shards -> GenerationBarrier]
    BY Zenon, <1>0, <1>6, <2>1, BarrierLeft DEF TakeHolder, locks, BarrierPoints, DrainedPoints
  <2>3. HolderEffect(w, z) /\ holder' \in [Shards -> HolderLock]
    BY Zenon, <1>0, <1>6, <2>1, HolderTakes DEF TakeHolder, locks, HolderPoints, UpgradablePoints
  <2>4. UpdateLockEffect(w, z) /\ update_op' \in [Shards -> UpdateLock]
    BY Zenon, <1>0, <1>6, <2>1, UpdateLockLeft DEF TakeHolder, locks
  <2> QED
    BY Zenon, <1>0, <2>1, <2>2, <2>3, <2>4 DEF WorkerEffect, LockTypes, UpdaterPoints
<1>7. CASE RecordOutcome(w)
  <2>1. /\ pc[w] = "record_drain" /\ pc'[w] = "idle"
        /\ pc' = [pc EXCEPT ![w] = pc'[w]]
        /\ UNCHANGED <<at, slots, taken, answered>>
    BY Zenon, <1>0, <1>7 DEF RecordOutcome, Goto, PointTypes, UpdaterPoints, reservation, locks
  <2>2. BarrierEffect(w, z) /\ barrier' \in [Shards -> GenerationBarrier]
    BY Zenon, <1>0, <1>7, <2>1, BarrierLeft DEF RecordOutcome, locks, BarrierPoints, DrainedPoints
  <2>3. HolderEffect(w, z) /\ holder' \in [Shards -> HolderLock]
    BY Zenon, <1>0, <1>7, <2>1, HolderGives DEF RecordOutcome, locks, HolderPoints, UpgradablePoints
  <2>4. UpdateLockEffect(w, z) /\ update_op' \in [Shards -> UpdateLock]
    BY Zenon, <1>0, <1>7, <2>1, UpdateLockLeft DEF RecordOutcome, locks
  <2> QED
    BY Zenon, <1>0, <2>1, <2>2, <2>3, <2>4 DEF WorkerEffect, LockTypes, UpdaterPoints
<1> QED
  BY Zenon, <1>1, <1>2, <1>3, <1>4, <1>5, <1>6, <1>7 DEF UpdaterAct, UpdateStep

\* An optimizer task.
LEMMA OptimizerEffects ==
    ASSUME LocksInv, NEW w \in Optimizers, OptimizerAct(w)
    PROVE  WorkerEffect(w)
<1> DEFINE z == ShardOf[w]
<1>0. /\ w \in Workers /\ LocksInv /\ LockTypes /\ PointTypes
      /\ z \in Shards /\ w \in Threads /\ w # None
      /\ w \in Optimizers /\ w \notin Updaters
      /\ barrier[z].writer = w <=> pc[w] \in BarrierPoints
      /\ holder[z].writer = w <=> pc[w] \in HolderPoints
      /\ holder[z].upgradable = w <=> pc[w] \in UpgradablePoints
      /\ w \in holder[z].readers <=> pc[w] = "apply"
      /\ update_op[z].writer = w <=> pc[w] \in {"barrier", "drain", "apply"}
      /\ pc[w] \in DrainedPoints => barrier[z].readers = {}
      /\ update_op[z].writer # None => update_op[z].readers = {}
  BY OwnLocks, LocksAssumption, Zenon DEF Workers
<1>1. CASE StartOptimization(w)
  <2>1. /\ pc[w] = "idle" /\ pc'[w] = "wrap"
        /\ pc' = [pc EXCEPT ![w] = pc'[w]]
        /\ UNCHANGED <<at, slots, taken, answered>>
    BY Zenon, <1>0, <1>1 DEF StartOptimization, Goto, PointTypes, OptimizerPoints, reservation, locks
  <2>2. BarrierEffect(w, z) /\ barrier' \in [Shards -> GenerationBarrier]
    BY Zenon, <1>0, <1>1, <2>1, BarrierLeft DEF StartOptimization, locks, BarrierPoints, DrainedPoints
  <2>3. HolderEffect(w, z) /\ holder' \in [Shards -> HolderLock]
    BY Zenon, <1>0, <1>1, <2>1, UpgradableTakes
       DEF StartOptimization, locks, HolderPoints, UpgradablePoints
  <2>4. UpdateLockEffect(w, z) /\ update_op' \in [Shards -> UpdateLock]
    BY Zenon, <1>0, <1>1, <2>1, UpdateLockLeft DEF StartOptimization, locks
  <2> QED
    BY Zenon, <1>0, <2>1, <2>2, <2>3, <2>4 DEF WorkerEffect, LockTypes, OptimizerPoints
<1>2. CASE UpgradeHolder(w)
  <2>1. /\ \/ pc[w] = "wrap" /\ pc'[w] = "install"
           \/ /\ pc[w] = "finish_drain" /\ pc'[w] = "publish"
              /\ barrier[z].readers = {}
        /\ pc' = [pc EXCEPT ![w] = pc'[w]]
        /\ UNCHANGED <<at, slots, taken, answered>>
    BY Zenon, <1>0, <1>2
       DEF UpgradeHolder, Goto, PointTypes, OptimizerPoints, reservation, locks, BarrierDrained
  <2>2. BarrierEffect(w, z) /\ barrier' \in [Shards -> GenerationBarrier]
    BY Zenon, <1>0, <1>2, <2>1, BarrierLeft DEF UpgradeHolder, locks, BarrierPoints, DrainedPoints
  <2>3. HolderEffect(w, z) /\ holder' \in [Shards -> HolderLock]
    BY Zenon, <1>0, <1>2, <2>1, HolderUpgrades DEF UpgradeHolder, locks, HolderPoints, UpgradablePoints
  <2>4. UpdateLockEffect(w, z) /\ update_op' \in [Shards -> UpdateLock]
    BY Zenon, <1>0, <1>2, <2>1, UpdateLockLeft DEF UpgradeHolder, locks
  <2> QED
    BY Zenon, <1>0, <2>1, <2>2, <2>3, <2>4 DEF WorkerEffect, LockTypes, OptimizerPoints
<1>3. CASE InstallProxies(w)
  <2>1. /\ pc[w] = "install" /\ pc'[w] = "build"
        /\ pc' = [pc EXCEPT ![w] = pc'[w]]
        /\ UNCHANGED <<at, slots, taken, answered>>
    BY Zenon, <1>0, <1>3 DEF InstallProxies, Goto, PointTypes, OptimizerPoints, reservation, locks
  <2>2. BarrierEffect(w, z) /\ barrier' \in [Shards -> GenerationBarrier]
    BY Zenon, <1>0, <1>3, <2>1, BarrierLeft DEF InstallProxies, locks, BarrierPoints, DrainedPoints
  <2>3. HolderEffect(w, z) /\ holder' \in [Shards -> HolderLock]
    BY Zenon, <1>0, <1>3, <2>1, HolderGives DEF InstallProxies, locks, HolderPoints, UpgradablePoints
  <2>4. UpdateLockEffect(w, z) /\ update_op' \in [Shards -> UpdateLock]
    BY Zenon, <1>0, <1>3, <2>1, UpdateLockLeft DEF InstallProxies, locks
  <2> QED
    BY Zenon, <1>0, <2>1, <2>2, <2>3, <2>4 DEF WorkerEffect, LockTypes, OptimizerPoints
<1>4. CASE FailBuild(w)
  <2>1. /\ pc[w] = "build" /\ pc'[w] = "rollback"
        /\ pc' = [pc EXCEPT ![w] = pc'[w]]
        /\ UNCHANGED <<at, slots, taken, answered>>
    BY Zenon, <1>0, <1>4 DEF FailBuild, Goto, PointTypes, OptimizerPoints, reservation, locks
  <2>2. BarrierEffect(w, z) /\ barrier' \in [Shards -> GenerationBarrier]
    BY Zenon, <1>0, <1>4, <2>1, BarrierLeft DEF FailBuild, locks, BarrierPoints, DrainedPoints
  <2>3. HolderEffect(w, z) /\ holder' \in [Shards -> HolderLock]
    BY Zenon, <1>0, <1>4, <2>1, HolderLeft DEF FailBuild, locks, HolderPoints, UpgradablePoints
  <2>4. UpdateLockEffect(w, z) /\ update_op' \in [Shards -> UpdateLock]
    BY Zenon, <1>0, <1>4, <2>1, UpdateLockLeft DEF FailBuild, locks
  <2> QED
    BY Zenon, <1>0, <2>1, <2>2, <2>3, <2>4 DEF WorkerEffect, LockTypes, OptimizerPoints
<1>5. CASE StartFinish(w)
  <2>1. /\ pc[w] = "build" /\ pc'[w] = "finish_barrier"
        /\ pc' = [pc EXCEPT ![w] = pc'[w]]
        /\ UNCHANGED <<at, slots, taken, answered>>
    BY Zenon, <1>0, <1>5 DEF StartFinish, Goto, PointTypes, OptimizerPoints, reservation, locks
  <2>2. BarrierEffect(w, z) /\ barrier' \in [Shards -> GenerationBarrier]
    BY Zenon, <1>0, <1>5, <2>1, BarrierLeft DEF StartFinish, locks, BarrierPoints, DrainedPoints
  <2>3. HolderEffect(w, z) /\ holder' \in [Shards -> HolderLock]
    BY Zenon, <1>0, <1>5, <2>1, UpgradableTakes DEF StartFinish, locks, HolderPoints, UpgradablePoints
  <2>4. UpdateLockEffect(w, z) /\ update_op' \in [Shards -> UpdateLock]
    BY Zenon, <1>0, <1>5, <2>1, UpdateLockLeft DEF StartFinish, locks
  <2> QED
    BY Zenon, <1>0, <2>1, <2>2, <2>3, <2>4 DEF WorkerEffect, LockTypes, OptimizerPoints
<1>6. CASE TakeBarrier(w)
  <2>1. /\ \/ pc[w] = "finish_barrier" /\ pc'[w] = "finish_drain"
           \/ pc[w] = "rollback" /\ pc'[w] = "rollback_drain"
        /\ pc' = [pc EXCEPT ![w] = pc'[w]]
        /\ UNCHANGED <<at, slots, taken, answered>>
    BY Zenon, <1>0, <1>6 DEF TakeBarrier, Goto, PointTypes, OptimizerPoints, reservation, locks
  <2>2. BarrierEffect(w, z) /\ barrier' \in [Shards -> GenerationBarrier]
    BY Zenon, <1>0, <1>6, <2>1, BarrierTakes DEF TakeBarrier, locks, BarrierPoints, DrainedPoints
  <2>3. HolderEffect(w, z) /\ holder' \in [Shards -> HolderLock]
    BY Zenon, <1>0, <1>6, <2>1, HolderLeft DEF TakeBarrier, locks, HolderPoints, UpgradablePoints
  <2>4. UpdateLockEffect(w, z) /\ update_op' \in [Shards -> UpdateLock]
    BY Zenon, <1>0, <1>6, <2>1, UpdateLockLeft DEF TakeBarrier, locks
  <2> QED
    BY Zenon, <1>0, <2>1, <2>2, <2>3, <2>4 DEF WorkerEffect, LockTypes, OptimizerPoints
<1>7. CASE FailFinish(w)
  <2>1. /\ pc[w] = "finish_drain" /\ pc'[w] = "rollback"
        /\ pc' = [pc EXCEPT ![w] = pc'[w]]
        /\ UNCHANGED <<at, slots, taken, answered>>
    BY Zenon, <1>0, <1>7 DEF FailFinish, Goto, PointTypes, OptimizerPoints, reservation, locks
  <2>2. BarrierEffect(w, z) /\ barrier' \in [Shards -> GenerationBarrier]
    BY Zenon, <1>0, <1>7, <2>1, BarrierGives DEF FailFinish, locks, BarrierPoints, DrainedPoints
  <2>3. HolderEffect(w, z) /\ holder' \in [Shards -> HolderLock]
    BY <1>0, <1>7, <2>1, UpgradableGives, Zenon
       DEF FailFinish, locks, HolderPoints, UpgradablePoints
  <2>4. UpdateLockEffect(w, z) /\ update_op' \in [Shards -> UpdateLock]
    BY Zenon, <1>0, <1>7, <2>1, UpdateLockLeft DEF FailFinish, locks
  <2> QED
    BY Zenon, <1>0, <2>1, <2>2, <2>3, <2>4 DEF WorkerEffect, LockTypes, OptimizerPoints
<1>8. CASE Publish(w)
  <2>1. /\ pc[w] = "publish" /\ pc'[w] = "idle"
        /\ pc' = [pc EXCEPT ![w] = pc'[w]]
        /\ UNCHANGED <<at, slots, taken, answered>>
    BY Zenon, <1>0, <1>8 DEF Publish, Goto, PointTypes, OptimizerPoints, reservation, locks
  <2>2. BarrierEffect(w, z) /\ barrier' \in [Shards -> GenerationBarrier]
    BY Zenon, <1>0, <1>8, <2>1, BarrierGives DEF Publish, locks, BarrierPoints, DrainedPoints
  <2>3. HolderEffect(w, z) /\ holder' \in [Shards -> HolderLock]
    BY Zenon, <1>0, <1>8, <2>1, HolderGives DEF Publish, locks, HolderPoints, UpgradablePoints
  <2>4. UpdateLockEffect(w, z) /\ update_op' \in [Shards -> UpdateLock]
    BY Zenon, <1>0, <1>8, <2>1, UpdateLockLeft DEF Publish, locks
  <2> QED
    BY Zenon, <1>0, <2>1, <2>2, <2>3, <2>4 DEF WorkerEffect, LockTypes, OptimizerPoints
<1>9. CASE CollectProxies(w)
  <2>1. /\ pc[w] = "rollback_drain" /\ pc'[w] = "replace"
        /\ pc' = [pc EXCEPT ![w] = pc'[w]]
        /\ UNCHANGED <<at, slots, taken, answered>>
    BY Zenon, <1>0, <1>9 DEF CollectProxies, Goto, PointTypes, OptimizerPoints, reservation, locks
  <2>2. BarrierEffect(w, z) /\ barrier' \in [Shards -> GenerationBarrier]
    BY Zenon, <1>0, <1>9, <2>1, BarrierLeft
       DEF CollectProxies, BarrierDrained, locks, BarrierPoints, DrainedPoints
  <2>3. HolderEffect(w, z) /\ holder' \in [Shards -> HolderLock]
    BY Zenon, <1>0, <1>9, <2>1, HolderLeft DEF CollectProxies, locks, HolderPoints, UpgradablePoints
  <2>4. UpdateLockEffect(w, z) /\ update_op' \in [Shards -> UpdateLock]
    BY Zenon, <1>0, <1>9, <2>1, UpdateLockLeft DEF CollectProxies, locks
  <2> QED
    BY Zenon, <1>0, <2>1, <2>2, <2>3, <2>4 DEF WorkerEffect, LockTypes, OptimizerPoints
<1>10. CASE FailPropagation(w)
  <2>1. /\ pc[w] = "replace" /\ pc'[w] = "idle"
        /\ pc' = [pc EXCEPT ![w] = pc'[w]]
        /\ UNCHANGED <<at, slots, taken, answered>>
    BY Zenon, <1>0, <1>10 DEF FailPropagation, Goto, PointTypes, OptimizerPoints, reservation, locks
  <2>2. BarrierEffect(w, z) /\ barrier' \in [Shards -> GenerationBarrier]
    BY Zenon, <1>0, <1>10, <2>1, BarrierGives DEF FailPropagation, locks, BarrierPoints, DrainedPoints
  <2>3. HolderEffect(w, z) /\ holder' \in [Shards -> HolderLock]
    BY Zenon, <1>0, <1>10, <2>1, HolderLeft DEF FailPropagation, locks, HolderPoints, UpgradablePoints
  <2>4. UpdateLockEffect(w, z) /\ update_op' \in [Shards -> UpdateLock]
    BY Zenon, <1>0, <1>10, <2>1, UpdateLockLeft DEF FailPropagation, locks
  <2> QED
    BY Zenon, <1>0, <2>1, <2>2, <2>3, <2>4 DEF WorkerEffect, LockTypes, OptimizerPoints
<1>11. CASE TakeHolder(w)
  <2>1. /\ pc[w] = "replace" /\ pc'[w] = "replace_drain"
        /\ pc' = [pc EXCEPT ![w] = pc'[w]]
        /\ UNCHANGED <<at, slots, taken, answered>>
    BY Zenon, <1>0, <1>11 DEF TakeHolder, Goto, PointTypes, OptimizerPoints, reservation, locks
  <2>2. BarrierEffect(w, z) /\ barrier' \in [Shards -> GenerationBarrier]
    BY Zenon, <1>0, <1>11, <2>1, BarrierLeft DEF TakeHolder, locks, BarrierPoints, DrainedPoints
  <2>3. HolderEffect(w, z) /\ holder' \in [Shards -> HolderLock]
    BY Zenon, <1>0, <1>11, <2>1, HolderTakes DEF TakeHolder, locks, HolderPoints, UpgradablePoints
  <2>4. UpdateLockEffect(w, z) /\ update_op' \in [Shards -> UpdateLock]
    BY Zenon, <1>0, <1>11, <2>1, UpdateLockLeft DEF TakeHolder, locks
  <2> QED
    BY Zenon, <1>0, <2>1, <2>2, <2>3, <2>4 DEF WorkerEffect, LockTypes, OptimizerPoints
<1>12. CASE ReplaceProxies(w)
  <2>1. /\ pc[w] = "replace_drain" /\ pc'[w] = "idle"
        /\ pc' = [pc EXCEPT ![w] = pc'[w]]
        /\ UNCHANGED <<at, slots, taken, answered>>
    BY Zenon, <1>0, <1>12 DEF ReplaceProxies, Goto, PointTypes, OptimizerPoints, reservation, locks
  <2>2. BarrierEffect(w, z) /\ barrier' \in [Shards -> GenerationBarrier]
    BY Zenon, <1>0, <1>12, <2>1, BarrierGives DEF ReplaceProxies, locks, BarrierPoints, DrainedPoints
  <2>3. HolderEffect(w, z) /\ holder' \in [Shards -> HolderLock]
    BY Zenon, <1>0, <1>12, <2>1, HolderGives DEF ReplaceProxies, locks, HolderPoints, UpgradablePoints
  <2>4. UpdateLockEffect(w, z) /\ update_op' \in [Shards -> UpdateLock]
    BY Zenon, <1>0, <1>12, <2>1, UpdateLockLeft DEF ReplaceProxies, locks
  <2> QED
    BY Zenon, <1>0, <2>1, <2>2, <2>3, <2>4 DEF WorkerEffect, LockTypes, OptimizerPoints
<1> QED
  BY Zenon, <1>1, <1>2, <1>3, <1>4, <1>5, <1>6, <1>7, <1>8, <1>9, <1>10, <1>11, <1>12
     DEF OptimizerAct, OptimizerStep

-----------------------------------------------------------------------------
(* What a step of a request does.                                          *)

\* It asks for an update lock, ...
Asks(r) ==
    /\ pc[r] = "idle" /\ pc'[r] = "update_lock" /\ r \notin answered
    /\ UNCHANGED <<barrier, at, answered>>
    /\ update_op'[Here(r)].readers = update_op[Here(r)].readers
    /\ update_op'[Here(r)].queue = Append(update_op[Here(r)].queue, r)
    /\ \A s \in Shards \ {Here(r)} : update_op'[s] = update_op[s]

\* ... gets it, ...
Gets(r) ==
    /\ pc[r] = "update_lock" /\ pc'[r] = IF Last(r) THEN "count" ELSE "idle"
    /\ at'[r] = NextShard(r)
    /\ UNCHANGED <<barrier, answered>>
    /\ update_op[Here(r)].writer = None
    /\ update_op[Here(r)].queue # <<>> /\ Head(update_op[Here(r)].queue) = r
    /\ update_op'[Here(r)].readers = update_op[Here(r)].readers \cup {r}
    /\ update_op'[Here(r)].queue = Tail(update_op[Here(r)].queue)
    /\ \A s \in Shards \ {Here(r)} : update_op'[s] = update_op[s]

\* ... drops every lock it has, ...
Drops(r) ==
    /\ pc'[r] = "idle" /\ answered' = answered \cup {r} /\ at' = at
    /\ \A s \in Shards : /\ r \notin barrier'[s].readers
                         /\ barrier'[s].readers \subseteq barrier[s].readers
                         /\ update_op'[s].readers = update_op[s].readers \ {r}
                         /\ update_op'[s].queue = Leave(update_op[s].queue, r)

\* ... pins a generation, ...
Pins(r) ==
    /\ pc[r] = "pin" /\ pc'[r] = "clone"
    /\ barrier[Here(r)].writer = None
    /\ barrier'[Here(r)].readers = barrier[Here(r)].readers \cup {r}
    /\ \A s \in Shards \ {Here(r)} : barrier'[s] = barrier[s]
    /\ UNCHANGED <<update_op, at, answered>>

\* ... or goes on with the update locks it has.
Advances(r) ==
    /\ pc[r] \in LockedPoints /\ pc'[r] \in LockedPoints
    /\ UNCHANGED <<update_op, barrier>>
    /\ InTask(r) => \/ pc'[r] = pc[r] /\ at' = at
                    \/ pc[r] = "clone" /\ pc'[r] = "execute"
                    \/ pc[r] = "clone" /\ pc'[r] = "pin" /\ at'[r] = at[r] + 1

RequestEffect(r) ==
    /\ pc' = [pc EXCEPT ![r] = pc'[r]] /\ pc'[r] \in RequestPoints
    /\ at' = [at EXCEPT ![r] = at'[r]] /\ at'[r] \in 1 .. Len(Order[r])
    /\ answered' \in {answered, answered \cup {r}}
    /\ holder' = holder
    /\ LockTypes'
    /\ \A s \in Shards : /\ barrier'[s].writer = barrier[s].writer
                         /\ update_op'[s].writer = update_op[s].writer
    /\ Asks(r) \/ Gets(r) \/ Drops(r) \/ Pins(r) \/ Advances(r)

LEMMA RequestEffects ==
    ASSUME LocksInv, NEW r \in Requests, RequestAct(r)
    PROVE  RequestEffect(r)
<1> DEFINE z == Here(r)
<1>0. /\ LockTypes /\ PointTypes /\ QueueInv /\ TypeOK
      /\ z \in Shards /\ at \in [Requests -> Nat] /\ at[r] \in 1 .. Len(Order[r])
      /\ NextShard(r) \in 1 .. Len(Order[r]) /\ r \in Threads
  BY Zenon, PositionInOrder DEF LocksInv, TypeOK, PointTypes, Threads
<1>1. CASE RequestUpdateLock(r)
  <2>1. /\ pc[r] = "idle" /\ pc'[r] = "update_lock" /\ r \notin answered
        /\ pc' = [pc EXCEPT ![r] = pc'[r]] /\ UNCHANGED <<barrier, holder, at, answered>>
        /\ Enqueue(z, r)
    BY Zenon, <1>0, <1>1 DEF RequestUpdateLock, Goto, PointTypes
  <2>2. /\ update_op' \in [Shards -> UpdateLock]
        /\ update_op'[z].writer = update_op[z].writer
        /\ update_op'[z].readers = update_op[z].readers
        /\ update_op'[z].queue = Append(update_op[z].queue, r)
        /\ \A x \in Shards \ {z} : update_op'[x] = update_op[x]
    BY Zenon, <1>0, <2>1, Enqueued
  <2>3. Asks(r)
    BY Zenon, <2>1, <2>2 DEF Asks
  <2>4. LockTypes'
    BY Zenon, <1>0, <2>1, <2>2 DEF LockTypes
  <2>5. at' = [at EXCEPT ![r] = at'[r]]
    BY Zenon, <1>0, <2>1
  <2> QED
    BY Zenon, <1>0, <2>1, <2>2, <2>3, <2>4, <2>5 DEF RequestEffect, RequestPoints
<1>2. CASE GetUpdateLock(r)
  <2>1. /\ pc[r] = "update_lock" /\ pc'[r] = IF Last(r) THEN "count" ELSE "idle"
        /\ pc' = [pc EXCEPT ![r] = pc'[r]] /\ UNCHANGED <<barrier, holder, answered>>
        /\ at' = [at EXCEPT ![r] = at'[r]] /\ at'[r] = NextShard(r)
        /\ ReadUpdateOp(z, r)
    BY Zenon, <1>0, <1>2 DEF GetUpdateLock, Goto, PointTypes
  <2>2. /\ update_op' \in [Shards -> UpdateLock]
        /\ update_op[z].queue # <<>> /\ Head(update_op[z].queue) = r
        /\ update_op[z].writer = None /\ update_op'[z].writer = None
        /\ update_op'[z].readers = update_op[z].readers \cup {r}
        /\ update_op'[z].queue = Tail(update_op[z].queue)
        /\ \A x \in Shards \ {z} : update_op'[x] = update_op[x]
    BY Zenon, <1>0, <2>1, ReadEntered
  <2>3. Gets(r)
    BY Zenon, <2>1, <2>2 DEF Gets
  <2>4. LockTypes'
    BY Zenon, <1>0, <2>1, <2>2 DEF LockTypes
  <2> QED
    BY Zenon, <1>0, <2>1, <2>2, <2>3, <2>4 DEF RequestEffect, RequestPoints
<1>3. CASE DropRequest(r) \/ RefuseReservation(r)
  <2>1. /\ pc[r] \in {"idle", "update_lock", "reserve_again", "coordinator_again"}
        /\ pc'[r] = "idle" /\ pc' = [pc EXCEPT ![r] = pc'[r]]
        /\ answered' = answered \cup {r} /\ UNCHANGED <<barrier, holder, at>>
        /\ ReleaseUpdateLocks(r)
    BY Zenon, <1>0, <1>3 DEF DropRequest, RefuseReservation, PointTypes
  <2>2. /\ update_op' \in [Shards -> UpdateLock]
        /\ \A s \in Shards :
              /\ update_op'[s].readers = update_op[s].readers \ {r}
              /\ update_op'[s].writer = update_op[s].writer
              /\ update_op'[s].queue = Leave(update_op[s].queue, r)
    BY Zenon, <1>0, <2>1, Released
  <2>3. \A s \in Shards : r \notin barrier[s].readers
    BY Zenon, <2>1 DEF LocksInv, RequestPins
  <2>4. Drops(r)
    BY Zenon, <2>1, <2>2, <2>3 DEF Drops
  <2>5. LockTypes'
    BY Zenon, <1>0, <2>1, <2>2 DEF LockTypes
  <2>6. at' = [at EXCEPT ![r] = at'[r]]
    BY Zenon, <1>0, <2>1
  <2> QED
    BY Zenon, <1>0, <2>1, <2>2, <2>4, <2>5, <2>6 DEF RequestEffect, RequestPoints
<1>4. CASE FinishTask(r)
  <2>1. /\ pc'[r] = "idle" /\ pc' = [pc EXCEPT ![r] = pc'[r]]
        /\ answered' = answered \cup {r} /\ UNCHANGED <<holder, at>>
        /\ ReleaseUpdateLocks(r)
        /\ barrier' = [s \in Shards |-> [barrier[s] EXCEPT !.readers = @ \ {r}]]
    BY Zenon, <1>0, <1>4 DEF FinishTask, Goto, PointTypes
  <2>2. /\ update_op' \in [Shards -> UpdateLock]
        /\ \A s \in Shards :
              /\ update_op'[s].readers = update_op[s].readers \ {r}
              /\ update_op'[s].writer = update_op[s].writer
              /\ update_op'[s].queue = Leave(update_op[s].queue, r)
    BY Zenon, <1>0, <2>1, Released
  <2>3. /\ barrier' \in [Shards -> GenerationBarrier]
        /\ \A s \in Shards : /\ barrier'[s].writer = barrier[s].writer
                             /\ barrier'[s].readers = barrier[s].readers \ {r}
    BY <1>0, <2>1, Unpinned, Zenon
  <2>4. Drops(r)
    BY Zenon, <2>1, <2>2, <2>3 DEF Drops
  <2>5. LockTypes'
    BY Zenon, <1>0, <2>1, <2>2, <2>3 DEF LockTypes
  <2>6. at' = [at EXCEPT ![r] = at'[r]]
    BY Zenon, <1>0, <2>1
  <2> QED
    BY Zenon, <1>0, <2>1, <2>2, <2>3, <2>4, <2>5, <2>6 DEF RequestEffect, RequestPoints
<1>5. CASE Pin(r)
  <2>1. /\ pc[r] = "pin" /\ pc'[r] = "clone" /\ pc' = [pc EXCEPT ![r] = pc'[r]]
        /\ barrier[z].writer = None
        /\ barrier' = [barrier EXCEPT ![z].readers = @ \cup {r}]
        /\ UNCHANGED <<update_op, holder, at, answered>>
    BY Zenon, <1>0, <1>5 DEF Pin, Goto, PointTypes
  <2>2. /\ barrier' \in [Shards -> GenerationBarrier]
        /\ barrier'[z].writer = barrier[z].writer
        /\ barrier'[z].readers = barrier[z].readers \cup {r}
        /\ \A x \in Shards \ {z} : barrier'[x] = barrier[x]
    BY <1>0, <2>1, BarrierReadersSet, Zenon
  <2>3. Pins(r)
    BY Zenon, <2>1, <2>2 DEF Pins
  <2>4. LockTypes'
    BY Zenon, <1>0, <2>1, <2>2 DEF LockTypes
  <2>5. at' = [at EXCEPT ![r] = at'[r]]
    BY Zenon, <1>0, <2>1
  <2> QED
    BY Zenon, <1>0, <2>1, <2>2, <2>3, <2>4, <2>5 DEF RequestEffect, RequestPoints
<1>6. CASE \/ CountSegments(r) \/ ReserveReader(r) \/ ReserveCoordinator(r)
           \/ TryOtherWay(r) \/ CloneHandles(r) \/ TimeOut(r)
  <2>1. UNCHANGED locks /\ answered' \in {answered, answered \cup {r}}
    BY Zenon, <1>6 DEF CountSegments, ReserveReader, ReserveCoordinator, TryOtherWay,
                CloneHandles, TimeOut
  <2>2. /\ pc[r] \in LockedPoints /\ pc'[r] \in LockedPoints
        /\ pc' = [pc EXCEPT ![r] = pc'[r]]
    BY Zenon, <1>0, <1>6 DEF CountSegments, ReserveReader, ReserveCoordinator, TryOtherWay,
                CloneHandles, TimeOut, Goto, PointTypes, InTask, LockedPoints
  <2>3. at' = [at EXCEPT ![r] = at'[r]] /\ at'[r] \in 1 .. Len(Order[r])
    BY Zenon, <1>0, <1>6 DEF CountSegments, ReserveReader, ReserveCoordinator, TryOtherWay,
                CloneHandles, TimeOut, PointTypes
  <2>4. InTask(r) => \/ pc'[r] = pc[r] /\ at' = at
                     \/ pc[r] = "clone" /\ pc'[r] = "execute"
                     \/ pc[r] = "clone" /\ pc'[r] = "pin" /\ at'[r] = at[r] + 1
    <3>1. CASE TimeOut(r)
      BY Zenon, <3>1 DEF TimeOut
    <3>2. CASE CloneHandles(r)
      BY Zenon, <1>0, <3>2 DEF CloneHandles, Goto, PointTypes, NextShard
    <3>3. CASE ~TimeOut(r) /\ ~CloneHandles(r)
      BY Zenon, <1>6, <3>3 DEF CountSegments, ReserveReader, ReserveCoordinator, TryOtherWay,
                Goto, InTask
    <3> QED
      BY Zenon, <3>1, <3>2, <3>3
  <2>5. Advances(r)
    BY Zenon, <2>1, <2>2, <2>4 DEF Advances, locks
  <2>6. LockTypes'
    BY Zenon, <1>0, <2>1 DEF LockTypes, locks
  <2> QED
    BY Zenon, <2>1, <2>2, <2>3, <2>5, <2>6 DEF RequestEffect, RequestPoints, LockedPoints, locks
<1> QED
  BY Zenon, <1>1, <1>2, <1>3, <1>4, <1>5, <1>6 DEF RequestAct, RequestStep

-----------------------------------------------------------------------------
(* A step of a request keeps the invariant.                                *)

\* The other threads stay where they are.
LEMMA RequestOthers ==
    ASSUME LocksInv, NEW r \in Requests, RequestEffect(r)
    PROVE  /\ \A t \in Threads \ {r} : pc'[t] = pc[t]
           /\ \A t \in Workers : t \in Threads \ {r} /\ pc'[t] = pc[t]
           /\ \A x \in Requests \ {r} : /\ pc'[x] = pc[x] /\ at'[x] = at[x]
                                        /\ x \in answered' <=> x \in answered
           /\ \A t \in Threads \ {r} : Here(t)' = Here(t)
<1>1. /\ pc \in [Threads -> RequestPoints \cup UpdaterPoints \cup OptimizerPoints]
      /\ at \in [Requests -> Nat]
  BY Zenon DEF LocksInv, TypeOK, PointTypes
<1>2. \A t \in Workers : t \in Threads \ {r}
  BY Zenon, LocksAssumption DEF Workers, Threads
<1>3. \A t \in Threads \ {r} : pc'[t] = pc[t]
  BY Zenon, <1>1 DEF RequestEffect
<1>4. \A x \in Requests \ {r} : /\ x \in Threads \ {r} /\ at'[x] = at[x]
                                /\ x \in answered' <=> x \in answered
  BY Zenon, <1>1 DEF RequestEffect, Threads
<1>5. \A t \in Threads \ {r} : Here(t)' = Here(t)
  BY Zenon, <1>4 DEF Here
<1> QED
  BY Zenon, <1>2, <1>3, <1>4, <1>5

LEMMA RequestKeepsWorkerLocks ==
    ASSUME LocksInv, NEW r \in Requests, RequestEffect(r)
    PROVE  WorkerLocks' /\ UpgradableExcludes'
<1>1. /\ holder' = holder
      /\ \A s \in Shards : /\ barrier'[s].writer = barrier[s].writer
                           /\ update_op'[s].writer = update_op[s].writer
  BY Zenon DEF RequestEffect
<1>2. \A t \in Workers : pc'[t] = pc[t]
  BY Zenon, RequestOthers
<1>3. WorkerLocks'
  BY <1>1, <1>2 DEF LocksInv, WorkerLocks
<1>4. UpgradableExcludes'
  BY Zenon, <1>1 DEF LocksInv, UpgradableExcludes
<1> QED
  BY Zenon, <1>3, <1>4

\* Nobody enters a barrier whose writer bit is taken, or an update lock that
\* has a writer.
LEMMA RequestKeepsExclusion ==
    ASSUME LocksInv, NEW r \in Requests, RequestEffect(r)
    PROVE  BarrierIsDrained' /\ UpdateLockExcludes'
<1>0. Here(r) \in Shards /\ \A t \in Workers : ShardOf[t] \in Shards /\ pc'[t] = pc[t]
  BY PositionInOrder, OwnLocks, RequestOthers DEF LocksInv
<1>1. BarrierIsDrained'
  <2> SUFFICES ASSUME NEW t \in Workers, pc[t] \in DrainedPoints
               PROVE  barrier'[ShardOf[t]].readers = {}
    BY Zenon, <1>0 DEF BarrierIsDrained
  <2>1. /\ barrier[ShardOf[t]].readers = {}
        /\ barrier[ShardOf[t]].writer = t /\ t # None
    BY Zenon, OwnLocks DEF DrainedPoints, BarrierPoints
  <2>2. CASE barrier' = barrier
    BY Zenon, <2>1, <2>2
  <2>3. CASE Pins(r)
    BY Zenon, <1>0, <2>1, <2>3 DEF Pins
  <2>4. CASE Drops(r)
    BY Zenon, <1>0, <2>1, <2>4 DEF Drops
  <2> QED
    BY Zenon, <2>2, <2>3, <2>4 DEF RequestEffect, Asks, Gets, Advances
<1>2. UpdateLockExcludes'
  <2> SUFFICES ASSUME NEW s \in Shards, update_op'[s].writer # None
               PROVE  update_op'[s].readers = {}
    BY Zenon DEF UpdateLockExcludes
  <2>1. update_op[s].writer # None /\ update_op[s].readers = {}
    BY Zenon DEF LocksInv, UpdateLockExcludes, RequestEffect
  <2>2. CASE update_op' = update_op
    BY Zenon, <2>1, <2>2
  <2>3. CASE Asks(r)
    BY Zenon, <1>0, <2>1, <2>3 DEF Asks
  <2>4. CASE Gets(r)
    BY Zenon, <1>0, <2>1, <2>4 DEF Gets
  <2>5. CASE Drops(r)
    BY Zenon, <2>1, <2>5 DEF Drops
  <2> QED
    BY Zenon, <2>2, <2>3, <2>4, <2>5 DEF RequestEffect, Pins, Advances
<1> QED
  BY Zenon, <1>1, <1>2

LEMMA RequestKeepsRequestLocks ==
    ASSUME LocksInv, NEW r \in Requests, RequestEffect(r)
    PROVE  RequestLocks'
<1> DEFINE z == Here(r)
           n == Len(Order[r])
<1>0. /\ z \in Shards /\ z = Order[r][at[r]] /\ n \in Nat \ {0} /\ at[r] \in 1 .. n
      /\ \A i \in 1 .. n : Order[r][i] \in Shards
      /\ NextShard(r) = IF at[r] = n THEN 1 ELSE at[r] + 1
  BY Zenon, PositionInOrder DEF LocksInv, NextShard, Last
<1>1. /\ \A i \in 1 .. n :
            (pc[r] \in LockedPoints \/ (pc[r] \in LockingPoints /\ r \notin answered /\ i < at[r]))
                => r \in update_op[Order[r][i]].readers
      /\ \A s \in Shards : r \in update_op[s].readers =>
            \/ pc[r] \in LockedPoints
            \/ pc[r] \in LockingPoints /\ \E i \in 1 .. at[r] - 1 : Order[r][i] = s
      /\ pc[r] = "update_lock" => r \notin answered
  BY Zenon DEF LocksInv, RequestLocks
<1> DEFINE own ==
        /\ \A i \in 1 .. n :
              (pc'[r] \in LockedPoints
                 \/ (pc'[r] \in LockingPoints /\ r \notin answered' /\ i < at'[r]))
                  => r \in update_op'[Order[r][i]].readers
        /\ \A s \in Shards : r \in update_op'[s].readers =>
              \/ pc'[r] \in LockedPoints
              \/ pc'[r] \in LockingPoints /\ \E i \in 1 .. at'[r] - 1 : Order[r][i] = s
        /\ pc'[r] = "update_lock" => r \notin answered'
<1>2. own
  <2>1. CASE Asks(r)
    <3>1. \A s \in Shards : update_op'[s].readers = update_op[s].readers
      BY <1>0, <2>1, Zenon DEF Asks
    <3> QED
      BY <1>0, <1>1, <2>1, <3>1, Zenon DEF Asks, LockingPoints, LockedPoints
  <2>2. CASE Gets(r)
    <3>1. /\ \A s \in Shards \ {z} : update_op'[s].readers = update_op[s].readers
          /\ update_op'[z].readers = update_op[z].readers \cup {r}
      BY Zenon, <1>0, <2>2 DEF Gets
    <3>2. /\ pc[r] = "update_lock" /\ pc'[r] = IF at[r] = n THEN "count" ELSE "idle"
          /\ at'[r] = (IF at[r] = n THEN 1 ELSE at[r] + 1) /\ answered' = answered
      BY Zenon, <1>0, <2>2 DEF Gets, Last
    <3>3. \A i \in 1 .. at[r] : r \in update_op'[Order[r][i]].readers
      <4> SUFFICES ASSUME NEW i \in 1 .. at[r]
                   PROVE  r \in update_op'[Order[r][i]].readers
        BY Zenon
      <4>1. i \in 1 .. n /\ Order[r][i] \in Shards /\ (i = at[r] \/ i < at[r])
        BY <1>0
      <4>2. CASE Order[r][i] = z
        BY Zenon, <3>1, <4>2
      <4>3. CASE Order[r][i] # z
        <5>1. r \in update_op[Order[r][i]].readers
          BY Zenon, <1>0, <1>1, <3>2, <4>1, <4>3 DEF LockingPoints
        <5> QED
          BY Zenon, <3>1, <4>1, <4>3, <5>1
      <4> QED
        BY Zenon, <4>2, <4>3
    <3>4. \A i \in 1 .. n :
              (pc'[r] \in LockedPoints
                 \/ (pc'[r] \in LockingPoints /\ r \notin answered' /\ i < at'[r]))
                  => r \in update_op'[Order[r][i]].readers
      BY <1>0, <3>2, <3>3 DEF LockingPoints, LockedPoints
    <3>5. \A s \in Shards : r \in update_op'[s].readers =>
              \E i \in 1 .. at[r] : Order[r][i] = s
      BY <1>0, <1>1, <3>1, <3>2 DEF LockedPoints
    <3>6. \A s \in Shards : r \in update_op'[s].readers =>
              \/ pc'[r] \in LockedPoints
              \/ pc'[r] \in LockingPoints /\ \E i \in 1 .. at'[r] - 1 : Order[r][i] = s
      BY <1>0, <3>2, <3>5 DEF LockingPoints, LockedPoints
    <3> QED
      BY <3>2, <3>4, <3>6, SMTT(20)
  <2>3. CASE Drops(r)
    <3>1. /\ pc'[r] = "idle" /\ r \in answered'
          /\ \A s \in Shards : r \notin update_op'[s].readers
      BY Zenon, <2>3 DEF Drops
    <3> QED
      BY Zenon, <3>1 DEF LockedPoints
  <2>4. CASE Pins(r) \/ Advances(r)
    <3>1. pc[r] \in LockedPoints /\ pc'[r] \in LockedPoints /\ update_op' = update_op
      BY Zenon, <2>4 DEF Pins, Advances, LockedPoints
    <3> QED
      BY Zenon, <1>0, <1>1, <3>1 DEF LockedPoints
  <2> QED
    BY <2>1, <2>2, <2>3, <2>4, SMTT(20) DEF RequestEffect
<1>3. ASSUME NEW x \in Requests \ {r}
      PROVE  /\ pc'[x] = pc[x] /\ at'[x] = at[x]
             /\ x \in answered' <=> x \in answered
             /\ \A s \in Shards : x \in update_op'[s].readers <=> x \in update_op[s].readers
             /\ \A i \in 1 .. Len(Order[x]) : Order[x][i] \in Shards
  <2>1. \A s \in Shards : x \in update_op'[s].readers <=> x \in update_op[s].readers
    <3>1. CASE update_op' = update_op
      BY <3>1, SMTT(20)
    <3>2. CASE Asks(r)
      BY <1>0, <3>2, Zenon DEF Asks
    <3>3. CASE Gets(r)
      BY Zenon, <1>0, <3>3 DEF Gets
    <3>4. CASE Drops(r)
      BY Zenon, <3>4 DEF Drops
    <3> QED
      BY Zenon, <3>1, <3>2, <3>3, <3>4 DEF RequestEffect, Pins, Advances
  <2> QED
    BY Zenon, <2>1, RequestOthers, PositionInOrder DEF LocksInv
<1> HIDE DEF own
<1>4. ASSUME NEW x \in Requests \ {r}
      PROVE  /\ \A i \in 1 .. Len(Order[x]) :
                  (pc'[x] \in LockedPoints
                     \/ (pc'[x] \in LockingPoints /\ x \notin answered' /\ i < at'[x]))
                      => x \in update_op'[Order[x][i]].readers
             /\ \A s \in Shards : x \in update_op'[s].readers =>
                  \/ pc'[x] \in LockedPoints
                  \/ pc'[x] \in LockingPoints /\ \E i \in 1 .. at'[x] - 1 : Order[x][i] = s
             /\ pc'[x] = "update_lock" => x \notin answered'
  <2>1. /\ \A i \in 1 .. Len(Order[x]) :
              (pc[x] \in LockedPoints \/ (pc[x] \in LockingPoints /\ x \notin answered /\ i < at[x]))
                  => x \in update_op[Order[x][i]].readers
        /\ \A s \in Shards : x \in update_op[s].readers =>
              \/ pc[x] \in LockedPoints
              \/ pc[x] \in LockingPoints /\ \E i \in 1 .. at[x] - 1 : Order[x][i] = s
        /\ pc[x] = "update_lock" => x \notin answered
    BY Zenon DEF LocksInv, RequestLocks
  <2>2. \A i \in 1 .. Len(Order[x]) : x \in update_op'[Order[x][i]].readers
                                        <=> x \in update_op[Order[x][i]].readers
    BY Zenon, <1>3
  <2>3. \A i \in 1 .. Len(Order[x]) :
           (pc'[x] \in LockedPoints
              \/ (pc'[x] \in LockingPoints /\ x \notin answered' /\ i < at'[x]))
               => x \in update_op'[Order[x][i]].readers
    BY Zenon, <1>3, <2>1, <2>2
  <2>4. \A s \in Shards : x \in update_op'[s].readers =>
           \/ pc'[x] \in LockedPoints
           \/ pc'[x] \in LockingPoints /\ \E i \in 1 .. at'[x] - 1 : Order[x][i] = s
    BY Zenon, <1>3, <2>1
  <2> QED
    BY Zenon, <1>3, <2>1, <2>3, <2>4
<1> QED
  BY <1>2, <1>4 DEF own, RequestLocks

LEMMA RequestKeepsPins ==
    ASSUME LocksInv, NEW r \in Requests, RequestEffect(r)
    PROVE  RequestPins'
<1>0. /\ Here(r) \in Shards /\ Here(r) = Order[r][at[r]] /\ at[r] \in 1 .. Len(Order[r])
      /\ Len(Order[r]) \in Nat
  BY Zenon, PositionInOrder DEF LocksInv
<1> SUFFICES ASSUME NEW x \in Requests, NEW s \in Shards, x \in barrier'[s].readers
             PROVE  \/ pc'[x] = "execute"
                    \/ pc'[x] = "pin" /\ \E i \in 1 .. at'[x] - 1 : Order[x][i] = s
                    \/ pc'[x] = "clone" /\ \E i \in 1 .. at'[x] : Order[x][i] = s
  BY Zenon DEF RequestPins
<1>1. x \in barrier[s].readers =>
         \/ pc[x] = "execute"
         \/ pc[x] = "pin" /\ \E i \in 1 .. at[x] - 1 : Order[x][i] = s
         \/ pc[x] = "clone" /\ \E i \in 1 .. at[x] : Order[x][i] = s
  BY Zenon DEF LocksInv, RequestPins
<1>2. CASE x # r
  <2>1. x \in barrier[s].readers
    BY <1>0, <1>2, Zenon DEF RequestEffect, Asks, Gets, Drops, Pins, Advances
  <2>2. pc'[x] = pc[x] /\ at'[x] = at[x]
    BY Zenon, <1>2, RequestOthers
  <2> QED
    BY <1>1, <2>1, <2>2, SMTT(20)
<1>3. CASE x = r
  <2>1. CASE Asks(r) \/ Gets(r)
    BY Zenon, <1>1, <1>3, <2>1 DEF Asks, Gets
  <2>2. CASE Drops(r)
    BY Zenon, <1>3, <2>2 DEF Drops
  <2>3. CASE Pins(r)
    <3>1. CASE s = Here(r)
      BY <1>0, <1>3, <2>3, <3>1 DEF Pins
    <3>2. CASE s # Here(r)
      <4>1. /\ x \in barrier[s].readers /\ pc[r] = "pin" /\ pc'[r] = "clone"
            /\ at'[r] = at[r]
        BY Zenon, <1>3, <2>3, <3>2 DEF Pins
      <4> QED
        BY <1>0, <1>1, <1>3, <4>1
    <3> QED
      BY Zenon, <3>1, <3>2
  <2>4. CASE Advances(r)
    <3>1. x \in barrier[s].readers
      BY Zenon, <2>4 DEF Advances
    <3>2. InTask(r)
      BY Zenon, <1>1, <1>3, <3>1 DEF InTask
    <3>3. \/ pc'[r] = pc[r] /\ at' = at
          \/ pc[r] = "clone" /\ pc'[r] = "execute"
          \/ pc[r] = "clone" /\ pc'[r] = "pin" /\ at'[r] = at[r] + 1
      BY Zenon, <2>4, <3>2 DEF Advances
    <3> QED
      BY <1>0, <1>1, <1>3, <3>1, <3>3
  <2> QED
    BY Zenon, <2>1, <2>2, <2>3, <2>4 DEF RequestEffect
<1> QED
  BY Zenon, <1>2, <1>3

-----------------------------------------------------------------------------
(* The queues.                                                             *)

\* The last of a queue is new to it.
LEMMA AppendOnce ==
    ASSUME NEW S, NEW q \in Seq(S), NEW t \in S, Once(q), t \notin Standing(q)
    PROVE  Once(Append(q, t)) /\ Standing(Append(q, t)) = Standing(q) \cup {t}
<1> DEFINE p == Append(q, t)
<1>1. /\ Len(q) \in Nat /\ Len(p) = Len(q) + 1
      /\ \A i \in 1 .. Len(q) : p[i] = q[i]
      /\ p[Len(q) + 1] = t
  OBVIOUS
<1>2. \A i \in 1 .. Len(q) + 1 : i \in 1 .. Len(q) \/ i = Len(q) + 1
  BY <1>1
<1>3. 1 .. Len(q) \subseteq 1 .. Len(q) + 1 /\ Len(q) + 1 \in 1 .. Len(q) + 1
  BY <1>1
<1> HIDE DEF p
<1>4. \A i \in 1 .. Len(q) : q[i] # t
  BY Zenon DEF Standing
<1>5. Once(p)
  BY Zenon, <1>1, <1>2, <1>4 DEF Once
<1>6. Standing(p) = Standing(q) \cup {t}
  BY Zenon, <1>1, <1>2, <1>3 DEF Standing
<1> QED
  BY Zenon, <1>5, <1>6 DEF p

\* The first of a queue is gone from the rest.
LEMMA TailOnce ==
    ASSUME NEW S, NEW q \in Seq(S), q # <<>>, Once(q)
    PROVE  /\ Once(Tail(q)) /\ Standing(Tail(q)) = Standing(q) \ {Head(q)}
           /\ Head(q) \in Standing(q)
<1> DEFINE p == Tail(q)
<1>1. /\ Len(q) \in Nat \ {0} /\ Len(p) = Len(q) - 1
      /\ \A i \in 1 .. Len(p) : p[i] = q[i + 1]
      /\ Head(q) = q[1]
  OBVIOUS
<1>2. \A i \in 1 .. Len(q) - 1 : i + 1 \in 1 .. Len(q) /\ i + 1 # 1
  BY <1>1
<1>3. /\ 1 \in 1 .. Len(q)
      /\ \A k \in 1 .. Len(q) : k = 1 \/ (k - 1 \in 1 .. Len(q) - 1 /\ (k - 1) + 1 = k)
  BY <1>1
<1>4. \A i, k \in 1 .. Len(q) : q[i] = q[k] => i = k
  BY Zenon DEF Once
<1> HIDE DEF p
<1>5. Once(p)
  BY <1>1, <1>2, <1>4 DEF Once
<1>6. \A i \in 1 .. Len(p) : p[i] # Head(q) /\ \E k \in 1 .. Len(q) : q[k] = p[i]
  BY <1>1, <1>2, <1>3, <1>4
<1>7. \A k \in 1 .. Len(q) : q[k] = Head(q) \/ \E i \in 1 .. Len(p) : p[i] = q[k]
  BY <1>1, <1>3, Zenon
<1>8. Standing(p) = Standing(q) \ {Head(q)}
  BY <1>6, <1>7, SMTT(20) DEF Standing
<1>9. Head(q) \in Standing(q)
  BY Zenon, <1>1, <1>3 DEF Standing
<1> QED
  BY Zenon, <1>5, <1>8, <1>9 DEF p

LEMMA WhereIsHere ==
    ASSUME LocksInv, NEW x \in Threads
    PROVE  Where[x] = Here(x) /\ Where'[x] = Here(x)' /\ Where[x] \in Shards
<1>1. Where[x] = Here(x) /\ Where'[x] = Here(x)'
  BY Zenon DEF Where
<1>2. Here(x) \in Shards
  BY Zenon, PositionInOrder, LocksAssumption DEF LocksInv, Here, Threads
<1> QED
  BY Zenon, <1>1, <1>2

\* t alone moves, and enters the queue of z, leaves its head, or does neither.
LEMMA QueueKept ==
    ASSUME LocksInv, NEW t, NEW z \in Shards,
           \A x \in (Requests \cup Updaters) \ {t} : pc'[x] = pc[x] /\ Where'[x] = Where[x],
           \A s \in Shards \ {z} : update_op'[s].queue = update_op[s].queue,
           t \in Requests \cup Updaters => Where[t] \in Shards,
           \/ /\ t \in Requests \cup Updaters /\ Where'[t] = z
              /\ pc[t] # "update_lock" /\ pc'[t] = "update_lock"
              /\ update_op'[z].queue = Append(update_op[z].queue, t)
           \/ /\ pc[t] = "update_lock" /\ pc'[t] # "update_lock" /\ Where[t] = z
              /\ update_op[z].queue # <<>> /\ Head(update_op[z].queue) = t
              /\ update_op'[z].queue = Tail(update_op[z].queue)
           \/ /\ pc[t] # "update_lock" /\ pc'[t] # "update_lock"
              /\ update_op'[z].queue = update_op[z].queue
    PROVE  QueueInv'
<1> DEFINE q == update_op[z].queue
           p == update_op'[z].queue
<1>1. q \in Seq(Requests \cup Updaters) /\ Once(q) /\ Standing(q) = Waiting(z)
  BY Zenon DEF LocksInv, TypeOK, LockTypes, UpdateLock, QueueInv
<1>2. ASSUME NEW s \in Shards \ {z}
      PROVE  Once(update_op'[s].queue) /\ Standing(update_op'[s].queue) = Waiting(s)'
  <2>1. Waiting(s)' = Waiting(s)
    BY Zenon DEF Waiting
  <2> QED
    BY Zenon, <2>1 DEF LocksInv, QueueInv
<1>3. Once(p) /\ Standing(p) = Waiting(z)'
  <2>1. ASSUME t \in Requests \cup Updaters, Where'[t] = z, pc[t] # "update_lock",
               pc'[t] = "update_lock", p = Append(q, t)
        PROVE  Once(p) /\ Standing(p) = Waiting(z)'
    <3>1. t \notin Standing(q)
      BY Zenon, <1>1, <2>1 DEF Waiting
    <3>2. Waiting(z)' = Waiting(z) \cup {t}
      BY Zenon, <2>1 DEF Waiting
    <3> QED
      BY <1>1, <2>1, <3>1, <3>2, AppendOnce
  <2>2. ASSUME pc[t] = "update_lock", pc'[t] # "update_lock", Where[t] = z,
               q # <<>>, Head(q) = t, p = Tail(q)
        PROVE  Once(p) /\ Standing(p) = Waiting(z)'
    <3>1. Waiting(z)' = Waiting(z) \ {t}
      BY Zenon, <2>2 DEF Waiting
    <3> QED
      BY <1>1, <2>2, <3>1, TailOnce
  <2>3. ASSUME pc[t] # "update_lock", pc'[t] # "update_lock", p = q
        PROVE  Once(p) /\ Standing(p) = Waiting(z)'
    <3>1. Waiting(z)' = Waiting(z)
      BY Zenon, <2>3 DEF Waiting
    <3> QED
      BY Zenon, <1>1, <2>3, <3>1
  <2> QED
    BY Zenon, <2>1, <2>2, <2>3
<1> QED
  BY Zenon, <1>2, <1>3 DEF QueueInv

\* A request that drops its locks also leaves the queue it stands in.
LEMMA QueueLeft ==
    ASSUME LocksInv, NEW r \in Requests, RequestEffect(r), Drops(r)
    PROVE  QueueInv'
<1>1. /\ \A x \in (Requests \cup Updaters) \ {r} : pc'[x] = pc[x] /\ Where'[x] = Where[x]
      /\ pc'[r] = "idle"
  BY RequestOthers, WhereIsHere DEF Threads, Drops
<1> SUFFICES ASSUME NEW s \in Shards
             PROVE  Once(update_op'[s].queue) /\ Standing(update_op'[s].queue) = Waiting(s)'
  BY Zenon DEF QueueInv
<1> DEFINE q == update_op[s].queue
<1>2. q \in Seq(Requests \cup Updaters) /\ Once(q) /\ Standing(q) = Waiting(s)
  BY Zenon DEF LocksInv, TypeOK, LockTypes, UpdateLock, QueueInv
<1>3. update_op'[s].queue = Leave(q, r)
  BY Zenon DEF Drops
<1>4. Waiting(s)' = Waiting(s) \ {r}
  BY Zenon, <1>1 DEF Waiting
<1> HIDE DEF q
<1> QED
  BY <1>2, <1>3, <1>4, LeaveProperties

LEMMA RequestKeepsQueues ==
    ASSUME LocksInv, NEW r \in Requests, RequestEffect(r)
    PROVE  QueueInv'
<1>0. /\ Here(r) \in Shards /\ r \in Requests \cup Updaters /\ r \in Threads
      /\ Where[r] = Here(r) /\ Where'[r] = Here(r)'
      /\ \A x \in (Requests \cup Updaters) \ {r} : pc'[x] = pc[x] /\ Where'[x] = Where[x]
  BY PositionInOrder, RequestOthers, WhereIsHere DEF LocksInv, Threads
<1>1. CASE Asks(r)
  <2>1. Where'[r] = Here(r)
    BY <1>0, <1>1, Zenon DEF Asks, Here
  <2>2. \A s \in Shards \ {Here(r)} : update_op'[s].queue = update_op[s].queue
    BY Zenon, <1>1 DEF Asks
  <2> QED
    BY <1>0, <1>1, <2>1, <2>2, QueueKept, SMTT(20) DEF Asks
<1>2. CASE Gets(r)
  <2>1. pc[r] = "update_lock" /\ pc'[r] # "update_lock"
    BY Zenon, <1>2 DEF Gets
  <2>2. \A s \in Shards \ {Here(r)} : update_op'[s].queue = update_op[s].queue
    BY Zenon, <1>2 DEF Gets
  <2> QED
    BY <1>0, <1>2, <2>1, <2>2, QueueKept DEF Gets
<1>3. CASE Drops(r)
  BY Zenon, <1>3, QueueLeft
<1>4. CASE Pins(r) \/ Advances(r)
  <2>1. pc[r] # "update_lock" /\ pc'[r] # "update_lock" /\ update_op' = update_op
    BY Zenon, <1>4 DEF Pins, Advances, LockedPoints
  <2> QED
    BY Zenon, <1>0, <2>1, QueueKept
<1> QED
  BY Zenon, <1>1, <1>2, <1>3, <1>4 DEF RequestEffect

-----------------------------------------------------------------------------
(* A step of a worker keeps the invariant.                                 *)

\* The other threads stay where they are.
LEMMA WorkerOthers ==
    ASSUME LocksInv, NEW w \in Workers, WorkerEffect(w)
    PROVE  /\ \A t \in Threads \ {w} : pc'[t] = pc[t]
           /\ \A r \in Requests : r \in Threads \ {w} /\ pc'[r] = pc[r]
           /\ at' = at /\ answered' = answered /\ slots' = slots /\ taken' = taken
           /\ \A t \in Threads : Where'[t] = Where[t]
<1>1. pc \in [Threads -> RequestPoints \cup UpdaterPoints \cup OptimizerPoints]
  BY Zenon DEF LocksInv, TypeOK, PointTypes
<1>2. \A r \in Requests : r \in Threads \ {w}
  BY Zenon, LocksAssumption DEF Workers, Threads
<1>3. \A t \in Threads \ {w} : pc'[t] = pc[t]
  BY Zenon, <1>1 DEF WorkerEffect
<1>4. at' = at /\ answered' = answered /\ slots' = slots /\ taken' = taken
  BY Zenon DEF WorkerEffect
<1>5. Where' = Where
  BY Zenon, <1>4 DEF Where, Here
<1> QED
  BY Zenon, <1>2, <1>3, <1>4, <1>5

LEMMA WorkerKeepsTypes ==
    ASSUME LocksInv, NEW w \in Workers, WorkerEffect(w)
    PROVE  TypeOK'
<1>0. PointTypes /\ SlotTypes /\ LockTypes'
  BY Zenon DEF LocksInv, TypeOK, WorkerEffect
<1>1. /\ pc' = [pc EXCEPT ![w] = pc'[w]]
      /\ w \in Updaters => pc'[w] \in UpdaterPoints
      /\ w \in Optimizers => pc'[w] \in OptimizerPoints
      /\ at' = at /\ answered' = answered /\ slots' = slots /\ taken' = taken
  BY Zenon, WorkerOthers DEF WorkerEffect
<1>2. pc'[w] \in RequestPoints \cup UpdaterPoints \cup OptimizerPoints
  BY Zenon, <1>1 DEF Workers
<1>3. pc' \in [Threads -> RequestPoints \cup UpdaterPoints \cup OptimizerPoints]
  BY Zenon, <1>0, <1>1, <1>2 DEF PointTypes
<1>4. /\ \A x \in Requests : pc'[x] \in RequestPoints
      /\ \A u \in Updaters : pc'[u] \in UpdaterPoints
      /\ \A o \in Optimizers : pc'[o] \in OptimizerPoints
  BY Zenon, <1>0, <1>1, WorkerOthers DEF PointTypes, Threads
<1>5. PointTypes'
  BY Zenon, <1>0, <1>1, <1>3, <1>4 DEF PointTypes
<1>6. SlotTypes'
  BY Zenon, <1>0, <1>1 DEF SlotTypes
<1> QED
  BY Zenon, <1>0, <1>5, <1>6 DEF TypeOK

\* A lock that only w takes or gives back stays with its other owners.
LEMMA OthersKeepBit ==
    ASSUME NEW old, NEW new, NEW w, NEW should, Bit(old, new, w, should),
           NEW t, t # w, t # None
    PROVE  new = t <=> old = t
BY Zenon DEF Bit

LEMMA WorkerKeepsWorkerLocks ==
    ASSUME LocksInv, NEW w \in Workers, WorkerEffect(w)
    PROVE  WorkerLocks'
<1> DEFINE z == ShardOf[w]
<1>0. BarrierEffect(w, z) /\ HolderEffect(w, z) /\ UpdateLockEffect(w, z)
  BY Zenon DEF WorkerEffect
<1> DEFINE old(t, s) ==
             /\ barrier[s].writer = t <=> ShardOf[t] = s /\ pc[t] \in BarrierPoints
             /\ holder[s].writer = t <=> ShardOf[t] = s /\ pc[t] \in HolderPoints
             /\ holder[s].upgradable = t <=> ShardOf[t] = s /\ pc[t] \in UpgradablePoints
             /\ t \in holder[s].readers <=> ShardOf[t] = s /\ pc[t] = "apply"
             /\ update_op[s].writer = t
                   <=> ShardOf[t] = s /\ pc[t] \in {"barrier", "drain", "apply"}
           new(t, s) ==
             /\ barrier'[s].writer = t <=> ShardOf[t] = s /\ pc'[t] \in BarrierPoints
             /\ holder'[s].writer = t <=> ShardOf[t] = s /\ pc'[t] \in HolderPoints
             /\ holder'[s].upgradable = t <=> ShardOf[t] = s /\ pc'[t] \in UpgradablePoints
             /\ t \in holder'[s].readers <=> ShardOf[t] = s /\ pc'[t] = "apply"
             /\ update_op'[s].writer = t
                   <=> ShardOf[t] = s /\ pc'[t] \in {"barrier", "drain", "apply"}
<1>1. \A t \in Workers, s \in Shards : old(t, s)
  BY Zenon DEF LocksInv, WorkerLocks
<1>2. ASSUME NEW s \in Shards, s # z, NEW t \in Workers PROVE new(t, s)
  <2>1. /\ barrier'[s] = barrier[s] /\ holder'[s] = holder[s]
        /\ update_op'[s] = update_op[s]
    BY Zenon, <1>0, <1>2 DEF BarrierEffect, HolderEffect, UpdateLockEffect
  <2>2. ShardOf[t] = s => pc'[t] = pc[t]
    BY Zenon, <1>2, WorkerOthers DEF Workers, Threads
  <2>3. old(t, s)
    BY <1>1, SMTT(20)
  <2> QED
    BY <2>1, <2>2, <2>3, SMTT(20)
<1>3. new(w, z)
  BY <1>0, Zenon DEF BarrierEffect, HolderEffect, UpdateLockEffect, Bit
<1>4. ASSUME NEW t \in Workers, t # w PROVE z \in Shards => new(t, z)
  <2>1. pc'[t] = pc[t] /\ t # None
    BY <1>4, WorkerOthers, LocksAssumption, SMTT(20) DEF Workers, Threads
  <2>2. /\ barrier'[z].writer = t <=> barrier[z].writer = t
        /\ holder'[z].writer = t <=> holder[z].writer = t
        /\ holder'[z].upgradable = t <=> holder[z].upgradable = t
        /\ update_op'[z].writer = t <=> update_op[z].writer = t
    BY <1>0, <1>4, <2>1, OthersKeepBit, SMTT(20) DEF BarrierEffect, HolderEffect, UpdateLockEffect
  <2>3. t \in holder'[z].readers <=> t \in holder[z].readers
    BY Zenon, <1>0, <1>4 DEF HolderEffect
  <2>4. z \in Shards => old(t, z)
    BY <1>1
  <2> QED
    BY Zenon, <2>1, <2>2, <2>3, <2>4
<1>5. \A t \in Workers, s \in Shards : new(t, s)
  BY <1>2, <1>3, <1>4
<1> QED
  BY Zenon, <1>5 DEF WorkerLocks

LEMMA WorkerKeepsExclusion ==
    ASSUME LocksInv, NEW w \in Workers, WorkerEffect(w)
    PROVE  BarrierIsDrained' /\ UpdateLockExcludes' /\ UpgradableExcludes'
<1> DEFINE z == ShardOf[w]
<1>0. /\ BarrierEffect(w, z) /\ HolderEffect(w, z) /\ UpdateLockEffect(w, z)
      /\ z \in Shards
  BY Zenon, OwnLocks DEF WorkerEffect
<1>1. BarrierIsDrained'
  <2> SUFFICES ASSUME NEW t \in Workers, pc'[t] \in DrainedPoints
               PROVE  barrier'[ShardOf[t]].readers = {}
    BY Zenon DEF BarrierIsDrained
  <2>1. ShardOf[t] \in Shards /\ barrier'[ShardOf[t]].readers = barrier[ShardOf[t]].readers
    BY <1>0, OwnLocks DEF BarrierEffect
  <2>2. CASE t = w
    BY Zenon, <1>0, <2>1, <2>2 DEF BarrierEffect
  <2>3. CASE t # w
    <3>1. pc'[t] = pc[t]
      BY Zenon, <2>3, WorkerOthers DEF Workers, Threads
    <3> QED
      BY Zenon, <2>1, <3>1 DEF LocksInv, BarrierIsDrained
  <2> QED
    BY Zenon, <2>2, <2>3
<1>2. UpdateLockExcludes'
  <2> SUFFICES ASSUME NEW s \in Shards, update_op'[s].writer # None
               PROVE  update_op'[s].readers = {}
    BY Zenon DEF UpdateLockExcludes
  <2>1. CASE s = z
    BY Zenon, <1>0, <2>1 DEF UpdateLockEffect
  <2>2. CASE s # z
    BY Zenon, <1>0, <2>2 DEF UpdateLockEffect, LocksInv, UpdateLockExcludes
  <2> QED
    BY Zenon, <2>1, <2>2
<1>3. UpgradableExcludes'
  <2> SUFFICES ASSUME NEW s \in Shards
               PROVE  holder'[s].upgradable = None \/ holder'[s].writer = None
    BY Zenon DEF UpgradableExcludes
  <2>1. CASE s = z
    BY <1>0, <2>1, SMTT(20) DEF HolderEffect
  <2>2. CASE s # z
    BY <1>0, <2>2, SMTT(20) DEF HolderEffect, LocksInv, UpgradableExcludes
  <2> QED
    BY Zenon, <2>1, <2>2
<1> QED
  BY <1>1, <1>2, <1>3, SMTT(20)

LEMMA WorkerKeepsRequests ==
    ASSUME LocksInv, NEW w \in Workers, WorkerEffect(w)
    PROVE  RequestLocks' /\ RequestPins' /\ QueueInv'
<1> DEFINE z == ShardOf[w]
<1>0. /\ BarrierEffect(w, z) /\ UpdateLockEffect(w, z) /\ z \in Shards /\ w \in Threads
      /\ w \notin Requests
  BY OwnLocks, LocksAssumption, SMTT(20) DEF WorkerEffect, Workers
<1>1. \A s \in Shards : /\ update_op'[s].readers = update_op[s].readers
                        /\ barrier'[s].readers = barrier[s].readers
  BY Zenon, <1>0 DEF BarrierEffect, UpdateLockEffect
<1>2. /\ at' = at /\ answered' = answered
      /\ \A r \in Requests : pc'[r] = pc[r]
      /\ \A r \in Requests : \A i \in 1 .. Len(Order[r]) : Order[r][i] \in Shards
  BY Zenon, WorkerOthers, PositionInOrder DEF LocksInv
<1>3. RequestLocks'
  BY Zenon, <1>1, <1>2 DEF LocksInv, RequestLocks
<1>4. RequestPins'
  BY <1>1, <1>2, SMTT(20) DEF LocksInv, RequestPins
<1>5. QueueInv'
  <2>1. /\ \A x \in (Requests \cup Updaters) \ {w} : pc'[x] = pc[x] /\ Where'[x] = Where[x]
        /\ Where[w] = z /\ Where'[w] = z
    BY Zenon, <1>0, WorkerOthers, WhereIsHere DEF Threads, Here
  <2>2. \A s \in Shards \ {z} : update_op'[s].queue = update_op[s].queue
    BY Zenon, <1>0 DEF UpdateLockEffect
  <2>3. QueueStep(update_op[z].queue, update_op'[z].queue, w, pc[w], pc'[w])
    BY Zenon, <1>0 DEF UpdateLockEffect
  <2>4. pc'[w] = "update_lock" => w \in Updaters
    BY Zenon DEF WorkerEffect, OptimizerPoints, Workers
  <2> QED
    BY <1>0, <2>1, <2>2, <2>3, <2>4, QueueKept, SMTT(20) DEF QueueStep
<1> QED
  BY Zenon, <1>3, <1>4, <1>5
=============================================================================
