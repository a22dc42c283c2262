------------------------- MODULE ExactRequestLocks --------------------------
(***************************************************************************)
(* Who waits for whom.  Exact requests, the update worker of each Shard    *)
(* and the Shard's optimizer tasks take three locks per Shard:             *)
(*                                                                         *)
(*   update_op  tokio RwLock, first come first served: a waiting writer    *)
(*              blocks the readers that come after it;                     *)
(*   barrier    the Segment generation barrier, a parking_lot RwLock: a    *)
(*              writer first takes the writer bit, which blocks new        *)
(*              readers, then waits for the readers inside to leave;       *)
(*   holder     the SegmentHolder, a parking_lot RwLock that also has an   *)
(*              upgradable mode, compatible with readers only.             *)
(*                                                                         *)
(* A request also reserves one coordinator and one reader slot.  What is   *)
(* done under the locks is the business of SegmentLifecycle.               *)
(***************************************************************************)
EXTENDS Naturals, Sequences, FiniteSets

CONSTANTS Shards,
          Requests,       \* exact requests
          Order,          \* Order[r]: the Shards of r, in the order of its shard keys
          Updaters,       \* update workers
          Optimizers,     \* optimizer tasks
          ShardOf,        \* the Shard of each update worker and optimizer task
          SlotCapacity,   \* session slots of each of the two search runtimes
          None

Threads == Requests \cup Updaters \cup Optimizers
Runtimes == {"high_cpu", "high_io"}

ASSUME LocksAssumption ==
    /\ Order \in [Requests -> Seq(Shards) \ {<<>>}]
    /\ ShardOf \in [Updaters \cup Optimizers -> Shards]
    /\ SlotCapacity \in Nat \ {0}
    /\ IsFiniteSet(Requests) /\ IsFiniteSet(Shards)
    /\ None \notin Threads \cup Runtimes
    /\ Requests \cap (Updaters \cup Optimizers) = {} /\ Updaters \cap Optimizers = {}

VARIABLES update_op,  \* [Shards -> [readers, writer, queue]]
          barrier,    \* [Shards -> [readers, writer]]: writer has the writer bit
          holder,     \* [Shards -> [readers, upgradable, writer]]
          pc,         \* what each thread does next
          at,         \* position of each request in its Order
          slots,      \* free session slots of each runtime
          taken,      \* the slots each request has: [reader, coordinator]
          answered    \* requests whose client has an answer or gave up

vars == <<update_op, barrier, holder, pc, at, slots, taken, answered>>
locks == <<update_op, barrier, holder>>
reservation == <<slots, taken>>

NoSlots == [reader |-> None, coordinator |-> None]
OtherRuntime(m) == CHOOSE n \in Runtimes : n # m

Init ==
    /\ update_op = [s \in Shards |-> [readers |-> {}, writer |-> None, queue |-> <<>>]]
    /\ barrier = [s \in Shards |-> [readers |-> {}, writer |-> None]]
    /\ holder = [s \in Shards |-> [readers |-> {}, upgradable |-> None, writer |-> None]]
    /\ pc = [t \in Threads |-> "idle"]
    /\ at = [r \in Requests |-> 1]
    /\ slots = [m \in Runtimes |-> SlotCapacity]
    /\ taken = [r \in Requests |-> NoSlots]
    /\ answered = {}

Here(t) == IF t \in Requests THEN Order[t][at[t]] ELSE ShardOf[t]

Goto(t, from, to) == pc[t] = from /\ pc' = [pc EXCEPT ![t] = to]

-----------------------------------------------------------------------------
(* The locks.                                                              *)

Enqueue(s, t) == update_op' = [update_op EXCEPT ![s].queue = Append(@, t)]

\* A future that is dropped while it waits leaves the queue.
Leave(q, t) ==
    IF \A i \in DOMAIN q : q[i] # t THEN q
    ELSE LET i == CHOOSE i \in DOMAIN q : q[i] = t
         IN  [k \in 1 .. Len(q) - 1 |-> IF k < i THEN q[k] ELSE q[k + 1]]

\* The head of the queue enters as soon as it is compatible with who is inside.
ReadUpdateOp(s, t) ==
    /\ update_op[s].queue # <<>> /\ Head(update_op[s].queue) = t
    /\ update_op[s].writer = None
    /\ update_op' = [update_op EXCEPT ![s].queue = Tail(@),
                                      ![s].readers = @ \cup {t}]

WriteUpdateOp(s, t) ==
    /\ update_op[s].queue # <<>> /\ Head(update_op[s].queue) = t
    /\ update_op[s].writer = None /\ update_op[s].readers = {}
    /\ update_op' = [update_op EXCEPT ![s].queue = Tail(@), ![s].writer = t]

TakeBarrierBit(s, t) ==
    /\ barrier[s].writer = None
    /\ barrier' = [barrier EXCEPT ![s].writer = t]

\* Mutant: the readers inside are not waited for.
BarrierTaken(s, t) == barrier[s].writer = t

BarrierDrained(s, t) == barrier[s].writer = t /\ barrier[s].readers = {}

FreeBarrier(s) == barrier' = [barrier EXCEPT ![s].writer = None]

TakeUpgradable(s, t) ==
    /\ holder[s].upgradable = None /\ holder[s].writer = None
    /\ holder' = [holder EXCEPT ![s].upgradable = t]

\* The upgradable reader becomes the writer; nobody else can have the bit.
Upgrade(s, t) ==
    /\ holder[s].upgradable = t
    /\ holder' = [holder EXCEPT ![s].upgradable = None, ![s].writer = t]

TakeHolderBit(s, t) ==
    /\ holder[s].upgradable = None /\ holder[s].writer = None
    /\ holder' = [holder EXCEPT ![s].writer = t]

HolderDrained(s, t) == holder[s].writer = t /\ holder[s].readers = {}

FreeHolder(s) == holder' = [holder EXCEPT ![s].writer = None]

\* A read of the holder that is over before anything else is waited for.
ShortHolderRead(s) == holder[s].writer = None

-----------------------------------------------------------------------------
(* Exact requests.                                                         *)

Last(r) == at[r] = Len(Order[r])

\* The next Shard of the loop a request is in, or the first of its next loop.
NextShard(r) == IF Last(r) THEN 1 ELSE at[r] + 1

\* ExactRrfService::execute asks for the update lock of one Shard after the
\* other, in the order the Shards were selected.
RequestUpdateLock(r) ==
    /\ r \notin answered
    /\ Goto(r, "idle", "update_lock")
    /\ Enqueue(Here(r), r)
    /\ UNCHANGED <<barrier, holder, at, reservation, answered>>

GetUpdateLock(r) ==
    /\ ReadUpdateOp(Here(r), r)
    /\ Goto(r, "update_lock", IF Last(r) THEN "count" ELSE "idle")
    /\ at' = [at EXCEPT ![r] = NextShard(r)]
    /\ UNCHANGED <<barrier, holder, reservation, answered>>

\* segment_count of every Shard.
CountSegments(r) ==
    /\ ShortHolderRead(Here(r))
    /\ Goto(r, "count", IF Last(r) THEN "reserve" ELSE "count")
    /\ at' = [at EXCEPT ![r] = NextShard(r)]
    /\ UNCHANGED <<locks, reservation, answered>>

ReleaseUpdateLocks(r) ==
    update_op' = [s \in Shards |-> [update_op[s] EXCEPT
                    !.readers = @ \ {r}, !.queue = Leave(@, r)]]

\* Mutant: the coordinator slot is forgotten.
GiveBackReader(used) ==
    slots' = [m \in Runtimes |->
                slots[m] + IF "reader" \in DOMAIN used /\ used.reader = m
                           THEN 1 ELSE 0]

GiveBack(used) ==
    slots' = [m \in Runtimes |->
                slots[m] + Cardinality({k \in DOMAIN used : used[k] = m})]

\* try_reserve_exact_session never waits: readers on one runtime and the
\* coordinator on the other, and if that does not fit once more the other way
\* round.  Which way is tried first depends on the current mode.
ReserveReader(r) ==
    \E m \in Runtimes :
        /\ slots[m] > 0
        /\ \/ Goto(r, "reserve", "coordinator")
           \/ Goto(r, "reserve_again", "coordinator_again")
        /\ slots' = [slots EXCEPT ![m] = @ - 1]
        /\ taken' = [taken EXCEPT ![r].reader = m]
        /\ UNCHANGED <<locks, at, answered>>

ReserveCoordinator(r) ==
    LET m == OtherRuntime(taken[r].reader)
    IN  /\ pc[r] \in {"coordinator", "coordinator_again"}
        /\ slots[m] > 0
        /\ pc' = [pc EXCEPT ![r] = "pin"]
        /\ slots' = [slots EXCEPT ![m] = @ - 1]
        /\ taken' = [taken EXCEPT ![r].coordinator = m]
        /\ UNCHANGED <<locks, at, answered>>

ReservationMisses(r) ==
    \/ pc[r] \in {"reserve", "reserve_again"} /\ \E m \in Runtimes : slots[m] = 0
    \/ /\ pc[r] \in {"coordinator", "coordinator_again"}
       /\ slots[OtherRuntime(taken[r].reader)] = 0

TryOtherWay(r) ==
    /\ ReservationMisses(r)
    /\ pc[r] \in {"reserve", "coordinator"}
    /\ pc' = [pc EXCEPT ![r] = "reserve_again"]
    /\ GiveBack(taken[r])
    /\ taken' = [taken EXCEPT ![r] = NoSlots]
    /\ UNCHANGED <<locks, at, answered>>

\* Neither way fits: an error, and every guard is dropped.
RefuseReservation(r) ==
    /\ ReservationMisses(r)
    /\ pc[r] \in {"reserve_again", "coordinator_again"}
    /\ pc' = [pc EXCEPT ![r] = "idle"]
    /\ ReleaseUpdateLocks(r)
    /\ GiveBack(taken[r])
    /\ taken' = [taken EXCEPT ![r] = NoSlots]
    /\ answered' = answered \cup {r}
    /\ UNCHANGED <<barrier, holder, at>>

\* The client goes away while the request still waits for update locks: the
\* future is dropped with the guards it has.  No timeout covers this phase.
DropRequest(r) ==
    /\ pc[r] \in {"idle", "update_lock"} /\ r \notin answered
    /\ pc' = [pc EXCEPT ![r] = "idle"]
    /\ ReleaseUpdateLocks(r)
    /\ answered' = answered \cup {r}
    /\ UNCHANGED <<barrier, holder, at, reservation>>

\* The blocking task pins the generation of every Shard, in the same order.
Pin(r) ==
    /\ barrier[Here(r)].writer = None
    /\ Goto(r, "pin", "clone")
    /\ barrier' = [barrier EXCEPT ![Here(r)].readers = @ \cup {r}]
    /\ UNCHANGED <<update_op, holder, at, reservation, answered>>

CloneHandles(r) ==
    /\ ShortHolderRead(Here(r))
    /\ Goto(r, "clone", IF Last(r) THEN "execute" ELSE "pin")
    /\ at' = [at EXCEPT ![r] = NextShard(r)]
    /\ UNCHANGED <<locks, reservation, answered>>

InTask(r) == pc[r] \in {"pin", "clone", "execute"}

\* The timeout, or the client leaving, ends the wait for the task but not the
\* task: the flag it sets is only read between batches.  The reader slot goes
\* back at once, the coordinator slot and the guards stay with the task.
TimeOut(r) ==
    /\ InTask(r) /\ r \notin answered
    /\ answered' = answered \cup {r}
    /\ GiveBack([reader |-> taken[r].reader])
    /\ taken' = [taken EXCEPT ![r].reader = None]
    /\ UNCHANGED <<locks, pc, at>>

\* Mutant: the update lock outlives the task.
FinishTaskKeepingLock(r) ==
    /\ Goto(r, "execute", "idle")
    /\ barrier' = [s \in Shards |-> [barrier[s] EXCEPT !.readers = @ \ {r}]]
    /\ GiveBack(taken[r])
    /\ taken' = [taken EXCEPT ![r] = NoSlots]
    /\ answered' = answered \cup {r}
    /\ UNCHANGED <<update_op, holder, at>>

\* Mutant: the task of a request that timed out waits for its reader.
FinishTaskUnlessTimedOut(r) ==
    /\ r \notin answered
    /\ Goto(r, "execute", "idle")
    /\ barrier' = [s \in Shards |-> [barrier[s] EXCEPT !.readers = @ \ {r}]]
    /\ ReleaseUpdateLocks(r)
    /\ GiveBack(taken[r])
    /\ taken' = [taken EXCEPT ![r] = NoSlots]
    /\ answered' = answered \cup {r}
    /\ UNCHANGED <<holder, at>>

\* The task ends, with a result, an error, or because it saw the flag.
FinishTask(r) ==
    /\ Goto(r, "execute", "idle")
    /\ barrier' = [s \in Shards |-> [barrier[s] EXCEPT !.readers = @ \ {r}]]
    /\ ReleaseUpdateLocks(r)
    /\ GiveBack(taken[r])
    /\ taken' = [taken EXCEPT ![r] = NoSlots]
    /\ answered' = answered \cup {r}
    /\ UNCHANGED <<holder, at>>

-----------------------------------------------------------------------------
(* The update worker: CollectionUpdater::update.                           *)

StartUpdate(u) ==
    /\ Goto(u, "idle", "update_lock")
    /\ Enqueue(ShardOf[u], u)
    /\ UNCHANGED <<barrier, holder, at, reservation, answered>>

GetUpdateWrite(u) ==
    /\ WriteUpdateOp(ShardOf[u], u)
    /\ Goto(u, "update_lock", "barrier")
    /\ UNCHANGED <<barrier, holder, at, reservation, answered>>

\* The guard on the barrier, for an update or for an optimizer.
TakeBarrier(t) ==
    /\ TakeBarrierBit(ShardOf[t], t)
    /\ \/ Goto(t, "barrier", "drain")
       \/ Goto(t, "finish_barrier", "finish_drain")
       \/ Goto(t, "rollback", "rollback_drain")
    /\ UNCHANGED <<update_op, holder, at, reservation, answered>>

ReadHolderForUpdate(u) ==
    /\ BarrierDrained(ShardOf[u], u)
    /\ holder[ShardOf[u]].writer = None
    /\ Goto(u, "drain", "apply")
    /\ holder' = [holder EXCEPT ![ShardOf[u]].readers = @ \cup {u}]
    /\ UNCHANGED <<update_op, barrier, at, reservation, answered>>

\* Mutant: the outcome is recorded before the guards are dropped.
EndUpdateKeepingGuards(u) ==
    /\ Goto(u, "apply", "record")
    /\ holder' = [holder EXCEPT ![ShardOf[u]].readers = @ \ {u}]
    /\ UNCHANGED <<update_op, barrier, at, reservation, answered>>

\* Every guard is dropped before the outcome is recorded in the holder.
EndUpdate(u) ==
    /\ \E next \in {"idle", "record"} : Goto(u, "apply", next)
    /\ holder' = [holder EXCEPT ![ShardOf[u]].readers = @ \ {u}]
    /\ FreeBarrier(ShardOf[u])
    /\ update_op' = [update_op EXCEPT ![ShardOf[u]].writer = None]
    /\ UNCHANGED <<at, reservation, answered>>

-----------------------------------------------------------------------------
(* Optimizer tasks.                                                        *)

\* execute_optimization: read upgradably, then install the proxies as writer.
StartOptimization(o) ==
    /\ TakeUpgradable(ShardOf[o], o)
    /\ Goto(o, "idle", "wrap")
    /\ UNCHANGED <<update_op, barrier, at, reservation, answered>>

\* An upgrade, to install proxies or to publish.
UpgradeHolder(o) ==
    /\ Upgrade(ShardOf[o], o)
    /\ \/ Goto(o, "wrap", "install")
       \/ BarrierDrained(ShardOf[o], o) /\ Goto(o, "finish_drain", "publish")
    /\ UNCHANGED <<update_op, barrier, at, reservation, answered>>

InstallProxies(o) ==
    /\ HolderDrained(ShardOf[o], o)
    /\ Goto(o, "install", "build")
    /\ FreeHolder(ShardOf[o])
    /\ UNCHANGED <<update_op, barrier, at, reservation, answered>>

\* The build fails, or is cancelled.
FailBuild(o) ==
    /\ Goto(o, "build", "rollback")
    /\ UNCHANGED <<locks, at, reservation, answered>>

\* finish_optimization: the holder, upgradably, and only then the barrier.
StartFinish(o) ==
    /\ TakeUpgradable(ShardOf[o], o)
    /\ Goto(o, "build", "finish_barrier")
    /\ UNCHANGED <<update_op, barrier, at, reservation, answered>>

\* Bringing the output up to date fails: both guards are dropped, then rollback.
FailFinish(o) ==
    /\ BarrierDrained(ShardOf[o], o)
    /\ Goto(o, "finish_drain", "rollback")
    /\ FreeBarrier(ShardOf[o])
    /\ holder' = [holder EXCEPT ![ShardOf[o]].upgradable = None]
    /\ UNCHANGED <<update_op, at, reservation, answered>>

Publish(o) ==
    /\ HolderDrained(ShardOf[o], o)
    /\ Goto(o, "publish", "idle")
    /\ FreeHolder(ShardOf[o])
    /\ FreeBarrier(ShardOf[o])
    /\ UNCHANGED <<update_op, at, reservation, answered>>

\* rollback_proxies: the barrier, a read of the holder, and then its write lock.
CollectProxies(o) ==
    /\ BarrierDrained(ShardOf[o], o)
    /\ ShortHolderRead(ShardOf[o])
    /\ Goto(o, "rollback_drain", "replace")
    /\ UNCHANGED <<locks, at, reservation, answered>>

\* Propagation fails: rollback returns without replacing anything.
FailPropagation(o) ==
    /\ Goto(o, "replace", "idle")
    /\ FreeBarrier(ShardOf[o])
    /\ UNCHANGED <<update_op, holder, at, reservation, answered>>

\* The write lock of the holder, to replace proxies or to record a failed update.
TakeHolder(t) ==
    /\ TakeHolderBit(ShardOf[t], t)
    /\ Goto(t, "replace", "replace_drain") \/ Goto(t, "record", "record_drain")
    /\ UNCHANGED <<update_op, barrier, at, reservation, answered>>

ReplaceProxies(o) ==
    /\ HolderDrained(ShardOf[o], o)
    /\ Goto(o, "replace_drain", "idle")
    /\ FreeHolder(ShardOf[o])
    /\ FreeBarrier(ShardOf[o])
    /\ UNCHANGED <<update_op, at, reservation, answered>>

RecordOutcome(u) ==
    /\ HolderDrained(ShardOf[u], u)
    /\ Goto(u, "record_drain", "idle")
    /\ FreeHolder(ShardOf[u])
    /\ UNCHANGED <<update_op, barrier, at, reservation, answered>>

-----------------------------------------------------------------------------
\* What a request does by itself once its client has sent it.
RequestStep(r) ==
    \/ RequestUpdateLock(r) \/ GetUpdateLock(r) \/ CountSegments(r)
    \/ ReserveReader(r) \/ ReserveCoordinator(r) \/ TryOtherWay(r) \/ RefuseReservation(r)
    \/ Pin(r) \/ CloneHandles(r) \/ FinishTask(r)

UpdateStep(u) ==
    \/ GetUpdateWrite(u) \/ TakeBarrier(u) \/ ReadHolderForUpdate(u)
    \/ EndUpdate(u) \/ TakeHolder(u) \/ RecordOutcome(u)

OptimizerStep(o) ==
    \/ UpgradeHolder(o) \/ InstallProxies(o)
    \/ FailBuild(o) \/ StartFinish(o) \/ TakeBarrier(o) \/ FailFinish(o)
    \/ Publish(o) \/ CollectProxies(o) \/ FailPropagation(o)
    \/ TakeHolder(o) \/ ReplaceProxies(o)

Next ==
    \/ \E r \in Requests : RequestStep(r) \/ DropRequest(r) \/ TimeOut(r)
    \/ \E u \in Updaters : StartUpdate(u) \/ UpdateStep(u)
    \/ \E o \in Optimizers : StartOptimization(o) \/ OptimizerStep(o)

Spec == Init /\ [][Next]_vars

\* Threads that hold or want a lock keep running.  A thread that can enter a
\* lock again and again enters it: the tokio lock is first come first served,
\* and parking_lot hands a contended lock to the next in line every now and
\* then.  Nobody is obliged to start an update or an optimization, to time out
\* or to leave.
Fairness ==
    /\ \A r \in Requests : SF_vars(RequestStep(r))
    /\ \A u \in Updaters : SF_vars(UpdateStep(u))
    /\ \A o \in Optimizers : SF_vars(OptimizerStep(o))

FairSpec == Spec /\ Fairness

-----------------------------------------------------------------------------
(* Properties.                                                             *)

RequestPoints ==
    {"idle", "update_lock", "count", "reserve", "coordinator", "reserve_again",
     "coordinator_again", "pin", "clone", "execute"}
UpdaterPoints ==
    {"idle", "update_lock", "barrier", "drain", "apply", "record", "record_drain"}
OptimizerPoints ==
    {"idle", "wrap", "install", "build", "finish_barrier", "finish_drain", "publish",
     "rollback", "rollback_drain", "replace", "replace_drain"}

UpdateLock == [readers : SUBSET Requests, writer : Updaters \cup {None},
               queue : Seq(Requests \cup Updaters)]
GenerationBarrier == [readers : SUBSET Requests,
                      writer : Updaters \cup Optimizers \cup {None}]
HolderLock == [readers : SUBSET Updaters, upgradable : Optimizers \cup {None},
               writer : Updaters \cup Optimizers \cup {None}]

LockTypes ==
    /\ update_op \in [Shards -> UpdateLock]
    /\ barrier \in [Shards -> GenerationBarrier]
    /\ holder \in [Shards -> HolderLock]

PointTypes ==
    /\ pc \in [Threads -> RequestPoints \cup UpdaterPoints \cup OptimizerPoints]
    /\ \A r \in Requests : pc[r] \in RequestPoints
    /\ \A u \in Updaters : pc[u] \in UpdaterPoints
    /\ \A o \in Optimizers : pc[o] \in OptimizerPoints
    /\ at \in [Requests -> Nat] /\ \A r \in Requests : at[r] \in 1 .. Len(Order[r])
    /\ answered \subseteq Requests

SlotTypes ==
    /\ slots \in [Runtimes -> Nat]
    /\ taken \in [Requests -> [reader : Runtimes \cup {None},
                               coordinator : Runtimes \cup {None}]]

\* Type invariant: the queues, lock owners, control points and slots.
TypeOK == LockTypes /\ PointTypes /\ SlotTypes

\* The threads that t cannot get past before they release something.
Ahead(q, t) == {q[i] : i \in {i \in DOMAIN q : \A k \in 1 .. i : q[k] # t}}

Blockers(t) ==
    LET s == Here(t)
        u == update_op[s]
        b == barrier[s]
        h == holder[s]
    IN  CASE pc[t] = "update_lock" ->
               (Ahead(u.queue, t) \cup {u.writer}
                  \cup (IF t \in Updaters THEN u.readers ELSE {})) \ {None}
          [] pc[t] \in {"pin", "barrier", "finish_barrier", "rollback"} ->
               {b.writer} \ {None}
          [] pc[t] \in {"drain", "finish_drain", "rollback_drain"} ->
               b.readers \cup ({h.writer} \ {None})
          [] pc[t] \in {"count", "clone"} -> {h.writer} \ {None}
          [] pc[t] \in {"replace", "record"} -> {h.upgradable, h.writer} \ {None}
          [] pc[t] \in {"install", "publish", "replace_drain", "record_drain"} ->
               h.readers
          [] OTHER -> {}

\* The threads that wait for somebody.
Blocked == {t \in Threads : Blockers(t) # {}}

\* The threads of D wait in a circle: each of them for a lock that another one
\* holds or is queued for.
Circle(D) == D # {} /\ \A t \in D : Blockers(t) \cap D # {}

\* No thread waits for itself through others: exact sessions, updates and
\* optimizers of any Shards never form a circle.
NoCircularWait == \A D \in SUBSET Blocked : ~Circle(D)

\* One ranking of the Shards that all requests of R follow.
InOneOrder(R) ==
    \E rank \in [Shards -> 1 .. Cardinality(Shards)] :
        \A r \in R : \A i, k \in 1 .. Len(Order[r]) :
            i < k => rank[Order[r][i]] < rank[Order[r][k]]

\* finish_optimization has the holder and waits for the barrier of a Shard,
\* rollback_proxies has the barrier and waits for the holder.
PublishMeetsRollback(D) ==
    \E o, p \in D \cap Optimizers :
        /\ ShardOf[o] = ShardOf[p]
        /\ pc[o] = "finish_barrier" /\ pc[p] = "replace"

\* Threads wait in a circle for two reasons only: the clients of its requests
\* list the Shards in orders that contradict each other, or two optimizer tasks
\* of one Shard meet, one publishing and one rolling back.  Updates, however
\* they queue between the two, are never a reason by themselves, nor is a
\* request that meets an optimizer.
CirclesHaveACause ==
    \A D \in SUBSET Blocked :
        Circle(D) => PublishMeetsRollback(D) \/ ~InOneOrder(D \cap Requests)

\* A generation is never changed under a session that pinned it: who works
\* under the drained barrier shares it with no request.
PinExcludesChange ==
    \A s \in Shards, t \in Updaters \cup Optimizers :
        (ShardOf[t] = s /\ pc[t] \in {"apply", "publish", "replace", "replace_drain"})
            => /\ barrier[s].writer = t
               /\ barrier[s].readers = {}

\* The slots of a runtime that requests have.
Held(m) == {h \in Requests \X {"reader", "coordinator"} : taken[h[1]][h[2]] = m}

\* No slot is lost or given back twice, whether the request is refused, dropped,
\* timed out or finished: the free slots and the ones requests have add up.
SlotsAreConserved ==
    \A m \in Runtimes : slots[m] + Cardinality(Held(m)) = SlotCapacity

\* Somebody waits in a circle.
Stuck == ~NoCircularWait

\* Every request whose client stays ends, unless a circle of waiting threads
\* stays for ever: it gets its locks however many updates and publications
\* compete for them, and releases them.
RequestsEnd == <>[]Stuck \/ <>(\A r \in Requests : r \in answered /\ pc[r] = "idle")

\* An update that was started is applied, unless a circle of waiting threads
\* stays for ever, although exact requests and optimizers keep taking the same
\* locks.
UpdatesEnd == <>[]Stuck \/ \A u \in Updaters : pc[u] = "update_lock" ~> pc[u] = "idle"
=============================================================================
