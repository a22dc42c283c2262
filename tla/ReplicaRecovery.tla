-------------------------- MODULE ReplicaRecovery --------------------------
(***************************************************************************)
(* The replicas of one Shard: how an update reaches them, how a replica    *)
(* that missed one is taken out, and how it is brought back by sending it  *)
(* the part of another replica's log that it lacks.                        *)
(*                                                                         *)
(* Every peer has its own copy of the replica states and applies the       *)
(* consensus operations in the same order but at its own pace.  Each       *)
(* coordinating peer runs one update at a time, on one clock.  What an     *)
(* update does to points is left out: a replica holds an update when it is *)
(* in its log.  Requests, replies and forwarded updates may be lost.       *)
(***************************************************************************)
EXTENDS ClockMap, FiniteSets, SequencesExt, TLC

CONSTANTS Peers,
          Replicas,          \* the peers that hold the Shard
          WriteConsistency,  \* write_consistency_factor
          MaxAttempts,       \* UPDATE_MAX_CLOCK_REJECTED_RETRIES
          MaxOps,            \* bound: updates started
          MaxProposals,      \* bound: consensus operations
          MaxLost,           \* bound: lost messages and timeouts
          MaxRestarts,       \* bound: restarts
          Restartable,       \* bound: the peers that restart
          QueuedTail,        \* bound: records a restart leaves to the update queue
          MaxLostReports     \* bound: proposed deactivations that are lost

\* Each coordinating peer has one clock, named after it.
ASSUME RecoveryAssumption ==
    /\ IsFiniteSet(Peers) /\ Replicas \subseteq Peers
    /\ Clocks \subseteq Peers /\ NoClock \notin Clocks
    /\ Restartable \subseteq Peers
    /\ {WriteConsistency, MaxAttempts} \subseteq Nat \ {0}
    /\ {MaxOps, MaxProposals, MaxLost, MaxLostReports, MaxRestarts,
        QueuedTail} \subseteq Nat

VARIABLES committed,   \* replica states and transfer, all operations applied
          view,        \* peer -> the same, as far as the peer has applied them
          pending,     \* peer -> consensus operations it has yet to apply
          next_tick,   \* coordinator -> next tick of its clock
          update,      \* coordinator -> the update it runs
          net,         \* update requests on their way
          shard,       \* replica -> its log and clock maps
          proxy,       \* replica -> the proxy in front of its Shard
          task,        \* replica -> the transfer it drives as source
          disabled,    \* peer -> locally disabled replicas, with expected state
          reports,     \* deactivations proposed and not yet decided on
          acked,       \* history: the tags under which updates were confirmed
          doubted,     \* history: replicas disabled while in transfer, or all of them
                       \* once a coordinator has restarted
          outrun,      \* history: updates that a transfer did not wait for
          unclocked,   \* history: updates in a log that its clocks do not count
          count        \* updates, proposals, losses and restarts so far

history == <<doubted, outrun, unclocked>>
vars == <<committed, view, pending, next_tick, update, net, shard, proxy, task,
          disabled, reports, acked, doubted, outrun, unclocked, count>>

States == {"Active", "Partial", "Recovery", "Dead"}
NoTransfer == [from |-> "none", to |-> "none"]
Enabled == "enabled"

\* from_state of a deactivation that is to go through whatever the state is.
AnyState == "any"

Idle == [phase |-> "idle"]
NoTask == [stage |-> "none"]
Local == [kind |-> "local"]

Held(r) == {shard[r].log[i].op : i \in DOMAIN shard[r].log}

-----------------------------------------------------------------------------
(* Consensus operations on the replica set.                                *)

Active(s) == {r \in Replicas : s.state[r] = "Active"}

\* Checks made when an operation is applied: a failed one changes nothing.
Valid(s, e) ==
    CASE e.type = "dead" -> /\ e.from_state \in {AnyState, s.state[e.peer]}
                            /\ Active(s) # {e.peer}
      [] e.type = "start" -> /\ s.state[e.from] = "Active"
                             /\ s.transfer = NoTransfer
      [] e.type = "partial" -> /\ s.transfer = [from |-> e.from, to |-> e.to]
                               /\ s.state[e.to] = "Recovery"
      [] OTHER -> s.transfer = [from |-> e.from, to |-> e.to]

\* A dead peer takes the transfer it is part of with it.
Cut(s, e) ==
    \/ e.type = "abort"
    \/ e.type = "dead" /\ e.peer \in {s.transfer.from, s.transfer.to}

\* Replicas whose state is set, and what it is set to.
Assigned(s, e) ==
    CASE e.type = "dead" -> {e.peer} \cup
                            (IF Cut(s, e) THEN {s.transfer.to} ELSE {})
      [] OTHER -> {e.to}

NewState(e) ==
    CASE e.type \in {"dead", "abort"} -> "Dead"
      [] e.type = "start" -> "Recovery"
      [] e.type = "partial" -> "Partial"
      [] e.type = "finish" -> "Active"

Effect(s, e) ==
    [state |-> [r \in Replicas |-> IF r \in Assigned(s, e) THEN NewState(e)
                                                           ELSE s.state[r]],
     transfer |-> IF e.type = "start" THEN [from |-> e.from, to |-> e.to]
                  ELSE IF e.type = "finish" \/ Cut(s, e) THEN NoTransfer
                  ELSE s.transfer]

After(s, e) == IF Valid(s, e) THEN Effect(s, e) ELSE s

Propose(es) ==
    /\ count.proposals + Len(es) <= MaxProposals
    /\ pending' = [p \in Peers |-> pending[p] \o es]
    /\ committed' = FoldLeft(After, committed, es)
    /\ count' = [count EXCEPT !.proposals = @ + Len(es)]

\* Mutant: the clocks of a replica that is taken out go on.
OnLocalStateUpdatedNoSnapshot(s, active) == [s EXCEPT !.saved = s.newest]

\* A replica that is no longer active remembers the clocks it had; a replica
\* that is active again forgets them.
OnLocalStateUpdated(s, active) ==
    IF active THEN [s EXCEPT !.snapshot = {}, !.saved = s.newest]
    ELSE IF s.snapshot = {}
    THEN [s EXCEPT !.snapshot = {s.newest}, !.saved = s.newest]
    ELSE s

\* A consensus operation names a replica: the local doubt about it is over.
UpdateLocallyDisabled(d, s, assigned) ==
    IF \A r \in Active(s) : d[r] # Enabled
    THEN [r \in Replicas |-> Enabled]
    ELSE [r \in Replicas |-> IF r \in assigned THEN Enabled ELSE d[r]]

\* An update that runs through a proxy keeps the Shard's read lock until all
\* replicas have answered.
HoldsLocal(p) == p \in Clocks /\ update[p].phase = "sent" /\ update[p].inline

Apply(p) ==
    /\ pending[p] # <<>>
    /\ LET e == Head(pending[p])
           s == view[p]
           t == Effect(s, e)
           ends == s.transfer # NoTransfer /\ t.transfer = NoTransfer
       IN  /\ pending' = [pending EXCEPT ![p] = Tail(@)]
           /\ IF Valid(s, e)
              THEN /\ view' = [view EXCEPT ![p] = t]
                   /\ ~ (ends /\ s.transfer.from = p /\ HoldsLocal(p))
                   /\ disabled' = [disabled EXCEPT ![p] =
                                     UpdateLocallyDisabled(@, t, Assigned(s, e))]
                   /\ shard' = IF p \in Assigned(s, e)
                               THEN [shard EXCEPT ![p] =
                                       OnLocalStateUpdated(@, t.state[p] = "Active")]
                               ELSE shard
                   /\ IF ends /\ s.transfer.from = p
                      THEN /\ proxy' = [proxy EXCEPT ![p] = Local]
                           /\ task' = [task EXCEPT ![p] = NoTask]
                      ELSE IF e.type = "start" /\ e.from = p
                      THEN /\ task' = [task EXCEPT ![p] =
                                         [stage |-> "point", to |-> e.to]]
                           /\ UNCHANGED proxy
                      ELSE UNCHANGED <<proxy, task>>
              ELSE UNCHANGED <<view, disabled, shard, proxy, task>>
    /\ UNCHANGED <<committed, next_tick, update, net, reports, acked, history, count>>

-----------------------------------------------------------------------------
(* A replica takes an update in.                                           *)

\* Locally disabled peers and those that cannot follow get no updates.
IsUpdatable(p, r) ==
    view[p].state[r] \in {"Active", "Partial"} /\ disabled[p][r] = Enabled

IsSourceOfTruth(p, r) ==
    view[p].state[r] = "Active" /\ disabled[p][r] = Enabled

\* update_local: in recovery only forced updates are taken in.
AcceptsOperation(r, force) ==
    \/ view[r].state[r] \in {"Active", "Partial"}
    \/ view[r].state[r] = "Recovery" /\ force

\* lock_and_write: a rejected update is answered with the current tick.
Write(s, tag, force) ==
    IF ClockAccepted(s.newest, tag) \/ force
    THEN [shard |-> [s EXCEPT !.newest = AdvanceClock(@, tag),
                              !.log = Append(@, tag)],
          status |-> "ok", tick |-> tag.tick]
    ELSE [shard |-> s, status |-> "rejected", tick |-> s.newest[tag.clock].tick]

\* An answer that never comes, or an error that may go away.
Failed == [status |-> "failed", tick |-> 0]

\* The ways a replica can handle an update: the Shards afterwards, the answer
\* and the number of messages lost.  A forward proxy passes the update on,
\* even when its own Shard rejected it; it fails when that fails.
Outcomes(r, tag) ==
    LET w == Write(shard[r], tag, FALSE)
        here == [shard EXCEPT ![r] = w.shard]
        to == proxy[r].to
        v == Write(shard[to], tag, FALSE)
        both == [here EXCEPT ![to] = v.shard]
        failure == [status |-> "forward_failed", tick |-> 0]
    IN  IF ~AcceptsOperation(r, FALSE)
        THEN {[shard |-> shard, lost |-> 0,
               reply |-> [status |-> "wrong_state", tick |-> 0]]}
        ELSE IF proxy[r].kind # "forward"
        THEN {[shard |-> here, lost |-> 0,
               reply |-> [status |-> w.status, tick |-> w.tick]]}
        ELSE IF ~AcceptsOperation(to, FALSE)
        THEN {[shard |-> here, lost |-> 0, reply |-> failure]}
        ELSE {[shard |-> here, lost |-> 1, reply |-> failure],
              [shard |-> both, lost |-> 1, reply |-> failure],
              [shard |-> both, lost |-> 0,
               reply |-> [status |-> IF w.status = "ok" THEN v.status ELSE w.status,
                          tick |-> Max({w.tick, v.tick})]]}

-----------------------------------------------------------------------------
(* ShardReplicaSet::update on the peer that coordinates it.                *)

Begin(p) ==
    /\ update[p].phase = "idle"
    /\ count.ops < MaxOps
    /\ update' = [update EXCEPT ![p] =
                    [phase |-> "ready", op |-> count.ops + 1, attempt |-> 1]]
    /\ count' = [count EXCEPT !.ops = @ + 1]
    /\ UNCHANGED <<committed, view, pending, next_tick, net, shard, proxy, task,
                   disabled, reports, acked, history>>

\* A transfer to r went on to its end without waiting any longer for p, which
\* has yet to learn that r gets updates.
LeftBehind(p, r) ==
    /\ committed.state[r] \in {"Active", "Partial"}
    /\ \E i \in DOMAIN pending[p] : pending[p][i].type = "partial" /\ pending[p][i].to = r
    /\ \A q \in Replicas : task[q].stage \notin {"confirm", "forward", "wait", "sync"}

\* A new tag; the local Shard first, then a request to every other replica that
\* gets updates.
Send(p) ==
    /\ update[p].phase = "ready"
    /\ LET targets == {r \in Replicas : IsUpdatable(p, r)}
           tick == next_tick[p]
           tag == [clock |-> p, tick |-> tick, op |-> update[p].op,
                   token |-> update[p].op * (MaxAttempts + 1) + update[p].attempt]
       IN  IF targets = {}
           THEN /\ update' = [update EXCEPT ![p] = Idle]
                /\ UNCHANGED <<next_tick, net, shard, outrun, count>>
           ELSE /\ next_tick' = [next_tick EXCEPT ![p] = IF tick = 0 THEN 0 ELSE tick + 1]
                /\ net' = net \cup [to : targets \ {p}, tag : {tag}, targets : {targets}]
                /\ \E o \in IF p \in targets THEN Outcomes(p, tag)
                            ELSE {[shard |-> shard, lost |-> 0]} :
                     /\ count.lost + o.lost <= MaxLost
                     /\ count' = [count EXCEPT !.lost = @ + o.lost]
                     /\ shard' = o.shard
                     /\ update' = [update EXCEPT ![p] =
                           [phase |-> "sent", op |-> @.op, attempt |-> @.attempt,
                            tag |-> tag, targets |-> targets,
                            inline |-> p \in targets /\ proxy[p].kind # "local",
                            replies |-> IF p \in targets THEN p :> o.reply ELSE <<>>]]
                /\ outrun' = IF \E r \in Replicas \ targets : LeftBehind(p, r)
                             THEN outrun \cup {tag} ELSE outrun
    /\ UNCHANGED <<committed, view, pending, proxy, task, disabled, reports, acked, doubted,
                   unclocked>>

\* The reply reaches the coordinator only if it still waits for it.
Replied(m, reply) ==
    LET p == m.tag.clock
    IN  IF update[p].phase = "sent" /\ update[p].tag = m.tag
           /\ m.to \notin DOMAIN update[p].replies
        THEN [update EXCEPT ![p].replies = (m.to :> reply) @@ @]
        ELSE update

Deliver(m) ==
    /\ \E o \in Outcomes(m.to, m.tag), reply_lost \in {0, 1} :
         /\ count.lost + o.lost + reply_lost <= MaxLost
         /\ count' = [count EXCEPT !.lost = @ + o.lost + reply_lost]
         /\ shard' = o.shard
         /\ update' = Replied(m, IF reply_lost = 1 THEN Failed ELSE o.reply)
    /\ net' = net \ {m}
    /\ UNCHANGED <<committed, view, pending, next_tick, proxy, task, disabled, reports, acked, history>>

\* A request is lost, or its answer takes too long while it is on its way.
Lose(m) ==
    /\ count.lost < MaxLost
    /\ count' = [count EXCEPT !.lost = @ + 1]
    /\ update' = Replied(m, Failed)
    /\ net' \in {net, net \ {m}}
    /\ UNCHANGED <<committed, view, pending, next_tick, shard, proxy, task,
                   disabled, reports, acked, history>>

IsSuccess(reply) == reply.status \in {"ok", "rejected"}
IsTransient(reply) == reply.status \in {"failed", "wrong_state"}

\* handle_failed_replicas: the transfer takes care of a receiver that is not in
\* the expected state yet.
ToDisable(p, failures, replies) ==
    {r \in failures :
        /\ view[p].state[r] # "Dead"
        /\ ~ /\ view[p].state[r] \in {"Partial", "Recovery"}
             /\ replies[r].status = "wrong_state"}

\* add_locally_disabled: never the last active replica.  The state expected by
\* consensus is left open for a replica in transfer.
Disable(p, peers) ==
    [r \in Replicas |->
        IF r \in peers /\ \/ disabled[p][r] # Enabled
                          \/ \E q \in Active(view[p]) \ {r} : disabled[p][q] = Enabled
        THEN IF view[p].state[r] = "Active" THEN "Active" ELSE AnyState
        ELSE disabled[p][r]]

Deactivation(r, from_state) ==
    [type |-> "dead", peer |-> r, from_state |-> from_state]

\* All replicas have answered: take over the newest tick, and see to the
\* replicas that failed if enough others succeeded.
Settle(p) ==
    /\ update[p].phase = "sent"
    /\ DOMAIN update[p].replies = update[p].targets
    /\ LET replies == update[p].replies
           successes == {r \in update[p].targets : IsSuccess(replies[r])}
           failures == update[p].targets \ successes
           completed == \E r \in successes : replies[r].status = "ok"
           handled == {r \in failures : completed \/ IsTransient(replies[r])}
           disable == ToDisable(p, handled, replies)
           enough == Cardinality(successes) >= Min({WriteConsistency, Cardinality(Replicas)})
       IN  /\ next_tick' = [next_tick EXCEPT ![p] =
                  Max({@} \cup {replies[r].tick + 1 : r \in successes})]
           /\ IF failures # {} /\ ~enough
              THEN /\ update' = [update EXCEPT ![p] = Idle]
                   /\ UNCHANGED <<disabled, reports, doubted>>
              ELSE /\ disabled' = [disabled EXCEPT ![p] = Disable(p, disable)]
                   /\ doubted' = doubted \cup
                         {r \in disable : disabled'[p][r] = AnyState}
                   /\ reports' = reports \cup {Deactivation(r, disabled'[p][r]) :
                                     r \in {q \in disable : disabled'[p][q] # Enabled}}
                   /\ update' = [update EXCEPT ![p] =
                         [phase |-> "settled", op |-> @.op, attempt |-> @.attempt,
                          tag |-> @.tag, successes |-> successes,
                          rejected |-> \E r \in successes : replies[r].status = "rejected",
                          await |-> IF \E r \in disable : IsTransient(replies[r])
                                    THEN handled ELSE {}]]
    /\ UNCHANGED <<committed, view, pending, net, shard, proxy, task, acked, outrun,
                   unclocked, count>>

\* Once the failed replicas are out of the replica set: confirm the update, or
\* run it again if a replica rejected its tick.
Conclude(p) ==
    /\ update[p].phase = "settled"
    /\ \A r \in update[p].await : view[p].state[r] # "Active"
    /\ LET u == update[p]
           safe == \E r \in u.successes : IsSourceOfTruth(p, r)
           again == safe /\ u.rejected /\ u.attempt < MaxAttempts
       IN  /\ update' = [update EXCEPT ![p] =
                  IF again THEN [phase |-> "ready", op |-> u.op, attempt |-> u.attempt + 1]
                           ELSE Idle]
           /\ acked' = IF safe /\ ~u.rejected THEN acked \cup {u.tag} ELSE acked
    /\ UNCHANGED <<committed, view, pending, next_tick, net, shard, proxy, task,
                   disabled, reports, history, count>>

\* Mutant: the wait has no timeout.
NoDeactivationTimeout(p) == FALSE

\* The failed replicas were not taken out in time.
DeactivationTimesOut(p) ==
    /\ update[p].phase = "settled"
    /\ \E r \in update[p].await : view[p].state[r] = "Active"
    /\ update' = [update EXCEPT ![p] = Idle]
    /\ UNCHANGED <<committed, view, pending, next_tick, net, shard, proxy, task,
                   disabled, reports, acked, history, count>>

\* Locally disabled replicas are reported until consensus has decided, and the
\* transfers they are the source of are reported as failed.
NotifyPeerFailure(p, r) ==
    /\ disabled[p][r] # Enabled
    /\ LET dead == Deactivation(r, disabled[p][r])
       IN  /\ dead \notin reports
           /\ \A i \in DOMAIN pending[p] : pending[p][i] # dead
           /\ reports' = reports \cup {dead}
    /\ IF view[p].transfer.from = r
       THEN Propose(<<[type |-> "abort", from |-> r, to |-> view[p].transfer.to]>>)
       ELSE UNCHANGED <<pending, committed, count>>
    /\ UNCHANGED <<view, next_tick, update, net, shard, proxy, task, disabled, acked, history>>

\* The proposal is committed.
Deactivate(e) ==
    /\ reports' = reports \ {e}
    /\ Propose(<<e>>)
    /\ UNCHANGED <<view, next_tick, update, net, shard, proxy, task, disabled, acked, history>>

\* The proposal gets lost on its way to the leader.
LoseReport(e) ==
    /\ count.reports < MaxLostReports
    /\ count' = [count EXCEPT !.reports = @ + 1]
    /\ reports' = reports \ {e}
    /\ UNCHANGED <<committed, view, pending, next_tick, update, net, shard, proxy, task,
                   disabled, acked, history>>

-----------------------------------------------------------------------------
(* Recovery of a dead replica, driven by the replica it recovers from.     *)

\* sync_local_state of the dead replica.
RequestTransfer(r) ==
    /\ view[r].state[r] = "Dead"
    /\ view[r].transfer = NoTransfer
    /\ \A i \in DOMAIN pending[r] : pending[r][i].type # "start"
    /\ \E from \in Active(view[r]) \ {r} :
         /\ disabled[r][from] = Enabled
         /\ Propose(<<[type |-> "start", from |-> from, to |-> r]>>)
    /\ UNCHANGED <<view, next_tick, update, net, shard, proxy, task, disabled, reports, acked, history>>

RecoveryPoint(s) == IF s.snapshot = {} THEN s.newest
                    ELSE CHOOSE c \in s.snapshot : TRUE

\* The receiver has to know of the transfer before it gives its recovery point.
FetchRecoveryPoint(p) ==
    /\ task[p].stage = "point"
    /\ LET to == task[p].to
       IN  /\ view[to].transfer.to = to
           /\ view[to].state[to] \in {"Partial", "Recovery"}
           /\ task' = [task EXCEPT ![p] = [stage |-> "version", to |-> to,
                                           point |-> RecoveryPoint(shard[to])]]
    /\ UNCHANGED <<committed, view, pending, next_tick, update, net, shard, proxy,
                   disabled, reports, acked, history, count>>

\* Read before the delta is resolved: updates that come in between are queued.
ReadWalVersion(p) ==
    /\ task[p].stage = "version"
    /\ task' = [task EXCEPT ![p] = [stage |-> "resolve", to |-> @.to, point |-> @.point,
                                    next |-> Len(shard[p].log) + 1]]
    /\ UNCHANGED <<committed, view, pending, next_tick, update, net, shard, proxy,
                   disabled, reports, acked, history, count>>

Delta(p) == ResolveWalDelta(shard[p].log, 1, task[p].point,
                            RecoveryPoint(shard[p]), NoClocks)

QueueProxify(p) ==
    /\ task[p].stage = "resolve"
    /\ Delta(p) # Unresolvable
    /\ proxy' = [proxy EXCEPT ![p] =
                   [kind |-> "queue", to |-> task[p].to,
                    transfer_from |-> IF Delta(p) = NoDelta THEN task[p].next
                                                            ELSE Delta(p)]]
    /\ task' = [task EXCEPT ![p] = [stage |-> "flush", to |-> @.to]]
    /\ UNCHANGED <<committed, view, pending, next_tick, update, net, shard,
                   disabled, reports, acked, history, count>>

QueueIsEmpty(p) == proxy[p].transfer_from > Len(shard[p].log)

\* A record of the queue is sent with the force flag, and again if the answer
\* is lost.
TransferMissedUpdate(p) ==
    /\ task[p].stage \in {"flush", "forward"}
    /\ ~QueueIsEmpty(p)
    /\ LET to == task[p].to
           from == proxy[p].transfer_from
       IN  /\ AcceptsOperation(to, TRUE)
           /\ shard' = [shard EXCEPT ![to] = Write(@, shard[p].log[from], TRUE).shard]
           /\ \/ /\ proxy' = [proxy EXCEPT ![p].transfer_from = from + 1]
                 /\ UNCHANGED count
              \/ /\ count.lost < MaxLost
                 /\ count' = [count EXCEPT !.lost = @ + 1]
                 /\ UNCHANGED proxy
    /\ UNCHANGED <<committed, view, pending, next_tick, update, net, task,
                   disabled, reports, acked, history>>

\* The queue is empty while the update lock is held: the receiver may follow.
SwitchToPartial(p) ==
    /\ task[p].stage = "flush"
    /\ QueueIsEmpty(p)
    /\ Propose(<<[type |-> "partial", from |-> p, to |-> task[p].to]>>)
    /\ task' = [task EXCEPT ![p].stage = "confirm"]
    /\ UNCHANGED <<view, next_tick, update, net, shard, proxy, disabled, reports, acked, history>>

ConfirmPartial(p) ==
    /\ task[p].stage = "confirm"
    /\ view[task[p].to].state[task[p].to] = "Partial"
    /\ task' = [task EXCEPT ![p].stage = "forward"]
    /\ UNCHANGED <<committed, view, pending, next_tick, update, net, shard, proxy,
                   disabled, reports, acked, history, count>>

\* Mutant: the queue is not emptied once more under the lock.
IntoForwardProxyEarly(p) ==
    /\ task[p].stage = "forward"
    /\ ~HoldsLocal(p)
    /\ proxy' = [proxy EXCEPT ![p] = [kind |-> "forward", to |-> task[p].to]]
    /\ task' = [task EXCEPT ![p].stage = "wait"]
    /\ UNCHANGED <<committed, view, pending, next_tick, update, net, shard,
                   disabled, reports, acked, history, count>>

\* Under the write lock of the Shard: the queue is empty and stays so.
IntoForwardProxy(p) ==
    /\ task[p].stage = "forward"
    /\ QueueIsEmpty(p)
    /\ ~HoldsLocal(p)
    /\ proxy' = [proxy EXCEPT ![p] = [kind |-> "forward", to |-> task[p].to]]
    /\ task' = [task EXCEPT ![p].stage = "wait"]
    /\ UNCHANGED <<committed, view, pending, next_tick, update, net, shard,
                   disabled, reports, acked, history, count>>

\* Consensus operations a peer has applied.
Applied(p) == count.proposals - Len(pending[p])

AwaitPartial(p) ==
    /\ task[p].stage = "wait"
    /\ view[p].state[task[p].to] = "Partial"
    /\ task' = [task EXCEPT ![p] = [stage |-> "sync", to |-> @.to, commit |-> Applied(p)]]
    /\ UNCHANGED <<committed, view, pending, next_tick, update, net, shard, proxy,
                   disabled, reports, acked, history, count>>

\* The wait for all peers to apply what the source has applied ends, with success,
\* or because a peer has failed or is late, which is only logged.  Requests that
\* are on their way to the source are not waited for, although the receiver may
\* have refused them or was not sent them.
AwaitConsensusSync(p) ==
    /\ task[p].stage = "sync"
    /\ \/ \A q \in Peers : Applied(q) >= task[p].commit
       \/ \E q \in Peers \ {p} : Applied(q) < task[p].commit
    /\ task' = [task EXCEPT ![p] = [stage |-> "finish", to |-> @.to]]
    /\ outrun' = outrun \cup
           ({m.tag : m \in {n \in net : n.to = p}}
            \ {m.tag : m \in {n \in net : n.to = task[p].to}})
    /\ UNCHANGED <<committed, view, pending, next_tick, update, net, shard, proxy,
                   disabled, reports, acked, doubted, unclocked, count>>

FinishTransfer(p) ==
    /\ task[p].stage = "finish"
    /\ Propose(<<[type |-> "finish", from |-> p, to |-> task[p].to]>>)
    /\ task' = [task EXCEPT ![p] = [stage |-> "done", to |-> @.to]]
    /\ UNCHANGED <<view, next_tick, update, net, shard, proxy, disabled, reports, acked, history>>

\* The transfer fails, because no delta can be found or the receiver does not
\* answer or get into the expected state: the queue is dropped and consensus is asked to end it.
TransferFails(p) ==
    /\ task[p].stage \notin {"none", "done"}
    /\ ~HoldsLocal(p)
    /\ Propose(<<[type |-> "abort", from |-> p, to |-> task[p].to]>>)
    /\ proxy' = [proxy EXCEPT ![p] = IF @.kind = "queue" THEN Local ELSE @]
    /\ task' = [task EXCEPT ![p] = [stage |-> "done", to |-> @.to]]
    /\ UNCHANGED <<view, next_tick, update, net, shard, disabled, reports, acked, history>>

\* Mutant: nobody looks for a transfer without task.
NeverReportMissingTask(p) == FALSE

\* A transfer without task is reported as failed.
ReportMissingTask(p) ==
    /\ view[p].transfer.from = p
    /\ task[p] = NoTask
    /\ Propose(<<[type |-> "abort", from |-> p, to |-> view[p].transfer.to]>>)
    /\ UNCHANGED <<view, next_tick, update, net, shard, proxy, task, disabled, reports, acked, history>>

\* A restart forgets the clock of the peer, its updates, transfers and doubts.
\* The clock maps come from disk; the log is replayed on them up to its end or to
\* the records that are left to the update queue.
Restart(p) ==
    /\ p \in Restartable
    /\ count.restarts < MaxRestarts
    /\ count' = [count EXCEPT !.restarts = @ + 1]
    /\ disabled' = [disabled EXCEPT ![p] = [r \in Replicas |-> Enabled]]
    /\ doubted' = IF p \in Clocks THEN Replicas ELSE doubted
    /\ IF p \in Clocks
       THEN /\ next_tick' = [next_tick EXCEPT ![p] = 0]
            /\ update' = [update EXCEPT ![p] = Idle]
            /\ \E lost \in SUBSET {m \in net : m.tag.clock = p} : net' = net \ lost
       ELSE UNCHANGED <<next_tick, update, net>>
    /\ IF p \in Replicas
       THEN /\ proxy' = [proxy EXCEPT ![p] = Local]
            /\ task' = [task EXCEPT ![p] = NoTask]
            /\ \E tail \in 0 .. QueuedTail :
                 LET log == shard[p].log
                     newest == ClocksOf(shard[p].saved,
                                        Range(SubSeq(log, 1, Len(log) - tail)))
                 IN  /\ shard' = [shard EXCEPT ![p].newest = newest]
                     /\ unclocked' = unclocked \cup
                            {e \in Range(log) : e.tick > newest[e.clock].tick}
       ELSE UNCHANGED <<proxy, task, shard, unclocked>>
    /\ UNCHANGED <<committed, view, pending, reports, acked, outrun>>

-----------------------------------------------------------------------------
\* All replicas are active and have one update of every coordinator.
Seed(k) == [clock |-> k, tick |-> 1, op |-> 0, token |-> 0]

Init ==
    /\ committed = [state |-> [r \in Replicas |-> "Active"], transfer |-> NoTransfer]
    /\ view = [p \in Peers |-> committed]
    /\ pending = [p \in Peers |-> <<>>]
    /\ next_tick = [k \in Clocks |-> 2]
    /\ update = [k \in Clocks |-> Idle]
    /\ net = {}
    /\ LET log == SetToSeq({Seed(k) : k \in Clocks})
           clocks == ClocksOf(NoClocks, Range(log))
       IN  shard = [r \in Replicas |-> [log |-> log, newest |-> clocks,
                                        snapshot |-> {}, saved |-> clocks]]
    /\ proxy = [r \in Replicas |-> Local]
    /\ task = [r \in Replicas |-> NoTask]
    /\ disabled = [p \in Peers |-> [r \in Replicas |-> Enabled]]
    /\ reports = {}
    /\ acked = {}
    /\ doubted = {}
    /\ outrun = {}
    /\ unclocked = {}
    /\ count = [ops |-> 0, proposals |-> 0, lost |-> 0, reports |-> 0, restarts |-> 0]

Next ==
    \/ \E p \in Peers : Apply(p) \/ Restart(p)
    \/ \E p \in Clocks : \/ Begin(p) \/ Send(p) \/ Settle(p) \/ Conclude(p)
                         \/ DeactivationTimesOut(p)
    \/ \E m \in net : Deliver(m) \/ Lose(m)
    \/ \E p \in Peers, r \in Replicas : NotifyPeerFailure(p, r)
    \/ \E e \in reports : Deactivate(e) \/ LoseReport(e)
    \/ \E r \in Replicas : \/ RequestTransfer(r) \/ FetchRecoveryPoint(r)
                           \/ ReadWalVersion(r) \/ QueueProxify(r)
                           \/ TransferMissedUpdate(r) \/ SwitchToPartial(r)
                           \/ ConfirmPartial(r) \/ IntoForwardProxy(r)
                           \/ AwaitPartial(r) \/ AwaitConsensusSync(r)
                           \/ FinishTransfer(r)
                           \/ TransferFails(r) \/ ReportMissingTask(r)

Spec == Init /\ [][Next]_vars

\* Peers apply what is committed, timers run off, a running task goes on or ends
\* when no delta can be found, and reports are repeated; nothing makes a client
\* send updates or a message fail.
Fairness ==
    /\ \A p \in Peers : WF_vars(Apply(p))
    /\ \A p \in Clocks : WF_vars(Send(p) \/ Settle(p) \/ Conclude(p) \/ DeactivationTimesOut(p))
    /\ WF_vars(\E m \in net : Deliver(m))
    /\ WF_vars(\E p \in Peers, r \in Replicas : NotifyPeerFailure(p, r))
    /\ WF_vars(\E e \in reports : Deactivate(e))
    /\ \A r \in Replicas :
         /\ WF_vars(RequestTransfer(r))
         /\ WF_vars(\/ FetchRecoveryPoint(r) \/ ReadWalVersion(r) \/ QueueProxify(r)
                    \/ TransferMissedUpdate(r) \/ SwitchToPartial(r) \/ ConfirmPartial(r)
                    \/ IntoForwardProxy(r) \/ AwaitPartial(r) \/ AwaitConsensusSync(r)
                    \/ FinishTransfer(r))
         /\ WF_vars(task[r].stage = "resolve" /\ Delta(r) = Unresolvable /\ TransferFails(r))
         /\ WF_vars(ReportMissingTask(r))

FairSpec == Spec /\ Fairness

-----------------------------------------------------------------------------
Ticks == 0 .. MaxOps * MaxAttempts + 2
Tokens == 0 .. (MaxOps + 1) * (MaxAttempts + 1)
Maps == [Clocks -> [tick : Ticks, token : Tokens]]
ReplicaSets ==
    [state : [Replicas -> States],
     transfer : {NoTransfer} \cup {[from |-> f, to |-> t] : f, t \in Replicas}]

\* Every variable has its type: a replica keeps at most one snapshot of its
\* clocks, a queue starts within the log, and no replica answers an update that
\* it was not sent.
TypeOK ==
    /\ committed \in ReplicaSets /\ view \in [Peers -> ReplicaSets]
    /\ next_tick \in [Clocks -> Ticks]
    /\ \A k \in Clocks :
         /\ update[k].phase \in {"idle", "ready", "sent", "settled"}
         /\ update[k].phase = "sent" => DOMAIN update[k].replies \subseteq update[k].targets
    /\ \A m \in net : m.to \in m.targets /\ m.tag.clock \in Clocks
    /\ \A r \in Replicas :
         /\ shard[r].newest \in Maps /\ shard[r].saved \in Maps
         /\ shard[r].snapshot \subseteq Maps /\ Cardinality(shard[r].snapshot) <= 1
         /\ proxy[r].kind \in {"local", "queue", "forward"}
         /\ proxy[r].kind = "queue" => proxy[r].transfer_from \in 1 .. Len(shard[r].log) + 1
         /\ task[r].stage \in {"none", "point", "version", "resolve", "flush", "confirm",
                               "forward", "wait", "sync", "finish", "done"}
    /\ disabled \in [Peers -> [Replicas -> {Enabled, "Active", AnyState}]]
    /\ \A e \in reports : e.type = "dead" /\ e.from_state \in {"Active", AnyState}

\* A replica that is active for everyone holds every confirmed update: what a
\* client was told has been applied is on every replica that answers reads, or
\* some peer is about to have the replica taken out.  Left out are
\*  - replicas that failed an update while in transfer (see ClaimedIsHeld), and
\*    all of them once a coordinator has forgotten its clock and its doubts;
\*  - updates that the end of a transfer outran: on their way to the source and no
\*    longer to the receiver when the wait for consensus was over, or sent after it
\*    by a peer that was given up on.  They are not passed on if they arrive when
\*    the proxy is gone;
\*  - updates that a restarted source had in its log and not in its clocks.
ActiveReplicasAreComplete ==
    \A r \in Active(committed) \ doubted :
        \/ \E p \in Peers : disabled[p][r] # Enabled
        \/ \E e \in reports : e.peer = r
        \/ \A tag \in acked \ (outrun \cup unclocked) : tag.op \in Held(r)

\* The recovery point of a replica never claims a confirmed update that the
\* replica does not hold: the delta computed from it leaves nothing out.  The
\* exceptions are those of ActiveReplicasAreComplete: the next update moves the
\* clock of the replica past the one that it missed.
RecoveryPointsAreBacked ==
    \A r \in Replicas \ doubted : \A tag \in acked \ (outrun \cup unclocked) :
        tag.tick <= RecoveryPoint(shard[r])[tag.clock].tick => tag.op \in Held(r)

\* "The recovery point contains every clock that is in this clock map. So, it
\* represents all the clock ticks we have" (ClockMap::to_recovery_point): no
\* replica claims a confirmed update that it does not hold, even if the update was
\* not outrun by the end of a transfer.
ClaimedIsHeld ==
    \A r \in Replicas : \A tag \in acked \ outrun :
        tag.tick <= RecoveryPoint(shard[r])[tag.clock].tick => tag.op \in Held(r)

\* Every update that a coordinator has started comes to an end, with success or
\* not: no lost answer, no replica that consensus keeps active and no transfer
\* holds it up for ever.
UpdatesAreSettled == \A p \in Clocks : update[p].phase # "idle" ~> update[p].phase = "idle"

\* A replica that was taken out becomes active again, whatever step of its
\* recovery fails, as long as more consensus operations can be proposed.
DeadReplicasRecover ==
    \A r \in Replicas : committed.state[r] # "Active" ~>
        committed.state[r] = "Active" \/ count.proposals = MaxProposals
=============================================================================
