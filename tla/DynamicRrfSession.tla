------------------------- MODULE DynamicRrfSession --------------------------
(***************************************************************************)
(* DynamicRrfSession: the loop that decides which source to pull next and  *)
(* when to attempt certification, the calls that drive it, and what it     *)
(* does when a stream fails or breaks its contract.  It implements         *)
(* DynamicRrf, whose state it contains.                                    *)
(***************************************************************************)
EXTENDS DynamicRrf, FiniteSets

CONSTANTS
    MaxBatch,          \* source_batch_size
    Scheduler,         \* "MaxNextContribution" or "CompetitorCostAware"
    SourceCost,        \* source_costs, positive
    Fairness,          \* fairness_after_actions_per_source, 0 for None
    WarmupInterval,    \* warmup_check_interval, 0 for None
    DrainBudget,       \* exhaustive_after_pulls_per_source, 0 for None
    MinInterval,       \* MIN_CERTIFICATION_INTERVAL
    MaxInterval,       \* MAX_CERTIFICATION_INTERVAL
    PauseTargets,      \* values of minimum_pulls a caller may pass
    MaxCalls           \* bound on the calls made on one session

ASSUME SessionAssumption ==
    /\ IsFiniteSet(Points)
    /\ IsFiniteSet(Sources) /\ Sources = 1..Cardinality(Sources)
    /\ MaxBatch \in Nat \ {0}
    /\ Scheduler \in {"MaxNextContribution", "CompetitorCostAware"}
    /\ SourceCost \in [Sources -> Nat \ {0}]
    /\ {Fairness, WarmupInterval, DrainBudget, MinInterval, MaxInterval} \subseteq Nat
    /\ \A targets \in PauseTargets : targets \in [Sources -> Nat \cup {-1}]

VARIABLES
    call,                 \* "idle", or the method being executed
    at,                   \* where its loop stands: "check" or "pull"
    minimum_pulls,        \* pause targets of the call
    outcome,              \* how the last call returned
    broken,               \* per source, its stream has failed for good
    wait,                 \* advance_actions - source_last_advanced
    passed_over,          \* history: those of these actions s was eligible for
    pulls_since_check,
    force_check,
    certification_checks,
    competitive_missing,
    warmup_pulls,
    exhausted_order,      \* {} or {the complete order}
    calls                 \* number of calls made

schedule_vars == <<wait, passed_over, pulls_since_check, force_check, certification_checks,
                   competitive_missing, warmup_pulls, exhausted_order>>

session_vars == <<call, at, minimum_pulls, outcome, broken, calls>>

NoTarget == -1

NoTargets == [s \in Sources |-> NoTarget]

SourceCount == Cardinality(Sources)

MaxOf(a, b) == IF a >= b THEN a ELSE b

(* top_k and source_count are small: saturating_mul never saturates here. *)
WarmupPulls(k) == 2 * k * SourceCount

\* Type invariant of DynamicRrfSession: the counters, the schedule and the
\* control point of the pull loop.
SessionTypeOK ==
    /\ call \in {"idle", "run_to_prefix", "advance_until_each"}
    /\ at \in {"check", "pull"}
    /\ minimum_pulls \in [Sources -> Nat \cup {NoTarget}]
    /\ outcome \in {"none", "fixed", "paused", "error"}
    /\ broken \in [Sources -> BOOLEAN]
    /\ wait \in [Sources -> Nat]
    /\ passed_over \in [Sources -> Nat]
    /\ {pulls_since_check, certification_checks, warmup_pulls, calls} \subseteq Nat
    /\ force_check \in BOOLEAN
    /\ competitive_missing \in [Sources -> Nat]
    /\ Cardinality(exhausted_order) <= 1

SessionInit ==
    /\ Init
    /\ call = "idle"
    /\ at = "check"
    /\ minimum_pulls = NoTargets
    /\ outcome = "none"
    /\ broken = [s \in Sources |-> FALSE]
    /\ wait = [s \in Sources |-> 0]
    /\ passed_over = [s \in Sources |-> 0]
    /\ pulls_since_check = 0
    /\ force_check = TRUE
    /\ certification_checks = 0
    /\ competitive_missing = [s \in Sources |-> MaxOf(top_k, 1)]
    /\ warmup_pulls = WarmupPulls(top_k)
    /\ exhausted_order = {}
    /\ calls = 0

-----------------------------------------------------------------------------
(* Certification schedule. *)

total_pulls == LET Sum[n \in 0..SourceCount] ==
                       IF n = 0 THEN 0 ELSE Sum[n - 1] + next_positions[n]
               IN  Sum[SourceCount]

drain_to_exhaustion == DrainBudget # 0 /\ total_pulls >= DrainBudget * SourceCount

check_interval ==
    IF total_pulls <= warmup_pulls
    THEN IF WarmupInterval = 0 THEN SourceCount ELSE WarmupInterval
    ELSE LET eighth == total_pulls \div 8
         IN  IF eighth < MinInterval THEN MinInterval
             ELSE IF eighth > MaxInterval THEN MaxInterval ELSE eighth

CheckDue ==
    \/ all_sources_exhausted
    \/ /\ ~drain_to_exhaustion
       /\ force_check \/ pulls_since_check >= check_interval

(* Faulty variant: a source that ended before its target blocks the pause. *)
PauseReachedIgnoringEnd ==
    /\ \E s \in Sources : minimum_pulls[s] # NoTarget
    /\ \A s \in Sources :
           minimum_pulls[s] = NoTarget \/ next_positions[s] >= minimum_pulls[s]

pause_reached ==
    /\ \E s \in Sources : minimum_pulls[s] # NoTarget
    /\ \A s \in Sources :
           \/ minimum_pulls[s] = NoTarget
           \/ next_positions[s] >= minimum_pulls[s]
           \/ exhausted[s]

IsFixed == \E w \in Prefixes : FixedTopK(w)

(* Advisory demand for each source among the points still in contention. *)
CompetitiveMissingCounts ==
    LET threshold == CHOOSE v \in {LowerBound(p) : p \in observed} :
            /\ Cardinality({p \in observed : LowerBound(p) > v}) < top_k
            /\ Cardinality({p \in observed : LowerBound(p) >= v}) >= top_k
        competitors == {p \in observed : UpperBound(p) >= threshold}
        unseen == IF UnseenUpperBound >= threshold THEN 1 ELSE 0
    IN  [s \in Sources |->
            IF exhausted[s] THEN 0
            ELSE IF Cardinality(observed) < top_k
                 THEN top_k - Cardinality(observed)
                 ELSE Cardinality({p \in competitors : contributions[p][s] = Absent})
                      + unseen]

(* The snapshot is refreshed on a doubling schedule of failed checks. *)
RefreshDue(checks) == checks <= 4 \/ \E e \in 2..checks : checks = 2^e

AfterFailedChecks(checks) ==
    /\ certification_checks' = checks
    /\ competitive_missing' =
           IF /\ Scheduler = "CompetitorCostAware"
              /\ \E n \in (certification_checks + 1)..checks : RefreshDue(n)
           THEN CompetitiveMissingCounts
           ELSE competitive_missing

-----------------------------------------------------------------------------
(* select_source_to_advance *)

Eligible(s) ==
    /\ ~exhausted[s]
    /\ minimum_pulls[s] = NoTarget \/ next_positions[s] < minimum_pulls[s]

fairness_window == Fairness * SourceCount

(* Faulty variant: a source that was never pulled is not waiting. *)
OverdueIfStarted ==
    {s \in Sources : /\ Eligible(s) /\ next_positions[s] > 0
                     /\ Fairness # 0 /\ wait[s] >= fairness_window}

Overdue == {s \in Sources : Eligible(s) /\ Fairness # 0 /\ wait[s] >= fairness_window}

(* The priority of a source is its Gain divided by its Cost. *)
Gain(s) ==
    LET bound == NextPossibleContribution(s)
        next_bound == PositionScore(s, next_positions[s] + 1)
    IN  IF Scheduler = "MaxNextContribution"
        THEN bound
        ELSE (bound - next_bound) * MaxOf(competitive_missing[s], 1)

Cost(s) == IF Scheduler = "MaxNextContribution" THEN 1 ELSE SourceCost[s]

(* s wins over t in the final max_by. *)
Preferred(s, t) ==
    LET left == Gain(s) * Cost(t)
        right == Gain(t) * Cost(s)
    IN  \/ left > right
        \/ /\ left = right
           /\ \/ NextPossibleContribution(s) > NextPossibleContribution(t)
              \/ NextPossibleContribution(s) = NextPossibleContribution(t) /\ s < t

IsSelected(s) ==
    IF Overdue # {}
    THEN /\ s \in Overdue
         /\ \A t \in Overdue \ {s} : wait[s] > wait[t] \/ (wait[s] = wait[t] /\ s < t)
    ELSE /\ Eligible(s)
         /\ \A t \in Sources \ {s} : Eligible(t) => Preferred(s, t)

-----------------------------------------------------------------------------
(* The calls. *)

Begin(method, targets) ==
    /\ call = "idle"
    /\ calls < MaxCalls
    /\ calls' = calls + 1
    /\ call' = method
    /\ at' = "check"
    /\ minimum_pulls' = targets
    /\ outcome' = "none"

RunToPrefix(k) ==
    /\ Begin("run_to_prefix", NoTargets)
    /\ ExtendTopK(k)
    /\ warmup_pulls' = MaxOf(warmup_pulls, WarmupPulls(k))
    /\ force_check' = TRUE
    /\ UNCHANGED <<broken, wait, passed_over, pulls_since_check, certification_checks,
                   competitive_missing, exhausted_order>>

(* extend_top_k refuses a shorter prefix. *)
RefuseShorterPrefix(k) ==
    /\ call = "idle"
    /\ calls < MaxCalls
    /\ calls' = calls + 1
    /\ k < top_k
    /\ outcome' = "error"
    /\ UNCHANGED <<vars, call, at, minimum_pulls, broken, schedule_vars>>

AdvanceUntilEach(targets) ==
    /\ Begin("advance_until_each", targets)
    /\ UNCHANGED <<vars, broken, schedule_vars>>

Return(how) == call' = "idle" /\ outcome' = how

(* A session that has read everything answers from the kept order. *)
ReturnKeptPrefix ==
    /\ call = "run_to_prefix"
    /\ \E order \in exhausted_order :
           LET n == IF Len(order) < top_k THEN Len(order) ELSE top_k
           IN  answers' = answers \cup {[k |-> top_k, point_ids |-> SubSeq(order, 1, n)]}
    /\ Return("fixed")
    /\ UNCHANGED <<ranking, next_positions, exhausted, contributions, top_k,
                   at, minimum_pulls, broken, calls, schedule_vars>>

InLoop(place) ==
    /\ call # "idle"
    /\ at = place
    /\ ~(call = "run_to_prefix" /\ exhausted_order # {})

CompleteOrders ==
    LET positive == {p \in observed : LowerBound(p) > 0}
    IN  {w \in [1..Cardinality(positive) -> positive] : SelectsBest(w, positive)}

(* Faulty variant: the order is kept although sources are still open. *)
ReturnFixedKeepingOrder ==
    /\ InLoop("check")
    /\ CheckDue \/ pause_reached
    /\ Certify
    /\ Return("fixed")
    /\ exhausted_order' = IF call = "run_to_prefix" THEN CompleteOrders ELSE exhausted_order
    /\ certification_checks' = certification_checks + 1
    /\ UNCHANGED <<at, minimum_pulls, broken, calls, wait, passed_over, pulls_since_check,
                   force_check, competitive_missing, warmup_pulls>>

ReturnFixed ==
    /\ InLoop("check")
    /\ CheckDue \/ pause_reached
    /\ Certify
    /\ Return("fixed")
    /\ exhausted_order' =
           IF call = "run_to_prefix" /\ all_sources_exhausted
           THEN CompleteOrders ELSE exhausted_order
    /\ certification_checks' = certification_checks + 1
    /\ UNCHANGED <<at, minimum_pulls, broken, calls, wait, passed_over, pulls_since_check,
                   force_check, competitive_missing, warmup_pulls>>

(* What a failed check due by the schedule leaves behind. *)
ResetCheck ==
    /\ pulls_since_check' = IF CheckDue THEN 0 ELSE pulls_since_check
    /\ force_check' = (force_check /\ ~CheckDue)

ReturnPaused ==
    /\ InLoop("check")
    /\ pause_reached
    /\ ~IsFixed
    /\ ResetCheck
    /\ AfterFailedChecks(certification_checks + (IF CheckDue THEN 2 ELSE 1))
    /\ Return("paused")
    /\ UNCHANGED <<vars, at, minimum_pulls, broken, calls, wait, passed_over, warmup_pulls,
                   exhausted_order>>

Proceed ==
    /\ InLoop("check")
    /\ ~pause_reached
    /\ CheckDue => ~IsFixed
    /\ ResetCheck
    /\ IF CheckDue THEN AfterFailedChecks(certification_checks + 1)
                   ELSE UNCHANGED <<certification_checks, competitive_missing>>
    /\ at' = "pull"
    /\ UNCHANGED <<vars, call, minimum_pulls, outcome, broken, calls, wait, passed_over,
                   warmup_pulls, exhausted_order>>

(* source_schedule, advance_actions and source_last_advanced change before
   the stream is asked.  Nothing reads them without a fairness window or once
   the source is exhausted. *)
Unread(s) == Fairness = 0 \/ exhausted[s]

Account(s) ==
    /\ wait' = [t \in Sources |-> IF t = s \/ Unread(t) THEN 0 ELSE wait[t] + 1]
    /\ passed_over' = [t \in Sources |->
                          IF t = s \/ Unread(t) THEN 0
                          ELSE passed_over[t] + (IF Eligible(t) THEN 1 ELSE 0)]

Pull(s, batch) ==
    /\ InLoop("pull")
    /\ IsSelected(s)
    /\ Account(s)
    /\ ~broken[s]
    /\ Len(batch.point_ids) <= MaxBatch
    /\ ObserveBatch(s, batch)
    /\ pulls_since_check' = pulls_since_check + Len(batch.point_ids)
    /\ force_check' = (force_check \/ batch.exhausted)
    /\ at' = "check"
    /\ UNCHANGED <<call, minimum_pulls, outcome, broken, calls,
                   certification_checks, competitive_missing, warmup_pulls,
                   exhausted_order>>

RejectBatch(s, batch) ==
    /\ InLoop("pull")
    /\ IsSelected(s)
    /\ Account(s)
    /\ ~broken[s]
    /\ Len(batch.point_ids) > MaxBatch \/ ~IsValidBatch(s, batch)
    /\ Return("error")
    /\ UNCHANGED <<vars, at, minimum_pulls, broken, calls, pulls_since_check,
                   force_check, certification_checks, competitive_missing,
                   warmup_pulls, exhausted_order>>

StreamFails(s) ==
    /\ InLoop("pull")
    /\ IsSelected(s)
    /\ Account(s)
    /\ broken' = [broken EXCEPT ![s] = TRUE]
    /\ Return("error")
    /\ UNCHANGED <<vars, at, minimum_pulls, calls, pulls_since_check,
                   force_check, certification_checks, competitive_missing,
                   warmup_pulls, exhausted_order>>

(* replace_source with a stream over r, which is consumed while it is
   compared with the observed history.  The replay can fail, end early or
   disagree at any observed rank. *)
Replace(s, r) ==
    /\ call = "idle"
    /\ calls < MaxCalls
    /\ \/ /\ ReplaceSource(s, r)
          /\ broken' = [broken EXCEPT ![s] = FALSE]
          /\ outcome' = "none"
       \/ /\ exhausted[s] \/ next_positions[s] > 0
          /\ outcome' = "error"
          /\ UNCHANGED <<vars, broken>>
    /\ UNCHANGED <<call, at, minimum_pulls, calls, schedule_vars>>

Step ==
    \/ ReturnKeptPrefix
    \/ ReturnFixed
    \/ ReturnPaused
    \/ Proceed
    \/ \E s \in Sources : \E b \in Deliveries(s) : Pull(s, b) \/ RejectBatch(s, b)
    \/ \E s \in Sources : StreamFails(s)

Calls ==
    \/ \E k \in 0..MaxTopK : RunToPrefix(k) \/ RefuseShorterPrefix(k)
    \/ \E targets \in PauseTargets : AdvanceUntilEach(targets)
    \/ \E s \in Sources : \E r \in Rankings : Replace(s, r)

Done == call = "idle" /\ calls = MaxCalls /\ UNCHANGED <<vars, session_vars, schedule_vars>>

SessionNext == Step \/ Calls \/ Done

(* The caller's thread runs a call to its end; nothing obliges a caller to
   make another one. *)
SessionSpec ==
    /\ SessionInit
    /\ [][SessionNext]_<<vars, session_vars, schedule_vars>>
    /\ WF_<<vars, session_vars, schedule_vars>>(Step)

-----------------------------------------------------------------------------
(* Whatever the policy, the session is a schedule of DynamicRrf steps: it
   answers only by certification, counts only valid batches and changes a
   source only after replaying its prefix. *)
ImplementsDynamicRrf == Init /\ [][Next]_vars

(* The expect() of select_source_to_advance never fires: whenever the loop
   goes on to pull, exactly one source is selected. *)
SomeSourceToAdvance ==
    InLoop("pull") => \E s \in Sources : IsSelected(s) /\ \A t \in Sources \ {s} : ~IsSelected(t)

(* Every call returns, with an answer, a pause or an error. *)
CallsReturn == (call # "idle") ~> (call = "idle")

(* Fairness of the pull schedule: a source that may be pulled is passed over
   for at most a window, plus one action for each other source that became
   overdue together with it.  Actions at which its pause target held it back
   do not count (select_source_to_advance). *)
BoundedWait ==
    \A s \in Sources : Eligible(s) => passed_over[s] <= fairness_window + SourceCount - 2
=============================================================================
