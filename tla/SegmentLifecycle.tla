-------------------------- MODULE SegmentLifecycle --------------------------
(***************************************************************************)
(* The Segments of one local Shard while updates, optimizers and exact     *)
(* sessions run side by side: the holder, the proxies an optimizer puts in *)
(* front of its inputs, copy-on-write moves out of Segments that cannot be *)
(* written, deferred points, and the generation guard that freezes it all  *)
(* for an exact session.                                                   *)
(*                                                                         *)
(* A point is its identity; its vectors and payload are what the operation *)
(* with the copy's version wrote, so a copy is its version.  An update     *)
(* runs under the exclusive generation guard and is one step.  What an     *)
(* optimizer does without that guard - reading the deletes of its proxies, *)
(* one proxy at a time, twice - is one step per proxy.                     *)
(*                                                                         *)
(* Points beside Points matter by the offsets they take: they are together *)
(* in one Segment, first the appendable one.                               *)
(***************************************************************************)
EXTENDS Integers, FiniteSets, FiniteSetsExt, Functions

CONSTANTS Points,        \* external point identities
          Jobs,          \* optimizer tasks that may run in parallel
          Sessions,      \* exact sessions
          MaxOp,         \* bound: operations applied
          MaxId,         \* bound: segment ids handed out
          Thresholds,    \* values deferred_internal_id may be configured to
          Others         \* number of points beside Points; they are never written

ASSUME LifecycleAssumption ==
    /\ IsFiniteSet(Points)
    /\ MaxOp \in Nat \ {0} /\ MaxId \in Nat /\ MaxId >= 3
    /\ Thresholds \subseteq Nat \ {0}
    /\ Others \in Nat

VARIABLES deferred_internal_id,  \* internal offsets from here on are deferred
          op,        \* number of the last applied operation
          segments,  \* the holder: segment id -> Segment or proxy
          next_id,   \* the next free segment id
          jobs,      \* what each optimizer task is doing
          sessions,  \* what each exact session has pinned
          latest     \* history: version of each point's last write, 0 if deleted

vars == <<deferred_internal_id, op, segments, next_id, jobs, sessions, latest>>

Versions == 0 .. MaxOp            \* 0: no copy
Ids == 1 .. MaxId
Nowhere == [p \in Points |-> 0]

Segment == [version : [Points -> Versions], offset : [Points -> Nat],
            total : Nat, others : BOOLEAN, appendable : BOOLEAN,
            is_proxy : BOOLEAN, deleted_points : [Points -> Versions]]

EmptySegment == [version |-> Nowhere, offset |-> Nowhere, total |-> 0,
                 others |-> FALSE, appendable |-> TRUE, is_proxy |-> FALSE,
                 deleted_points |-> Nowhere]

Idle == [phase |-> "idle", inputs |-> {}, cow |-> 0, out |-> EmptySegment,
         unread |-> {}, seen |-> Nowhere, already_removed |-> {}]

Phases == {"idle", "merge", "apply", "recheck", "ready", "stuck"}

Job == [phase : Phases, inputs : SUBSET Ids, cow : 0 .. MaxId, out : Segment,
        unread : SUBSET Ids, seen : [Points -> Versions],
        already_removed : SUBSET Points]

Unpinned == [handles |-> {}, proxies |-> {}, opened |-> {}, active |-> FALSE]

-----------------------------------------------------------------------------
(* One Segment, raw or behind a proxy.                                     *)

\* has_point: a proxy hides what it recorded as deleted.
HasPoint(g, p) == g.version[p] # 0 /\ (g.is_proxy => g.deleted_points[p] = 0)

\* Deferred points wait, invisible, until an optimizer indexes them.
PointIsDeferred(g, p) == g.appendable /\ g.offset[p] >= deferred_internal_id

HasDeferredPoints(g) == g.appendable /\ g.total > deferred_internal_id

CanWrite(g) == g.appendable /\ ~g.is_proxy

\* delete_point for every p with at[p] # 0, with at[p] as the operation number.
\* A raw Segment ignores a delete older than its copy.
RawDelete(g, at) ==
    LET gone(p) == at[p] # 0 /\ g.version[p] # 0 /\ g.version[p] <= at[p]
    IN  [g EXCEPT !.version = [p \in Points |-> IF gone(p) THEN 0 ELSE @[p]],
                  !.offset = [p \in Points |-> IF gone(p) THEN 0 ELSE @[p]]]

\* A proxy records a delete of what it wraps, over any earlier record.
ProxyDelete(g, at) ==
    [g EXCEPT !.deleted_points = [p \in Points |->
        IF at[p] # 0 /\ g.version[p] # 0 THEN at[p] ELSE @[p]]]

DeletePoints(g, at) == IF g.is_proxy THEN ProxyDelete(g, at) ELSE RawDelete(g, at)

DeletePoint(g, n, p) == DeletePoints(g, [Nowhere EXCEPT ![p] = n])

\* A new copy takes the next offset; an existing one is rewritten where it is,
\* unless it is newer than the operation.
InsertNewVectors(g, n, p) ==
    [g EXCEPT !.version[p] = n, !.offset[p] = g.total, !.total = @ + 1]

UpsertPoint(g, n, p) ==
    IF g.version[p] = 0 THEN InsertNewVectors(g, n, p)
    ELSE IF g.version[p] > n THEN g
    ELSE [g EXCEPT !.version[p] = n]

-----------------------------------------------------------------------------
(* The holder: which copies an operation updates and which it deletes.     *)

Occurrences(H, p) == {s \in DOMAIN H : HasPoint(H[s], p)}

LatestVersion(H, p) == Max({H[s].version[p] : s \in Occurrences(H, p)})

ToUpdate(H, p) ==
    {s \in Occurrences(H, p) : H[s].version[p] = LatestVersion(H, p)}

\* Mutant: an older copy goes although its successor is still invisible.
ToDeleteAnyOlder(H, p) ==
    {s \in Occurrences(H, p) \ ToUpdate(H, p) : ~PointIsDeferred(H[s], p)}

\* An older copy goes only if a newest one is visible in its place.
ToDelete(H, p) ==
    {s \in Occurrences(H, p) \ ToUpdate(H, p) :
        /\ ~PointIsDeferred(H[s], p)
        /\ \E t \in ToUpdate(H, p) : ~PointIsDeferred(H[t], p)}

\* Each obsolete copy of the points P is deleted with its own version.
DeletePointsFromSegments(H, P) ==
    [s \in DOMAIN H |->
        DeletePoints(H[s], [p \in Points |->
            IF p \in P /\ s \in ToDelete(H, p) THEN H[s].version[p] ELSE 0])]

AppendableSegments(H) == {s \in DOMAIN H : CanWrite(H[s])}

-----------------------------------------------------------------------------
(* Locks: an update, a publication and a rollback hold the generation      *)
(* guard exclusively; exact sessions share it.                             *)

\* Mutant: no guard.
UpdateGuardIgnored == TRUE

UpdateGuardFree == \A x \in Sessions : ~sessions[x].active

-----------------------------------------------------------------------------
Init ==
    /\ deferred_internal_id \in Thresholds
    /\ op = 1
    /\ \E present \in SUBSET Points :
          /\ latest = [p \in Points |-> IF p \in present THEN 1 ELSE 0]
          /\ segments = [s \in {1, 2} |->
               IF s = 1
               THEN [EmptySegment EXCEPT !.version = latest,
                                         !.total = Cardinality(present),
                                         !.appendable = FALSE]
               ELSE [EmptySegment EXCEPT !.total = Others, !.others = TRUE]]
    /\ next_id = 3
    /\ jobs = [j \in Jobs |-> Idle]
    /\ sessions = [x \in Sessions |-> Unpinned]

-----------------------------------------------------------------------------
(* Updates.                                                                *)

\* Mutant: the source of a move is never deleted.
MovedSourceAlwaysStays(copy, p) == TRUE

\* The source of a move stays while the new copy is deferred, so invisible.
MovedSourceStays(copy, p) == PointIsDeferred(copy, p)

\* upsert_points, and every other operation that rewrites an existing point:
\* in place where the newest copy can be written, otherwise moved to some
\* appendable Segment.
Upsert(p) ==
    LET n == op + 1
        H == DeletePointsFromSegments(segments, {p})
        writable == AppendableSegments(segments)
        moved == ToUpdate(segments, p) \ writable
    IN  /\ op < MaxOp /\ UpdateGuardFree
        /\ Occurrences(segments, p) # {}
        /\ \E target \in [moved -> writable] :
             LET written == (ToUpdate(segments, p) \cap writable)
                              \cup {target[s] : s \in moved}
                 W == [s \in DOMAIN H |-> IF s \in written
                                          THEN UpsertPoint(H[s], n, p)
                                          ELSE H[s]]
             IN  segments' = [s \in DOMAIN W |->
                    IF s \in moved /\ ~MovedSourceStays(W[target[s]], p)
                    THEN DeletePoint(W[s], n, p) ELSE W[s]]
        /\ op' = n
        /\ latest' = [latest EXCEPT ![p] = n]
        /\ UNCHANGED <<deferred_internal_id, next_id, jobs, sessions>>

\* A point no Segment shows goes to the smallest appendable Segment: any one.
Insert(p) ==
    /\ op < MaxOp /\ UpdateGuardFree
    /\ Occurrences(segments, p) = {}
    /\ \E s \in AppendableSegments(segments) :
          segments' = [segments EXCEPT ![s] = UpsertPoint(@, op + 1, p)]
    /\ op' = op + 1
    /\ latest' = [latest EXCEPT ![p] = op + 1]
    /\ UNCHANGED <<deferred_internal_id, next_id, jobs, sessions>>

\* delete_points removes every copy, deferred or not, in every Segment.
Delete(p) ==
    /\ op < MaxOp /\ UpdateGuardFree
    /\ segments' = [s \in DOMAIN segments |->
                       DeletePoint(segments[s], op + 1, p)]
    /\ op' = op + 1
    /\ latest' = [latest EXCEPT ![p] = 0]
    /\ UNCHANGED <<deferred_internal_id, next_id, jobs, sessions>>

-----------------------------------------------------------------------------
(* Optimization.                                                           *)

Wrap(g) == [g EXCEPT !.is_proxy = TRUE, !.deleted_points = Nowhere]
Unwrap(g) == [g EXCEPT !.is_proxy = FALSE, !.deleted_points = Nowhere]

\* Mutant: inputs that another task already took are accepted.
AnySegment(inputs) == TRUE

\* Only Segments that no other task has put a proxy in front of.
AllOriginal(inputs) == \A s \in inputs : ~segments[s].is_proxy

\* execute_optimization puts proxies in front of its inputs, and adds a
\* copy-on-write Segment if no other appendable one is left.  It waits for no
\* exact session: the pinned handles still point at the wrapped Segments.
StartOptimization(j) ==
    \E inputs \in (SUBSET DOMAIN segments) \ {{}} :
        LET extra == AppendableSegments(segments) \subseteq inputs
            H == [s \in DOMAIN segments |-> IF s \in inputs
                                            THEN Wrap(segments[s])
                                            ELSE segments[s]]
        IN  /\ jobs[j].phase = "idle"
            /\ AllOriginal(inputs)
            /\ next_id + 1 <= MaxId
            /\ segments' = [s \in DOMAIN H \cup (IF extra THEN {next_id} ELSE {})
                              |-> IF s \in DOMAIN H THEN H[s] ELSE EmptySegment]
            /\ next_id' = IF extra THEN next_id + 1 ELSE next_id
            /\ jobs' = [jobs EXCEPT ![j] =
                 [Idle EXCEPT !.phase = "merge", !.inputs = inputs,
                              !.cow = IF extra THEN next_id ELSE 0]]
            /\ UNCHANGED <<deferred_internal_id, op, sessions, latest>>

\* for_each_unique_point: of each identity, the copy with the highest version.
UniquePoints(inputs) ==
    [p \in Points |-> Max({segments[s].version[p] : s \in inputs})]

\* The result may stay appendable if it is too small to be indexed, in bytes,
\* and none of the inputs has deferred points.  How many points fit in that
\* size depends on their vectors; get_deferred_point_id only estimates it.
MayStayAppendable(inputs) == \A s \in inputs : ~HasDeferredPoints(segments[s])

\* SegmentBuilder::update copies the wrapped Segments, past their proxies, in
\* the order of the identities or of the defragmentation keys: any order.
Merge(j) ==
    LET inputs == jobs[j].inputs
        version == UniquePoints(inputs)
        kept == {p \in Points : version[p] # 0}
        others == \E s \in inputs : segments[s].others
        total == Cardinality(kept) + IF others THEN Others ELSE 0
    IN  /\ jobs[j].phase = "merge"
        /\ \E appendable \in BOOLEAN, order \in Injection(kept, 0 .. total - 1) :
              /\ appendable => MayStayAppendable(inputs)
              /\ jobs' = [jobs EXCEPT ![j].phase = "apply",
                                      ![j].unread = inputs,
                                      ![j].out =
                    [EmptySegment EXCEPT
                       !.version = version,
                       !.offset = [p \in Points |->
                                      IF p \in kept THEN order[p] ELSE 0],
                       !.total = total,
                       !.others = others,
                       !.appendable = appendable]]
        /\ UNCHANGED <<deferred_internal_id, op, segments, next_id, sessions, latest>>

\* The larger of two delete records for each point.
MergeDeletes(a, b) == [p \in Points |-> Max({a[p], b[p]})]

\* proxy_deleted_points, unsynchronized: one proxy at a time, in any order.
ReadDeletes(j) ==
    /\ jobs[j].phase \in {"apply", "recheck"}
    /\ \E s \in jobs[j].unread :
          jobs' = [jobs EXCEPT
             ![j].unread = @ \ {s},
             ![j].seen = MergeDeletes(@, segments[s].deleted_points)]
    /\ UNCHANGED <<deferred_internal_id, op, segments, next_id, sessions, latest>>

\* build_new_segment deletes from its output what the first pass saw.
ApplyDeletes(j) ==
    /\ jobs[j].phase = "apply" /\ jobs[j].unread = {}
    /\ jobs' = [jobs EXCEPT ![j].phase = "recheck",
                            ![j].out = DeletePoints(@, jobs[j].seen),
                            ![j].unread = jobs[j].inputs,
                            ![j].seen = Nowhere]
    /\ UNCHANGED <<deferred_internal_id, op, segments, next_id, sessions, latest>>

\* Mutant: a point the output still has is also taken for removed.
NoteAllRemoved(j) ==
    /\ jobs[j].phase = "recheck" /\ jobs[j].unread = {}
    /\ jobs' = [jobs EXCEPT ![j].phase = "ready",
         ![j].already_removed = {p \in Points : jobs[j].seen[p] # 0},
         ![j].seen = Nowhere]
    /\ UNCHANGED <<deferred_internal_id, op, segments, next_id, sessions, latest>>

\* optimize_segment_propagate_changes: what the second pass saw and the output
\* no longer has need not be looked at again.
NoteRemoved(j) ==
    /\ jobs[j].phase = "recheck" /\ jobs[j].unread = {}
    /\ jobs' = [jobs EXCEPT ![j].phase = "ready",
         ![j].already_removed = {p \in Points : /\ jobs[j].seen[p] # 0
                                                /\ jobs[j].out.version[p] = 0},
         ![j].seen = Nowhere]
    /\ UNCHANGED <<deferred_internal_id, op, segments, next_id, sessions, latest>>

\* Mutant: an empty Segment goes even if it is the last appendable one.
RemoveIfEmpty(H, s) ==
    IF s \in DOMAIN H /\ H[s].total = 0 /\ ~H[s].is_proxy
    THEN [t \in DOMAIN H \ {s} |-> H[t]] ELSE H

\* remove_segment_if_not_needed
RemoveIfNotNeeded(H, s) ==
    LET rest == [t \in DOMAIN H \ {s} |-> H[t]]
    IN  IF /\ s \in DOMAIN H
           /\ AppendableSegments(rest) # {}
           /\ H[s].total = 0
           /\ ~H[s].is_proxy
        THEN rest ELSE H

\* finish_optimization: bring the output up to date with the proxies, publish
\* it in their place, then drop the copies that its newly visible points made
\* obsolete.
FinishOptimization(j) ==
    LET job == jobs[j]
        deletes == [p \in Points |->
                      IF p \in job.already_removed THEN 0
                      ELSE Max({segments[s].deleted_points[p] : s \in job.inputs})]
        out == DeletePoints(job.out, deletes)
        swapped == [s \in (DOMAIN segments \ job.inputs) \cup {next_id} |->
                       IF s = next_id THEN out ELSE segments[s]]
        deferred == {p \in Points : \E s \in job.inputs :
                        HasPoint(segments[s], p) /\ PointIsDeferred(segments[s], p)}
    IN  /\ job.phase = "ready" /\ UpdateGuardFree
        /\ next_id < MaxId
        /\ segments' = DeletePointsFromSegments(
                          RemoveIfNotNeeded(swapped, job.cow), deferred)
        /\ next_id' = next_id + 1
        /\ jobs' = [jobs EXCEPT ![j] = Idle]
        /\ UNCHANGED <<deferred_internal_id, op, sessions, latest>>

\* propagate_to_wrapped: the recorded deletes reach the wrapped Segment.
Propagate(g) == Wrap(DeletePoints(Unwrap(g), g.deleted_points))

\* Cancellation or an error anywhere before publication.
\* rollback_proxies: propagate every proxy, then replace every proxy.
Rollback(j) ==
    /\ jobs[j].phase \in {"merge", "apply", "recheck", "ready"}
    /\ UpdateGuardFree
    /\ segments' = [s \in DOMAIN segments |->
          IF s \in jobs[j].inputs THEN Unwrap(Propagate(segments[s]))
                                  ELSE segments[s]]
    /\ jobs' = [jobs EXCEPT ![j] = Idle]
    /\ UNCHANGED <<deferred_internal_id, op, next_id, sessions, latest>>

\* Propagation fails at one proxy: the ones before it are propagated, it may
\* have deleted some points from its wrapped Segment without clearing any of
\* its records, and every proxy stays where it is.
RollbackFails(j) ==
    /\ jobs[j].phase \in {"merge", "apply", "recheck", "ready"}
    /\ UpdateGuardFree
    /\ \E failing \in jobs[j].inputs, done \in SUBSET Points :
       \E before \in SUBSET (jobs[j].inputs \ {failing}) :
          LET g == segments[failing]
              part == DeletePoints(Unwrap(g), [p \in Points |->
                         IF p \in done THEN g.deleted_points[p] ELSE 0])
          IN  segments' = [s \in DOMAIN segments |->
                 IF s \in before THEN Propagate(segments[s])
                 ELSE IF s = failing
                 THEN [part EXCEPT !.is_proxy = TRUE,
                                   !.deleted_points = g.deleted_points]
                 ELSE segments[s]]
    /\ jobs' = [jobs EXCEPT ![j] = [Idle EXCEPT !.phase = "stuck"]]
    /\ UNCHANGED <<deferred_internal_id, op, next_id, sessions, latest>>

-----------------------------------------------------------------------------
(* Exact sessions.                                                         *)

\* What the handles of a session show: a handle taken before the proxy was
\* installed reads the wrapped Segment directly.
Shows(s, p, proxies) ==
    /\ segments[s].version[p] # 0
    /\ s \in proxies => segments[s].deleted_points[p] = 0
    /\ ~PointIsDeferred(segments[s], p)

Shown(handles, proxies) ==
    UNION {{<<s, p, segments[s].version[p]>> : p \in {q \in Points : Shows(s, q, proxies)}}
           : s \in handles \cap DOMAIN segments}

\* ExactSegmentReadSet::pin_generation: take the shared guard, then clone every
\* handle of the holder.
Pin(x) ==
    LET handles == DOMAIN segments
        proxies == {s \in handles : segments[s].is_proxy}
    IN  /\ ~sessions[x].active
        /\ sessions' = [sessions EXCEPT ![x] =
              [handles |-> handles, proxies |-> proxies,
               opened |-> Shown(handles, proxies), active |-> TRUE]]
        /\ UNCHANGED <<deferred_internal_id, op, segments, next_id, jobs, latest>>

\* The session ends, or is dropped by a timeout or a cancellation.
Unpin(x) ==
    /\ sessions[x].active
    /\ sessions' = [sessions EXCEPT ![x] = Unpinned]
    /\ UNCHANGED <<deferred_internal_id, op, segments, next_id, jobs, latest>>

-----------------------------------------------------------------------------
Next ==
    \/ \E p \in Points : Upsert(p) \/ Insert(p) \/ Delete(p)
    \/ \E j \in Jobs : \/ StartOptimization(j) \/ Merge(j) \/ ReadDeletes(j)
                       \/ ApplyDeletes(j) \/ NoteRemoved(j)
                       \/ FinishOptimization(j) \/ Rollback(j) \/ RollbackFails(j)
    \/ \E x \in Sessions : Pin(x) \/ Unpin(x)

Spec == Init /\ [][Next]_vars

-----------------------------------------------------------------------------
(* Properties.                                                             *)

\* Type invariant of the SegmentHolder, the optimizer jobs and the pinned
\* sessions.
TypeOK ==
    /\ deferred_internal_id \in Thresholds
    /\ op \in 0 .. MaxOp
    /\ DOMAIN segments \subseteq 1 .. (next_id - 1)
    /\ \A s \in DOMAIN segments : segments[s] \in Segment
    /\ next_id \in 3 .. MaxId
    /\ jobs \in [Jobs -> Job]
    /\ sessions \in [Sessions ->
          [handles : SUBSET Ids, proxies : SUBSET Ids,
           opened : SUBSET (Ids \X Points \X Versions), active : BOOLEAN]]
    /\ latest \in [Points -> Versions]

\* The copies of p that an exact session pinning the holder now would read.
Visible(p) == {s \in Occurrences(segments, p) : ~PointIsDeferred(segments[s], p)}

\* An acknowledged write is never lost and a deleted point never comes back,
\* whatever the optimizers are in the middle of: the newest copy any Segment
\* shows, deferred or not, is the last write.
LastWriteIsKept ==
    \A p \in Points :
        IF latest[p] = 0 THEN Occurrences(segments, p) = {}
        ELSE /\ Occurrences(segments, p) # {}
             /\ LatestVersion(segments, p) = latest[p]

\* exact-shard-merge-v1: in one frozen generation an identity has at most one
\* authoritative non-deferred value; visible duplicates have the same version.
OneAuthoritativeValue ==
    \A p \in Points : \A s, t \in Visible(p) :
        segments[s].version[p] = segments[t].version[p]

\* The same while no Segment can hold deferred points, as when the threshold
\* is above every Segment's size.
OneVersionUnlessDeferred ==
    deferred_internal_id > Cardinality(Points) + MaxOp + Others => OneAuthoritativeValue

\* What readers see of a point never goes back to an older version, and never
\* disappears unless the point is deleted: a visible copy outlives every move,
\* publication, rollback and failed rollback until a newer one is visible.  The
\* one exception is the output of an optimizer that stays appendable and has more
\* points than deferred_internal_id, as the small multivectors of
\* test_deferred_multivector_below_indexing_threshold_no_infinite_loop make it:
\* the points behind that offset are deferred from its publication on.
ReadsNeverGoBack ==
    [][\A p \in Points :
          (Visible(p) # {} /\ latest'[p] # 0) =>
             \/ \E s \in Visible(p)' : \A t \in Visible(p) :
                   segments'[s].version[p] >= segments[t].version[p]
             \/ \E s \in DOMAIN segments' \ DOMAIN segments :
                   segments'[s].version[p] # 0 /\ PointIsDeferred(segments[s], p)']_vars

\* A pinned generation does not change under the exact session that reads it:
\* its handles show at every moment what they showed when they were taken.
PinnedGenerationIsFixed ==
    \A x \in Sessions : sessions[x].active =>
        Shown(sessions[x].handles, sessions[x].proxies) = sessions[x].opened

\* No two optimizers work on one Segment, and what a running optimizer will
\* replace is still in the holder, behind the proxy it installed.
ProxiesAreOwned ==
    /\ \A j \in Jobs : \A s \in jobs[j].inputs :
          s \in DOMAIN segments /\ segments[s].is_proxy
    /\ \A j, k \in Jobs : j # k => jobs[j].inputs \cap jobs[k].inputs = {}

\* Updates always find a Segment to write to, however many optimizers have
\* taken the appendable ones and whichever of them gives up.
AlwaysAppendable == AppendableSegments(segments) # {}
=============================================================================
