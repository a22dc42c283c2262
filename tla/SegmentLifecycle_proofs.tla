---------------------- MODULE SegmentLifecycle_proofs -----------------------
(***************************************************************************)
(* However many optimizers, sessions and operations there are: no          *)
(* acknowledged write is lost and no deleted point comes back.             *)
(***************************************************************************)
EXTENDS SegmentStructure_proofs

(* The copies of a point.  n is the last operation and l the version of the
   point's last write, 0 if it is deleted.  Copies are never newer than the
   last write, a proxy's record is never older than the copy it hides, and a
   Segment with a copy is not empty. *)
CopyOK(g, p, n, l) ==
    /\ l # 0 => g.version[p] <= l
    /\ g.is_proxy => /\ g.deleted_points[p] <= n
                     /\ g.deleted_points[p] # 0 => g.version[p] <= g.deleted_points[p]
    /\ g.version[p] # 0 => g.total > 0

Holds(g, p, l) == HasPoint(g, p) /\ g.version[p] = l

(* While an input still shows the last write, no input has a record that would
   delete it, and the output, once built, has it.  What the task has read is
   still recorded, and every copy of the output is one of an input. *)
JobOK(job, S, p, l) ==
    /\ (\E s \in job.inputs : Holds(S[s], p, l)) =>
          /\ \A t \in job.inputs : S[t].deleted_points[p] < l
          /\ job.phase \in {"apply", "recheck", "ready"} => job.out.version[p] = l
    /\ job.seen[p] # 0 => \E s \in job.inputs : job.seen[p] <= S[s].deleted_points[p]
    /\ p \in job.already_removed => job.out.version[p] = 0 /\ job.phase = "ready"
    /\ job.out.version[p] # 0 => /\ job.out.total > 0
                                 /\ \E s \in job.inputs : S[s].version[p] = job.out.version[p]

PointOK(S, J, p, n, l) ==
    /\ \A s \in DOMAIN S : CopyOK(S[s], p, n, l)
    /\ l = 0 => \A s \in DOMAIN S : ~HasPoint(S[s], p)
    /\ l # 0 => \E s \in DOMAIN S : Holds(S[s], p, l)
    /\ \A j \in Jobs : JobOK(J[j], S, p, l)

DataInv == \A p \in Points : PointOK(segments, jobs, p, op, latest[p])

(* The numbers these formulas compare. *)
LEMMA DataTypes ==
    ASSUME StructureInv, NEW p \in Points
    PROVE  /\ op \in Nat /\ latest[p] \in Nat
           /\ \A s \in DOMAIN segments :
                 /\ segments[s].version[p] \in Nat /\ segments[s].version[p] <= op
                 /\ segments[s].deleted_points[p] \in Nat /\ segments[s].total \in Nat
                 /\ segments[s].is_proxy \in BOOLEAN
           /\ \A j \in Jobs : /\ jobs[j].out.version[p] \in Nat /\ jobs[j].seen[p] \in Nat
                              /\ jobs[j].out.total \in Nat
                              /\ \A s \in jobs[j].inputs : /\ s \in DOMAIN segments
                                                           /\ segments[s].is_proxy
<1>1. op \in Nat /\ latest[p] \in Nat
  BY LifecycleAssumption DEF StructureInv, TypeOK, Versions
<1>2. ASSUME NEW s \in DOMAIN segments
      PROVE  /\ segments[s].version[p] \in Nat /\ segments[s].version[p] <= op
             /\ segments[s].deleted_points[p] \in Nat /\ segments[s].total \in Nat
             /\ segments[s].is_proxy \in BOOLEAN
  <2>1. segments[s] \in Segment /\ segments[s].version[p] <= op
    BY Zenon DEF StructureInv, TypeOK
  <2>2. segments[s].version[p] \in Versions /\ segments[s].deleted_points[p] \in Versions
        /\ segments[s].total \in Nat /\ segments[s].is_proxy \in BOOLEAN
    BY Zenon, <2>1 DEF Segment
  <2> QED
    BY <2>1, <2>2, LifecycleAssumption DEF Versions
<1>3. ASSUME NEW j \in Jobs
      PROVE  /\ jobs[j].out.version[p] \in Nat /\ jobs[j].seen[p] \in Nat
             /\ jobs[j].out.total \in Nat
             /\ \A s \in jobs[j].inputs : s \in DOMAIN segments /\ segments[s].is_proxy
  <2>1. /\ jobs[j].out \in Segment /\ jobs[j].seen \in [Points -> Versions]
        /\ \A s \in jobs[j].inputs : s \in DOMAIN segments /\ segments[s].is_proxy
    BY Zenon, JobFacts
  <2>2. jobs[j].out.version[p] \in Versions /\ jobs[j].seen[p] \in Versions
        /\ jobs[j].out.total \in Nat
    BY Zenon, <2>1 DEF Segment
  <2> QED
    BY <2>1, <2>2, LifecycleAssumption DEF Versions
<1> QED
  BY Zenon, <1>1, <1>2, <1>3

(* A step that leaves the copies and records of q in each Segment alone, while
   Segments only grow. *)
LEMMA UntouchedPoint ==
    ASSUME StructureInv, NEW p \in Points, NEW q \in Points \ {p}, NEW written,
           UpdateEffect(p, written), StructureInv',
           PointOK(segments, jobs, q, op, latest[q]),
           op' = op + 1, latest'[q] = latest[q], jobs' = jobs
    PROVE  PointOK(segments', jobs', q, op', latest'[q])
<1> DEFINE l == latest[q]
<1>0. q \in Points
  BY Zenon
<1>1. /\ DOMAIN segments' = DOMAIN segments
      /\ \A s \in DOMAIN segments :
           /\ segments'[s].version[q] = segments[s].version[q]
           /\ segments'[s].deleted_points[q] = segments[s].deleted_points[q]
           /\ segments'[s].is_proxy = segments[s].is_proxy
           /\ segments[s].total <= segments'[s].total
  BY Zenon DEF UpdateEffect, SameElsewhere
<1>2. \A s \in DOMAIN segments : segments'[s].total \in Nat
  BY Zenon, <1>1 DEF StructureInv, TypeOK, Segment
<1>3. /\ op \in Nat
      /\ \A s \in DOMAIN segments : /\ segments[s].total \in Nat
                                    /\ segments[s].deleted_points[q] \in Nat
      /\ \A j \in Jobs : \A s \in jobs[j].inputs : s \in DOMAIN segments
  BY Zenon, <1>0, DataTypes
<1>4. \A s \in DOMAIN segments : CopyOK(segments'[s], q, op', l)
  BY <1>1, <1>2, <1>3 DEF PointOK, CopyOK
<1>5. \A s \in DOMAIN segments : /\ HasPoint(segments'[s], q) <=> HasPoint(segments[s], q)
                                 /\ Holds(segments'[s], q, l) <=> Holds(segments[s], q, l)
  BY Zenon, <1>1 DEF HasPoint, Holds
<1>6. ASSUME NEW j \in Jobs PROVE JobOK(jobs'[j], segments', q, l)
  <2>1. JobOK(jobs[j], segments, q, l)
    BY Zenon DEF PointOK
  <2>2. \A s \in jobs[j].inputs :
           /\ Holds(segments'[s], q, l) <=> Holds(segments[s], q, l)
           /\ segments'[s].version[q] = segments[s].version[q]
           /\ segments'[s].deleted_points[q] = segments[s].deleted_points[q]
    BY Zenon, <1>1, <1>3, <1>5
  <2> HIDE DEF l
  <2> QED
    BY Zenon, <2>1, <2>2 DEF JobOK
<1> QED
  BY Zenon, <1>1, <1>4, <1>5, <1>6 DEF PointOK

(* The point an update is about: if it was written, somewhere in a Segment that
   no optimizer has; if it was deleted, everywhere. *)
LEMMA UpdatedPoint ==
    ASSUME StructureInv, NEW p \in Points, NEW written, written \subseteq DOMAIN segments,
           UpdateEffect(p, written), StructureInv',
           PointOK(segments, jobs, p, op, latest[p]),
           op' = op + 1, jobs' = jobs,
           \/ latest'[p] = op + 1 /\ written # {}
           \/ latest'[p] = 0 /\ \A s \in DOMAIN segments : ~HasPoint(segments'[s], p)
    PROVE  PointOK(segments', jobs', p, op', latest'[p])
<1> DEFINE n == op + 1
           l == latest'[p]
<1>1. /\ op \in Nat
      /\ \A s \in DOMAIN segments :
           /\ segments[s].version[p] \in Nat /\ segments[s].version[p] <= op
           /\ segments[s].deleted_points[p] \in Nat /\ segments[s].total \in Nat
           /\ segments[s].is_proxy \in BOOLEAN
      /\ \A j \in Jobs : \A s \in jobs[j].inputs : s \in DOMAIN segments /\ segments[s].is_proxy
      /\ \A j \in Jobs : jobs[j].seen[p] \in Nat
  BY Zenon, DataTypes
<1>2. /\ DOMAIN segments' = DOMAIN segments
      /\ \A s \in DOMAIN segments :
           /\ segments'[s].is_proxy = segments[s].is_proxy
           /\ segments[s].total <= segments'[s].total
           /\ segments'[s].total \in Nat
  BY Zenon DEF UpdateEffect, SameElsewhere, Segment
<1>3. \A s \in written : /\ ~segments[s].is_proxy /\ segments'[s].version[p] = n
                         /\ segments[s].version[p] = 0 => segments'[s].total > 0
  BY Zenon DEF UpdateEffect
<1>4. \A s \in DOMAIN segments \ written :
         \/ /\ segments'[s].version[p] = segments[s].version[p]
            /\ segments'[s].deleted_points[p] = segments[s].deleted_points[p]
         \/ /\ segments[s].is_proxy
            /\ segments'[s].version[p] = segments[s].version[p]
            /\ \/ /\ HasPoint(segments[s], p)
                  /\ segments'[s].deleted_points[p] = segments[s].version[p]
               \/ segments'[s].deleted_points[p] = n
         \/ /\ ~segments[s].is_proxy
            /\ segments'[s].version[p] = 0
  BY Zenon, <1>1 DEF UpdateEffect, Kept, Deleted
<1>5. \A s \in DOMAIN segments : CopyOK(segments[s], p, op, latest[p])
  BY Zenon DEF PointOK
<1>6. ASSUME NEW s \in DOMAIN segments PROVE CopyOK(segments'[s], p, n, l)
  <2>1. CopyOK(segments[s], p, op, latest[p])
    BY Zenon, <1>5
  <2>2. CASE s \in written
    BY <1>1, <1>2, <1>3, <2>1, <2>2 DEF CopyOK
  <2>3. CASE s \notin written
    BY <1>1, <1>2, <1>4, <2>1, <2>3 DEF CopyOK
  <2> QED
    BY Zenon, <2>2, <2>3
<1>7. l = 0 => \A s \in DOMAIN segments : ~HasPoint(segments'[s], p)
  BY <1>1
<1>8. l # 0 => \E s \in DOMAIN segments : Holds(segments'[s], p, l)
  BY Zenon, <1>1, <1>2, <1>3 DEF Holds, HasPoint
<1>9. ASSUME NEW j \in Jobs PROVE JobOK(jobs'[j], segments', p, l)
  <2>0. JobOK(jobs[j], segments, p, latest[p])
    BY Zenon DEF PointOK
  <2>1. \A s \in jobs[j].inputs : s \in DOMAIN segments \ written /\ segments[s].is_proxy
    BY Zenon, <1>1, <1>3
  <2>2. \A s \in jobs[j].inputs : segments'[s].version[p] = segments[s].version[p]
    BY Zenon, <1>4, <2>1
  <2>3. \A s \in jobs[j].inputs : ~Holds(segments'[s], p, l)
    <3>1. CASE l = 0
      BY Zenon, <1>7, <2>1, <3>1 DEF Holds
    <3>2. CASE l # 0
      BY <1>1, <2>1, <2>2, <3>2 DEF Holds
    <3> QED
      BY Zenon, <3>1, <3>2
  <2>4. \A s \in jobs[j].inputs : /\ segments[s].deleted_points[p] \in Nat
                                  /\ segments[s].deleted_points[p] <= op
    BY Zenon, <1>1, <1>5, <2>1 DEF CopyOK
  <2>5. ASSUME NEW s \in jobs[j].inputs, jobs[j].seen[p] # 0,
               jobs[j].seen[p] <= segments[s].deleted_points[p]
        PROVE  jobs[j].seen[p] <= segments'[s].deleted_points[p]
    <3>1. segments[s].deleted_points[p] # 0 /\ jobs[j].seen[p] \in Nat
      BY <1>1, <2>4, <2>5
    <3>2. ~HasPoint(segments[s], p)
      BY Zenon, <2>1, <3>1 DEF HasPoint
    <3>3. segments'[s].deleted_points[p] \in {segments[s].deleted_points[p], n}
      BY Zenon, <1>4, <2>1, <3>2
    <3> QED
      BY <1>1, <2>4, <2>5, <3>1, <3>3
  <2> HIDE DEF l
  <2> QED
    BY Zenon, <2>0, <2>2, <2>3, <2>5 DEF JobOK
<1> QED
  BY Zenon, <1>2, <1>6, <1>7, <1>8, <1>9 DEF PointOK
(* Updates keep the last write. *)
LEMMA UpdateKeepsData ==
    ASSUME StructureInv, StructureInv', DataInv, NEW p \in Points,
           Upsert(p) \/ Insert(p) \/ Delete(p)
    PROVE  DataInv'
<1>1. op' = op + 1 /\ jobs' = jobs
  BY Zenon DEF Upsert, Insert, Delete
<1>2. DOMAIN latest = Points
  BY Zenon DEF StructureInv, TypeOK
<1>3. \A q \in Points \ {p} : latest'[q] = latest[q]
  BY Zenon, <1>2 DEF Upsert, Insert, Delete
<1>4. \E written \in SUBSET DOMAIN segments :
         /\ UpdateEffect(p, written)
         /\ \/ latest'[p] = op + 1 /\ written # {}
            \/ latest'[p] = 0 /\ \A s \in DOMAIN segments : ~HasPoint(segments'[s], p)
  <2>1. AppendableSegments(segments) \subseteq DOMAIN segments
    BY Zenon DEF AppendableSegments
  <2>2. CASE Upsert(p)
    <3>1. latest'[p] = op + 1
      BY Zenon, <1>2, <2>2 DEF Upsert
    <3>2. PICK written \in SUBSET AppendableSegments(segments) :
              written # {} /\ UpdateEffect(p, written)
      BY Zenon, <2>2, UpsertEffects
    <3> QED
      BY Zenon, <2>1, <3>1, <3>2
  <2>3. CASE Insert(p)
    <3>1. latest'[p] = op + 1
      BY Zenon, <1>2, <2>3 DEF Insert
    <3>2. PICK written \in SUBSET AppendableSegments(segments) :
              written # {} /\ UpdateEffect(p, written)
      BY Zenon, <2>3, InsertEffects
    <3> QED
      BY Zenon, <2>1, <3>1, <3>2
  <2>4. CASE Delete(p)
    <3>1. latest'[p] = 0
      BY Zenon, <1>2, <2>4 DEF Delete
    <3>2. /\ UpdateEffect(p, {})
          /\ \A s \in DOMAIN segments :
                IF segments[s].version[p] = 0
                THEN Kept(segments[s], segments'[s], p)
                ELSE Deleted(segments[s], segments'[s], p, op + 1)
      BY Zenon, <2>4, DeleteEffects
    <3>3. ASSUME NEW s \in DOMAIN segments PROVE ~HasPoint(segments'[s], p)
      <4>1. segments'[s].is_proxy = segments[s].is_proxy /\ segments[s].is_proxy \in BOOLEAN
            /\ op + 1 # 0
        BY <3>2, DataTypes DEF UpdateEffect, SameElsewhere
      <4> QED
        BY Zenon, <3>2, <4>1 DEF HasPoint, Kept, Deleted
    <3> QED
      BY Zenon, <3>1, <3>2, <3>3
  <2> QED
    BY Zenon, <2>2, <2>3, <2>4
<1>5. PICK written \in SUBSET DOMAIN segments :
         /\ UpdateEffect(p, written)
         /\ \/ latest'[p] = op + 1 /\ written # {}
            \/ latest'[p] = 0 /\ \A s \in DOMAIN segments : ~HasPoint(segments'[s], p)
  BY Zenon, <1>4
<1>6. PointOK(segments', jobs', p, op', latest'[p])
  BY Zenon, <1>1, <1>5, UpdatedPoint DEF DataInv
<1>7. ASSUME NEW q \in Points \ {p}
      PROVE  PointOK(segments', jobs', q, op', latest'[q])
  <2>1. PointOK(segments, jobs, q, op, latest[q]) /\ latest'[q] = latest[q]
    BY Zenon, <1>3 DEF DataInv
  <2> QED
    BY Zenon, <1>1, <1>5, <2>1, UntouchedPoint
<1> QED
  BY Zenon, <1>6, <1>7 DEF DataInv

(* A step of a task that leaves the holder alone. *)
LEMMA JobStepKeepsData ==
    ASSUME DataInv, NEW j \in Jobs, \A k \in Jobs \ {j} : jobs'[k] = jobs[k],
           \A p \in Points : JobOK(jobs'[j], segments, p, latest[p]),
           UNCHANGED <<op, segments, latest>>
    PROVE  DataInv'
<1>1. ASSUME NEW p \in Points
      PROVE  PointOK(segments', jobs', p, op', latest'[p])
  <2>1. PointOK(segments, jobs, p, op, latest[p])
    BY Zenon DEF DataInv
  <2>2. \A k \in Jobs : JobOK(jobs'[k], segments, p, latest[p])
    BY Zenon, <2>1 DEF PointOK
  <2> QED
    BY Zenon, <2>1, <2>2 DEF PointOK
<1> QED
  BY Zenon, <1>1 DEF DataInv

(* A task with nothing to do. *)
LEMMA RestingJob ==
    ASSUME NEW job, job.inputs = {}, job.out = EmptySegment, job.seen = Nowhere,
           job.already_removed = {}, NEW S, NEW p \in Points, NEW l
    PROVE  JobOK(job, S, p, l)
<1>1. EmptySegment.version = Nowhere /\ Nowhere[p] = 0
  BY Zenon, EmptyFacts
<1> QED
  BY Zenon, <1>1 DEF JobOK

(* The merge takes the last write if any input has it. *)
LEMMA MergeKeepsData ==
    ASSUME StructureInv, DataInv, NEW j \in Jobs, Merge(j)
    PROVE  DataInv'
<1> DEFINE inputs == jobs[j].inputs
           version == UniquePoints(inputs)
           kept == {p \in Points : version[p] # 0}
           others == \E s \in inputs : segments[s].others
           count == Cardinality(kept) + IF others THEN Others ELSE 0
<1>0. Running(j) /\ jobs[j] \in Job /\ jobs[j].phase = "merge"
  BY Zenon, JobFacts DEF Merge, Running
<1>1. PICK appendable \in BOOLEAN, order \in Injection(kept, 0 .. count - 1) :
         jobs' = [jobs EXCEPT ![j].phase = "apply", ![j].unread = inputs,
                              ![j].out = [EmptySegment EXCEPT
                                !.version = version,
                                !.offset = [p \in Points |-> IF p \in kept THEN order[p] ELSE 0],
                                !.total = count,
                                !.others = others,
                                !.appendable = appendable]]
  BY Zenon DEF Merge
<1>2. /\ \A k \in Jobs \ {j} : jobs'[k] = jobs[k]
      /\ UNCHANGED <<op, segments, latest>>
  BY Zenon, <1>1 DEF Merge, StructureInv, TypeOK
<1>3. /\ jobs'[j].inputs = inputs /\ jobs'[j].phase = "apply"
      /\ jobs'[j].seen = jobs[j].seen /\ jobs'[j].already_removed = jobs[j].already_removed
      /\ jobs'[j].out.version = version /\ jobs'[j].out.total = count
  <2> DEFINE offset == [p \in Points |-> IF p \in kept THEN order[p] ELSE 0]
             out == [EmptySegment EXCEPT !.version = version, !.offset = offset,
                                         !.total = count, !.others = others,
                                         !.appendable = appendable]
  <2> HIDE DEF version, count, others, offset
  <2>1. out.version = version /\ out.total = count
    BY Zenon DEF EmptySegment
  <2>2. jobs'[j] = [jobs[j] EXCEPT !.phase = "apply", !.unread = inputs, !.out = out]
    BY Zenon, <1>1 DEF StructureInv, TypeOK, offset
  <2> HIDE DEF out
  <2> QED
    BY Zenon, <1>0, <2>1, <2>2 DEF Job
<1>4. ASSUME NEW p \in Points
      PROVE  JobOK(jobs'[j], segments, p, latest[p])
  <2> DEFINE l == latest[p]
  <2>1. /\ l \in Nat
        /\ \A s \in inputs : s \in DOMAIN segments /\ segments[s].version[p] \in Nat
    BY Zenon, DataTypes
  <2>2. /\ \E t \in inputs : segments[t].version[p] = version[p]
        /\ \A t \in inputs : segments[t].version[p] <= version[p]
    BY Zenon, <1>0, MergedVersions
  <2>3. PointOK(segments, jobs, p, op, l)
    BY Zenon DEF DataInv
  <2>4. JobOK(jobs[j], segments, p, l) /\ \A s \in inputs : CopyOK(segments[s], p, op, l)
    BY Zenon, <2>1, <2>3 DEF PointOK
  <2>5. version[p] # 0 => count > 0
    <3>1. version[p] # 0 => kept # {}
      BY Zenon
    <3>2. IsFiniteSet(kept)
      BY Zenon, LifecycleAssumption, FS_Subset
    <3>3. Others \in Nat
      BY Zenon, LifecycleAssumption
    <3> HIDE DEF kept, others
    <3> QED
      BY <3>1, <3>2, <3>3, FS_CardinalityType, FS_EmptySet
  <2>6. ASSUME NEW s \in inputs, Holds(segments[s], p, l) PROVE version[p] = l
    <3>1. l # 0 /\ segments[s].version[p] = l
      BY Zenon, <2>6 DEF Holds, HasPoint
    <3>2. \A t \in inputs : segments[t].version[p] <= l
      BY Zenon, <2>4, <3>1 DEF CopyOK
    <3> HIDE DEF version, inputs, l
    <3> QED
      BY <2>1, <2>2, <3>1, <3>2
  <2>7. p \notin jobs[j].already_removed
    BY Zenon, <1>0, <2>4 DEF JobOK
  <2> HIDE DEF version, count, inputs, l
  <2>8. inputs = jobs[j].inputs
    BY Zenon DEF inputs
  <2> QED
    BY Zenon, <1>3, <2>2, <2>4, <2>5, <2>6, <2>7, <2>8 DEF JobOK, l
<1> QED
  BY Zenon, <1>2, <1>4, JobStepKeepsData

LEMMA ReadDeletesKeepsData ==
    ASSUME StructureInv, DataInv, NEW j \in Jobs, ReadDeletes(j)
    PROVE  DataInv'
<1>1. \A k \in Jobs \ {j} : jobs'[k] = jobs[k]
  BY ReadDeletesEffect, Zenon
<1>2. PICK t \in jobs[j].inputs : jobs'[j] = [jobs[j] EXCEPT
                  !.unread = @ \ {t},
                  !.seen = MergeDeletes(@, segments[t].deleted_points)]
  BY ReadDeletesEffect, Zenon
<1> DEFINE seen == MergeDeletes(jobs[j].seen, segments[t].deleted_points)
<1>3. jobs[j] \in Job
  BY Zenon, JobFacts
<1>4. /\ jobs'[j].inputs = jobs[j].inputs /\ jobs'[j].phase = jobs[j].phase
      /\ jobs'[j].out = jobs[j].out /\ jobs'[j].already_removed = jobs[j].already_removed
      /\ jobs'[j].seen = seen
  <2>1. jobs'[j] = [jobs[j] EXCEPT !.unread = @ \ {t}, !.seen = seen]
    BY Zenon, <1>2
  <2> HIDE DEF seen
  <2> QED
    BY Zenon, <1>3, <2>1 DEF Job
<1>5. ASSUME NEW p \in Points
      PROVE  JobOK(jobs'[j], segments, p, latest[p])
  <2>1. JobOK(jobs[j], segments, p, latest[p])
    BY Zenon DEF DataInv, PointOK
  <2>2. seen[p] \in {jobs[j].seen[p], segments[t].deleted_points[p]}
    BY Zenon, JobFacts, MergedDeletes
  <2>3. segments[t].deleted_points[p] \in Nat
    BY Zenon, DataTypes
  <2> HIDE DEF seen
  <2>4. seen[p] # 0 => \E s \in jobs[j].inputs : seen[p] <= segments[s].deleted_points[p]
    BY <2>1, <2>2, <2>3 DEF JobOK
  <2> QED
    BY Zenon, <1>4, <2>1, <2>4 DEF JobOK
<1>6. UNCHANGED <<op, segments, latest>>
  BY Zenon DEF ReadDeletes
<1> QED
  BY Zenon, <1>1, <1>5, <1>6, JobStepKeepsData

(* A record read earlier never deletes the last write from the output. *)
LEMMA ApplyDeletesKeepsData ==
    ASSUME StructureInv, DataInv, NEW j \in Jobs, ApplyDeletes(j)
    PROVE  DataInv'
<1> DEFINE out == DeletePoints(jobs[j].out, jobs[j].seen)
<1>1. /\ \A k \in Jobs \ {j} : jobs'[k] = jobs[k]
      /\ jobs'[j] = [jobs[j] EXCEPT !.phase = "recheck", !.out = out,
                                    !.unread = jobs[j].inputs, !.seen = Nowhere]
  BY ApplyDeletesEffect, Zenon
<1>2. jobs[j] \in Job /\ jobs[j].phase = "apply"
  BY Zenon, JobFacts DEF ApplyDeletes
<1>3. /\ \A p \in Points : out.version[p] =
            IF /\ jobs[j].seen[p] # 0 /\ jobs[j].out.version[p] # 0
               /\ jobs[j].out.version[p] <= jobs[j].seen[p]
            THEN 0 ELSE jobs[j].out.version[p]
      /\ out.total = jobs[j].out.total
  <2>1. jobs[j].out \in Segment /\ jobs[j].seen \in [Points -> Versions]
        /\ ~jobs[j].out.is_proxy
    BY Zenon, JobFacts
  <2> QED
    BY Zenon, <2>1, DeleteEffect
<1> HIDE DEF out
<1>4. /\ jobs'[j].inputs = jobs[j].inputs /\ jobs'[j].phase = "recheck"
      /\ jobs'[j].out = out /\ jobs'[j].already_removed = jobs[j].already_removed
      /\ jobs'[j].seen = Nowhere
  BY Zenon, <1>1, <1>2 DEF Job
<1>5. ASSUME NEW p \in Points
      PROVE  JobOK(jobs'[j], segments, p, latest[p])
  <2> DEFINE l == latest[p]
  <2>1. JobOK(jobs[j], segments, p, l)
    BY Zenon DEF DataInv, PointOK
  <2>2. Nowhere[p] = 0
    BY Zenon, EmptyFacts
  <2>3. /\ l \in Nat /\ jobs[j].seen[p] \in Nat /\ jobs[j].out.version[p] \in Nat
        /\ \A s \in jobs[j].inputs : segments[s].deleted_points[p] \in Nat
    BY Zenon, DataTypes
  <2> HIDE DEF l
  <2>4. ASSUME NEW s \in jobs[j].inputs, Holds(segments[s], p, l)
        PROVE  out.version[p] = l
    <3>1. /\ jobs[j].out.version[p] = l
          /\ \A t \in jobs[j].inputs : segments[t].deleted_points[p] < l
      BY Zenon, <1>2, <2>1, <2>4 DEF JobOK
    <3>2. jobs[j].seen[p] # 0 => jobs[j].seen[p] < l
      BY <2>1, <2>3, <3>1 DEF JobOK
    <3> QED
      BY <1>3, <2>3, <3>1, <3>2
  <2>5. p \notin jobs[j].already_removed
    BY Zenon, <1>2, <2>1 DEF JobOK
  <2>6. out.version[p] # 0 => out.version[p] = jobs[j].out.version[p]
    BY Zenon, <1>3
  <2> QED
    BY Zenon, <1>3, <1>4, <2>1, <2>2, <2>4, <2>5, <2>6 DEF JobOK, l
<1>6. UNCHANGED <<op, segments, latest>>
  BY Zenon DEF ApplyDeletes
<1> QED
  BY Zenon, <1>1, <1>5, <1>6, JobStepKeepsData

LEMMA NoteRemovedKeepsData ==
    ASSUME StructureInv, DataInv, NEW j \in Jobs, NoteRemoved(j)
    PROVE  DataInv'
<1> DEFINE removed == {p \in Points : jobs[j].seen[p] # 0 /\ jobs[j].out.version[p] = 0}
<1>1. /\ \A k \in Jobs \ {j} : jobs'[k] = jobs[k]
      /\ jobs'[j] = [jobs[j] EXCEPT !.phase = "ready", !.already_removed = removed,
                                    !.seen = Nowhere]
  BY NoteRemovedEffect, Zenon
<1>2. jobs[j] \in Job /\ jobs[j].phase = "recheck"
  BY JobFacts, Zenon DEF NoteRemoved
<1>3. \A p \in removed : jobs[j].out.version[p] = 0
  BY Zenon
<1> HIDE DEF removed
<1>4. /\ jobs'[j].inputs = jobs[j].inputs /\ jobs'[j].phase = "ready"
      /\ jobs'[j].out = jobs[j].out /\ jobs'[j].already_removed = removed
      /\ jobs'[j].seen = Nowhere
  BY Zenon, <1>1, <1>2 DEF Job
<1>5. ASSUME NEW p \in Points
      PROVE  JobOK(jobs'[j], segments, p, latest[p])
  <2>1. JobOK(jobs[j], segments, p, latest[p])
    BY Zenon DEF DataInv, PointOK
  <2>2. Nowhere[p] = 0
    BY Zenon, EmptyFacts
  <2> QED
    BY Zenon, <1>2, <1>3, <1>4, <2>1, <2>2 DEF JobOK
<1>6. UNCHANGED <<op, segments, latest>>
  BY Zenon DEF NoteRemoved
<1> QED
  BY Zenon, <1>1, <1>5, <1>6, JobStepKeepsData
(* Installing proxies hides nothing. *)
LEMMA StartKeepsData ==
    ASSUME StructureInv, DataInv, NEW j \in Jobs, StartOptimization(j)
    PROVE  DataInv'
<1>1. PICK inputs \in SUBSET DOMAIN segments : StartEffect(j, inputs)
  BY Zenon, StartKeepsStructure
<1>2. op' = op /\ latest' = latest
  BY Zenon DEF StartOptimization
<1>3. /\ DOMAIN segments \subseteq DOMAIN segments'
      /\ DOMAIN segments' \subseteq DOMAIN segments \cup {next_id}
      /\ next_id \notin DOMAIN segments
      /\ next_id \in DOMAIN segments' => segments'[next_id] = EmptySegment
      /\ \A s \in inputs : ~segments[s].is_proxy /\ segments'[s] = Wrap(segments[s])
      /\ \A s \in DOMAIN segments \ inputs : segments'[s] = segments[s]
      /\ \A k \in Jobs \ {j} : jobs'[k] = jobs[k]
  BY Zenon, <1>1 DEF StartEffect
<1>4. PICK cow \in {0, next_id} :
          jobs'[j] = [Idle EXCEPT !.phase = "merge", !.inputs = inputs, !.cow = cow]
  BY <1>1, Zenon DEF StartEffect
<1>5. /\ jobs'[j].inputs = inputs /\ jobs'[j].phase = "merge" /\ jobs'[j].seen = Nowhere
      /\ jobs'[j].already_removed = {} /\ jobs'[j].out = EmptySegment
  BY Zenon, <1>4 DEF Idle
<1>6. ASSUME NEW p \in Points
      PROVE  PointOK(segments', jobs', p, op', latest'[p])
  <2> DEFINE l == latest[p]
  <2>1. PointOK(segments, jobs, p, op, l)
    BY Zenon DEF DataInv
  <2>2. /\ op \in Nat /\ l \in Nat
        /\ \A s \in DOMAIN segments : segments[s].is_proxy \in BOOLEAN
    BY Zenon, DataTypes
  <2>3. /\ EmptySegment.version[p] = 0 /\ Nowhere[p] = 0 /\ ~EmptySegment.is_proxy
        /\ EmptySegment.deleted_points[p] = 0
    BY Zenon, EmptyFacts
  <2>4. \A s \in inputs :
          /\ segments'[s].version = segments[s].version
          /\ segments'[s].total = segments[s].total
          /\ segments'[s].is_proxy /\ segments'[s].deleted_points = Nowhere
    BY <1>3, WrapFacts DEF StructureInv, TypeOK
  <2>5. \A s \in DOMAIN segments : /\ HasPoint(segments'[s], p) <=> HasPoint(segments[s], p)
                                   /\ segments'[s].version[p] = segments[s].version[p]
    BY Zenon, <1>3, <2>3, <2>4 DEF HasPoint
  <2>6. ASSUME NEW s \in DOMAIN segments' PROVE CopyOK(segments'[s], p, op, l)
    <3>1. CASE s = next_id
      BY <1>3, <2>2, <2>3, <3>1 DEF CopyOK
    <3>2. CASE s \in inputs
      <4>1. CopyOK(segments[s], p, op, l)
        BY Zenon, <2>1, <3>2 DEF PointOK
      <4> QED
        BY <2>2, <2>3, <2>4, <3>2, <4>1 DEF CopyOK
    <3>3. CASE s \in DOMAIN segments \ inputs
      BY Zenon, <1>3, <2>1, <3>3 DEF PointOK
    <3> QED
      BY Zenon, <1>3, <3>1, <3>2, <3>3
  <2>7. l = 0 => \A s \in DOMAIN segments' : ~HasPoint(segments'[s], p)
    BY Zenon, <1>3, <2>1, <2>3, <2>5 DEF PointOK, HasPoint
  <2>8. l # 0 => \E s \in DOMAIN segments' : Holds(segments'[s], p, l)
    BY Zenon, <1>3, <2>1, <2>5 DEF PointOK, Holds
  <2>9. JobOK(jobs'[j], segments', p, l)
    <3>1. \A s \in inputs : segments'[s].deleted_points[p] = 0
      BY Zenon, <2>3, <2>4
    <3>2. \A s \in inputs : Holds(segments'[s], p, l) => 0 < l
      BY <2>2 DEF Holds, HasPoint
    <3> QED
      BY Zenon, <1>5, <2>3, <3>1, <3>2 DEF JobOK
  <2>10. ASSUME NEW k \in Jobs \ {j} PROVE JobOK(jobs'[k], segments', p, l)
    <3>1. \A s \in jobs[k].inputs : s \in DOMAIN segments /\ segments[s].is_proxy
      BY Zenon, DataTypes
    <3>2. \A s \in jobs[k].inputs : segments'[s] = segments[s]
      BY Zenon, <1>3, <3>1
    <3>3. JobOK(jobs[k], segments, p, l) /\ jobs'[k] = jobs[k]
      BY Zenon, <1>3, <2>1 DEF PointOK
    <3> HIDE DEF l
    <3> QED
      BY Zenon, <3>2, <3>3 DEF JobOK
  <2> HIDE DEF l
  <2>11. PointOK(segments', jobs', p, op, l)
    BY Zenon, <2>6, <2>7, <2>8, <2>9, <2>10 DEF PointOK
  <2> QED
    BY Zenon, <1>2, <2>11 DEF l
<1> QED
  BY Zenon, <1>6 DEF DataInv

(* A rollback, complete or not, neither hides a copy nor shows one again. *)
LEMMA RollbackKeepsData ==
    ASSUME StructureInv, DataInv, NEW j \in Jobs, Rollback(j) \/ RollbackFails(j)
    PROVE  DataInv'
<1>1. /\ RollbackEffect(j)
      /\ jobs'[j] \in {Idle, [Idle EXCEPT !.phase = "stuck"]}
      /\ \A k \in Jobs \ {j} : jobs'[k] = jobs[k]
  BY Zenon, RollbackEffects
<1>2. op' = op /\ latest' = latest
  BY Zenon DEF Rollback, RollbackFails
<1>3. DOMAIN segments' = DOMAIN segments
  BY Zenon, <1>1 DEF RollbackEffect
<1>4. /\ jobs'[j].inputs = {} /\ jobs'[j].out = EmptySegment /\ jobs'[j].seen = Nowhere
      /\ jobs'[j].already_removed = {}
  BY <1>1 DEF Idle
<1>5. ASSUME NEW p \in Points
      PROVE  PointOK(segments', jobs', p, op', latest'[p])
  <2> DEFINE l == latest[p]
  <2>1. PointOK(segments, jobs, p, op, l)
    BY Zenon DEF DataInv
  <2>2. /\ op \in Nat /\ l \in Nat
        /\ \A s \in DOMAIN segments :
             /\ segments[s].is_proxy \in BOOLEAN /\ segments[s].version[p] \in Nat
             /\ segments[s].deleted_points[p] \in Nat
        /\ \A k \in Jobs : \A s \in jobs[k].inputs : s \in DOMAIN segments /\ segments[s].is_proxy
    BY Zenon, DataTypes
  <2>3. Nowhere[p] = 0
    BY Zenon, EmptyFacts
  <2>4. ASSUME NEW s \in DOMAIN segments
        PROVE  /\ CopyOK(segments'[s], p, op, l)
               /\ HasPoint(segments'[s], p) <=> HasPoint(segments[s], p)
               /\ HasPoint(segments[s], p) => segments'[s].version[p] = segments[s].version[p]
    <3> DEFINE g == segments[s]
               d == segments'[s]
    <3>1. CopyOK(g, p, op, l)
      BY Zenon, <2>1 DEF PointOK
    <3>2. CASE d = g
      BY Zenon, <3>1, <3>2
    <3>3. CASE s \in jobs[j].inputs /\ HalfSettled(g, d)
      <4>1. /\ g.is_proxy /\ d.is_proxy /\ d.total = g.total
            /\ d.deleted_points = g.deleted_points
            /\ \/ d.version[p] = g.version[p]
               \/ d.version[p] = 0 /\ g.deleted_points[p] # 0
            /\ g.version[p] \in Nat /\ g.deleted_points[p] \in Nat
        BY Zenon, <2>2, <3>3 DEF HalfSettled
      <4> HIDE DEF g, d, l
      <4> QED
        BY <2>2, <3>1, <4>1 DEF CopyOK, HasPoint, g, d
    <3>4. CASE /\ s \in jobs[j].inputs /\ Settled(g, d)
               /\ d.is_proxy => d.deleted_points = Nowhere
      <4>1. /\ g.is_proxy /\ d.is_proxy \in BOOLEAN /\ d.total = g.total
            /\ d.is_proxy => d.deleted_points[p] = 0
            /\ d.version[p] = IF /\ g.deleted_points[p] # 0 /\ g.version[p] # 0
                                 /\ g.version[p] <= g.deleted_points[p]
                              THEN 0 ELSE g.version[p]
            /\ g.version[p] \in Nat /\ g.deleted_points[p] \in Nat
        BY Zenon, <2>2, <2>3, <3>4 DEF Settled, Segment
      <4> HIDE DEF g, d, l
      <4> QED
        BY <2>2, <3>1, <4>1 DEF CopyOK, HasPoint, g, d
    <3> QED
      BY Zenon, <1>1, <3>2, <3>3, <3>4 DEF RollbackEffect
  <2>5. \A k \in Jobs : JobOK(jobs'[k], segments', p, l)
    <3>1. ASSUME NEW k \in Jobs \ {j} PROVE JobOK(jobs'[k], segments', p, l)
      <4>1. \A s \in jobs[k].inputs : s \in DOMAIN segments \ jobs[j].inputs
        BY Zenon DEF StructureInv, ProxiesAreOwned
      <4>2. \A s \in jobs[k].inputs : segments'[s] = segments[s]
        BY Zenon, <1>1, <4>1 DEF RollbackEffect
      <4>3. JobOK(jobs[k], segments, p, l) /\ jobs'[k] = jobs[k]
        BY Zenon, <1>1, <2>1 DEF PointOK
      <4> HIDE DEF l
      <4> QED
        BY Zenon, <4>2, <4>3 DEF JobOK
    <3>2. JobOK(jobs'[j], segments', p, l)
      BY Zenon, <1>4, RestingJob
    <3> QED
      BY Zenon, <3>1, <3>2
  <2>6. l # 0 => \E s \in DOMAIN segments : Holds(segments'[s], p, l)
    BY Zenon, <2>1, <2>4 DEF PointOK, Holds
  <2> HIDE DEF l
  <2>7. PointOK(segments', jobs', p, op, l)
    BY Zenon, <1>3, <2>1, <2>4, <2>5, <2>6 DEF PointOK
  <2> QED
    BY Zenon, <1>2, <2>7 DEF l
<1> QED
  BY Zenon, <1>5 DEF DataInv

(* The newest of the copies that some Segments show. *)
LEMMA NewestShown ==
    ASSUME NEW H, NEW p \in Points, NEW l \in Nat, NEW s \in DOMAIN H, Holds(H[s], p, l),
           \A t \in DOMAIN H : H[t].version[p] \in Nat /\ H[t].version[p] <= l
    PROVE  LatestVersion(H, p) = l /\ Occurrences(H, p) # {}
<1> DEFINE V == {H[t].version[p] : t \in Occurrences(H, p)}
<1>1. s \in Occurrences(H, p) /\ l \in V
  BY Zenon DEF Occurrences, Holds
<1>2. \A v \in V : v \in Nat /\ v <= l
  BY Zenon DEF Occurrences
<1>3. Max(V) = l
  <2> HIDE DEF V
  <2>1. l \in V /\ \A v \in V : l >= v
    BY Zenon, <1>1, <1>2
  <2>2. \A u \in V : (\A v \in V : u >= v) => u = l
    BY <1>1, <1>2
  <2> QED
    BY <2>1, <2>2, Zenon DEF Max
<1> QED
  BY Zenon, <1>1, <1>3 DEF LatestVersion
(* The output a publication puts in place of its inputs: it shows the last write
   if one of them did, and nothing of a deleted point. *)
LEMMA PublishedPoint ==
    ASSUME StructureInv, DataInv, NEW j \in Jobs, FinishOptimization(j), NEW p \in Points
    PROVE  LET H == Published(j)
               l == latest[p]
           IN  /\ \A s \in DOMAIN H : /\ CopyOK(H[s], p, op, l)
                                      /\ H[s].version[p] \in Nat
                                      /\ H[s].is_proxy \in BOOLEAN
               /\ l = 0 => \A s \in DOMAIN H : ~HasPoint(H[s], p)
               /\ l # 0 => \E s \in DOMAIN H : Holds(H[s], p, l)
<1> DEFINE H == Published(j)
           l == latest[p]
           inputs == jobs[j].inputs
           out == jobs[j].out
           d == Output(j)
           del == Deletes(j)[p]
<1>1. /\ jobs[j].phase = "ready"
      /\ \A s \in DOMAIN H : H[s] = Swapped(j)[s]
      /\ DOMAIN H \subseteq DOMAIN Swapped(j)
      /\ \A s \in DOMAIN Swapped(j) \ DOMAIN H : Swapped(j)[s].total = 0
      /\ next_id \notin DOMAIN segments
  BY Zenon, PublishedFacts
<1>2. /\ DOMAIN Swapped(j) = (DOMAIN segments \ inputs) \cup {next_id}
      /\ Swapped(j)[next_id] = d
      /\ \A s \in DOMAIN segments \ inputs : Swapped(j)[s] = segments[s]
  BY Zenon, <1>1 DEF Swapped
<1>3. /\ Deletes(j) \in [Points -> Versions] /\ del \in Nat
      /\ p \notin jobs[j].already_removed =>
            /\ \E s \in inputs : segments[s].deleted_points[p] = del
            /\ \A s \in inputs : segments[s].deleted_points[p] <= del
      /\ d \in Segment /\ ~d.is_proxy
  BY PublishedFacts, LifecycleAssumption DEF Versions
<1>4. /\ d.total = out.total
      /\ d.version[p] = IF del # 0 /\ out.version[p] # 0 /\ out.version[p] <= del
                        THEN 0 ELSE out.version[p]
  BY <1>3, JobFacts, DeleteEffect DEF Output
<1>5. /\ op \in Nat /\ l \in Nat
      /\ \A s \in DOMAIN segments :
           /\ segments[s].version[p] \in Nat /\ segments[s].total \in Nat
           /\ segments[s].is_proxy \in BOOLEAN /\ segments[s].deleted_points[p] \in Nat
      /\ out.version[p] \in Nat /\ out.total \in Nat
      /\ \A s \in inputs : s \in DOMAIN segments /\ segments[s].is_proxy
  BY Zenon, DataTypes
<1>6. PointOK(segments, jobs, p, op, l)
  BY Zenon DEF DataInv
<1>7. JobOK(jobs[j], segments, p, l) /\ \A s \in DOMAIN segments : CopyOK(segments[s], p, op, l)
  BY Zenon, <1>6 DEF PointOK
<1>8. /\ out.version[p] # 0 => /\ out.total > 0
                               /\ \E s \in inputs : segments[s].version[p] = out.version[p]
      /\ p \in jobs[j].already_removed => out.version[p] = 0
      /\ (\E s \in inputs : Holds(segments[s], p, l)) =>
            /\ \A t \in inputs : segments[t].deleted_points[p] < l
            /\ out.version[p] = l
  BY Zenon, <1>1, <1>7 DEF JobOK
<1> HIDE DEF H, l, inputs, out, d, del
<1>9. CopyOK(d, p, op, l)
  <2>1. l # 0 => out.version[p] <= l
    BY <1>5, <1>7, <1>8 DEF CopyOK
  <2> QED
    BY <1>3, <1>4, <1>5, <1>8, <2>1 DEF CopyOK
<1>10. ASSUME NEW s \in DOMAIN H
       PROVE  CopyOK(H[s], p, op, l) /\ H[s].version[p] \in Nat /\ H[s].is_proxy \in BOOLEAN
  <2>1. CASE s = next_id
    <3>1. H[s] = d /\ d.version[p] \in Nat /\ d.is_proxy \in BOOLEAN
      BY <1>1, <1>2, <1>3, <1>4, <1>5, <2>1 DEF Segment
    <3> QED
      BY Zenon, <1>9, <3>1
  <2>2. CASE s # next_id
    BY Zenon, <1>1, <1>2, <1>5, <1>7, <2>2
  <2> QED
    BY Zenon, <2>1, <2>2
<1>11. ASSUME l = 0, NEW s \in DOMAIN H PROVE ~HasPoint(H[s], p)
  <2>1. \A t \in DOMAIN segments : ~HasPoint(segments[t], p)
    BY Zenon, <1>6, <1>11 DEF PointOK
  <2>2. d.version[p] = 0
    <3>1. CASE out.version[p] = 0
      BY Zenon, <1>4, <3>1
    <3>2. CASE out.version[p] # 0
      <4>1. PICK t \in inputs : segments[t].version[p] = out.version[p]
        BY Zenon, <1>8, <3>2
      <4>2. segments[t].deleted_points[p] # 0
        BY Zenon, <1>5, <2>1, <3>2, <4>1 DEF HasPoint
      <4>3. segments[t].version[p] <= segments[t].deleted_points[p]
        BY Zenon, <1>5, <1>7, <4>2 DEF CopyOK
      <4>4. segments[t].deleted_points[p] <= del
        BY Zenon, <1>3, <1>8, <3>2
      <4> QED
        BY <1>3, <1>4, <1>5, <4>1, <4>2, <4>3, <4>4
    <3> QED
      BY Zenon, <3>1, <3>2
  <2> QED
    BY Zenon, <1>1, <1>2, <2>1, <2>2 DEF HasPoint
<1>12. ASSUME l # 0 PROVE \E s \in DOMAIN H : Holds(H[s], p, l)
  <2>1. PICK s \in DOMAIN segments : Holds(segments[s], p, l)
    BY Zenon, <1>6, <1>12 DEF PointOK
  <2>2. CASE s \notin inputs
    <3>1. segments[s].total > 0
      BY Zenon, <1>7, <2>1 DEF CopyOK, Holds, HasPoint
    <3>2. s \in DOMAIN H /\ H[s] = segments[s]
      BY <1>1, <1>2, <1>5, <2>2, <3>1
    <3> QED
      BY Zenon, <2>1, <3>2
  <2>3. CASE s \in inputs
    <3>1. out.version[p] = l /\ \A t \in inputs : segments[t].deleted_points[p] < l
      BY Zenon, <1>8, <2>1, <2>3
    <3>2. p \notin jobs[j].already_removed
      BY Zenon, <1>8, <1>12, <3>1
    <3>3. del < l
      BY Zenon, <1>3, <3>1, <3>2
    <3>4. d.version[p] = l /\ d.total > 0
      BY <1>3, <1>4, <1>5, <1>8, <1>12, <3>1, <3>3
    <3>5. next_id \in DOMAIN H /\ H[next_id] = d
      BY <1>1, <1>2, <1>4, <1>5, <3>4
    <3>6. Holds(d, p, l)
      BY Zenon, <1>3, <1>12, <3>4 DEF Holds, HasPoint
    <3> QED
      BY Zenon, <3>5, <3>6
  <2> QED
    BY Zenon, <2>2, <2>3
<1> QED
  BY Zenon, <1>10, <1>11, <1>12 DEF H, l

(* Deleting the obsolete copies afterwards never reaches the last write. *)
LEMMA FinishKeepsData ==
    ASSUME StructureInv, DataInv, NEW j \in Jobs, FinishOptimization(j)
    PROVE  DataInv'
<1> DEFINE H == Published(j)
<1>1. /\ \A s \in DOMAIN H : H[s] = Swapped(j)[s] /\ H[s] \in Segment
      /\ DOMAIN H \subseteq DOMAIN Swapped(j)
      /\ \A s \in DOMAIN Swapped(j) \ DOMAIN H : ~Swapped(j)[s].is_proxy
      /\ segments' = DeletePointsFromSegments(H, NowVisible(j))
      /\ next_id \notin DOMAIN segments
  BY Zenon, PublishedFacts
<1>2. /\ DOMAIN Swapped(j) = (DOMAIN segments \ jobs[j].inputs) \cup {next_id}
      /\ \A s \in DOMAIN segments \ jobs[j].inputs : Swapped(j)[s] = segments[s]
  BY Zenon, <1>1 DEF Swapped
<1>3. /\ op' = op /\ latest' = latest /\ jobs'[j] = Idle
      /\ \A k \in Jobs \ {j} : jobs'[k] = jobs[k]
  BY FinishKeepsStructure, Zenon DEF FinishOptimization
<1>4. ASSUME NEW p \in Points
      PROVE  PointOK(segments', jobs', p, op', latest'[p])
  <2> DEFINE l == latest[p]
  <2>1. /\ \A s \in DOMAIN H : /\ CopyOK(H[s], p, op, l) /\ H[s].version[p] \in Nat
                               /\ H[s].is_proxy \in BOOLEAN
        /\ l = 0 => \A s \in DOMAIN H : ~HasPoint(H[s], p)
        /\ l # 0 => \E s \in DOMAIN H : Holds(H[s], p, l)
    BY Zenon, PublishedPoint
  <2>2. PointOK(segments, jobs, p, op, l)
    BY Zenon DEF DataInv
  <2>3. /\ op \in Nat /\ l \in Nat
        /\ \A s \in DOMAIN segments : segments[s].version[p] <= op
        /\ \A s \in DOMAIN segments : segments[s].deleted_points[p] \in Nat
        /\ \A k \in Jobs : \A s \in jobs[k].inputs : s \in DOMAIN segments /\ segments[s].is_proxy
        /\ \A k \in Jobs : jobs[k].seen[p] \in Nat
    BY Zenon, DataTypes
  <2> HIDE DEF H, l
  <2>4. /\ DOMAIN segments' = DOMAIN H
        /\ \A s \in DOMAIN H : /\ segments'[s].is_proxy = H[s].is_proxy
                               /\ segments'[s].total = H[s].total
                               /\ \/ Kept(H[s], segments'[s], p)
                                  \/ /\ s \in ToDelete(H, p)
                                     /\ Deleted(H[s], segments'[s], p, H[s].version[p])
    BY <1>1, ObsoleteEffect DEF SameElsewhere
  <2>5. \A s \in ToDelete(H, p) : /\ s \in DOMAIN H /\ HasPoint(H[s], p)
                                  /\ H[s].version[p] # LatestVersion(H, p)
    BY Zenon DEF ToDelete, ToUpdate, Occurrences
  <2>6. l # 0 => LatestVersion(H, p) = l
    BY Zenon, <2>1, <2>3, NewestShown DEF CopyOK
  <2>7. \A s \in ToDelete(H, p) : l # 0 /\ H[s].version[p] < l /\ H[s].version[p] # 0
    BY <2>1, <2>3, <2>5, <2>6 DEF CopyOK, HasPoint
  <2>8. \A s \in DOMAIN H : s \in ToDelete(H, p) /\ H[s].is_proxy => H[s].version[p] <= op
    <3>1. ~Swapped(j)[next_id].is_proxy
      BY <1>1, PublishedFacts, SMTT(20) DEF Swapped
    <3> QED
      BY <1>1, <1>2, <2>3, <3>1, SMTT(20) DEF H
  <2>9. \A s \in DOMAIN H : CopyOK(segments'[s], p, op, l)
    BY <2>1, <2>3, <2>4, <2>7, <2>8, SMTT(20) DEF CopyOK, Kept, Deleted
  <2>10. \A s \in DOMAIN H : ~HasPoint(H[s], p) => ~HasPoint(segments'[s], p)
    BY <2>1, <2>4, <2>5, SMTT(20) DEF HasPoint, Kept
  <2>11. \A s \in DOMAIN H : Holds(H[s], p, l) => Holds(segments'[s], p, l)
    BY <2>1, <2>3, <2>4, <2>7, SMTT(20) DEF HasPoint, Holds, Kept
  <2>12. ASSUME NEW k \in Jobs \ {j} PROVE JobOK(jobs'[k], segments', p, l)
    <3>1. JobOK(jobs[k], segments, p, l) /\ jobs'[k] = jobs[k]
      BY <1>3, <2>2, SMTT(20) DEF PointOK
    <3>2. \A s \in jobs[k].inputs : /\ s \in DOMAIN segments \ jobs[j].inputs
                                    /\ segments[s].is_proxy
      BY Zenon, <2>3 DEF StructureInv, ProxiesAreOwned
    <3>3. \A s \in jobs[k].inputs : s \in DOMAIN H /\ H[s] = segments[s] /\ H[s].is_proxy
      BY Zenon, <1>1, <1>2, <3>2
    <3>4. \A s \in jobs[k].inputs :
             /\ segments'[s].version[p] = segments[s].version[p]
             /\ \/ segments'[s].deleted_points[p] = segments[s].deleted_points[p]
                \/ /\ s \in ToDelete(H, p)
                   /\ segments'[s].deleted_points[p] = segments[s].version[p]
      BY <2>4, <3>3 DEF Kept, Deleted
    <3>5. \A s \in jobs[k].inputs : Holds(segments'[s], p, l) => Holds(segments[s], p, l)
      BY Zenon, <2>10, <3>3, <3>4 DEF Holds
    <3>6. \A s \in jobs[k].inputs : segments[s].deleted_points[p] < l =>
              segments'[s].deleted_points[p] < l
      BY Zenon, <2>7, <3>3, <3>4
    <3>7. \A s \in jobs[k].inputs : segments[s].deleted_points[p] # 0 =>
              segments'[s].deleted_points[p] = segments[s].deleted_points[p]
      BY Zenon, <2>5, <3>3, <3>4 DEF HasPoint
    <3>8. \A s \in jobs[k].inputs :
              jobs[k].seen[p] # 0 /\ jobs[k].seen[p] <= segments[s].deleted_points[p] =>
                  segments[s].deleted_points[p] # 0
      BY <2>3
    <3> QED
      BY <3>1, <3>4, <3>5, <3>6, <3>7, <3>8, SMTT(20) DEF JobOK
  <2>13. JobOK(jobs'[j], segments', p, l)
    BY <1>3, IdleFacts, RestingJob, SMTT(20)
  <2>14. PointOK(segments', jobs', p, op, l)
    BY <2>1, <2>4, <2>9, <2>10, <2>11, <2>12, <2>13, SMTT(20) DEF PointOK
  <2> QED
    BY Zenon, <1>3, <2>14 DEF l
<1> QED
  BY <1>4, SMTT(20) DEF DataInv

-----------------------------------------------------------------------------
LEMMA InitData == Init => DataInv
<1> SUFFICES ASSUME Init, NEW p \in Points
             PROVE  PointOK(segments, jobs, p, op, latest[p])
  BY Zenon DEF DataInv
<1>1. /\ DOMAIN segments = {1, 2} /\ latest[p] \in {0, 1}
      /\ \A s \in {1, 2} : ~segments[s].is_proxy
      /\ segments[1].version[p] = latest[p]
      /\ segments[2].version[p] = 0
      /\ latest[p] # 0 => segments[1].total > 0
  BY Zenon, InitialSegments, EmptyFacts
<1>2. \A j \in Jobs : jobs[j] = Idle
  BY Zenon DEF Init
<1>3. \A j \in Jobs : JobOK(jobs[j], segments, p, latest[p])
  BY Zenon, <1>2, IdleFacts, RestingJob
<1>4. \A s \in DOMAIN segments : CopyOK(segments[s], p, op, latest[p])
  BY <1>1 DEF CopyOK
<1> QED
  BY Zenon, <1>1, <1>3, <1>4 DEF PointOK, HasPoint, Holds

LEMMA NextKeepsData == StructureInv /\ DataInv /\ [Next]_vars => DataInv'
<1> SUFFICES ASSUME StructureInv, DataInv, [Next]_vars PROVE DataInv'
  BY Zenon
<1>0. StructureInv'
  BY Zenon, NextKeepsStructure
<1>1. ASSUME NEW p \in Points, Upsert(p) \/ Insert(p) \/ Delete(p)
      PROVE  DataInv'
  BY Zenon, <1>0, <1>1, UpdateKeepsData
<1>2. ASSUME NEW j \in Jobs,
             \/ StartOptimization(j) \/ Merge(j) \/ ReadDeletes(j) \/ ApplyDeletes(j)
             \/ NoteRemoved(j) \/ FinishOptimization(j) \/ Rollback(j) \/ RollbackFails(j)
      PROVE  DataInv'
  BY Zenon, <1>2, StartKeepsData, MergeKeepsData, ReadDeletesKeepsData, ApplyDeletesKeepsData,
     NoteRemovedKeepsData, FinishKeepsData, RollbackKeepsData
<1>3. ASSUME NEW x \in Sessions, Pin(x) \/ Unpin(x)
      PROVE  DataInv'
  BY Zenon, <1>3 DEF Pin, Unpin, DataInv
<1>4. CASE UNCHANGED vars
  BY Zenon, <1>4 DEF vars, DataInv
<1> QED
  BY Zenon, <1>1, <1>2, <1>3, <1>4 DEF Next

(* An acknowledged write is never lost and a deleted point never comes back:
   the newest copy the SegmentHolder shows of a point is the last write, for
   every number of points, optimizer tasks, sessions and operations. *)
THEOREM NoWriteIsLost == Spec => []LastWriteIsKept
<1>1. StructureInv /\ DataInv => LastWriteIsKept
  <2> SUFFICES ASSUME StructureInv, DataInv, NEW p \in Points
               PROVE  IF latest[p] = 0 THEN Occurrences(segments, p) = {}
                      ELSE /\ Occurrences(segments, p) # {}
                           /\ LatestVersion(segments, p) = latest[p]
    BY Zenon DEF LastWriteIsKept
  <2>1. PointOK(segments, jobs, p, op, latest[p])
    BY Zenon DEF DataInv
  <2>2. CASE latest[p] = 0
    BY Zenon, <2>1, <2>2 DEF PointOK, Occurrences
  <2>3. CASE latest[p] # 0
    <3>1. PICK s \in DOMAIN segments : Holds(segments[s], p, latest[p])
      BY Zenon, <2>1, <2>3 DEF PointOK
    <3>2. latest[p] \in Nat
          /\ \A t \in DOMAIN segments : segments[t].version[p] \in Nat
                                        /\ segments[t].version[p] <= latest[p]
      BY Zenon, <2>1, <2>3, DataTypes DEF PointOK, CopyOK
    <3> QED
      BY Zenon, <2>3, <3>1, <3>2, NewestShown
  <2> QED
    BY Zenon, <2>2, <2>3
<1> QED
  BY <1>1, InitStructure, NextKeepsStructure, InitData, NextKeepsData, PTL DEF Spec

=============================================================================
