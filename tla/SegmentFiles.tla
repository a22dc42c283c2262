---------------------------- MODULE SegmentFiles ----------------------------
(***************************************************************************)
(* The files of one appendable Segment: the id tracker's log of mappings   *)
(* and its file of versions (MutableIdTracker), the vectors and payloads,  *)
(* and the state file, written by Segment::flusher in an order that makes  *)
(* a half-finished flush harmless.  After a crash the Segment is loaded,   *)
(* repaired, and the operations that were not acknowledged are replayed.   *)
(*                                                                         *)
(* A slot is an internal id.  It shows the upsert that wrote its vectors   *)
(* and the operations in its payload, which an upsert empties; a payload   *)
(* operation needs an existing point.  Vectors are written through, the    *)
(* payload storage keeps changes in memory until it is flushed.  A crash   *)
(* leaves a part of what was appended to the log of mappings; an entry     *)
(* that was cut in two is ignored by read_mappings.                        *)
(***************************************************************************)
EXTENDS Integers, Sequences, FiniteSetsExt, SequencesExt, DiskFile

CONSTANTS Externals,      \* external point ids
          NoExternal,     \* PointIdType::NumId(u64::MAX), for a slot without point
          Starts,         \* points that were inserted and flushed at the start
          MaxChanges,     \* bound: operations
          MaxBreaks       \* bound: crashes and failed flushes

VARIABLES segment,            \* "open", "closed", or "repair", "replay" and "save"
                              \* while it is loaded
          mappings,           \* PointMappings
          versions,           \* internal_to_version
          pending_mappings,
          pending_versions,
          mappings_file,      \* the changes in mutable_id_tracker.mappings
          mappings_synced,    \* how many of them are on disk
          mappings_len,       \* mappings_expected_len
          versions_file,      \* mutable_id_tracker.versions
          versions_synced,    \* its length on disk
          vectors,            \* slot -> the upsert that wrote it
          payload,            \* slot -> operations in it
          pending_payload,    \* the same, not flushed yet
          version,            \* version of the Segment
          saved,              \* persisted_version, and the version in the state file
          segment_flusher,
          ops,                \* history: all operations, by op_num
          next_op,            \* the next operation to apply
          acked_to,           \* the operation the log is acknowledged to
          forgotten,          \* history: points a power loss took a loaded change of
          breaks              \* history: number of crashes and failed flushes

segment_vars == <<segment, mappings, versions, pending_mappings,
                  pending_versions, mappings_file, mappings_synced, mappings_len,
                  versions_file, versions_synced, vectors, payload,
                  pending_payload, version, saved,
                  segment_flusher, ops, next_op, acked_to, forgotten, breaks>>
contents == <<vectors, payload, pending_payload>>
id_tracker == <<mappings, versions, pending_mappings, pending_versions>>
segment_disk == <<mappings_file, mappings_synced, mappings_len, versions_file,
                  versions_synced, saved>>

NoSlot == -1

Operation == [kind : {"upsert", "payload", "delete"}, external : Externals]

-----------------------------------------------------------------------------
(* PointMappings.                                                          *)

NoMappings == [ext |-> <<>>, dead |-> {}, int |-> [e \in Externals |-> NoSlot]]

TotalPointCount(m) == Len(m.ext)

\* Slots count from 0; new slots in between are dead and have no point.
Resized(m, s) ==
    LET n == TotalPointCount(m)
    IN  IF s < n THEN m
        ELSE [m EXCEPT !.ext = @ \o [i \in 1 .. s + 1 - n |-> NoExternal],
                       !.dead = @ \cup n .. s]

SetLink(m, e, s) ==
    LET old == m.int[e]
        grown == Resized(m, s)
    IN  [ext |-> [grown.ext EXCEPT ![s + 1] = e],
         dead |-> (grown.dead \cup ({old} \ {NoSlot})) \ {s},
         int |-> [m.int EXCEPT ![e] = s]]

Drop(m, e) ==
    LET s == m.int[e]
    IN  IF s = NoSlot THEN m
        ELSE [ext |-> [m.ext EXCEPT ![s + 1] = NoExternal],
              dead |-> m.dead \cup {s},
              int |-> [m.int EXCEPT ![e] = NoSlot]]

ExternalId(m, s) ==
    IF s >= TotalPointCount(m) \/ s \in m.dead THEN NoExternal ELSE m.ext[s + 1]

IterInternal(m) == (0 .. TotalPointCount(m) - 1) \ m.dead

-----------------------------------------------------------------------------
(* MutableIdTracker.                                                       *)

InsertOf(e, s) == [kind |-> "insert", external |-> e, slot |-> s]
DeleteOf(e) == [kind |-> "delete", external |-> e]

\* Mutant: the slot of a deleted point is not marked.
ReadUnmarked(m, c) ==
    IF c.kind = "delete" THEN [m EXCEPT !.int[c.external] = NoSlot]
    ELSE SetLink(m, c.external, c.slot)

\* read_mappings, for one change.  Unlike set_link it does not mark the slot that
\* the point had before.
ReadChange(m, c) ==
    IF c.kind = "delete" THEN Drop(m, c.external)
    ELSE LET grown == Resized(m, c.slot)
             replaced == grown.ext[c.slot + 1]
             kept == IF c.slot \notin grown.dead /\ replaced # NoExternal
                     THEN [grown.int EXCEPT ![replaced] = NoSlot] ELSE grown.int
         IN  [ext |-> [grown.ext EXCEPT ![c.slot + 1] = c.external],
              dead |-> grown.dead \ {c.slot},
              int |-> [kept EXCEPT ![c.external] = c.slot]]

ReadMappings(changes) == FoldLeft(ReadChange, NoMappings, changes)

InternalVersion(s) == IF s < Len(versions) THEN versions[s + 1] ELSE -1

\* set_internal_version: the vector of versions grows with zeros.
SetVersion(vs, s, v) ==
    [i \in 1 .. Max({Len(vs), s + 1}) |->
        IF i = s + 1 THEN v ELSE IF i <= Len(vs) THEN vs[i] ELSE 0]

Replaced(f, s, v) == [t \in DOMAIN f \cup {s} |-> IF t = s THEN v ELSE f[t]]

-----------------------------------------------------------------------------
(* Operations, under the Segment's write lock.                             *)

NotFlushing == [stage |-> "none"]

\* A Segment that is new, or was filled and flushed earlier.
SegmentInit ==
    \E points \in Starts :
        LET n == Len(points)
            inserts == [i \in 1 .. n |-> InsertOf(points[i], i - 1)]
            numbers == [s \in 0 .. n - 1 |-> s + 1]
        IN  /\ segment = "open"
            /\ mappings = ReadMappings(inserts) /\ versions = [i \in 1 .. n |-> i]
            /\ pending_mappings = <<>> /\ pending_versions = <<>>
            /\ mappings_file = inserts /\ mappings_synced = n /\ mappings_len = n
            /\ versions_file = Flushed(Stored(File(0 .. n - 1, 0), numbers))
            /\ versions_synced = n
            /\ vectors = Flushed(Stored(File(0 .. n - 1, 0), numbers))
            /\ payload = <<>> /\ pending_payload = <<>>
            /\ version = n /\ saved = n /\ segment_flusher = NotFlushing
            /\ ops = [i \in 1 .. n |-> [kind |-> "upsert", external |-> points[i]]]
            /\ next_op = n + 1 /\ acked_to = n /\ forgotten = {} /\ breaks = 0

PayloadAt(s) ==
    IF s \in DOMAIN pending_payload THEN pending_payload[s]
    ELSE IF s \in DOMAIN payload THEN payload[s] ELSE {}

WriteVectors(s, n) ==
    vectors' = Stored(Grown(vectors, DOMAIN vectors.now \cup {s}, 0), [t \in {s} |-> n])
WritePayload(s, p) ==
    /\ pending_payload' = Replaced(pending_payload, s, p)
    /\ UNCHANGED payload

\* handle_point_version, once the operation has succeeded.
Versioned(n, s) ==
    /\ versions' = SetVersion(versions, s, n)
    /\ pending_versions' = Replaced(pending_versions, s, n)
    /\ version' = Max({version, n})

\* insert_new_vectors
WriteNewSlot(n, e) ==
    LET s == TotalPointCount(mappings)
    IN  /\ WriteVectors(s, n) /\ WritePayload(s, {})
        /\ mappings' = SetLink(mappings, e, s)
        /\ pending_mappings' = Append(pending_mappings, InsertOf(e, s))
        /\ Versioned(n, s)

\* handle_point_mutate, in place: append_only_mutations is FALSE in a release.
Mutate(n, s, v, p) ==
    /\ IF v = n THEN WriteVectors(s, v) ELSE UNCHANGED vectors
    /\ WritePayload(s, p)
    /\ Versioned(n, s)
    /\ UNCHANGED <<mappings, pending_mappings>>

\* delete_point_internal clears the payload, drop_internal drops the mapping and
\* resets the version, which handle_point_version sets again.
DropPoint(n, e, s) ==
    /\ WritePayload(s, {})
    /\ mappings' = Drop(mappings, e)
    /\ pending_mappings' = Append(pending_mappings, DeleteOf(e))
    /\ Versioned(n, s)
    /\ UNCHANGED vectors

\* upsert_point with its payload, a payload operation, or delete_point.  A
\* point with a newer version is left alone; one that does not exist is an
\* error for a payload operation and nothing to delete.
ApplyOperation(n, o) ==
    LET e == o.external
        s == mappings.int[e]
    IN  \/ /\ s = NoSlot /\ o.kind = "upsert"
           /\ WriteNewSlot(n, e)
        \/ /\ \/ s = NoSlot /\ o.kind # "upsert"
              \/ s # NoSlot /\ InternalVersion(s) > n
           /\ UNCHANGED <<id_tracker, contents, version>>
        \/ /\ s # NoSlot /\ InternalVersion(s) <= n
           /\ \/ o.kind = "upsert" /\ Mutate(n, s, n, {})
              \/ o.kind = "payload" /\ Mutate(n, s, vectors.now[s], PayloadAt(s) \cup {n})
              \/ o.kind = "delete" /\ DropPoint(n, e, s)

\* A new operation, or one of the log that is replayed.
Operate(o) ==
    /\ \/ /\ segment = "open" /\ Len(ops) < MaxChanges
          /\ ops' = Append(ops, o)
       \/ /\ segment = "replay" /\ next_op <= Len(ops)
          /\ o = ops[next_op]
          /\ UNCHANGED ops
    /\ next_op' = next_op + 1
    /\ ApplyOperation(next_op, o)
    /\ UNCHANGED <<segment, segment_disk, segment_flusher, acked_to, forgotten, breaks>>

-----------------------------------------------------------------------------
(* Segment::flusher: everything is captured between two operations, and    *)
(* written by the flush thread.                                            *)

Captured ==
    [stage |-> IF pending_mappings' = <<>> THEN "vectors" ELSE "mappings",
     mappings |-> pending_mappings', payload |-> pending_payload',
     versions |-> pending_versions',
     version |-> version', applied |-> next_op' - 1]

CaptureFlush ==
    /\ segment = "open" /\ segment_flusher = NotFlushing /\ version # saved
    /\ UNCHANGED <<segment, id_tracker, segment_disk, contents, version, ops,
                   next_op, acked_to, forgotten, breaks>>
    /\ segment_flusher' = Captured

\* load_from_wal flushes everything at its end, needed or not; a Segment
\* without version is taken for empty.
FlushReplayed ==
    /\ segment = "replay" /\ next_op > Len(ops)
    /\ segment' = IF version = 0 THEN "open" ELSE "save"
    /\ UNCHANGED <<id_tracker, segment_disk, contents, version, ops, next_op,
                   acked_to, forgotten, breaks>>
    /\ segment_flusher' = IF version = 0 THEN NotFlushing ELSE Captured

\* With nothing to flush the log is acknowledged up to what is applied.
NothingToFlush ==
    /\ segment = "open" /\ segment_flusher = NotFlushing /\ version = saved
    /\ acked_to' = Max({acked_to, next_op - 1})
    /\ UNCHANGED <<segment, id_tracker, segment_disk, contents, version,
                   segment_flusher, ops, next_op, forgotten, breaks>>

Stage(at) == segment # "closed" /\ segment_flusher.stage = at
Continue(to) == segment_flusher' = [segment_flusher EXCEPT !.stage = to]

\* store_mapping_changes: what is beyond the expected length is cut off.
AppendMappings ==
    /\ Stage("mappings")
    /\ mappings_file' = SubSeq(mappings_file, 1, mappings_len) \o segment_flusher.mappings
    /\ Continue("sync_mappings")
    /\ UNCHANGED <<segment, id_tracker, mappings_synced, mappings_len,
                   versions_file, versions_synced, contents, version, saved, ops, next_op,
                   acked_to, forgotten, breaks>>

\* Mutant: what changed while the flush was running is dropped too.
NothingPending(pend, done) == <<>>

\* reconcile_persisted_version_changes, and the same in the payload storage.
Unequal(pend, done) ==
    Restrict(pend, {s \in DOMAIN pend : s \in DOMAIN done => pend[s] # done[s]})

\* reconcile_persisted_mapping_changes drops what both lists begin with.
Reconciled(pend, done) ==
    LET same == {n \in 0 .. Min({Len(pend), Len(done)}) :
                    \A i \in 1 .. n : pend[i] = done[i]}
    IN  SubSeq(pend, Max(same) + 1, Len(pend))

\* Mutant: the file is not synced.
SkipSyncMappings ==
    /\ Stage("sync_mappings")
    /\ mappings_len' = Len(mappings_file)
    /\ pending_mappings' = Reconciled(pending_mappings, segment_flusher.mappings)
    /\ Continue("vectors")
    /\ UNCHANGED <<segment, mappings, versions, pending_versions, mappings_synced,
                   mappings_file, versions_file, versions_synced, contents, version,
                   saved, ops, next_op, acked_to, forgotten, breaks>>

\* sync_all, and what follows a stored flush.
SyncMappings ==
    /\ Stage("sync_mappings")
    /\ mappings_synced' = Len(mappings_file) /\ mappings_len' = Len(mappings_file)
    /\ pending_mappings' = Reconciled(pending_mappings, segment_flusher.mappings)
    /\ Continue("vectors")
    /\ UNCHANGED <<segment, mappings, versions, pending_versions,
                   mappings_file, versions_file, versions_synced, contents, version,
                   saved, ops, next_op, acked_to, forgotten, breaks>>

\* Mutant: the vectors are not flushed.
SkipVectors ==
    /\ Stage("vectors")
    /\ Continue("payload")
    /\ UNCHANGED <<segment, id_tracker, segment_disk, contents, version, ops, next_op,
                   acked_to, forgotten, breaks>>

FlushVectors ==
    /\ Stage("vectors")
    /\ vectors' = Flushed(vectors)
    /\ Continue("payload")
    /\ UNCHANGED <<segment, id_tracker, segment_disk, payload,
                   pending_payload, version, ops, next_op, acked_to, forgotten, breaks>>

WrittenPayload ==
    [s \in DOMAIN payload \cup DOMAIN segment_flusher.payload |->
        IF s \in DOMAIN segment_flusher.payload THEN segment_flusher.payload[s]
        ELSE payload[s]]

FlushPayload ==
    /\ Stage("payload")
    /\ payload' = WrittenPayload
    /\ pending_payload' = Unequal(pending_payload, segment_flusher.payload)
    /\ Continue(IF segment_flusher.versions = <<>> THEN "state" ELSE "versions")
    /\ UNCHANGED <<segment, id_tracker, segment_disk, vectors, version, ops,
                   next_op, acked_to, forgotten, breaks>>

\* store_version_changes: each version at the place of its slot.
WriteVersions ==
    /\ Stage("versions")
    /\ LET new == segment_flusher.versions
           end == Max(DOMAIN new \cup {u : u \in DOMAIN versions_file.now})
       IN  versions_file' = Stored(Grown(versions_file, 0 .. end, 0), new)
    /\ Continue("sync_versions")
    /\ UNCHANGED <<segment, id_tracker, mappings_file, mappings_synced,
                   mappings_len, versions_synced, contents, version, saved, ops, next_op,
                   acked_to, forgotten, breaks>>

SyncVersions ==
    /\ Stage("sync_versions")
    /\ versions_file' = Flushed(versions_file)
    /\ versions_synced' = Cardinality(DOMAIN versions_file.now)
    /\ pending_versions' = Unequal(pending_versions, segment_flusher.versions)
    /\ Continue("state")
    /\ UNCHANGED <<segment, mappings, versions, pending_mappings,
                   mappings_file, mappings_synced, mappings_len, contents, version, saved,
                   ops, next_op, acked_to, forgotten, breaks>>

\* save_state, and the acknowledgement that follows in the flush worker.  The
\* flushes while loading acknowledge nothing.
SaveState ==
    /\ Stage("state")
    /\ saved' = segment_flusher.version
    /\ segment_flusher' = NotFlushing
    /\ acked_to' = IF segment = "open" THEN Max({acked_to, segment_flusher.applied}) ELSE acked_to
    /\ segment' = IF segment = "repair" THEN "replay" ELSE "open"
    /\ UNCHANGED <<id_tracker, mappings_file, mappings_synced, mappings_len,
                   versions_file, versions_synced, contents, version, ops, next_op,
                   forgotten, breaks>>

\* A failed flush.  One of the mappings may have written a part, which it cuts
\* off again if it can.
FlushBreaks ==
    /\ segment = "open" /\ segment_flusher # NotFlushing /\ breaks < MaxBreaks
    /\ breaks' = breaks + 1
    /\ segment_flusher' = NotFlushing
    /\ \/ segment_flusher.stage \notin {"mappings", "sync_mappings"}
          /\ UNCHANGED mappings_file
       \/ /\ segment_flusher.stage \in {"mappings", "sync_mappings"}
          /\ \E n \in 0 .. Len(segment_flusher.mappings) :
                mappings_file' = SubSeq(mappings_file, 1, mappings_len)
                                 \o SubSeq(segment_flusher.mappings, 1, n)
    /\ UNCHANGED <<segment, id_tracker, mappings_synced, mappings_len,
                   versions_file, versions_synced, contents, version, saved, ops, next_op,
                   acked_to, forgotten>>

-----------------------------------------------------------------------------
(* Crashes, loading and repair.                                            *)

\* The payload storage keeps what was flushed, and a part of what is flushed.
PayloadIsLeft ==
    /\ \/ payload' = payload
       \/ /\ Stage("payload")
          /\ \E part \in SUBSET DOMAIN segment_flusher.payload :
                payload' = Restrict(WrittenPayload, DOMAIN payload \cup part)
    /\ pending_payload' = <<>>

Close ==
    /\ segment # "closed" /\ breaks < MaxBreaks
    /\ segment' = "closed" /\ breaks' = breaks + 1
    /\ mappings' = NoMappings /\ versions' = <<>>
    /\ pending_mappings' = <<>> /\ pending_versions' = <<>>
    /\ version' = 0 /\ segment_flusher' = NotFlushing
    /\ UNCHANGED <<mappings_len, saved, ops, next_op, acked_to>>

\* A killed process leaves its files as they are, an append perhaps half done.
SegmentIsKilled ==
    /\ Close
    /\ \/ UNCHANGED mappings_file
       \/ /\ Stage("mappings")
          /\ \E n \in 1 .. Len(segment_flusher.mappings) - 1 :
                mappings_file' = SubSeq(mappings_file, 1, mappings_len)
                                 \o SubSeq(segment_flusher.mappings, 1, n)
    /\ PayloadIsLeft
    /\ UNCHANGED <<vectors, mappings_synced, versions_file, versions_synced, forgotten>>

\* After a power loss the ends of files that were not synced may be missing.
SegmentLosesPower ==
    /\ Close
    /\ \E n \in mappings_synced .. Len(mappings_file) :
          /\ mappings_file' = SubSeq(mappings_file, 1, n)
          /\ mappings_synced' = n
          /\ forgotten' = forgotten \cup
                {mappings_file[i].external : i \in n + 1 .. mappings_len}
    /\ \E n \in versions_synced .. Cardinality(DOMAIN versions_file.now) :
          /\ \E f \in Leavings(versions_file) :
                versions_file' = [now |-> Restrict(f.now, 0 .. n - 1),
                                  left |-> Restrict(f.left, 0 .. n - 1)]
          /\ versions_synced' = n
    /\ vectors' \in Leavings(vectors)
    /\ PayloadIsLeft

\* fix_inconsistencies: slots with a point and no version, and slots with a
\* version and no point.
NoVersion(m, vs) == {s \in IterInternal(m) : s >= Len(vs)}
Orphans(m, vs) ==
    {s \in 0 .. Len(vs) - 1 : vs[s + 1] # 0 /\ ExternalId(m, s) = NoExternal}

\* open, load_mappings and check_consistency_and_repair: the points without
\* version are dropped, all those slots are cleared, and that is flushed.
OpenSegment ==
    /\ segment = "closed"
    /\ LET m == ReadMappings(mappings_file)
           vs == [i \in 1 .. Cardinality(DOMAIN versions_file.now) |->
                     versions_file.now[i - 1]]
           bare == NoVersion(m, vs)
           order == SetToSortSeq(bare, <)
           dirty == bare \cup Orphans(m, vs)
       IN  /\ pending_mappings' = [i \in DOMAIN order |-> DeleteOf(ExternalId(m, order[i]))]
           /\ mappings' = FoldLeft(ReadChange, m, pending_mappings')
           /\ versions' = FoldSet(LAMBDA s, acc : SetVersion(acc, s, 0), vs, dirty)
           /\ pending_versions' = [s \in dirty |-> 0]
           /\ pending_payload' = [s \in dirty |-> {}]
           /\ mappings_len' = Len(mappings_file)
           /\ version' = saved /\ next_op' = Max({1, acked_to})
           /\ segment' = IF dirty = {} \/ saved = 0 THEN "replay" ELSE "repair"
           /\ segment_flusher' = IF dirty = {} \/ saved = 0 THEN NotFlushing ELSE Captured
    /\ UNCHANGED <<mappings_file, mappings_synced, versions_file,
                   versions_synced, vectors, payload, saved, ops, acked_to, forgotten,
                   breaks>>

SegmentNext ==
    \/ \E o \in Operation : Operate(o)
    \/ CaptureFlush
    \/ FlushReplayed
    \/ NothingToFlush
    \/ AppendMappings
    \/ SyncMappings
    \/ FlushVectors
    \/ FlushPayload
    \/ WriteVersions
    \/ SyncVersions
    \/ SaveState
    \/ FlushBreaks
    \/ SegmentIsKilled
    \/ SegmentLosesPower
    \/ OpenSegment

SegmentSpec == SegmentInit /\ [][SegmentNext]_segment_vars

-----------------------------------------------------------------------------
(* Properties.                                                             *)

\* What the operations make of a point, in order.
NoPoint == [vectors |-> 0, payload |-> {}]
Truth(e) ==
    LET after[n \in 0 .. Len(ops)] ==
          IF n = 0 THEN NoPoint
          ELSE IF ops[n].external # e THEN after[n - 1]
          ELSE CASE ops[n].kind = "upsert" -> [vectors |-> n, payload |-> {}]
                 [] ops[n].kind = "delete" -> NoPoint
                 [] ops[n].kind = "payload" ->
                      IF after[n - 1] = NoPoint THEN NoPoint
                      ELSE [after[n - 1] EXCEPT !.payload = @ \cup {n}]
    IN  after[Len(ops)]

Content(e) ==
    LET s == mappings.int[e]
    IN  IF s = NoSlot THEN NoPoint
        ELSE [vectors |-> vectors.now[s], payload |-> PayloadAt(s)]

\* Types of the id tracker and its files, and the lengths it relies on.
SegmentTypeOK ==
    /\ segment \in {"open", "closed", "repair", "replay", "save"}
    /\ Range(mappings.ext) \subseteq Externals \cup {NoExternal}
    /\ mappings.dead \subseteq 0 .. TotalPointCount(mappings) - 1
    /\ Range(mappings.int) \subseteq 0 .. TotalPointCount(mappings) - 1 \cup {NoSlot}
    /\ Range(versions) \subseteq 0 .. MaxChanges
    /\ mappings_synced <= Len(mappings_file)
    /\ segment # "closed" => mappings_len <= Len(mappings_file)
    /\ versions_synced <= Cardinality(DOMAIN versions_file.now)
    /\ saved <= Len(ops) /\ acked_to <= Len(ops) /\ next_op \in 1 .. Len(ops) + 1

\* A Segment that is open, after any crash and the replay that followed, shows
\* of each point what the operations made of it.  A point is excepted when a power
\* loss took changes that load_mappings had read from a file that was not synced.
SegmentRecovers ==
    segment = "open" => \A e \in Externals \ forgotten : Content(e) = Truth(e)

\* Every slot that is not marked as deleted is the slot of its point: a scan over
\* the slots (iter_internal) and a lookup by id see the same points.
OneSlotPerPoint ==
    segment = "open" => \A s \in IterInternal(mappings) :
                            mappings.int[mappings.ext[s + 1]] = s

\* "can never have more versions than internal point mappings" (open)
VersionsHaveMappings ==
    segment # "closed" => Len(versions) <= TotalPointCount(mappings)

\* "presence of version indicates that all other data is up-to-date" (flusher):
\* a point that has a version shows the operation of that number, or an upsert
\* that came later.
VersionMeansFlushed ==
    segment # "closed" => \A e \in Externals \ forgotten :
        LET s == mappings.int[e]
            v == InternalVersion(s)
        IN  s # NoSlot /\ v > 0 =>
                v \in {vectors.now[s]} \cup PayloadAt(s) \/ v < vectors.now[s]
=============================================================================
