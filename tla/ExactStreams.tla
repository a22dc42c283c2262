---------------------------- MODULE ExactStreams ----------------------------
(***************************************************************************)
(* The four layers that hand out an exact score stream, each shown to keep *)
(* the one promise its consumer builds on: the dense and the sparse rank   *)
(* of a Segment, the merge of the Segments of a Shard and the merge of the *)
(* Shards.  A behaviour is a behaviour of one layer; what belongs to the   *)
(* other layers stays at NoValue.                                          *)
(***************************************************************************)
EXTENDS DenseSegmentRank, SparseSegmentRank, ExactShardMerge, KWayExactScore

CONSTANT NoValue

VARIABLE layer      \* "dense", "sparse", "shard" or "kway"

dense_own == <<rank_vars, bounds, exact>>
sparse_own == <<index_vars, pending_batches, pending_points, is_stopped>>
segment_own == <<external_id, visible, internal_buffer, lookahead, group,
                 external_buffer, ranked>>
merge_own == <<content, fetched, taken, head, seen>>
shard_own == <<mode, eof, primed, stopped>>
kway_own == <<exhausted, refill_source, opened>>

NoDense ==
    /\ plan = NoValue /\ eligible = NoValue /\ score = NoValue /\ lower = NoValue
    /\ upper = NoValue /\ bounds = NoValue /\ exact = NoValue

NoSparse ==
    /\ impact = NoValue /\ one_chunk = NoValue /\ pending_batches = NoValue
    /\ pending_points = NoValue /\ is_stopped = NoValue

NoSegment ==
    /\ external_id = NoValue /\ visible = NoValue /\ internal_buffer = NoValue
    /\ lookahead = NoValue /\ group = NoValue /\ external_buffer = NoValue
    /\ ranked = NoValue

NoMerge ==
    /\ content = NoValue /\ fetched = NoValue /\ taken = NoValue
    /\ head = NoValue /\ seen = NoValue

NoShard == mode = NoValue /\ eof = NoValue /\ primed = NoValue /\ stopped = NoValue

NoKWay == exhausted = NoValue /\ refill_source = NoValue /\ opened = NoValue

Init ==
    \/ layer = "dense" /\ DenseInit /\ NoSparse /\ NoMerge /\ NoShard /\ NoKWay
    \/ layer = "sparse" /\ SparseInit /\ NoDense /\ NoMerge /\ NoShard /\ NoKWay
    \/ layer = "shard" /\ ShardInit /\ NoDense /\ NoSparse /\ NoSegment /\ NoKWay
    \/ layer = "kway" /\ KWayInit /\ NoDense /\ NoSparse /\ NoSegment /\ NoShard

Next ==
    \/ layer = "dense" /\ DenseNext /\ UNCHANGED <<layer, sparse_own, merge_own, shard_own, kway_own>>
    \/ layer = "sparse" /\ SparseNext /\ UNCHANGED <<layer, dense_own, merge_own, shard_own, kway_own>>
    \/ layer = "shard" /\ ShardNext /\ UNCHANGED <<layer, dense_own, sparse_own, segment_own, kway_own>>
    \/ layer = "kway" /\ KWayNext /\ UNCHANGED <<layer, dense_own, sparse_own, segment_own, shard_own>>

vars == <<layer, dense_own, sparse_own, segment_own, merge_own, shard_own, kway_own,
          asked, output, emitted, status>>

Spec == Init /\ [][Next]_vars

-----------------------------------------------------------------------------
\* Type invariant of whichever layer runs.
TypeOK ==
    /\ layer = "dense" => DenseTypeOK
    /\ layer = "sparse" => SparseTypeOK
    /\ layer = "shard" => ShardTypeOK
    /\ layer = "kway" => KWayTypeOK

Stream == INSTANCE ExactStream WITH
    universe <- CASE layer = "dense" -> DenseUniverse
                  [] layer = "sparse" -> Promised
                  [] OTHER -> Copies,
    sound <- CASE layer = "dense" -> DenseSound
               [] layer = "sparse" -> TRUE
               [] layer = "shard" -> ShardSound
               [] layer = "kway" -> KWaySound,
    emitted <- IF layer = "sparse" THEN Kept ELSE emitted

(* Every layer implements the exact score stream: it hands out its universe
   in exact order, ends only after the last point, and a failure (a rejected
   reply, a reader error, a cancellation, a broken certificate) is final and
   never taken for the end.  For a Segment the universe is its visible scored
   vectors, sparse ones with a positive score; for a merge it is the copies
   its sources hold, and sources that break their own contract are found out
   before an end is reported. *)
ImplementsExactStream == Stream!ExactStreamSpec

(* "This keeps the envelope admissible even if stored sparse impacts are
   negative" (decoded_chunk_max): no document scores above the bound of its
   range, so expand never sees a certificate violation. *)
EnvelopeIsAdmissible == layer = "sparse" => BoundsAreAdmissible
=============================================================================
