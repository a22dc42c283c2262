------------------------- MODULE SparseSegmentRank --------------------------
(***************************************************************************)
(* PostingBlockMaxState (lib/sparse/src/index/posting_block_max): exact    *)
(* ranking of sparse vectors from posting lists.  The offsets are cut into *)
(* ranges, each with an upper bound on the score of its documents, and a   *)
(* range is scored only when its bound could still come first.             *)
(***************************************************************************)
EXTENDS SegmentDelivery

CONSTANTS
    Terms,          \* query terms, numbered from 1
    QueryWeight,    \* finite non-negative weight of every term
    Impacts,        \* per term its stored weights, 0 for a document without it
    BatchWidth,     \* posting_batch_size: width of a range, points per request
    MaxOffset       \* largest offset

ASSUME SparseAssumption ==
    /\ Offsets = 0..MaxOffset
    /\ BatchWidth \in Nat \ {0}
    /\ Terms = 1..Cardinality(Terms)
    /\ QueryWeight \in [Terms -> Nat]
    /\ DOMAIN Impacts = Terms

VARIABLES
    impact,           \* per term and offset, the stored weight
    one_chunk,        \* block maxima cover whole posting lists, not ranges
    pending_batches,  \* ranges not yet scored
    pending_points,   \* offsets scored and not yet ranked
    is_stopped        \* the shared cancellation flag

index_vars == <<impact, one_chunk>>

sparse_vars == <<external_id, visible, delivery_vars, index_vars, pending_batches,
          pending_points, ranked, is_stopped>>

-----------------------------------------------------------------------------
(* score_posting_batch *)

Total(f) ==
    LET Sum[t \in 0..Cardinality(Terms)] == IF t = 0 THEN 0 ELSE Sum[t - 1] + f[t]
    IN  Sum[Cardinality(Terms)]

Score(o) == Total([t \in Terms |-> QueryWeight[t] * impact[t][o]])

(* plan_batches *)

Postings == {o \in Offsets : \E t \in Terms : impact[t][o] # 0}

FirstOffset == CHOOSE o \in Postings : \A p \in Postings : o <= p

LastOffset == CHOOSE o \in Postings : \A p \in Postings : p <= o

(* Faulty variant: only stored weights count, not the zero of an absent term. *)
MaxImpactStoredOnly(t, S) ==
    LET stored == {impact[t][o] : o \in S} \ {0}
    IN  IF stored = {} THEN 0 ELSE CHOOSE m \in stored : \A n \in stored : n <= m

(* Zero is part of every envelope. *)
MaxImpact(t, S) ==
    LET stored == {impact[t][o] : o \in S} \cup {0}
    IN  CHOOSE m \in stored : \A n \in stored : n <= m

UpperBound(start, end) ==
    Total([t \in Terms |->
        QueryWeight[t] * MaxImpact(t, IF one_chunk THEN Offsets ELSE start..end)])

Ranges ==
    {[start |-> start,
      end |-> IF start + BatchWidth - 1 < LastOffset THEN start + BatchWidth - 1 ELSE LastOffset] :
        start \in {o \in FirstOffset..LastOffset : (o - FirstOffset) % BatchWidth = 0}}

PlanBatches ==
    IF Postings = {} THEN {}
    ELSE {[start |-> r.start, end |-> r.end, upper_bound |-> UpperBound(r.start, r.end)] :
            r \in {q \in Ranges : UpperBound(q.start, q.end) > 0}}

-----------------------------------------------------------------------------

SparseInit ==
    /\ DeliveryInit
    /\ impact \in {f \in [Terms -> [Offsets -> UNION {Impacts[t] : t \in Terms}]] :
                     \A t \in Terms : f[t] \in [Offsets -> Impacts[t]]}
    /\ one_chunk \in BOOLEAN
    /\ visible \in SUBSET Offsets
    /\ pending_batches = PlanBatches
    /\ pending_points = {}
    /\ ranked = <<>>
    /\ is_stopped = FALSE

TopPoint ==
    CHOOSE o \in pending_points : \A p \in pending_points \ {o} :
        Score(o) > Score(p) \/ (Score(o) = Score(p) /\ o < p)

TopBatch ==
    CHOOSE b \in pending_batches : \A c \in pending_batches \ {b} :
        \/ b.upper_bound > c.upper_bound
        \/ b.upper_bound = c.upper_bound /\ b.start < c.start

(* Faulty variant: a point before the next range is taken for fixed. *)
NextPointIsFixedByOffset ==
    /\ pending_points # {}
    /\ pending_batches # {} =>
           Score(TopPoint) > TopBatch.upper_bound \/ TopPoint < TopBatch.start

NextPointIsFixed ==
    /\ pending_points # {}
    /\ pending_batches # {} =>
           \/ Score(TopPoint) > TopBatch.upper_bound
           \/ Score(TopPoint) = TopBatch.upper_bound /\ TopPoint < TopBatch.start

SparseRankPoint ==
    /\ WantsRanked
    /\ Len(ranked) < BatchWidth
    /\ NextPointIsFixed
    /\ ranked' = Append(ranked, [idx |-> TopPoint, score |-> Score(TopPoint)])
    /\ pending_points' = pending_points \ {TopPoint}
    /\ UNCHANGED <<external_id, visible, delivery_vars, index_vars, pending_batches, is_stopped>>

(* A range is scored only when nothing has been collected yet. *)
Expand ==
    /\ WantsRanked
    /\ ~NextPointIsFixed /\ pending_batches # {} /\ ranked = <<>>
    /\ LET scored == {o \in TopBatch.start..TopBatch.end : Score(o) # 0}
       IN  /\ \A o \in scored : Score(o) <= TopBatch.upper_bound
           /\ pending_points' = pending_points \cup scored
    /\ pending_batches' = pending_batches \ {TopBatch}
    /\ UNCHANGED <<external_id, visible, delivery_vars, index_vars, ranked, is_stopped>>

SparseAnswerRequest ==
    /\ WantsRanked
    /\ \/ Len(ranked) = BatchWidth
       \/ ~NextPointIsFixed /\ (ranked # <<>> \/ pending_batches = {})
    /\ ReceiveRanked(ranked)
    /\ ranked' = <<>>
    /\ UNCHANGED <<external_id, visible, index_vars, pending_batches, pending_points, is_stopped>>

(* The flag is read, with relaxed ordering, whenever pull_visible starts on a
   point and before a range is scored: any step may still miss it. *)
ObserveStop ==
    /\ is_stopped
    /\ Grouping /\ (group # {} \/ lookahead = {})
    /\ ranked' = <<>>
    /\ FailDelivery
    /\ UNCHANGED <<external_id, visible, index_vars, pending_batches, pending_points, is_stopped>>

(* The posting reader fails, or a score exceeds the bound of its range: the
   state is cleared and the error kept. *)
FailExpand ==
    /\ WantsRanked
    /\ ~NextPointIsFixed /\ pending_batches # {} /\ ranked = <<>>
    /\ pending_batches' = {}
    /\ pending_points' = {}
    /\ FailDelivery
    /\ UNCHANGED <<external_id, visible, index_vars, ranked, is_stopped>>

SparseCancel ==
    /\ ~is_stopped
    /\ is_stopped' = TRUE
    /\ UNCHANGED <<external_id, visible, delivery_vars, index_vars, pending_batches,
                   pending_points, ranked>>

SparseClosed == status # "open" /\ UNCHANGED sparse_vars

SparseNext ==
    \/ Delivery /\ UNCHANGED <<external_id, visible, index_vars, pending_batches,
                               pending_points, ranked, is_stopped>>
    \/ SparseRankPoint
    \/ Expand
    \/ SparseAnswerRequest
    \/ ObserveStop
    \/ FailExpand
    \/ SparseCancel
    \/ SparseClosed

SparseSpec == SparseInit /\ [][SparseNext]_sparse_vars

-----------------------------------------------------------------------------
(* Documents the query touches: a score of zero is no match. *)
SparseUniverse ==
    {[id |-> external_id[o], score |-> Score(o)] : o \in {v \in visible : Score(v) # 0}}

\* Type invariant of the sparse rank state: pending points and ranges come
\* from the plan, and only the Segment's points are delivered.
SparseTypeOK ==
    /\ pending_points \subseteq Postings
    /\ pending_batches \subseteq PlanBatches
    /\ Elements(emitted) \cup Elements(output) \cup group \cup lookahead \subseteq SparseUniverse
    /\ status \in {"open", "eof", "failed"}

(* Ranges whose bound is zero are dropped, so with negative stored weights a
   document with a negative score may be missing from the ranking. *)
Promised == {u \in SparseUniverse : u.score > 0}

Kept == SubSeq(emitted, 1, Cardinality({i \in DOMAIN emitted : emitted[i].score > 0}))

(* No document scores above the bound of its range. *)
BoundsAreAdmissible ==
    \A b \in pending_batches : \A o \in b.start..b.end : Score(o) <= b.upper_bound
=============================================================================
