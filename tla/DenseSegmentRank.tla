-------------------------- MODULE DenseSegmentRank --------------------------
(***************************************************************************)
(* DenseRankState (lib/segment/src/index/dense_rank_state/core.rs): exact  *)
(* ranking of a Segment's vectors from certified score intervals, scoring  *)
(* exactly only the vectors whose interval could still come first, or from *)
(* a full exact scan.                                                      *)
(***************************************************************************)
EXTENDS SegmentDelivery

CONSTANTS
    Scores,         \* exact scores and interval ends
    RefineBatch,    \* exact_refine_batch
    InternalBatch   \* max_results.max(16): ranked points per request

ASSUME DenseAssumption == RefineBatch \in Nat \ {0} /\ InternalBatch \in Nat \ {0}

VARIABLES
    plan,       \* "Certificate" or "ExactScan"
    eligible,   \* the offsets ranked, fixed when the state is opened
    score,      \* exact score of every offset, as the scorer will compute it
    lower,      \* certified interval of every offset
    upper,
    bounds,     \* offsets in the heap "bounds": not yet scored exactly
    exact       \* offsets in the heap "exact": scored and not yet emitted

rank_vars == <<plan, eligible, score, lower, upper>>

dense_vars == <<external_id, visible, delivery_vars, rank_vars, bounds, exact, ranked>>

DenseUniverse == {[id |-> external_id[o], score |-> score[o]] : o \in eligible}

Certified == \A o \in eligible : lower[o] <= score[o] /\ score[o] <= upper[o]

DenseSound ==
    /\ \A o \in eligible : score[o] # NonFinite
    /\ plan = "Certificate" => Certified

(* Bounds are ordered intervals over exactly the eligible offsets. *)
DenseInit ==
    /\ DeliveryInit
    /\ plan \in {"Certificate", "ExactScan"}
    /\ eligible \in SUBSET Offsets
    /\ visible = eligible
    /\ score \in [Offsets -> Scores \cup {NonFinite}]
    /\ lower \in [Offsets -> Scores]
    /\ upper \in [Offsets -> Scores]
    /\ \A o \in Offsets : lower[o] <= upper[o]
    /\ bounds = eligible
    /\ exact = {}
    /\ ranked = <<>>

-----------------------------------------------------------------------------

OffsetBefore(a, x, b, y) == x > y \/ (x = y /\ a < b)

TopExact == CHOOSE o \in exact : \A p \in exact \ {o} : OffsetBefore(o, score[o], p, score[p])

TopBound == CHOOSE o \in bounds : \A p \in bounds \ {o} : OffsetBefore(o, upper[o], p, upper[p])

(* Faulty variant: compares with the lower end of the unscored interval. *)
NextIsFixedAgainstLower ==
    /\ exact # {}
    /\ bounds # {} => OffsetBefore(TopExact, score[TopExact], TopBound, lower[TopBound])

(* The best scored offset cannot be overtaken by an unscored one. *)
NextIsFixed ==
    /\ exact # {}
    /\ bounds # {} => OffsetBefore(TopExact, score[TopExact], TopBound, upper[TopBound])

Ranking == WantsRanked /\ Len(ranked) < InternalBatch

(* The first request of an exact scan scores everything. *)
ScanAll ==
    /\ Ranking
    /\ plan = "ExactScan" /\ bounds # {}
    /\ \A o \in bounds : score[o] # NonFinite
    /\ exact' = bounds
    /\ bounds' = {}
    /\ UNCHANGED <<external_id, visible, delivery_vars, rank_vars, ranked>>

(* The RefineBatch best bounds. *)
ToRefine ==
    CHOOSE S \in SUBSET bounds :
        /\ Cardinality(S) = IF Cardinality(bounds) < RefineBatch
                            THEN Cardinality(bounds) ELSE RefineBatch
        /\ \A o \in S : \A p \in bounds \ S : OffsetBefore(o, upper[o], p, upper[p])

HoldsInterval(o) == lower[o] <= score[o] /\ score[o] <= upper[o]

RefineBounds ==
    /\ Ranking
    /\ plan = "Certificate" /\ ~NextIsFixed /\ bounds # {}
    /\ \A o \in ToRefine : score[o] # NonFinite /\ HoldsInterval(o)
    /\ bounds' = bounds \ ToRefine
    /\ exact' = exact \cup ToRefine
    /\ UNCHANGED <<external_id, visible, delivery_vars, rank_vars, ranked>>

DenseRankPoint ==
    /\ Ranking
    /\ NextIsFixed
    /\ ranked' = Append(ranked, [idx |-> TopExact, score |-> score[TopExact]])
    /\ exact' = exact \ {TopExact}
    /\ UNCHANGED <<external_id, visible, delivery_vars, rank_vars, bounds>>

DenseAnswerRequest ==
    /\ Len(ranked) = InternalBatch \/ (bounds = {} /\ exact = {})
    /\ ReceiveRanked(ranked)
    /\ ranked' = <<>>
    /\ UNCHANGED <<external_id, visible, rank_vars, bounds, exact>>

(* A non-finite score or a broken certificate. *)
RejectScore ==
    /\ Ranking
    /\ bounds # {}
    /\ \/ plan = "ExactScan" /\ \E o \in bounds : score[o] = NonFinite
       \/ /\ plan = "Certificate" /\ ~NextIsFixed
          /\ \E o \in ToRefine : score[o] = NonFinite \/ ~HoldsInterval(o)
    /\ bounds' = IF plan = "Certificate" THEN bounds \ ToRefine ELSE bounds
    /\ ranked' = <<>>
    /\ FailDelivery
    /\ UNCHANGED <<external_id, visible, rank_vars, exact>>

DenseClosed == status # "open" /\ UNCHANGED dense_vars

DenseNext ==
    \/ Delivery /\ UNCHANGED <<external_id, visible, rank_vars, bounds, exact, ranked>>
    \/ ScanAll
    \/ RefineBounds
    \/ DenseRankPoint
    \/ DenseAnswerRequest
    \/ RejectScore
    \/ DenseClosed

DenseSpec == DenseInit /\ [][DenseNext]_dense_vars

-----------------------------------------------------------------------------
\* Type invariant of the rank state: an eligible offset is either
\* bounded or scored, and only the Segment's points are delivered.
DenseTypeOK ==
    /\ bounds \subseteq eligible
    /\ exact \subseteq eligible \ bounds
    /\ Elements(emitted) \cup Elements(output) \cup group \cup lookahead \subseteq DenseUniverse
    /\ status \in {"open", "eof", "failed"}
=============================================================================
