-------------------------- MODULE SegmentDelivery ---------------------------
(***************************************************************************)
(* Delivery of one Segment's exact ranking (lib/segment/src/segment/       *)
(* read_view/search.rs).  A rank state ranks internal offsets; delivery    *)
(* drops the invisible ones, maps the others to identities and reorders    *)
(* each group of equal scores by identity, which takes one point of        *)
(* lookahead.  The rank states are in DenseSegmentRank and                 *)
(* SparseSegmentRank.                                                      *)
(***************************************************************************)
EXTENDS ExactCall

CONSTANT Offsets     \* internal point offsets

VARIABLES
    external_id,      \* identity of every offset (id_tracker)
    visible,          \* offsets not deleted, deferred or filtered out
    internal_buffer,  \* ranked offsets pulled and not yet looked at
    lookahead,        \* {} or {first point of the next group}
    group,            \* points of the group being collected
    external_buffer,  \* the last group, ordered by identity
    ranked            \* points collected by next_batch_with

delivery_vars == <<internal_buffer, lookahead, group, external_buffer, asked,
                   output, emitted, status>>

DeliveryInit ==
    /\ external_id \in {f \in [Offsets -> Offsets] : \A a, b \in Offsets : f[a] = f[b] => a = b}
    /\ internal_buffer = <<>>
    /\ lookahead = {}
    /\ group = {}
    /\ external_buffer = <<>>
    /\ asked = 0
    /\ output = <<>>
    /\ emitted = <<>>
    /\ status = "open"

(* A ranked offset [idx, score] under its identity. *)
Externalize(r) == [id |-> external_id[r.idx], score |-> r.score]

ById(S) ==
    CHOOSE w \in [1..Cardinality(S) -> S] : \A i, j \in DOMAIN w : i < j => w[i].id < w[j].id

NextBatch(max_results) ==
    /\ status = "open"
    /\ asked = 0
    /\ asked' = max_results
    /\ UNCHANGED <<internal_buffer, lookahead, group, external_buffer, output,
                   emitted, status>>

Grouping ==
    /\ status = "open"
    /\ Len(output) < asked
    /\ external_buffer = <<>>

(* The rank state is asked for more. *)
WantsRanked ==
    /\ Grouping
    /\ internal_buffer = <<>>
    /\ group # {} \/ lookahead = {}

TakeLookahead ==
    /\ Grouping
    /\ group = {} /\ lookahead # {}
    /\ group' = lookahead
    /\ lookahead' = {}
    /\ UNCHANGED <<internal_buffer, external_buffer, asked, output, emitted, status>>

(* pull_visible hands the next visible point to the group or ends it. *)
TakeRanked ==
    /\ Grouping
    /\ internal_buffer # <<>>
    /\ group # {} \/ lookahead = {}
    /\ internal_buffer' = Tail(internal_buffer)
    /\ LET point == Externalize(Head(internal_buffer))
       IN  IF Head(internal_buffer).idx \notin visible
           THEN UNCHANGED <<lookahead, group, external_buffer>>
           ELSE IF \A p \in group : p.score = point.score
           THEN /\ group' = group \cup {point}
                /\ UNCHANGED <<lookahead, external_buffer>>
           ELSE /\ lookahead' = {point}
                /\ external_buffer' = ById(group)
                /\ group' = {}
    /\ UNCHANGED <<asked, output, emitted, status>>

ReturnBatch(points, end) ==
    /\ emitted' = emitted \o points
    /\ status' = IF end THEN "eof" ELSE "open"
    /\ asked' = 0
    /\ output' = <<>>

(* The rank state answers a request with answer, which is empty at its end. *)
ReceiveRanked(answer) ==
    /\ WantsRanked
    /\ IF answer # <<>>
       THEN /\ internal_buffer' = answer
            /\ UNCHANGED <<lookahead, group, external_buffer, asked, output,
                           emitted, status>>
       ELSE IF group # {}
       THEN /\ external_buffer' = ById(group)
            /\ group' = {}
            /\ UNCHANGED <<internal_buffer, lookahead, asked, output, emitted, status>>
       ELSE /\ ReturnBatch(output, output = <<>>)
            /\ UNCHANGED <<internal_buffer, lookahead, group, external_buffer>>

DrainGroup ==
    /\ status = "open"
    /\ Len(output) < asked
    /\ external_buffer # <<>>
    /\ LET count == IF asked - Len(output) < Len(external_buffer)
                    THEN asked - Len(output) ELSE Len(external_buffer)
       IN  /\ output' = output \o SubSeq(external_buffer, 1, count)
           /\ external_buffer' = SubSeq(external_buffer, count + 1, Len(external_buffer))
    /\ UNCHANGED <<internal_buffer, lookahead, group, asked, emitted, status>>

ReturnFullBatch ==
    /\ status = "open"
    /\ asked > 0 /\ Len(output) = asked
    /\ ReturnBatch(output, FALSE)
    /\ UNCHANGED <<internal_buffer, lookahead, group, external_buffer>>

(* The consumer (module ExactShardMerge) never asks again after an error. *)
FailDelivery ==
    /\ status' = "failed"
    /\ asked' = 0
    /\ output' = <<>>
    /\ UNCHANGED <<internal_buffer, lookahead, group, external_buffer, emitted>>

Delivery ==
    \/ \E n \in MaxResults : NextBatch(n)
    \/ TakeLookahead
    \/ TakeRanked
    \/ DrainGroup
    \/ ReturnFullBatch
=============================================================================
