--------------------------- MODULE KWayExactScore ---------------------------
(***************************************************************************)
(* KWayExactScoreStream: one channel's global order, merged from the exact *)
(* score streams of the Shards (lib/segment/src/index/                     *)
(* exact_rank_stream.rs).  Each Shard stream keeps the contract of module  *)
(* ExactStream or is caught breaking it; its replies may be shorter than   *)
(* asked and may announce the end together with the last point or alone.   *)
(***************************************************************************)
EXTENDS MergeSources

CONSTANTS
    Shards,         \* the sources, numbered from 1
    Streams,        \* the sequences of scored points a source may yield
    RefillSize      \* source_refill_batch_size

ASSUME KWayAssumption ==
    /\ Cardinality(Shards) > 0
    /\ RefillSize \in Nat \ {0}

VARIABLES
    exhausted,      \* per source, the end has been announced
    refill_source,  \* sources that owe the heap a new head
    opened          \* construction has finished

kway_source_vars == <<content, fetched, taken, exhausted, head, refill_source, opened>>

kway_vars == <<kway_source_vars, seen, asked, output, emitted, status>>

\* Type invariant of the K-way merge: every head is the last point taken
\* from its Shard, and only stored copies are emitted.
KWayTypeOK ==
    /\ content \in [Shards -> Streams]
    /\ exhausted \in [Shards -> BOOLEAN]
    /\ \A s \in Shards :
           /\ fetched[s] \in 0..Len(content[s])
           /\ taken[s] \in 0..fetched[s]
           /\ exhausted[s] => fetched[s] = Len(content[s])
           /\ head[s] # {} => taken[s] > 0 /\ head[s] = {content[s][taken[s]]}
    /\ refill_source \subseteq Shards
    /\ opened \in BOOLEAN
    /\ seen \subseteq {p.id : p \in Copies}
    /\ asked \in MaxResults \cup {0}
    /\ Elements(output) \cup Elements(emitted) \subseteq Copies
    /\ status \in {"open", "eof", "failed"}

(* Construction owes the heap one head from every source. *)
KWayInit ==
    /\ content \in [Shards -> Streams]
    /\ fetched = [s \in Shards |-> 0]
    /\ taken = [s \in Shards |-> 0]
    /\ exhausted = [s \in Shards |-> FALSE]
    /\ head = [s \in Shards |-> {}]
    /\ refill_source = Shards
    /\ opened = FALSE
    /\ seen = {}
    /\ asked = 0
    /\ output = <<>>
    /\ emitted = <<>>
    /\ status = "open"

-----------------------------------------------------------------------------
(* refill *)

NeedsReply(s) == fetched[s] = taken[s] /\ ~exhausted[s]

(* The replies of a source: how many points, and whether it ends there. *)
Replies(s) ==
    LET rest == Len(content[s]) - taken[s]
    IN  {[n |-> n, last |-> last] : n \in 0..(IF rest < RefillSize THEN rest ELSE RefillSize),
                                    last \in BOOLEAN}

(* An end is only announced at the end; a full reply need not announce it. *)
IsPossible(s, reply) == reply.last => taken[s] + reply.n = Len(content[s])

(* The whole reply is validated before it is buffered. *)
KWayIsValidReply(s, reply) ==
    /\ reply.n > 0 \/ reply.last
    /\ \A i \in (taken[s] + 1)..(taken[s] + reply.n) :
           /\ content[s][i].score # NonFinite
           /\ i > 1 => \/ Before(content[s][i - 1], content[s][i])
                       \/ /\ content[s][i].id = content[s][i - 1].id
                          /\ content[s][i].score = content[s][i - 1].score
           /\ content[s][i].id \notin seen
           /\ \A j \in (taken[s] + 1)..(i - 1) : content[s][j].id # content[s][i].id

PopHead(s, available) ==
    IF available > taken[s]
    THEN /\ head' = [head EXCEPT ![s] = {content[s][taken[s] + 1]}]
         /\ taken' = [taken EXCEPT ![s] = @ + 1]
    ELSE UNCHANGED <<head, taken>>

(* Sources are primed one by one at construction; later a source is only
   refilled when a call wants another point. *)
Owes(s) ==
    /\ status = "open"
    /\ ~opened \/ Len(output) < asked
    /\ s \in refill_source
    /\ \A t \in refill_source : s <= t

RefillFromReply(s) ==
    /\ Owes(s)
    /\ NeedsReply(s)
    /\ \E reply \in Replies(s) :
           /\ IsPossible(s, reply)
           /\ KWayIsValidReply(s, reply)
           /\ fetched' = [fetched EXCEPT ![s] = taken[s] + reply.n]
           /\ exhausted' = [exhausted EXCEPT ![s] = reply.last]
           /\ PopHead(s, taken[s] + reply.n)
    /\ refill_source' = refill_source \ {s}
    /\ UNCHANGED <<content, opened, seen, asked, output, emitted, status>>

RefillFromBuffer(s) ==
    /\ Owes(s)
    /\ ~NeedsReply(s)
    /\ PopHead(s, fetched[s])
    /\ refill_source' = refill_source \ {s}
    /\ UNCHANGED <<content, opened, fetched, exhausted, seen, asked, output, emitted, status>>

-----------------------------------------------------------------------------
(* next_rank_batch and next_inner *)

Ready == status = "open" /\ refill_source = {}

NextRankBatch(max_results) ==
    /\ status = "open"
    /\ asked = 0
    /\ opened \/ refill_source = {}
    /\ opened' = TRUE
    /\ asked' = max_results
    /\ UNCHANGED <<content, fetched, taken, exhausted, head, refill_source,
                   seen, output, emitted, status>>

KWayAbove(s, t) ==
    LET p == PointOf(s)
        q == PointOf(t)
    IN  \/ Before(p, q)
        \/ p.score = q.score /\ p.id = q.id /\ s < t

KWayTop == CHOOSE s \in Pending : \A t \in Pending \ {s} : KWayAbove(s, t)

(* The source of the point is refilled only when the next one is wanted. *)
KWayEmitPoint ==
    /\ Ready
    /\ Len(output) < asked
    /\ Pending # {}
    /\ PointOf(KWayTop).id \notin seen
    /\ refill_source' = {KWayTop}
    /\ head' = [head EXCEPT ![KWayTop] = {}]
    /\ seen' = seen \cup {PointOf(KWayTop).id}
    /\ output' = Append(output, PointOf(KWayTop))
    /\ UNCHANGED <<content, fetched, taken, exhausted, opened, asked, emitted, status>>

(* Faulty variant: an empty heap is the end even while a refill is owed. *)
ReturnBatchWithoutRefill ==
    /\ status = "open"
    /\ asked > 0
    /\ Len(output) = asked \/ Pending = {}
    /\ emitted' = emitted \o output
    /\ status' = IF Len(output) < asked THEN "eof" ELSE "open"
    /\ asked' = 0
    /\ output' = <<>>
    /\ UNCHANGED <<kway_source_vars, seen>>

KWayReturnBatch ==
    /\ status = "open"
    /\ asked > 0
    /\ Len(output) = asked \/ (refill_source = {} /\ Pending = {})
    /\ emitted' = emitted \o output
    /\ status' = IF Len(output) < asked THEN "eof" ELSE "open"
    /\ asked' = 0
    /\ output' = <<>>
    /\ UNCHANGED <<kway_source_vars, seen>>

KWayFailTerminally ==
    /\ status' = "failed"
    /\ head' = [s \in Shards |-> {}]
    /\ refill_source' = {}
    /\ asked' = 0
    /\ output' = <<>>
    /\ UNCHANGED <<content, fetched, taken, exhausted, opened, seen, emitted>>

SourceFails(s) ==
    /\ Owes(s)
    /\ NeedsReply(s)
    /\ KWayFailTerminally

KWayRejectReply(s) ==
    /\ Owes(s)
    /\ NeedsReply(s)
    /\ \E reply \in Replies(s) : IsPossible(s, reply) /\ ~KWayIsValidReply(s, reply)
    /\ KWayFailTerminally

RejectDuplicate ==
    /\ Ready
    /\ Len(output) < asked
    /\ Pending # {}
    /\ PointOf(KWayTop).id \in seen
    /\ KWayFailTerminally

(* A consumer does not call again after the end or an error. *)
KWayClosed == status # "open" /\ UNCHANGED kway_vars

KWayNext ==
    \/ \E s \in Shards : RefillFromReply(s)
    \/ \E s \in Shards : RefillFromBuffer(s)
    \/ \E s \in Shards : SourceFails(s)
    \/ \E s \in Shards : KWayRejectReply(s)
    \/ \E n \in MaxResults : NextRankBatch(n)
    \/ KWayEmitPoint
    \/ KWayReturnBatch
    \/ RejectDuplicate
    \/ KWayClosed

KWaySpec == KWayInit /\ [][KWayNext]_kway_vars

-----------------------------------------------------------------------------
(* Every source yields its points in order and no point has two copies. *)
KWaySound ==
    /\ \A s \in Shards : Ordered(content[s])
    /\ \A p \in Copies : p.score # NonFinite
    /\ \A s, t \in Shards : s # t =>
           \A p \in Elements(content[s]) : \A q \in Elements(content[t]) : p.id # q.id
=============================================================================
