--------------------------- MODULE ExactShardMerge --------------------------
(***************************************************************************)
(* ExactShardMergeState: the exact score stream of one channel, merged     *)
(* across the frozen Segments of one Shard (lib/shard/src/                 *)
(* exact_shard_stream.rs), with its Segment sources read in batches and    *)
(* the exhaustive fallback source of exact_rank_fallback.rs.               *)
(***************************************************************************)
EXTENDS MergeSources

CONSTANTS
    Segments,       \* the Segment sources, numbered from 1
    Contents,       \* the sequences of scored points a Segment may yield
    BatchSize       \* batch_size of the continuation pulls

ASSUME MergeAssumption == BatchSize \in Nat \ {0}

VARIABLES
    mode,       \* per Segment, "Exact" or "ExhaustiveFallback"
    eof,        \* per Segment, the last reply announced the end
    primed,     \* number of Segments that have been asked for their head
    stopped     \* the shared cancellation flag

shard_source_vars == <<content, mode, fetched, taken, eof, head, primed>>

shard_vars == <<shard_source_vars, seen, asked, output, emitted, stopped, status>>

SegmentCount == Cardinality(Segments)

\* Type invariant of ExactShardSession: every head comes from what its
\* Segment delivered, and only stored copies are emitted.
ShardTypeOK ==
    /\ content \in [Segments -> Contents]
    /\ mode \in [Segments -> {"Exact", "ExhaustiveFallback"}]
    /\ eof \in [Segments -> BOOLEAN]
    /\ \A s \in Segments :
           /\ taken[s] \in 0..fetched[s]
           /\ fetched[s] \in 0..Len(content[s])
           /\ head[s] \in {{}} \cup {{content[s][i]} : i \in 1..taken[s]}
    /\ primed \in 0..SegmentCount
    /\ seen \subseteq {p.id : p \in Copies}
    /\ asked \in MaxResults \cup {0}
    /\ Elements(output) \cup Elements(emitted) \subseteq Copies
    /\ stopped \in BOOLEAN
    /\ status \in {"open", "eof", "failed"}

ShardInit ==
    /\ content \in [Segments -> Contents]
    /\ mode \in [Segments -> {"Exact", "ExhaustiveFallback"}]
    /\ fetched = [s \in Segments |-> 0]
    /\ taken = [s \in Segments |-> 0]
    /\ eof = [s \in Segments |-> FALSE]
    /\ head = [s \in Segments |-> {}]
    /\ primed = 0
    /\ seen = {}
    /\ asked = 0
    /\ output = <<>>
    /\ emitted = <<>>
    /\ stopped = FALSE
    /\ status = "open"

-----------------------------------------------------------------------------
(* SegmentScoreSource::pop, which pull_source pushes into the heap. *)

Buffered(s) == fetched[s] > taken[s]

(* Number of points in hand after the reply to a pull of limit points. *)
Fetch(s, limit) ==
    IF Buffered(s) \/ eof[s] THEN fetched[s]
    ELSE IF taken[s] + limit <= Len(content[s]) THEN taken[s] + limit
    ELSE Len(content[s])

EofAfter(s, limit) ==
    IF Buffered(s) \/ eof[s] THEN eof[s]
    ELSE IF mode[s] = "Exact"
         THEN Fetch(s, limit) = taken[s]
         ELSE Fetch(s, limit) = Len(content[s])

(* validate_source_batch, starting from the previously popped point. *)
ShardIsValidReply(s, limit) ==
    \A i \in (taken[s] + 1)..Fetch(s, limit) :
        /\ content[s][i].score # NonFinite
        /\ i > 1 => \/ content[s][i].id = content[s][i - 1].id
                       /\ content[s][i].score = content[s][i - 1].score
                    \/ Before(content[s][i - 1], content[s][i])

PullSources(S, limit) ==
    /\ fetched' = [s \in Segments |-> IF s \in S THEN Fetch(s, limit) ELSE fetched[s]]
    /\ eof' = [s \in Segments |-> IF s \in S THEN EofAfter(s, limit) ELSE eof[s]]
    /\ taken' = [s \in Segments |->
           IF s \in S /\ Fetch(s, limit) > taken[s] THEN taken[s] + 1 ELSE taken[s]]
    /\ head' = [s \in Segments |->
           IF s \notin S THEN head[s]
           ELSE IF Fetch(s, limit) > taken[s] THEN {content[s][taken[s] + 1]}
           ELSE {}]

(* ExactShardMergeState::open asks every Segment for one point. *)
PrimeSource ==
    /\ status = "open"
    /\ primed < SegmentCount
    /\ ShardIsValidReply(primed + 1, 1)
    /\ PullSources({primed + 1}, 1)
    /\ primed' = primed + 1
    /\ UNCHANGED <<content, mode, seen, asked, output, emitted, stopped, status>>

ShardNextBatch(max_results) ==
    /\ status = "open"
    /\ primed = SegmentCount
    /\ asked = 0
    /\ asked' = max_results
    /\ UNCHANGED <<shard_source_vars, seen, output, emitted, stopped, status>>

-----------------------------------------------------------------------------
(* next_inner *)

(* Faulty variant: equal scores come out by descending identity. *)
AboveLargerIdentity(s, t) ==
    LET p == PointOf(s)
        q == PointOf(t)
    IN  \/ p.score > q.score \/ (p.score = q.score /\ p.id > q.id)
        \/ /\ p.score = q.score /\ p.id = q.id
           /\ p.version > q.version \/ (p.version = q.version /\ s < t)

(* The order of the heap. *)
ShardAbove(s, t) ==
    LET p == PointOf(s)
        q == PointOf(t)
    IN  \/ Before(p, q)
        \/ /\ p.score = q.score /\ p.id = q.id
           /\ p.version > q.version \/ (p.version = q.version /\ s < t)

ShardTop == CHOOSE s \in Pending : \A t \in Pending \ {s} : ShardAbove(s, t)

(* The sources whose heads are copies of the point on top. *)
Contributing ==
    {s \in Pending : /\ PointOf(s).id = PointOf(ShardTop).id
                     /\ PointOf(s).score = PointOf(ShardTop).score}

InCall == asked > 0 /\ status = "open"

VersionsAgree == \A s \in Contributing : PointOf(s).version = PointOf(ShardTop).version

ShardEmitPoint ==
    /\ InCall
    /\ Len(output) < asked
    /\ ~stopped
    /\ Pending # {}
    /\ VersionsAgree
    /\ \A s \in Contributing : ShardIsValidReply(s, BatchSize)
    /\ PointOf(ShardTop).id \notin seen
    /\ PullSources(Contributing, BatchSize)
    /\ seen' = seen \cup {PointOf(ShardTop).id}
    /\ output' = Append(output, PointOf(ShardTop))
    /\ UNCHANGED <<content, mode, primed, asked, emitted, stopped, status>>

ShardReturnBatch ==
    /\ InCall
    /\ Len(output) = asked \/ (Pending = {} /\ ~stopped)
    /\ emitted' = emitted \o output
    /\ status' = IF Len(output) < asked THEN "eof" ELSE "open"
    /\ asked' = 0
    /\ output' = <<>>
    /\ UNCHANGED <<shard_source_vars, seen, stopped>>

(* An error drops the points collected so far and is kept for good. *)
ShardFailTerminally ==
    /\ status' = "failed"
    /\ head' = [s \in Segments |-> {}]
    /\ asked' = 0
    /\ output' = <<>>
    /\ UNCHANGED <<content, mode, fetched, taken, eof, primed, seen, emitted, stopped>>

(* A Segment reader fails, in open or while a head is replaced. *)
ReaderFails ==
    /\ status = "open"
    /\ \/ primed < SegmentCount
       \/ InCall /\ Len(output) < asked /\ ~stopped /\ Pending # {} /\ VersionsAgree
    /\ ShardFailTerminally

ShardRejectReply ==
    /\ \/ status = "open" /\ primed < SegmentCount /\ ~ShardIsValidReply(primed + 1, 1)
       \/ /\ InCall /\ Len(output) < asked /\ ~stopped /\ Pending # {} /\ VersionsAgree
          /\ \E s \in Contributing : ~ShardIsValidReply(s, BatchSize)
    /\ ShardFailTerminally

RejectPoint ==
    /\ InCall /\ Len(output) < asked /\ ~stopped /\ Pending # {}
    /\ ~VersionsAgree \/ PointOf(ShardTop).id \in seen
    /\ ShardFailTerminally

ObserveCancellation ==
    /\ InCall /\ Len(output) < asked /\ stopped
    /\ ShardFailTerminally

ShardCancel ==
    /\ ~stopped
    /\ stopped' = TRUE
    /\ UNCHANGED <<shard_source_vars, seen, asked, output, emitted, status>>

(* A consumer does not call again after the end or an error. *)
ShardClosed == status # "open" /\ UNCHANGED shard_vars

ShardNext ==
    \/ PrimeSource
    \/ \E n \in MaxResults : ShardNextBatch(n)
    \/ ShardEmitPoint
    \/ ShardReturnBatch
    \/ ReaderFails
    \/ ShardRejectReply
    \/ RejectPoint
    \/ ObserveCancellation
    \/ ShardCancel
    \/ ShardClosed

ShardSpec == ShardInit /\ [][ShardNext]_shard_vars

-----------------------------------------------------------------------------
(* The copies of the frozen generation agree, and every Segment yields its
   own in order. *)
ShardSound ==
    /\ \A s \in Segments : Ordered(content[s])
    /\ \A p \in Copies : p.score # NonFinite
    /\ \A p, q \in Copies : p.id = q.id => p = q
=============================================================================
