----------------------------- MODULE DynamicRrf -----------------------------
(***************************************************************************)
(* DynamicRrfState: incremental fusion of rank-ordered sources that stops  *)
(* as soon as the first top_k places can no longer change.  The schedule   *)
(* of pulls and of certification attempts is left open here; module        *)
(* DynamicRrfSession fixes it.                                             *)
(***************************************************************************)
EXTENDS RrfScoring

CONSTANT MaxTopK    \* largest prefix a caller asks for

ASSUME TopKAssumption == MaxTopK \in Nat

VARIABLES
    ranking,         \* what each source's stream yields when read to its end
    next_positions,  \* per source, the zero-based rank expected next
    exhausted,       \* per source, the end of the stream has been observed
    contributions,   \* per point and source, the contribution or Absent
    top_k,           \* length of the requested prefix
    answers          \* every execution returned so far: [k, point_ids]

vars == <<ranking, next_positions, exhausted, contributions, top_k, answers>>

Absent == -1

observed == {p \in Points : \E s \in Sources : contributions[p][s] # Absent}

\* Type invariant of DynamicRrfState: positions, exhaustion marks
\* and contributions per point and source, with the answers returned so far.
TypeOK ==
    /\ ranking \in [Sources -> Rankings]
    /\ next_positions \in [Sources -> 0..MaxRank]
    /\ exhausted \in [Sources -> BOOLEAN]
    /\ contributions \in [Points -> [Sources -> Contributions \cup {Absent}]]
    /\ top_k \in 0..MaxTopK
    /\ \A a \in answers : a.k \in 0..MaxTopK /\ a.point_ids \in Seq(Points)

Init ==
    /\ ranking \in [Sources -> Rankings]
    /\ next_positions = [s \in Sources |-> 0]
    /\ exhausted = [s \in Sources |-> FALSE]
    /\ contributions = [p \in Points |-> [s \in Sources |-> Absent]]
    /\ top_k \in 0..MaxTopK
    /\ answers = {}

-----------------------------------------------------------------------------
(***************************************************************************)
(* What a pull may return.  A well-behaved stream returns the next ranks.  *)
(* A restarted or repeating one returns other ranks under their own number *)
(* or already delivered ones under the expected number, or one point       *)
(* twice.  "exhausted" is only claimed at the end of the ranking, but      *)
(* reaching the end need not be announced by the batch that reaches it.    *)
(***************************************************************************)
Slice(s, from, n) == [i \in 1..n |-> ranking[s][from + i]]

Envelope(start, ids, end) ==
    [start_rank |-> start, point_ids |-> ids, exhausted |-> end]

TruthfulBatches(s, from) ==
    {b \in {Envelope(from, Slice(s, from, n), end) :
                n \in 0..(Len(ranking[s]) - from), end \in BOOLEAN} :
        b.exhausted => from + Len(b.point_ids) = Len(ranking[s])}

RelabelledBatches(s, from) ==
    {Envelope(next_positions[s], b.point_ids, b.exhausted) :
        b \in TruthfulBatches(s, from)}

StutteringBatches(s, from) ==
    {Envelope(from, Append(b.point_ids, b.point_ids[1]), b.exhausted) :
        b \in {c \in TruthfulBatches(s, from) : c.point_ids # <<>>}}

Deliveries(s) ==
    UNION {     TruthfulBatches(s, from)
           \cup StutteringBatches(s, from)
           \cup (IF from < next_positions[s] THEN RelabelledBatches(s, from) ELSE {})
          : from \in 0..Len(ranking[s])}

(* Faulty variant of the validation: no check that a batch makes progress. *)
IsValidBatchEmpty(s, batch) ==
    /\ ~exhausted[s]
    /\ batch.start_rank = next_positions[s]
    /\ IsRanking(batch.point_ids)
    /\ \A i \in DOMAIN batch.point_ids :
           contributions[batch.point_ids[i]][s] = Absent

(* observe_batch validates the whole envelope before it changes anything. *)
IsValidBatch(s, batch) ==
    /\ ~exhausted[s]
    /\ batch.start_rank = next_positions[s]
    /\ batch.point_ids # <<>> \/ batch.exhausted
    /\ IsRanking(batch.point_ids)
    /\ \A i \in DOMAIN batch.point_ids :
           contributions[batch.point_ids[i]][s] = Absent

ObserveBatch(s, batch) ==
    /\ IsValidBatch(s, batch)
    /\ contributions' = [p \in Points |-> [t \in Sources |->
           IF t = s /\ p \in IdsOf(batch.point_ids)
           THEN PositionScore(s, batch.start_rank + PositionOf(batch.point_ids, p) - 1)
           ELSE contributions[p][t]]]
    /\ next_positions' = [next_positions EXCEPT ![s] = @ + Len(batch.point_ids)]
    /\ exhausted' = [exhausted EXCEPT ![s] = @ \/ batch.exhausted]
    /\ UNCHANGED <<ranking, top_k, answers>>

-----------------------------------------------------------------------------

all_sources_exhausted == \A s \in Sources : exhausted[s]

(* The best contribution a point not yet seen in s can still get from it;
   0 stands for None of an exhausted source. *)
NextPossibleContribution(s) ==
    IF exhausted[s] THEN 0 ELSE PositionScore(s, next_positions[s])

UnseenUpperBound == Fuse([s \in Sources |-> NextPossibleContribution(s)])

LowerBound(p) ==
    Fuse([s \in Sources |->
        IF contributions[p][s] = Absent THEN 0 ELSE contributions[p][s]])

(* Faulty variant: a missing contribution counts as nothing. *)
UpperBoundWithoutMissing(p) == LowerBound(p)

UpperBound(p) ==
    Fuse([s \in Sources |->
        IF contributions[p][s] = Absent
        THEN NextPossibleContribution(s)
        ELSE contributions[p][s]])

(* w takes the RrfOrder-least point by lower bound from S, again and again. *)
SelectsBest(w, S) ==
    /\ IsRanking(w)
    /\ IdsOf(w) \subseteq S
    /\ \A i \in DOMAIN w : \A q \in S \ Prefix(w, i) :
           RrfOrder(w[i], LowerBound(w[i]), q, LowerBound(q))

CompleteTopK(w) ==
    LET positive == {p \in observed : LowerBound(p) > 0}
    IN  /\ SelectsBest(w, positive)
        /\ Len(w) <= top_k
        /\ Len(w) < top_k => positive \subseteq IdsOf(w)

(* Faulty variant: a winner may tie with a point never seen. *)
WinnersMayTieUnseen(w) ==
    \A i \in DOMAIN w :
        /\ LowerBound(w[i]) >= UnseenUpperBound
        /\ \A q \in observed \ Prefix(w, i) :
               GuaranteedBefore(w[i], LowerBound(w[i]), q, UpperBound(q))

WinnersAreSafe(w) ==
    \A i \in DOMAIN w :
        /\ LowerBound(w[i]) > UnseenUpperBound
        /\ \A q \in observed \ Prefix(w, i) :
               GuaranteedBefore(w[i], LowerBound(w[i]), q, UpperBound(q))

(* fixed_top_k returns Some(w). *)
FixedTopK(w) ==
    \/ top_k = 0 /\ w = <<>>
    \/ all_sources_exhausted /\ CompleteTopK(w)
    \/ /\ ~all_sources_exhausted
       /\ Len(w) = top_k
       /\ SelectsBest(w, observed)
       /\ WinnersAreSafe(w)

Prefixes == UNION {[1..n -> Points] : n \in 0..top_k}

Certify ==
    \E w \in Prefixes :
        /\ FixedTopK(w)
        /\ answers' = answers \cup {[k |-> top_k, point_ids |-> w]}
        /\ UNCHANGED <<ranking, next_positions, exhausted, contributions, top_k>>

ExtendTopK(k) ==
    /\ k >= top_k
    /\ top_k' = k
    /\ UNCHANGED <<ranking, next_positions, exhausted, contributions, answers>>

(* The replacement is accepted when it replays the observed ranks. *)
ReplaceSource(s, replacement) ==
    /\ ~exhausted[s]
    /\ Len(replacement) >= next_positions[s]
    /\ \A i \in 1..next_positions[s] : replacement[i] = ranking[s][i]
    /\ ranking' = [ranking EXCEPT ![s] = replacement]
    /\ UNCHANGED <<next_positions, exhausted, contributions, top_k, answers>>

Next ==
    \/ \E s \in Sources : \E b \in Deliveries(s) : ObserveBatch(s, b)
    \/ Certify
    \/ \E k \in 0..MaxTopK : ExtendTopK(k)
    \/ \E s \in Sources : \E r \in Rankings : ReplaceSource(s, r)

Spec == Init /\ [][Next]_vars

-----------------------------------------------------------------------------
(* Every answer ever returned is the exhaustive weighted-RRF Top-K of what
   the sources hold, although most of it was never read: before the pulls
   that follow it, after them, and after a source has been replaced by any
   stream that agrees on the observed ranks (fixed_top_k, replace_source). *)
AnswersAreExact ==
    \A a \in answers : IsExactTopK(ranking, a.point_ids, a.k)

(* Extending the prefix of a recoverable session never contradicts what it
   has already returned: of two answers the shorter is a prefix of the
   longer (extend_top_k: "already certified ranks remain valid"). *)
AnswersAreNested ==
    \A a, b \in answers :
        a.k <= b.k =>
            /\ Len(a.point_ids) <= Len(b.point_ids)
            /\ \A i \in DOMAIN a.point_ids : a.point_ids[i] = b.point_ids[i]

(* Rejected envelopes leave no trace and accepted ones are the next ranks:
   the contributions are exactly those of the observed prefixes, and a
   source counts as exhausted only at the end of its ranking. *)
ObservationsAreTruthful ==
    \A s \in Sources :
        /\ next_positions[s] <= Len(ranking[s])
        /\ exhausted[s] => next_positions[s] = Len(ranking[s])
        /\ \A i \in 1..next_positions[s] :
               contributions[ranking[s][i]][s] = PositionScore(s, i - 1)
        /\ \A p \in Points : contributions[p][s] # Absent =>
               \E i \in 1..next_positions[s] : ranking[s][i] = p
=============================================================================
