-------------------------- MODULE DynamicRrf_proofs -------------------------
(***************************************************************************)
(* Certification is sound for every number of sources, every set of        *)
(* points, every weight vector and every schedule of pulls.                *)
(***************************************************************************)
EXTENDS DynamicRrfSession, WellFoundedInduction, TLAPS, FiniteSetTheorems

(* The strengthening of AnswersAreExact: an answer stays guaranteed by the
   bounds of the current state. *)
Guaranteed(w, k) ==
    /\ w \in Seq(Points)
    /\ IsRanking(w)
    /\ IdsOf(w) \subseteq observed
    /\ WinnersAreSafe(w)
    /\ Len(w) <= k
    /\ Len(w) < k => /\ all_sources_exhausted
                     /\ {p \in observed : LowerBound(p) > 0} \subseteq IdsOf(w)

AnswersAreGuaranteed ==
    \A a \in answers : a.k \in 0..MaxTopK /\ Guaranteed(a.point_ids, a.k)

IInv ==
    /\ TypeOK
    /\ ObservationsAreTruthful
    /\ AnswersAreGuaranteed

-----------------------------------------------------------------------------

(* A ranking is a sequence of at most MaxRank points without repetition. *)
LEMMA RankingFacts ==
    ASSUME NEW r \in Rankings
    PROVE  /\ r \in Seq(Points)
           /\ Len(r) \in 0..MaxRank
           /\ DOMAIN r = 1..Len(r)
           /\ IsRanking(r)
<1>1. PICK n \in 0..MaxRank : r \in [1..n -> Points]
  BY Zenon DEF Rankings
<1>2. n \in Nat
  BY RankAssumption
<1>3. r \in Seq(Points) /\ Len(r) = n
  BY <1>1, <1>2
<1> QED
  BY Zenon, <1>1, <1>3 DEF Rankings

(* In a list without repetition the position of r[i] is i. *)
LEMMA PositionUnique ==
    ASSUME NEW r, IsRanking(r), NEW i \in DOMAIN r
    PROVE  PositionOf(r, r[i]) = i
BY Zenon DEF PositionOf, IsRanking

(* PositionScore yields a contribution, a natural number. *)
LEMMA ScoreFacts ==
    ASSUME NEW s \in Sources, NEW i \in 0..MaxRank
    PROVE  /\ PositionScore(s, i) \in Contributions
           /\ PositionScore(s, i) \in Nat
           /\ PositionScore(s, i) # Absent
BY PositionScoreAssumption, RankAssumption DEF Contributions, Absent

\* Contributions are natural scores, and none of them is the mark of a missing
\* one (position_score).
LEMMA ContributionFacts ==
    /\ 0 \in Contributions
    /\ \A c \in Contributions : c \in Nat /\ 0 <= c
    /\ Absent \notin Contributions
BY PositionScoreAssumption, RankAssumption DEF Contributions, Absent

(* What a point finally gets from a source lies between its two bounds. *)
LEMMA ContributionBounds ==
    ASSUME TypeOK, ObservationsAreTruthful, NEW p \in Points, NEW s \in Sources
    PROVE  /\ FullContribution(ranking, p, s) \in Contributions
           /\ NextPossibleContribution(s) \in Contributions
           /\ contributions[p][s] # Absent =>
                 /\ FullContribution(ranking, p, s) = contributions[p][s]
                 /\ contributions[p][s] \in Contributions
           /\ contributions[p][s] = Absent =>
                 FullContribution(ranking, p, s) <= NextPossibleContribution(s)
<1> DEFINE r == ranking[s]
           n == next_positions[s]
<1>1. r \in Rankings /\ n \in 0..MaxRank
  BY Zenon DEF TypeOK
<1>2. /\ r \in Seq(Points) /\ Len(r) \in 0..MaxRank /\ DOMAIN r = 1..Len(r)
      /\ IsRanking(r)
  BY Zenon, <1>1, RankingFacts
<1>3. /\ n <= Len(r)
      /\ exhausted[s] => n = Len(r)
      /\ \A i \in 1..n : contributions[r[i]][s] = PositionScore(s, i - 1)
      /\ contributions[p][s] # Absent => \E i \in 1..n : r[i] = p
  BY Zenon DEF ObservationsAreTruthful
<1>4. NextPossibleContribution(s) \in Contributions
  BY Zenon, <1>1, ScoreFacts, ContributionFacts DEF NextPossibleContribution
<1>5. CASE p \notin IdsOf(r)
  <2>1. FullContribution(ranking, p, s) = 0
    BY Zenon, <1>5 DEF FullContribution
  <2>2. contributions[p][s] = Absent
    BY <1>1, <1>2, <1>3, <1>5, RankAssumption DEF IdsOf
  <2>3. 0 <= NextPossibleContribution(s)
    BY Zenon, <1>4, ContributionFacts
  <2> QED
    BY Zenon, <2>1, <2>2, <2>3, <1>4, ContributionFacts DEF Absent
<1>6. CASE p \in IdsOf(r)
  <2>1. PICK i \in DOMAIN r : r[i] = p
    BY Zenon, <1>6 DEF IdsOf
  <2>2. i \in 1..Len(r) /\ i - 1 \in 0..MaxRank
    BY <1>2, <2>1, RankAssumption
  <2>3. FullContribution(ranking, p, s) = PositionScore(s, i - 1)
    BY Zenon, <1>2, <1>6, <2>1, PositionUnique DEF FullContribution
  <2>4. PositionScore(s, i - 1) \in Contributions /\ PositionScore(s, i - 1) # Absent
    BY Zenon, <2>2, ScoreFacts
  <2>5. CASE i <= n
    <3>1. contributions[p][s] = PositionScore(s, i - 1)
      BY <1>1, <1>3, <2>1, <2>2, <2>5, RankAssumption
    <3> QED
      BY Zenon, <1>4, <2>3, <2>4, <3>1
  <2>6. CASE i > n
    <3>1. contributions[p][s] = Absent
      <4>1. SUFFICES ASSUME NEW j \in 1..n, r[j] = p
                     PROVE  FALSE
        BY Zenon, <1>3
      <4>2. j \in DOMAIN r /\ j # i
        BY <1>1, <1>2, <1>3, <2>2, <2>6, RankAssumption
      <4> QED
        BY Zenon, <1>2, <2>1, <4>1, <4>2 DEF IsRanking
    <3>2. ~exhausted[s]
      BY <1>1, <1>2, <1>3, <2>2, <2>6, RankAssumption
    <3>3. PositionScore(s, i - 1) <= PositionScore(s, n)
      BY <1>1, <2>2, <2>6, PositionScoreAssumption, RankAssumption
    <3> QED
      BY Zenon, <1>4, <2>3, <2>4, <3>1, <3>2, <3>3, ContributionFacts
         DEF NextPossibleContribution
  <2> QED
    BY <1>1, <2>2, <2>5, <2>6, RankAssumption
<1> QED
  BY Zenon, <1>5, <1>6

(* The vectors that the bounds sum, as members of the domain of Fuse. *)
LEMMA BoundFacts ==
    ASSUME TypeOK, ObservationsAreTruthful, NEW p \in Points
    PROVE  /\ LowerBound(p) \in Nat /\ UpperBound(p) \in Nat
           /\ RrfScore(ranking, p) \in Nat /\ UnseenUpperBound \in Nat
           /\ LowerBound(p) <= RrfScore(ranking, p)
           /\ RrfScore(ranking, p) <= UpperBound(p)
           /\ p \notin observed => UpperBound(p) = UnseenUpperBound
           /\ all_sources_exhausted => LowerBound(p) = UpperBound(p)
           /\ all_sources_exhausted => UnseenUpperBound = 0
           /\ p \notin observed => LowerBound(p) = 0
<1> DEFINE lo == [s \in Sources |->
                    IF contributions[p][s] = Absent THEN 0 ELSE contributions[p][s]]
           up == [s \in Sources |->
                    IF contributions[p][s] = Absent THEN NextPossibleContribution(s)
                                                    ELSE contributions[p][s]]
           full == [s \in Sources |-> FullContribution(ranking, p, s)]
           next == [s \in Sources |-> NextPossibleContribution(s)]
<1>1. /\ lo \in [Sources -> Contributions]
      /\ up \in [Sources -> Contributions]
      /\ full \in [Sources -> Contributions]
      /\ next \in [Sources -> Contributions]
  BY Zenon, ContributionBounds, ContributionFacts
<1>2. ASSUME NEW s \in Sources
      PROVE  lo[s] <= full[s] /\ full[s] <= up[s]
  <2>1. full[s] \in Nat /\ 0 <= full[s] /\ full[s] = FullContribution(ranking, p, s)
    BY Zenon, ContributionBounds, ContributionFacts
  <2>2. CASE contributions[p][s] = Absent
    BY Zenon, <2>1, <2>2, ContributionBounds
  <2>3. CASE contributions[p][s] # Absent
    BY <2>1, <2>3, ContributionBounds
  <2> QED
    BY Zenon, <2>2, <2>3
<1>3. /\ LowerBound(p) = Fuse(lo) /\ UpperBound(p) = Fuse(up)
      /\ RrfScore(ranking, p) = Fuse(full) /\ UnseenUpperBound = Fuse(next)
  BY Zenon DEF LowerBound, UpperBound, RrfScore, UnseenUpperBound
<1>4. p \notin observed => up = next /\ lo = [s \in Sources |-> 0]
  BY Zenon DEF observed
<1>5. all_sources_exhausted => lo = up /\ next = [s \in Sources |-> 0]
  BY Zenon DEF all_sources_exhausted, NextPossibleContribution
<1> HIDE DEF lo, up, full, next
<1>6. Fuse(lo) \in Nat /\ Fuse(up) \in Nat /\ Fuse(full) \in Nat /\ Fuse(next) \in Nat
  BY Zenon, <1>1, FuseAssumption
<1>7. Fuse(lo) <= Fuse(full) /\ Fuse(full) <= Fuse(up)
  BY Zenon, <1>1, <1>2, FuseAssumption
<1>8. Fuse([s \in Sources |-> 0]) = 0
  BY Zenon, FuseAssumption
<1>9. p \notin observed => Fuse(up) = Fuse(next) /\ Fuse(lo) = 0
  BY Zenon, <1>4, <1>8
<1>10. all_sources_exhausted => Fuse(lo) = Fuse(up) /\ Fuse(next) = 0
  BY Zenon, <1>5, <1>8
<1> QED
  BY Zenon, <1>3, <1>6, <1>7, <1>9, <1>10

(* A guaranteed answer is the exhaustive Top-K. *)
LEMMA GuaranteedIsExact ==
    ASSUME TypeOK, ObservationsAreTruthful,
           NEW w, NEW k \in Nat, Guaranteed(w, k)
    PROVE  IsExactTopK(ranking, w, k)
<1>1. /\ w \in Seq(Points) /\ IsRanking(w) /\ Len(w) <= k
      /\ IdsOf(w) \subseteq observed
  BY Zenon DEF Guaranteed
<1>2. ASSUME NEW i \in DOMAIN w
      PROVE  /\ w[i] \in Points
             /\ LowerBound(w[i]) > UnseenUpperBound
             /\ \A q \in observed \ Prefix(w, i) :
                   GuaranteedBefore(w[i], LowerBound(w[i]), q, UpperBound(q))
  BY <1>1, <1>2 DEF Guaranteed, WinnersAreSafe
<1>3. IdsOf(w) \subseteq Scored(ranking)
  BY <1>2, BoundFacts DEF IdsOf, Scored
<1>4. ASSUME NEW i \in DOMAIN w, NEW q \in Scored(ranking) \ Prefix(w, i)
      PROVE  RrfOrder(w[i], RrfScore(ranking, w[i]), q, RrfScore(ranking, q))
  <2>1. q \in Points /\ w[i] \in Points
    BY Zenon, <1>2 DEF Scored
  <2>4. /\ LowerBound(w[i]) \in Nat /\ RrfScore(ranking, w[i]) \in Nat
        /\ LowerBound(w[i]) <= RrfScore(ranking, w[i])
        /\ UpperBound(q) \in Nat /\ RrfScore(ranking, q) \in Nat
        /\ RrfScore(ranking, q) <= UpperBound(q)
    BY Zenon, <2>1, BoundFacts
  <2>2. CASE q \in observed
    <3>1. GuaranteedBefore(w[i], LowerBound(w[i]), q, UpperBound(q))
      BY Zenon, <1>2, <1>4, <2>2
    <3> QED
      BY <2>4, <3>1 DEF GuaranteedBefore, RrfOrder
  <2>3. CASE q \notin observed
    BY <1>2, <2>1, <2>3, <2>4, BoundFacts DEF RrfOrder
  <2> QED
    BY Zenon, <2>2, <2>3
<1>5. ASSUME Len(w) < k
      PROVE  Scored(ranking) \subseteq IdsOf(w)
  <2>1. all_sources_exhausted /\ {p \in observed : LowerBound(p) > 0} \subseteq IdsOf(w)
    BY Zenon, <1>5 DEF Guaranteed
  <2>2. ASSUME NEW p \in Scored(ranking)
        PROVE  p \in observed /\ LowerBound(p) > 0
    BY <2>1, <2>2, BoundFacts DEF Scored
  <2> QED
    BY Zenon, <2>1, <2>2
<1> QED
  BY Zenon, <1>1, <1>3, <1>4, <1>5 DEF IsExactTopK

-----------------------------------------------------------------------------
(* What fixed_top_k returns is guaranteed by the state it was computed in. *)
LEMMA FixedIsGuaranteed ==
    ASSUME TypeOK, ObservationsAreTruthful, NEW w \in Prefixes, FixedTopK(w)
    PROVE  Guaranteed(w, top_k)
<1>1. PICK n \in 0..top_k : w \in [1..n -> Points]
  BY Zenon DEF Prefixes
<1>2. top_k \in Nat /\ n \in Nat
  BY TopKAssumption DEF TypeOK
<1>3. w \in Seq(Points) /\ DOMAIN w = 1..n /\ Len(w) = n
  BY <1>1, <1>2
<1>4. CASE top_k = 0 /\ w = <<>>
  BY <1>4 DEF Guaranteed, IsRanking, IdsOf, WinnersAreSafe
<1>5. CASE all_sources_exhausted /\ CompleteTopK(w)
  <2> DEFINE positive == {p \in observed : LowerBound(p) > 0}
  <2>1. /\ SelectsBest(w, positive) /\ Len(w) <= top_k
        /\ Len(w) < top_k => positive \subseteq IdsOf(w)
    BY Zenon, <1>5 DEF CompleteTopK
  <2>2. ASSUME NEW i \in DOMAIN w
        PROVE  /\ LowerBound(w[i]) > UnseenUpperBound
               /\ \A q \in observed \ Prefix(w, i) :
                     GuaranteedBefore(w[i], LowerBound(w[i]), q, UpperBound(q))
    <3>1. w[i] \in positive /\ w[i] \in Points
      BY Zenon, <2>1 DEF SelectsBest, IdsOf, observed
    <3>2. LowerBound(w[i]) > UnseenUpperBound
      BY Zenon, <1>5, <3>1, BoundFacts
    <3>3. ASSUME NEW q \in observed \ Prefix(w, i)
          PROVE  GuaranteedBefore(w[i], LowerBound(w[i]), q, UpperBound(q))
      <4>1. q \in Points /\ LowerBound(q) = UpperBound(q) /\ LowerBound(q) \in Nat
        BY Zenon, <1>5, BoundFacts DEF observed
      <4>2. CASE LowerBound(q) > 0
        <5>1. RrfOrder(w[i], LowerBound(w[i]), q, LowerBound(q))
          BY Zenon, <2>1, <3>3, <4>2 DEF SelectsBest
        <5> QED
          BY Zenon, <4>1, <5>1 DEF RrfOrder, GuaranteedBefore
      <4>3. CASE LowerBound(q) = 0
        BY Zenon, <3>1, <4>1, <4>3 DEF GuaranteedBefore
      <4> QED
        BY <4>1, <4>2, <4>3
    <3> QED
      BY Zenon, <3>2, <3>3
  <2> QED
    BY Zenon, <1>3, <1>5, <2>1, <2>2 DEF Guaranteed, WinnersAreSafe, SelectsBest
<1>6. CASE /\ ~all_sources_exhausted /\ Len(w) = top_k
           /\ SelectsBest(w, observed) /\ WinnersAreSafe(w)
  BY <1>2, <1>3, <1>6 DEF Guaranteed, SelectsBest
<1> QED
  BY Zenon, <1>4, <1>5, <1>6 DEF FixedTopK

(* A batch that passes the validation is the next slice of the ranking. *)
LEMMA ValidIsTruthful ==
    ASSUME TypeOK, ObservationsAreTruthful,
           NEW s \in Sources, NEW b \in Deliveries(s), IsValidBatch(s, b)
    PROVE  /\ b.start_rank = next_positions[s]
           /\ \E n \in 0..(Len(ranking[s]) - next_positions[s]) :
                 b.point_ids = Slice(s, next_positions[s], n)
           /\ b.exhausted \in BOOLEAN
           /\ b.exhausted =>
                 next_positions[s] + Len(b.point_ids) = Len(ranking[s])
<1> DEFINE r == ranking[s]
           np == next_positions[s]
<1>1. r \in Rankings /\ np \in 0..MaxRank /\ np <= Len(r)
  BY Zenon DEF TypeOK, ObservationsAreTruthful
<1>2. r \in Seq(Points) /\ Len(r) \in 0..MaxRank /\ DOMAIN r = 1..Len(r) /\ Len(r) \in Nat /\ np \in Nat
  BY <1>1, RankingFacts, RankAssumption
<1>3. /\ b.start_rank = np
      /\ b.point_ids # <<>> \/ b.exhausted
      /\ IsRanking(b.point_ids)
      /\ \A i \in DOMAIN b.point_ids : contributions[b.point_ids[i]][s] = Absent
  BY Zenon DEF IsValidBatch
<1>4. PICK from \in 0..Len(r) :
         \/ b \in TruthfulBatches(s, from)
         \/ b \in StutteringBatches(s, from)
         \/ from < np /\ b \in RelabelledBatches(s, from)
  BY Zenon DEF Deliveries
<1>5. CASE b \in TruthfulBatches(s, from)
  BY <1>3, <1>5 DEF TruthfulBatches, Envelope
<1>6. CASE b \in StutteringBatches(s, from)
  <2>1. PICK c \in TruthfulBatches(s, from) :
           c.point_ids # <<>> /\ b.point_ids = Append(c.point_ids, c.point_ids[1])
    BY <1>6 DEF StutteringBatches, Envelope
  <2>2. PICK n \in 0..(Len(r) - from) : c.point_ids = Slice(s, from, n)
    BY <2>1 DEF TruthfulBatches, Envelope
  <2>3. n \in Nat /\ c.point_ids \in Seq(Points) /\ Len(c.point_ids) = n /\ n > 0
    BY <1>2, <2>1, <2>2 DEF Slice
  <2>4. 1 \in DOMAIN b.point_ids /\ n + 1 \in DOMAIN b.point_ids
        /\ b.point_ids[1] = b.point_ids[n + 1]
    BY <2>1, <2>3
  <2> QED
    BY <1>3, <2>3, <2>4 DEF IsRanking
<1>7. CASE from < np /\ b \in RelabelledBatches(s, from)
  <2>1. PICK c \in TruthfulBatches(s, from) :
           b.point_ids = c.point_ids /\ b.exhausted = c.exhausted
    BY <1>7 DEF RelabelledBatches, Envelope
  <2>2. PICK n \in 0..(Len(r) - from) : c.point_ids = Slice(s, from, n)
    BY <2>1 DEF TruthfulBatches, Envelope
  <2>3. c.exhausted => from + Len(c.point_ids) = Len(r)
    BY <2>1 DEF TruthfulBatches
  <2>4. n \in Nat /\ Len(c.point_ids) = n /\ DOMAIN c.point_ids = 1..n
    BY <1>2, <2>2 DEF Slice
  <2>5. n > 0
    <3>1. n = 0 => c.point_ids = <<>>
      BY <2>2 DEF Slice
    <3> QED
      BY <1>1, <1>2, <1>3, <1>7, <2>1, <2>3, <2>4, <3>1
  <2>6. b.point_ids[1] = r[from + 1] /\ 1 \in DOMAIN b.point_ids
    BY <2>1, <2>2, <2>4, <2>5 DEF Slice
  <2>7. contributions[r[from + 1]][s] = PositionScore(s, from)
    BY <1>2, <1>7 DEF ObservationsAreTruthful
  <2>8. PositionScore(s, from) # Absent
    BY <1>2, <1>7, ScoreFacts, RankAssumption
  <2> QED
    BY Zenon, <1>3, <2>6, <2>7, <2>8
<1> QED
  BY Zenon, <1>4, <1>5, <1>6, <1>7

-----------------------------------------------------------------------------
(* An accepted batch adds the next n ranks of one source and nothing else. *)
LEMMA ObserveEffect ==
    ASSUME TypeOK, ObservationsAreTruthful,
           NEW s \in Sources, NEW b \in Deliveries(s), ObserveBatch(s, b)
    PROVE  \E n \in 0..(Len(ranking[s]) - next_positions[s]) :
             /\ ~exhausted[s]
             /\ next_positions' = [next_positions EXCEPT ![s] = next_positions[s] + n]
             /\ exhausted' \in [Sources -> BOOLEAN]
             /\ \A t \in Sources : t # s => exhausted'[t] = exhausted[t]
             /\ exhausted'[s] => next_positions[s] + n = Len(ranking[s])
             /\ contributions' \in [Points -> [Sources -> Contributions \cup {Absent}]]
             /\ \A p \in Points : \A t \in Sources \ {s} :
                   contributions'[p][t] = contributions[p][t]
             /\ \A i \in (next_positions[s] + 1)..(next_positions[s] + n) :
                   contributions'[ranking[s][i]][s] = PositionScore(s, i - 1)
             /\ \A p \in Points :
                   (\A i \in (next_positions[s] + 1)..(next_positions[s] + n) : ranking[s][i] # p)
                      => contributions'[p][s] = contributions[p][s]
<1> DEFINE r == ranking[s]
           np == next_positions[s]
<1>1. IsValidBatch(s, b) /\ ~exhausted[s]
  BY Zenon DEF ObserveBatch, IsValidBatch
<1>2. /\ r \in Rankings /\ np \in 0..MaxRank /\ np <= Len(r)
      /\ contributions \in [Points -> [Sources -> Contributions \cup {Absent}]]
      /\ exhausted \in [Sources -> BOOLEAN]
      /\ next_positions \in [Sources -> 0..MaxRank]
  BY Zenon DEF TypeOK, ObservationsAreTruthful
<1>3. /\ r \in Seq(Points) /\ Len(r) \in 0..MaxRank /\ DOMAIN r = 1..Len(r)
      /\ Len(r) \in Nat /\ np \in Nat /\ IsRanking(r)
  BY <1>2, RankingFacts, RankAssumption
<1>4. /\ b.start_rank = np /\ b.exhausted \in BOOLEAN
      /\ b.exhausted => np + Len(b.point_ids) = Len(r)
  BY Zenon, <1>1, ValidIsTruthful
<1>5. PICK n \in 0..(Len(r) - np) : b.point_ids = Slice(s, np, n)
  BY Zenon, <1>1, ValidIsTruthful
<1> DEFINE ids == b.point_ids
<1>6. /\ n \in Nat /\ DOMAIN ids = 1..n /\ Len(ids) = n
      /\ \A i \in 1..n : ids[i] = r[np + i]
  BY <1>3, <1>5 DEF Slice
<1>7. IsRanking(ids)
  BY Zenon, <1>1 DEF IsValidBatch
<1>8. /\ next_positions' = [next_positions EXCEPT ![s] = np + n]
      /\ exhausted' = [exhausted EXCEPT ![s] = exhausted[s] \/ b.exhausted]
  BY Zenon, <1>6 DEF ObserveBatch
<1>9. contributions' = [p \in Points |-> [t \in Sources |->
           IF t = s /\ p \in IdsOf(ids)
           THEN PositionScore(s, np + PositionOf(ids, p) - 1)
           ELSE contributions[p][t]]]
  BY Zenon, <1>4 DEF ObserveBatch
<1>10. ASSUME NEW i \in (np + 1)..(np + n)
       PROVE  contributions'[r[i]][s] = PositionScore(s, i - 1)
  <2>0. i \in 1..Len(r) /\ i - np \in 1..n /\ np + (i - np) = i
    BY <1>3, <1>6
  <2>1. i - np \in DOMAIN ids /\ ids[i - np] = r[i] /\ r[i] \in Points
    BY <1>3, <1>6, <2>0
  <2>2. PositionOf(ids, r[i]) = i - np /\ r[i] \in IdsOf(ids)
    BY Zenon, <1>7, <2>1, PositionUnique DEF IdsOf
  <2>3. contributions'[r[i]][s] = PositionScore(s, np + PositionOf(ids, r[i]) - 1)
    BY Zenon, <1>9, <2>1, <2>2
  <2>4. np + (i - np) - 1 = i - 1
    BY <1>3
  <2> QED
    BY Zenon, <2>2, <2>3, <2>4
<1>11. ASSUME NEW p \in Points, p \in IdsOf(ids)
       PROVE  /\ \E i \in (np + 1)..(np + n) : r[i] = p
              /\ contributions'[p][s] \in Contributions
  <2>1. PICK j \in DOMAIN ids : ids[j] = p
    BY Zenon, <1>11 DEF IdsOf
  <2>2. j \in 1..n /\ r[np + j] = p
    BY Zenon, <1>6, <2>1
  <2>4. np + j \in (np + 1)..(np + n) /\ np + j - 1 \in 0..MaxRank
    BY <1>3, <1>6, <2>2, RankAssumption, SMTT(20)
  <2>5. PICK i \in (np + 1)..(np + n) : i = np + j
    BY Zenon, <2>4
  <2>6. r[i] = p /\ i - 1 \in 0..MaxRank
    BY <1>3, <1>6, <2>2, <2>4, <2>5
  <2>7. contributions'[p][s] = PositionScore(s, i - 1)
    BY Zenon, <1>10, <2>6
  <2> QED
    BY Zenon, <2>6, <2>7, ScoreFacts
<1>12. ASSUME NEW p \in Points, NEW t \in Sources
       PROVE  ~(t = s /\ p \in IdsOf(ids)) => contributions'[p][t] = contributions[p][t]
  BY Zenon, <1>9
<1>13. contributions' \in [Points -> [Sources -> Contributions \cup {Absent}]]
  <2>1. ASSUME NEW p \in Points, NEW t \in Sources
        PROVE  contributions'[p][t] \in Contributions \cup {Absent}
    BY <1>2, <1>11, <1>12
  <2> QED
    BY Zenon, <1>9, <2>1
<1>14. ASSUME NEW p \in Points,
              \A i \in (np + 1)..(np + n) : r[i] # p
       PROVE  contributions'[p][s] = contributions[p][s]
  BY Zenon, <1>11, <1>12, <1>14
<1>15. /\ exhausted' \in [Sources -> BOOLEAN]
       /\ \A t \in Sources : t # s => exhausted'[t] = exhausted[t]
       /\ exhausted'[s] => np + n = Len(r)
  BY Zenon, <1>1, <1>2, <1>4, <1>6, <1>8
<1>16. \A p \in Points : \A t \in Sources \ {s} :
          contributions'[p][t] = contributions[p][t]
  BY Zenon, <1>12
<1> HIDE DEF ids
<1> QED
  BY <1>1, <1>8, <1>10, <1>13, <1>14, <1>15, <1>16, Zenon

(* Reading on raises lower bounds, lowers upper bounds and the bound of the
   unseen points, and forgets no point. *)
LEMMA ObserveMonotone ==
    ASSUME TypeOK, ObservationsAreTruthful, TypeOK', ObservationsAreTruthful',
           NEW s \in Sources, NEW b \in Deliveries(s), ObserveBatch(s, b)
    PROVE  /\ UnseenUpperBound' \in Nat /\ UnseenUpperBound' <= UnseenUpperBound
           /\ observed \subseteq observed'
           /\ \A p \in Points :
                 /\ LowerBound(p)' \in Nat /\ LowerBound(p) <= LowerBound(p)'
                 /\ UpperBound(p)' \in Nat /\ UpperBound(p)' <= UpperBound(p)
<1> DEFINE np == next_positions[s]
           r == ranking[s]
<1>1. PICK n \in 0..(Len(r) - np) :
             /\ ~exhausted[s]
             /\ next_positions' = [next_positions EXCEPT ![s] = np + n]
             /\ \A t \in Sources : t # s => exhausted'[t] = exhausted[t]
             /\ \A p \in Points : \A t \in Sources \ {s} :
                   contributions'[p][t] = contributions[p][t]
             /\ \A i \in (np + 1)..(np + n) :
                   contributions'[r[i]][s] = PositionScore(s, i - 1)
             /\ \A p \in Points :
                   (\A i \in (np + 1)..(np + n) : r[i] # p)
                      => contributions'[p][s] = contributions[p][s]
  BY Zenon, ObserveEffect
<1>2. /\ r \in Rankings /\ np \in 0..MaxRank /\ np <= Len(r)
      /\ next_positions \in [Sources -> 0..MaxRank]
      /\ contributions \in [Points -> [Sources -> Contributions \cup {Absent}]]
      /\ contributions' \in [Points -> [Sources -> Contributions \cup {Absent}]]
  BY Zenon DEF TypeOK, ObservationsAreTruthful
<1>3. /\ Len(r) \in 0..MaxRank /\ DOMAIN r = 1..Len(r) /\ Len(r) \in Nat
      /\ np \in Nat /\ n \in Nat /\ np + n \in 0..MaxRank /\ IsRanking(r)
  BY <1>2, RankingFacts, RankAssumption
<1>4. ASSUME NEW t \in Sources
      PROVE  NextPossibleContribution(t)' <= NextPossibleContribution(t)
  <2>1. CASE t = s
    <3>1. NextPossibleContribution(s) = PositionScore(s, np)
      BY Zenon, <1>1 DEF NextPossibleContribution
    <3>2. NextPossibleContribution(s)' \in {0, PositionScore(s, np + n)}
      BY Zenon, <1>1, <1>2 DEF NextPossibleContribution
    <3>3. PositionScore(s, np + n) <= PositionScore(s, np) /\ 0 <= PositionScore(s, np)
      BY <1>2, <1>3, PositionScoreAssumption, RankAssumption
    <3> QED
      BY Zenon, <2>1, <3>1, <3>2, <3>3
  <2>2. CASE t # s
    <3>1. NextPossibleContribution(t)' = NextPossibleContribution(t)
      BY Zenon, <1>1, <1>2, <2>2 DEF NextPossibleContribution
    <3>2. NextPossibleContribution(t) \in Nat
      <4>1. next_positions[t] \in 0..MaxRank
        BY Zenon, <1>2
      <4> QED
        BY Zenon, <4>1, ScoreFacts DEF NextPossibleContribution
    <3> QED
      BY <3>1, <3>2
  <2> QED
    BY Zenon, <2>1, <2>2
<1>5. ASSUME NEW p \in Points, NEW t \in Sources
      PROVE  /\ contributions[p][t] # Absent => contributions'[p][t] = contributions[p][t]
             /\ contributions[p][t] = Absent /\ contributions'[p][t] # Absent =>
                   contributions'[p][t] <= NextPossibleContribution(t)
  <2>1. CASE t # s
    BY Zenon, <1>1, <2>1
  <2>2. CASE t = s /\ \A i \in (np + 1)..(np + n) : r[i] # p
    BY Zenon, <1>1, <2>2
  <2>3. CASE t = s /\ \E i \in (np + 1)..(np + n) : r[i] = p
    <3>1. PICK i \in (np + 1)..(np + n) : r[i] = p
      BY Zenon, <2>3
    <3>2. i \in 1..Len(r) /\ i - 1 \in 0..MaxRank /\ np <= i - 1 /\ i > np
      BY <1>3, <3>1, RankAssumption
    <3>3. contributions'[p][s] = PositionScore(s, i - 1)
      BY Zenon, <1>1, <3>1
    <3>4. PositionScore(s, i - 1) <= NextPossibleContribution(s)
      BY <1>1, <1>2, <3>2, PositionScoreAssumption, RankAssumption DEF NextPossibleContribution
    <3>5. contributions[p][s] = Absent
      <4>1. SUFFICES ASSUME NEW j \in 1..np, r[j] = p
                     PROVE  FALSE
        BY DEF ObservationsAreTruthful
      <4>2. j \in DOMAIN r /\ i \in DOMAIN r /\ i # j
        BY <1>2, <1>3, <3>2
      <4> QED
        BY Zenon, <1>3, <3>1, <4>1, <4>2 DEF IsRanking
    <3> QED
      BY Zenon, <2>3, <3>3, <3>4, <3>5
  <2> QED
    BY Zenon, <2>1, <2>2, <2>3
<1>6. observed \subseteq observed'
  BY Zenon, <1>5 DEF observed
<1>7. ASSUME NEW t \in Sources
      PROVE  /\ NextPossibleContribution(t) \in Contributions
             /\ NextPossibleContribution(t)' \in Contributions
  <2>1. next_positions[t] \in 0..MaxRank /\ next_positions'[t] \in 0..MaxRank
    BY Zenon DEF TypeOK
  <2> QED
    BY Zenon, <2>1, ScoreFacts, ContributionFacts DEF NextPossibleContribution
<1> DEFINE next == [t \in Sources |-> NextPossibleContribution(t)]
           lo(p) == [t \in Sources |->
                       IF contributions[p][t] = Absent THEN 0 ELSE contributions[p][t]]
           up(p) == [t \in Sources |->
                       IF contributions[p][t] = Absent THEN NextPossibleContribution(t)
                                                       ELSE contributions[p][t]]
<1>8. UnseenUpperBound' \in Nat /\ UnseenUpperBound' <= UnseenUpperBound
  <2>1. next \in [Sources -> Contributions] /\ next' \in [Sources -> Contributions]
    BY Zenon, <1>7
  <2>2. \A t \in Sources : next'[t] <= next[t]
    BY Zenon, <1>4
  <2>3. UnseenUpperBound = Fuse(next) /\ UnseenUpperBound' = Fuse(next')
    BY Zenon DEF UnseenUpperBound
  <2> HIDE DEF next
  <2> QED
    BY Zenon, <2>1, <2>2, <2>3, FuseAssumption
<1>9. ASSUME NEW p \in Points
      PROVE  /\ LowerBound(p)' \in Nat /\ LowerBound(p) <= LowerBound(p)'
             /\ UpperBound(p)' \in Nat /\ UpperBound(p)' <= UpperBound(p)
  <2>1. ASSUME NEW t \in Sources
        PROVE  /\ lo(p)[t] \in Contributions /\ lo(p)'[t] \in Contributions
               /\ up(p)[t] \in Contributions /\ up(p)'[t] \in Contributions
               /\ lo(p)[t] <= lo(p)'[t] /\ up(p)'[t] <= up(p)[t]
    <3>1. /\ contributions[p][t] = Absent \/ contributions[p][t] \in Contributions
          /\ contributions'[p][t] = Absent \/ contributions'[p][t] \in Contributions
      BY Zenon, <1>2
    <3>2. \A c \in Contributions : c \in Nat /\ 0 <= c /\ c <= c
      BY ContributionFacts
    <3> QED
      BY Zenon, <1>4, <1>5, <1>7, <3>1, <3>2, ContributionFacts
  <2>2. /\ lo(p) \in [Sources -> Contributions] /\ lo(p)' \in [Sources -> Contributions]
        /\ up(p) \in [Sources -> Contributions] /\ up(p)' \in [Sources -> Contributions]
    BY Zenon, <2>1
  <2>3. \A t \in Sources : lo(p)[t] <= lo(p)'[t] /\ up(p)'[t] <= up(p)[t]
    BY Zenon, <2>1
  <2>4. /\ LowerBound(p) = Fuse(lo(p)) /\ LowerBound(p)' = Fuse(lo(p)')
        /\ UpperBound(p) = Fuse(up(p)) /\ UpperBound(p)' = Fuse(up(p)')
    BY Zenon DEF LowerBound, UpperBound
  <2> HIDE DEF lo, up
  <2> QED
    BY Zenon, <2>2, <2>3, <2>4, FuseAssumption
<1> QED
  BY Zenon, <1>6, <1>8, <1>9

-----------------------------------------------------------------------------
(* The type invariant and the truthfulness of the observations are inductive. *)
LEMMA InitIInv == Init => IInv
<1> SUFFICES ASSUME Init PROVE IInv
  BY Zenon
<1>1. TypeOK
  BY RankAssumption DEF Init, TypeOK
<1>2. ObservationsAreTruthful
  <2>1. ASSUME NEW s \in Sources
        PROVE  0 <= Len(ranking[s]) /\ next_positions[s] = 0 /\ ~exhausted[s]
               /\ \A p \in Points : contributions[p][s] = Absent
    BY RankingFacts, RankAssumption DEF Init
  <2> QED
    BY <2>1 DEF ObservationsAreTruthful
<1> QED
  BY Zenon, <1>1, <1>2 DEF Init, IInv, AnswersAreGuaranteed

\* A valid batch (observe_batch) keeps the observations truthful.
LEMMA ObserveTruthful ==
    ASSUME TypeOK, ObservationsAreTruthful,
           NEW s \in Sources, NEW b \in Deliveries(s), ObserveBatch(s, b)
    PROVE  TypeOK' /\ ObservationsAreTruthful'
<1> DEFINE np == next_positions[s]
           r == ranking[s]
<1>1. PICK n \in 0..(Len(r) - np) :
             /\ ~exhausted[s]
             /\ next_positions' = [next_positions EXCEPT ![s] = np + n]
             /\ exhausted' \in [Sources -> BOOLEAN]
             /\ \A t \in Sources : t # s => exhausted'[t] = exhausted[t]
             /\ exhausted'[s] => np + n = Len(r)
             /\ contributions' \in [Points -> [Sources -> Contributions \cup {Absent}]]
             /\ \A p \in Points : \A t \in Sources \ {s} :
                   contributions'[p][t] = contributions[p][t]
             /\ \A i \in (np + 1)..(np + n) :
                   contributions'[r[i]][s] = PositionScore(s, i - 1)
             /\ \A p \in Points :
                   (\A i \in (np + 1)..(np + n) : r[i] # p)
                      => contributions'[p][s] = contributions[p][s]
  BY Zenon, ObserveEffect
<1>2. /\ ranking \in [Sources -> Rankings] /\ np \in 0..MaxRank /\ np <= Len(r)
      /\ next_positions \in [Sources -> 0..MaxRank]
  BY Zenon DEF TypeOK, ObservationsAreTruthful
<1>3. /\ r \in Seq(Points) /\ Len(r) \in 0..MaxRank /\ DOMAIN r = 1..Len(r)
      /\ Len(r) \in Nat /\ np \in Nat /\ n \in Nat /\ np + n \in 0..MaxRank
      /\ np + n <= Len(r) /\ IsRanking(r)
  BY <1>2, RankingFacts, RankAssumption
<1>4. UNCHANGED <<ranking, top_k, answers>>
  BY Zenon DEF ObserveBatch
<1>5. TypeOK'
  BY Zenon, <1>1, <1>2, <1>3, <1>4 DEF TypeOK
<1>6. ASSUME NEW t \in Sources
      PROVE  /\ next_positions'[t] <= Len(ranking[t])
             /\ exhausted'[t] => next_positions'[t] = Len(ranking[t])
             /\ \A i \in 1..next_positions'[t] :
                    contributions'[ranking[t][i]][t] = PositionScore(t, i - 1)
             /\ \A p \in Points : contributions'[p][t] # Absent =>
                    \E i \in 1..next_positions'[t] : ranking[t][i] = p
  <2>1. CASE t # s
    <3>1. next_positions'[t] = next_positions[t] /\ exhausted'[t] = exhausted[t]
      BY Zenon, <1>1, <1>2, <2>1
    <3>2. ranking[t] \in Seq(Points) /\ DOMAIN ranking[t] = 1..Len(ranking[t])
      BY Zenon, <1>2, RankingFacts
    <3>3. next_positions[t] <= Len(ranking[t]) /\ next_positions[t] \in Nat
          /\ Len(ranking[t]) \in Nat
      BY <1>2, <3>2 DEF ObservationsAreTruthful
    <3>4. \A i \in 1..next_positions[t] : ranking[t][i] \in Points
      BY <3>2, <3>3
    <3> QED
      BY <1>1, <2>1, <3>1, <3>4, SMTT(20) DEF ObservationsAreTruthful
  <2>2. CASE t = s
    <3>1. next_positions'[s] = np + n
      BY Zenon, <1>1, <1>2
    <3>2. ASSUME NEW i \in 1..(np + n)
          PROVE  contributions'[r[i]][s] = PositionScore(s, i - 1)
      <4>1. CASE i > np
        BY <1>1, <1>3, <4>1
      <4>2. CASE i <= np
        <5>1. contributions[r[i]][s] = PositionScore(s, i - 1)
          BY <1>3, <4>2 DEF ObservationsAreTruthful
        <5>2. i \in DOMAIN r /\ r[i] \in Points
          BY <1>3
        <5>3. ASSUME NEW j \in (np + 1)..(np + n)
              PROVE  r[j] # r[i]
          <6>1. j \in DOMAIN r /\ j # i
            BY <1>3, <4>2
          <6> QED
            BY Zenon, <1>3, <5>2, <6>1 DEF IsRanking
        <5> QED
          BY Zenon, <1>1, <5>1, <5>2, <5>3
      <4> QED
        BY <1>3, <4>1, <4>2
    <3>3. ASSUME NEW p \in Points, contributions'[p][s] # Absent
          PROVE  \E i \in 1..(np + n) : r[i] = p
      <4>1. CASE \E i \in (np + 1)..(np + n) : r[i] = p
        BY <1>3, <4>1
      <4>2. CASE \A i \in (np + 1)..(np + n) : r[i] # p
        <5>1. contributions[p][s] # Absent
          BY Zenon, <1>1, <3>3, <4>2
        <5>2. PICK i \in 1..np : r[i] = p
          BY Zenon, <5>1 DEF ObservationsAreTruthful
        <5> QED
          BY <1>3, <5>2
      <4> QED
        BY Zenon, <4>1, <4>2
    <3> QED
      BY Zenon, <1>1, <1>3, <2>2, <3>1, <3>2, <3>3
  <2> QED
    BY Zenon, <2>1, <2>2
<1>7. ObservationsAreTruthful'
  BY <1>4, <1>6 DEF ObservationsAreTruthful
<1> QED
  BY Zenon, <1>5, <1>7

(* Reading on keeps every answer guaranteed. *)
LEMMA ObserveGuaranteed ==
    ASSUME IInv, NEW s \in Sources, NEW b \in Deliveries(s), ObserveBatch(s, b)
    PROVE  AnswersAreGuaranteed'
<1>1. TypeOK /\ ObservationsAreTruthful /\ AnswersAreGuaranteed
  BY Zenon DEF IInv
<1>2. TypeOK' /\ ObservationsAreTruthful'
  BY Zenon, <1>1, ObserveTruthful
<1>3. /\ UnseenUpperBound' \in Nat /\ UnseenUpperBound' <= UnseenUpperBound
      /\ observed \subseteq observed'
      /\ \A p \in Points :
            /\ LowerBound(p)' \in Nat /\ LowerBound(p) <= LowerBound(p)'
            /\ UpperBound(p)' \in Nat /\ UpperBound(p)' <= UpperBound(p)
  BY Zenon, <1>1, <1>2, ObserveMonotone
<1>4. answers' = answers /\ ~all_sources_exhausted
  BY Zenon DEF ObserveBatch, IsValidBatch, all_sources_exhausted
<1>5. ASSUME NEW p \in Points
      PROVE  /\ LowerBound(p) \in Nat /\ LowerBound(p)' \in Nat
             /\ UpperBound(p) \in Nat /\ UpperBound(p)' \in Nat
             /\ UnseenUpperBound \in Nat /\ UnseenUpperBound' \in Nat
             /\ p \notin observed => UpperBound(p) = UnseenUpperBound
  BY Zenon, <1>1, <1>3, BoundFacts
<1>6. ASSUME NEW a \in answers
      PROVE  Guaranteed(a.point_ids, a.k)'
  <2> DEFINE w == a.point_ids
  <2>1. /\ w \in Seq(Points) /\ IsRanking(w) /\ IdsOf(w) \subseteq observed
        /\ Len(w) <= a.k /\ ~(Len(w) < a.k)
    BY Zenon, <1>1, <1>4 DEF AnswersAreGuaranteed, Guaranteed
  <2>2. ASSUME NEW i \in DOMAIN w
        PROVE  /\ LowerBound(w[i])' > UnseenUpperBound'
               /\ \A q \in observed' \ Prefix(w, i) :
                     GuaranteedBefore(w[i], LowerBound(w[i])', q, UpperBound(q)')
    <3>1. /\ w[i] \in Points
          /\ LowerBound(w[i]) > UnseenUpperBound
          /\ \A q \in observed \ Prefix(w, i) :
                GuaranteedBefore(w[i], LowerBound(w[i]), q, UpperBound(q))
      BY <1>1, <2>1, <2>2 DEF AnswersAreGuaranteed, Guaranteed, WinnersAreSafe
    <3>2. /\ LowerBound(w[i]) \in Nat /\ LowerBound(w[i])' \in Nat
          /\ LowerBound(w[i]) <= LowerBound(w[i])'
          /\ UnseenUpperBound \in Nat /\ UnseenUpperBound' \in Nat
      BY Zenon, <1>3, <1>5, <3>1
    <3>3. ASSUME NEW q \in observed' \ Prefix(w, i)
          PROVE  GuaranteedBefore(w[i], LowerBound(w[i])', q, UpperBound(q)')
      <4>1. q \in Points
        BY Zenon DEF observed
      <4>2. UpperBound(q) \in Nat /\ UpperBound(q)' \in Nat /\ UpperBound(q)' <= UpperBound(q)
        BY Zenon, <1>3, <1>5, <4>1
      <4>3. CASE q \in observed
        BY <3>1, <3>2, <4>2, <4>3 DEF GuaranteedBefore
      <4>4. CASE q \notin observed
        <5>1. UpperBound(q) = UnseenUpperBound
          BY Zenon, <1>5, <4>1, <4>4
        <5> QED
          BY <3>1, <3>2, <4>2, <5>1 DEF GuaranteedBefore
      <4> QED
        BY Zenon, <4>3, <4>4
    <3> QED
      BY <1>3, <3>1, <3>2, <3>3
  <2>3. WinnersAreSafe(w)'
    BY Zenon, <2>2 DEF WinnersAreSafe
  <2> QED
    BY Zenon, <1>3, <2>1, <2>3 DEF Guaranteed
<1> QED
  BY Zenon, <1>1, <1>4, <1>6 DEF AnswersAreGuaranteed

(* Guaranteed does not look at the unread part of a ranking. *)
LEMMA GuaranteedUnchanged ==
    ASSUME AnswersAreGuaranteed,
           UNCHANGED <<next_positions, exhausted, contributions, answers>>
    PROVE  AnswersAreGuaranteed'
BY Zenon DEF AnswersAreGuaranteed, Guaranteed, WinnersAreSafe, observed, LowerBound,
       UpperBound, UnseenUpperBound, NextPossibleContribution, all_sources_exhausted

\* replace_source keeps the inductive invariant.
LEMMA ReplaceIInv ==
    ASSUME IInv, NEW s \in Sources, NEW r \in Rankings, ReplaceSource(s, r)
    PROVE  IInv'
<1>1. TypeOK /\ ObservationsAreTruthful /\ AnswersAreGuaranteed
  BY Zenon DEF IInv
<1>2. /\ UNCHANGED <<next_positions, exhausted, contributions, top_k, answers>>
      /\ ranking' = [ranking EXCEPT ![s] = r]
      /\ ~exhausted[s] /\ next_positions[s] <= Len(r)
      /\ \A i \in 1..next_positions[s] : r[i] = ranking[s][i]
  <2>1. Len(r) \in Nat /\ next_positions[s] \in Nat
    BY <1>1, RankingFacts, RankAssumption DEF TypeOK
  <2> QED
    BY Zenon, <2>1 DEF ReplaceSource
<1>3. TypeOK'
  BY Zenon, <1>1, <1>2 DEF TypeOK
<1>4. ObservationsAreTruthful'
  <2>1. ranking \in [Sources -> Rankings]
    BY Zenon, <1>1 DEF TypeOK
  <2>2. ranking'[s] = r /\ \A t \in Sources \ {s} : ranking'[t] = ranking[t]
    BY Zenon, <1>2, <2>1
  <2> QED
    BY <1>1, <1>2, <2>2 DEF ObservationsAreTruthful
<1> QED
  BY Zenon, <1>1, <1>2, <1>3, <1>4, GuaranteedUnchanged DEF IInv

\* A certification attempt keeps the inductive invariant.
LEMMA CertifyIInv == IInv /\ Certify => IInv'
<1> SUFFICES ASSUME IInv, Certify PROVE IInv'
  BY Zenon
<1>1. TypeOK /\ ObservationsAreTruthful /\ AnswersAreGuaranteed
  BY Zenon DEF IInv
<1>2. PICK w \in Prefixes :
        /\ FixedTopK(w)
        /\ answers' = answers \cup {[k |-> top_k, point_ids |-> w]}
  BY Zenon DEF Certify
<1>3. UNCHANGED <<ranking, next_positions, exhausted, contributions, top_k>>
  BY Zenon DEF Certify
<1>4. Guaranteed(w, top_k) /\ top_k \in 0..MaxTopK
  BY Zenon, <1>1, <1>2, FixedIsGuaranteed DEF TypeOK
<1>5. \A a \in answers' : a.k \in 0..MaxTopK /\ Guaranteed(a.point_ids, a.k)
  BY <1>1, <1>2, <1>4 DEF AnswersAreGuaranteed
<1>6. \A a \in answers' : a.point_ids \in Seq(Points)
  BY Zenon, <1>5 DEF Guaranteed
<1>7. AnswersAreGuaranteed'
  BY <1>3, <1>5, Zenon DEF AnswersAreGuaranteed, Guaranteed, WinnersAreSafe, observed,
     LowerBound, UpperBound, UnseenUpperBound, NextPossibleContribution,
     all_sources_exhausted
<1>8. TypeOK'
  BY Zenon, <1>1, <1>3, <1>5, <1>6 DEF TypeOK
<1>9. ObservationsAreTruthful'
  BY Zenon, <1>1, <1>3 DEF ObservationsAreTruthful
<1> QED
  BY Zenon, <1>7, <1>8, <1>9 DEF IInv

\* Every step of the fusion keeps the inductive invariant.
LEMMA NextIInv == IInv /\ [Next]_vars => IInv'
<1> SUFFICES ASSUME IInv, [Next]_vars PROVE IInv'
  BY Zenon
<1>1. TypeOK /\ ObservationsAreTruthful /\ AnswersAreGuaranteed
  BY Zenon DEF IInv
<1>2. ASSUME NEW s \in Sources, NEW b \in Deliveries(s), ObserveBatch(s, b)
      PROVE  IInv'
  BY Zenon, <1>1, <1>2, ObserveTruthful, ObserveGuaranteed DEF IInv
<1>3. CASE Certify
  BY Zenon, <1>3, CertifyIInv
<1>4. ASSUME NEW k \in 0..MaxTopK, ExtendTopK(k)
      PROVE  IInv'
  <2>1. TypeOK' /\ ObservationsAreTruthful'
    BY <1>1, <1>4 DEF ExtendTopK, TypeOK, ObservationsAreTruthful
  <2> QED
    BY Zenon, <1>1, <1>4, <2>1, GuaranteedUnchanged DEF ExtendTopK, IInv
<1>5. ASSUME NEW s \in Sources, NEW r \in Rankings, ReplaceSource(s, r)
      PROVE  IInv'
  BY Zenon, <1>5, ReplaceIInv
<1>6. CASE UNCHANGED vars
  <2>1. TypeOK' /\ ObservationsAreTruthful'
    BY <1>1, <1>6 DEF vars, TypeOK, ObservationsAreTruthful
  <2> QED
    BY Zenon, <1>1, <1>6, <2>1, GuaranteedUnchanged DEF vars, IInv
<1> QED
  BY Zenon, <1>2, <1>3, <1>4, <1>5, <1>6 DEF Next

(* The fields of the state keep their types (DynamicRrfState). *)
THEOREM TypeCorrect == Spec => []TypeOK
BY InitIInv, NextIInv, PTL DEF Spec, IInv

(* Validation before mutation: only the next ranks of a source are ever
   counted, whatever its stream returns (observe_batch). *)
THEOREM ObservationSoundness == Spec => []ObservationsAreTruthful
BY InitIInv, NextIInv, PTL DEF Spec, IInv

(* Certification soundness: every answer of fixed_top_k, early or not, is
   the exhaustive weighted-RRF Top-K, and stays so when sources are read
   further or replaced. *)
THEOREM CertificationSoundness == Spec => []AnswersAreExact
<1>1. IInv => AnswersAreExact
  <2> SUFFICES ASSUME IInv, NEW a \in answers
               PROVE  IsExactTopK(ranking, a.point_ids, a.k)
    BY Zenon DEF AnswersAreExact
  <2>1. a.k \in Nat /\ Guaranteed(a.point_ids, a.k)
    BY TopKAssumption DEF IInv, AnswersAreGuaranteed
  <2> QED
    BY Zenon, <2>1, GuaranteedIsExact DEF IInv
<1> QED
  BY <1>1, InitIInv, NextIInv, PTL DEF Spec

-----------------------------------------------------------------------------
(* A non-empty set of naturals has a least element. *)
LEMMA LeastNatural ==
    ASSUME NEW T, T \subseteq Nat, T # {}
    PROVE  \E m \in T : \A n \in T : m <= n
<1>1. PICK m \in T : \A n \in T : ~(<<n, m>> \in OpToRel(<, Nat))
  BY WFMin, NatLessThanWellFounded, Zenon
<1>2. ASSUME NEW n \in T
      PROVE  m <= n
  <2>1. n \in Nat /\ m \in Nat
    BY Zenon
  <2>2. <<n, m>> \in Nat \X Nat
    BY Zenon, <2>1
  <2>3. ~(n < m)
    BY Zenon, <1>1, <2>2 DEF OpToRel
  <2> QED
    BY <2>1, <2>3
<1> QED
  BY Zenon, <1>2

(* Two exact prefixes of one exhaustive order agree. *)
LEMMA ExactIsNested ==
    ASSUME \A p \in Points : RrfScore(ranking, p) \in Nat,
           NEW a \in Seq(Points), NEW b \in Seq(Points),
           NEW j \in Nat, NEW k \in Nat, j <= k,
           IsExactTopK(ranking, a, j), IsExactTopK(ranking, b, k)
    PROVE  /\ Len(a) <= Len(b)
           /\ \A i \in DOMAIN a : a[i] = b[i]
<1>1. /\ IsRanking(a) /\ IsRanking(b)
      /\ \A i \in DOMAIN a : a[i] \in Scored(ranking)
      /\ \A i \in DOMAIN b : b[i] \in Scored(ranking)
      /\ DOMAIN a = 1..Len(a) /\ DOMAIN b = 1..Len(b)
      /\ Len(a) \in Nat /\ Len(b) \in Nat /\ Len(a) <= j
      /\ Len(b) < k => Scored(ranking) \subseteq IdsOf(b)
  BY DEF IsExactTopK, IdsOf
<1> DEFINE differ == {i \in DOMAIN a \cap DOMAIN b : a[i] # b[i]}
<1>2. differ = {}
  <2>1. SUFFICES ASSUME differ # {}
                 PROVE  FALSE
    BY Zenon
  <2>2. differ \subseteq Nat
    BY <1>1
  <2> HIDE DEF differ
  <2>3. PICK m \in differ : \A n \in differ : m <= n
    BY <2>1, <2>2, LeastNatural, Zenon
  <2> USE DEF differ
  <2>4. m \in 1..Len(a) /\ m \in 1..Len(b) /\ m \in Nat /\ a[m] # b[m]
    BY <1>1, <2>3
  <2>5. ASSUME NEW i \in 1..m, i # m
        PROVE  a[i] = b[i] /\ i \in DOMAIN a /\ i \in DOMAIN b
    <3>1. i \in DOMAIN a /\ i \in DOMAIN b /\ ~(m <= i)
      BY <1>1, <2>4, <2>5
    <3> QED
      BY Zenon, <2>3, <3>1
  <2>6. b[m] \notin Prefix(a, m)
    BY <1>1, <2>4, <2>5, Zenon DEF Prefix, IsRanking
  <2>7. a[m] \notin Prefix(b, m)
    BY <1>1, <2>4, <2>5, Zenon DEF Prefix, IsRanking
  <2>8. /\ RrfOrder(a[m], RrfScore(ranking, a[m]), b[m], RrfScore(ranking, b[m]))
        /\ RrfOrder(b[m], RrfScore(ranking, b[m]), a[m], RrfScore(ranking, a[m]))
    <3>1. /\ b[m] \in Scored(ranking) \ Prefix(a, m) /\ m \in DOMAIN a
          /\ a[m] \in Scored(ranking) \ Prefix(b, m) /\ m \in DOMAIN b
      BY <1>1, <2>4, <2>6, <2>7, SMTT(20)
    <3> QED
      BY Zenon, <3>1 DEF IsExactTopK
  <2>9. /\ a[m] \in Int /\ b[m] \in Int
        /\ RrfScore(ranking, a[m]) \in Nat /\ RrfScore(ranking, b[m]) \in Nat
    <3>1. a[m] \in Points /\ b[m] \in Points
      BY <1>1, <2>4
    <3> QED
      BY <3>1, PointsAssumption, Zenon
  <2> QED
    BY <2>8, <2>9 DEF RrfOrder
<1>3. Len(a) <= Len(b)
  <2>1. SUFFICES ASSUME Len(b) < Len(a)
                 PROVE  FALSE
    BY <1>1
  <2>2. Scored(ranking) \subseteq IdsOf(b)
    BY <1>1, <2>1
  <2>3. Len(b) + 1 \in DOMAIN a
    BY <1>1, <2>1
  <2>4. PICK i \in DOMAIN b : b[i] = a[Len(b) + 1]
    BY Zenon, <1>1, <2>2, <2>3 DEF IdsOf
  <2>5. i \in DOMAIN a /\ a[i] = b[i] /\ i # Len(b) + 1
    BY <1>1, <1>2, <2>1, <2>4
  <2> QED
    BY Zenon, <1>1, <2>3, <2>4, <2>5 DEF IsRanking
<1> QED
  BY <1>1, <1>2, <1>3

(* Answers to growing prefixes never contradict each other, although each
   was certified from a different amount of input (extend_top_k,
   run_to_prefix). *)
THEOREM PrefixConsistency == Spec => []AnswersAreNested
<1>1. IInv => AnswersAreNested
  <2> SUFFICES ASSUME IInv, NEW a \in answers, NEW b \in answers, a.k <= b.k
               PROVE  /\ Len(a.point_ids) <= Len(b.point_ids)
                      /\ \A i \in DOMAIN a.point_ids : a.point_ids[i] = b.point_ids[i]
    BY Zenon DEF AnswersAreNested
  <2>1. TypeOK /\ ObservationsAreTruthful
    BY Zenon DEF IInv
  <2>2. /\ a.k \in Nat /\ Guaranteed(a.point_ids, a.k) /\ a.point_ids \in Seq(Points)
        /\ b.k \in Nat /\ Guaranteed(b.point_ids, b.k) /\ b.point_ids \in Seq(Points)
    BY TopKAssumption DEF IInv, AnswersAreGuaranteed, Guaranteed
  <2>3. \A p \in Points : RrfScore(ranking, p) \in Nat
    BY <2>1, BoundFacts, Zenon
  <2> QED
    BY Zenon, <2>1, <2>2, <2>3, GuaranteedIsExact, ExactIsNested
<1> QED
  BY <1>1, InitIInv, NextIInv, PTL DEF Spec

-----------------------------------------------------------------------------
(* The session implements DynamicRrf, so that every policy inherits what is
   proved above.  The only step that is not literally one of DynamicRrf is the
   answer from the kept order: it is a certification because the order is
   complete and all sources have been read to their end. *)

all_vars == <<vars, session_vars, schedule_vars>>

(* A kept order is a complete one of what the sources delivered. *)
KeptOrdersAreComplete ==
    exhausted_order # {} =>
        /\ all_sources_exhausted
        /\ exhausted_order \subseteq CompleteOrders

SessionInv == IInv /\ KeptOrdersAreComplete

(* An injective list as long as the finite set it draws from has all of it. *)
LEMMA ListIsOnto ==
    ASSUME NEW S, IsFiniteSet(S),
           NEW w \in [1..Cardinality(S) -> S], IsRanking(w)
    PROVE  S \subseteq IdsOf(w)
<1>1. Cardinality(S) \in Nat
  BY Zenon, FS_CardinalityType
<1>2. IsFiniteSet(1..Cardinality(S)) /\ Cardinality(1..Cardinality(S)) = Cardinality(S)
  BY <1>1, FS_Interval
<1>3. w \in Injection(1..Cardinality(S), S)
  BY Zenon DEF Injection, IsInjective, IsRanking
<1>4. w \in Surjection(1..Cardinality(S), S)
  BY Zenon, <1>2, <1>3, FS_Injection
<1> QED
  BY Zenon, <1>4 DEF Surjection, IdsOf

(* The first n places of a list. *)
LEMMA FirstPlaces ==
    ASSUME NEW S, NEW m \in Nat, NEW v \in [1..m -> S], NEW n \in 0..m
    PROVE  /\ Len(v) = m
           /\ SubSeq(v, 1, n) \in [1..n -> S]
           /\ Len(SubSeq(v, 1, n)) = n
           /\ \A i \in 1..n : SubSeq(v, 1, n)[i] = v[i] /\ i \in DOMAIN v
<1>1. v \in Seq(S) /\ Len(v) = m
  OBVIOUS
<1>2. SubSeq(v, 1, n) = [i \in 1..n |-> v[i]]
  BY <1>1
<1>3. \A i \in 1..n : i \in 1..m /\ v[i] \in S
  OBVIOUS
<1>4. SubSeq(v, 1, n) \in [1..n -> S]
  BY <1>2, <1>3, Zenon
<1>5. Len(SubSeq(v, 1, n)) = n
  BY <1>2, <1>4
<1> QED
  BY Zenon, <1>1, <1>2, <1>3, <1>4, <1>5

(* A prefix of a complete order is what fixed_top_k returns at the end. *)
LEMMA KeptPrefixIsFixed ==
    ASSUME TypeOK, KeptOrdersAreComplete, NEW order \in exhausted_order,
           NEW n, n = IF Len(order) < top_k THEN Len(order) ELSE top_k
    PROVE  SubSeq(order, 1, n) \in Prefixes /\ FixedTopK(SubSeq(order, 1, n))
<1> DEFINE positive == {p \in observed : LowerBound(p) > 0}
           w == SubSeq(order, 1, n)
<1>1. /\ all_sources_exhausted
      /\ order \in [1..Cardinality(positive) -> positive]
      /\ SelectsBest(order, positive)
  BY SMTT(20) DEF KeptOrdersAreComplete, CompleteOrders
<1>2. positive \subseteq Points
  BY Zenon DEF observed
<1>3. IsFiniteSet(positive) /\ Cardinality(positive) \in Nat
  BY Zenon, <1>2, FS_Subset, FS_CardinalityType, SessionAssumption
<1>4. Len(order) = Cardinality(positive)
  <2> HIDE DEF positive
  <2>1. 0 \in 0..Cardinality(positive)
    BY <1>3
  <2> QED
    BY Zenon, <1>1, <1>3, <2>1, FirstPlaces
<1>5. top_k \in Nat
  BY TopKAssumption DEF TypeOK
<1>6. n \in 0..top_k /\ n \in 0..Cardinality(positive)
  BY <1>3, <1>4, <1>5
<1>8. /\ w \in [1..n -> positive] /\ Len(w) = n /\ DOMAIN w = 1..n
      /\ \A i \in 1..n : w[i] = order[i] /\ i \in DOMAIN order
  <2> HIDE DEF positive
  <2> DEFINE m == Cardinality(positive)
  <2>0. m \in Nat /\ order \in [1..m -> positive] /\ n \in 0..m
    BY Zenon, <1>1, <1>3, <1>6
  <2> HIDE DEF m
  <2>1. w \in [1..n -> positive]
    BY Zenon, <2>0, FirstPlaces
  <2>3. Len(w) = n
    BY <2>0, FirstPlaces
  <2>2. \A i \in 1..n : w[i] = order[i] /\ i \in DOMAIN order
    BY <2>0, FirstPlaces
  <2> HIDE DEF w
  <2> QED
    BY Zenon, <2>1, <2>2, <2>3
<1>9. w \in Prefixes
  <2>1. w \in [1..n -> Points]
    BY Zenon, <1>2, <1>8
  <2> QED
    BY Zenon, <1>6, <2>1 DEF Prefixes
<1>10. IsRanking(order) /\ IdsOf(order) \subseteq positive
  BY Zenon, <1>1 DEF SelectsBest
<1> HIDE DEF w, positive
<1>11. IsRanking(w) /\ IdsOf(w) \subseteq positive
  BY <1>8, <1>10 DEF IsRanking, IdsOf
<1>12. ASSUME NEW i \in DOMAIN w, NEW q \in positive \ Prefix(w, i)
       PROVE  RrfOrder(w[i], LowerBound(w[i]), q, LowerBound(q))
  <2>1. i \in DOMAIN order /\ w[i] = order[i] /\ i \in 1..n
    BY Zenon, <1>8
  <2>2. Prefix(w, i) = Prefix(order, i)
    BY <1>6, <1>8, <2>1 DEF Prefix
  <2> QED
    BY Zenon, <1>1, <1>12, <2>1, <2>2 DEF SelectsBest
<1>13. SelectsBest(w, positive)
  BY Zenon, <1>11, <1>12 DEF SelectsBest
<1>14. ASSUME Len(w) < top_k
       PROVE  positive \subseteq IdsOf(w)
  <2>1. n = Cardinality(positive)
    BY <1>4, <1>5, <1>6, <1>8, <1>14
  <2>2. positive \subseteq IdsOf(order)
    <3> HIDE DEF positive
    <3> QED
      BY Zenon, <1>1, <1>3, <1>10, ListIsOnto
  <2>3. DOMAIN order = DOMAIN w /\ \A i \in DOMAIN w : w[i] = order[i]
    BY Zenon, <1>1, <1>8, <2>1
  <2> QED
    BY Zenon, <2>2, <2>3 DEF IdsOf
<1>15. CompleteTopK(w)
  BY <1>5, <1>6, <1>8, <1>13, <1>14 DEF CompleteTopK, positive
<1> QED
  BY Zenon, <1>1, <1>9, <1>15 DEF FixedTopK, w

-----------------------------------------------------------------------------
(* The answer from the kept order is a certification. *)
LEMMA KeptIsCertified ==
    ASSUME TypeOK, KeptOrdersAreComplete, ReturnKeptPrefix
    PROVE  Certify
<1>1. PICK order \in exhausted_order :
        answers' = answers \cup {[k |-> top_k, point_ids |->
            SubSeq(order, 1, IF Len(order) < top_k THEN Len(order) ELSE top_k)]}
  BY Zenon DEF ReturnKeptPrefix
<1>2. UNCHANGED <<ranking, next_positions, exhausted, contributions, top_k>>
  BY Zenon DEF ReturnKeptPrefix
<1> DEFINE n == IF Len(order) < top_k THEN Len(order) ELSE top_k
<1>3. SubSeq(order, 1, n) \in Prefixes /\ FixedTopK(SubSeq(order, 1, n))
  BY Zenon, KeptPrefixIsFixed
<1> QED
  BY <1>1, <1>2, <1>3, Zenon DEF Certify

(* Every step of the session is a step of DynamicRrf or changes nothing of it. *)
LEMMA StepIsStep == SessionInv /\ [SessionNext]_all_vars => [Next]_vars
<1> SUFFICES ASSUME SessionInv, [SessionNext]_all_vars
             PROVE  [Next]_vars
  BY Zenon
<1>1. CASE ReturnKeptPrefix
  BY Zenon, <1>1, KeptIsCertified DEF SessionInv, IInv, Next
<1>2. CASE ReturnFixed
  BY Zenon, <1>2 DEF ReturnFixed, Next
<1>3. CASE ReturnPaused \/ Proceed
  BY Zenon, <1>3 DEF ReturnPaused, Proceed
<1>4. ASSUME NEW s \in Sources, NEW b \in Deliveries(s), Pull(s, b) \/ RejectBatch(s, b)
      PROVE  [Next]_vars
  BY Zenon, <1>4 DEF Pull, RejectBatch, Next
<1>5. ASSUME NEW s \in Sources, StreamFails(s)
      PROVE  [Next]_vars
  BY Zenon, <1>5 DEF StreamFails
<1>6. ASSUME NEW k \in 0..MaxTopK, RunToPrefix(k) \/ RefuseShorterPrefix(k)
      PROVE  [Next]_vars
  BY Zenon, <1>6 DEF RunToPrefix, RefuseShorterPrefix, Next
<1>7. ASSUME NEW targets \in PauseTargets, AdvanceUntilEach(targets)
      PROVE  [Next]_vars
  BY Zenon, <1>7 DEF AdvanceUntilEach
<1>8. ASSUME NEW s \in Sources, NEW r \in Rankings, Replace(s, r)
      PROVE  [Next]_vars
  BY Zenon, <1>8 DEF Replace, Next
<1>9. CASE Done \/ UNCHANGED all_vars
  BY Zenon, <1>9 DEF Done, all_vars
<1> QED
  BY Zenon, <1>1, <1>2, <1>3, <1>4, <1>5, <1>6, <1>7, <1>8, <1>9
     DEF SessionNext, Step, Calls

(* Once all sources are exhausted nothing that an order depends on changes. *)
LEMMA OrdersAreKept ==
    ASSUME KeptOrdersAreComplete, UNCHANGED <<exhausted, contributions>>,
           exhausted_order' \subseteq exhausted_order
                \cup (IF all_sources_exhausted THEN CompleteOrders ELSE {})
    PROVE  KeptOrdersAreComplete'
<1>1. observed' = observed /\ \A p \in Points : LowerBound(p)' = LowerBound(p)
  BY Zenon DEF observed, LowerBound
<1>2. all_sources_exhausted' = all_sources_exhausted
  BY Zenon DEF all_sources_exhausted
<1>3. CompleteOrders' = CompleteOrders
  BY DEF CompleteOrders, observed, SelectsBest, LowerBound
<1> QED
  BY Zenon, <1>2, <1>3 DEF KeptOrdersAreComplete

(* No step spoils a kept order. *)
LEMMA KeptOrdersStep ==
    SessionInv /\ [SessionNext]_all_vars => KeptOrdersAreComplete'
<1> SUFFICES ASSUME SessionInv, [SessionNext]_all_vars
             PROVE  KeptOrdersAreComplete'
  BY Zenon
<1>0. KeptOrdersAreComplete
  BY Zenon DEF SessionInv
<1>1. CASE ReturnKeptPrefix
  BY Zenon, <1>0, <1>1, OrdersAreKept DEF ReturnKeptPrefix, schedule_vars
<1>2. CASE ReturnFixed
  BY Zenon, <1>0, <1>2, OrdersAreKept DEF ReturnFixed, Certify
<1>3. CASE ReturnPaused \/ Proceed
  BY Zenon, <1>0, <1>3, OrdersAreKept DEF ReturnPaused, Proceed, vars
<1>4. ASSUME NEW s \in Sources, NEW b \in Deliveries(s), Pull(s, b)
      PROVE  KeptOrdersAreComplete'
  <2>1. ~exhausted[s] /\ exhausted_order' = exhausted_order
    BY Zenon, <1>4 DEF Pull, ObserveBatch, IsValidBatch
  <2>2. exhausted_order = {}
    BY Zenon, <1>0, <2>1 DEF KeptOrdersAreComplete, all_sources_exhausted
  <2> QED
    BY Zenon, <2>1, <2>2 DEF KeptOrdersAreComplete
<1>5. ASSUME NEW s \in Sources, NEW b, RejectBatch(s, b) \/ StreamFails(s)
      PROVE  KeptOrdersAreComplete'
  BY Zenon, <1>0, <1>5, OrdersAreKept DEF RejectBatch, StreamFails, vars
<1>6. ASSUME NEW k, RunToPrefix(k) \/ RefuseShorterPrefix(k)
      PROVE  KeptOrdersAreComplete'
  BY Zenon, <1>0, <1>6, OrdersAreKept
     DEF RunToPrefix, RefuseShorterPrefix, ExtendTopK, vars, schedule_vars
<1>7. ASSUME NEW targets, AdvanceUntilEach(targets)
      PROVE  KeptOrdersAreComplete'
  BY Zenon, <1>0, <1>7, OrdersAreKept DEF AdvanceUntilEach, vars, schedule_vars
<1>8. ASSUME NEW s \in Sources, NEW r \in Rankings, Replace(s, r)
      PROVE  KeptOrdersAreComplete'
  BY Zenon, <1>0, <1>8, OrdersAreKept DEF Replace, ReplaceSource, vars, schedule_vars
<1>9. CASE Done \/ UNCHANGED all_vars
  BY Zenon, <1>0, <1>9, OrdersAreKept DEF Done, all_vars, vars, schedule_vars
<1> QED
  BY Zenon, <1>1, <1>2, <1>3, <1>4, <1>5, <1>6, <1>7, <1>8, <1>9
     DEF SessionNext, Step, Calls

(* The initial state of a session, and every step, keep SessionInv. *)
LEMMA SessionInvariant == SessionSpec => []SessionInv
<1>1. SessionInit => SessionInv
  BY Zenon, InitIInv DEF SessionInit, SessionInv, KeptOrdersAreComplete
<1>2. SessionInv /\ [SessionNext]_all_vars => SessionInv'
  <2>1. SessionInv /\ [SessionNext]_all_vars => IInv'
    BY Zenon, StepIsStep, NextIInv DEF SessionInv
  <2> QED
    BY Zenon, <2>1, KeptOrdersStep DEF SessionInv
<1> QED
  BY <1>1, <1>2, PTL DEF SessionSpec, all_vars

-----------------------------------------------------------------------------
(* Whatever the scheduler, the check interval, the pauses, the failures and
   the replacements of sources, a session behaves like DynamicRrf
   (DynamicRrfSession::run_to_prefix, advance_until_each, replace_source). *)
THEOREM SessionImplementsDynamicRrf == SessionSpec => ImplementsDynamicRrf
<1>1. SessionInit => Init
  BY Zenon DEF SessionInit
<1> QED
  BY <1>1, SessionInvariant, StepIsStep, PTL
     DEF SessionSpec, ImplementsDynamicRrf, all_vars

(* Every answer of a session is the exhaustive weighted-RRF Top-K, from the
   loop or from the kept order (DynamicRrfSession::run_to_prefix). *)
THEOREM SessionAnswersAreExact == SessionSpec => []AnswersAreExact
BY SessionImplementsDynamicRrf, CertificationSoundness, PTL
   DEF ImplementsDynamicRrf, Spec
-----------------------------------------------------------------------------

(* A non-empty finite set has a greatest element in a total order. *)
LEMMA Greatest ==
    ASSUME NEW E, IsFiniteSet(E), E # {}, NEW R,
           \A x, y \in E : x # y => <<x, y>> \in R \/ <<y, x>> \in R,
           \A x, y, z \in E : <<x, y>> \in R /\ <<y, z>> \in R => <<x, z>> \in R
    PROVE  \E m \in E : \A y \in E \ {m} : <<m, y>> \in R
<1> DEFINE HasGreatest(T) == \E m \in T : \A y \in T \ {m} : <<m, y>> \in R
           Bad == {T \in FiniteSubsetsOf(E) : T # {} /\ ~HasGreatest(T)}
<1>1. SUFFICES ASSUME Bad # {} PROVE FALSE
  <2>1. E \in FiniteSubsetsOf(E)
    BY Zenon DEF FiniteSubsetsOf
  <2> QED
    BY Zenon, <2>1
<1>2. PICK T \in Bad : \A U \in Bad : <<U, T>> \notin StrictSubsetOrdering(E)
  <2>1. Bad \subseteq FiniteSubsetsOf(E)
    BY Zenon
  <2> HIDE DEF Bad
  <2> QED
    BY Zenon, <1>1, <2>1, FS_StrictSubsetOrderingWellFounded, WFMin
<1>3. T \subseteq E /\ IsFiniteSet(T) /\ T # {} /\ ~HasGreatest(T)
  BY Zenon DEF FiniteSubsetsOf
<1>4. PICK x \in T : TRUE
  BY Zenon, <1>3
<1>5. T \ {x} # {}
  BY Zenon, <1>3, <1>4
<1>6. T \ {x} \in FiniteSubsetsOf(E) /\ <<T \ {x}, T>> \in StrictSubsetOrdering(E)
  <2>1. IsFiniteSet(T \ {x})
    BY Zenon, <1>3, FS_RemoveElement
  <2> QED
    BY <1>3, <1>4, <2>1, Zenon DEF FiniteSubsetsOf, StrictSubsetOrdering
<1>7. HasGreatest(T \ {x})
  BY <1>2, <1>5, <1>6, Zenon
<1>8. PICK m \in T \ {x} : \A y \in (T \ {x}) \ {m} : <<m, y>> \in R
  BY Zenon, <1>7
<1>9. CASE <<m, x>> \in R
  BY <1>3, <1>8, <1>9, Zenon
<1>10. CASE <<x, m>> \in R
  <2>1. \A y \in T \ {x} : <<x, y>> \in R
    BY <1>3, <1>4, <1>8, <1>10, Zenon
  <2> QED
    BY Zenon, <1>3, <1>4, <2>1
<1> QED
  BY Zenon, <1>3, <1>4, <1>8, <1>9, <1>10

(* When all sources have been read to their end, fixed_top_k succeeds. *)
LEMMA FixedAtTheEnd ==
    ASSUME TypeOK, ObservationsAreTruthful, all_sources_exhausted
    PROVE  IsFixed
<1> DEFINE positive == {p \in observed : LowerBound(p) > 0}
           Selects(n) == \E v \in [1..n -> positive] : SelectsBest(v, positive)
           Short == {m \in 0..top_k : Selects(top_k - m)}
<1>1. positive \subseteq Points /\ \A p \in positive : p \in Int /\ LowerBound(p) \in Nat
  BY Zenon, BoundFacts, PointsAssumption DEF observed
<1>2. IsFiniteSet(positive)
  BY Zenon, <1>1, FS_Subset, SessionAssumption
<1>3. top_k \in Nat
  BY TopKAssumption DEF TypeOK
<1> HIDE DEF positive
<1>4. top_k \in Short
  <2> DEFINE v == [i \in 1..0 |-> 0]
  <2>1. DOMAIN v = {} /\ 1..0 = {}
    OBVIOUS
  <2>2. v \in [1..0 -> positive]
    BY Zenon, <2>1
  <2>3. SelectsBest(v, positive)
    BY Zenon, <2>1 DEF SelectsBest, IsRanking, IdsOf
  <2>4. Selects(0)
    BY <2>2, <2>3, Zenon
  <2> HIDE DEF Selects
  <2>5. top_k - top_k = 0 /\ top_k \in 0..top_k
    BY <1>3
  <2> QED
    BY Zenon, <2>4, <2>5
<1>5. PICK m \in Short : \A n \in Short : m <= n
  <2>1. Short \subseteq Nat /\ Short # {}
    BY <1>3, <1>4, SMTT(20)
  <2> HIDE DEF Short
  <2> QED
    BY <2>1, LeastNatural, Zenon
<1> DEFINE k == top_k - m
<1>6. m \in 0..top_k /\ k \in 0..top_k
  BY <1>3, <1>5
<1>7. PICK v \in [1..k -> positive] : SelectsBest(v, positive)
  BY Zenon, <1>5
<1>8. Len(v) = k /\ DOMAIN v = 1..k /\ IsRanking(v) /\ IdsOf(v) \subseteq positive
  BY <1>6, <1>7, FirstPlaces DEF SelectsBest
<1>9. ASSUME k < top_k
      PROVE  positive \subseteq IdsOf(v)
  <2>1. SUFFICES ASSUME positive \ IdsOf(v) # {} PROVE FALSE
    BY Zenon
  <2> DEFINE rest == positive \ IdsOf(v)
             R == {x \in rest \X rest :
                      RrfOrder(x[1], LowerBound(x[1]), x[2], LowerBound(x[2]))}
  <2>2. \A x, y \in rest : <<x, y>> \in R <=> RrfOrder(x, LowerBound(x), y, LowerBound(y))
    BY Zenon
  <2>3. \A x, y \in rest : x # y => <<x, y>> \in R \/ <<y, x>> \in R
    BY <1>1, <2>2 DEF RrfOrder
  <2>4. \A x, y, z \in rest : <<x, y>> \in R /\ <<y, z>> \in R => <<x, z>> \in R
    BY <1>1, <2>2 DEF RrfOrder
  <2>5. IsFiniteSet(rest) /\ rest # {}
    BY <1>2, <2>1, FS_Difference, Zenon
  <2>6. PICK b \in rest : \A y \in rest \ {b} : <<b, y>> \in R
    <3> HIDE DEF rest, R
    <3> QED
      BY Zenon, <2>3, <2>4, <2>5, Greatest
  <2> DEFINE u == [i \in 1..(k + 1) |-> IF i = k + 1 THEN b ELSE v[i]]
  <2>7. /\ u \in [1..(k + 1) -> positive] /\ DOMAIN u = 1..(k + 1)
        /\ u[k + 1] = b
        /\ \A i \in 1..k : u[i] = v[i] /\ i \in 1..(k + 1) /\ i # k + 1
        /\ \A i \in 1..(k + 1) : i = k + 1 \/ i \in 1..k
    BY <1>6, <1>7, <2>6
  <2> HIDE DEF u, k
  <2>8. IsRanking(u) /\ IdsOf(u) \subseteq positive
    <3>1. \A i \in 1..k : v[i] # b
      BY Zenon, <1>8, <2>6 DEF IdsOf
    <3> QED
      BY <1>8, <2>7, <3>1 DEF IsRanking, IdsOf
  <2>9. ASSUME NEW i \in DOMAIN u, NEW q \in positive \ Prefix(u, i)
        PROVE  RrfOrder(u[i], LowerBound(u[i]), q, LowerBound(q))
    <3>1. CASE i = k + 1
      <4>1. q \in rest \ {b}
        BY Zenon, <1>8, <2>7, <2>9, <3>1 DEF Prefix, IdsOf
      <4> QED
        BY <2>2, <2>6, <2>7, <3>1, <4>1, Zenon
    <3>2. CASE i \in 1..k
      <4>1. \A j \in 1..i : j \in 1..k
        BY <1>6, <3>2 DEF k
      <4>2. q \notin Prefix(v, i)
        BY Zenon, <2>7, <2>9, <4>1 DEF Prefix
      <4> QED
        BY Zenon, <1>7, <1>8, <2>7, <2>9, <3>2, <4>2 DEF SelectsBest
    <3> QED
      BY Zenon, <2>7, <3>1, <3>2
  <2>10. Selects(k + 1)
    BY <2>7, <2>8, <2>9, Zenon DEF SelectsBest
  <2>11. top_k - (m - 1) = k + 1 /\ m - 1 \in 0..top_k
    BY <1>3, <1>6, <1>9 DEF k
  <2>12. m - 1 \in Short
    BY Zenon, <2>10, <2>11
  <2> QED
    BY <1>5, <1>6, <2>12
<1>10. v \in Prefixes
  <2>1. v \in [1..k -> Points]
    BY Zenon, <1>1, <1>7
  <2> QED
    BY Zenon, <1>6, <2>1 DEF Prefixes
<1>11. CompleteTopK(v)
  BY <1>3, <1>6, <1>7, <1>8, <1>9 DEF CompleteTopK, positive
<1> QED
  BY Zenon, <1>10, <1>11 DEF IsFixed, FixedTopK
(* Multiplying by a positive number keeps and reflects the order. *)
LEMMA Scale ==
    ASSUME NEW x \in Int, NEW y \in Int, NEW d \in Nat \ {0}
    PROVE  (x > y <=> x * d > y * d) /\ (x = y <=> x * d = y * d)
OBVIOUS

(* Ratios with positive denominators are compared by cross multiplication. *)
LEMMA CrossProducts ==
    ASSUME NEW a \in Int, NEW c \in Int, NEW e \in Int,
           NEW b \in Nat \ {0}, NEW d \in Nat \ {0}, NEW f \in Nat \ {0}
    PROVE  /\ a * d > c * b /\ c * f > e * d => a * f > e * b
           /\ a * d > c * b /\ c * f = e * d => a * f > e * b
           /\ a * d = c * b /\ c * f > e * d => a * f > e * b
           /\ a * d = c * b /\ c * f = e * d => a * f = e * b
<1> DEFINE ad == a * d  cb == c * b  cf == c * f  ed == e * d  af == a * f  eb == e * b
<1>1. ad \in Int /\ cb \in Int /\ cf \in Int /\ ed \in Int /\ af \in Int /\ eb \in Int
  OBVIOUS
<1>2. ad * f = af * d /\ cb * f = cf * b /\ ed * b = eb * d
  OBVIOUS
<1> HIDE DEF ad, cb, cf, ed, af, eb
<1>3. (ad > cb <=> ad * f > cb * f) /\ (ad = cb <=> ad * f = cb * f)
  BY Zenon, <1>1, Scale
<1>4. (cf > ed <=> cf * b > ed * b) /\ (cf = ed <=> cf * b = ed * b)
  BY Zenon, <1>1, Scale
<1>5. (af > eb <=> af * d > eb * d) /\ (af = eb <=> af * d = eb * d)
  BY Zenon, <1>1, Scale
<1> DEFINE x == af * d  y == cf * b  z == eb * d
<1>6. x \in Int /\ y \in Int /\ z \in Int
  BY <1>1
<1>7. /\ ad > cb <=> x > y
      /\ ad = cb <=> x = y
      /\ cf > ed <=> y > z
      /\ cf = ed <=> y = z
      /\ af > eb <=> x > z
      /\ af = eb <=> x = z
  BY Zenon, <1>2, <1>3, <1>4, <1>5
<1> HIDE DEF x, y, z
<1>8. /\ ad > cb /\ cf > ed => af > eb
      /\ ad > cb /\ cf = ed => af > eb
      /\ ad = cb /\ cf > ed => af > eb
      /\ ad = cb /\ cf = ed => af = eb
  BY <1>6, <1>7
<1> QED
  BY Zenon, <1>8 DEF ad, cb, cf, ed, af, eb

(* What the pull loop relies on: it only goes on to pull when some source
   may be pulled. *)
LoopInv ==
    /\ minimum_pulls \in [Sources -> Nat \cup {NoTarget}]
    /\ wait \in [Sources -> Nat]
    /\ competitive_missing \in [Sources -> Int]
    /\ InLoop("pull") => \E s \in Sources : Eligible(s)

(* The priorities are integers, and so are the products they are compared by. *)
LEMMA PriorityTypes ==
    ASSUME SessionInv, LoopInv
    PROVE  /\ \A s \in Sources : /\ Gain(s) \in Int
                                 /\ Cost(s) \in Nat \ {0}
                                 /\ NextPossibleContribution(s) \in Int
                                 /\ s \in Int
           /\ \A s, t \in Sources : Gain(s) * Cost(t) \in Int
<1>1. \A s \in Sources : Cost(s) \in Nat \ {0} /\ s \in Int
  BY SessionAssumption, FS_CardinalityType DEF Cost
<1>2. ASSUME NEW s \in Sources
      PROVE  NextPossibleContribution(s) \in Int /\ Gain(s) \in Int
  <2>1. next_positions[s] \in 0..MaxRank /\ next_positions[s] + 1 \in 0..MaxRank + 1
        /\ next_positions[s] \in 0..MaxRank + 1
    BY RankAssumption DEF SessionInv, IInv, TypeOK
  <2>2. /\ PositionScore(s, next_positions[s]) \in Nat
        /\ PositionScore(s, next_positions[s] + 1) \in Nat
    BY Zenon, <2>1, PositionScoreAssumption
  <2>3. NextPossibleContribution(s) \in Int
    BY <2>2 DEF NextPossibleContribution
  <2>4. MaxOf(competitive_missing[s], 1) \in Int
    BY DEF MaxOf, LoopInv
  <2>5. \A u, v, w \in Int : (u - v) * w \in Int
    OBVIOUS
  <2> QED
    BY <2>2, <2>3, <2>4, <2>5 DEF Gain
<1>3. \A u, v \in Int : u * v \in Int
  OBVIOUS
<1> QED
  BY <1>1, <1>2, <1>3

(* Preferred is total and transitive. *)
LEMMA PreferredIsTotalOrder ==
    ASSUME SessionInv, LoopInv
    PROVE  /\ \A s, t \in Sources : s # t => Preferred(s, t) \/ Preferred(t, s)
           /\ \A s, t \in Sources : s # t => ~(Preferred(s, t) /\ Preferred(t, s))
           /\ \A s, t, u \in Sources : Preferred(s, t) /\ Preferred(t, u) => Preferred(s, u)
<1>1. \A s, t \in Sources : s # t => Preferred(s, t) \/ Preferred(t, s)
  BY PriorityTypes DEF Preferred
<1>2. \A s, t \in Sources : s # t => ~(Preferred(s, t) /\ Preferred(t, s))
  BY PriorityTypes DEF Preferred
<1>3. ASSUME NEW s \in Sources, NEW t \in Sources, NEW u \in Sources,
             Preferred(s, t), Preferred(t, u)
      PROVE  Preferred(s, u)
  <2> DEFINE gs == Gain(s)  gt == Gain(t)  gu == Gain(u)
             cs == Cost(s)  ct == Cost(t)  cu == Cost(u)
  <2>1. /\ gs \in Int /\ gt \in Int /\ gu \in Int
        /\ cs \in Nat \ {0} /\ ct \in Nat \ {0} /\ cu \in Nat \ {0}
    BY Zenon, PriorityTypes
  <2>2. /\ gs * ct > gt * cs /\ gt * cu > gu * ct => gs * cu > gu * cs
        /\ gs * ct > gt * cs /\ gt * cu = gu * ct => gs * cu > gu * cs
        /\ gs * ct = gt * cs /\ gt * cu > gu * ct => gs * cu > gu * cs
        /\ gs * ct = gt * cs /\ gt * cu = gu * ct => gs * cu = gu * cs
    <3> HIDE DEF gs, gt, gu, cs, ct, cu
    <3> QED
      BY <2>1, CrossProducts
  <2>3. /\ NextPossibleContribution(s) \in Int /\ NextPossibleContribution(t) \in Int
        /\ NextPossibleContribution(u) \in Int /\ s \in Int /\ t \in Int /\ u \in Int
    BY Zenon, PriorityTypes
  <2> QED
    BY <1>3, <2>2, <2>3 DEF Preferred
<1> QED
  BY Zenon, <1>1, <1>2, <1>3

(* While some source may be pulled, exactly one is selected. *)
LEMMA ExactlyOneSelected ==
    ASSUME SessionInv, LoopInv, \E s \in Sources : Eligible(s)
    PROVE  \E s \in Sources : IsSelected(s) /\ \A t \in Sources \ {s} : ~IsSelected(t)
<1>1. \A s \in Sources : s \in Int /\ wait[s] \in Nat
  BY Zenon, PriorityTypes DEF LoopInv
<1>2. CASE Overdue # {}
  <2> DEFINE Longer(s, t) == wait[s] > wait[t] \/ (wait[s] = wait[t] /\ s < t)
             R == {x \in Sources \X Sources : Longer(x[1], x[2])}
  <2>1. Overdue \subseteq Sources /\ IsFiniteSet(Overdue)
    BY Zenon, SessionAssumption, FS_Subset DEF Overdue
  <2>2. \A s, t \in Sources : <<s, t>> \in R <=> Longer(s, t)
    BY Zenon
  <2>3. \A s, t \in Overdue : s # t => <<s, t>> \in R \/ <<t, s>> \in R
    BY <1>1, <2>1, <2>2
  <2>4. \A s, t, u \in Overdue : <<s, t>> \in R /\ <<t, u>> \in R => <<s, u>> \in R
    BY <1>1, <2>1, <2>2
  <2>5. PICK m \in Overdue : \A t \in Overdue \ {m} : <<m, t>> \in R
    <3> HIDE DEF R
    <3> QED
      BY Zenon, <1>2, <2>1, <2>3, <2>4, Greatest
  <2>6. IsSelected(m)
    BY <1>2, <2>1, <2>2, <2>5, Zenon DEF IsSelected
  <2>7. ASSUME NEW t \in Sources \ {m}, IsSelected(t) PROVE FALSE
    BY <1>1, <1>2, <2>1, <2>6, <2>7 DEF IsSelected
  <2> QED
    BY Zenon, <2>1, <2>6, <2>7
<1>3. CASE Overdue = {}
  <2> DEFINE E == {s \in Sources : Eligible(s)}
             R == {x \in Sources \X Sources : Preferred(x[1], x[2])}
  <2>1. E \subseteq Sources /\ IsFiniteSet(E) /\ E # {}
    BY Zenon, SessionAssumption, FS_Subset
  <2>2. \A s, t \in Sources : <<s, t>> \in R <=> Preferred(s, t)
    BY Zenon
  <2>3. \A s, t \in E : s # t => <<s, t>> \in R \/ <<t, s>> \in R
    BY Zenon, <2>1, <2>2, PreferredIsTotalOrder
  <2>4. \A s, t, u \in E : <<s, t>> \in R /\ <<t, u>> \in R => <<s, u>> \in R
    BY Zenon, <2>1, <2>2, PreferredIsTotalOrder
  <2>5. PICK m \in E : \A t \in E \ {m} : <<m, t>> \in R
    <3> HIDE DEF R, E
    <3> QED
      BY Zenon, <2>1, <2>3, <2>4, Greatest
  <2>6. IsSelected(m)
    BY <1>3, <2>2, <2>5, Zenon DEF IsSelected
  <2>7. ASSUME NEW t \in Sources \ {m}, IsSelected(t) PROVE FALSE
    <3>1. Preferred(t, m) /\ Preferred(m, t)
      BY Zenon, <1>3, <2>6, <2>7 DEF IsSelected
    <3> QED
      BY Zenon, <2>7, <3>1, PreferredIsTotalOrder
  <2> QED
    BY Zenon, <2>6, <2>7
<1> QED
  BY Zenon, <1>2, <1>3
(* The advisory demand of a source is an integer. *)
LEMMA DemandType ==
    ASSUME TypeOK
    PROVE  CompetitiveMissingCounts \in [Sources -> Int]
<1>1. \A S \in SUBSET Points : Cardinality(S) \in Nat
  BY Zenon, SessionAssumption, FS_Subset, FS_CardinalityType
<1>2. top_k \in Int /\ observed \subseteq Points
  BY TopKAssumption DEF TypeOK, observed
<1>3. \A competitors \in SUBSET observed : \A s \in Sources :
          Cardinality({p \in competitors : contributions[p][s] = Absent}) \in Nat
  BY Zenon, <1>1, <1>2
<1>4. \A threshold : {p \in observed : UpperBound(p) >= threshold} \in SUBSET observed
  BY Zenon
<1>5. top_k - Cardinality(observed) \in Int
  BY <1>1, <1>2
<1> DEFINE Demand(competitors, unseen) ==
        [s \in Sources |->
            IF exhausted[s] THEN 0
            ELSE IF Cardinality(observed) < top_k
                 THEN top_k - Cardinality(observed)
                 ELSE Cardinality({p \in competitors : contributions[p][s] = Absent})
                      + unseen]
<1>6. \A competitors \in SUBSET observed : \A unseen \in {0, 1} :
          Demand(competitors, unseen) \in [Sources -> Int]
  <2> SUFFICES ASSUME NEW competitors \in SUBSET observed, NEW unseen \in {0, 1},
                      NEW s \in Sources
               PROVE  Demand(competitors, unseen)[s] \in Int
    BY Zenon
  <2> DEFINE n == Cardinality({p \in competitors : contributions[p][s] = Absent})
  <2>1. n \in Nat
    BY <1>3, Zenon
  <2> HIDE DEF n
  <2>2. n + unseen \in Int
    BY <2>1
  <2> QED
    BY <1>5, <2>2 DEF n
<1> DEFINE threshold == CHOOSE v \in {LowerBound(p) : p \in observed} :
               /\ Cardinality({p \in observed : LowerBound(p) > v}) < top_k
               /\ Cardinality({p \in observed : LowerBound(p) >= v}) >= top_k
           competing == {p \in observed : UpperBound(p) >= threshold}
           anyUnseen == IF UnseenUpperBound >= threshold THEN 1 ELSE 0
<1>7. CompetitiveMissingCounts = Demand(competing, anyUnseen)
  BY Zenon DEF CompetitiveMissingCounts
<1>8. competing \in SUBSET observed /\ anyUnseen \in {0, 1}
  BY Zenon, <1>4
<1> HIDE DEF Demand, competing, anyUnseen
<1> QED
  BY Zenon, <1>6, <1>7, <1>8

(* A call that goes on to pull has a source that it may pull: not everything
   is read, or the check before it would have succeeded, and not every source
   is at its pause target. *)
LEMMA ProceedLeavesAChoice ==
    ASSUME SessionInv, LoopInv, Proceed
    PROVE  (\E s \in Sources : Eligible(s))'
<1>1. ~all_sources_exhausted
  BY Zenon, FixedAtTheEnd DEF Proceed, CheckDue, SessionInv, IInv
<1>2. \E s \in Sources : Eligible(s)
  BY <1>1 DEF Proceed, pause_reached, all_sources_exhausted, Eligible, LoopInv,
              SessionInv, IInv, TypeOK
<1> QED
  BY Zenon, <1>2 DEF Proceed, Eligible, vars

(* Every step keeps LoopInv. *)
LEMMA LoopInvStep == SessionInv /\ LoopInv /\ [SessionNext]_all_vars => LoopInv'
<1> SUFFICES ASSUME SessionInv, LoopInv, [SessionNext]_all_vars
             PROVE  LoopInv'
  BY Zenon
<1> USE DEF LoopInv, NoTarget
<1>0. CompetitiveMissingCounts \in [Sources -> Int]
  BY Zenon, DemandType DEF SessionInv, IInv
<1>1. CASE ReturnKeptPrefix
  BY Zenon, <1>1 DEF ReturnKeptPrefix, Return, InLoop, schedule_vars
<1>2. CASE ReturnFixed
  BY Zenon, <1>2 DEF ReturnFixed, Return, InLoop
<1>3. CASE ReturnPaused
  <2>1. competitive_missing' \in [Sources -> Int]
    BY Zenon, <1>0, <1>3 DEF ReturnPaused, AfterFailedChecks
  <2> QED
    BY Zenon, <1>3, <2>1 DEF ReturnPaused, Return, InLoop
<1>4. CASE Proceed
  <2>1. competitive_missing' \in [Sources -> Int]
    BY Zenon, <1>0, <1>4 DEF Proceed, AfterFailedChecks
  <2> QED
    BY Zenon, <1>4, <2>1, ProceedLeavesAChoice DEF Proceed
<1>5. ASSUME NEW s \in Sources, Account(s)
      PROVE  wait' \in [Sources -> Nat]
  BY <1>5 DEF Account
<1>6. ASSUME NEW s \in Sources, NEW b \in Deliveries(s), Pull(s, b)
      PROVE  LoopInv'
  <2>1. wait' \in [Sources -> Nat]
    BY Zenon, <1>5, <1>6 DEF Pull
  <2> QED
    BY Zenon, <1>6, <2>1 DEF Pull, InLoop
<1>7. ASSUME NEW s \in Sources, NEW b, RejectBatch(s, b) \/ StreamFails(s)
      PROVE  LoopInv'
  <2>1. wait' \in [Sources -> Nat]
    BY Zenon, <1>5, <1>7 DEF RejectBatch, StreamFails
  <2> QED
    BY Zenon, <1>7, <2>1 DEF RejectBatch, StreamFails, Return, InLoop
<1>8. ASSUME NEW k, RunToPrefix(k)
      PROVE  LoopInv'
  BY Zenon, <1>8 DEF RunToPrefix, Begin, NoTargets, InLoop
<1>9. ASSUME NEW k, RefuseShorterPrefix(k)
      PROVE  LoopInv'
  BY Zenon, <1>9 DEF RefuseShorterPrefix, InLoop, schedule_vars
<1>10. ASSUME NEW targets \in PauseTargets, AdvanceUntilEach(targets)
       PROVE  LoopInv'
  BY Zenon, <1>10, SessionAssumption DEF AdvanceUntilEach, Begin, InLoop, schedule_vars
<1>11. ASSUME NEW s \in Sources, NEW r \in Rankings, Replace(s, r)
       PROVE  LoopInv'
  BY <1>11, SMTT(20) DEF Replace, InLoop, schedule_vars
<1>12. CASE Done \/ UNCHANGED all_vars
  BY Zenon, <1>12 DEF Done, all_vars, vars, session_vars, schedule_vars, InLoop, Eligible
<1> QED
  BY <1>1, <1>2, <1>3, <1>4, <1>6, <1>7, <1>8, <1>9, <1>10, <1>11, <1>12, Zenon
     DEF SessionNext, Step, Calls

(* The expect() of select_source_to_advance never fires: whatever the
   scheduler, the fairness window, the pause targets and the failures, a call
   that goes on to pull has exactly one source to pull. *)
THEOREM SelectionIsDefined == SessionSpec => []SomeSourceToAdvance
<1>1. SessionInit => LoopInv
  <2> SUFFICES ASSUME SessionInit PROVE LoopInv
    BY Zenon
  <2>1. top_k \in Int
    BY TopKAssumption DEF SessionInit, Init
  <2> QED
    BY <2>1 DEF SessionInit, LoopInv, NoTargets, NoTarget, InLoop, MaxOf
<1>2. SessionInv /\ LoopInv => SomeSourceToAdvance
  BY Zenon, ExactlyOneSelected DEF LoopInv, SomeSourceToAdvance
<1> QED
  BY <1>1, <1>2, LoopInvStep, SessionInvariant, PTL DEF SessionSpec, all_vars
=============================================================================
