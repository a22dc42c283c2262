----------------------------- MODULE RrfScoring -----------------------------
(***************************************************************************)
(* Weighted reciprocal-rank scoring, the tie-break and the exhaustive      *)
(* reference order of lib/segment/src/common/reciprocal_rank_fusion.       *)
(*                                                                         *)
(* Scores are f32 in the code.  The only facts about f32 the algorithm     *)
(* relies on are that the contribution of a rank never grows with the rank *)
(* and that summing contributions is monotone, so division and summation   *)
(* are the constant operators Quotient and Fuse, constrained by exactly    *)
(* these facts; rounding (and the score ties it causes) is allowed.        *)
(***************************************************************************)
EXTENDS Integers, Sequences

CONSTANTS
    Points,          \* point identities, ordered like ExtendedPointId
    Sources,         \* the rank-ordered channels being fused
    Weight,          \* the weight of every source, 0 included
    RrfK,            \* the k of reciprocal-rank fusion
    MaxRank,         \* bound on the length of a source's ranking
    Quotient(_, _),  \* f32 division of a weight by a positive number
    Fuse(_)          \* f32 sum of one contribution per source

(* Contribution of zero-based rank position of source s. *)
PositionScore(s, position) ==
    IF Weight[s] = 0
    THEN 0
    ELSE Quotient(Weight[s], position + 1 + Weight[s] * (RrfK - 1))

(* The contributions a point can have in some source, absence included. *)
Contributions ==
    {0} \cup {PositionScore(s, i) : s \in Sources, i \in 0..MaxRank}

ASSUME PointsAssumption == Points \subseteq Int

ASSUME RankAssumption == MaxRank \in Nat

ASSUME PositionScoreAssumption ==
    \A s \in Sources : \A i, j \in 0..MaxRank + 1 :
        /\ PositionScore(s, i) \in Nat
        /\ i <= j => PositionScore(s, j) <= PositionScore(s, i)

ASSUME FuseAssumption ==
    /\ Fuse([s \in Sources |-> 0]) = 0
    /\ \A f, g \in [Sources -> Contributions] :
        /\ Fuse(f) \in Nat
        /\ (\A s \in Sources : f[s] <= g[s]) => Fuse(f) <= Fuse(g)

-----------------------------------------------------------------------------

(* Higher score first, equal scores by ascending identity. *)
RrfOrder(left, leftScore, right, rightScore) ==
    \/ leftScore > rightScore
    \/ leftScore = rightScore /\ left < right

(* No completion can put the challenger ahead of the winner. *)
GuaranteedBefore(winner, lower, challenger, upper) ==
    \/ lower > upper
    \/ lower = upper /\ winner < challenger

(* A ranking lists each point at most once. *)
IsRanking(r) == \A i, j \in DOMAIN r : r[i] = r[j] => i = j

Rankings == {r \in UNION {[1..n -> Points] : n \in 0..MaxRank} : IsRanking(r)}

IdsOf(r) == {r[i] : i \in DOMAIN r}

(* One-based position of p in r. *)
PositionOf(r, p) == CHOOSE i \in DOMAIN r : r[i] = p

(* The points at the first n places of w. *)
Prefix(w, n) == {w[j] : j \in 1..n}

(***************************************************************************)
(* The exhaustive reference: every ranking is read to its end, the         *)
(* contributions are accumulated, points without a positive score are      *)
(* dropped and the rest are sorted by RrfOrder.  IsExactTopK(rankings,w,k) *)
(* says that w is the first k of that order.                               *)
(***************************************************************************)
FullContribution(rankings, p, s) ==
    IF p \in IdsOf(rankings[s])
    THEN PositionScore(s, PositionOf(rankings[s], p) - 1)
    ELSE 0

RrfScore(rankings, p) ==
    Fuse([s \in Sources |-> FullContribution(rankings, p, s)])

Scored(rankings) == {p \in Points : RrfScore(rankings, p) > 0}

IsExactTopK(rankings, w, k) ==
    /\ IsRanking(w)
    /\ IdsOf(w) \subseteq Scored(rankings)
    /\ \A i \in DOMAIN w : \A q \in Scored(rankings) \ Prefix(w, i) :
           RrfOrder(w[i], RrfScore(rankings, w[i]), q, RrfScore(rankings, q))
    /\ Len(w) <= k
    /\ Len(w) < k => Scored(rankings) \subseteq IdsOf(w)
=============================================================================
