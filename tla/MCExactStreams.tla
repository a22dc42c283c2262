--------------------------- MODULE MCExactStreams ---------------------------
(* A Segment with three vectors: intervals of scores 1 and 2, one score being
   non-finite, or postings of two terms, one with signed weights, in ranges of
   two.  Two Segments holding up to two of two points each, in any order, with
   scores and versions that agree or conflict.  Two Shards yielding up to two
   of three points each, in any order. *)
EXTENDS ExactStreams

MCOffsets == 0..MaxOffset

MCTerms == 1..2
MCQueryWeight == <<1, 2>>
SignedImpacts == <<{-1, 0, 1}, {0, 1}>>

MCSegments == 1..2
MCCopies == [id : {1, 2}, score : {1, 2, NonFinite}, version : {1, 2}]
MCContents ==
    {<<>>} \cup {<<p>> : p \in MCCopies}
           \cup {w \in {<<p, q>> : p, q \in MCCopies} : w[1].id # w[2].id}

MCShards == 1..2
MCPoints == [id : {1, 2, 3}, score : {1, 2}] \cup {[id |-> 1, score |-> NonFinite]}
MCStreams ==
    {<<>>} \cup {<<p>> : p \in MCPoints} \cup {<<p, q>> : p, q \in MCPoints}
=============================================================================
