------------------------ MODULE MCExactRequestLocks -------------------------
(* Instances of ExactRequestLocks: which Shards the requests select, and who *)
(* shares a Shard with whom.                                                *)
EXTENDS ExactRequestLocks

CONSTANTS s1, s2, r1, r2, u1, u2, o1, o2

\* The two clients list the Shards in opposite orders.
OppositeOrders == [r \in {r1, r2} |-> IF r = r1 THEN <<s1, s2>> ELSE <<s2, s1>>]
NoRequests == [r \in {} |-> <<s1>>]

Contended == [t \in {u1, u2, o1} |-> IF t = u1 THEN s1 ELSE s2]
TwoOptimizers == [t \in {o1, o2} |-> s1]
=============================================================================
