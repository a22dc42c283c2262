------------------------ MODULE MCDynamicRrfSession -------------------------
(* Small sessions: integer scores, Scale a common multiple of the divisors. *)
EXTENDS DynamicRrfSession, Functions

Scale == 12
MCQuotient(w, d) == (Scale * w) \div d
MCFuse(f) == SumFunction(f)

ThreeSources == 1..3
ThreeWeights == <<3, 1, 1>>
ThreeCosts == <<1, 1, 2>>
ThreeTargets == {<<1, 2, NoTarget>>}
=============================================================================
