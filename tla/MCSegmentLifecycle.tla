------------------------- MODULE MCSegmentLifecycle -------------------------
(* Small instances of SegmentLifecycle.  Optimizer tasks and sessions are   *)
(* interchangeable model values.                                           *)
EXTENDS SegmentLifecycle, TLC

Symmetry == Permutations(Jobs) \cup Permutations(Sessions) \cup Permutations(Points)
=============================================================================
