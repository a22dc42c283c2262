-------------------------- MODULE MCFlushRecovery --------------------------
EXTENDS FlushRecovery

\* All points start in Segment 1.
Together == {[p \in Points |-> 1]}

\* Segment 1 was indexed by an optimizer; Segment 2 takes the writes.
Indexed == {{2}}

Symmetry == Permutations(Points)
=============================================================================
