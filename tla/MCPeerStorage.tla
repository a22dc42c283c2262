--------------------------- MODULE MCPeerStorage ---------------------------
(* Two points, both in Segment 1; a log of files with two records that is new,
   restored from a snapshot, or found with one full file; a peer that joins the
   consensus; a payload storage with two offsets and pages of two blocks; a
   Segment with two points that are flushed. *)
EXTENDS PeerStorage

\* All points start in Segment 1.
Together == {[p \in Points |-> 1]}

\* Segment 1 was indexed by an optimizer; Segment 2 takes the writes.
Indexed == {{2}}

Symmetry == Permutations(Points)

NewRestoredAndFull ==
    {[start |-> 0, full |-> FALSE], [start |-> 1, full |-> FALSE],
     [start |-> 2, full |-> TRUE]}

\* The points of the Segment whose files are modelled, in either order.
BothFlushed == {points \in Externals \X Externals : points[1] # points[2]}
=============================================================================
