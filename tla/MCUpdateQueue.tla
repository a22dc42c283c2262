--------------------------- MODULE MCUpdateQueue ---------------------------
(* Two clients on two points, an update of neither being refused.  Either a
   fresh log takes two updates, or five records are found, two of them in the
   Segments, and one update follows. *)
EXTENDS UpdateQueue

CONSTANTS p, q, c1, c2

MCClients == {c1, c2}
MCPoints == {p, q}
MCTargets == {{p}, {q}, {}}
MCFound == {<<0, 0, 2>>, <<5, 2, 1>>}
=============================================================================
