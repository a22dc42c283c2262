------------------------------ MODULE DiskFile ------------------------------
(***************************************************************************)
(* A file of fixed-size units that is written in place: what it shows, and *)
(* for each unit the values a power loss may leave there, which are those  *)
(* it had since the file was last flushed.                                 *)
(***************************************************************************)
EXTENDS Functions

File(units, zero) == [now |-> [u \in units |-> zero], left |-> [u \in units |-> {zero}]]

Stored(f, new) ==
    [now |-> [u \in DOMAIN f.now |-> IF u \in DOMAIN new THEN new[u] ELSE f.now[u]],
     left |-> [u \in DOMAIN f.now |->
                  IF u \in DOMAIN new THEN f.left[u] \cup {new[u]} ELSE f.left[u]]]

Flushed(f) == [f EXCEPT !.left = [u \in DOMAIN f.now |-> {f.now[u]}]]

\* New units are zero until they are written.
Grown(f, units, zero) ==
    [now |-> [u \in units |-> IF u \in DOMAIN f.now THEN f.now[u] ELSE zero],
     left |-> [u \in units |-> IF u \in DOMAIN f.now THEN f.left[u] ELSE {zero}]]

\* The files a power loss may leave.
Leavings(f) ==
    {Flushed([f EXCEPT !.now = now]) :
        now \in {g \in [DOMAIN f.now -> UNION Range(f.left)] :
                    \A u \in DOMAIN g : g[u] \in f.left[u]}}
=============================================================================
