----------------------------- MODULE ExactOrder -----------------------------
(***************************************************************************)
(* The order shared by every exact score stream: higher score first, equal *)
(* scores by ascending identity.  A scored point is a record with at least *)
(* the fields id and score.                                                *)
(***************************************************************************)
EXTENDS Integers, Sequences

Before(a, b) == a.score > b.score \/ (a.score = b.score /\ a.id < b.id)

Ordered(w) == \A i, j \in DOMAIN w : i < j => Before(w[i], w[j])

Elements(w) == {w[i] : i \in DOMAIN w}

(* w lists the best Len(w) members of U, best first. *)
IsExactPrefix(w, U) ==
    /\ Ordered(w)
    /\ Elements(w) \subseteq U
    /\ \A a \in Elements(w) : \A b \in U \ Elements(w) : Before(a, b)
=============================================================================
