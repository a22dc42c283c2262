---------------------------- MODULE ExactStream -----------------------------
(***************************************************************************)
(* What every exact score stream promises to its consumer.  A stream over  *)
(* a fixed universe of scored points hands out the exact order, prefix by  *)
(* prefix; it reports the end only after the last point; a failure is      *)
(* final and is never reported as an end.  When the material below the     *)
(* stream is corrupt (sound is FALSE: unordered sources, conflicting       *)
(* copies of a point) the order of what is handed out before the           *)
(* corruption is noticed is not promised, but the end is never reported.   *)
(***************************************************************************)
EXTENDS ExactOrder

VARIABLES
    universe,   \* the scored points the stream ranks
    sound,      \* whether what it reads keeps its contract
    emitted,    \* the points handed out so far, in order
    status      \* "open", "eof" or "failed"

stream_vars == <<universe, sound, emitted, status>>

Extends(w, v) == Len(v) <= Len(w) /\ \A i \in DOMAIN v : w[i] = v[i]

StreamInit ==
    /\ emitted = <<>>
    /\ status = "open"

(* A batch of one or more points, which may be announced as the last one. *)
Deliver ==
    /\ status = "open"
    /\ Extends(emitted', emitted)
    /\ sound => IsExactPrefix(emitted', universe)
    /\ status' \in {"open", "eof"}
    /\ status' = "eof" => sound /\ Elements(emitted') = universe
    /\ UNCHANGED <<universe, sound>>

Fail ==
    /\ status = "open"
    /\ status' = "failed"
    /\ UNCHANGED <<universe, sound, emitted>>

StreamNext == Deliver \/ Fail

ExactStreamSpec == StreamInit /\ [][StreamNext]_stream_vars
=============================================================================
