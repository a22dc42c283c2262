---------------------------- MODULE MergeSources ----------------------------
(***************************************************************************)
(* What the two merges of exact streams have in common: sources that are   *)
(* read in batches, and a heap with the head of every source.              *)
(***************************************************************************)
EXTENDS ExactCall

VARIABLES
    content,    \* per source, what it yields from first to last
    fetched,    \* per source, the number of points received from it
    taken,      \* per source, the number of points popped from its buffer
    head,       \* per source, {} or {its point in the heap "pending"}
    seen        \* identities emitted

Copies == UNION {Elements(content[s]) : s \in DOMAIN content}

Pending == {s \in DOMAIN head : head[s] # {}}

PointOf(s) == CHOOSE p \in head[s] : TRUE
=============================================================================
