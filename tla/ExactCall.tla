----------------------------- MODULE ExactCall ------------------------------
(***************************************************************************)
(* One call of a consumer for the next batch of an exact score stream: what *)
(* every layer that hands out ranked points keeps of it.                   *)
(***************************************************************************)
EXTENDS ExactOrder, FiniteSets

CONSTANTS
    NonFinite,      \* the score standing for NaN and the infinities
    MaxResults      \* batch sizes a consumer may ask for

ASSUME CallAssumption == MaxResults \subseteq Nat \ {0}

VARIABLES
    asked,      \* max_results of the call in progress, 0 between calls
    output,     \* points collected by the call in progress
    emitted,    \* points returned to the consumer
    status      \* "open", "eof" or "failed" (terminal_error)
=============================================================================
