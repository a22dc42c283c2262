-------------------------- MODULE MCReplicaRecovery --------------------------
(***************************************************************************)
(* Small instances of ReplicaRecovery.                                     *)
(***************************************************************************)
EXTENDS ReplicaRecovery

\* Replicas that coordinate no updates are interchangeable.
Symmetry == Permutations(Replicas \ Clocks)
=============================================================================
