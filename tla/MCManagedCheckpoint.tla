------------------------ MODULE MCManagedCheckpoint ------------------------
(* Bounded instances of ManagedCheckpoint for TLC. *)
EXTENDS ManagedCheckpointInv
=============================================================================
