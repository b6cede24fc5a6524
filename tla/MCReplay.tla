------------------------------ MODULE MCReplay ------------------------------
(* Bounded instances of Replay for TLC. *)
EXTENDS ReplayInv

AnyFence == {0, 2, 3}
FewBad == {{}, {3}, {5}}
=============================================================================
