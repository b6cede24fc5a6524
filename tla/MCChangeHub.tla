---------------------------- MODULE MCChangeHub ----------------------------
(* Bounded instances of ChangeHub for TLC. *)
EXTENDS ChangeHubInv
=============================================================================
