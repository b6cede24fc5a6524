------------------------------ MODULE MCWalLog ------------------------------
(* Bounded instances of WalLog for TLC. *)
EXTENDS WalLogInv
=============================================================================
