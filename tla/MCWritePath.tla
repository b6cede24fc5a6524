---------------------------- MODULE MCWritePath ----------------------------
(* Bounded instances of WritePath for TLC. *)
EXTENDS WritePathInv, TLC

CONSTANTS w1, w2, r1
WriterSet == {w1, w2}
ReaderSet == {r1}
Symmetry == Permutations(WriterSet)
=============================================================================
