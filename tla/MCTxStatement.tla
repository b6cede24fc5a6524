--------------------------- MODULE MCTxStatement ---------------------------
(* Bounded instances of TxStatement for TLC. *)
EXTENDS TxStatementInv, TLC

CONSTANTS t1, t2
TxSet == {t1, t2}
Symmetry == Permutations(TxSet)
=============================================================================
