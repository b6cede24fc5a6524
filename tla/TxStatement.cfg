CONSTANTS
  t1 = t1
  t2 = t2
  Txs <- TxSet
  MaxEvents = 4
  Ops = {"commit_fails"}
SPECIFICATION Spec
INVARIANTS
  StatementsWhole
  CursorOnItsGraph
  NothingKept
PROPERTIES
  CommitsWhole
SYMMETRY Symmetry
CHECK_DEADLOCK FALSE
