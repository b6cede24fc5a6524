CONSTANTS
  MaxLsn = 9
  MaxSeg = 3
  MaxTx = 2
  MaxCkpt = 1
  MaxBatches = 2
  Target = 4
  Flushers = {"flusher", "sync", "ckpt"}
  Faults = {"reordered_pages", "remove_lost"}
SPECIFICATION Spec
INVARIANTS
  TransactionsWhole
