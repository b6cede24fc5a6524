CONSTANTS
  MaxLsn = 5
  MaxSeg = 2
  MaxTx = 1
  MaxCkpt = 0
  MaxBatches = 1
  Target = 3
  Flushers = {"flusher", "sync"}
  Faults = {}
SPECIFICATION Spec
INVARIANTS
  FlushedStaysOnStorage
