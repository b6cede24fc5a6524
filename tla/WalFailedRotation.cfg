CONSTANTS
  MaxLsn = 8
  MaxSeg = 3
  MaxTx = 2
  MaxCkpt = 1
  MaxBatches = 1
  Target = 3
  Flushers = {"flusher", "ckpt"}
  Faults = {}
SPECIFICATION Spec
INVARIANTS
  OpenSucceeds
