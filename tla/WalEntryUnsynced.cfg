CONSTANTS
  MaxLsn = 8
  MaxSeg = 3
  MaxTx = 3
  MaxCkpt = 0
  MaxBatches = 1
  Target = 3
  Flushers = {"flusher"}
  Faults = {"entry_unsynced"}
SPECIFICATION Spec
INVARIANTS
  FsyncedStaysOnStorage
