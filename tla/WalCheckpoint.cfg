CONSTANTS
  MaxLsn = 10
  MaxSeg = 4
  MaxTx = 3
  MaxCkpt = 1
  MaxBatches = 1
  Target = 3
  Flushers = {"flusher", "ckpt"}
  Faults = {"remove_lost"}
SPECIFICATION Spec
INVARIANTS
  TypeOK
  FsyncedStaysOnStorage
  SnapshotMatchesFence
  RefusedForMarker
  CorruptForMarker
PROPERTIES
  FsyncedRecovered
  AppendsGrow
  ImplementsDurableLog
