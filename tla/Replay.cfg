CONSTANTS
  MaxLsn = 7
  Budget = 2
  Fences <- AnyFence
  BadSets <- FewBad
  PrimitiveModes = {TRUE, FALSE}
SPECIFICATION Spec
INVARIANTS
  ReplaysCommitted
  BufferBounded
  OwnLogsReplay
PROPERTIES
  RefusedForCause
CHECK_DEADLOCK FALSE
