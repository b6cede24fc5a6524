CONSTANTS
  w1 = w1
  w2 = w2
  r1 = r1
  Writers <- WriterSet
  Readers <- ReaderSet
  MaxWrites = 3
  MaxReads = 2
  Ops = {"commit_fails", "bg_fails", "flush_fails", "schema", "panic", "panic_live"}
SPECIFICATION Spec
INVARIANTS
  LiveIsTheLog
  ReadsCommitted
  NeverMisused
  EpochNamesGraph
SYMMETRY Symmetry
CHECK_DEADLOCK FALSE
