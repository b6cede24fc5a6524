CONSTANTS
  MaxLsn = 6
  MaxIds = 3
  MaxJobs = 3
  every = 2
  keep_old = 1
  Ops = {"restore", "behind", "fail", "crash"}
SPECIFICATION LiveSpec
INVARIANTS
  RecoversDurable
PROPERTIES
  CheckpointsEnd
CHECK_DEADLOCK FALSE
