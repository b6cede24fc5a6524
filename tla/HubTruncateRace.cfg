CONSTANTS
  MaxLsn = 13
  MaxItems = 4
  MaxCrash = 0
  Feeds = {c1}
  Capacity = 1
  Retentions = {0}
  WalModes = {TRUE}
  Marker = TRUE
  KeepOld = 1
  Ops = {"checkpoint", "truncate_replay"}
SPECIFICATION Spec
INVARIANTS
  NothingSkipped
CHECK_DEADLOCK FALSE
