CONSTANTS
  MaxLsn = 10
  MaxItems = 4
  MaxCrash = 0
  Feeds = {c1}
  Capacity = 1
  Retentions = {0, 1}
  WalModes = {TRUE}
  Marker = FALSE
  KeepOld = 1
  Ops = {"restore"}
SPECIFICATION Spec
INVARIANTS
  RestoresAnnounced
CHECK_DEADLOCK FALSE
