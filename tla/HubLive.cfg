CONSTANTS
  MaxLsn = 8
  MaxItems = 2
  MaxCrash = 0
  Feeds = {c1}
  Capacity = 1
  Retentions = {0, 1}
  WalModes = {TRUE, FALSE}
  Marker = TRUE
  KeepOld = 1
  Ops = {"fsync_fails", "close", "restore", "retention", "catalog"}
SPECIFICATION LiveSpec
INVARIANTS
  RestoresAnnounced
  LiveComplete
PROPERTIES
  ParkedReleased
  EveryBatchHeard
CHECK_DEADLOCK FALSE
