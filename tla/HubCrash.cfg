CONSTANTS
  MaxLsn = 10
  MaxItems = 3
  MaxCrash = 1
  Feeds = {c1}
  Capacity = 1
  Retentions = {0}
  WalModes = {TRUE}
  Marker = TRUE
  KeepOld = 1
  Ops = {"power_loss", "checkpoint"}
SPECIFICATION Spec
INVARIANTS
  StreamInOrder
  HubHearsDurable
  HistoryTrue
  NothingSkipped
PROPERTIES
  ImplementsStream
CHECK_DEADLOCK FALSE
