CONSTANTS
  Labels = {l1}
  Values = {v1}
  NoValue = NoValue
  DeferMin = 1
  MaxNodes = 2
  MaxRels = 2
  MaxOps = 6
SPECIFICATION Spec
INVARIANTS
  ListsTellRecords
  ReplayRebuilds
  NetApplies
