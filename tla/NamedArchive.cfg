CONSTANTS
  MaxCommits = 2
  MaxRestores = 1
  MaxJobs = 2
  MaxStops = 2
  Ops = {"fail"}
SPECIFICATION Spec
INVARIANTS
  RecoversPromised
  ContainerWhole
CHECK_DEADLOCK FALSE
