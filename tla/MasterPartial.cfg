SPECIFICATION Spec
CONSTANTS
  c1 = c1
  c2 = c2
  a1 = a1
  a2 = a2
  NoCoord = NoCoord
  Coordinators = {c1}
  Aggregators = {a1, a2}
  Corpus <- ThreeFiles
  LogllPeriod = 0
  Retry = 1
  Digits = 5
  Implemented = {0, 1, 2}
  CreatesParents = TRUE
  Faults = {}
  MaxIteration = 2
  MaxMasterCrashes = 1
  MaxAggregatorCrashes = 1
PROPERTY RecoversWholeModels
CHECK_DEADLOCK FALSE
