SPECIFICATION Spec
CONSTANTS
  c1 = c1
  c2 = c2
  a1 = a1
  a2 = a2
  NoCoord = NoCoord
  Coordinators = {c1, c2}
  Aggregators = {a1, a2}
  Corpus <- ThreeFiles
  LogllPeriod = 3
  Retry = 1
  Digits = 5
  Implemented = {0, 1, 2}
  CreatesParents = TRUE
  Faults = {"crash", "launch", "recover"}
  MaxIteration = 4
  MaxMasterCrashes = 0
  MaxAggregatorCrashes = 1
SYMMETRY Symmetry
INVARIANT SquadsHoldTheirTasks
INVARIANT NoTaskLost
INVARIANT ReportsAreUnambiguous
INVARIANT CheckpointHasEveryAggregator
PROPERTY TurnoverAdvances
CHECK_DEADLOCK FALSE
