SPECIFICATION FairSpec
CONSTANTS
  NumVShards = 2
  Chunks <- TwoChunks
  Implemented = {"INIT"}
  Retry = 1
  MaxKinds = 1
  MaxCrashes <- Times
  Faults = {"sampler", "loader", "coordinator", "interrupt", "launch", "shard", "master"}
INVARIANTS
  TypeOK
  CompletedChunksAreLoaded
  CountsStandForWorkers
  LoadedOnce
PROPERTIES
  LoadsOrGivesUp
  IsLoading
CHECK_DEADLOCK FALSE
