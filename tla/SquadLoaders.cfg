SPECIFICATION Spec
CONSTANTS
  NumVShards = 2
  Chunks <- OneChunk
  Implemented = {"INIT"}
  Retry = 1
  MaxKinds = 1
  MaxCrashes <- Once
  Faults = {"loader"}
INVARIANTS
  AllLoadersRegistered
CHECK_DEADLOCK FALSE
