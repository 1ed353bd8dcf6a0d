SPECIFICATION Spec
CONSTANTS
  NumTopics = 2
  VocabSize = 2
  Corpus <- ThreeDocs
  Nil = Nil
  Programs = {"multithread", "singlethread"}
  FlagShards = 2
  GibbsIter = 3
  OptimStart = 0
  EvalLag = 2
  Shape = FALSE
  BorderDraws = FALSE
INVARIANTS
  EntriesArePositive
  PriorsAreCurrent
  TokensCountOnce
PROPERTIES
  DeadTopicsStayDead
  IsTraining
  Terminates
