SPECIFICATION Spec
CONSTANTS
  NumTopics = 2
  VocabSize = 2
  MaxCount = 2
  TopicPrior <- Skewed
  WordPrior = 1
  Scale = 60
  CacheSizes = {0}
  Goroutines = {1}
  Nil = Nil
INVARIANTS
  SamplerSavesTheSum
