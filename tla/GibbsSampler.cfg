SPECIFICATION Spec
CONSTANTS
  w1 = w1
  w2 = w2
  NumTopics = 3
  Words = {w1, w2}
  Corpus <- TwoDocs
  WordPrior = 1
  TopicPriors <- Priors
  InitPrior <- Flat
  Scale = 60
INVARIANTS
  CountsMatchTopics
  DrawsFromTheModel
  DiffIsTheUpdate
