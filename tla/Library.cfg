SPECIFICATION LibrarySpec
CONSTANTS
  NumTopics = 2
  VocabSize = 3
  MaxCount = 1
  TopicPrior <- Skewed
  WordPrior = 1
  Scale = 60
  CacheSizes = {0, 1, 2}
  Goroutines = {1, 2}
  Nil = Nil
  HistTopics = 3
  MaxInt = 7
  Amounts = {1}
  Others <- SomeOthers
  MaxWords = 5
  MaxShards = 6
  Strings = {1, 2, 3, 4}
  Fingerprint <- SomeFingerprint
  VocabFiles <- SomeFiles
  Lines <- SomeLines
  Translations <- SomeTranslations
  Bounds <- SomeBounds
  Processes = {"reader", "aggregator"}
  Reader = "reader"
  MaxLines = 2
  MaxOccurrences = 2
  Surplus = {0, 1}
  Percentages <- SomePercentages
  TopLengths = {1, 5}
  QueryTopics = 3
  Likely = {1}
  QueryLengths = {0, 1, 2}
  Rounds <- SomeRounds
  MaxShown = 1
  Files <- SomeConfigs
INVARIANTS
  CachesMostFrequent
  CoefficientIsExact
  DistsArePosteriors
  NoReaderCrashes
  EntriesAreOrdered
  EveryWordHasOneShard
  ProcessesAgree
  WordsAreKept
  FewestHeaviestWords
  AnswerIsShareOfSamples
  ValidJobsAreWhole
  WorkersFindTheirPlace
PROPERTIES
  IsHist
