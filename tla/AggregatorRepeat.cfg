SPECIFICATION Spec
CONSTANTS
  a1 = a1
  a2 = a2
  l1 = l1
  l2 = l2
  w1 = w1
  w2 = w2
  Nil = Nil
  Aggregators = {a1, a2}
  Loaders <- OneLoader
  Words = {w1, w2}
  Occurrences <- Shards
  Batches = 1
  MaxTurnovers = 2
INVARIANTS
  GlobalIsSum
CHECK_DEADLOCK FALSE
