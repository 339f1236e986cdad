SPECIFICATION Spec
CONSTANTS
  r1 = r1
  r2 = r2
  w1 = w1
  w2 = w2
  c1 = c1
  c2 = c2
  Recordings = {r1, r2}
  Workers = {w1, w2}
  Callers = {c1, c2}
  Shards = 2
  ShardOf <- TwoShards
  MaxEpoch = 2
  NoWorker = NoWorker
  Free = Free
SYMMETRY WorkersAndCallers
INVARIANTS
  OneAtATime
  CommitHoldsNewestToken
  NoCircularWait
PROPERTY
  ImplementsFence
