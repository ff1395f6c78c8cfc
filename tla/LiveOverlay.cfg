SPECIFICATION Spec
CONSTANTS
  a1 = a1
  a2 = a2
  g1 = g1
  b1 = b1
  A = A
  B = B
  Shards = {a1, a2, g1, b1}
  Compiled = {a1, a2}
  Shard <- ShardTable
  Gens = {A, B}
  Launches <- SessionLaunches
  kDormantMaxAttempts = 3
  kDormantMaxCandidates = 1
  MaxRuns = 2
  None = None
INVARIANTS NothingLost OneAtATime
PROPERTIES WithheldWorkIsFiled ShutdownReturns
CHECK_DEADLOCK FALSE
