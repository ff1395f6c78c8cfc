SPECIFICATION PoolsSpec
CONSTANTS
  Workers = {w1, w2}
  Sched = s
  Banks = {A, B}
  NoBank = none
  kJobSlots = 2
  FrameLines = 2
  Modes = {"bg"}
  MaxLines = 3
  MaxStores = 1
INVARIANTS AsInline ClaimsAccounted FencedClaimsAccounted
PROPERTIES MemoryStill DrainReturns
CHECK_DEADLOCK FALSE
