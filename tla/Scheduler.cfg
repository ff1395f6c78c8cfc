SPECIFICATION SystemSpec
CONSTANTS
  kIterCap = 2
  kMargin = 1
  Never = 1000
  MaxCost = 2
  MaxDebt = 2
  Refill = 1
  Gaps = {1, 3}
  Horizon = 2
  CodeCap = 64
  CodeMargin = 8
  IdleNever = 100000
  IdleGaps = {1, 8, 64, 71, 72, 137}
  IdleHorizon = 65
INVARIANTS FastForwardExact TypeOK ContextIntegrity TimelinesTogether FastForwardPrecondition
CHECK_DEADLOCK FALSE
