SPECIFICATION Spec
CONSTANTS
  Workers = {w1}
  Sched = s
  Banks = {A}
  NoBank = none
  kJobSlots = 2
  FrameLines = 2
  Modes = {"bg", "vram"}
  MaxLines = 2
  MaxStores = 0
PROPERTIES DrainReturns
CHECK_DEADLOCK FALSE
