SPECIFICATION Spec
CONSTANTS
  MaxRound = 3
  IndexBytes = {"write", "read"}
  Builds = {"b1"}
INVARIANT WholeMachine
CHECK_DEADLOCK FALSE
