SPECIFICATION Spec
CONSTANTS
  Helpers = {"h1", "h2"}
  Lines = 3
  TxCapacity = 1
  RxCapacity = 2
  InnerCapacity = 2
  Sessions <- PlaySessions
  Target = 2
  Start = 4
  Capacity = 5
  Glide = 1
  Frames = 3
  SlirpTx = 3
  PcapTx = 2
  HostRx = 3
  MaxRequests = 3
  PlayFrames = 8
  MaxLoads = 1
INVARIANTS BandsExact HandoffsExact
PROPERTIES WaitsEnd
CHECK_DEADLOCK FALSE
