SPECIFICATION MachineSpec
CONSTANTS
  Quantum = 3
  Costs = {1, 2}
  Refill = 1
  Debts = {0, 1}
  MaxDepth = 2
  Cpus = {"arm7"}
  Modes = {1, 2}
  Rows <- RowTable
  InitRows <- FirstRows
  Sites = {"k1"}
  Images <- SavedImages
  Written = {"ram", "wram"}
  Values = {"a", "b"}
  MaxPages = 2
  GuardCap = 1
  EpochTop = 2
  MaxWrites = 2
  MaxEvents = 2
  ControlValues <- ControlTable
  Regions = {0, 1}
  RegionValues <- RegionTable
  DtcmBases = {16384}
  TcmSizes = {5, 17, 23}
  WramModes = {1, 2, 3}
  Targets = {8, 16384}
  Cp15Images <- SavedRegisters
  MaxTimingGen = 3
  Mappings <- Remaps
  MaxGen = 4
  SaveGen = 2
  Overlap = TRUE
  Scales = {1, 2}
  MaxFrames = 5
INVARIANTS NoServiceMissed NoStaleCode
           EntryProved MirrorsExact VramExact FramesFresh SpuExact
CHECK_DEADLOCK FALSE
