SPECIFICATION GxSpec
CONSTANTS
  DivBits = 2
  RootBits = 4
  Lines = 7
  Visible = 4
  Raster = 5
  Sync = 2
  Settings = {0, 4, 8}
  FlashCells = {0, 1}
  MaxPhase = 1
  Kind = "flash"
  Infrared = TRUE
  ChipCells = {0}
  MaxBytes = 4
  Top = 3
  LastTimer = 1
  Reloads = {1, 2}
  Prescalers = {1, 3}
  IrqBits = {TRUE}
  MaxGap = 7
  MaxTimerWrites = 2
  StartDates <- ClockDates
  DateBytes <- ClockBytes
  AlarmBytes = {128, 228}
  MaxRtcBytes = 4
  MaxSeconds = 2
INVARIANT GxRequestBounded
CHECK_DEADLOCK FALSE
