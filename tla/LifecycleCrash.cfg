SPECIFICATION Spec
CONSTANTS
  NoFile = NoFile
  Rows <- CrashRows
  Markets <- MarketSet
  Close <- CloseTimes
  Listings <- AllListed
  Limits <- LimitTable
  CombinedPerClose = 1
  CalibrationMode = FALSE
  ExitMode = "ev"
  ExitMinPnl = 1
  ExitMargin = 0
  OrphanAfter = 1
  DayLength = 10
  MaxTime = 1
  MaxLines = 2
  MaxCrashes = 1
  MaxRotations = 0
  MaxTorn = 0
INVARIANT EndsOnce
CHECK_DEADLOCK FALSE
