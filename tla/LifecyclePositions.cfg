SPECIFICATION FairSpec
CONSTANTS
  NoFile = NoFile
  Rows <- PositionRows
  Markets <- MarketSet
  Close <- CloseTimes
  Listings <- AllListed
  Limits <- LimitTable
  CombinedPerClose = 1
  CalibrationMode = FALSE
  ExitMode = "ev"
  ExitMinPnl = 1
  ExitMargin = 0
  OrphanAfter = 1
  DayLength = 10
  MaxTime = 2
  MaxLines = 2
  MaxCrashes = 1
  MaxRotations = 1
  MaxTorn = 0
INVARIANT CrashFreeEndsOnce
PROPERTY PositionsEnd
CHECK_DEADLOCK FALSE
