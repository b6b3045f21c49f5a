SPECIFICATION Spec
CONSTANTS
  NoFile = NoFile
  Rows <- AllRows
  Markets <- MarketSet
  Close <- CloseTimes
  Listings <- AllListed
  Limits <- LimitTable
  CombinedPerClose = 1
  CalibrationMode = FALSE
  ExitMode = "ev"
  ExitMinPnl = 1
  ExitMargin = 0
  OrphanAfter = 1
  DayLength = 10
  MaxTime = 2
  MaxLines = 2
  MaxCrashes = 1
  MaxRotations = 0
  MaxTorn = 1
INVARIANT TypeOK
INVARIANT LoggedTradesCounted
INVARIANT CheckpointKeepsUp
INVARIANT ScoredOnce
INVARIANT InventoryIsLatest
 
CHECK_DEADLOCK FALSE
