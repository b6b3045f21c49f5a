CONSTANTS
  None = None
  Config <- Parameters
  SourceInfo <- ThreeSources
  MarketInfo <- FiveMinutes
  Enabled = {"late_window_directional_ev", "low_price_lottery_ev"}
  Historical <- OneMinuteCandles
  DirectionalUp <- UpModel
  LotteryUp <- UpModel
  LatencyRisk <- Risk
  Events <- Books
  ScanResults <- Scans
  InitialScans <- Unopened
  InitiallyHeard <- SpotHeard
  SourcePrices <- Prices
  AssetStats <- Stats
  Predictions <- Kinds
  InitialLogs <- Logs
  CaptureDelay = 1
  PublishEvery = 1
  Retain = 2
  MaxLag = 1
  Horizon = 3
  MaxInputs = 3
SPECIFICATION Spec
CHECK_DEADLOCK FALSE
INVARIANT VerifierAgrees
