SPECIFICATION Spec
CONSTANTS
  Conditions = {c1}
  Bindings <- MCTwoBindings
  BookPairs <- MCBookPairs
  CloseTime <- MCLongCloseTime
  Horizon = 11
  DayLength = 5
  Payout = 40
  MinTick = 4
  BufferPerShare = 2
  GasPerShare = 1
  MinExpectedLockedMargin = 2
  MinHedgeExitMargin <- MCMinHedgeExitMargin
  MinRealizedMargin = 3
  MaxSpreadToJoin = 4
  Leg1MaxImproveCost = 4
  MaxOrphanGiveback = 8
  FeeNum = 7
  FeeDen = 4000
  FillMode = "strict"
  MinOrderSize = 1
  MaxOrderSize = 3
  MinFillNum = 1
  MinFillDen = 2
  MaxNotionalPerMarket = 80
  MaxTotalExposure = 200
  MaxAtRiskExposure = 100
  MaxOrphanLoss = 40
  MaxDailyLoss = 20
  MaxConsecutiveOrphans = 2
  MaxEpisodesPerMarketWindow = 1
  MaxLeg1Requotes = 1
  Leg2MaxImproves = 1
  Leg2ImproveStepTicks = 1
  Leg1Timeout = 1
  Leg2ImproveInterval = 1
  Leg2Timeout = 2
  MaxOrphanSeconds = 3
  DirectionalExitTimeout = 1
  ForceFlatten = 6
  WindowMin = 1
  WindowMax = 10
  CircuitCooldown = 2
INVARIANTS
  TypeOK
  HeldLegHasWayOut
  MakerPairLocksMargin
  HedgedPairBoundsLoss
  MakerExitBoundsGiveback
  FlattenWindowLeavesNothing
  OrphanBoundedWhenEvaluated
