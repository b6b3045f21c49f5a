SPECIFICATION Spec
CONSTANTS
  Conditions = {c1, c2}
  Bindings <- MCOneBinding
  BookPairs <- MCRiskPairs
  CloseTime <- MCShortCloseTime
  Horizon = 5
  DayLength = 3
  Payout = 40
  MinTick = 4
  BufferPerShare = 2
  GasPerShare = 1
  MinExpectedLockedMargin = 2
  MinHedgeExitMargin <- MCMinHedgeExitMargin
  MinRealizedMargin = 3
  MaxSpreadToJoin = 4
  Leg1MaxImproveCost = 4
  MaxOrphanGiveback = 8
  FeeNum = 7
  FeeDen = 4000
  FillMode = "strict"
  MinOrderSize = 1
  MaxOrderSize = 1
  MinFillNum = 1
  MinFillDen = 2
  MaxNotionalPerMarket = 80
  MaxTotalExposure = 200
  MaxAtRiskExposure = 100
  MaxOrphanLoss = 12
  MaxDailyLoss = 40
  MaxConsecutiveOrphans = 2
  MaxEpisodesPerMarketWindow = 2
  MaxLeg1Requotes = 1
  Leg2MaxImproves = 0
  Leg2ImproveStepTicks = 1
  Leg1Timeout = 0
  Leg2ImproveInterval = 1
  Leg2Timeout = 0
  MaxOrphanSeconds = 0
  DirectionalExitTimeout = 1
  ForceFlatten = 1
  WindowMin = 1
  WindowMax = 8
  CircuitCooldown = 2
SYMMETRY MCSymmetry
INVARIANT CircuitArmed
PROPERTIES
  OpensRespectRisk
  CooldownStands
