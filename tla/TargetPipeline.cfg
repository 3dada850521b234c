SPECIFICATION PipelineSpec
CONSTANTS
  Symbols = {"BTC", "ETH", "SOL", "DOGE"}
  Top10 = {"BTC", "ETH"}
  Memes = {"DOGE"}
  Alpha = {"SOL"}
  BtcGroup = {"BTC", "ETH", "SOL"}
  EngineMax = 2
  EngineGross = 85
  MinConfidence = 50
  GroupCap = 40
  RiskLevel = 200
  MaxPositions = 2
  MaxGross = 35
  MaxWeight = 20
  MinCash = 70
  Signals <- MCSignals
INVARIANTS TargetTypeOK AlwaysWithinLimits NobodyStrongerLeftOut
INVARIANTS ReplacementsAreExplained NewGroupCapped
