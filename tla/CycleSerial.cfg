SPECIFICATION Spec
CONSTANTS
  Symbols = {"BTC", "SOL", "DOGE"}
  Top10 = {"BTC"}
  Memes = {}
  Alpha = {"SOL"}
  BtcGroup = {"BTC", "SOL"}
  EngineMax = 2
  EngineGross = 85
  MinConfidence = 50
  GroupCap = 40
  RiskLevel = 50
  MaxPositions = 2
  MaxGross = 85
  MaxWeight = 20
  MinCash = 15
  Signals <- SwingSignals
  Slots = {c1}
  None = None
  Modes = {"swing", "scalping"}
  Overlap = FALSE
  MayRestart = TRUE
  Entries <- MCEntries
INVARIANTS TypeOK WithinPositionLimit
PROPERTIES OnlyAskedClosed StopLossLocks
