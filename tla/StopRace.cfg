SPECIFICATION Spec
CONSTANTS
  Symbols = {"BTC", "SOL"}
  Top10 = {"BTC"}
  Memes = {}
  Alpha = {"SOL"}
  BtcGroup = {"BTC", "SOL"}
  EngineMax = 2
  EngineGross = 85
  MinConfidence = 50
  GroupCap = 40
  RiskLevel = 50
  MaxPositions = 1
  MaxGross = 85
  MaxWeight = 20
  MinCash = 15
  Signals <- SwingSignals
  Slots = {c1, c2}
  None = None
  Modes = {"swing"}
  Overlap = TRUE
  MayRestart = FALSE
  Entries <- MCEntries
PROPERTY StopLossLocks
