SPECIFICATION Spec
CONSTANTS
  Live = {l1}
  Backtests = {b}
  Window = 5
  HigherWindow = 3
  PageSize = 2
  Timeframe = "1h"
  Bars <- SoundBars
  Outages <- MCOutages
  MaxTime = 5
  WarmUp = 1
  MinCandles = 2
  CheckEvery = 2
INVARIANTS TypeOK MemoryAgrees NoHoles
PROPERTY CompletedIsWhole
