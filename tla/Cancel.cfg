SPECIFICATION Spec
CONSTANTS
  Live = {l1}
  Backtests = {b}
  Window = 2
  HigherWindow = 1
  PageSize = 2
  Timeframe = "1h"
  Bars <- MCBars
  Outages <- MCOutages
  MaxTime = 3
  WarmUp = 1
  MinCandles = 2
  CheckEvery = 2
CHECK_DEADLOCK FALSE
PROPERTY CancelHonoured
