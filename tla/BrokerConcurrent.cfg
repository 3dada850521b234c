SPECIFICATION Spec
CONSTANTS
  Symbols = {"BTC"}
  Sessions = {s1, s2}
  NoHolding = NoHolding
  Prices = {4}
  Qtys = {1}
  FeeNum = 1
  FeeDen = 4
  SlipNum = 1
  SlipDen = 4
  InitCash = 11
  MayCrash = TRUE
  MaxRows = 2
SYMMETRY Interchangeable
INVARIANTS TypeOK UniqueOpen Balanced NoOverdraft
PROPERTIES UntaintedStepsKeepTheLedger ClosedOnce
