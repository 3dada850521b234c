SPECIFICATION Spec
CONSTANTS
  b1 = b1
  b2 = b2
  x = x
  y = y
  auto = auto
  Bots = {b1, b2}
  Symbols = {x, y}
  Lists = {auto}
  Asked <- MCAsked
  Failures <- MCFailures
  MaxBoots = 2
  MaxOutbox = 2
INVARIANTS TypeOK NotTwice WireMatches Fed NoLeftovers StoppedStayStopped
PROPERTIES KeepsTheRegister
