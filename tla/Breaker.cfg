SPECIFICATION FairSpec
CONSTANTS
  Calls = {c1, c2, c3}
  Threshold = 3
  ResetTimeout = 2
  MaxAttempts = 2
INVARIANTS TypeOK OpenMeansFailing SentBounded
PROPERTY CallsEnd
