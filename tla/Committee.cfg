SPECIFICATION Spec
CONSTANTS
  c1 = c1
  c2 = c2
  a1 = a1
  a2 = a2
  a3 = a3
  Slots = {c1, c2}
  Agents = {a1, a2, a3}
  Votes <- MCVotes
  Cap = 7
INVARIANTS TypeOK SpendBounded VotesDecide
PROPERTY ConsultEnds
