SPECIFICATION Spec
CONSTANTS
  Snapshots <- MCSnapshots
  RiskLevel = 50
  Steps = {4, 20, 24, 48}
  MaxStops = 3
INVARIANTS TypeOK WithTheTrend EntriesSpaced RepositoriesAgree
