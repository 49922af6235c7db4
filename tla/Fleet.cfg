SPECIFICATION FleetFairSpec
CONSTANTS
  Instance = {i1, i2}
  None = None
  ReportMaxAge = 1
  historyBucketWidth = 1
  maxHistoryPoints = 2
  Mixes <- MCMixes
INVARIANTS
  ConnectedHonest
  
PROPERTY
  ViewConverges
