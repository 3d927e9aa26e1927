SPECIFICATION AtlasSpec
CONSTANTS
  Threads <- MCThreads
  MaxBuilds = 2
  MaxLocks = 2
  MaxKills = 1
  MaxLoads = 2
  MaxReads = 1
  MaxEvents = 2
INVARIANTS
  DatasetSurvives
  OneDataset
CHECK_DEADLOCK FALSE
