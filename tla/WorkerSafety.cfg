SPECIFICATION LiveSpec
CONSTANTS
  MaxSession = 2
  MaxSeq = 1
  FaultKinds = {"call", "drop", "late", "commit"}
  MaxKinds = 4
  SweepNewest = FALSE
  MaxPending = 1
INVARIANTS
  NothingWaits
  PublishedIsAnnounced
  SentinelMeansDrained
  NoFileBehind
PROPERTIES
  StopCompletes
  EveryChunkSettles
CHECK_DEADLOCK FALSE
