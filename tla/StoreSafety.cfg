SPECIFICATION StoreCoverageSpec
CONSTANTS
  MaxSession = 2
  MaxSeq = 2
  FaultKinds <- FaultKind
  MaxKinds = 1
  SweepNewest = TRUE
  MaxTime = 7
  MaxBurst = 2
  SessionLimit = 2
  ChunkSlots = 3
  MinFlush = 2
  MaxPending = 1
  PersistFails = TRUE
INVARIANTS
  PublishedPrefixUntilFault
  WaitsOnlyForInFlightUntilFault
  RecoveryComplete
  
PROPERTY
  LogSpec
CHECK_DEADLOCK FALSE
