SPECIFICATION HealthLiveSpec
CONSTANTS
  ReadTimeout = 3
  FirstByte = 0
  MinFlush = 1
  MaxDelay = 4
  MaxFailures = 4
  StaleAfter = 2
  QueueSize = 2
INVARIANTS
  OutageRemembered
  FaultIsShown
PROPERTIES
  OutageClears
