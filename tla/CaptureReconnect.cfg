SPECIFICATION LiveSpec
CONSTANTS
  ReadTimeout = 3
  FirstByte = 1
  MinFlush = 1
  MaxDelay = 4
  MaxFailures = 4
PROPERTIES
  Reconnects
