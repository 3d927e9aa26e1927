SPECIFICATION SourcesSpec
CONSTANTS
  dated = dated
  second = second
  Meetings = 2
  Path <- BothPaths
  ExpectedFile <- MCExpected
  DatedFile <- MCDated
  NoCaptions = {}
  NoVideo = {}
  Clip = {}
  Offered <- MCOffered
  Impersonate = FALSE
  Line <- MCLine
  LineLen <- MCLineLen
  MaxChars = 7
  Speeches <- MCSpeeches
  Selections <- MCSelections
  MaxIncidents = 1
  ChunkChars = 5
  Limits <- MCLimits
  Row = {1, 2, 3, 4}
  RowText = {"", "tow", "plat", "fine"}
  DataSets <- MCDataSets
  PageSize = 2
  Caps = {1}
  PullLimits = {0, 2}
  MaxChanges = 2
INVARIANTS
  RecordsFaithful
  CatalogTrue
PROPERTIES
  NothingLost
