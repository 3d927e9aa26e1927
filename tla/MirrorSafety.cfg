SPECIFICATION LiveSpec
CONSTANTS
  home = home
  news = news
  packet = packet
  Url <- MCUrl
  Document <- MCDocument
  Links <- MCLinks
  Seeds <- MCSeeds
  Sitemap <- MCSitemap
  MaxVersion = 2
  MaxPages = 2
  MaxBytes = 3
  MaxArchive = 5
  FaultKinds <- FaultKind
  MaxKinds = 1
INVARIANTS
  RenderedIsRecorded
  WithinArchiveBudget
PROPERTIES
  HidesNothingUntilFault
  NothingStarves
