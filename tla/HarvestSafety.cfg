SPECIFICATION AnyCitySpec
CONSTANTS
  home = home
  board = board
  news = news
  agenda = agenda
  packet = packet
  memo = memo
  video = video
  Url <- TownUrl
  Document <- TownDocument
  DocumentUrl <- TownDocumentUrl
  Links <- TownLinks
  Score <- TownScore
  AnchorScore <- TownAnchorScore
  FocusedMinScore = 5
  Seed = home
  SuggestedSeeds <- NoSuggestedSeeds
  MaxVersion = 2
  Versions <- TownVersions
  MaxPages = 2
  FaultKinds <- FaultKind
  MaxKinds = 1
  Outside = {video}
  Sites <- TownSites
  Sitemaps <- TownSitemaps
  HostOf <- TownHosts
  SeedHosts = {"town"}
  PlatformHosts = {"platform"}
  AllowHosts = {"clerk"}
  RecordLike <- TownDocument
  ReconMinScore = 5
  ReconMaxPages = 4
  ListingDocuments = 2
  ListingCivic = 3
  MaxListings = 1
  MaxSuggested = 2
INVARIANTS
  OutputIsRecorded
  UnfinishedFirst
  ProfileReachesWhatWasSeen
PROPERTIES
  NothingForgotten
CHECK_DEADLOCK FALSE
