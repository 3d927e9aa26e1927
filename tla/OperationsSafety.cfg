SPECIFICATION OperationsSpec
CONSTANTS
 MaxChunks = 2
 MaxTime = 3
 LastCut = 1
 MaxFaults = 2
 MaxRestores = 1
 Policies <- MCPolicies
 Process = {"serve", "smoke", "other"}
 Feed = {"police", "fire"}
 FeedOf <- MCFeedOf
 Nobody = "nobody"
INVARIANTS
 AudioClaimsAreTrue
 OneWorker
 ModelIsWholeUntilKill
PROPERTY AudioLeaves
CHECK_DEADLOCK FALSE
