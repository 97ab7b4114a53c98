CONSTANTS
  CATTL = 11
  Backdate = 1
  SVIDTTL = 5
  Grace = 6
  PruneInterval = 6
  UpstreamBundle = TRUE
  RootExpiry = 15
  MaxTime = 18
  MaxFailures = 2
  MaxBoots = 2

SPECIFICATION SVIDSpec

INVARIANTS
  SigningKeyMatches
  SignerIsPublished
  ServingCAFound
  ServedChainIsRecent

PROPERTIES
  PublishedAheadOfUse

\* At the bound on time, the server waits for a tick that does not come.
CHECK_DEADLOCK FALSE
