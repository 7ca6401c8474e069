SPECIFICATION CollectSpec
CONSTANTS
  NULL = NULL
  Sites <- MCSites
  IpLiterals <- MCIpLiterals
  KnownSources <- MCKnownSources
  Campaigns <- MCCampaigns
  DottedPaths <- MCDottedPaths
  keyFor <- MCKeyFor
  TrustedProxy = TRUE
  Visits <- MCVisits
  Keys <- MCKeys
  Capacity = 1
  PerToken = 2
  Ttl = 3
  MaxBack = 1
  MaxNow = 4
  MaxCalls = 2
  MaxVisits = 2
INVARIANTS
  WindowIsBounded
  IdleIsForgotten
  
  OwnPagesAreInternal
  SitesMatchEvents
PROPERTY BucketSpec
