SPECIFICATION FairSpec
CONSTANTS
  b1 = b1
  b2 = b2
  ingest = ingest
  NoBeat = NoBeat
  Beats <- MCBeats
  Jobs <- MCJobs
  Order <- MCOrder
  Policy <- MCPolicy
  Period <- MCPeriod
  MaxCatchUp <- MCMaxCatchUp
  MaxConcurrent = 1
  MaxTime = 3
  MaxFailures = 1
  MaxDrops = 1
INVARIANTS TypeOK RunAtMostOnce
PROPERTIES VerdictsStand EventuallyClosed
