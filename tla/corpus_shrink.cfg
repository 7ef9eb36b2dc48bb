SPECIFICATION CorpusSpec
CONSTANTS
  MaxNow = 1
  Grace = 1
  Repairers = {r1}
  MaxFaults = 0
  MaxCrashes = 0
  MaxPasses = 0
  Time <- MCTime
  DayLength = 3
  SealGrace = 2
  MaxLate = 1
  MaxClock = 8
  MaxTapeFaults = 1
  MaxTapePasses = 1
  MonthLength = 4
  LastDay = 9
  MaxHoles = 0
  MaxRuns = 2
  b1 = b1
  b2 = b2
  ingest = ingest
  converge = converge
  NoBeat = NoBeat
  Beats <- MCBeats
  Jobs <- MCJobs
  Order <- MCOrder
  Policy <- MCPolicy
  Period <- MCPeriod
  MaxCatchUp <- MCMaxCatchUp
  MaxConcurrent = 1
  MaxTime = 0
  MaxFailures = 0
  MaxDrops = 0
CHECK_DEADLOCK FALSE
PROPERTY
  NeverShrinks
