SPECIFICATION CorpusSpec
CONSTANTS
  MaxNow = 3
  Grace = 1
  Repairers = {r1, r2}
  MaxFaults = 1
  MaxCrashes = 1
  MaxPasses = 2
  Time <- MCTime
  DayLength = 3
  SealGrace = 2
  MaxLate = 1
  MaxClock = 8
  MaxTapeFaults = 2
  MaxTapePasses = 1
  MonthLength = 4
  LastDay = 9
  MaxHoles = 1
  MaxRuns = 2
  b1 = b1
  b2 = b2
  ingest = ingest
  converge = converge
  NoBeat = NoBeat
  Beats <- MCBeats
  Jobs <- MCJobs
  Order <- MCOrder
  Policy <- MCPolicy
  Period <- MCPeriod
  MaxCatchUp <- MCMaxCatchUp
  MaxConcurrent = 1
  MaxTime = 2
  MaxFailures = 1
  MaxDrops = 0
\* The bounds end every behaviour.
CHECK_DEADLOCK FALSE
SYMMETRY MCSymmetry
INVARIANTS
  CorpusTypeOK
  HolesRecorded
  ResolvedMeansHeld
  NoPrintLost
  FinishedRunHolds
  NoHoles
  SoleRunner
PROPERTY
  ArchiveNeverNarrows
