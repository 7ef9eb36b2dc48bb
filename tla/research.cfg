SPECIFICATION Spec
CONSTANTS
  \* backtest
  Tapes <- MCTapes
  OrderShapes <- MCShapes
  Latency <- MCLatency
  FillGap = 1
  RateBudget = 2
  RateWindow = 6
  Depth <- MCDepth
  BandTicks = 4
  HalfSpread = 1
  Filters <- MCFilters
  Interval = 4
  WarmUpBars = 1
  EndAt = 21
  EventBudget = 10
  MaxOrders = 3
  \* trial ledger
  clerk1 = clerk1
  clerk2 = clerk2
  Clerks <- MCClerks
  Specifications <- MCSpecifications
  NoClerk = NoClerk
  MaxExecutions = 2
  MaxRows = 5
  \* evolution record
  Curators = {1}
  Records <- MCRecords
  Decisions <- MCDecisions
  MaxEventSeq = 7
  \* validation
  Protocols <- MCProtocols
  Gradings <- MCGradings
  MaxFailures = 2
  \* features
  Features <- MCFeatures
  Marks = {1, 2}
  Lookbacks = {1, 2}
  SourceLag = 1
  Tolerance = 1
  MaxTick = 4
  MaxRates = 2
  \* archive
  Dates = {11, 12}
  DayTicks = 4
  Cutover = 12
  Scale <- MCScale
  EarliestPlausible = 40
  BarTicks = 1
  Versions <- MCVersions
  Files <- MCFiles
  ResidualPer = 3
  OhlcPer = 4
  MaxAttempts = 2
  MaxRuns = 2
  MaxChanges = 1
  \* strategies
  Catalogues <- MCCatalogues
  Lookback <- MCLookback
  Quotes = {3, 41}
  TickSize = 4
  Symbols = {"btc", "eth"}
  Lengths = {1, 2}
  Offered <- MCOffered
  MaxBarTime = 4
SYMMETRY MCSymmetry
\* The bounds end every behaviour.
CHECK_DEADLOCK FALSE
INVARIANTS
  ResearchTypeOK
  RunIsHonest
  LedgerHolds
  EvolutionRecordHolds
  SchemaHolds
  ValidationHolds
  DataHolds
