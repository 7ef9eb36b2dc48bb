SPECIFICATION Spec
CONSTANTS
  \* risk desk
  Strategies = {1, 2, 3}
  Instruments <- MCInstruments
  Asset <- MCAsset
  Clusters <- MCClusters
  Covariance <- MCCovariance
  Policy <- MCPolicy
  Records <- MCRecords
  Volatility <- MCVolatility
  Equity = 100
  Lot = 2
  MinNotional = 4
  Books <- MCBooks
  Batches <- MCBatches
  MaxRounds = 2
  \* loss limits
  EquityMarks = {1000, 975, 950, 930}
  Budget <- MCBudget
  TicksPerDay = 2
  VelocityTicks = 1
  VelocityRatio = 15
  Observations <- MCObservations
  Thresholds <- MCThresholds
  MaxInstant = 3
  MaxSamples = 4
  MaxRestarts = 1
  \* positions
  Held = {1, 2}
  Sizes <- MCSizes
  Prices = {720, 1440}
  Fees = {1}
  MaxFills = 3
  StartingCash = 5000
  FundingRates = {1}
  MaxBooked = 2
  MaxSettlements = 2
  \* boot
  Setups <- MCSetups
  MaxDrift = 1
  MaxTick = 4
  \* venue calls
  trader = trader
  reconciler = reconciler
  None = None
  Callers <- MCCallers
  Class <- MCClass
  Weight <- MCWeight
  Placing <- MCPlacing
  UsedWeights <- MCUsedWeights
  RetryAfters <- MCRetryAfters
  OrderRate = 2
  WeightPerMinute = 5
  OrderWindow = 1
  WeightWindow = 2
  MaxCallTime = 2
  MaxCalls = 3
  \* degraded modes
  stale = stale
  unreachable = unreachable
  btc = btc
  eth = eth
  Modes <- MCModes
  Symbols <- MCSymbols
  Enter <- MCEnter
  Leave <- MCLeave
  Reconciled <- MCReconciled
  Restricting <- MCRestricting
  MaxMeasuredAt = 1
  MaxMeasured = 3
  \* process
  DATABASE_UNAVAILABLE = DATABASE_UNAVAILABLE
  DATA_STALE = DATA_STALE
  ProcessModes <- MCProcessModes
  TrippingModes <- MCTripping
  MaxStarts = 3
SYMMETRY MCSymmetry
\* The bounds end every behaviour.
CHECK_DEADLOCK FALSE
INVARIANTS
  DeskTypeOK
  BookingsAreReality
  BookInsideMandate
  LossesStaySeen
  StartIsProved
  BudgetsHeld
  EntryNeedsDistinctFaults
  HaltsAndExitsHold
PROPERTIES
  BanSeen
  IncidentHolds
