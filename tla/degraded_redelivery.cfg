SPECIFICATION Spec
CONSTANTS
  stale = stale
  unreachable = unreachable
  btc = btc
  eth = eth
  Modes <- MCModes
  Symbols <- MCSymbols
  Enter <- MCEnter
  Leave <- MCLeave
  Reconciled <- MCReconciled
  Restricting <- MCRestricting
  MaxMeasuredAt = 1
  MaxMeasured = 3
SYMMETRY MCSymmetry
INVARIANT OneRowPerMeasurement
