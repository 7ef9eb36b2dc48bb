SPECIFICATION Spec
CONSTANTS
  DATABASE_UNAVAILABLE = DATABASE_UNAVAILABLE
  DATA_STALE = DATA_STALE
  ProcessModes <- MCModes
  TrippingModes <- MCTripping
  MaxStarts = 3
INVARIANT ModeHaltNeedsHuman
