SPECIFICATION LiveSpec
CONSTANTS
  MaxNow = 2
  Grace = 1
  Repairers = {r1}
  MaxFaults = 1
  MaxCrashes = 0
  MaxPasses = 0
CHECK_DEADLOCK FALSE
PROPERTY GapsNeverForgotten
