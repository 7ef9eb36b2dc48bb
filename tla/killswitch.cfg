SPECIFICATION Spec
CONSTANTS
  i1 = i1
  i2 = i2
  o1 = o1
  o2 = o2
  t1 = t1
  t2 = t2
  None = None
  Incidents <- MCIncidents
  Operators <- MCOperators
  Trippers <- MCTrippers
  MaxTime = 1
  MaxRows = 4
  ArmValidity = 1
  Freshness = 0
SYMMETRY Symmetry
INVARIANTS TypeOK OpenGateMeansClear RemediationLeavesEvidence ResumeFollowsProcedure FoldIsEarliestOpenTrip 
