SPECIFICATION FairSpec
CONSTANTS
  e1 = e1
  bad = bad
  c1 = c1
  c2 = c2
  Events <- MCEvents
  Malformed <- MCMalformed
  Consumers <- MCConsumers
  BatchSize = 2
  MaxLen = 2
  MaxPublish = 3
  MaxFaults = 1
INVARIANTS TypeOK EffectAtMostOnce NoEventLost HandlerExclusive
PROPERTIES PromiseKept EventuallyDecided
