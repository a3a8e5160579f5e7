SPECIFICATION FairSpec
CONSTANTS
  MaxEvents = 2
  MaxLen = 1
  MaxEpoch = 1
  UseSse = TRUE
  MaxRetries = 1
  RetriesSuffice = FALSE
  OnDemand = FALSE
  MaxDrops = 1
  MaxLoops = 1
INVARIANT TypeOK
PROPERTY BackOnStream
