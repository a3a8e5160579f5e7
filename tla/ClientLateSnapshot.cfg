SPECIFICATION FairSpec
CONSTANTS
  MaxEvents = 1
  MaxLen = 2
  MaxEpoch = 2
  UseSse = FALSE
  MaxRetries = 1
  RetriesSuffice = FALSE
  OnDemand = FALSE
  MaxDrops = 0
  MaxLoops = 1
PROPERTY RehydratesAfresh
