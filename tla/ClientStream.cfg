SPECIFICATION FairSpec
CONSTANTS
  MaxEvents = 3
  MaxLen = 3
  MaxEpoch = 3
  UseSse = TRUE
  MaxRetries = 2
  RetriesSuffice = TRUE
  OnDemand = FALSE
  MaxDrops = 1
  MaxLoops = 1
INVARIANT NoSilentGap
PROPERTY Converges
