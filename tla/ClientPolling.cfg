SPECIFICATION FairSpec
CONSTANTS
  MaxEvents = 2
  MaxLen = 3
  MaxEpoch = 3
  UseSse = FALSE
  MaxRetries = 1
  RetriesSuffice = FALSE
  OnDemand = TRUE
  MaxDrops = 0
  MaxLoops = 1
INVARIANT NoSilentGap
PROPERTY Converges
