SPECIFICATION Spec
CONSTANTS
  w1 = w1
  Runs = {1, 2}
  Webhooks = {w1}
  Target <- MCTarget
  MaxEvents = 2
  BackwardClock = FALSE
  MaxClock = 1
  MaxSteps <- MCMaxSteps
  MaxCrashes = 2
  MaxLossy = 1
INVARIANTS TypeOK DeliveryComplete CursorsSeparate EvidenceSurvives
PROPERTIES ImplementsFeed LifecycleSpec
CHECK_DEADLOCK FALSE
