SPECIFICATION FairSpec
CONSTANTS
  Scenarios = {"a", "b", "f"}
  Required = {"a", "b"}
  Selections <- MCSelections
  MaxRuns = 5
INVARIANTS VerdictsReached ExitZeroEarned
PROPERTIES InterruptedEarly ReportsMoveOn CommandEnds
CHECK_DEADLOCK FALSE
