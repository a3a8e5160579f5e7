SPECIFICATION Spec
CONSTANTS
  Files = {"f", "g"}
  Lines <- MCLines
  Ends <- MCEnds
  Bad <- MCBad
  None = None
  MaxLoads = 2
  MaxCommands = 5
INVARIANT LiveTakesThePanes
CHECK_DEADLOCK FALSE
