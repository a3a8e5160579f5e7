SPECIFICATION FairSpec
CONSTANTS
  Files = {"f", "g"}
  Lines <- MCLines
  Ends <- MCEnds
  Bad <- MCBad
  None = None
  MaxLoads = 2
  MaxCommands = 5
INVARIANTS TypeOK StorePrefix PartialIsMarked
PROPERTIES PlaybackEnds
CHECK_DEADLOCK FALSE
