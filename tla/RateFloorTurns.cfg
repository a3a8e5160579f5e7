SPECIFICATION FairSpec
CONSTANTS
  Pollers = {p1, p2, p3}
  Gap = 3
  MaxJump = 5
INVARIANT QueueMatches
PROPERTY KeepsFloor
CHECK_DEADLOCK FALSE
