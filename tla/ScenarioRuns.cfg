SPECIFICATION FairSpec
CONSTANTS
  Chosen = {"a", "b", "c", "d", "e", "f", "g", "h", "i",
            "c_live", "d_live", "g_live", "payout"}
  Plans <- MCPlans
  MaxAttempts = 3
  Delays = {1, 2}
  FastDelay = 1
  HardTimeout = 6
  MaxLag = 2
INVARIANTS EvidenceFaithful VerdictFinal FailureHasCause CreatedOnce
PROPERTIES TimeoutIsEarned Completes
CHECK_DEADLOCK FALSE
