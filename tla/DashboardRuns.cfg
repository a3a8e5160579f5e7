SPECIFICATION Spec
CONSTANTS
  None = None
  Logs <- MCLogs
  Runs = {"r1", "r2"}
  Scenarios = {"b", "c", "e"}
  MaxDeliveries = 2
  MaxHydrations = 2
  MaxSelections = 2
INVARIANTS ViewOrderFree WireLogFaithful SummaryCountsLatest AnnouncedRightly
PROPERTIES StatusNodesStay ToastedOnce
CHECK_DEADLOCK FALSE
