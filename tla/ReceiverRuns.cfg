SPECIFICATION FairSpec
CONSTANTS
  Ids = {1, 2, 3}
  Runs = {1, 2}
  Resources = {1, 2, 3}
  Owner <- MCOwner
  Payload <- MCPayload
  Modes = {"signed", "unsigned", "off"}
  Defects = {"none", "large", "bare", "forged", "garbled"}
  Slots = {1}
  MaxEntries = 1
  MaxReceived = 3
  MaxProcesses = 2
INVARIANTS TypeOK AttachedExactlyOnce EvidenceBelongs
PROPERTY ShutdownEnds
CHECK_DEADLOCK FALSE
