SPECIFICATION Spec
CONSTANTS
  LOGICAL_SIZE = 70
  LOG_SLOTS = 7
  Bytes = {0, 1, 2}
  Writes <- MultibyteWrites
  SECTOR = 7
  Stray <- StackBytes
  Failing = {}
  MAX_FAULTS = 1
INVARIANTS
  TornIsPrefix
