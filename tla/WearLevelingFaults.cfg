SPECIFICATION Spec
CONSTANTS
  LOGICAL_SIZE = 70
  LOG_SLOTS = 7
  Bytes = {0, 1, 2}
  Writes <- MultibyteWrites
  SECTOR = 7
  Stray <- StackBytes
  Failing = {"init", "checksum", "read", "unlock", "erase", "write", "lock"}
  MAX_FAULTS = 2
INVARIANTS
  ReplayMatches
  WritesInBounds
PROPERTIES
  ProgramsErased
