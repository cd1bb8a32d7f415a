SPECIFICATION Spec
CONSTANTS
  LOGICAL_SIZE = 4
  LOG_SLOTS = 4
  Bytes = {0, 1, 2}
  Writes <- WordWrites
  SECTOR = 0
  Stray <- StackBytes
  Failing = {}
  MAX_FAULTS = 2
PROPERTIES
  ImplementsEeprom
