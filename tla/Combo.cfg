SPECIFICATION Spec
CONSTANTS
  Keys = {"a", "b", "c", "d", "x"}
  SwitchKey = "x"
  Builds <- MixedBuilds
  COMBO_KEY_BUFFER_LENGTH = 4
  COMBO_TERM = 1
  COMBO_HOLD_TERM = 2
  MAX_STALL = 2
  CLOCK_ZERO = FALSE
INVARIANTS
  PressHandedOn
  NothingStuck
  UsedOnce
PROPERTIES
  FiresAsConfigured
  EventuallyHandedOn
