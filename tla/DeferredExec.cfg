SPECIFICATION Spec
CONSTANTS
  TABLE_COUNT = 3
  TOKEN_MOD = 4
  HALF = 4
  MAX_DELAY = 1
  MAX_STALL = 1
  ROUND_TRIP = FALSE
INVARIANTS
  TokensUnique
PROPERTIES
  ImplementsTimers
  NotInSamePass
  DueRuns
