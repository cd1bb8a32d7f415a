SPECIFICATION Spec
CONSTANTS
  ROWS = {1, 2}
  COLS = {1, 2}
  Builds <- MCBuilds
  DEBOUNCE = 2
  MAX_STALL = 3
INVARIANTS
  Spaced
  Settles
PROPERTIES
  Deferred
  NoPhantom
