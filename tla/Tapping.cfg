SPECIFICATION Spec
CONSTANTS
  T = T  U = U  V = V  A = A  B = B  S = S  M = M  NoKey = NoKey
  Keys = {T, U, V, A, B, S, M}
  MAX_LAYER = 2
  Codes <- MCCodes
  Mods = {"shift"}
  keymap <- MCKeymap
  TAPPING_TERM = 3
  QUICK_TAP_TERM = 3
  WAITING_BUFFER_SIZE = 4
  Builds <- AllBuilds
  TIMER_MOD = 5
  MAX_TAP_COUNT = 2
  DEBOUNCE = 2
  MAX_SCAN_GAP = 1
INVARIANT TypeOK
INVARIANT NoneInBuffer
INVARIANT NothingStuck
INVARIANT TapOrHold
INVARIANT InterruptedNeverTaps
PROPERTY EventuallyDecided
