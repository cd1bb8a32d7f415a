SPECIFICATION Spec
CONSTANTS
  kd = kd  km = km  kt = kt  kp = kp  ks = ks  ko = ko
  d2 = d2  dm = dm  dt = dt  df = df
  ca = ca  cb = cb  cc = cc  ce = ce  cf = cf
  Shift = Shift
  Keys = {kd, km, kt, kp, ks, ko}
  MAX_LAYER = 2
  Codes = {ca, cb, cc, ce, cf, d2, dm, dt, df}
  Mods = {Shift}
  keymap <- MixedKeymap
  Dances = {d2, dm, dt, df}
  action <- AllDances
  No = No
  TAPPING_TERM = 1
  MAX_STALL = 1
  MAX_TAPS = 3
  MAX_HELD = 3
INVARIANTS
  DanceEnds
  NothingStuck
  TapsAnswered
PROPERTIES
  SentAsTapped
  InterrupterComesAfter
  EventuallyDecided
