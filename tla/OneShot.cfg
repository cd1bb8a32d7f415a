SPECIFICATION Spec
CONSTANTS
  ka = ka  kb_ = kb_  ko = ko  kl = kl  km = km  kt = kt  kk = kk  ks = ks  kx = kx
  a0 = a0  a1 = a1  b0 = b0  t = t  none = none
  Shift = Shift
  Keys = {ka, ko, kl, km, kt, kk, ks, kx}
  MAX_LAYER = 2
  Codes = {a0, a1, b0, t, none}
  Mods = {Shift}
  keymap <- MixedKeymap
  Builds <- AllBuilds
  MAX_COUNT = 2
  MAX_HELD = 2
INVARIANTS
  NoLayerStuck
  NothingStuck
  UsedOnce
PROPERTIES
  LockSurvives
  OneShotExpires
