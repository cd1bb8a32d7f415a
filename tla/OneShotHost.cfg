SPECIFICATION Spec
CONSTANTS
  ka = ka  kb_ = kb_  ko = ko  kl = kl  km = km  kt = kt  kk = kk  ks = ks  kx = kx
  a0 = a0  a1 = a1  b0 = b0  t = t  none = none
  Shift = Shift
  Keys = {ka, kb_, ko}
  MAX_LAYER = 1
  Codes = {a0, a1, b0, t, none}
  Mods = {Shift}
  keymap <- TwoKeysKeymap
  Builds <- PlainBuild
  MAX_COUNT = 2
  MAX_HELD = 2
INVARIANTS
  HostModsReleased
