----------------------------- MODULE MCOneShot -----------------------------
(* Keymaps and builds for the TLC runs of OneShot. *)
EXTENDS OneShot, TLC

\* The hypothesis of module OneShotProofs about layers.
ASSUME KeymapAssumption == OneOneshotLayer

CONSTANTS ka, kb_, ko, kl, km, kt, kk, ks, kx,    \* keys
          a0, a1, b0, t, none,             \* key codes
          Shift

A(kind, code, mod, layer) == [kind |-> kind, code |-> code, mod |-> mod, layer |-> layer]
Key(code)  == A("KEY", code, Shift, 0)
Trns       == A("TRANSPARENT", none, Shift, 0)
OSM(mod)   == A("ONESHOT_MODS", none, mod, 0)
OSL(layer) == A("ONESHOT_LAYER", none, Shift, layer)
MO(layer)  == A("ON_OFF", none, Shift, layer)
LT(layer, code) == A("LAYER_TAP", code, Shift, layer)
LayerLock  == A("LAYER_LOCK", none, Shift, 0)

Build(timeout, toggle, keys) ==
  [ONESHOT_TIMEOUT |-> timeout, ONESHOT_TAP_TOGGLE |-> toggle, keys |-> keys]
AllBuilds == {Build(TRUE, 1, {ka, ko, kl, km, kt, kk, ks}), Build(TRUE, 2, {ka, ko, kl, km, kt, kk, ks}),
              Build(TRUE, 2, {ka, ko, ks, kx}), Build(TRUE, 1, {ka, kl, kk, kx})}
PlainBuild == {Build(FALSE, 1, Keys)}

\* A base layer, and layers with only some keys of their own.
Keymap(base, above) == [l \in 0 .. Len(above) |-> IF l = 0 THEN base ELSE
                         [key \in DOMAIN base |-> IF key \in DOMAIN above[l]
                                                  THEN above[l][key] ELSE Trns]]

MixedKeymap == Keymap(ka :> Key(a0) @@ ko :> OSM(Shift) @@ kl :> OSL(1) @@ km :> MO(1)
                        @@ kt :> LT(1, t) @@ kk :> LayerLock @@ ks :> A("MOD", none, Shift, 0)
                        @@ kx :> A("ONESHOT_TOGGLE", none, Shift, 0),
                      <<ka :> Key(a1)>>)

TwoKeysKeymap == Keymap(ka :> Key(a0) @@ kb_ :> Key(b0) @@ ko :> OSM(Shift), <<>>)
============================================================================
