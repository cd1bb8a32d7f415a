---------------------------- MODULE MCTapDance ----------------------------
(* Keymaps for the TLC runs of TapDance. *)
EXTENDS TapDance, TLC

CONSTANTS kd, km, kt, kp, ks, ko,             \* keys
          d2, dm, dt, df,                  \* dances
          ca, cb, cc, ce, cf,              \* key codes
          Shift

Kc(code, mods) == [code |-> code, mods |-> mods]
Dance(type, kc1, kc2, layer) == [type |-> type, kc1 |-> kc1, kc2 |-> kc2, layer |-> layer]

AllDances == d2 :> Dance("DOUBLE", Kc(ca, {Shift}), Kc(cb, {Shift}), 0)
          @@ dm :> Dance("LAYER_MOVE", Kc(cc, {}), Kc(cc, {}), 1)
          @@ dt :> Dance("LAYER_TOGGLE", Kc(ce, {}), Kc(ce, {}), 1)
          @@ df :> Dance("FN", Kc(ce, {}), Kc(ce, {}), 0)

Act(kind, code) == [kind |-> kind, code |-> code, mod |-> Shift, layer |-> 0]
Trns == Act("TRANSPARENT", ca)

\* kp is a plain key, on layer 1 a dance; the other keys are transparent on layer 1.  ko
\* switches that layer on for as long as it is held, dances move to it or toggle it.
MixedKeymap == 0 :> (kd :> Act("TAP_DANCE", d2) @@ km :> Act("TAP_DANCE", dm)
                  @@ kt :> Act("TAP_DANCE", dt) @@ kp :> Act("KEY", cf) @@ ks :> Act("MOD", cf)
                  @@ ko :> [kind |-> "ON_OFF", code |-> cf, mod |-> Shift, layer |-> 1])
            @@ 1 :> (kd :> Trns @@ km :> Trns @@ kt :> Trns
                  @@ kp :> Act("TAP_DANCE", df) @@ ks :> Trns @@ ko :> Trns)

ASSUME KeymapAssumption == MoveStays /\ OneKeyEach /\ LayerKeysStay
===========================================================================
