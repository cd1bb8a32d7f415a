------------------------------ MODULE MCTapping ------------------------------
(* Small keyboards for model checking Tapping. *)
EXTENDS Tapping

CONSTANTS T, U, V, A, B, S, M   \* the keys, see Lower

Act(kind, code, mod, layer) ==
  [kind |-> kind, code |-> code, mod |-> mod, layer |-> layer]

Lower(key) ==
  CASE key = T -> Act("LAYER_TAP", "t", "shift", 1)
    [] key = U -> Act("MODS_TAP", "u", "shift", 0)
    [] key = V -> Act("MODS_TAP", "b", "shift", 0)
    [] key = A -> Act("KEY", "a", "shift", 0)
    [] key = B -> Act("KEY", "b", "shift", 0)
    [] key = S -> Act("MOD", "a", "shift", 0)
    [] key = M -> Act("ON_OFF", "a", "shift", 1)

\* On layer 1 a plain key and the modifier are other keys; the rest is transparent.
Upper(key) ==
  IF key \in {A, S} THEN Act("KEY", "c", "shift", 0)
             ELSE Act("TRANSPARENT", "a", "shift", 0)

MCKeymap ==
  [l \in Layers |-> [key \in Keys |-> IF l = 0 THEN Lower(key) ELSE Upper(key)]]
\* The default mode and the two options, each on the keys that bring out its cases;
\* each build is a run of its own, a keymap with three keys.
Build(keys, permissive, hold) == [keys |-> keys, permissive |-> permissive, hold |-> hold]
AllBuilds == {Build({T, U, A}, FALSE, FALSE), Build({T, A, B}, TRUE, FALSE),
              Build({T, S, M}, FALSE, TRUE)}

\* Three tap keys, so that one is pressed while the record of another waits.
ThreeTapKeys == {Build({T, U, V}, FALSE, FALSE)}

MCCodes  == {"t", "u", "a", "b", "c"}
=============================================================================
