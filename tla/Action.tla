------------------------------- MODULE Action -------------------------------
(***************************************************************************)
(* What a key record does to the keyboard: process_record and              *)
(* process_action (quantum/action.c) on the layers of action_layer.c.      *)
(*                                                                         *)
(* The keyboard's output state is a record:                                *)
(*   keys    the key codes registered in the report                        *)
(*   mods    the real modifiers                                            *)
(*   layers  layer_state (layer 0 is the default layer, always on)         *)
(*   cache   source_layers_cache, the layer each key was last pressed on   *)
(* Keys, modifiers and layers are bits, not counters, as in the code: the  *)
(* first release switches off what several keys switched on.               *)
(*                                                                         *)
(* An action is [kind, code, mod, layer]; the fields its kind has no use   *)
(* for are ignored.  One-shot keys, the layer lock key and tap dances do   *)
(* nothing here; modules OneShot and TapDance add them.  Toggles, macros   *)
(* and mouse or consumer usages are not modelled.  Nor is the branch of    *)
(* process_action that cancels an interrupted tap under                    *)
(* HOLD_ON_OTHER_KEY_PRESS: no such record reaches it                      *)
(* (InterruptedNeverTaps in module Tapping).                               *)
(***************************************************************************)
EXTENDS Integers, Sequences

CONSTANTS Keys,       \* key positions of the matrix
          MAX_LAYER,  \* number of layers
          Codes,      \* key codes
          Mods,       \* modifiers
          keymap      \* keymap[layer][key], the action of a key on a layer

Layers == 0 .. MAX_LAYER - 1

Kinds == {"KEY",          \* ACT_MODS with a basic key code
          "MOD",          \* ACT_MODS with a modifier
          "MODS_TAP",     \* ACT_MODS_TAP with a key code: modifier or key
          "LAYER_TAP",    \* ACT_LAYER_TAP with a key code: layer or key
          "ON_OFF",       \* ACT_LAYER_TAP with OP_ON_OFF: momentary layer
          "TAP_DANCE",    \* TD(code): ACTION_NO here, see module TapDance
          "ONESHOT_MODS", "ONESHOT_LAYER", "ONESHOT_TOGGLE",    \* OSM, OSL, OS_TOGG
          "LAYER_LOCK",   \* QK_LAYER_LOCK: these four, see module OneShot
          "TRANSPARENT"}

Actions == [kind : Kinds, code : Codes, mod : Mods, layer : Layers]

ASSUME ActionAssumption ==
  /\ MAX_LAYER \in Nat \ {0}
  /\ keymap \in [Layers -> [Keys -> Actions]]

KeyboardStates == [keys : SUBSET Codes, mods : SUBSET Mods,
                   layers : SUBSET Layers, cache : [Keys -> Layers]]

-----------------------------------------------------------------------------
(* Layers.                                                                 *)

\* The topmost layer that is on and not transparent at the key, else layer 0.
layer_switch_get_layer(k, key) ==
  LET on == {l \in k.layers \cup {0} : keymap[l][key].kind # "TRANSPARENT"}
  IN  IF on = {} THEN 0 ELSE CHOOSE l \in on : \A m \in on : m <= l

layer_switch_get_action(k, key) == keymap[layer_switch_get_layer(k, key)][key]

\* The layer a record acts on: a press reads the layers (and caches the result),
\* a release uses the layer its press was cached with.
store_or_get_layer_NoCache(k, pressed, key) ==    \* mutant: STRICT_LAYER_RELEASE
  layer_switch_get_layer(k, key)                  \* without its clear_keyboard
store_or_get_layer(k, pressed, key) ==
  IF pressed THEN layer_switch_get_layer(k, key) ELSE k.cache[key]

-----------------------------------------------------------------------------
(* Actions.                                                                *)

is_tap_action(a) == a.kind \in {"MODS_TAP", "LAYER_TAP"}

Switch(S, x, on) == IF on THEN S \cup {x} ELSE S \ {x}

\* count is the record's tap count: 0 for the hold function of a tap key.
Registers(a, count)     == a.kind = "KEY" \/ (is_tap_action(a) /\ count > 0)
ChangesMods(a, count)   == a.kind = "MOD" \/ (a.kind = "MODS_TAP" /\ count = 0)
ChangesLayers(a, count) == a.kind = "ON_OFF" \/ (a.kind = "LAYER_TAP" /\ count = 0)

process_action(k, a, key, layer, pressed, count) ==
  [keys   |-> IF Registers(a, count) THEN Switch(k.keys, a.code, pressed) ELSE k.keys,
   mods   |-> IF ChangesMods(a, count) THEN Switch(k.mods, a.mod, pressed) ELSE k.mods,
   layers |-> IF ChangesLayers(a, count)
              THEN Switch(k.layers, a.layer, pressed) ELSE k.layers,
   cache  |-> IF pressed THEN [k.cache EXCEPT ![key] = layer] ELSE k.cache]

process_record(k, r) ==
  LET layer == store_or_get_layer(k, r.pressed, r.key)
  IN  process_action(k, keymap[layer][r.key], r.key, layer, r.pressed, r.count)

\* clear_keyboard: everything in the report, but not the layers.
clear_keyboard(k) == [keys |-> {}, mods |-> {}, layers |-> k.layers,
                      cache |-> k.cache]

KeyboardInit == [keys |-> {}, mods |-> {}, layers |-> {},
                 cache |-> [key \in Keys |-> 0]]
=============================================================================
