------------------------------ MODULE OneShot -------------------------------
(***************************************************************************)
(* One-shot modifiers and layers (quantum/action_util.c and their branches *)
(* in action.c) and layer lock (quantum/layer_lock.c,                      *)
(* process_layer_lock.c), on the keyboard of module Action.                *)
(*                                                                         *)
(* A step is one key record, as the tap-or-hold state machine delivers it: *)
(* a press with its tap count, and later the release with the same count.  *)
(* st holds the state of all the files above; the modifiers in the last    *)
(* report are part of it, because one-shot modifiers are used up by        *)
(* sending one.  Of time only this is kept: which timers have run out.     *)
(* Each key code is on one key, so that no code is registered twice.       *)
(* Three fields are history: armed, the modifiers tapped for the next key; *)
(* typed, how this step typed a key; locked_with, for each layer the keys  *)
(* that have been held since it was locked (and not made one-shot again).  *)
(***************************************************************************)
EXTENDS Action, FiniteSets, FiniteSetsExt

CONSTANTS Builds,      \* the options, ONESHOT_TAP_TOGGLE 1 is none, and the keys there are
          MAX_COUNT,   \* bound: taps in a row
          MAX_HELD     \* bound: keys held at a time

ASSUME OneShotAssumption ==
  /\ Builds \subseteq [ONESHOT_TIMEOUT : BOOLEAN, ONESHOT_TAP_TOGGLE : Nat \ {0}, keys : SUBSET Keys]
  /\ MAX_COUNT \in Nat \ {0} /\ MAX_HELD \in Nat \ {0}
  /\ \A l \in Layers, key \in Keys : keymap[l][key].kind \notin {"MODS_TAP", "TAP_DANCE"}

VARIABLES build,    \* the compile-time options and the keyboard
          held,     \* held[key]: the tap count it was pressed with, or Up
          last,     \* the key and the count of the last record, if it was a tap's release
          st        \* see Init

vars == <<build, held, last, st>>

Up == -1
Row(key, count) == [key |-> IF count = 0 THEN CHOOSE k \in Keys : TRUE ELSE key, count |-> count]
Held == {key \in Keys : held[key] # Up}

\* Bits of oneshot_layer_data.
PRESSED == 1
OTHER_KEY_PRESSED == 2
TOGGLED == 4
Nothing == [layer |-> 0, state |-> {}]

\* f after m: f of m's value, which is computed once.
After(m, f(_)) == CHOOSE n \in {f(v) : v \in {m}} : TRUE

-----------------------------------------------------------------------------
(* Reports and one-shot modifiers.                                         *)

clear_oneshot_mods(m) ==
  [m EXCEPT !.oneshot_mods = {}, !.old = IF m.oneshot_mods = {} THEN @ ELSE @ \ {"mods"}]

\* The timeout, wherever it is noticed.
mods_timeout(m) ==
  IF build.ONESHOT_TIMEOUT /\ "mods" \in m.old
  THEN [clear_oneshot_mods(m) EXCEPT !.armed = {}] ELSE m

\* Mutant: the one-shot is kept until the key is released.
send_keyboard_report_Keeps(m) ==
  After(mods_timeout(m), LAMBDA n :
    [n EXCEPT !.host = n.kb.mods \cup n.oneshot_mods])
\* get_mods_for_report, then the report.
send_keyboard_report(m) ==
  After(mods_timeout(m), LAMBDA n :
    After([n EXCEPT !.host = n.kb.mods \cup n.oneshot_mods],
          LAMBDA o : IF o.kb.keys = {} THEN o ELSE clear_oneshot_mods(o)))

add_oneshot_mods(m, mods) ==
  IF mods \subseteq m.oneshot_mods THEN m
  ELSE [m EXCEPT !.oneshot_mods = @ \cup mods, !.old = @ \ {"mods"}]

del_oneshot_mods(m, mods) ==
  [m EXCEPT !.oneshot_mods = @ \ mods, !.armed = @ \ mods,
            !.old = IF mods \cap m.oneshot_mods = {} THEN @ ELSE @ \ {"mods"}]

register_mods(m, mods)   == send_keyboard_report([m EXCEPT !.kb.mods = @ \cup mods])
unregister_mods(m, mods) == send_keyboard_report([m EXCEPT !.kb.mods = @ \ mods])

-----------------------------------------------------------------------------
(* One-shot layers.                                                        *)

layer_on(m, layer)  == [m EXCEPT !.kb.layers = @ \cup {layer}]
layer_off(m, layer) == [m EXCEPT !.kb.layers = @ \ {layer}]

is_oneshot_layer_active(m) == m.layer_data.state # {}

reset_oneshot_layer(m) == [m EXCEPT !.layer_data = Nothing, !.old = @ \ {"layer"}]

set_oneshot_layer(m, layer, state) ==
  [layer_on(m, layer) EXCEPT !.layer_data = [layer |-> layer, state |-> state],
                             !.old = @ \ {"layer"}, !.locked_with[layer] = {}]

\* Mutant: the layer is left on.
clear_oneshot_layer_state_LeavesOn(m, bit) ==
  After([m EXCEPT !.layer_data.state = @ \ {bit}], LAMBDA n :
    IF n.layer_data.state = {} /\ n.layer_data # m.layer_data /\ n.oneshot_enable
    THEN reset_oneshot_layer(n) ELSE n)
\* The layer goes off with the last bit, unless one-shot keys are switched off.
clear_oneshot_layer_state(m, bit) ==
  After([m EXCEPT !.layer_data.state = @ \ {bit}], LAMBDA n :
    IF n.layer_data.state = {} /\ n.layer_data # m.layer_data /\ n.oneshot_enable
    THEN reset_oneshot_layer(layer_off(n, n.layer_data.layer)) ELSE n)

\* Mutant: the layer times out only while its key is held.
timeouts_Held(m) ==
  IF ~m.oneshot_enable \/ ~build.ONESHOT_TIMEOUT THEN m
  ELSE mods_timeout(IF "layer" \in m.old /\ PRESSED \in m.layer_data.state
                    THEN clear_oneshot_layer_state(m, OTHER_KEY_PRESSED) ELSE m)
\* The timeouts that action_exec looks at, for every event and tick.
timeouts(m) ==
  IF ~m.oneshot_enable \/ ~build.ONESHOT_TIMEOUT THEN m
  ELSE mods_timeout(IF "layer" \in m.old /\ TOGGLED \notin m.layer_data.state
                    THEN clear_oneshot_layer_state(m, OTHER_KEY_PRESSED) ELSE m)

oneshot_toggle(m) ==
  clear_oneshot_layer_state([m EXCEPT !.oneshot_enable = ~@], OTHER_KEY_PRESSED)

-----------------------------------------------------------------------------
(* Layer lock.                                                             *)

\* Mutant: a one-shot layer that is locked remains one.
layer_lock_invert_KeepsOneShot(m, layer) ==
  IF layer \in m.locked_layers
  THEN [layer_off(m, layer) EXCEPT !.locked_layers = @ \ {layer}]
  ELSE [layer_on(m, layer) EXCEPT !.locked_layers = @ \cup {layer}, !.old = @ \ {"lock"},
                                  !.locked_with[layer] = Held]
layer_lock_invert(m, layer) ==
  IF layer \in m.locked_layers
  THEN [layer_off(m, layer) EXCEPT !.locked_layers = @ \ {layer}]
  ELSE After(IF layer = m.layer_data.layer THEN reset_oneshot_layer(m) ELSE m, LAMBDA n :
         [layer_on(n, layer) EXCEPT !.locked_layers = @ \cup {layer}, !.old = @ \ {"lock"},
                                    !.locked_with[layer] = Held])

layer_lock_all_off(m) ==
  [m EXCEPT !.kb.layers = @ \ m.locked_layers, !.locked_layers = {}]

get_highest_layer(m) == Max(m.kb.layers \cup {0})

\* process_layer_lock, with goes_on: whether the record is processed any further.
process_layer_lock(m, a, pressed, count) ==
  After([m EXCEPT !.old = @ \ {"lock"}, !.locked_layers = @ \cap m.kb.layers], LAMBDA n :
    LET locked == a.layer \in n.locked_layers IN
    CASE a.kind = "LAYER_LOCK" ->
           [m |-> IF pressed THEN layer_lock_invert(n, get_highest_layer(n)) ELSE n,
            goes_on |-> FALSE]
      [] a.kind = "ON_OFF" /\ locked ->
           [m |-> IF pressed THEN layer_lock_invert(n, a.layer) ELSE n, goes_on |-> FALSE]
      [] a.kind = "LAYER_TAP" /\ locked /\ ~pressed /\ count = 0 ->
           [m |-> n, goes_on |-> FALSE]
      [] OTHER -> [m |-> n, goes_on |-> TRUE])

-----------------------------------------------------------------------------
(* Actions.                                                                *)

\* Keys that use up a one-shot layer: all but modifiers.
UsesLayer(a) == a.kind \notin {"MOD", "ONESHOT_MODS"}

oneshot_mods_key(m, a, pressed, count) ==
  LET mods   == {a.mod}
      cancel == [del_oneshot_mods(unregister_mods(m, mods), mods)
                   EXCEPT !.oneshot_locked_mods = @ \ mods]
      toggle == build.ONESHOT_TAP_TOGGLE
  IN  CASE ~m.oneshot_enable -> IF pressed THEN register_mods(m, mods)
                                           ELSE unregister_mods(m, mods)
        [] m.oneshot_enable /\ pressed ->
             CASE count = 0 -> register_mods(m, mods)
               [] count = 1 -> [add_oneshot_mods(m, mods) EXCEPT !.armed = @ \cup mods]
               [] count > 1 /\ count = toggle ->
                    [del_oneshot_mods(register_mods(m, mods), mods)
                       EXCEPT !.oneshot_locked_mods = @ \cup mods]
               [] OTHER -> m
        [] OTHER -> IF count = 0 \/ (toggle > 1 /\ count = 1 /\ a.mod \in m.kb.mods)
                    THEN cancel ELSE m

oneshot_layer_key(m, a, pressed, count) ==
  LET toggle == build.ONESHOT_TAP_TOGGLE
      Clear(n, bit) == clear_oneshot_layer_state(n, bit)
  IN  CASE ~m.oneshot_enable -> IF pressed THEN layer_on(m, a.layer) ELSE layer_off(m, a.layer)
        [] m.oneshot_enable /\ toggle > 1 ->
             CASE pressed /\ m.layer_data.state = {TOGGLED} ->
                    layer_off(reset_oneshot_layer(m), a.layer)
               [] pressed /\ m.layer_data.state # {TOGGLED} /\ count < toggle ->
                    set_oneshot_layer(m, a.layer, {PRESSED, OTHER_KEY_PRESSED})
               [] ~pressed /\ count >= toggle -> set_oneshot_layer(m, a.layer, {TOGGLED})
               [] ~pressed /\ count < toggle -> Clear(m, PRESSED)
               [] OTHER -> m
        [] OTHER ->
             IF pressed THEN set_oneshot_layer(m, a.layer, {PRESSED, OTHER_KEY_PRESSED})
             ELSE IF count > 1 THEN Clear(Clear(m, PRESSED), OTHER_KEY_PRESSED)
             ELSE Clear(m, PRESSED)

\* The report that types a key, for the history.
Typed(m, n) ==
  [n EXCEPT !.typed = {[mods |-> n.host, real |-> m.kb.mods, armed |-> m.armed]},
            !.armed = {}]

\* The switch of process_action: module Action's, with a report, or one of the above.
Act(m, a, key, pressed, count) ==
  CASE a.kind = "ONESHOT_MODS"  -> oneshot_mods_key(m, a, pressed, count)
    [] a.kind = "ONESHOT_LAYER" -> oneshot_layer_key(m, a, pressed, count)
    [] OTHER ->
         After([m EXCEPT !.kb = process_action(@, a, key, @.cache[key], pressed, count)],
               LAMBDA n : CASE Registers(a, count) /\ pressed ->
                                 Typed(mods_timeout(n), send_keyboard_report(n))
                            [] (Registers(a, count) /\ ~pressed) \/ ChangesMods(a, count) ->
                                 send_keyboard_report(n)
                            [] OTHER -> n)

\* A record that process_record_quantum does not let pass still uses up a layer.
Swallowed(m, pressed) ==
  IF is_oneshot_layer_active(m) /\ pressed /\ m.oneshot_enable
  THEN clear_oneshot_layer_state(m, OTHER_KEY_PRESSED) ELSE m

\* process_record_quantum: what the record is, and whether it goes on.
Quantum(m, a, pressed, count) ==
  After(process_layer_lock(m, a, pressed, count), LAMBDA r :
    IF r.goes_on /\ a.kind = "ONESHOT_TOGGLE"
    THEN [m |-> IF pressed THEN oneshot_toggle(r.m) ELSE r.m, goes_on |-> FALSE] ELSE r)

\* Mutant: a release acts on the layers of the moment.
release_record_Uncached(m, key, count) ==
  LET a == layer_switch_get_action(m.kb, key) IN
  After(Quantum(m, a, FALSE, count), LAMBDA r :
    IF r.goes_on THEN Act(r.m, a, key, FALSE, count) ELSE r.m)
\* process_record for a release.
release_record(m, key, count) ==
  LET a == keymap[m.kb.cache[key]][key] IN
  After(Quantum(m, a, FALSE, count), LAMBDA r :
    IF r.goes_on THEN Act(r.m, a, key, FALSE, count) ELSE r.m)

\* The release that ends the use of a one-shot layer.  The layer was reset before,
\* so that it is layer 0 that is switched.
leave_layer(m, key, count) ==
  layer_off(release_record(layer_on(m, m.layer_data.layer), key, count), m.layer_data.layer)

\* process_action for a press: a one-shot layer is used up before, and if that ends it
\* the key is released right away.
press_action(m, a, key, count) ==
  LET uses == is_oneshot_layer_active(m) /\ UsesLayer(a) /\ m.oneshot_enable IN
  After(IF uses THEN clear_oneshot_layer_state(m, OTHER_KEY_PRESSED) ELSE m, LAMBDA n :
    LET ends == /\ uses /\ ~is_oneshot_layer_active(n)
                /\ a.kind = "ONESHOT_LAYER" => build.ONESHOT_TAP_TOGGLE = 1
    IN  After(Act(n, a, key, TRUE, count), LAMBDA o :
          IF ends /\ PRESSED \notin o.layer_data.state THEN leave_layer(o, key, count) ELSE o))

\* process_record for a press, with what the key registered as history.
press_record(m, key, count) ==
  After([m EXCEPT !.kb.cache[key] = layer_switch_get_layer(m.kb, key)], LAMBDA n :
    LET a == keymap[n.kb.cache[key]][key] IN
    After(Quantum(n, a, TRUE, count), LAMBDA r :
      IF ~r.goes_on THEN Swallowed(r.m, TRUE)
      ELSE After([r.m EXCEPT !.kb.cache[key] = layer_switch_get_layer(r.m.kb, key)],
                 LAMBDA o : press_action(o, keymap[o.kb.cache[key]][key], key, count))))

-----------------------------------------------------------------------------
(* Steps.                                                                  *)

IsTapKey(a) == a.kind \in {"ONESHOT_MODS", "ONESHOT_LAYER", "LAYER_TAP"}

\* The state in which a record is processed: the timeouts come first.
Current == timeouts([st EXCEPT !.typed = {}])

\* Tap counts the tap-or-hold machine may give: a hold, a first tap, or the next of a row.
Counts(m, key) ==
  IF ~IsTapKey(layer_switch_get_action(m.kb, key)) THEN {0}
  ELSE {0, 1} \cup (IF last.key = key /\ last.count \in 1 .. MAX_COUNT - 1
                    THEN {last.count + 1} ELSE {})

\* Bound: OS_TOGG is pressed with no other key down and no one-shot layer on.
press(key, count) ==
  /\ key \in build.keys \ Held /\ Cardinality(Held) < MAX_HELD
  /\ LET m == Current IN
     /\ count \in Counts(m, key)
     /\ layer_switch_get_action(m.kb, key).kind = "ONESHOT_TOGGLE"
          => Held = {} /\ ~is_oneshot_layer_active(m)
     /\ st' = press_record(m, key, count)
  /\ held' = [held EXCEPT ![key] = count]
  /\ last' = Row(key, 0)
  /\ UNCHANGED build

release(key) ==
  /\ key \in Held
  /\ held' = [held EXCEPT ![key] = Up]
  /\ last' = Row(key, held[key])
  /\ st' = [release_record(Current, key, held[key])
              EXCEPT !.locked_with = [l \in Layers |-> @[l] \ {key}]]
  /\ UNCHANGED build

\* A tick event.
action_exec == /\ st' = timeouts(st)
               /\ st' # st
               /\ UNCHANGED <<build, held, last>>

layer_lock_timeout_task ==
  /\ st.locked_layers # {} /\ "lock" \in st.old
  /\ st' = [layer_lock_all_off(st) EXCEPT !.old = @ \ {"lock"}]
  /\ UNCHANGED <<build, held, last>>

\* A timer that is running runs out.
Running(t) == CASE t = "mods"  -> build.ONESHOT_TIMEOUT /\ st.oneshot_mods # {}
                [] t = "layer" -> build.ONESHOT_TIMEOUT /\ is_oneshot_layer_active(st)
                [] OTHER       -> st.locked_layers # {}
Elapse(t) ==
  /\ Running(t) /\ t \notin st.old
  /\ st' = [st EXCEPT !.old = @ \cup {t}]
  /\ UNCHANGED <<build, held, last>>

Timers == {"mods", "layer", "lock"}

Next == \/ \E key \in Keys : release(key) \/ \E count \in 0 .. MAX_COUNT : press(key, count)
        \/ action_exec
        \/ layer_lock_timeout_task
        \/ \E t \in Timers : Elapse(t)

Init ==
  /\ build \in Builds
  /\ held = [key \in Keys |-> Up]
  /\ \E key \in Keys : last = Row(key, 0)
  /\ st = [kb |-> KeyboardInit, oneshot_mods |-> {}, oneshot_locked_mods |-> {},
           layer_data |-> Nothing, locked_layers |-> {}, oneshot_enable |-> TRUE,
           old |-> {}, host |-> {},
           armed |-> {}, typed |-> {}, locked_with |-> [l \in Layers |-> {}]]

\* Time passes and the main loop keeps sending tick events.
Spec == /\ Init /\ [][Next]_vars
        /\ \A t \in Timers : WF_vars(Elapse(t))
        /\ WF_vars(action_exec)

-----------------------------------------------------------------------------
(* Properties.                                                             *)

\* The layers that OSL keys switch on, and whether there is but one.  oneshot_layer_data
\* holds one layer: the first of two is never switched off.
OneshotLayers ==
  {l \in Layers : \E k \in Layers, key \in Keys : keymap[k][key].kind = "ONESHOT_LAYER" /\ keymap[k][key].layer = l}
OneOneshotLayer == \A k, l \in OneshotLayers : k = l

\* The variables have their types, and a timer has run out only if it was running.
TypeOK ==
  /\ held \in [Keys -> {Up} \cup 0 .. MAX_COUNT]
  /\ st.kb \in KeyboardStates
  /\ st.oneshot_mods \subseteq Mods /\ st.oneshot_locked_mods \subseteq Mods
  /\ st.layer_data \in [layer : Layers, state : (SUBSET {PRESSED, OTHER_KEY_PRESSED}) \cup {{TOGGLED}}]
  /\ st.locked_layers \subseteq Layers
  /\ st.old \subseteq Timers
  /\ "mods" \in st.old => st.oneshot_mods # {}

\* The action and the tap count with which a key is held down.
HeldAs(key) == keymap[st.kb.cache[key]][key]

\* No layer is left on: a layer above the base layer is locked, is the one-shot layer,
\* or is that of a layer key held down.
NoLayerStuck ==
  \A l \in st.kb.layers \ {0} :
    \/ l \in st.locked_layers
    \/ st.layer_data.layer = l /\ is_oneshot_layer_active(st)
    \/ \E key \in Held : /\ HeldAs(key).layer = l
                         /\ \/ HeldAs(key).kind \in {"ON_OFF", "ONESHOT_LAYER"}
                            \/ HeldAs(key).kind = "LAYER_TAP" /\ held[key] = 0

\* No key and no modifier is left down: a registered code is that of a key held down, a
\* modifier that of one held down or of a one-shot modifier locked by tapping it.
NothingStuck ==
  /\ \A c \in st.kb.keys : \E key \in Held : Registers(HeldAs(key), held[key]) /\ HeldAs(key).code = c
  /\ \A m \in st.kb.mods :
       \/ m \in st.oneshot_locked_mods
       \/ \E key \in Held : /\ HeldAs(key).mod = m
                            /\ \/ HeldAs(key).kind = "MOD"
                               \/ HeldAs(key).kind = "ONESHOT_MODS" /\ (held[key] = 0 \/ ~st.oneshot_enable)

\* With no key down, the host sees no modifier that is neither down nor pending.
HostModsReleased ==
  st.kb.keys = {} => st.host \subseteq st.kb.mods \cup st.oneshot_mods

\* A one-shot modifier applies to one key: what a key is typed with is held down, or
\* was tapped since the key typed before.
UsedOnce == \A t \in st.typed : t.mods \subseteq t.real \cup t.armed

\* A locked layer stays on when the key that switched it on, or any other key that was
\* held when it was locked, is released, unless an OSL key of that layer was pressed in
\* between.  (With one-shot keys off an OSL key is a layer key that layer lock ignores.)
LockSurvives ==
  [][ \A l \in st.locked_layers \cap st.kb.layers : \A key \in st.locked_with[l] :
        /\ key \in Held /\ held'[key] = Up
        /\ st.oneshot_enable \/ HeldAs(key).kind # "ONESHOT_LAYER"
        => l \in st'.kb.layers ]_vars

\* When no key is pressed any more, pending one-shot layers and modifiers go away, unless
\* one-shot keys are disabled while a modifier is pending.
OneShotExpires ==
  build.ONESHOT_TIMEOUT /\ <>[][\A key \in Held' : key \in Held]_vars
    => <>[](st.oneshot_enable => st.layer_data.state # {OTHER_KEY_PRESSED} /\ st.oneshot_mods = {})
=============================================================================
