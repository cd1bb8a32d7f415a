------------------------------ MODULE TapDance ------------------------------
(***************************************************************************)
(* Tap dances (quantum/process_keycode/process_tap_dance.c): what a key    *)
(* does depends on how often it is tapped.  The dance is decided when the  *)
(* key has not been pressed again for TAPPING_TERM, when another key is    *)
(* pressed, or by the tap itself; what it then does lasts until its key is *)
(* released.                                                               *)
(*                                                                         *)
(* A step is one key event, processed to the end (action_exec,             *)
(* process_record_quantum, process_record_handler), or one call of         *)
(* tap_dance_task.  static holds the keyboard of module Action, the weak   *)
(* modifiers, the states of the dances and active_td; its fields owed and  *)
(* sent are history.  The build is one without one-shot keys.              *)
(***************************************************************************)
EXTENDS Action, FiniteSets

CONSTANTS Dances,         \* tap_dance_actions: the codes of TD keys
          action,         \* action[d] = [type, kc1, kc2, layer]
          No,             \* active_td = 0
          TAPPING_TERM,
          MAX_STALL,      \* bound: ms by which tap_dance_task may be late
          MAX_TAPS,       \* bound: taps of a dance that is not decided
          MAX_HELD        \* bound: keys held at a time

\* DOUBLE, LAYER_MOVE and LAYER_TOGGLE as the macros make them; FN with a function
\* that ends its dance (reset_tap_dance) after two taps.
Types    == {"DOUBLE", "LAYER_MOVE", "LAYER_TOGGLE", "FN"}
Codes16  == [code : Codes, mods : SUBSET Mods]

ASSUME TapDanceAssumption ==
  /\ Dances \subseteq Codes /\ No \notin Dances /\ Keys # {}
  /\ action \in [Dances -> [type : Types, kc1 : Codes16, kc2 : Codes16, layer : Layers]]
  /\ TAPPING_TERM \in Nat \ {0} /\ MAX_STALL \in Nat \ {0} /\ MAX_TAPS \in Nat \ {0}
  /\ MAX_HELD \in Nat \ {0}
  /\ \A l \in Layers, key \in Keys :
       /\ keymap[l][key].kind \in {"KEY", "MOD", "ON_OFF", "TRANSPARENT", "TAP_DANCE"}
       /\ keymap[l][key].kind = "TAP_DANCE" => keymap[l][key].code \in Dances

VARIABLES held,      \* the keys that are held down
          static,    \* [kb, weak_mods, state, active_td, owed, sent]
          elapsed,   \* ms since last_tap_time, while a dance is active
          recent     \* history: the key pressed last, whether it was also the one
                     \* before, not long ago, and the ms since

vars == <<held, static, elapsed, recent>>

Long == TAPPING_TERM + MAX_STALL + 1     \* longer times are not told apart

Zero == [count |-> 0, pressed |-> FALSE, finished |-> FALSE, interrupted |-> FALSE,
         weak_mods |-> {}]

\* f after m: f of m's value, which is computed once.
After(m, f(_)) == CHOOSE n \in {f(v) : v \in {m}} : TRUE

-----------------------------------------------------------------------------
(* What dances send.  sent and owed record that n taps of d were answered. *)

register_code16(m, kc) ==
  [m EXCEPT !.kb.keys = @ \cup {kc.code}, !.weak_mods = @ \cup kc.mods]

unregister_code16(m, kc) ==
  [m EXCEPT !.kb.keys = @ \ {kc.code}, !.weak_mods = @ \ kc.mods]

Answer(m, d, n) == [m EXCEPT !.sent = @ \cup {<<d, n>>}, !.owed[d] = @ - n]

layer_move(m, layer)   == [m EXCEPT !.kb.layers = {layer}]
layer_invert(m, layer) == [m EXCEPT !.kb.layers = Switch(@, layer, layer \notin @)]

\* Mutant: the code of two taps is left registered.
tap_dance_pair_reset_First(m, d) ==
  IF m.state[d].count = 1 THEN unregister_code16(m, action[d].kc1) ELSE m
tap_dance_pair_reset(m, d) ==
  CASE m.state[d].count = 1 -> unregister_code16(m, action[d].kc1)
    [] m.state[d].count = 2 -> unregister_code16(m, action[d].kc2)
    [] OTHER -> m

tap_dance_dual_role_reset(m, d) ==
  IF m.state[d].count = 1 THEN unregister_code16(m, action[d].kc1) ELSE m

on_reset(m, d) ==
  CASE action[d].type = "DOUBLE" -> tap_dance_pair_reset(m, d)
    [] action[d].type = "FN"     -> m
    [] OTHER                     -> tap_dance_dual_role_reset(m, d)

process_tap_dance_action_on_reset(m, d) ==
  After(on_reset(m, d), LAMBDA n :
    [n EXCEPT !.weak_mods = @ \ n.state[d].weak_mods, !.state[d] = Zero])

reset_tap_dance(m, d) ==
  process_tap_dance_action_on_reset([m EXCEPT !.active_td = No], d)

\* Mutant: the second tap does not finish the dance.
tap_dance_pair_on_each_tap_Undecided(m, d) ==
  IF m.state[d].count # 2 THEN m ELSE Answer(register_code16(m, action[d].kc2), d, 2)
tap_dance_pair_on_each_tap(m, d) ==
  IF m.state[d].count # 2 THEN m
  ELSE [Answer(register_code16(m, action[d].kc2), d, 2) EXCEPT !.state[d].finished = TRUE]

tap_dance_dual_role_on_each_tap(m, d) ==
  IF m.state[d].count # 2 THEN m
  ELSE [Answer(layer_move(m, action[d].layer), d, 2) EXCEPT !.state[d].finished = TRUE]

on_each_tap(m, d) ==
  CASE action[d].type = "DOUBLE"     -> tap_dance_pair_on_each_tap(m, d)
    [] action[d].type = "LAYER_MOVE" -> tap_dance_dual_role_on_each_tap(m, d)
    [] OTHER -> m

tap_dance_pair_finished(m, d) == Answer(register_code16(m, action[d].kc1), d, 1)

\* layer_function is layer_invert: LAYER_MOVE has finished before, on its second tap.
tap_dance_dual_role_finished(m, d) ==
  CASE m.state[d].count = 1 -> Answer(register_code16(m, action[d].kc1), d, 1)
    [] m.state[d].count = 2 -> Answer(layer_invert(m, action[d].layer), d, 2)
    [] OTHER -> Answer(m, d, m.state[d].count)

on_dance_finished(m, d) ==
  CASE action[d].type = "DOUBLE" -> tap_dance_pair_finished(m, d)
    [] action[d].type = "FN" -> LET n == Answer(m, d, m.state[d].count)
                                IN  IF m.state[d].count >= 2 THEN reset_tap_dance(n, d) ELSE n
    [] OTHER -> tap_dance_dual_role_finished(m, d)

-----------------------------------------------------------------------------
(* The dances.                                                             *)

process_tap_dance_action_on_each_tap(m, d) ==
  After([m EXCEPT !.state[d].count = @ + 1,
                  !.state[d].weak_mods = m.kb.mods \cup m.weak_mods],
        LAMBDA n : on_each_tap(n, d))

\* Mutant: a dance that is decided while its key is up waits for a release.
finished_Waits(m, d) ==
  After(IF m.state[d].finished THEN m
        ELSE on_dance_finished([m EXCEPT !.state[d].finished = TRUE,
                                            !.weak_mods = @ \cup m.state[d].weak_mods], d),
        LAMBDA n : [n EXCEPT !.active_td = No])
process_tap_dance_action_on_dance_finished(m, d) ==
  After(IF m.state[d].finished THEN m
        ELSE on_dance_finished([m EXCEPT !.state[d].finished = TRUE,
                                            !.weak_mods = @ \cup m.state[d].weak_mods], d),
        LAMBDA n : IF n.state[d].pressed THEN [n EXCEPT !.active_td = No]
                   ELSE process_tap_dance_action_on_reset([n EXCEPT !.active_td = No], d))

IsDance(a) == a.kind = "TAP_DANCE"

\* The action of a press, whose layer is remembered for the release.
get_record_keycode(m, key) == layer_switch_get_action(m.kb, key)
Cached(m, key) == [m EXCEPT !.kb.cache[key] = layer_switch_get_layer(m.kb, key)]

\* The press of a (as it was looked up) interrupts the dance of another key.
preprocess_tap_dance(m, a) ==
  IF m.active_td = No \/ (IsDance(a) /\ a.code = m.active_td) THEN m
  ELSE After(process_tap_dance_action_on_dance_finished(
               [m EXCEPT !.state[m.active_td].interrupted = TRUE], m.active_td),
             LAMBDA n : [n EXCEPT !.weak_mods = {}])

process_tap_dance_Press(m, d) ==
  After(process_tap_dance_action_on_each_tap([m EXCEPT !.state[d].pressed = TRUE,
                                                       !.owed[d] = @ + 1], d),
        LAMBDA n : [n EXCEPT !.active_td = IF n.state[d].finished THEN No ELSE d])

process_tap_dance_Release(m, d) ==
  LET n == [m EXCEPT !.state[d].pressed = FALSE] IN
  IF ~n.state[d].finished THEN n
  ELSE After(process_tap_dance_action_on_reset(n, d), LAMBDA o :
             [o EXCEPT !.active_td = IF @ = d THEN No ELSE @])

-----------------------------------------------------------------------------
(* Key events.  process_record_handler looks the key up once more.         *)

process_record_handler(m, pressed, key) ==
  [m EXCEPT !.kb = process_record(@, [key |-> key, pressed |-> pressed, count |-> 0])]

\* Mutant: the lookup is not repeated.
Quantum_Once(m, key) ==
  LET a == get_record_keycode(m, key) IN
  After(preprocess_tap_dance(Cached(m, key), a),
        LAMBDA n : IF IsDance(a) THEN process_tap_dance_Press(n, a.code) ELSE n)
\* process_record_quantum for a press: the lookup is repeated after an interruption.
Quantum(m, key) ==
  After(Cached(preprocess_tap_dance(Cached(m, key), get_record_keycode(m, key)), key),
        LAMBDA n : LET a == get_record_keycode(n, key) IN
                   IF IsDance(a) THEN process_tap_dance_Press(n, a.code) ELSE n)

press(key) ==
  /\ key \notin held /\ Cardinality(held) < MAX_HELD
  /\ LET a == get_record_keycode(static, key) IN
     IsDance(a) => static.state[a.code].count < MAX_TAPS
  /\ held' = held \cup {key}
  /\ static' = After(Quantum([static EXCEPT !.weak_mods = {}, !.sent = {}], key),
                     LAMBDA n : process_record_handler(n, TRUE, key))
  /\ elapsed' = 0
  /\ recent' = [key |-> key, again |-> recent.key = key /\ recent.since < Long, since |-> 0]

release(key) ==
  LET a == keymap[static.kb.cache[key]][key] IN
  /\ key \in held
  /\ held' = held \ {key}
  /\ static' = After([static EXCEPT !.sent = {}], LAMBDA m :
                 After(IF IsDance(a) THEN process_tap_dance_Release(m, a.code) ELSE m,
                       LAMBDA n : process_record_handler(n, FALSE, key)))
  /\ UNCHANGED <<elapsed, recent>>

\* Mutants: the term is not waited for; the dance of a key held down is not decided.
tap_dance_task_Early ==
  /\ static.active_td # No
  /\ static' = After([static EXCEPT !.sent = {}], LAMBDA m :
                 process_tap_dance_action_on_dance_finished(m, m.active_td))
  /\ UNCHANGED <<held, elapsed, recent>>
tap_dance_task_Released ==
  /\ static.active_td # No /\ elapsed > TAPPING_TERM
  /\ ~static.state[static.active_td].pressed
  /\ static' = After([static EXCEPT !.sent = {}], LAMBDA m :
                 process_tap_dance_action_on_dance_finished(m, m.active_td))
  /\ UNCHANGED <<held, elapsed, recent>>
tap_dance_task ==
  /\ static.active_td # No /\ elapsed > TAPPING_TERM
  /\ ~static.state[static.active_td].interrupted
  /\ static' = After([static EXCEPT !.sent = {}], LAMBDA m :
                 process_tap_dance_action_on_dance_finished(m, m.active_td))
  /\ UNCHANGED <<held, elapsed, recent>>

\* A millisecond.
Tick ==
  /\ static.active_td # No => elapsed < TAPPING_TERM + MAX_STALL
  /\ recent.since < Long
  /\ elapsed' = IF static.active_td = No THEN 0 ELSE elapsed + 1
  /\ recent' = [recent EXCEPT !.since = @ + 1]
  /\ static' = [static EXCEPT !.sent = {}]
  /\ UNCHANGED held

Next == \/ \E key \in Keys : press(key) \/ release(key)
        \/ tap_dance_task
        \/ Tick

Init ==
  /\ held = {}
  /\ static = [kb |-> KeyboardInit, weak_mods |-> {}, state |-> [d \in Dances |-> Zero],
               active_td |-> No, owed |-> [d \in Dances |-> 0], sent |-> {}]
  /\ elapsed = 0
  /\ LET key == CHOOSE key \in Keys : TRUE
     IN  recent = [key |-> key, again |-> FALSE, since |-> Long]

\* The clock runs and the main loop calls the task; nobody has to press keys.
Spec == Init /\ [][Next]_vars /\ WF_vars(Tick) /\ WF_vars(tap_dance_task)

-----------------------------------------------------------------------------
(* Properties.                                                             *)

\* The variables have their types; a dance that is not decided waits for less
\* than its term and the stall of the task.
TypeOK ==
  /\ held \subseteq Keys
  /\ static.kb \in KeyboardStates /\ static.weak_mods \subseteq Mods
  /\ static.state \in [Dances -> [count : 0 .. MAX_TAPS, pressed : BOOLEAN,
                                  finished : BOOLEAN, interrupted : BOOLEAN,
                                  weak_mods : SUBSET Mods]]
  /\ static.active_td \in Dances \cup {No}
  /\ elapsed \in 0 .. TAPPING_TERM + MAX_STALL
  /\ recent \in [key : Keys, again : BOOLEAN, since : 0 .. Long]

\* What a keymap has to see to: the key of a dance that moves to a layer is still that
\* dance there, or is transparent to it; and a dance is on one key only.
MoveStays ==
  \A l \in Layers, key \in Keys :
    LET a == keymap[l][key]
        b == layer_switch_get_action([layers |-> {action[a.code].layer}], key)
    IN  IsDance(a) /\ action[a.code].type = "LAYER_MOVE" => IsDance(b) /\ b.code = a.code

OneKeyEach ==
  \A l, n \in Layers, key, other \in Keys :
    /\ IsDance(keymap[l][key]) /\ IsDance(keymap[n][other])
    /\ keymap[l][key].code = keymap[n][other].code
    => key = other

\* And the key of a momentary layer is neither a code nor a dance on that layer.
LayerKeysStay ==
  \A l \in Layers, key \in Keys :
    LET a == keymap[l][key]
    IN  a.kind = "ON_OFF" => keymap[a.layer][key].kind \notin {"KEY", "TAP_DANCE"}

\* A decided dance is reset by the release of its key, so there is a key held down
\* whose release process_tap_dance will take for this dance, whatever happened to
\* the layers since it was pressed.
DanceEnds ==
  \A d \in Dances :
    /\ static.state[d].finished => static.state[d].pressed
    /\ static.state[d].pressed =>
         \E key \in held : keymap[static.kb.cache[key]][key] \in [kind : {"TAP_DANCE"}, code : {d},
                                                                 mod : Mods, layer : Layers]

\* What the dance d has registered as long as it is decided and not reset.
Registered(d) ==
  LET a == action[d]
      n == static.state[d].count
  IN  IF ~static.state[d].finished THEN {}
      ELSE IF a.type = "DOUBLE" /\ n = 2 THEN {a.kc2}
      ELSE IF n = 1 /\ a.type # "FN" THEN {a.kc1} ELSE {}

\* Nothing is left in the report: a registered code belongs to a plain key held down
\* or to a decided dance, and weak modifiers belong to a decided dance.
NothingStuck ==
  LET kcs == UNION {Registered(d) : d \in Dances} IN
  /\ \A c \in static.kb.keys : \/ \E key \in held : LET a == keymap[static.kb.cache[key]][key]
                                                    IN  a.kind = "KEY" /\ a.code = c
                              \/ \E kc \in kcs : kc.code = c
  /\ static.weak_mods \subseteq UNION ({kc.mods : kc \in kcs} \cup
       {static.state[d].weak_mods : d \in {e \in Dances : static.state[e].finished}})

\* Every tap is answered once: the taps that were counted and not answered are those
\* of the dance that is not decided, over any sequence of dances.
TapsAnswered ==
  \A d \in Dances :
    static.owed[d] = IF static.state[d].finished THEN 0 ELSE static.state[d].count

\* The press of key is a tap of d.
Taps(key, d) == LET a == get_record_keycode(static, key) IN IsDance(a) /\ a.code = d

\* A dance acts as on one tap only when something else was pressed, or its key was not
\* pressed again within the term; it acts as on two only when these were consecutive
\* presses of its key, with no other key and no more than the term (and the time
\* by which the task is late) in between.
SentAsTapped ==
  [][ \A d \in Dances :
        LET again == \E key \in held' \ held : Taps(key, d)
            other == \E key \in held' \ held : ~Taps(key, d)
        IN  /\ <<d, 1>> \in static'.sent => other \/ recent.since > TAPPING_TERM
            /\ <<d, 2>> \in static'.sent => IF again THEN recent'.again ELSE recent.again ]_vars

\* A key that interrupts a dance comes after it: when the key is registered no dance
\* is undecided, and it acts on the layers as the dance has left them; if there it is
\* a dance itself its tap is counted.
InterrupterComesAfter ==
  [][ \A key \in held' \ held :
        LET layer == layer_switch_get_layer(static'.kb, key)
            a     == keymap[layer][key]
        IN  /\ a.kind = "KEY" => /\ static'.active_td = No
                                 /\ static'.kb.cache[key] = layer
                                 /\ static'.weak_mods = {}
            /\ IsDance(a) => static'.state[a.code].count > 0 ]_vars

\* Every dance is decided, if only its key is left alone or held.
EventuallyDecided == \A d \in Dances : static.active_td = d ~> static.active_td # d
=============================================================================
