------------------------------- MODULE Combo --------------------------------
(***************************************************************************)
(* Combos (quantum/process_keycode/process_combo.c): keys pressed together *)
(* act as one.  Presses of keys that could belong to a combo are held back *)
(* in key_buffer until the chord is complete and its term is over, or      *)
(* until something else shows that there is no chord; combos that are      *)
(* complete wait in combo_buffer.                                          *)
(*                                                                         *)
(* A step is one call of process_combo, for a key pressed or released, or  *)
(* one of combo_task; static holds the variables of the source file.  What *)
(* is handed on, to action_tapping_process or to process_combo_event, is   *)
(* recorded as what is down there: keys_down and combos_down.  Layers and  *)
(* what keys and combos stand for make no difference to the handler and    *)
(* are left out.                                                           *)
(***************************************************************************)
EXTENDS Integers, Sequences, SequencesExt, FiniteSetsExt

CONSTANTS Keys,                      \* the keys, one keycode each
          SwitchKey,                 \* the key with QK_COMBO_ON, _OFF and _TOGGLE
          Builds,                    \* the keymaps and options to choose from
          COMBO_KEY_BUFFER_LENGTH,
          COMBO_TERM, COMBO_HOLD_TERM,
          MAX_STALL,                 \* bound: ms by which combo_task may be late
          CLOCK_ZERO                 \* a key may be pressed when timer_read() is 0

ASSUME ComboAssumption ==
  /\ SwitchKey \in Keys
  /\ COMBO_KEY_BUFFER_LENGTH \in Nat \ {0}
  /\ COMBO_TERM \in Nat \ {0} /\ COMBO_HOLD_TERM \in Nat \ {0} /\ MAX_STALL \in Nat \ {0}
  /\ CLOCK_ZERO \in BOOLEAN
  /\ \A b \in Builds : /\ b.combos \in Seq(Seq(Keys \ {SwitchKey}))
                       /\ b.must_hold \cup b.must_tap \cup b.in_order \subseteq DOMAIN b.combos
                       /\ b.strict \in BOOLEAN /\ b.buffer_length \in Nat \ {0, 1}

VARIABLES build,        \* the keymap's combos and the compile-time options
          held,         \* the keys that are held down
          static        \* the variables of process_combo.c, and what is down downstream

vars == <<build, held, static>>

Combos    == DOMAIN build.combos
KeysOf(c) == Range(build.combos[c])
COMBO_BUFFER_LENGTH == build.buffer_length

Off == -1               \* timer: not running; else the ms since it was started

\* The keys of c that are known to be held down, and that these are all.
StateOf(m, c)  == {key \in KeysOf(c) : <<c, key>> \in m.state}
Complete(m, c) == StateOf(m, c) = KeysOf(c)

-----------------------------------------------------------------------------
(* Operators on the variables of the file.                                 *)

\* f after m: f of m's value, which is computed once.
After(m, f(_)) == CHOOSE n \in {f(v) : v \in {m}} : TRUE

release_combo(m, c) == [m EXCEPT !.combos_down = @ \ {c}, !.active = @ \ {c}]

clear_combos(m) ==
  [m EXCEPT !.longest_term = 0, !.disabled = @ \cap m.active,
            !.state = {p \in @ : p[1] \in m.active}]

dump_key_buffer(m) ==
  [m EXCEPT !.key_buffer = <<>>, !.ticks = {}, !.fired = {},
            !.keys_down = @ \cup {m.key_buffer[i] : i \in DOMAIN m.key_buffer \
                                                      (m.ticks \cup {p[1] : p \in m.fired})},
            !.combos_down = @ \cup {p[2] : p \in m.fired}]

drop_combo_from_buffer(m, c) ==
  IF c \notin Range(m.combo_buffer) THEN m
  ELSE [m EXCEPT !.disabled = @ \cup {c},
                 !.combo_buffer = IF Head(@) = c THEN Tail(@) ELSE @]

\* The last key of the chord in the buffer becomes the combo, the others are disabled.
apply_combo(m, c) ==
  IF c \in m.disabled THEN m
  ELSE LET chord == {i \in DOMAIN m.key_buffer : m.key_buffer[i] \in KeysOf(c)}
           full  == {i \in chord : KeysOf(c) = {m.key_buffer[j] : j \in chord \cap 1 .. i}}
           last  == IF full = {} THEN {} ELSE {Min(full)}
           ticks == {i \in chord : \A j \in last : i < j}
           kept  == {p \in m.fired : p[1] \notin ticks \cup last}
       IN  After([m EXCEPT !.ticks  = (@ \cup ticks) \ last,
                           !.fired  = kept \cup (last \X {c}),
                           !.active = IF full = {} THEN @ ELSE @ \cup {c}],
                 LAMBDA n : drop_combo_from_buffer(n, c))

\* Mutant: tap-only combos are applied with the others.
apply_one_TapToo(m, c) == apply_combo(m, c)
\* Tap-only combos are applied on a release only.
apply_one(m, c) == IF c \in build.must_tap THEN drop_combo_from_buffer(m, c)
                                           ELSE apply_combo(m, c)

\* All prepared combos in turn, then the presses.
apply_combos(m) ==
  LET after[i \in 0 .. Len(m.combo_buffer)] ==
        IF i = 0 THEN m ELSE After(after[i - 1], LAMBDA n : apply_one(n, m.combo_buffer[i]))
  IN  After(After(after[Len(m.combo_buffer)], dump_key_buffer), clear_combos)

-----------------------------------------------------------------------------
(* process_single_combo.  Its result is or-ed into m.is_combo_key.         *)

Overlaps(c, d) == KeysOf(c) \cap KeysOf(d) # {}

\* Into the ring, which holds one less than its length: when full it looks empty.
\* Tap-only and hold-only combos may have to wait longer.
save(m, c) ==
  [m EXCEPT !.combo_buffer = IF Len(@) + 1 = COMBO_BUFFER_LENGTH THEN <<>> ELSE Append(@, c),
            !.longest_term = IF c \in build.must_hold \cup build.must_tap /\ @ < COMBO_HOLD_TERM
                             THEN COMBO_HOLD_TERM ELSE @]

\* Mutant: overlapping combos are all kept.
prepare_Both(m, c) == save(m, c)
\* Mutant: a disabled combo stays in the buffer.
prepare_Keeps(m, c) ==
  save([m EXCEPT !.disabled = @ \cup {d \in Range(m.combo_buffer) : Overlaps(d, c)}], c)
\* A combo is complete: of the prepared combos that overlap with it the shorter is
\* disabled, and leaves the buffer if all before it have; and unless it is the
\* shorter one itself, it is saved.
prepare(m, c) ==
  LET size    == Len(m.combo_buffer)
      longer  == {i \in 1 .. size : /\ Overlaps(m.combo_buffer[i], c)
                                    /\ Len(build.combos[c]) < Len(build.combos[m.combo_buffer[i]])}
      stop    == Min(longer \cup {size + 1})
      dropped == {i \in 1 .. stop - 1 : Overlaps(m.combo_buffer[i], c)}
      leaving == Max({n \in 0 .. stop - 1 : 1 .. n \subseteq dropped})
      left    == SubSeq(m.combo_buffer, leaving + 1, size)
      updated == [m EXCEPT !.disabled = @ \cup {m.combo_buffer[i] : i \in dropped},
                           !.combo_buffer = left]
  IN  IF longer # {} THEN [updated EXCEPT !.disabled = @ \cup {c}]
                     ELSE After(updated, LAMBDA n : save(n, c))

keys_pressed_in_order(m, c, key) ==
  \/ c \notin build.in_order
  \/ \E i \in DOMAIN build.combos[c] :
       /\ build.combos[c][i] = key
       /\ StateOf(m, c) = {build.combos[c][j] : j \in 1 .. i - 1}

IsPart(m, c, key) ==
  c \notin m.disabled /\ m.b_combo_enable /\ keys_pressed_in_order(m, c, key)

\* A key of the combo is pressed.
single_Press(m, c, key) ==
  After(IF c \in m.active THEN [m EXCEPT !.is_combo_key = TRUE]
        ELSE [m EXCEPT !.is_combo_key = TRUE, !.state = @ \cup {<<c, key>>},
                       !.longest_term = IF @ < COMBO_TERM THEN COMBO_TERM ELSE @],
        LAMBDA n : IF ~Complete(n, c) THEN n
                   ELSE IF n.timer > COMBO_TERM THEN [n EXCEPT !.disabled = @ \cup {c}]
                   ELSE prepare(n, c))

\* A key of the combo is released, or is pressed and not taken as part of it: what
\* becomes of the combo, and whether the event belongs to it.
single_Release(m, c, key) ==
  CASE c \notin m.active /\ Complete(m, c) ->            \* first key quickly released
         IF c \in m.disabled \cup build.must_hold THEN <<drop_combo_from_buffer(m, c), FALSE>>
         ELSE IF c \in build.must_tap
              THEN <<After(apply_combo(m, c), apply_combos), IsPart(m, c, key)>>
         ELSE <<m, IsPart(m, c, key)>>
    [] c \in m.active /\ StateOf(m, c) = {key} -> <<release_combo(m, c), TRUE>>
    [] c \in m.active /\ StateOf(m, c) # {key} -> <<m, key \in StateOf(m, c)>>
    [] OTHER -> <<m, FALSE>>

\* Mutant: the key is still taken to be held down.
key_up_Not(result, c, key) ==
  [result[1] EXCEPT !.is_combo_key = @ \/ result[2]]
key_up(result, c, key) ==
  [result[1] EXCEPT !.state = @ \ {<<c, key>>}, !.is_combo_key = @ \/ result[2]]

process_single_combo(m, c, key, pressed) ==
  IF key \notin KeysOf(c) THEN m
  ELSE IF pressed /\ IsPart(m, c, key) THEN single_Press(m, c, key)
  ELSE After(single_Release(m, c, key), LAMBDA result : key_up(result, c, key))

-----------------------------------------------------------------------------
(* process_combo and combo_task.                                           *)

\* The value of timer_read() is 0 once in 65536 ms, and taken as "not running".
timer_read == IF CLOCK_ZERO THEN {0, Off} ELSE {0}

\* Neither a press of a combo key, nor anything to wait for.
flush(m) == IF m.combo_buffer # <<>> THEN apply_combos(m)
            ELSE After([dump_key_buffer(m) EXCEPT !.timer = Off], clear_combos)

\* Hold the press back.
hold_back(m, key, time) ==
  [m EXCEPT !.timer = IF build.strict /\ @ # Off THEN @ ELSE time,
            !.key_buffer = IF Len(@) < COMBO_KEY_BUFFER_LENGTH THEN Append(@, key) ELSE @]

\* All combos in turn.
scan(key, pressed) ==
  LET after[c \in {0} \cup Combos] ==
        IF c = 0 THEN [static EXCEPT !.is_combo_key = FALSE]
        ELSE After(after[c - 1], LAMBDA m : process_single_combo(m, c, key, pressed))
  IN  after[Len(build.combos)]

process_combo_Press(key) ==
  /\ key \notin held /\ key # SwitchKey
  /\ held' = held \cup {key}
  /\ \E m \in {scan(key, TRUE)} :
         IF m.is_combo_key
         THEN \E time \in timer_read : static' = hold_back(m, key, time)
         ELSE static' = [flush(m) EXCEPT !.keys_down = @ \cup {key}]
  /\ UNCHANGED build

process_combo_Release(key) ==
  /\ key \in held
  /\ held' = held \ {key}
  /\ \E m \in {scan(key, FALSE)} :
         static' = [flush(m) EXCEPT !.keys_down = IF m.is_combo_key THEN @ ELSE @ \ {key}]
  /\ UNCHANGED build

combo_disable(m) ==
  After(After([m EXCEPT !.timer = Off, !.b_combo_enable = FALSE, !.combo_buffer = <<>>],
              clear_combos),
        dump_key_buffer)

\* QK_COMBO_ON, QK_COMBO_OFF or QK_COMBO_TOGGLE is pressed.
process_combo_Switch(enable) ==
  /\ SwitchKey \notin held
  /\ held' = held \cup {SwitchKey}
  /\ LET m == IF enable THEN [static EXCEPT !.b_combo_enable = TRUE] ELSE combo_disable(static)
     IN  static' = [m EXCEPT !.keys_down = @ \cup {SwitchKey}]
  /\ UNCHANGED build

\* Mutant: only done when a combo is prepared.
combo_task_Prepared ==
  /\ static.b_combo_enable /\ static.timer > static.longest_term
  /\ static.combo_buffer # <<>>
  /\ static' = [flush(static) EXCEPT !.longest_term = 0, !.timer = Off]
  /\ UNCHANGED <<build, held>>
combo_task ==
  /\ static.b_combo_enable /\ static.timer > static.longest_term
  /\ static' = [flush(static) EXCEPT !.longest_term = 0, !.timer = Off]
  /\ UNCHANGED <<build, held>>

\* A millisecond passes; combo_task is late by no more than MAX_STALL.
Tick ==
  /\ static.timer # Off /\ static.timer < static.longest_term + MAX_STALL
  /\ static' = [static EXCEPT !.timer = @ + 1]
  /\ UNCHANGED <<build, held>>

Init ==
  /\ build \in Builds
  /\ held = {}
  /\ static = [state |-> {}, active |-> {}, disabled |-> {},
               key_buffer |-> <<>>, ticks |-> {}, fired |-> {}, combo_buffer |-> <<>>,
               timer |-> Off, longest_term |-> 0, b_combo_enable |-> TRUE,
               is_combo_key |-> FALSE, keys_down |-> {}, combos_down |-> {}]

Next ==
  \/ \E key \in Keys : process_combo_Press(key) \/ process_combo_Release(key)
  \/ \E enable \in BOOLEAN : process_combo_Switch(enable)
  \/ combo_task
  \/ Tick

Spec == Init /\ [][Next]_vars /\ WF_vars(combo_task) /\ WF_vars(Tick)

-----------------------------------------------------------------------------
(* What the properties ask of keymaps and options; the code checks none of it. *)

Share(b, c, d) == Range(b.combos[c]) \cap Range(b.combos[d]) # {}

\* A combo has two keys or more, and they differ.
ChordsOnly ==
  \A b \in Builds : \A c \in DOMAIN b.combos : Len(b.combos[c]) >= 2 /\ IsInjective(b.combos[c])

\* A combo that overlaps with one of two disjoint combos overlaps with the other one, and
\* a hold-only combo with all.  Otherwise one that is not the first in the ring can be
\* disabled: it stays behind and is applied to later presses.
Grouped ==
  \A b \in Builds :
    /\ \A c, d, e \in DOMAIN b.combos :
         c # d /\ c # e /\ d # e /\ Share(b, c, d) => Share(b, c, e) \/ Share(b, d, e)
    /\ \A c \in b.must_hold, d \in DOMAIN b.combos : Share(b, c, d)

\* The ring has room for all combos that can be prepared together, and for one more.
RingSuffices ==
  \A b \in Builds : \A S \in SUBSET DOMAIN b.combos :
    (\A c, d \in S : c # d => ~Share(b, c, d)) => Cardinality(S) < b.buffer_length

\* The key buffer has room for all keys of combos.
BufferSuffices ==
  \A b \in Builds : LET keys == UNION {Range(b.combos[c]) : c \in DOMAIN b.combos}
                    IN  IsFiniteSet(keys) /\ Cardinality(keys) <= COMBO_KEY_BUFFER_LENGTH

-----------------------------------------------------------------------------
(* Properties.                                                             *)

Buffered(key) == key \in Range(static.key_buffer)
Fired(c)      == c \in static'.combos_down \ static.combos_down

TypeOK ==
  /\ build \in Builds /\ held \subseteq Keys
  /\ static.state \subseteq UNION {{c} \X KeysOf(c) : c \in Combos}
  /\ static.active \subseteq Combos /\ static.disabled \subseteq Combos
  /\ static.key_buffer \in Seq(Keys) /\ static.ticks = {} /\ static.fired = {}
  /\ Len(static.key_buffer) <= COMBO_KEY_BUFFER_LENGTH
  /\ static.combo_buffer \in Seq(Combos) /\ Len(static.combo_buffer) < COMBO_BUFFER_LENGTH
  /\ static.timer \in {Off} \cup 0 .. COMBO_TERM + COMBO_HOLD_TERM + MAX_STALL
  /\ static.longest_term \in {0, COMBO_TERM, COMBO_HOLD_TERM}
  /\ static.b_combo_enable \in BOOLEAN /\ static.is_combo_key \in BOOLEAN
  /\ static.keys_down \subseteq Keys /\ static.combos_down \subseteq Combos

\* Every press is accounted for: the key is handed on, is waiting in the buffer, or is
\* part of a combo that is down.  apply_combo, drop_combo_from_buffer and the releases
\* in process_single_combo never leave a key that was swallowed and belongs to nothing.
PressHandedOn ==
  \A key \in held : \/ key \in static.keys_down \/ Buffered(key)
                    \/ \E c \in static.combos_down : key \in StateOf(static, c)

\* Nothing stays down: a key that was handed on is still held, and a combo has a key
\* left whose release will release it.
NothingStuck ==
  /\ static.keys_down \subseteq held
  /\ \A c \in static.combos_down :
       c \in static.active /\ StateOf(static, c) # {} /\ StateOf(static, c) \subseteq held

\* A press is typed or is part of a combo, never both, and of one combo only.
UsedOnce ==
  \A c \in static.combos_down :
    /\ StateOf(static, c) \cap static.keys_down = {}
    /\ \A d \in static.combos_down \ {c} : StateOf(static, c) \cap StateOf(static, d) = {}

\* Among keys, those of c come in the order in which the keymap lists them.
Ordered(c, keys) ==
  \A i, j \in DOMAIN build.combos[c], p, q \in DOMAIN keys :
    i < j /\ keys[p] = build.combos[c][i] /\ keys[q] = build.combos[c][j] => p < q

\* The presses that are held back are in the order c asks for.
InOrder(c) == Ordered(c, static.key_buffer)

\* A combo is made of presses that are held back and keys that are still held.  A
\* hold-only combo does not fire by a release of one of its keys, a tap-only one by
\* nothing else, and one whose keys must be pressed in order by no other order
\* (get_combo_must_hold, get_combo_must_tap, keys_pressed_in_order).
FiresAsConfigured ==
  [][\A c \in Combos : Fired(c) =>
       /\ KeysOf(c) \subseteq held \cap Range(static.key_buffer)
       /\ c \in build.must_hold => KeysOf(c) \subseteq held'
       /\ c \in build.must_tap  => ~(KeysOf(c) \subseteq held')
       /\ c \in build.in_order  => InOrder(c)]_vars

\* A press is not held back for ever: combo_task hands it on even if nothing else
\* happens.
EventuallyHandedOn ==
  \A key \in Keys : Buffered(key) ~> ~Buffered(key)
=============================================================================
