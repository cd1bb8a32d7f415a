--------------------------- MODULE TapDanceProofs ---------------------------
(***************************************************************************)
(* Proofs about tap dances, for every set of dances, keymap, term and      *)
(* bound.                                                                  *)
(*                                                                         *)
(* The invariant IInv relates four things that the properties mention only *)
(* in pairs: which dance is active, how far each dance is, what the report *)
(* holds, and which keys are held down as what.  It is stated for any      *)
(* state of static (Between), since a key event goes through several: a    *)
(* press decides the dance it interrupts, counts a tap of its own, and is  *)
(* registered.  In between a dance may be pressed whose key is not yet     *)
(* held as its key; such dances are excused.                               *)
(*                                                                         *)
(* Two hypotheses about the keymap are needed, and no more: MoveStays and  *)
(* OneKeyEach of module TapDance.  The code checks neither.                *)
(***************************************************************************)
EXTENDS TapDance, WellFoundedInduction, TLAPS

\* The states of a dance, and the values of static.
DanceStates == [count : 0 .. MAX_TAPS, pressed : BOOLEAN, finished : BOOLEAN,
                interrupted : BOOLEAN, weak_mods : SUBSET Mods]

Statics == [kb : KeyboardStates, weak_mods : SUBSET Mods, state : [Dances -> DanceStates],
            active_td : Dances \cup {No}, owed : [Dances -> Int], sent : SUBSET (Dances \X Nat)]

\* The action a key held down was pressed as, and whether that is dance d.
HeldAs(m, key)    == keymap[m.kb.cache[key]][key]
HoldsFor(m, key, d) == IsDance(HeldAs(m, key)) /\ HeldAs(m, key).code = d

\* Registered, in m.
RegisteredIn(m, d) ==
  IF ~m.state[d].finished THEN {}
  ELSE IF action[d].type = "DOUBLE" /\ m.state[d].count = 2 THEN {action[d].kc2}
  ELSE IF m.state[d].count = 1 /\ action[d].type # "FN" THEN {action[d].kc1} ELSE {}

\* What dance d has in the report.
CodesOf(m, d)  == {kc.code : kc \in RegisteredIn(m, d)}
WeakOf(m, d)   == UNION {kc.mods : kc \in RegisteredIn(m, d)}

\* The states of the dances with d reset or decided, and what is owed after n taps of
\* d have been answered.
ResetState(m, d)    == [m.state EXCEPT ![d] = Zero]
FinishedState(m, d) == [m.state EXCEPT ![d].finished = TRUE]
Owing(m, d, n)      == [m.owed EXCEPT ![d] = @ - n]

\* A dance is active while it is counted and not decided; it is decided only while its
\* key is held; DOUBLE and LAYER_MOVE are decided by their second tap; and the taps that
\* are not answered are those of an undecided dance.
DanceInv(m, d) ==
  /\ m.active_td = d <=> m.state[d].count > 0 /\ ~m.state[d].finished
  /\ m.state[d].finished => m.state[d].count > 0 /\ m.state[d].pressed
  /\ action[d].type \in {"DOUBLE", "LAYER_MOVE"} =>
       m.state[d].count <= IF m.state[d].finished THEN 2 ELSE 1
  /\ m.owed[d] = IF m.state[d].finished THEN 0 ELSE m.state[d].count

DancesInv(m) == \A d \in Dances : DanceInv(m, d)

\* With the keys of H held down, a pressed dance has its key among them, but for X.
HeldInv(m, H, X) ==
  \A d \in Dances \ X : m.state[d].pressed => \E key \in H : HoldsFor(m, key, d)

\* A registered code belongs to a plain key held down or to a decided dance.
KeysInv(m, H) ==
  \A c \in m.kb.keys : \/ \E key \in H : HeldAs(m, key).kind = "KEY" /\ HeldAs(m, key).code = c
                       \/ \E d \in Dances : \E kc \in RegisteredIn(m, d) : kc.code = c

\* A weak modifier belongs to a decided dance.
ModsInv(m) ==
  \A w \in m.weak_mods : \E d \in Dances : \/ \E kc \in RegisteredIn(m, d) : w \in kc.mods
                                           \/ m.state[d].finished /\ w \in m.state[d].weak_mods

\* The invariant of static, within a key event too.
Between(m, H, X) ==
  m \in Statics /\ DancesInv(m) /\ HeldInv(m, H, X) /\ KeysInv(m, H) /\ ModsInv(m)

\* The fields of a dance's action.
LEMMA ActionIs ==
  /\ \A d \in Dances : /\ action[d].type \in Types /\ action[d].layer \in Layers
                       /\ action[d].kc1.code \in Codes /\ action[d].kc2.code \in Codes
                       /\ action[d].kc1.mods \in SUBSET Mods /\ action[d].kc2.mods \in SUBSET Mods
  /\ Dances \subseteq Codes /\ No \notin Dances
BY TapDanceAssumption DEF Codes16

\* From m to n nothing is sent, or the answer to c taps of d.
Sends(m, n, d, c) == m.sent \subseteq n.sent /\ n.sent \subseteq m.sent \cup {<<d, c>>}

\* What is left of a dance when it has been decided.
FinishedAs(m, n, d) ==
  /\ n.active_td = No /\ n.kb.cache = m.kb.cache
  /\ n.owed = Owing(m, d, m.state[d].count) /\ Sends(m, n, d, m.state[d].count)
  /\ \/ /\ m.state[d].pressed /\ ~(action[d].type = "FN" /\ m.state[d].count >= 2)
        /\ n.state = FinishedState(m, d)
        /\ n.kb.keys = m.kb.keys \cup CodesOf(n, d)
        /\ n.weak_mods = m.weak_mods \cup m.state[d].weak_mods
                           \cup WeakOf(n, d)
     \/ /\ n.state = ResetState(m, d)
        /\ n.kb.keys \subseteq m.kb.keys /\ n.weak_mods \subseteq m.weak_mods

\* n is m but for the codes and weak modifiers in the report.
SameBut(m, n) ==
  /\ n.kb.mods = m.kb.mods /\ n.kb.layers = m.kb.layers /\ n.kb.cache = m.kb.cache
  /\ n.state = m.state /\ n.active_td = m.active_td /\ n.owed = m.owed /\ n.sent = m.sent

\* m with another report.
WithReport(m, keys, weak) == [m EXCEPT !.kb.keys = keys, !.weak_mods = weak]

\* What register_code16 and unregister_code16 change.
LEMMA CodeIs ==
  ASSUME NEW m \in Statics, NEW kc \in Codes16
  PROVE  /\ register_code16(m, kc) \in Statics /\ SameBut(m, register_code16(m, kc))
         /\ register_code16(m, kc).kb.keys = m.kb.keys \cup {kc.code}
         /\ register_code16(m, kc).weak_mods = m.weak_mods \cup kc.mods
         /\ unregister_code16(m, kc) \in Statics /\ SameBut(m, unregister_code16(m, kc))
         /\ unregister_code16(m, kc).kb.keys = m.kb.keys \ {kc.code}
         /\ unregister_code16(m, kc).weak_mods = m.weak_mods \ kc.mods
<1>1. kc.code \in Codes /\ kc.mods \in SUBSET Mods /\ m.kb \in KeyboardStates
  BY DEF Codes16, Statics
<1>2. m.kb = [keys |-> m.kb.keys, mods |-> m.kb.mods, layers |-> m.kb.layers, cache |-> m.kb.cache]
      /\ m.kb.keys \in SUBSET Codes /\ m.kb.mods \in SUBSET Mods /\ m.kb.layers \in SUBSET Layers
      /\ m.kb.cache \in [Keys -> Layers]
  BY <1>1 DEF KeyboardStates
<1>3. ASSUME NEW keys \in SUBSET Codes, NEW weak \in SUBSET Mods, NEW n,
             n = WithReport(m, keys, weak)
      PROVE  n \in Statics /\ SameBut(m, n) /\ n.kb.keys = keys /\ n.weak_mods = weak
  <2>1. /\ n.kb = [m.kb EXCEPT !.keys = keys] /\ n.weak_mods = weak /\ n.state = m.state
        /\ n.active_td = m.active_td /\ n.owed = m.owed /\ n.sent = m.sent
        /\ n = [kb |-> n.kb, weak_mods |-> n.weak_mods, state |-> n.state,
                active_td |-> n.active_td, owed |-> n.owed, sent |-> n.sent]
    BY <1>3 DEF Statics, WithReport
  <2>2. n.kb = [keys |-> keys, mods |-> m.kb.mods, layers |-> m.kb.layers, cache |-> m.kb.cache]
    BY <1>2, <2>1
  <2>3. n.kb \in KeyboardStates
    BY <1>2, <2>2 DEF KeyboardStates
  <2>4. n \in Statics
    BY <2>1, <2>3 DEF Statics
  <2> QED
    BY <2>1, <2>2, <2>4 DEF SameBut
<1> DEFINE r == register_code16(m, kc)
           u == unregister_code16(m, kc)
           rkeys == m.kb.keys \cup {kc.code}
           ukeys == m.kb.keys \ {kc.code}
           rmods == m.weak_mods \cup kc.mods
           umods == m.weak_mods \ kc.mods
<1>4. m.weak_mods \in SUBSET Mods
  BY DEF Statics
<1>5. /\ rkeys \in SUBSET Codes /\ ukeys \in SUBSET Codes
      /\ rmods \in SUBSET Mods /\ umods \in SUBSET Mods
  BY <1>1, <1>2, <1>4
<1>6. r = WithReport(m, rkeys, rmods) /\ u = WithReport(m, ukeys, umods)
  BY DEF register_code16, unregister_code16, WithReport
<1> HIDE DEF r, u, rkeys, ukeys, rmods, umods
<1>7. /\ r \in Statics /\ SameBut(m, r) /\ r.kb.keys = rkeys
      /\ r.weak_mods = rmods
  BY <1>3, <1>5, <1>6
<1>8. /\ u \in Statics /\ SameBut(m, u) /\ u.kb.keys = ukeys
      /\ u.weak_mods = umods
  BY <1>3, <1>5, <1>6
<1> QED
  BY <1>7, <1>8 DEF r, u, rkeys, ukeys, rmods, umods

\* What a reset takes back: everything the dance has registered, if it was decided.
LEMMA ResetIs ==
  ASSUME NEW m \in Statics, NEW d \in Dances,
         NEW n, n = process_tap_dance_action_on_reset(m, d)
  PROVE  /\ n \in Statics /\ n.kb.cache = m.kb.cache /\ n.kb.layers = m.kb.layers
         /\ n.active_td = m.active_td /\ n.owed = m.owed /\ n.sent = m.sent
         /\ n.state = ResetState(m, d)
         /\ m.state[d].finished => n.kb.keys = m.kb.keys \ CodesOf(m, d)
         /\ m.state[d].finished => n.weak_mods = (m.weak_mods \ m.state[d].weak_mods)
                             \ WeakOf(m, d)
         /\ ~m.state[d].finished => n.kb.keys \subseteq m.kb.keys /\ n.weak_mods \subseteq m.weak_mods
<1> DEFINE o == on_reset(m, d)
           R == {kc \in {action[d].kc1, action[d].kc2} :
                   \/ action[d].type # "FN" /\ m.state[d].count = 1 /\ kc = action[d].kc1
                   \/ action[d].type = "DOUBLE" /\ m.state[d].count = 2 /\ kc = action[d].kc2}
<1>1. n = [o EXCEPT !.weak_mods = @ \ o.state[d].weak_mods, !.state[d] = Zero]
  BY DEF process_tap_dance_action_on_reset, After
<1>2. /\ m.kb \in KeyboardStates /\ m.weak_mods \in SUBSET Mods /\ m.state \in [Dances -> DanceStates]
      /\ m.state[d] \in DanceStates /\ action[d].type \in Types
  BY ActionIs DEF Statics
<1>3. \/ /\ o = m /\ R = {}
      \/ \E kc \in {action[d].kc1, action[d].kc2} : o = unregister_code16(m, kc) /\ R = {kc}
  BY <1>2, ActionIs DEF on_reset, tap_dance_pair_reset, tap_dance_dual_role_reset, Types
<1>4. /\ o \in Statics /\ SameBut(m, o)
      /\ o.kb.keys = m.kb.keys \ {kc.code : kc \in R}
      /\ o.weak_mods = m.weak_mods \ UNION {kc.mods : kc \in R}
  <2>1. CASE o = m /\ R = {}
    BY <2>1 DEF SameBut
  <2>2. CASE \E kc \in {action[d].kc1, action[d].kc2} : o = unregister_code16(m, kc) /\ R = {kc}
    <3> HIDE DEF o, R
    <3>1. PICK kc \in {action[d].kc1, action[d].kc2} : o = unregister_code16(m, kc) /\ R = {kc}
      BY <2>2
    <3>2. kc \in Codes16
      BY TapDanceAssumption
    <3> QED
      BY <3>1, <3>2, CodeIs
  <2> QED
    BY <1>3, <2>1, <2>2
<1>5. m.state[d].finished =>
        CodesOf(m, d) = {kc.code : kc \in R} /\ WeakOf(m, d) = UNION {kc.mods : kc \in R}
  BY <1>2 DEF RegisteredIn, CodesOf, WeakOf
<1> HIDE DEF o, R
<1>6. /\ n.kb = o.kb /\ n.weak_mods = o.weak_mods \ o.state[d].weak_mods
      /\ n.state = ResetState(o, d)
      /\ n.active_td = o.active_td /\ n.owed = o.owed /\ n.sent = o.sent
      /\ n = [kb |-> n.kb, weak_mods |-> n.weak_mods, state |-> n.state,
              active_td |-> n.active_td, owed |-> n.owed, sent |-> n.sent]
  BY <1>1, <1>4 DEF Statics, ResetState
<1>7. n.state = ResetState(m, d) /\ n.state \in [Dances -> DanceStates]
  BY <1>2, <1>4, <1>6, TapDanceAssumption DEF Zero, DanceStates, SameBut, ResetState
<1>8. n \in Statics
  BY <1>4, <1>6, <1>7 DEF Statics
<1> QED
  BY <1>4, <1>5, <1>6, <1>7, <1>8 DEF SameBut

\* Answering changes the history only.
LEMMA AnswerIs ==
  ASSUME NEW m \in Statics, NEW d \in Dances, NEW c \in Nat
  PROVE  LET n == Answer(m, d, c)
         IN  /\ n \in Statics /\ n.kb = m.kb /\ n.weak_mods = m.weak_mods /\ n.state = m.state
             /\ n.active_td = m.active_td
             /\ n.owed = Owing(m, d, c) /\ n.sent = m.sent \cup {<<d, c>>}
<1> DEFINE n == Answer(m, d, c)
           owed == Owing(m, d, c)
           sent == m.sent \cup {<<d, c>>}
<1>1. owed \in [Dances -> Int] /\ sent \in SUBSET (Dances \X Nat)
  BY DEF Statics, Owing
<1>2. n = [m EXCEPT !.sent = sent, !.owed = owed]
  BY DEF Answer, Owing
<1> HIDE DEF n, owed, sent
<1>3. /\ n.kb = m.kb /\ n.weak_mods = m.weak_mods /\ n.state = m.state
      /\ n.active_td = m.active_td /\ n.owed = owed /\ n.sent = sent
      /\ n = [kb |-> n.kb, weak_mods |-> n.weak_mods, state |-> n.state,
              active_td |-> n.active_td, owed |-> n.owed, sent |-> n.sent]
  BY <1>2 DEF Statics
<1>4. n \in Statics
  BY <1>1, <1>3 DEF Statics
<1> QED
  BY <1>3, <1>4 DEF n, owed, sent

\* active_td is set.
LEMMA ActivateIs ==
  ASSUME NEW m \in Statics, NEW a \in Dances \cup {No}
  PROVE  LET n == [m EXCEPT !.active_td = a]
         IN  /\ n \in Statics /\ n.kb = m.kb /\ n.weak_mods = m.weak_mods /\ n.state = m.state
             /\ n.active_td = a /\ n.owed = m.owed /\ n.sent = m.sent
BY DEF Statics

\* What on_dance_finished makes of a dance that has just been decided.
LEMMA DecidedIs ==
  ASSUME NEW m \in Statics, NEW d \in Dances, m.state[d].finished, m.state[d].count > 0,
         action[d].type \in {"DOUBLE", "LAYER_MOVE"} => m.state[d].count <= 1,
         NEW n, n = on_dance_finished(m, d)
  PROVE  /\ n \in Statics /\ n.kb.cache = m.kb.cache
         /\ n.owed = Owing(m, d, m.state[d].count) /\ Sends(m, n, d, m.state[d].count)
         /\ \/ /\ ~(action[d].type = "FN" /\ m.state[d].count >= 2)
               /\ n.state = m.state
               /\ n.kb.keys = m.kb.keys \cup CodesOf(m, d)
               /\ n.weak_mods = m.weak_mods \cup WeakOf(m, d)
            \/ /\ action[d].type = "FN" /\ m.state[d].count >= 2
               /\ n.state = ResetState(m, d)
               /\ n.kb.keys = m.kb.keys
               /\ n.weak_mods = m.weak_mods \ m.state[d].weak_mods
<1> DEFINE c == m.state[d].count
<1>0. /\ c \in Nat /\ action[d].type \in Types /\ action[d].kc1 \in Codes16
      /\ m.state[d] \in DanceStates /\ m.state \in [Dances -> DanceStates]
  BY TapDanceAssumption DEF Statics, DanceStates
<1>1. CASE action[d].type # "FN" /\ c = 1
  <2> DEFINE r == register_code16(m, action[d].kc1)
  <2>1. n = Answer(r, d, 1)
    BY <1>0, <1>1 DEF on_dance_finished, tap_dance_pair_finished, tap_dance_dual_role_finished, Types
  <2>2. CodesOf(m, d) = {action[d].kc1.code} /\ WeakOf(m, d) = action[d].kc1.mods
    BY <1>0, <1>1 DEF RegisteredIn, CodesOf, WeakOf
  <2>3. /\ r \in Statics /\ SameBut(m, r) /\ r.kb.keys = m.kb.keys \cup {action[d].kc1.code}
        /\ r.weak_mods = m.weak_mods \cup action[d].kc1.mods
    BY <1>0, CodeIs
  <2> HIDE DEF r
  <2>4. /\ n \in Statics /\ n.kb = r.kb /\ n.weak_mods = r.weak_mods /\ n.state = r.state
        /\ n.owed = Owing(r, d, 1) /\ n.sent = r.sent \cup {<<d, 1>>}
    BY <2>1, <2>3, AnswerIs
  <2> QED
    BY <1>1, <2>2, <2>3, <2>4 DEF SameBut, Owing, Sends
<1>2. CASE action[d].type = "LAYER_TOGGLE" /\ c = 2
  <2> DEFINE layers == Switch(m.kb.layers, action[d].layer, action[d].layer \notin m.kb.layers)
             r == layer_invert(m, action[d].layer)
  <2>1. n = Answer(r, d, 2)
    BY <1>0, <1>2 DEF on_dance_finished, tap_dance_dual_role_finished
  <2>2. CodesOf(m, d) = {} /\ WeakOf(m, d) = {}
    BY <1>2 DEF RegisteredIn, CodesOf, WeakOf
  <2>3. layers \in SUBSET Layers /\ m.kb \in KeyboardStates
    BY ActionIs DEF Statics, KeyboardStates, Switch
  <2>4. r = [m EXCEPT !.kb = [m.kb EXCEPT !.layers = layers]]
    BY DEF layer_invert
  <2> HIDE DEF r, layers
  <2>5. /\ r.weak_mods = m.weak_mods /\ r.state = m.state /\ r.active_td = m.active_td
        /\ r.owed = m.owed /\ r.sent = m.sent /\ r.kb = [m.kb EXCEPT !.layers = layers]
        /\ r = [kb |-> r.kb, weak_mods |-> r.weak_mods, state |-> r.state,
                active_td |-> r.active_td, owed |-> r.owed, sent |-> r.sent]
    BY <2>4 DEF Statics
  <2>6. /\ r.kb = [keys |-> m.kb.keys, mods |-> m.kb.mods, layers |-> layers, cache |-> m.kb.cache]
    BY <2>3, <2>5 DEF KeyboardStates
  <2>7. r.kb \in KeyboardStates
    BY <2>3, <2>6 DEF KeyboardStates
  <2>8. r \in Statics
    BY <2>5, <2>7 DEF Statics
  <2>9. /\ n \in Statics /\ n.kb = r.kb /\ n.weak_mods = r.weak_mods /\ n.state = r.state
        /\ n.owed = Owing(r, d, 2) /\ n.sent = r.sent \cup {<<d, 2>>}
    BY <2>1, <2>8, AnswerIs
  <2> QED
    BY <1>2, <2>2, <2>5, <2>6, <2>9 DEF Owing, Sends
<1>3. CASE \/ action[d].type = "LAYER_TOGGLE" /\ c > 2
           \/ action[d].type = "FN" /\ c = 1
  <2>1. n = Answer(m, d, c)
    BY <1>0, <1>3 DEF on_dance_finished, tap_dance_dual_role_finished
  <2>2. CodesOf(m, d) = {} /\ WeakOf(m, d) = {}
    BY <1>0, <1>3 DEF RegisteredIn, CodesOf, WeakOf
  <2>3. /\ n \in Statics /\ n.kb = m.kb /\ n.weak_mods = m.weak_mods /\ n.state = m.state
        /\ n.owed = Owing(m, d, c) /\ n.sent = m.sent \cup {<<d, c>>}
    BY <1>0, <2>1, AnswerIs
  <2> QED
    BY <1>3, <2>2, <2>3 DEF Sends
<1>4. CASE action[d].type = "FN" /\ c >= 2
  <2> DEFINE o == Answer(m, d, c)
             p == [o EXCEPT !.active_td = No]
  <2>1. n = process_tap_dance_action_on_reset(p, d)
    BY <1>0, <1>4 DEF on_dance_finished, reset_tap_dance
  <2>2. /\ o \in Statics /\ o.kb = m.kb /\ o.weak_mods = m.weak_mods /\ o.state = m.state
        /\ o.owed = Owing(m, d, c) /\ o.sent = m.sent \cup {<<d, c>>}
    BY <1>0, AnswerIs
  <2> HIDE DEF o
  <2>3. /\ p \in Statics /\ p.kb = m.kb /\ p.weak_mods = m.weak_mods /\ p.state = m.state
        /\ p.owed = o.owed /\ p.sent = o.sent
    BY <2>2, ActivateIs
  <2>4. CodesOf(p, d) = {} /\ WeakOf(p, d) = {}
    BY <1>4, <2>3 DEF RegisteredIn, CodesOf, WeakOf
  <2> HIDE DEF p
  <2>5. /\ n \in Statics /\ n.kb.cache = p.kb.cache /\ n.owed = p.owed
        /\ n.state = ResetState(p, d) /\ n.sent = p.sent
        /\ n.kb.keys = p.kb.keys /\ n.weak_mods = p.weak_mods \ p.state[d].weak_mods
    <3>1. p.state[d].finished
      BY <2>3
    <3>2. /\ n \in Statics /\ n.kb.cache = p.kb.cache /\ n.owed = p.owed
          /\ n.state = ResetState(p, d) /\ n.sent = p.sent
          /\ n.kb.keys = p.kb.keys \ CodesOf(p, d)
          /\ n.weak_mods = (p.weak_mods \ p.state[d].weak_mods)
                             \ WeakOf(p, d)
      BY <2>1, <2>3, <3>1, ResetIs
    <3> QED
      BY <2>4, <3>2
  <2> QED
    BY <1>4, <2>2, <2>3, <2>5 DEF Owing, ResetState, Sends
<1> QED
  BY <1>0, <1>1, <1>2, <1>3, <1>4 DEF Types

\* A dance that is decided is answered; it is reset at once when its key is up or its
\* function has ended it.
LEMMA FinishIs ==
  ASSUME NEW m \in Statics, NEW d \in Dances, m.state[d].count > 0, ~m.state[d].finished,
         action[d].type \in {"DOUBLE", "LAYER_MOVE"} => m.state[d].count <= 1,
         NEW n, n = process_tap_dance_action_on_dance_finished(m, d)
  PROVE  n \in Statics /\ FinishedAs(m, n, d)
<1> DEFINE p == [m EXCEPT !.state[d].finished = TRUE,
                          !.weak_mods = @ \cup m.state[d].weak_mods]
           q == on_dance_finished(p, d)
           r == [q EXCEPT !.active_td = No]
           decided == FinishedState(m, d)
           weak == m.weak_mods \cup m.state[d].weak_mods
<1>1. n = IF q.state[d].pressed THEN r ELSE process_tap_dance_action_on_reset(r, d)
  BY DEF process_tap_dance_action_on_dance_finished, After
<1>2. /\ decided \in [Dances -> DanceStates] /\ weak \in SUBSET Mods
      /\ m.state \in [Dances -> DanceStates] /\ m.state[d] \in DanceStates
      /\ decided[d] = [m.state[d] EXCEPT !.finished = TRUE]
      /\ \A e \in Dances \ {d} : decided[e] = m.state[e]
  BY ZenonT(60) DEF Statics, DanceStates, FinishedState
<1>3. /\ decided[d].finished /\ decided[d].count = m.state[d].count
      /\ decided[d].pressed = m.state[d].pressed
      /\ decided[d].weak_mods = m.state[d].weak_mods
  BY <1>2 DEF DanceStates
<1>4. p = [m EXCEPT !.state = decided, !.weak_mods = weak]
  BY DEF Statics, FinishedState
<1> HIDE DEF decided, weak, p
<1>5. /\ p \in Statics /\ p.kb = m.kb /\ p.weak_mods = weak /\ p.state = decided /\ p.owed = m.owed
      /\ p.sent = m.sent
  BY <1>2, <1>4 DEF Statics
<1>6. /\ q \in Statics /\ q.kb.cache = p.kb.cache
      /\ q.owed = Owing(p, d, p.state[d].count) /\ Sends(p, q, d, p.state[d].count)
      /\ \/ /\ ~(action[d].type = "FN" /\ p.state[d].count >= 2)
            /\ q.state = p.state
            /\ q.kb.keys = p.kb.keys \cup CodesOf(p, d)
            /\ q.weak_mods = p.weak_mods \cup WeakOf(p, d)
         \/ /\ action[d].type = "FN" /\ p.state[d].count >= 2
            /\ q.state = ResetState(p, d)
            /\ q.kb.keys = p.kb.keys
            /\ q.weak_mods = p.weak_mods \ p.state[d].weak_mods
  BY <1>3, <1>5, DecidedIs
<1> HIDE DEF q
<1>7. /\ r \in Statics /\ r.kb = q.kb /\ r.weak_mods = q.weak_mods /\ r.state = q.state
      /\ r.active_td = No /\ r.owed = q.owed /\ r.sent = q.sent
  BY <1>6, ActivateIs
<1> HIDE DEF r
<1>8. CASE action[d].type = "FN" /\ p.state[d].count >= 2
  <2>1. /\ q.state = ResetState(m, d) /\ q.kb.keys = m.kb.keys
        /\ q.weak_mods \subseteq m.weak_mods /\ q.state[d] = Zero
    BY <1>2, <1>3, <1>5, <1>6, <1>8 DEF decided, weak, ResetState, FinishedState
  <2>2. n = process_tap_dance_action_on_reset(r, d) /\ ~r.state[d].finished
    BY <1>1, <1>7, <2>1 DEF Zero
  <2>3. /\ n \in Statics /\ n.kb.cache = r.kb.cache /\ n.active_td = No /\ n.owed = r.owed
        /\ n.state = ResetState(r, d) /\ n.sent = r.sent
        /\ n.kb.keys \subseteq r.kb.keys /\ n.weak_mods \subseteq r.weak_mods
    BY <1>7, <2>2, ResetIs
  <2>4. n.state = ResetState(m, d)
    BY <1>2, <1>7, <2>1, <2>3 DEF ResetState
  <2> QED
    BY <1>3, <1>5, <1>6, <1>7, <2>1, <2>3, <2>4 DEF FinishedAs, Owing, Sends
<1>9. CASE ~(action[d].type = "FN" /\ p.state[d].count >= 2) /\ m.state[d].pressed
  <2>0. n = r /\ n.state = p.state
    BY <1>1, <1>3, <1>5, <1>6, <1>7, <1>9
  <2>1. n = r /\ CodesOf(n, d) = CodesOf(p, d) /\ WeakOf(n, d) = WeakOf(p, d)
    <3>1. RegisteredIn(n, d) = RegisteredIn(p, d)
      BY <2>0 DEF RegisteredIn
    <3> QED
      BY <2>0, <3>1 DEF CodesOf, WeakOf
  <2> QED
    BY <1>3, <1>5, <1>6, <1>7, <1>9, <2>1 DEF FinishedAs, Owing, Sends, decided, weak
<1>10. CASE ~(action[d].type = "FN" /\ p.state[d].count >= 2) /\ ~m.state[d].pressed
  <2>1. /\ n = process_tap_dance_action_on_reset(r, d)
        /\ CodesOf(r, d) = CodesOf(p, d) /\ WeakOf(r, d) = WeakOf(p, d)
    BY <1>1, <1>3, <1>5, <1>6, <1>7, <1>10 DEF RegisteredIn, CodesOf, WeakOf
  <2>2. r.state[d].finished /\ r.state = decided
    BY <1>3, <1>5, <1>6, <1>7, <1>10
  <2>3. /\ n \in Statics /\ n.kb.cache = r.kb.cache /\ n.active_td = No /\ n.owed = r.owed
        /\ n.state = ResetState(r, d) /\ n.sent = r.sent
        /\ n.kb.keys = r.kb.keys \ CodesOf(r, d)
        /\ n.weak_mods = (r.weak_mods \ r.state[d].weak_mods)
                             \ WeakOf(r, d)
    BY <1>7, <2>1, <2>2, ResetIs
  <2>4. n.state = ResetState(m, d)
    BY <1>2, <2>2, <2>3 DEF ResetState, decided, FinishedState
  <2>5. n.kb.keys \subseteq m.kb.keys /\ n.weak_mods \subseteq m.weak_mods
    BY <1>3, <1>5, <1>6, <1>7, <1>10, <2>1, <2>2, <2>3 DEF weak
  <2> QED
    BY <1>3, <1>5, <1>6, <1>7, <2>3, <2>4, <2>5 DEF FinishedAs, Owing, Sends
<1> QED
  BY <1>8, <1>9, <1>10

\* Deciding the active dance keeps the invariant and leaves no dance active.
LEMMA FinishKeeps ==
  ASSUME NEW H, NEW X, NEW m, Between(m, H, X), NEW d \in Dances, m.active_td = d,
         NEW n, n = process_tap_dance_action_on_dance_finished(m, d)
  PROVE  /\ Between(n, H, X) /\ n.active_td = No /\ n.kb.cache = m.kb.cache
         /\ Sends(m, n, d, m.state[d].count)
<1>1. /\ m \in Statics /\ m.state[d].count > 0 /\ ~m.state[d].finished
      /\ action[d].type \in {"DOUBLE", "LAYER_MOVE"} => m.state[d].count <= 1
      /\ m.owed[d] = m.state[d].count
      /\ m.state \in [Dances -> DanceStates] /\ m.owed \in [Dances -> Int]
      /\ m.state[d] \in DanceStates /\ m.state[d].count \in Nat
  BY DEF Between, DancesInv, DanceInv, Statics, DanceStates
<1>2. n \in Statics /\ FinishedAs(m, n, d)
  BY <1>1, FinishIs
<1>3. \/ /\ m.state[d].pressed /\ n.state[d] = [m.state[d] EXCEPT !.finished = TRUE]
      \/ n.state[d] = Zero
  BY <1>1, <1>2 DEF FinishedAs, FinishedState, ResetState
<1>4. \/ /\ n.state[d].finished /\ n.state[d].pressed /\ m.state[d].pressed
         /\ n.state[d].count = m.state[d].count
      \/ ~n.state[d].finished /\ ~n.state[d].pressed /\ n.state[d].count = 0
  BY <1>1, <1>3 DEF Zero, DanceStates
<1>5. n.owed[d] = 0 /\ n.active_td = No /\ n.kb.cache = m.kb.cache
  BY <1>1, <1>2 DEF FinishedAs, Owing
<1>6. ASSUME NEW e \in Dances \ {d}
      PROVE  /\ n.state[e] = m.state[e] /\ n.owed[e] = m.owed[e] /\ m.active_td # e
             /\ RegisteredIn(n, e) = RegisteredIn(m, e)
  <2>1. n.state[e] = m.state[e] /\ n.owed[e] = m.owed[e]
    BY <1>1, <1>2 DEF FinishedAs, FinishedState, ResetState, Owing
  <2> QED
    BY <2>1 DEF RegisteredIn
<1>7. RegisteredIn(m, d) = {}
  BY <1>1 DEF RegisteredIn
<1>8. DancesInv(n)
  <2>1. DanceInv(n, d)
    BY <1>1, <1>4, <1>5, ActionIs DEF DanceInv
  <2>2. ASSUME NEW e \in Dances \ {d}
        PROVE  DanceInv(n, e)
    <3>1. DanceInv(m, e)
      BY DEF Between, DancesInv
    <3> QED
      BY <1>5, <1>6, <3>1, ActionIs DEF DanceInv
  <2> QED
    BY <2>1, <2>2 DEF DancesInv
<1>9. HeldInv(n, H, X)
  <2>1. \A e \in Dances : n.state[e].pressed => m.state[e].pressed
    BY <1>4, <1>6
  <2>2. \A e \in Dances, key \in H : HoldsFor(m, key, e) => HoldsFor(n, key, e)
    BY <1>5 DEF HoldsFor, HeldAs
  <2> QED
    BY <2>1, <2>2 DEF HeldInv, Between
<1>10. KeysInv(n, H)
  <2>1. \A c \in n.kb.keys : c \in m.kb.keys \/ \E kc \in RegisteredIn(n, d) : kc.code = c
    BY <1>2 DEF FinishedAs, CodesOf
  <2>2. \A key \in H : HeldAs(n, key) = HeldAs(m, key)
    BY <1>5 DEF HeldAs
  <2>3. ASSUME NEW c \in m.kb.keys
        PROVE  \/ \E key \in H : HeldAs(n, key).kind = "KEY" /\ HeldAs(n, key).code = c
               \/ \E e \in Dances : \E kc \in RegisteredIn(n, e) : kc.code = c
    <3>1. CASE \E key \in H : HeldAs(m, key).kind = "KEY" /\ HeldAs(m, key).code = c
      BY <2>2, <3>1
    <3>2. CASE \E e \in Dances : \E kc \in RegisteredIn(m, e) : kc.code = c
      <4>1. PICK e \in Dances : \E kc \in RegisteredIn(m, e) : kc.code = c
        BY <3>2
      <4> QED
        BY <1>6, <1>7, <4>1
    <3> QED
      BY <3>1, <3>2 DEF Between, KeysInv
  <2> QED
    BY <2>1, <2>3 DEF KeysInv
<1>11. ModsInv(n)
  <2>1. ASSUME NEW w \in n.weak_mods
        PROVE  \/ w \in m.weak_mods
               \/ n.state[d].finished /\ w \in n.state[d].weak_mods
               \/ \E kc \in RegisteredIn(n, d) : w \in kc.mods
    <3>1. CASE n.weak_mods \subseteq m.weak_mods
      BY <3>1
    <3>2. CASE /\ n.state = FinishedState(m, d)
               /\ n.weak_mods = m.weak_mods \cup m.state[d].weak_mods \cup WeakOf(n, d)
      <4>1. n.state[d].finished /\ n.state[d].weak_mods = m.state[d].weak_mods
        BY <1>1, <3>2 DEF FinishedState, DanceStates
      <4> QED
        BY <3>2, <4>1 DEF WeakOf
    <3> QED
      BY <1>2, <3>1, <3>2 DEF FinishedAs
  <2>2. ASSUME NEW w \in m.weak_mods
        PROVE  \E e \in Dances : \/ \E kc \in RegisteredIn(n, e) : w \in kc.mods
                                 \/ n.state[e].finished /\ w \in n.state[e].weak_mods
    <3>1. PICK e \in Dances : \/ \E kc \in RegisteredIn(m, e) : w \in kc.mods
                              \/ m.state[e].finished /\ w \in m.state[e].weak_mods
      BY DEF Between, ModsInv
    <3>2. e # d
      BY <1>1, <1>7, <3>1
    <3> QED
      BY <1>6, <3>1, <3>2
  <2> QED
    BY <2>1, <2>2 DEF ModsInv
<1> QED
  BY <1>2, <1>5, <1>8, <1>9, <1>10, <1>11 DEF Between, FinishedAs

\* A nonempty set of layers has a topmost one.
LEMMA GreatestLayer ==
  ASSUME NEW S \in SUBSET Layers, S # {}
  PROVE  \E x \in S : \A y \in S : y <= x
<1> DEFINE T == {n \in Nat : MAX_LAYER - n \in S}
<1>0. MAX_LAYER \in Nat
  BY ActionAssumption
<1>1. T # {}
  <2>1. PICK l \in S : TRUE
    OBVIOUS
  <2>2. l \in Int /\ MAX_LAYER - l \in Nat /\ MAX_LAYER - (MAX_LAYER - l) = l
    BY <2>1, <1>0 DEF Layers
  <2> QED
    BY <2>1, <2>2
<1>2. PICK n \in T : \A y \in T : ~(<<y, n>> \in OpToRel(<, Nat))
  BY <1>1, WFMin, NatLessThanWellFounded
<1>3. MAX_LAYER - n \in S
  BY <1>2
<1>4. ASSUME NEW y \in S
      PROVE  y <= MAX_LAYER - n
  <2>1. y \in Int /\ MAX_LAYER - y \in Nat /\ MAX_LAYER - (MAX_LAYER - y) = y
    BY <1>0 DEF Layers
  <2>2. ~(MAX_LAYER - y < n)
    BY <2>1, <1>2 DEF OpToRel
  <2>3. n \in Nat
    BY <1>2
  <2> HIDE DEF T
  <2> QED
    BY <2>1, <2>2, <2>3, <1>0
<1> QED
  BY <1>3, <1>4

\* layer_switch_get_layer returns a layer.
LEMMA LookupType ==
  ASSUME NEW k \in KeyboardStates, NEW key \in Keys
  PROVE  layer_switch_get_layer(k, key) \in Layers
<1> DEFINE on == {l \in k.layers \cup {0} : keymap[l][key].kind # "TRANSPARENT"}
<1>1. on \subseteq Layers /\ 0 \in Layers
  BY ActionAssumption DEF KeyboardStates, Layers
<1>2. CASE on = {}
  BY <1>1, <1>2 DEF layer_switch_get_layer
<1>3. CASE on # {}
  <2>1. \E l \in on : \A n \in on : n <= l
    BY <1>1, <1>3, GreatestLayer
  <2>2. (CHOOSE l \in on : \A n \in on : n <= l) \in on
    BY <2>1
  <2> QED
    BY <1>1, <1>3, <2>2 DEF layer_switch_get_layer
<1> QED
  BY <1>2, <1>3

\* The invariant reads neither sent nor whether a dance is interrupted, nor the layers;
\* weak modifiers may be taken away, and the cache of keys that are up may change.
Alike(m, n, H) ==
  /\ n.kb.keys = m.kb.keys /\ n.weak_mods \subseteq m.weak_mods
  /\ n.active_td = m.active_td /\ n.owed = m.owed
  /\ \A key \in H : n.kb.cache[key] = m.kb.cache[key]
  /\ \A d \in Dances : /\ n.state[d].count = m.state[d].count
                       /\ n.state[d].pressed = m.state[d].pressed
                       /\ n.state[d].finished = m.state[d].finished
                       /\ n.state[d].weak_mods = m.state[d].weak_mods

\* So it holds of both or of neither.
LEMMA AlikeKeeps ==
  ASSUME NEW H, NEW X, NEW m, Between(m, H, X), NEW n \in Statics, Alike(m, n, H)
  PROVE  Between(n, H, X)
<1>1. DancesInv(n)
  BY DEF DancesInv, DanceInv, Alike, Between
<1>2. \A key \in H : HeldAs(n, key) = HeldAs(m, key)
  BY DEF Alike, HeldAs
<1>3. \A d \in Dances : RegisteredIn(n, d) = RegisteredIn(m, d)
  BY DEF Alike, RegisteredIn
<1>4. HeldInv(n, H, X)
  BY <1>2 DEF HeldInv, HoldsFor, Alike, Between
<1>5. KeysInv(n, H)
  <2>1. KeysInv(m, H) /\ n.kb.keys = m.kb.keys
    BY DEF Between, Alike
  <2> QED
    BY <1>2, <1>3, <2>1 DEF KeysInv
<1>6. ModsInv(n)
  <2>1. ModsInv(m) /\ n.weak_mods \subseteq m.weak_mods
    BY DEF Between, Alike
  <2> QED
    BY <1>3, <2>1 DEF ModsInv, Alike
<1> QED
  BY <1>1, <1>4, <1>5, <1>6 DEF Between

\* What preprocess_tap_dance sets first.
Interrupted(m, d) == [m EXCEPT !.state[d].interrupted = TRUE]

\* A dance may be interrupted.
LEMMA InterruptedKeeps ==
  ASSUME NEW H, NEW X, NEW m, Between(m, H, X), NEW d \in Dances
  PROVE  Between(Interrupted(m, d), H, X)
<1> DEFINE state == [m.state EXCEPT ![d].interrupted = TRUE]
           n == Interrupted(m, d)
<1>1. m \in Statics /\ m.state \in [Dances -> DanceStates]
  BY DEF Between, Statics
<1>2. state \in [Dances -> DanceStates]
  BY <1>1 DEF DanceStates
<1>3. \A e \in Dances : /\ state[e].count = m.state[e].count
                        /\ state[e].pressed = m.state[e].pressed
                        /\ state[e].finished = m.state[e].finished
                        /\ state[e].weak_mods = m.state[e].weak_mods
  BY <1>1 DEF DanceStates
<1>4. n = [m EXCEPT !.state = state]
  BY DEF Interrupted
<1> HIDE DEF state, n
<1>5. /\ n \in Statics /\ n.kb = m.kb /\ n.weak_mods = m.weak_mods /\ n.state = state
      /\ n.active_td = m.active_td /\ n.owed = m.owed
  BY <1>1, <1>2, <1>4 DEF Statics
<1>6. Alike(m, n, H)
  BY <1>3, <1>5 DEF Alike
<1> QED
  BY <1>5, <1>6, AlikeKeeps DEF n

\* The weak modifiers may be cleared, and sent begin again.
LEMMA ClearedKeeps ==
  ASSUME NEW H, NEW X, NEW m, Between(m, H, X)
  PROVE  /\ Between([m EXCEPT !.weak_mods = {}], H, X)
         /\ Between([m EXCEPT !.sent = {}], H, X)
         /\ Between([m EXCEPT !.weak_mods = {}, !.sent = {}], H, X)
<1>1. m \in Statics
  BY DEF Between
<1>2. ASSUME NEW n, n \in {[m EXCEPT !.weak_mods = {}], [m EXCEPT !.sent = {}],
                           [m EXCEPT !.weak_mods = {}, !.sent = {}]}
      PROVE  Between(n, H, X)
  <2>1. /\ n \in Statics /\ n.kb = m.kb /\ n.weak_mods \subseteq m.weak_mods
        /\ n.state = m.state /\ n.active_td = m.active_td /\ n.owed = m.owed
    BY <1>1, <1>2 DEF Statics
  <2>2. Alike(m, n, H)
    BY <2>1 DEF Alike
  <2> QED
    BY <2>1, <2>2, AlikeKeeps
<1> QED
  BY <1>2

\* The layer of a key that is up is looked up and remembered.
LEMMA CachedKeeps ==
  ASSUME NEW H, NEW X, NEW m, Between(m, H, X), NEW key \in Keys, key \notin H
  PROVE  LET n == Cached(m, key)
         IN  /\ Between(n, H, X) /\ n.kb.layers = m.kb.layers
             /\ n.kb.cache[key] = layer_switch_get_layer(m.kb, key)
             /\ n.state = m.state /\ n.active_td = m.active_td /\ n.weak_mods = m.weak_mods
             /\ n.sent = m.sent
<1> DEFINE layer == layer_switch_get_layer(m.kb, key)
           kb == [m.kb EXCEPT !.cache[key] = layer]
           n == Cached(m, key)
<1>1. m \in Statics /\ m.kb \in KeyboardStates
  BY DEF Between, Statics
<1>2. layer \in Layers
  BY <1>1, LookupType
<1>3. n = [m EXCEPT !.kb = kb]
  BY DEF Cached
<1> HIDE DEF layer, n
<1>4. /\ kb \in KeyboardStates /\ kb.keys = m.kb.keys /\ kb.layers = m.kb.layers
      /\ kb.cache[key] = layer /\ \A k \in Keys \ {key} : kb.cache[k] = m.kb.cache[k]
  BY <1>1, <1>2 DEF KeyboardStates
<1>5. \A k \in H : kb.cache[k] = m.kb.cache[k]
  <2>1. ASSUME NEW k \in H
        PROVE  kb.cache[k] = m.kb.cache[k]
    <3>1. kb.cache = [m.kb.cache EXCEPT ![key] = layer]
      BY <1>1 DEF KeyboardStates
    <3>2. k # key
      OBVIOUS
    <3> QED
      BY <1>1, <3>1, <3>2 DEF KeyboardStates
  <2> QED
    BY <2>1
<1> HIDE DEF kb
<1>6. /\ n \in Statics /\ n.kb = kb /\ n.weak_mods = m.weak_mods /\ n.state = m.state
      /\ n.active_td = m.active_td /\ n.owed = m.owed /\ n.sent = m.sent
  BY <1>1, <1>3, <1>4 DEF Statics
<1>7. Alike(m, n, H)
  BY <1>4, <1>5, <1>6 DEF Alike
<1> QED
  BY <1>4, <1>6, <1>7, AlikeKeeps DEF n, layer

\* The key of a does not interrupt the active dance.
Unprocessed(m, n, a) == n = m /\ IsDance(a) /\ m.active_td = a.code

\* a has decided the active dance.
InterruptedBy(m, n, a) ==
  /\ m.active_td \in Dances /\ ~(IsDance(a) /\ a.code = m.active_td)
  /\ n.active_td = No /\ n.weak_mods = {}
  /\ Sends(m, n, m.active_td, m.state[m.active_td].count)

\* After preprocess_tap_dance no dance is active but that of the key, and then nothing
\* has happened.
LEMMA PreprocessKeeps ==
  ASSUME NEW H, NEW X, NEW m, Between(m, H, X), NEW a,
         NEW n, n = preprocess_tap_dance(m, a)
  PROVE  /\ Between(n, H, X)
         /\ n.active_td # No => Unprocessed(m, n, a)
         /\ n = m \/ InterruptedBy(m, n, a)
<1> DEFINE d == m.active_td
           i == Interrupted(m, d)
           f == process_tap_dance_action_on_dance_finished(i, d)
<1>1. CASE m.active_td = No \/ (IsDance(a) /\ a.code = m.active_td)
  BY <1>1 DEF preprocess_tap_dance, Unprocessed
<1>2. CASE ~(m.active_td = No \/ (IsDance(a) /\ a.code = m.active_td))
  <2>1. n = [f EXCEPT !.weak_mods = {}]
    BY <1>2 DEF preprocess_tap_dance, After, Interrupted
  <2>2. d \in Dances /\ m \in Statics
    BY <1>2 DEF Between, Statics
  <2>3. Between(i, H, X)
    BY <2>2, InterruptedKeeps
  <2>4. /\ i.active_td = d /\ i.kb = m.kb /\ i.sent = m.sent
        /\ i.state[d].count = m.state[d].count
    BY <2>2 DEF Interrupted, Statics, DanceStates
  <2> HIDE DEF d, i
  <2>5. /\ Between(f, H, X) /\ f.active_td = No /\ f.kb.cache = i.kb.cache
        /\ Sends(i, f, d, i.state[d].count)
    BY <2>2, <2>3, <2>4, FinishKeeps
  <2> HIDE DEF f
  <2>6. Between([f EXCEPT !.weak_mods = {}], H, X)
    BY <2>5, ClearedKeeps
  <2>7. n.kb = f.kb /\ n.active_td = f.active_td /\ n.sent = f.sent /\ n.weak_mods = {}
    BY <2>1, <2>5 DEF Between, Statics
  <2>8. InterruptedBy(m, n, a)
    BY <1>2, <2>2, <2>4, <2>5, <2>7 DEF InterruptedBy, Sends, d
  <2> QED
    BY <2>1, <2>4, <2>5, <2>6, <2>7, <2>8
<1> QED
  BY <1>1, <1>2

\* The states of the dances when d has been tapped once more.
TappedState(m, d) ==
  [m.state EXCEPT ![d] = [@ EXCEPT !.pressed = TRUE, !.count = m.state[d].count + 1,
                                   !.weak_mods = m.kb.mods \cup m.weak_mods]]

\* m when d has been tapped once more.
Tapped(m, d) == [m EXCEPT !.state = TappedState(m, d), !.owed = Owing(m, d, -1)]

\* What a tap makes of a dance.
LEMMA TappedIs ==
  ASSUME NEW m \in Statics, NEW d \in Dances, m.state[d].count < MAX_TAPS,
         NEW n, n = Tapped(m, d)
  PROVE  /\ n \in Statics /\ n.kb = m.kb /\ n.weak_mods = m.weak_mods
         /\ n.active_td = m.active_td /\ n.owed = Owing(m, d, -1) /\ n.sent = m.sent
         /\ n.state[d].pressed /\ n.state[d].finished = m.state[d].finished
         /\ n.state[d].count = m.state[d].count + 1
         /\ \A e \in Dances \ {d} : n.state[e] = m.state[e]
<1> DEFINE state == TappedState(m, d)
           owed == Owing(m, d, -1)
<1>1. /\ m.state \in [Dances -> DanceStates] /\ m.state[d] \in DanceStates
      /\ m.kb.mods \in SUBSET Mods /\ m.weak_mods \in SUBSET Mods
  BY DEF Statics, KeyboardStates
<1> DEFINE t == [m.state[d] EXCEPT !.pressed = TRUE, !.count = m.state[d].count + 1,
                                   !.weak_mods = m.kb.mods \cup m.weak_mods]
<1>2. state = [m.state EXCEPT ![d] = t]
  BY <1>1 DEF TappedState
<1>3. m.state[d].count + 1 \in 0 .. MAX_TAPS
  BY <1>1, TapDanceAssumption DEF DanceStates
<1>4. /\ t \in DanceStates /\ t.pressed /\ t.finished = m.state[d].finished
      /\ t.count = m.state[d].count + 1
  BY <1>1, <1>3 DEF DanceStates
<1> HIDE DEF t
<1>5. /\ state \in [Dances -> DanceStates] /\ state[d].pressed
      /\ state[d].finished = m.state[d].finished /\ state[d].count = m.state[d].count + 1
      /\ \A e \in Dances \ {d} : state[e] = m.state[e]
  BY <1>1, <1>2, <1>4
<1>6. owed \in [Dances -> Int]
  BY DEF Owing, Statics
<1>7. n = [m EXCEPT !.state = state, !.owed = owed]
  BY DEF Tapped
<1> HIDE DEF state, owed
<1>8. /\ n \in Statics /\ n.kb = m.kb /\ n.weak_mods = m.weak_mods /\ n.state = state
      /\ n.active_td = m.active_td /\ n.owed = owed /\ n.sent = m.sent
  BY <1>5, <1>6, <1>7 DEF Statics
<1> QED
  BY <1>5, <1>8 DEF owed

\* A dance that finishes with its second tap.
FinishesAtTwo(m, d) ==
  action[d].type \in {"DOUBLE", "LAYER_MOVE"} /\ m.state[d].count = 2

\* What on_each_tap makes of a dance that has just been tapped.
LEMMA EachTapIs ==
  ASSUME NEW m \in Statics, NEW d \in Dances, NEW n, n = on_each_tap(m, d)
  PROVE  /\ ~FinishesAtTwo(m, d) => n = m
         /\ FinishesAtTwo(m, d) =>
              /\ n \in Statics /\ n.state = FinishedState(m, d) /\ n.owed = Owing(m, d, 2)
              /\ n.active_td = m.active_td /\ n.kb.cache = m.kb.cache /\ Sends(m, n, d, 2)
              /\ action[d].type = "DOUBLE" =>
                   /\ n.kb.layers = m.kb.layers
                   /\ n.kb.keys = m.kb.keys \cup {action[d].kc2.code}
                   /\ n.weak_mods = m.weak_mods \cup action[d].kc2.mods
              /\ action[d].type = "LAYER_MOVE" =>
                   /\ n.kb.layers = {action[d].layer}
                   /\ n.kb.keys = m.kb.keys /\ n.weak_mods = m.weak_mods
<1>0. /\ action[d].type \in Types /\ action[d].kc2 \in Codes16 /\ action[d].layer \in Layers
      /\ m.state \in [Dances -> DanceStates] /\ m.kb \in KeyboardStates
  BY TapDanceAssumption DEF Statics
<1>1. ASSUME NEW q \in Statics, q.state = m.state, n = [q EXCEPT !.state[d].finished = TRUE]
      PROVE  /\ n \in Statics /\ n.state = FinishedState(m, d) /\ n.owed = q.owed
             /\ n.active_td = q.active_td /\ n.kb = q.kb /\ n.weak_mods = q.weak_mods
             /\ n.sent = q.sent
  <2> DEFINE state == FinishedState(m, d)
  <2>1. n = [q EXCEPT !.state = state]
    BY <1>1 DEF FinishedState
  <2>2. state \in [Dances -> DanceStates]
    BY <1>0 DEF FinishedState, DanceStates
  <2> HIDE DEF state
  <2>3. /\ n \in Statics /\ n.state = state /\ n.owed = q.owed
        /\ n.active_td = q.active_td /\ n.kb = q.kb /\ n.weak_mods = q.weak_mods
        /\ n.sent = q.sent
    BY <2>1, <2>2 DEF Statics
  <2> QED
    BY <2>3 DEF state
<1>2. CASE ~FinishesAtTwo(m, d)
  BY <1>0, <1>2 DEF on_each_tap, tap_dance_pair_on_each_tap, tap_dance_dual_role_on_each_tap,
                    FinishesAtTwo, Types
<1>3. CASE FinishesAtTwo(m, d) /\ action[d].type = "DOUBLE"
  <2> DEFINE r == register_code16(m, action[d].kc2)
             q == Answer(r, d, 2)
  <2>1. n = [q EXCEPT !.state[d].finished = TRUE]
    BY <1>3 DEF on_each_tap, tap_dance_pair_on_each_tap, FinishesAtTwo
  <2>2. /\ r \in Statics /\ SameBut(m, r) /\ r.kb.keys = m.kb.keys \cup {action[d].kc2.code}
        /\ r.weak_mods = m.weak_mods \cup action[d].kc2.mods
    BY <1>0, CodeIs
  <2> HIDE DEF r
  <2>3. /\ q \in Statics /\ q.kb = r.kb /\ q.weak_mods = r.weak_mods /\ q.state = r.state
        /\ q.active_td = r.active_td /\ q.owed = Owing(r, d, 2)
        /\ q.sent = r.sent \cup {<<d, 2>>}
    BY <2>2, AnswerIs
  <2> HIDE DEF q
  <2>4. /\ n \in Statics /\ n.state = FinishedState(m, d) /\ n.owed = q.owed
        /\ n.active_td = q.active_td /\ n.kb = q.kb /\ n.weak_mods = q.weak_mods
        /\ n.sent = q.sent
    BY <1>1, <2>1, <2>2, <2>3 DEF SameBut
  <2> QED
    BY <1>3, <2>2, <2>3, <2>4 DEF SameBut, Owing, Sends
<1>4. CASE FinishesAtTwo(m, d) /\ action[d].type = "LAYER_MOVE"
  <2> DEFINE layers == {action[d].layer}
             r == layer_move(m, action[d].layer)
             q == Answer(r, d, 2)
  <2>1. n = [q EXCEPT !.state[d].finished = TRUE]
    BY <1>4 DEF on_each_tap, tap_dance_dual_role_on_each_tap, FinishesAtTwo
  <2>2. layers \in SUBSET Layers
    BY <1>0
  <2>3. r = [m EXCEPT !.kb = [m.kb EXCEPT !.layers = layers]]
    BY DEF layer_move
  <2> HIDE DEF r, layers
  <2>4. /\ r.weak_mods = m.weak_mods /\ r.state = m.state /\ r.active_td = m.active_td
        /\ r.owed = m.owed /\ r.sent = m.sent /\ r.kb = [m.kb EXCEPT !.layers = layers]
        /\ r = [kb |-> r.kb, weak_mods |-> r.weak_mods, state |-> r.state,
                active_td |-> r.active_td, owed |-> r.owed, sent |-> r.sent]
    BY <2>3 DEF Statics
  <2>5. /\ r.kb = [keys |-> m.kb.keys, mods |-> m.kb.mods, layers |-> layers, cache |-> m.kb.cache]
    BY <1>0, <2>4 DEF KeyboardStates
  <2>6. r.kb \in KeyboardStates
    BY <1>0, <2>2, <2>5 DEF KeyboardStates
  <2>7. r \in Statics
    BY <2>4, <2>6 DEF Statics
  <2>8. /\ q \in Statics /\ q.kb = r.kb /\ q.weak_mods = r.weak_mods /\ q.state = r.state
        /\ q.active_td = r.active_td /\ q.owed = Owing(r, d, 2)
        /\ q.sent = r.sent \cup {<<d, 2>>}
    BY <2>7, AnswerIs
  <2> HIDE DEF q
  <2>9. /\ n \in Statics /\ n.state = FinishedState(m, d) /\ n.owed = q.owed
        /\ n.active_td = q.active_td /\ n.kb = q.kb /\ n.weak_mods = q.weak_mods
        /\ n.sent = q.sent
    BY <1>1, <2>1, <2>4, <2>8, ZenonT(60)
  <2> QED
    BY <1>4, <2>4, <2>5, <2>8, <2>9 DEF Owing, Sends, layers
<1> QED
  BY <1>2, <1>3, <1>4 DEF FinishesAtTwo

\* What a tap of d changes besides.
TappedAs(m, n, d) ==
  /\ n.kb.cache = m.kb.cache
  /\ \/ n.kb.layers = m.kb.layers
     \/ action[d].type = "LAYER_MOVE" /\ n.kb.layers = {action[d].layer}
  /\ n.active_td \in {No, d} /\ n.state[d].count = m.state[d].count + 1
  /\ m.state[d].count \in Nat
  /\ Sends(m, n, d, 2) /\ (m.state[d].count # 1 => n.sent = m.sent)

\* A tap of a dance whose key was up keeps the invariant; it changes the layers only when
\* it moves to a layer.
LEMMA PressKeeps ==
  ASSUME NEW H, NEW m, Between(m, H, {}), NEW d \in Dances, ~m.state[d].pressed,
         m.state[d].count < MAX_TAPS, m.active_td \in {No, d},
         NEW n, n = process_tap_dance_Press(m, d)
  PROVE  Between(n, H, {d}) /\ TappedAs(m, n, d)
<1> DEFINE t == Tapped(m, d)
           q == on_each_tap(t, d)
           active == IF q.state[d].finished THEN No ELSE d
<1>1. /\ m \in Statics /\ ~m.state[d].finished /\ m.owed[d] = m.state[d].count
      /\ action[d].type \in {"DOUBLE", "LAYER_MOVE"} => m.state[d].count <= 1
      /\ m.state \in [Dances -> DanceStates] /\ m.owed \in [Dances -> Int]
      /\ m.state[d] \in DanceStates /\ m.state[d].count \in Nat
  BY DEF Between, DancesInv, DanceInv, Statics, DanceStates
<1>2. n = [q EXCEPT !.active_td = active]
  <2> DEFINE p == [m EXCEPT !.state[d].pressed = TRUE, !.owed[d] = @ + 1]
             o == [p EXCEPT !.state[d].count = @ + 1,
                            !.state[d].weak_mods = p.kb.mods \cup p.weak_mods]
  <2>1. n = [on_each_tap(o, d) EXCEPT !.active_td =
               IF on_each_tap(o, d).state[d].finished THEN No ELSE d]
    BY ZenonT(60) DEF process_tap_dance_Press, process_tap_dance_action_on_each_tap, After
  <2>2. /\ p.kb = m.kb /\ p.weak_mods = m.weak_mods
        /\ p = [m EXCEPT !.state = p.state, !.owed = p.owed]
        /\ p.state = [m.state EXCEPT ![d].pressed = TRUE] /\ p.owed = Owing(m, d, -1)
    BY <1>1 DEF Statics, Owing
  <2> HIDE DEF p
  <2>3. o = [p EXCEPT !.state = [p.state EXCEPT ![d].count = @ + 1,
                                                ![d].weak_mods = m.kb.mods \cup m.weak_mods]]
    <3>1. \A r \in Statics :
            p = [r EXCEPT !.state = p.state, !.owed = p.owed]
            => p = [kb |-> r.kb, weak_mods |-> r.weak_mods, state |-> p.state,
                    active_td |-> r.active_td, owed |-> p.owed, sent |-> r.sent]
      BY DEF Statics
    <3>2. p = [kb |-> m.kb, weak_mods |-> m.weak_mods, state |-> p.state,
               active_td |-> m.active_td, owed |-> p.owed, sent |-> m.sent]
      BY <1>1, <2>2, <3>1
    <3> DEFINE s == [p.state EXCEPT ![d].count = @ + 1]
               p1 == [p EXCEPT !.state[d].count = @ + 1]
    <3>3. p1 = [kb |-> m.kb, weak_mods |-> m.weak_mods, state |-> s,
                active_td |-> m.active_td, owed |-> p.owed, sent |-> m.sent]
      BY <3>2
    <3>4. o = [p1 EXCEPT !.state[d].weak_mods = m.kb.mods \cup m.weak_mods]
      BY <2>2
    <3>5. [p.state EXCEPT ![d].count = @ + 1, ![d].weak_mods = m.kb.mods \cup m.weak_mods]
            = [s EXCEPT ![d].weak_mods = m.kb.mods \cup m.weak_mods]
      OBVIOUS
    <3> HIDE DEF s, p1, o
    <3>6. o = [kb |-> m.kb, weak_mods |-> m.weak_mods,
               state |-> [s EXCEPT ![d].weak_mods = m.kb.mods \cup m.weak_mods],
               active_td |-> m.active_td, owed |-> p.owed, sent |-> m.sent]
      BY <3>3, <3>4
    <3>7. \A u : [p EXCEPT !.state = u]
                   = [kb |-> m.kb, weak_mods |-> m.weak_mods, state |-> u,
                      active_td |-> m.active_td, owed |-> p.owed, sent |-> m.sent]
      BY <3>2
    <3> QED
      BY <3>5, <3>6, <3>7
  <2> HIDE DEF o
  <2>4. [p.state EXCEPT ![d].count = @ + 1, ![d].weak_mods = m.kb.mods \cup m.weak_mods]
          = TappedState(m, d)
    BY <1>1, <2>2 DEF DanceStates, TappedState
  <2>5. o = t
    BY <1>1, <2>2, <2>3, <2>4 DEF Tapped, Statics
  <2> QED
    BY <2>1, <2>5
<1>3. /\ t \in Statics /\ t.kb = m.kb /\ t.weak_mods = m.weak_mods
      /\ t.active_td = m.active_td /\ t.owed = Owing(m, d, -1) /\ t.sent = m.sent
      /\ t.state[d].pressed /\ ~t.state[d].finished
      /\ t.state[d].count = m.state[d].count + 1
      /\ \A e \in Dances \ {d} : t.state[e] = m.state[e]
  BY <1>1, TappedIs
<1> HIDE DEF t
<1>4. /\ ~FinishesAtTwo(t, d) => q = t
      /\ FinishesAtTwo(t, d) =>
           /\ q \in Statics /\ q.state = FinishedState(t, d) /\ q.owed = Owing(t, d, 2)
           /\ q.active_td = t.active_td /\ q.kb.cache = t.kb.cache /\ Sends(t, q, d, 2)
           /\ action[d].type = "DOUBLE" =>
                /\ q.kb.layers = t.kb.layers
                /\ q.kb.keys = t.kb.keys \cup {action[d].kc2.code}
                /\ q.weak_mods = t.weak_mods \cup action[d].kc2.mods
           /\ action[d].type = "LAYER_MOVE" =>
                /\ q.kb.layers = {action[d].layer}
                /\ q.kb.keys = t.kb.keys /\ q.weak_mods = t.weak_mods
  BY <1>3, EachTapIs
<1> HIDE DEF q
<1>5. active \in Dances \cup {No} /\ q \in Statics
  BY <1>3, <1>4
<1>6. /\ n \in Statics /\ n.kb = q.kb /\ n.weak_mods = q.weak_mods /\ n.state = q.state
      /\ n.active_td = active /\ n.owed = q.owed /\ n.sent = q.sent
  <2> HIDE DEF active
  <2> QED
    BY <1>2, <1>5, ActivateIs
<1>7. /\ n.state[d].pressed /\ n.state[d].count = m.state[d].count + 1
      /\ n.state[d].finished <=> FinishesAtTwo(t, d)
      /\ \A e \in Dances \ {d} : n.state[e] = m.state[e]
  <2>1. t.state \in [Dances -> DanceStates] /\ t.state[d] \in DanceStates
    BY <1>3 DEF Statics
  <2>2. CASE FinishesAtTwo(t, d)
    BY <1>3, <1>4, <1>6, <2>1, <2>2 DEF FinishedState, DanceStates
  <2>3. CASE ~FinishesAtTwo(t, d)
    BY <1>3, <1>4, <1>6, <2>3
  <2> QED
    BY <2>2, <2>3
<1>8. /\ n.owed[d] = IF FinishesAtTwo(t, d) THEN m.state[d].count - 1 ELSE m.state[d].count + 1
      /\ \A e \in Dances \ {d} : n.owed[e] = m.owed[e]
  <2>1. /\ t.owed \in [Dances -> Int] /\ t.owed[d] = m.state[d].count + 1
        /\ \A e \in Dances \ {d} : t.owed[e] = m.owed[e]
    BY <1>1, <1>3 DEF Statics, Owing
  <2> QED
    BY <1>1, <1>4, <1>6, <2>1 DEF Owing
<1>9. \A e \in Dances \ {d} : RegisteredIn(n, e) = RegisteredIn(m, e)
  BY <1>7 DEF RegisteredIn
<1>10. /\ RegisteredIn(m, d) = {}
       /\ RegisteredIn(n, d) = IF FinishesAtTwo(t, d) /\ action[d].type = "DOUBLE"
                               THEN {action[d].kc2} ELSE {}
  BY <1>1, <1>3, <1>7 DEF RegisteredIn, FinishesAtTwo
<1>11. /\ n.kb.keys = m.kb.keys \cup CodesOf(n, d) /\ n.weak_mods = m.weak_mods \cup WeakOf(n, d)
       /\ n.kb.cache = m.kb.cache
       /\ \/ n.kb.layers = m.kb.layers
          \/ action[d].type = "LAYER_MOVE" /\ n.kb.layers = {action[d].layer}
  <2>1. CASE FinishesAtTwo(t, d) /\ action[d].type = "DOUBLE"
    BY <1>3, <1>4, <1>6, <1>10, <2>1 DEF CodesOf, WeakOf
  <2>2. CASE ~(FinishesAtTwo(t, d) /\ action[d].type = "DOUBLE")
    <3>1. CodesOf(n, d) = {} /\ WeakOf(n, d) = {}
      BY <1>10, <2>2 DEF CodesOf, WeakOf
    <3> QED
      BY <1>3, <1>4, <1>6, <2>2, <3>1 DEF FinishesAtTwo
  <2> QED
    BY <2>1, <2>2
<1>12. DancesInv(n)
  <2>1. DanceInv(n, d)
    <3>1. n.state[d].count = m.state[d].count + 1 /\ t.state[d].count = m.state[d].count + 1
      BY <1>3, <1>7
    <3>2. n.active_td = IF FinishesAtTwo(t, d) THEN No ELSE d
      BY <1>6, <1>7
    <3>3. CASE FinishesAtTwo(t, d)
      BY <1>1, <1>7, <1>8, <3>1, <3>2, <3>3, ActionIs DEF DanceInv, FinishesAtTwo
    <3>4. CASE ~FinishesAtTwo(t, d)
      BY <1>1, <1>7, <1>8, <3>1, <3>2, <3>4 DEF DanceInv, FinishesAtTwo
    <3> QED
      BY <3>3, <3>4
  <2>2. ASSUME NEW e \in Dances \ {d}
        PROVE  DanceInv(n, e)
    <3>1. DanceInv(m, e) /\ m.active_td # e /\ n.active_td # e
      BY <1>6, ActionIs DEF Between, DancesInv
    <3> QED
      BY <1>7, <1>8, <3>1 DEF DanceInv
  <2> QED
    BY <2>1, <2>2 DEF DancesInv
<1>13. HeldInv(n, H, {d})
  BY <1>7, <1>11 DEF HeldInv, HoldsFor, HeldAs, Between
<1>14. KeysInv(n, H)
  <2>1. \A key \in H : HeldAs(n, key) = HeldAs(m, key)
    BY <1>11 DEF HeldAs
  <2>2. ASSUME NEW c \in m.kb.keys
        PROVE  \/ \E key \in H : HeldAs(n, key).kind = "KEY" /\ HeldAs(n, key).code = c
               \/ \E e \in Dances : \E kc \in RegisteredIn(n, e) : kc.code = c
    <3>1. CASE \E key \in H : HeldAs(m, key).kind = "KEY" /\ HeldAs(m, key).code = c
      BY <2>1, <3>1
    <3>2. CASE \E e \in Dances : \E kc \in RegisteredIn(m, e) : kc.code = c
      <4>1. PICK e \in Dances : \E kc \in RegisteredIn(m, e) : kc.code = c
        BY <3>2
      <4> QED
        BY <1>9, <1>10, <4>1
    <3> QED
      BY <3>1, <3>2 DEF Between, KeysInv
  <2>3. \A c \in n.kb.keys : c \in m.kb.keys \/ \E kc \in RegisteredIn(n, d) : kc.code = c
    BY <1>11 DEF CodesOf
  <2> QED
    BY <2>2, <2>3 DEF KeysInv
<1>15. ModsInv(n)
  <2>1. ASSUME NEW w \in m.weak_mods
        PROVE  \E e \in Dances : \/ \E kc \in RegisteredIn(n, e) : w \in kc.mods
                                 \/ n.state[e].finished /\ w \in n.state[e].weak_mods
    <3>1. PICK e \in Dances : \/ \E kc \in RegisteredIn(m, e) : w \in kc.mods
                              \/ m.state[e].finished /\ w \in m.state[e].weak_mods
      BY DEF Between, ModsInv
    <3>2. e # d
      BY <1>1, <1>10, <3>1
    <3> QED
      BY <1>7, <1>9, <3>1, <3>2
  <2>2. \A w \in n.weak_mods : w \in m.weak_mods \/ \E kc \in RegisteredIn(n, d) : w \in kc.mods
    BY <1>11 DEF WeakOf
  <2> QED
    BY <2>1, <2>2 DEF ModsInv
<1>16. Sends(m, n, d, 2) /\ (m.state[d].count # 1 => n.sent = m.sent)
  BY <1>1, <1>3, <1>4, <1>6 DEF Sends, FinishesAtTwo
<1> QED
  BY <1>1, <1>6, <1>7, <1>11, <1>12, <1>13, <1>14, <1>15, <1>16 DEF Between, TappedAs

\* The cache once key has been pressed on layer.
CacheAt(m, key, layer) == [m.kb.cache EXCEPT ![key] = layer]

\* n is m after a record of key, which is a on layer.
Handled(m, n, pressed, key, layer, a) ==
  /\ n \in Statics /\ n.state = m.state /\ n.weak_mods = m.weak_mods
  /\ n.active_td = m.active_td /\ n.owed = m.owed /\ n.sent = m.sent
  /\ n.kb.layers = IF a.kind = "ON_OFF" THEN Switch(m.kb.layers, a.layer, pressed)
                                        ELSE m.kb.layers
  /\ n.kb.keys = IF a.kind = "KEY" THEN Switch(m.kb.keys, a.code, pressed) ELSE m.kb.keys
  /\ n.kb.cache = IF pressed THEN CacheAt(m, key, layer) ELSE m.kb.cache
  /\ layer \in Layers

\* What process_record_handler changes: only plain keys, modifiers and momentary layers
\* are in the keymap besides the dances.
LEMMA HandlerIs ==
  ASSUME NEW m \in Statics, NEW pressed \in BOOLEAN, NEW key \in Keys,
         NEW n, n = process_record_handler(m, pressed, key),
         NEW layer, layer = store_or_get_layer(m.kb, pressed, key),
         NEW a, a = keymap[layer][key]
  PROVE  Handled(m, n, pressed, key, layer, a)
<1> DEFINE kb == process_action(m.kb, a, key, layer, pressed, 0)
<1>1. m.kb \in KeyboardStates
  BY DEF Statics
<1>2. layer \in Layers
  BY <1>1, LookupType DEF store_or_get_layer, KeyboardStates
<1>3. /\ a \in Actions /\ ~is_tap_action(a)
  BY <1>2, ActionAssumption, TapDanceAssumption DEF is_tap_action
<1>4. a.code \in Codes /\ a.mod \in Mods /\ a.layer \in Layers
  BY <1>3 DEF Actions
<1>5. n = [m EXCEPT !.kb = kb]
  BY DEF process_record_handler, process_record
<1>6. /\ kb.keys = IF a.kind = "KEY" THEN Switch(m.kb.keys, a.code, pressed) ELSE m.kb.keys
      /\ kb.layers = IF a.kind = "ON_OFF" THEN Switch(m.kb.layers, a.layer, pressed)
                                         ELSE m.kb.layers
      /\ kb.cache = IF pressed THEN [m.kb.cache EXCEPT ![key] = layer] ELSE m.kb.cache
  BY <1>3 DEF process_action, Registers, ChangesLayers, is_tap_action
<1>7. /\ Switch(m.kb.keys, a.code, pressed) \in SUBSET Codes
      /\ Switch(m.kb.mods, a.mod, pressed) \in SUBSET Mods
      /\ Switch(m.kb.layers, a.layer, pressed) \in SUBSET Layers
      /\ [m.kb.cache EXCEPT ![key] = layer] \in [Keys -> Layers]
  BY <1>1, <1>2, <1>4 DEF Switch, KeyboardStates
<1>8. kb \in KeyboardStates
  BY <1>1, <1>7 DEF process_action, KeyboardStates
<1> HIDE DEF kb
<1>9. /\ n \in Statics /\ n.kb = kb /\ n.state = m.state /\ n.weak_mods = m.weak_mods
      /\ n.active_td = m.active_td /\ n.owed = m.owed /\ n.sent = m.sent
  BY <1>5, <1>8 DEF Statics
<1> QED
  BY <1>2, <1>6, <1>9 DEF CacheAt, Handled

\* The dances do not see process_record_handler.
LEMMA DancesSee ==
  ASSUME NEW m, NEW n, n.state = m.state, n.owed = m.owed, n.active_td = m.active_td,
         n.weak_mods = m.weak_mods
  PROVE  /\ DancesInv(m) => DancesInv(n)
         /\ ModsInv(m) => ModsInv(n)
         /\ \A d \in Dances : RegisteredIn(n, d) = RegisteredIn(m, d)
<1>1. \A d \in Dances : RegisteredIn(n, d) = RegisteredIn(m, d)
  BY DEF RegisteredIn
<1>2. DancesInv(m) => DancesInv(n)
  BY DEF DancesInv, DanceInv
<1>3. ModsInv(m) => ModsInv(n)
  BY <1>1 DEF ModsInv
<1> QED
  BY <1>1, <1>2, <1>3

\* The dances of X are excused for key: it is about to be held as theirs.
Excused(m, key, X) ==
  \A d \in X : LET a == get_record_keycode(m, key) IN IsDance(a) /\ a.code = d

\* process_record_handler for a press: the dances excused are on the key now held.
LEMMA HandlerPressKeeps ==
  ASSUME NEW H \in SUBSET Keys, NEW X, NEW m, Between(m, H, X), NEW key \in Keys \ H,
         Excused(m, key, X), NEW n, n = process_record_handler(m, TRUE, key)
  PROVE  Between(n, H \cup {key}, {})
<1> DEFINE layer == layer_switch_get_layer(m.kb, key)
           a     == keymap[layer][key]
<1>1. m \in Statics /\ m.kb.cache \in [Keys -> Layers] /\ key \in Keys
  BY DEF Between, Statics, KeyboardStates
<1>2. /\ n \in Statics /\ n.state = m.state /\ n.weak_mods = m.weak_mods
      /\ n.active_td = m.active_td /\ n.owed = m.owed
      /\ n.kb.keys = IF a.kind = "KEY" THEN Switch(m.kb.keys, a.code, TRUE) ELSE m.kb.keys
      /\ n.kb.cache = CacheAt(m, key, layer) /\ layer \in Layers
  <2>1. layer = store_or_get_layer(m.kb, TRUE, key) /\ a = keymap[layer][key]
    BY DEF store_or_get_layer
  <2> HIDE DEF layer, a
  <2>2. Handled(m, n, TRUE, key, layer, a)
    BY <1>1, <2>1, HandlerIs
  <2> QED
    BY <2>2 DEF Handled
<1>3. a = get_record_keycode(m, key)
  BY DEF get_record_keycode, layer_switch_get_action
<1> HIDE DEF layer, a
<1>4. /\ HeldAs(n, key) = a
      /\ \A k \in H : HeldAs(n, k) = HeldAs(m, k)
  BY <1>1, <1>2 DEF HeldAs, CacheAt, a
<1>5. HeldInv(n, H \cup {key}, {})
  <2>1. ASSUME NEW d \in Dances, n.state[d].pressed
        PROVE  \E k \in H \cup {key} : HoldsFor(n, k, d)
    <3>1. CASE d \in X
      BY <1>3, <1>4, <3>1 DEF HoldsFor, Excused
    <3>2. CASE d \notin X
      <4>1. PICK k \in H : HoldsFor(m, k, d)
        BY <1>2, <2>1, <3>2 DEF Between, HeldInv
      <4> QED
        BY <1>4, <4>1 DEF HoldsFor
    <3> QED
      BY <3>1, <3>2
  <2> QED
    BY <2>1 DEF HeldInv
<1>6. KeysInv(n, H \cup {key})
  <2>1. ASSUME NEW c \in m.kb.keys
        PROVE  \/ \E k \in H \cup {key} : HeldAs(n, k).kind = "KEY" /\ HeldAs(n, k).code = c
               \/ \E d \in Dances : \E kc \in RegisteredIn(n, d) : kc.code = c
    <3>1. \A d \in Dances : RegisteredIn(n, d) = RegisteredIn(m, d)
      BY <1>2 DEF RegisteredIn
    <3> QED
      BY <1>4, <3>1 DEF Between, KeysInv
  <2>2. \A c \in n.kb.keys : c \in m.kb.keys \/ (a.kind = "KEY" /\ a.code = c)
    BY <1>2 DEF Switch
  <2> QED
    BY <1>4, <2>1, <2>2 DEF KeysInv
<1> QED
  BY <1>2, <1>5, <1>6, DancesSee DEF Between

\* process_record_handler for a release, when the dance of the key is up.
LEMMA HandlerReleaseKeeps ==
  ASSUME NEW H \in SUBSET Keys, NEW m, Between(m, H, {}), NEW key \in H,
         \A d \in Dances : HoldsFor(m, key, d) => ~m.state[d].pressed,
         NEW n, n = process_record_handler(m, FALSE, key)
  PROVE  Between(n, H \ {key}, {})
<1> DEFINE a == HeldAs(m, key)
<1>1. m \in Statics /\ key \in Keys
  BY DEF Between
<1>2. /\ n \in Statics /\ n.state = m.state /\ n.weak_mods = m.weak_mods
      /\ n.active_td = m.active_td /\ n.owed = m.owed
      /\ n.kb.keys = IF a.kind = "KEY" THEN Switch(m.kb.keys, a.code, FALSE) ELSE m.kb.keys
      /\ n.kb.cache = m.kb.cache
  <2> DEFINE layer == m.kb.cache[key]
  <2>1. layer = store_or_get_layer(m.kb, FALSE, key) /\ a = keymap[layer][key]
    BY DEF store_or_get_layer, HeldAs
  <2> HIDE DEF layer, a
  <2>2. Handled(m, n, FALSE, key, layer, a)
    BY <1>1, <2>1, HandlerIs
  <2> QED
    BY <2>2 DEF Handled
<1> HIDE DEF a
<1>3. \A k \in H : HeldAs(n, k) = HeldAs(m, k)
  BY <1>2 DEF HeldAs
<1>4. HeldInv(n, H \ {key}, {})
  <2>1. ASSUME NEW d \in Dances, n.state[d].pressed
        PROVE  \E k \in H \ {key} : HoldsFor(n, k, d)
    <3>1. PICK k \in H : HoldsFor(m, k, d)
      BY <1>2, <2>1 DEF Between, HeldInv
    <3>2. k # key
      BY <1>2, <2>1, <3>1
    <3> QED
      BY <1>3, <3>1, <3>2 DEF HoldsFor
  <2> QED
    BY <2>1 DEF HeldInv
<1>5. KeysInv(n, H \ {key})
  <2>1. ASSUME NEW c \in n.kb.keys
        PROVE  \/ \E k \in H \ {key} : HeldAs(n, k).kind = "KEY" /\ HeldAs(n, k).code = c
               \/ \E d \in Dances : \E kc \in RegisteredIn(n, d) : kc.code = c
    <3>1. c \in m.kb.keys /\ ~(a.kind = "KEY" /\ a.code = c)
      BY <1>2 DEF Switch
    <3>2. CASE \E k \in H : HeldAs(m, k).kind = "KEY" /\ HeldAs(m, k).code = c
      <4>1. PICK k \in H : HeldAs(m, k).kind = "KEY" /\ HeldAs(m, k).code = c
        BY <3>2
      <4>2. k # key
        BY <3>1, <4>1 DEF a
      <4> QED
        BY <1>3, <4>1, <4>2
    <3>3. CASE \E d \in Dances : \E kc \in RegisteredIn(m, d) : kc.code = c
      BY <1>2, <3>3, DancesSee
    <3> QED
      BY <3>1, <3>2, <3>3 DEF Between, KeysInv
  <2> QED
    BY <2>1 DEF KeysInv
<1> QED
  BY <1>2, <1>4, <1>5, DancesSee DEF Between

\* A lookup reads nothing of the keyboard but its layers.
LEMMA LookupReads ==
  ASSUME NEW j, NEW k, NEW key, j.layers = k.layers
  PROVE  layer_switch_get_action(j, key) = layer_switch_get_action(k, key)
BY DEF layer_switch_get_action, layer_switch_get_layer

\* The key of a pressed dance is held down, and it is the dance's only key.
LEMMA UpIsUnpressed ==
  ASSUME OneKeyEach, NEW H \in SUBSET Keys, NEW m, Between(m, H, {}), NEW key \in Keys \ H,
         NEW l \in Layers, IsDance(keymap[l][key])
  PROVE  keymap[l][key].code \in Dances /\ ~m.state[keymap[l][key].code].pressed
<1> DEFINE d == keymap[l][key].code
<1>1. d \in Dances
  BY TapDanceAssumption DEF IsDance
<1>2. ASSUME m.state[d].pressed
      PROVE  FALSE
  <2>1. PICK k \in H : HoldsFor(m, k, d)
    BY <1>1, <1>2 DEF Between, HeldInv
  <2>2. m.kb.cache[k] \in Layers
    BY DEF Between, Statics, KeyboardStates
  <2>3. IsDance(keymap[m.kb.cache[k]][k]) /\ keymap[m.kb.cache[k]][k].code = d
    BY <2>1 DEF HoldsFor, HeldAs
  <2>4. k = key
    BY <2>2, <2>3 DEF OneKeyEach
  <2> QED
    BY <2>4
<1> QED
  BY <1>1, <1>2

\* key is a key of dance d, and its press is a tap of d.
KeyOf(key, d)   == \E l \in Layers : IsDance(keymap[l][key]) /\ keymap[l][key].code = d
TapOf(m, key, d) == LET a == get_record_keycode(m, key) IN IsDance(a) /\ a.code = d

\* The history of a press of key: what it answers are the taps of the active dance, by
\* their number if it has interrupted it; and the dance that is active then is that of key,
\* tapped for the first time unless it was active before.
Told(m, n, key) ==
  \A d \in Dances :
    /\ \A c : <<d, c>> \in n.sent \ m.sent =>
         /\ m.active_td = d
         /\ IF TapOf(m, key, d) THEN c = 2 /\ m.state[d].count = 1 ELSE c = m.state[d].count
    /\ n.active_td = d =>
         /\ KeyOf(key, d) /\ n.state[d].count \in Nat
         /\ n.state[d].count > 1 => m.active_td = d /\ TapOf(m, key, d)

\* What the key is looked up as, e, is a dance that has been tapped, or no dance is active.
FoundAs(m, q, H, e) ==
  IF IsDance(e) THEN Between(q, H, {e.code}) /\ e.code \in Dances /\ q.state[e.code].count > 0
  ELSE Between(q, H, {}) /\ q.active_td = No /\ (m.weak_mods = {} => q.weak_mods = {})

\* process_record_quantum for a press.
LEMMA QuantumIs ==
  ASSUME OneKeyEach, MoveStays, NEW H \in SUBSET Keys, NEW m, Between(m, H, {}),
         NEW key \in Keys \ H,
         LET a == get_record_keycode(m, key) IN IsDance(a) => m.state[a.code].count < MAX_TAPS,
         NEW q, q = Quantum(m, key), NEW e, e = get_record_keycode(q, key)
  PROVE  FoundAs(m, q, H, e) /\ Told(m, q, key)
<1> DEFINE a  == get_record_keycode(m, key)
           c  == Cached(m, key)
           p  == preprocess_tap_dance(c, a)
           c2 == Cached(p, key)
           b  == get_record_keycode(c2, key)
<1>1. q = (IF IsDance(b) THEN process_tap_dance_Press(c2, b.code) ELSE c2)
      /\ a = get_record_keycode(m, key)
  BY DEF Quantum, After
<1>2. /\ Between(c, H, {}) /\ c.kb.layers = m.kb.layers /\ c.state = m.state
      /\ c.active_td = m.active_td /\ c.weak_mods = m.weak_mods /\ c.sent = m.sent
  BY CachedKeeps
<1>3. get_record_keycode(c, key) = a
  BY <1>2, LookupReads DEF get_record_keycode, a
<1>4. p = preprocess_tap_dance(c, a)
  OBVIOUS
<1> HIDE DEF c, a, p
<1>5. /\ Between(p, H, {})
      /\ p.active_td = No \/ (p = c /\ IsDance(a) /\ c.active_td = a.code)
      /\ p = c \/ InterruptedBy(c, p, a)
  <2>1. Between(p, H, {})
    BY <1>2, <1>4, PreprocessKeeps
  <2>2. /\ p.active_td # No => Unprocessed(c, p, a)
        /\ p = c \/ InterruptedBy(c, p, a)
    BY <1>2, <1>4, PreprocessKeeps
  <2> QED
    BY <2>1, <2>2 DEF Unprocessed
<1>6. /\ Between(c2, H, {}) /\ c2.kb.layers = p.kb.layers /\ c2.state = p.state
      /\ c2.active_td = p.active_td /\ c2.weak_mods = p.weak_mods /\ c2.sent = p.sent
  BY <1>5, CachedKeeps
<1>7. /\ b = get_record_keycode(c2, key)
      /\ q = IF IsDance(b) THEN process_tap_dance_Press(c2, b.code) ELSE c2
  BY <1>1
<1> HIDE DEF c2
<1>8. PICK l \in Layers : b = keymap[l][key]
  <2>1. c2.kb \in KeyboardStates
    BY <1>6 DEF Between, Statics
  <2> QED
    BY <2>1, LookupType DEF get_record_keycode, layer_switch_get_action
<1> HIDE DEF b
<1>9. p = c => b = a
  BY <1>3, <1>6, <1>7, LookupReads DEF get_record_keycode
\* What the interruption has answered.
<1>10. \A d \in Dances : \A k : <<d, k>> \in p.sent \ m.sent =>
         m.active_td = d /\ ~TapOf(m, key, d) /\ k = m.state[d].count /\ p.active_td = No
  BY <1>1, <1>2, <1>5 DEF InterruptedBy, Sends, TapOf
<1>11. CASE ~IsDance(b)
  <2>1. q = c2 /\ e = b
    BY <1>7, <1>11
  <2>2. q.active_td = No
    BY <1>5, <1>6, <1>9, <1>11, <2>1
  <2>3. Told(m, q, key)
    BY <1>6, <1>10, <2>1, <2>2, ActionIs DEF Told
  <2>4. m.weak_mods = {} => q.weak_mods = {}
    BY <1>2, <1>5, <1>6, <2>1 DEF InterruptedBy
  <2> QED
    BY <1>6, <1>11, <2>1, <2>2, <2>3, <2>4 DEF FoundAs
<1>12. CASE IsDance(b)
  <2> DEFINE d == b.code
  <2>1. d \in Dances /\ ~c2.state[d].pressed
    BY <1>6, <1>8, <1>12, UpIsUnpressed
  <2>2. /\ c2.active_td \in {No, d} /\ c2.state[d].count < MAX_TAPS
        /\ p.active_td = No => c2.state[d].count = 0
        /\ p.active_td # No => /\ p = c /\ m.active_td = d /\ TapOf(m, key, d)
                               /\ c2.state[d].count = m.state[d].count
    <3>1. CASE p.active_td = No
      <4>1. /\ DanceInv(c2, d) /\ c2.active_td = No /\ c2.active_td # d
            /\ c2.state[d].count \in 0 .. MAX_TAPS
        BY <1>6, <2>1, <3>1, ActionIs DEF Between, DancesInv, Statics, DanceStates
      <4>2. c2.state[d].count = 0
        BY <2>1, <4>1, TapDanceAssumption DEF DanceInv
      <4> QED
        BY <3>1, <4>1, <4>2, TapDanceAssumption
    <3>2. CASE p = c /\ IsDance(a) /\ c.active_td = a.code
      <4>1. b = a
        BY <1>9, <3>2
      <4> QED
        BY <1>1, <1>2, <1>6, <3>2, <4>1, <2>1, ActionIs DEF TapOf
    <3> QED
      BY <1>5, <3>1, <3>2
  <2>3. q = process_tap_dance_Press(c2, d)
    BY <1>7, <1>12
  <2> HIDE DEF d
  <2>4. Between(q, H, {d}) /\ TappedAs(c2, q, d)
    BY <1>6, <2>1, <2>2, <2>3, PressKeeps
  <2>5. IsDance(e) /\ e.code = d
    <3>1. CASE q.kb.layers = c2.kb.layers
      BY <1>7, <1>12, <3>1, LookupReads DEF get_record_keycode, d
    <3>2. CASE action[d].type = "LAYER_MOVE" /\ q.kb.layers = {action[d].layer}
      <4>1. e = layer_switch_get_action([layers |-> {action[d].layer}], key)
        <5> DEFINE k == [layers |-> {action[d].layer}]
        <5>1. q.kb.layers = k.layers
          BY <3>2
        <5> HIDE DEF k
        <5>2. layer_switch_get_action(q.kb, key) = layer_switch_get_action(k, key)
          BY <5>1, LookupReads
        <5> QED
          BY <5>2 DEF get_record_keycode, k
      <4> QED
        BY <1>8, <1>12, <3>2, <4>1 DEF MoveStays, d
    <3> QED
      BY <2>4, <3>1, <3>2 DEF TappedAs
  <2>6. KeyOf(key, d)
    BY <1>8, <1>12 DEF KeyOf, d
  <2>7. Told(m, q, key)
    <3>1. ASSUME NEW f \in Dances, NEW k, <<f, k>> \in q.sent \ m.sent
          PROVE  /\ m.active_td = f
                 /\ IF TapOf(m, key, f) THEN k = 2 /\ m.state[f].count = 1
                                        ELSE k = m.state[f].count
      <4>1. CASE p.active_td = No
        <5>1. q.sent = p.sent
          BY <1>6, <2>2, <2>4, <4>1 DEF TappedAs
        <5> QED
          BY <1>10, <3>1, <5>1
      <4>2. CASE p.active_td # No
        <5>1. <<f, k>> = <<d, 2>> /\ c2.state[d].count = 1
          BY <1>2, <1>6, <2>2, <2>4, <3>1, <4>2 DEF Sends, TappedAs
        <5> QED
          BY <2>2, <4>2, <5>1
      <4> QED
        BY <4>1, <4>2
    <3>2. ASSUME NEW f \in Dances, q.active_td = f
          PROVE  /\ KeyOf(key, f) /\ q.state[f].count \in Nat
                 /\ q.state[f].count > 1 => m.active_td = f /\ TapOf(m, key, f)
      <4>1. f = d
        BY <2>4, <3>2, ActionIs DEF TappedAs
      <4> QED
        BY <2>2, <2>4, <2>6, <4>1 DEF TappedAs
    <3> QED
      BY <3>1, <3>2 DEF Told
  <2> QED
    BY <2>1, <2>2, <2>4, <2>5, <2>7 DEF TappedAs, FoundAs
<1> QED
  BY <1>11, <1>12

\* A press, from process_record_quantum to process_record_handler.
LEMMA PressStepKeeps ==
  ASSUME OneKeyEach, MoveStays, NEW H \in SUBSET Keys, NEW m, Between(m, H, {}),
         NEW key \in Keys \ H,
         LET a == get_record_keycode(m, key) IN IsDance(a) => m.state[a.code].count < MAX_TAPS,
         NEW n, n = process_record_handler(Quantum(m, key), TRUE, key)
  PROVE  Between(n, H \cup {key}, {}) /\ Told(m, n, key)
<1> DEFINE q == Quantum(m, key)
           e == get_record_keycode(q, key)
<1>1. /\ q = Quantum(m, key) /\ e = get_record_keycode(q, key)
      /\ n = process_record_handler(q, TRUE, key)
  OBVIOUS
<1> HIDE DEF q, e
<1>2. FoundAs(m, q, H, e) /\ Told(m, q, key)
  BY <1>1, QuantumIs
<1>3. Between(n, H \cup {key}, {}) /\ q \in Statics
  <2>1. CASE IsDance(e)
    <3>1. Excused(q, key, {e.code})
      BY <1>1, <2>1 DEF Excused
    <3> QED
      BY <1>1, <1>2, <2>1, <3>1, HandlerPressKeeps DEF Between, FoundAs
  <2>2. CASE ~IsDance(e)
    <3>1. Excused(q, key, {})
      BY DEF Excused
    <3> QED
      BY <1>1, <1>2, <2>2, <3>1, HandlerPressKeeps DEF Between, FoundAs
  <2> QED
    BY <2>1, <2>2
<1>4. n.sent = q.sent /\ n.active_td = q.active_td /\ n.state = q.state
  <2> DEFINE layer == store_or_get_layer(q.kb, TRUE, key)
  <2>1. Handled(q, n, TRUE, key, layer, keymap[layer][key])
    BY <1>1, <1>3, HandlerIs
  <2> QED
    BY <2>1 DEF Handled
<1> QED
  BY <1>2, <1>3, <1>4 DEF Told

\* The topmost layer at a key is the one it was, or the one that has been switched on.
LEMMA LookupAdds ==
  ASSUME NEW k \in KeyboardStates, NEW x \in Layers, NEW key \in Keys,
         NEW j, j.layers = k.layers \cup {x}
  PROVE  layer_switch_get_layer(j, key) \in {layer_switch_get_layer(k, key), x}
<1> DEFINE on(i) == {l \in i.layers \cup {0} : keymap[l][key].kind # "TRANSPARENT"}
           top(S) == CHOOSE l \in S : \A n \in S : n <= l
<1>1. /\ on(k) \subseteq on(j) /\ on(j) \subseteq on(k) \cup {x}
      /\ on(k) \subseteq Layers /\ on(j) \subseteq Layers
  BY ActionAssumption DEF KeyboardStates, Layers
<1>2. /\ layer_switch_get_layer(k, key) = IF on(k) = {} THEN 0 ELSE top(on(k))
      /\ layer_switch_get_layer(j, key) = IF on(j) = {} THEN 0 ELSE top(on(j))
  BY DEF layer_switch_get_layer
<1>3. ASSUME NEW S \in SUBSET Layers, S # {}
      PROVE  top(S) \in S /\ \A n \in S : n <= top(S)
  <2>1. \E l \in S : \A n \in S : n <= l
    BY <1>3, GreatestLayer
  <2> QED
    BY <2>1
<1> HIDE DEF on, top
<1>4. CASE on(j) = {}
  BY <1>1, <1>2, <1>4
<1>5. CASE on(j) # {} /\ top(on(j)) # x
  <2>1. top(on(j)) \in on(j) /\ \A n \in on(j) : n <= top(on(j))
    BY <1>1, <1>3, <1>5
  <2>2. top(on(j)) \in on(k)
    BY <1>1, <1>5, <2>1
  <2>3. top(on(k)) \in on(k) /\ \A n \in on(k) : n <= top(on(k))
    BY <1>1, <1>3, <2>2
  <2>4. top(on(k)) <= top(on(j)) /\ top(on(j)) <= top(on(k))
    BY <1>1, <2>1, <2>2, <2>3
  <2>5. top(on(k)) \in Int /\ top(on(j)) \in Int
    BY <1>1, <2>2, <2>3 DEF Layers
  <2> QED
    BY <1>2, <1>5, <2>2, <2>4, <2>5
<1>6. CASE on(j) # {} /\ top(on(j)) = x
  BY <1>2, <1>6
<1> QED
  BY <1>4, <1>5, <1>6

\* What key is found as after its press, if it is a code or a dance: a code is registered
\* with no dance active, and a dance has been tapped.
ComesAfter(n, key) ==
  LET layer == layer_switch_get_layer(n.kb, key)
      a     == keymap[layer][key]
  IN  /\ a.kind = "KEY" => n.active_td = No /\ n.kb.cache[key] = layer /\ n.weak_mods = {}
      /\ IsDance(a) => n.state[a.code].count > 0

\* A key that interrupts a dance comes after it.
LEMMA PressComesAfter ==
  ASSUME OneKeyEach, MoveStays, LayerKeysStay, NEW H \in SUBSET Keys, NEW m, Between(m, H, {}),
         NEW key \in Keys \ H, m.weak_mods = {},
         LET a == get_record_keycode(m, key) IN IsDance(a) => m.state[a.code].count < MAX_TAPS,
         NEW n, n = process_record_handler(Quantum(m, key), TRUE, key)
  PROVE  ComesAfter(n, key)
<1> DEFINE q == Quantum(m, key)
           layer == layer_switch_get_layer(q.kb, key)
           e == get_record_keycode(q, key)
<1>1. /\ q = Quantum(m, key) /\ n = process_record_handler(q, TRUE, key)
      /\ e = get_record_keycode(q, key) /\ e = keymap[layer][key]
      /\ layer = layer_switch_get_layer(q.kb, key)
      /\ layer = store_or_get_layer(q.kb, TRUE, key)
  BY DEF get_record_keycode, layer_switch_get_action, store_or_get_layer
<1> HIDE DEF q, e, layer
<1>2. FoundAs(m, q, H, e)
  BY <1>1, QuantumIs
<1>3. q \in Statics
  BY <1>2 DEF Between, FoundAs
<1>4. Handled(q, n, TRUE, key, layer, e)
  BY <1>1, <1>3, HandlerIs
<1>5. /\ n.state = q.state /\ n.weak_mods = q.weak_mods /\ n.active_td = q.active_td
      /\ n.kb.layers = IF e.kind = "ON_OFF" THEN q.kb.layers \cup {e.layer} ELSE q.kb.layers
      /\ n.kb.cache[key] = layer /\ layer \in Layers /\ q.kb \in KeyboardStates
  BY <1>3, <1>4 DEF Handled, Switch, CacheAt, Statics, KeyboardStates
<1>6. CASE e.kind # "ON_OFF"
  <2>1. layer_switch_get_layer(n.kb, key) = layer
    BY <1>1, <1>5, <1>6 DEF layer_switch_get_layer
  <2> QED
    BY <1>1, <1>2, <1>5, <2>1 DEF ComesAfter, IsDance, FoundAs
<1>7. CASE e.kind = "ON_OFF"
  <2>1. e.layer \in Layers
    <3>1. layer \in Layers /\ e = keymap[layer][key]
      BY <1>1, <1>5
    <3>2. keymap[layer] \in [Keys -> Actions]
      BY <3>1, ActionAssumption
    <3>3. e \in Actions
      BY <3>1, <3>2
    <3> QED
      BY <3>3 DEF Actions
  <2>2. layer_switch_get_layer(n.kb, key) \in {layer, e.layer}
    BY <1>1, <1>5, <1>7, <2>1, LookupAdds
  <2>3. keymap[e.layer][key].kind \notin {"KEY", "TAP_DANCE"}
    BY <1>1, <1>5, <1>7 DEF LayerKeysStay
  <2> QED
    BY <1>1, <1>7, <2>2, <2>3 DEF ComesAfter, IsDance
<1> QED
  BY <1>6, <1>7

\* No dance becomes active, and the one that is has been tapped no more often.
StillActive(m, n) ==
  \A d \in Dances : n.active_td = d => m.active_td = d /\ n.state[d].count = m.state[d].count

\* process_tap_dance for a release: the dance is up, and reset if it was decided.
LEMMA ReleaseKeeps ==
  ASSUME NEW H, NEW m, Between(m, H, {}), NEW d \in Dances,
         NEW n, n = process_tap_dance_Release(m, d)
  PROVE  /\ Between(n, H, {}) /\ ~n.state[d].pressed /\ n.kb.cache = m.kb.cache
         /\ StillActive(m, n) /\ n.sent = m.sent
<1> DEFINE state == [m.state EXCEPT ![d].pressed = FALSE]
           o == [m EXCEPT !.state[d].pressed = FALSE]
           r == process_tap_dance_action_on_reset(o, d)
<1>1. /\ m \in Statics /\ DanceInv(m, d) /\ m.state \in [Dances -> DanceStates]
      /\ m.state[d] \in DanceStates
  BY DEF Between, DancesInv, Statics
<1>2. o = [m EXCEPT !.state = state]
  OBVIOUS
<1>3. n = IF ~o.state[d].finished THEN o
          ELSE [r EXCEPT !.active_td = IF r.active_td = d THEN No ELSE r.active_td]
  <2>1. \A x : After(x, LAMBDA v : [v EXCEPT !.active_td = IF @ = d THEN No ELSE @])
                = [x EXCEPT !.active_td = IF x.active_td = d THEN No ELSE x.active_td]
    BY DEF After
  <2> QED
    BY <2>1 DEF process_tap_dance_Release
<1>4. /\ state \in [Dances -> DanceStates]
      /\ state[d] = [m.state[d] EXCEPT !.pressed = FALSE]
      /\ \A e \in Dances \ {d} : state[e] = m.state[e]
  BY <1>1 DEF DanceStates
<1>5. /\ ~state[d].pressed /\ state[d].finished = m.state[d].finished
      /\ state[d].count = m.state[d].count /\ state[d].weak_mods = m.state[d].weak_mods
  BY <1>1, <1>4 DEF DanceStates
<1> HIDE DEF state, o
<1>6. /\ o \in Statics /\ o.kb = m.kb /\ o.weak_mods = m.weak_mods /\ o.state = state
      /\ o.active_td = m.active_td /\ o.owed = m.owed /\ o.sent = m.sent
  BY <1>1, <1>2, <1>4 DEF Statics
<1>7. RegisteredIn(o, d) = RegisteredIn(m, d)
  BY <1>5, <1>6 DEF RegisteredIn
<1>8. CASE ~m.state[d].finished
  <2>1. n = o
    BY <1>3, <1>5, <1>6, <1>8
  <2>2. DancesInv(o)
    <3>1. DanceInv(o, d)
      BY <1>1, <1>5, <1>6, <1>8 DEF DanceInv
    <3>2. ASSUME NEW e \in Dances \ {d}
          PROVE  DanceInv(o, e)
      BY <1>4, <1>6 DEF DanceInv, Between, DancesInv
    <3> QED
      BY <3>1, <3>2 DEF DancesInv
  <2>3. ASSUME NEW e \in Dances
        PROVE  RegisteredIn(o, e) = RegisteredIn(m, e)
    <3>1. CASE e # d
      <4>1. o.state[e] = m.state[e]
        BY <1>4, <1>6, <3>1
      <4> QED
        BY <4>1 DEF RegisteredIn
    <3> QED
      BY <1>7, <3>1
  <2>4. HeldInv(o, H, {})
    BY <1>4, <1>5, <1>6, ZenonT(60) DEF HeldInv, HoldsFor, HeldAs, Between
  <2>5. KeysInv(o, H)
    <3>1. \A k \in H : HeldAs(o, k) = HeldAs(m, k)
      BY <1>6 DEF HeldAs
    <3> QED
      BY <1>6, <2>3, <3>1 DEF KeysInv, Between
  <2>6. ModsInv(o)
    BY <1>4, <1>5, <1>6, <2>3, ZenonT(60) DEF ModsInv, Between
  <2>7. StillActive(m, n)
    BY <1>4, <1>5, <1>6, <2>1 DEF StillActive
  <2> QED
    BY <1>5, <1>6, <2>1, <2>2, <2>4, <2>5, <2>6, <2>7 DEF Between
<1>9. CASE m.state[d].finished
  <2>1. /\ r \in Statics /\ r.kb.cache = o.kb.cache /\ r.active_td = o.active_td
        /\ r.owed = o.owed /\ r.state = ResetState(o, d) /\ r.sent = o.sent
        /\ r.kb.keys = o.kb.keys \ CodesOf(o, d)
        /\ r.weak_mods = (o.weak_mods \ o.state[d].weak_mods) \ WeakOf(o, d)
    <3>1. r = process_tap_dance_action_on_reset(o, d) /\ o.state[d].finished
      BY <1>5, <1>6, <1>9
    <3> HIDE DEF r
    <3> QED
      BY <1>6, <3>1, ResetIs
  <2> HIDE DEF r
  <2>2. r.active_td \in (Dances \cup {No}) \ {d} /\ m.owed[d] = 0
    BY <1>1, <1>6, <1>9, <2>1 DEF DanceInv, Statics
  <2>3. n = r
    <3>1. n = [r EXCEPT !.active_td = r.active_td]
      BY <1>3, <1>5, <1>6, <1>9, <2>2
    <3> QED
      BY <2>1, <3>1 DEF Statics
  <2>4. n.state[d] = Zero /\ \A e \in Dances \ {d} : n.state[e] = m.state[e]
    BY <1>4, <1>6, <2>1, <2>3, ZenonT(60) DEF ResetState
  <2>5. ~n.state[d].pressed /\ ~n.state[d].finished /\ n.state[d].count = 0
    BY <2>4 DEF Zero
  <2>6. DancesInv(n)
    <3>1. DanceInv(n, d)
      BY <1>6, <2>1, <2>2, <2>3, <2>5 DEF DanceInv
    <3>2. ASSUME NEW e \in Dances \ {d}
          PROVE  DanceInv(n, e)
      BY <1>6, <2>1, <2>3, <2>4 DEF DanceInv, Between, DancesInv
    <3> QED
      BY <3>1, <3>2 DEF DancesInv
  <2>7. \A e \in Dances \ {d} : RegisteredIn(n, e) = RegisteredIn(m, e)
    BY <2>4 DEF RegisteredIn
  <2>8. n.kb.cache = m.kb.cache /\ \A k \in H : HeldAs(n, k) = HeldAs(m, k)
    BY <1>6, <2>1, <2>3 DEF HeldAs
  <2>9. HeldInv(n, H, {})
    BY <2>4, <2>5, <2>8 DEF HeldInv, HoldsFor, Between
  <2>10. KeysInv(n, H)
    <3>1. ASSUME NEW k \in n.kb.keys
          PROVE  \/ \E key \in H : HeldAs(n, key).kind = "KEY" /\ HeldAs(n, key).code = k
                 \/ \E e \in Dances : \E kc \in RegisteredIn(n, e) : kc.code = k
      <4>1. k \in m.kb.keys /\ ~\E kc \in RegisteredIn(m, d) : kc.code = k
        BY <1>6, <1>7, <2>1, <2>3 DEF CodesOf
      <4>2. CASE \E key \in H : HeldAs(m, key).kind = "KEY" /\ HeldAs(m, key).code = k
        BY <2>8, <4>2
      <4>3. CASE \E e \in Dances : \E kc \in RegisteredIn(m, e) : kc.code = k
        BY <2>7, <4>1, <4>3
      <4> QED
        BY <4>1, <4>2, <4>3 DEF Between, KeysInv
    <3> QED
      BY <3>1 DEF KeysInv
  <2>11. ModsInv(n)
    <3>1. ASSUME NEW w \in n.weak_mods
          PROVE  \E e \in Dances : \/ \E kc \in RegisteredIn(n, e) : w \in kc.mods
                                   \/ n.state[e].finished /\ w \in n.state[e].weak_mods
      <4>1. w \in m.weak_mods /\ w \notin m.state[d].weak_mods
            /\ ~\E kc \in RegisteredIn(m, d) : w \in kc.mods
        BY <1>5, <1>6, <1>7, <2>1, <2>3 DEF WeakOf
      <4>2. PICK e \in Dances : \/ \E kc \in RegisteredIn(m, e) : w \in kc.mods
                                \/ m.state[e].finished /\ w \in m.state[e].weak_mods
        BY <4>1 DEF Between, ModsInv
      <4>3. e # d
        BY <4>1, <4>2
      <4> QED
        BY <2>4, <2>7, <4>2, <4>3
    <3> QED
      BY <3>1 DEF ModsInv
  <2>12. StillActive(m, n) /\ n.sent = m.sent
    BY <1>6, <2>1, <2>2, <2>3, <2>4 DEF StillActive
  <2> QED
    BY <2>1, <2>3, <2>5, <2>6, <2>8, <2>9, <2>10, <2>11, <2>12 DEF Between
<1> QED
  BY <1>8, <1>9

-----------------------------------------------------------------------------
(* The steps.                                                              *)

\* The active dance is that of the key pressed last, at which its time began; if it has
\* been tapped before, the last two presses were its own.
RecentInv ==
  \A d \in Dances : static.active_td = d =>
    /\ elapsed = recent.since /\ KeyOf(recent.key, d)
    /\ static.state[d].count > 1 => recent.again

\* What a step answers, as SentAsTapped asks, and what a press finds, as
\* InterrupterComesAfter asks.
AsTapped ==
  \A d \in Dances :
    LET again == \E key \in held' \ held : Taps(key, d)
        other == \E key \in held' \ held : ~Taps(key, d)
    IN  /\ <<d, 1>> \in static'.sent => other \/ recent.since > TAPPING_TERM
        /\ <<d, 2>> \in static'.sent => IF again THEN recent'.again ELSE recent.again

AfterDance ==
  \A key \in held' \ held :
    LET layer == layer_switch_get_layer(static'.kb, key)
        a     == keymap[layer][key]
    IN  /\ a.kind = "KEY" => /\ static'.active_td = No
                             /\ static'.kb.cache[key] = layer
                             /\ static'.weak_mods = {}
        /\ IsDance(a) => static'.state[a.code].count > 0

\* The inductive invariant.
IInv ==
  /\ held \in SUBSET Keys
  /\ Between(static, held, {})
  /\ elapsed \in 0 .. TAPPING_TERM + MAX_STALL
  /\ recent \in [key : Keys, again : BOOLEAN, since : 0 .. Long]
  /\ RecentInv

\* At power-up no dance is under way.
LEMMA InitInv == Init => IInv
<1> SUFFICES ASSUME Init PROVE IInv
  OBVIOUS
<1>1. /\ TAPPING_TERM \in Nat /\ MAX_STALL \in Nat /\ MAX_TAPS \in Nat /\ 0 \in Layers
  BY TapDanceAssumption, ActionAssumption DEF Layers
<1>2. Zero \in DanceStates
  BY <1>1 DEF Zero, DanceStates
<1>3. KeyboardInit \in KeyboardStates /\ KeyboardInit.keys = {}
  BY <1>1 DEF KeyboardInit, KeyboardStates
<1> DEFINE state == [d \in Dances |-> Zero]
           owed  == [d \in Dances |-> 0]
<1>4. state \in [Dances -> DanceStates] /\ owed \in [Dances -> Int]
  BY <1>2
<1>5. /\ static.kb = KeyboardInit /\ static.weak_mods = {} /\ static.state = state
      /\ static.active_td = No /\ static.owed = owed
      /\ static = [kb |-> KeyboardInit, weak_mods |-> {}, state |-> state,
                   active_td |-> No, owed |-> owed, sent |-> {}]
  BY DEF Init
<1>6. \A d \in Dances : /\ static.state[d].count = 0 /\ ~static.state[d].pressed
                        /\ ~static.state[d].finished /\ static.owed[d] = 0
  BY <1>5 DEF Zero
<1> HIDE DEF state, owed
<1>7. static \in Statics
  BY <1>3, <1>4, <1>5 DEF Statics
<1>8. DancesInv(static)
  BY <1>5, <1>6, ActionIs DEF DancesInv, DanceInv
<1>9. HeldInv(static, held, {}) /\ KeysInv(static, held) /\ ModsInv(static)
  BY <1>3, <1>5, <1>6 DEF HeldInv, KeysInv, ModsInv
<1>10. (CHOOSE key \in Keys : TRUE) \in Keys
  BY TapDanceAssumption
<1>11. recent \in [key : Keys, again : BOOLEAN, since : 0 .. Long]
  BY <1>1, <1>10 DEF Init, Long
<1>12. RecentInv
  BY <1>5, ActionIs DEF RecentInv
<1> QED
  BY <1>1, <1>7, <1>8, <1>9, <1>11, <1>12 DEF Init, IInv, Between

\* What press starts from: no weak modifiers, and nothing sent yet.
PressedFrom == [static EXCEPT !.weak_mods = {}, !.sent = {}]

\* The hypotheses about a press that PressStepKeeps and PressComesAfter ask for.
LEMMA PressBegins ==
  ASSUME IInv, NEW key \in Keys, press(key)
  PROVE  LET m == PressedFrom IN
         /\ Between(m, held, {}) /\ key \in Keys \ held /\ held \in SUBSET Keys
         /\ m.weak_mods = {} /\ m.sent = {} /\ m.kb = static.kb /\ m.state = static.state
         /\ m.active_td = static.active_td
         /\ static' = process_record_handler(Quantum(m, key), TRUE, key)
         /\ LET a == get_record_keycode(m, key)
            IN  IsDance(a) => m.state[a.code].count < MAX_TAPS
<1> DEFINE m == PressedFrom
<1>1. Between(m, held, {})
  BY ClearedKeeps DEF IInv, PressedFrom
<1>2. /\ m.kb = static.kb /\ m.state = static.state /\ m.active_td = static.active_td
      /\ m.weak_mods = {} /\ m.sent = {}
  BY DEF IInv, Between, Statics, PressedFrom
<1>3. static' = process_record_handler(Quantum(m, key), TRUE, key)
  BY DEF press, After, PressedFrom
<1> HIDE DEF m
<1>4. get_record_keycode(m, key) = get_record_keycode(static, key)
  BY <1>2 DEF get_record_keycode
<1>5. LET a == get_record_keycode(m, key) IN IsDance(a) => m.state[a.code].count < MAX_TAPS
  BY <1>2, <1>4 DEF press
<1>6. key \in Keys \ held /\ held \in SUBSET Keys
  BY DEF press, IInv
<1> QED
  BY <1>1, <1>2, <1>3, <1>5, <1>6 DEF m

\* A press keeps the invariant, and answers the dances as they were tapped.
LEMMA PressInv ==
  ASSUME OneKeyEach, MoveStays, IInv, NEW key \in Keys, press(key)
  PROVE  IInv' /\ AsTapped
<1> DEFINE m == PressedFrom
<1>1. /\ Between(m, held, {}) /\ key \in Keys \ held /\ held \in SUBSET Keys
      /\ static' = process_record_handler(Quantum(m, key), TRUE, key)
      /\ LET a == get_record_keycode(m, key) IN IsDance(a) => m.state[a.code].count < MAX_TAPS
  BY PressBegins
<1>2. /\ m.sent = {} /\ m.kb = static.kb /\ m.state = static.state
      /\ m.active_td = static.active_td
  BY PressBegins
<1> HIDE DEF m
<1>3. Between(static', held \cup {key}, {}) /\ Told(m, static', key)
  BY <1>1, PressStepKeeps
<1>4. /\ elapsed' \in 0 .. TAPPING_TERM + MAX_STALL
      /\ recent' \in [key : Keys, again : BOOLEAN, since : 0 .. Long]
  BY TapDanceAssumption DEF press, Long
<1>5. /\ held' = held \cup {key} /\ held' \ held = {key} /\ elapsed' = 0
      /\ recent'.key = key /\ recent'.since = 0
      /\ recent'.again = (recent.key = key /\ recent.since < Long)
  BY <1>1 DEF press
\* A tap of the active dance repeats the press before it.
<1>6. ASSUME NEW d \in Dances, static.active_td = d, TapOf(m, key, d)
      PROVE  recent'.again
  <2>1. elapsed = recent.since /\ KeyOf(recent.key, d) /\ recent.key \in Keys
    BY <1>6 DEF IInv, RecentInv
  <2>2. PICK l \in Layers : get_record_keycode(m, key) = keymap[l][key]
    BY <1>1, LookupType DEF get_record_keycode, layer_switch_get_action, Between, Statics
  <2>3. recent.key = key
    BY <1>1, <1>6, <2>1, <2>2 DEF KeyOf, TapOf, OneKeyEach
  <2>4. recent.since < Long
    BY <2>1, TapDanceAssumption DEF IInv, Long
  <2> QED
    BY <1>5, <2>3, <2>4
<1>7. RecentInv'
  <2>1. ASSUME NEW d \in Dances, static'.active_td = d
        PROVE  /\ elapsed' = recent'.since /\ KeyOf(recent'.key, d)
               /\ static'.state[d].count > 1 => recent'.again
    BY <1>2, <1>3, <1>5, <1>6, <2>1 DEF Told
  <2> QED
    BY <2>1 DEF RecentInv
<1>8. AsTapped
  <2>1. \A d \in Dances : Taps(key, d) <=> TapOf(m, key, d)
    BY <1>2 DEF Taps, TapOf, get_record_keycode
  <2>2. ASSUME NEW d \in Dances
        PROVE  /\ <<d, 1>> \in static'.sent => ~Taps(key, d)
               /\ <<d, 2>> \in static'.sent =>
                    IF Taps(key, d) THEN recent'.again ELSE recent.again
    <3>1. ASSUME NEW c, <<d, c>> \in static'.sent
          PROVE  /\ static.active_td = d
                 /\ IF Taps(key, d) THEN c = 2 ELSE c = static.state[d].count
      BY <1>2, <1>3, <2>1, <3>1 DEF Told
    <3>2. static.active_td = d /\ Taps(key, d) => recent'.again
      BY <1>6, <2>1
    <3>3. static.active_td = d /\ static.state[d].count = 2 => recent.again
      BY DEF IInv, RecentInv
    <3> QED
      BY <3>1, <3>2, <3>3
  <2> QED
    BY <1>5, <2>2 DEF AsTapped
<1> QED
  BY <1>1, <1>3, <1>4, <1>5, <1>7, <1>8 DEF IInv

\* A release keeps the invariant, and answers nothing.
LEMMA ReleaseInv ==
  ASSUME IInv, NEW key \in Keys, release(key)
  PROVE  IInv' /\ AsTapped
<1> DEFINE a == keymap[static.kb.cache[key]][key]
           m == [static EXCEPT !.sent = {}]
           q == IF IsDance(a) THEN process_tap_dance_Release(m, a.code) ELSE m
<1>1. Between(m, held, {})
  BY ClearedKeeps DEF IInv
<1>2. /\ m.kb = static.kb /\ static.kb.cache[key] \in Layers
      /\ m.sent = {} /\ m.state = static.state /\ m.active_td = static.active_td
  BY DEF IInv, Between, Statics, KeyboardStates
<1>3. static' = process_record_handler(q, FALSE, key)
  BY DEF release, After
<1> HIDE DEF m
<1>4. a = HeldAs(m, key) /\ (IsDance(a) => a.code \in Dances)
  BY <1>2, TapDanceAssumption DEF HeldAs, IsDance
<1> HIDE DEF a
<1>5. /\ Between(q, held, {}) /\ q.kb.cache = m.kb.cache
      /\ IsDance(a) => ~q.state[a.code].pressed
      /\ StillActive(m, q) /\ q.sent = {}
  <2>1. CASE IsDance(a)
    <3>1. q = process_tap_dance_Release(m, a.code)
      BY <2>1
    <3> HIDE DEF q
    <3> QED
      BY <1>1, <1>2, <1>4, <2>1, <3>1, ReleaseKeeps
  <2>2. CASE ~IsDance(a)
    BY <1>1, <1>2, <2>2 DEF StillActive
  <2> QED
    BY <2>1, <2>2
<1> HIDE DEF q
<1>6. \A d \in Dances : HoldsFor(q, key, d) => ~q.state[d].pressed
  BY <1>4, <1>5 DEF HoldsFor, HeldAs
<1>7. key \in held /\ held \in SUBSET Keys /\ q \in Statics
  BY <1>5 DEF release, IInv, Between
<1>8. Between(static', held \ {key}, {})
  BY <1>3, <1>5, <1>6, <1>7, HandlerReleaseKeeps
<1>9. static'.sent = {} /\ static'.active_td = q.active_td /\ static'.state = q.state
  <2> DEFINE layer == store_or_get_layer(q.kb, FALSE, key)
  <2>1. Handled(q, static', FALSE, key, layer, keymap[layer][key])
    BY <1>3, <1>7, HandlerIs
  <2> QED
    BY <1>5, <2>1 DEF Handled
<1>10. RecentInv'
  <2>1. RecentInv /\ elapsed' = elapsed /\ recent' = recent
    BY DEF release, IInv
  <2>2. ASSUME NEW d \in Dances, static'.active_td = d
        PROVE  /\ elapsed' = recent'.since /\ KeyOf(recent'.key, d)
               /\ static'.state[d].count > 1 => recent'.again
    BY <1>2, <1>5, <1>9, <2>1, <2>2 DEF StillActive, RecentInv
  <2> QED
    BY <2>2 DEF RecentInv
<1>11. AsTapped
  BY <1>9 DEF AsTapped
<1> QED
  BY <1>7, <1>8, <1>10, <1>11 DEF release, IInv

\* So does the task that decides the active dance; it answers what has been tapped.
LEMMA TaskInv ==
  ASSUME IInv, tap_dance_task
  PROVE  IInv' /\ AsTapped
<1> DEFINE m == [static EXCEPT !.sent = {}]
           e == static.active_td
<1>1. Between(m, held, {})
  BY ClearedKeeps DEF IInv
<1>2. /\ e \in Dances /\ m.active_td = e
      /\ m.sent = {} /\ m.state = static.state
  BY DEF IInv, Between, Statics, tap_dance_task
<1>3. static' = process_tap_dance_action_on_dance_finished(m, e)
  BY <1>2 DEF tap_dance_task, After
<1> HIDE DEF m
<1>4. Between(static', held, {}) /\ static'.active_td = No /\ Sends(m, static', e, m.state[e].count)
  BY <1>1, <1>2, <1>3, FinishKeeps
<1>5. RecentInv'
  BY <1>4, ActionIs DEF RecentInv
<1>6. AsTapped
  <2>1. /\ elapsed > TAPPING_TERM /\ elapsed = recent.since /\ held' = held
        /\ static.state[e].count > 1 => recent.again
    BY <1>2 DEF tap_dance_task, IInv, RecentInv
  <2>2. \A d \in Dances, c \in Nat : <<d, c>> \in static'.sent => d = e /\ c = static.state[e].count
    BY <1>2, <1>4 DEF Sends
  <2> QED
    BY <2>1, <2>2 DEF AsTapped
<1> QED
  BY <1>4, <1>5, <1>6 DEF tap_dance_task, IInv

\* Time passes.
LEMMA TickInv ==
  ASSUME IInv, Tick
  PROVE  IInv' /\ AsTapped
<1>1. Between(static', held, {})
  BY ClearedKeeps DEF IInv, Tick
<1>2. elapsed' \in 0 .. TAPPING_TERM + MAX_STALL
  BY TapDanceAssumption DEF IInv, Tick
<1>3. recent' \in [key : Keys, again : BOOLEAN, since : 0 .. Long]
  BY TapDanceAssumption DEF IInv, Tick, Long
<1>4. /\ static'.sent = {} /\ static'.active_td = static.active_td
      /\ static'.state = static.state
  BY DEF IInv, Between, Statics, Tick
<1>5. RecentInv'
  <2>1. ASSUME NEW d \in Dances, static'.active_td = d
        PROVE  /\ elapsed' = recent'.since /\ KeyOf(recent'.key, d)
               /\ static'.state[d].count > 1 => recent'.again
    <3>1. /\ static.active_td = d /\ d # No /\ elapsed = recent.since
          /\ KeyOf(recent.key, d) /\ (static.state[d].count > 1 => recent.again)
      BY <1>4, <2>1, ActionIs DEF IInv, RecentInv
    <3>2. /\ elapsed' = elapsed + 1 /\ recent'.since = recent.since + 1
          /\ recent'.key = recent.key /\ recent'.again = recent.again
      BY <3>1 DEF Tick, IInv
    <3> QED
      BY <1>4, <3>1, <3>2
  <2> QED
    BY <2>1 DEF RecentInv
<1>6. AsTapped
  BY <1>4 DEF AsTapped
<1> QED
  BY <1>1, <1>2, <1>3, <1>5, <1>6 DEF IInv, Tick

\* Every step keeps the invariant, and answers dances as they were tapped.
LEMMA NextInv ==
  ASSUME OneKeyEach, MoveStays, IInv, [Next]_vars
  PROVE  IInv' /\ (AsTapped \/ UNCHANGED vars)
<1>1. CASE \E key \in Keys : press(key) \/ release(key)
  BY <1>1, PressInv, ReleaseInv
<1>2. CASE tap_dance_task
  BY <1>2, TaskInv
<1>3. CASE Tick
  BY <1>3, TickInv
<1>4. CASE UNCHANGED vars
  BY <1>4 DEF vars, IInv, RecentInv
<1> QED
  BY <1>1, <1>2, <1>3, <1>4 DEF Next

\* A press comes after the dance it interrupts; no other step presses a key.
LEMMA NextAfterDance ==
  ASSUME OneKeyEach, MoveStays, LayerKeysStay, IInv, [Next]_vars
  PROVE  AfterDance \/ UNCHANGED vars
<1>1. ASSUME NEW key \in Keys, press(key)
      PROVE  AfterDance
  <2> DEFINE m == PressedFrom
  <2>1. /\ Between(m, held, {}) /\ key \in Keys \ held /\ held \in SUBSET Keys
        /\ m.weak_mods = {}
        /\ static' = process_record_handler(Quantum(m, key), TRUE, key)
        /\ LET a == get_record_keycode(m, key)
           IN  IsDance(a) => m.state[a.code].count < MAX_TAPS
    BY <1>1, PressBegins
  <2> HIDE DEF m
  <2>2. ComesAfter(static', key)
    BY <2>1, PressComesAfter
  <2>3. held' \ held = {key}
    BY <1>1 DEF press
  <2> QED
    BY <2>2, <2>3 DEF AfterDance, ComesAfter
<1>2. ASSUME NEW key \in Keys, release(key)
      PROVE  AfterDance
  BY <1>2 DEF AfterDance, release
<1>3. CASE tap_dance_task \/ Tick
  BY <1>3 DEF AfterDance, tap_dance_task, Tick
<1> QED
  BY <1>1, <1>2, <1>3 DEF Next

\* The inductive invariant holds of every run.
THEOREM Invariance ==
  ASSUME OneKeyEach, MoveStays
  PROVE  Spec => []IInv
<1>1. Init => IInv
  BY InitInv
<1>2. IInv /\ [Next]_vars => IInv'
  BY NextInv
<1> QED
  BY <1>1, <1>2, PTL DEF Spec

-----------------------------------------------------------------------------
(* The results.                                                            *)

\* The variables keep their types: no dance counts beyond its bound, and no dance waits
\* longer than its term and the stall of the task.
THEOREM TypeCorrect ==
  ASSUME OneKeyEach, MoveStays
  PROVE  Spec => []TypeOK
<1>1. IInv => TypeOK
  BY DEF IInv, Between, Statics, DanceStates, TypeOK
<1> QED
  BY <1>1, Invariance, PTL

\* The release of a key held down will end every decided dance (process_tap_dance).
THEOREM EveryDanceEnds ==
  ASSUME OneKeyEach, MoveStays
  PROVE  Spec => []DanceEnds
<1>1. IInv => DanceEnds
  <2> SUFFICES ASSUME IInv, NEW d \in Dances
               PROVE  /\ static.state[d].finished => static.state[d].pressed
                      /\ static.state[d].pressed =>
                           \E key \in held : keymap[static.kb.cache[key]][key] \in
                             [kind : {"TAP_DANCE"}, code : {d}, mod : Mods, layer : Layers]
    BY DEF DanceEnds
  <2>1. static.state[d].finished => static.state[d].pressed
    BY DEF IInv, Between, DancesInv, DanceInv
  <2>2. ASSUME static.state[d].pressed
        PROVE  \E key \in held : keymap[static.kb.cache[key]][key] \in
                 [kind : {"TAP_DANCE"}, code : {d}, mod : Mods, layer : Layers]
    <3>1. PICK key \in held : HoldsFor(static, key, d)
      BY <2>2 DEF IInv, Between, HeldInv
    <3>2. key \in Keys /\ static.kb.cache[key] \in Layers
      BY DEF IInv, Between, Statics, KeyboardStates
    <3>3. keymap[static.kb.cache[key]][key] \in Actions
      BY <3>2, ActionAssumption
    <3>4. keymap[static.kb.cache[key]][key] \in
            [kind : {"TAP_DANCE"}, code : {d}, mod : Mods, layer : Layers]
      BY <3>1, <3>3 DEF HoldsFor, HeldAs, IsDance, Actions
    <3> QED
      BY <3>4
  <2> QED
    BY <2>1, <2>2
<1> QED
  BY <1>1, Invariance, PTL

\* Nothing is left in the report by a dance: not its codes (on_reset unregisters what
\* finished or on_each_tap registered) nor its weak modifiers.
THEOREM NothingLeftStuck ==
  ASSUME OneKeyEach, MoveStays
  PROVE  Spec => []NothingStuck
<1>1. IInv => NothingStuck
  <2> SUFFICES ASSUME IInv PROVE NothingStuck
    OBVIOUS
  <2> DEFINE kcs == UNION {Registered(d) : d \in Dances}
  <2>1. \A d \in Dances : RegisteredIn(static, d) = Registered(d)
    BY DEF Registered, RegisteredIn
  <2>2. \A d \in Dances : \A kc \in RegisteredIn(static, d) : kc \in kcs
    BY <2>1
  <2>3. ASSUME NEW c \in static.kb.keys
        PROVE  \/ \E key \in held : LET a == keymap[static.kb.cache[key]][key]
                                    IN  a.kind = "KEY" /\ a.code = c
               \/ \E kc \in kcs : kc.code = c
    <3> HIDE DEF kcs
    <3> QED
      BY <2>2 DEF IInv, Between, KeysInv, HeldAs
  <2>4. ASSUME NEW w \in static.weak_mods
        PROVE  w \in UNION ({kc.mods : kc \in kcs} \cup
                 {static.state[d].weak_mods : d \in {e \in Dances : static.state[e].finished}})
    <3> HIDE DEF kcs
    <3>1. \/ \E kc \in kcs : w \in kc.mods
          \/ \E d \in Dances : static.state[d].finished /\ w \in static.state[d].weak_mods
      BY <2>2 DEF IInv, Between, ModsInv
    <3> QED
      BY <3>1
  <2> QED
    BY <2>3, <2>4 DEF NothingStuck
<1> QED
  BY <1>1, Invariance, PTL

\* Every tap is answered once.
THEOREM EveryTapAnswered ==
  ASSUME OneKeyEach, MoveStays
  PROVE  Spec => []TapsAnswered
<1>1. IInv => TapsAnswered
  BY DEF IInv, Between, DancesInv, DanceInv, TapsAnswered
<1> QED
  BY <1>1, Invariance, PTL

\* One tap is answered as one only after the term or when another key is pressed, two as
\* two only when they were consecutive (process_tap_dance, tap_dance_task).
THEOREM AnsweredAsTapped ==
  ASSUME OneKeyEach, MoveStays
  PROVE  Spec => SentAsTapped
<1>1. IInv /\ [Next]_vars => [AsTapped]_vars
  BY NextInv
<1> QED
  BY <1>1, Invariance, PTL DEF Spec, SentAsTapped, AsTapped

\* A key pressed during a dance is registered when the dance is decided, on the layer that
\* has left and without its weak modifiers (preprocess_tap_dance, process_record_quantum).
THEOREM InterrupterIsLast ==
  ASSUME OneKeyEach, MoveStays, LayerKeysStay
  PROVE  Spec => InterrupterComesAfter
<1>1. IInv /\ [Next]_vars => [AfterDance]_vars
  BY NextAfterDance
<1> QED
  BY <1>1, Invariance, PTL DEF Spec, InterrupterComesAfter, AfterDance
=============================================================================
