------------------------------- MODULE Tapping -------------------------------
(***************************************************************************)
(* The tap-or-hold state machine (quantum/action_tapping.c), driven by the *)
(* matrix scan and the tick events of keyboard.c.                          *)
(*                                                                         *)
(* A tap key does one thing when tapped and another when held.  While it   *)
(* is undecided which, the events that follow wait in waiting_buffer.      *)
(* Every call of process_tapping is one step of this specification: first  *)
(* for the new event, then for the buffered ones until one of them is not  *)
(* consumed.  While a drain is under way (pc = "drain") nothing else can   *)
(* happen, as in the code.                                                 *)
(*                                                                         *)
(* Compile-time options are constants, or fields of build, which never     *)
(* changes; per-key callbacks, RETRO_SHIFT, combos and swap hands are not  *)
(* modelled.                                                               *)
(***************************************************************************)
EXTENDS Action

CONSTANTS TAPPING_TERM, QUICK_TAP_TERM,     \* in ms
          WAITING_BUFFER_SIZE,
          Builds,          \* the firmware builds: the keys they have, their options
          TIMER_MOD,       \* event times are timer_read() modulo TIMER_MOD
          MAX_TAP_COUNT,   \* 15 in the code
          DEBOUNCE,        \* ms between two changes of one key
          MAX_SCAN_GAP,    \* bound: ms between two scans of the matrix
          NoKey            \* the key of a tick event and of an idle tapping_key

ASSUME TappingAssumption ==
  /\ TAPPING_TERM \in Nat \ {0}
  /\ QUICK_TAP_TERM \in 0 .. TAPPING_TERM
  /\ WAITING_BUFFER_SIZE \in Nat \ {0, 1}
  /\ Builds \subseteq [keys : SUBSET Keys, permissive : BOOLEAN, hold : BOOLEAN]
  /\ TIMER_MOD \in Nat \ {0}
  /\ MAX_TAP_COUNT \in Nat \ {0}
  /\ DEBOUNCE \in Nat
  /\ MAX_SCAN_GAP \in Nat
  /\ NoKey \notin Keys

VARIABLES
  build,            \* the firmware that is running: never changes
  matrix,           \* the keys that are down, as the last scan saw them
  stable,           \* ms since each key changed, as far as debouncing cares
  now,              \* timer_read()
  ticked,           \* a tick event was generated in this millisecond
  tapping_key,      \* the record of the key being tapped, or NoRecord
  waiting_buffer,   \* records from waiting_buffer_tail to waiting_buffer_head
  kb,               \* the keyboard's output state (module Action)
  pc,               \* "scan": between events; "drain": in the buffer loop
  processed,        \* records the last process_tapping call handed on
  overflowed        \* history: the buffer has overflowed

vars == <<build, matrix, stable, now, ticked, tapping_key, waiting_buffer, kb, pc, processed,
          overflowed>>

PERMISSIVE_HOLD         == build.permissive
HOLD_ON_OTHER_KEY_PRESS == build.hold

Records == [key : Keys, pressed : BOOLEAN, time : 0 .. TIMER_MOD - 1,
            count : 0 .. MAX_TAP_COUNT, interrupted : BOOLEAN]

Record(key, pressed, time, count, interrupted) ==
  [key |-> key, pressed |-> pressed, time |-> time, count |-> count,
   interrupted |-> interrupted]

NoRecord == Record(NoKey, FALSE, 0, 0, FALSE)

IS_NOEVENT(r) == r.key = NoKey

TIMER_DIFF_16(a, b) == (a - b) % TIMER_MOD

-----------------------------------------------------------------------------
(* Helpers of process_tapping; r is the record keyp points to.             *)

WITHIN(tk, r, term) == TIMER_DIFF_16(r.time, tk.time) < term

WITHIN_TAPPING_TERM_Late(r) ==                       \* mutant: one ms too long
  TIMER_DIFF_16(r.time, tapping_key.time) <= TAPPING_TERM
WITHIN_TAPPING_TERM(r)   == WITHIN(tapping_key, r, TAPPING_TERM)
WITHIN_QUICK_TAP_TERM(r) == WITHIN(tapping_key, r, QUICK_TAP_TERM)

IS_TAPPING_RECORD(r) == r.key = tapping_key.key

is_tap_record(r) == is_tap_action(layer_switch_get_action(kb, r.key))

\* The key of release r was pressed after the tap key: its press is buffered.
waiting_buffer_typed(r) ==
  \E i \in 1 .. Len(waiting_buffer) :
    /\ waiting_buffer[i].key = r.key
    /\ waiting_buffer[i].pressed # r.pressed

WithCount(r, n) == Record(r.key, r.pressed, r.time, n, r.interrupted)
WithTap(r, tk)  == Record(r.key, r.pressed, r.time, tk.count, tk.interrupted)
Interrupted(tk) == Record(tk.key, tk.pressed, tk.time, tk.count, TRUE)

\* waiting_buffer_scan_tap: the buffered release that makes tk a tap.
TapReleases(tk) ==
  {i \in 1 .. Len(waiting_buffer) :
     /\ waiting_buffer[i].key = tk.key /\ ~waiting_buffer[i].pressed
     /\ WITHIN(tk, waiting_buffer[i], TAPPING_TERM)
     /\ tk.pressed /\ tk.count = 0}

FirstOf(S) == CHOOSE i \in S : \A j \in S : i <= j

-----------------------------------------------------------------------------
(* The two callers of process_tapping in action_tapping_process.  A branch *)
(* of process_tapping ends by returning ok, with r as it left the record,  *)
(* tk as it left tapping_key, out the records it handed to process_record  *)
(* and buf as it left waiting_buffer.                                      *)

ProcessAll(k, out) ==
  IF out = <<>> THEN k
  ELSE IF Len(out) = 1 THEN process_record(k, out[1])
  ELSE process_record(process_record(k, out[1]), out[2])

LoopOn(buf) == IF buf = <<>> THEN "scan" ELSE "drain"

\* A new event is consumed (ticks always are): on to the buffer.
EventConsumed(ok, r, tk, out, buf) ==
  /\ pc = "scan" /\ (ok \/ IS_NOEVENT(r))
  /\ tapping_key' = tk
  /\ kb' = ProcessAll(kb, out)
  /\ waiting_buffer' = buf
  /\ pc' = LoopOn(buf)
  /\ overflowed' = overflowed

waiting_buffer_enq(ok, r, tk, out, buf) ==
  /\ pc = "scan" /\ ~ok /\ ~IS_NOEVENT(r)
  /\ Len(buf) + 1 < WAITING_BUFFER_SIZE
  /\ tapping_key' = tk
  /\ kb' = ProcessAll(kb, out)
  /\ waiting_buffer' = Append(buf, r)
  /\ pc' = "drain"
  /\ overflowed' = overflowed

Overflow(ok, r, tk, out, buf) ==
  /\ pc = "scan" /\ ~ok /\ ~IS_NOEVENT(r)
  /\ Len(buf) + 1 >= WAITING_BUFFER_SIZE
  /\ tapping_key' = NoRecord
  /\ kb' = clear_keyboard(ProcessAll(kb, out))
  /\ waiting_buffer' = <<>>
  /\ pc' = "scan"
  /\ overflowed' = TRUE

DrainNext(ok, r, tk, out, buf) ==
  /\ pc = "drain" /\ ok
  /\ tapping_key' = tk
  /\ kb' = ProcessAll(kb, out)
  /\ waiting_buffer' = Tail(buf)
  /\ pc' = LoopOn(Tail(buf))
  /\ overflowed' = overflowed

\* The record stays at the head of the buffer.
DrainBreak(ok, r, tk, out, buf) ==
  /\ pc = "drain" /\ ~ok
  /\ tapping_key' = tk
  /\ kb' = ProcessAll(kb, out)
  /\ waiting_buffer' = <<r>> \o Tail(buf)
  /\ pc' = "scan"
  /\ overflowed' = overflowed

ReturnWith(ok, r, tk, out, buf) ==
  /\ processed' = out
  /\ UNCHANGED build
  /\ \/ EventConsumed(ok, r, tk, out, buf)
     \/ waiting_buffer_enq(ok, r, tk, out, buf)
     \/ Overflow(ok, r, tk, out, buf)
     \/ DrainNext(ok, r, tk, out, buf)
     \/ DrainBreak(ok, r, tk, out, buf)

Return(ok, r, tk, out) == ReturnWith(ok, r, tk, out, waiting_buffer)

StartTapping_NoScan(r, out) == Return(TRUE, r, r, out)   \* mutant: no scan
\* tapping_key = *keyp; waiting_buffer_scan_tap(), after handing on out.
StartTapping(r, out) ==
  LET hits == TapReleases(r)
      i    == FirstOf(hits)
      tap  == WithCount(r, 1)
  IN  IF hits = {}
      THEN Return(TRUE, r, r, out)
      ELSE ReturnWith(TRUE, r, tap, Append(out, tap),
                      [waiting_buffer EXCEPT ![i] = WithCount(@, 1)])

-----------------------------------------------------------------------------
(* process_tapping, "reset" state: no key is being tapped.                 *)

ResetTick(r) ==
  /\ IS_NOEVENT(tapping_key) /\ IS_NOEVENT(r)
  /\ Return(TRUE, r, tapping_key, <<>>)

ResetStart(r) ==
  /\ IS_NOEVENT(tapping_key) /\ ~IS_NOEVENT(r)
  /\ r.pressed /\ is_tap_record(r)
  /\ StartTapping(r, <<>>)

ResetOther(r) ==
  /\ IS_NOEVENT(tapping_key) /\ ~IS_NOEVENT(r)
  /\ ~(r.pressed /\ is_tap_record(r))
  /\ Return(TRUE, r, tapping_key, <<r>>)

-----------------------------------------------------------------------------
(* "pressed" state, within TAPPING_TERM, still undecided (tap.count 0).    *)

Undecided(r) == /\ ~IS_NOEVENT(tapping_key) /\ tapping_key.pressed
                /\ tapping_key.count = 0
                /\ WITHIN_TAPPING_TERM(r)
                /\ ~IS_NOEVENT(r)

PressedTick_Early(r) ==                \* mutant: returns before testing the term
  /\ ~IS_NOEVENT(tapping_key) /\ tapping_key.pressed
  /\ IS_NOEVENT(r)
  /\ Return(TRUE, r, tapping_key, <<>>)
PressedTick(r) ==
  /\ ~IS_NOEVENT(tapping_key) /\ tapping_key.pressed
  /\ IS_NOEVENT(r)
  /\ WITHIN_TAPPING_TERM(r) \/ tapping_key.count > 0
  /\ Return(TRUE, r, tapping_key, <<>>)

\* The first tap; the release itself is enqueued behind what is buffered.
FirstTap(r) ==
  /\ Undecided(r)
  /\ IS_TAPPING_RECORD(r) /\ ~r.pressed
  /\ LET tap == WithCount(tapping_key, 1)
     IN  Return(FALSE, WithTap(r, tap), tap, <<tap>>)

\* Another key was typed (pressed and released) meanwhile: PERMISSIVE_HOLD.
InterferedByTyping(r) ==
  /\ Undecided(r) /\ ~IS_TAPPING_RECORD(r)
  /\ ~r.pressed /\ waiting_buffer_typed(r) /\ PERMISSIVE_HOLD
  /\ Return(FALSE, r, NoRecord, <<tapping_key>>)

\* Modifiers and layers are retained till the end of this tapping.  The action
\* is looked up on the current layers, not on the layer of the press.
Retained(r) ==
  LET a == layer_switch_get_action(kb, r.key)
  IN  \/ a.kind \in {"MOD", "LAYER_TAP", "ON_OFF"}
      \/ a.kind = "MODS_TAP" /\ r.count = 0

\* Release of a key that was pressed before the tapping started.
EarlierRelease(r) ==
  /\ Undecided(r) /\ ~IS_TAPPING_RECORD(r)
  /\ ~r.pressed /\ ~waiting_buffer_typed(r)
  /\ IF Retained(r) THEN Return(FALSE, r, tapping_key, <<>>)
                    ELSE Return(TRUE, r, tapping_key, <<r>>)

OtherPress_KeepsTapping(r) ==          \* mutant: decided, but still being tapped
  /\ Undecided(r) /\ r.pressed
  /\ Return(FALSE, r, Interrupted(tapping_key), <<>>)
\* Another key is pressed: it interrupts the tapping and, with
\* HOLD_ON_OTHER_KEY_PRESS, decides it.
OtherPress(r) ==
  /\ Undecided(r) /\ r.pressed
  /\ IF HOLD_ON_OTHER_KEY_PRESS
     THEN Return(FALSE, r, NoRecord, <<Interrupted(tapping_key)>>)
     ELSE Return(FALSE, r, Interrupted(tapping_key), <<>>)

\* Release of a key pressed since, when that does not decide the tapping.
OtherRelease(r) ==
  /\ Undecided(r) /\ ~IS_TAPPING_RECORD(r)
  /\ ~r.pressed /\ waiting_buffer_typed(r) /\ ~PERMISSIVE_HOLD
  /\ Return(FALSE, r, tapping_key, <<>>)

-----------------------------------------------------------------------------
(* "pressed" state, decided to be a tap (tap.count > 0), its release still *)
(* to come; within TAPPING_TERM or after it.                               *)

Tapped(r) == /\ ~IS_NOEVENT(tapping_key) /\ tapping_key.pressed
             /\ tapping_key.count > 0
             /\ ~IS_NOEVENT(r)

TapRelease(r) ==
  /\ Tapped(r)
  /\ IS_TAPPING_RECORD(r) /\ ~r.pressed
  /\ LET rel == WithTap(r, tapping_key)
     IN  Return(TRUE, rel,
                IF WITHIN_TAPPING_TERM(r) THEN rel ELSE NoRecord,
                <<rel>>)

\* A new tap key is pressed; with a count above 1 the old one is released now.
StartWhileTapped(r) ==
  /\ Tapped(r)
  /\ r.pressed /\ is_tap_record(r)
  /\ StartTapping(r, IF tapping_key.count > 1
                     THEN <<Record(tapping_key.key, FALSE, r.time,
                                   tapping_key.count, tapping_key.interrupted)>>
                     ELSE <<>>)

EventWhileTapped(r) ==
  /\ Tapped(r)
  /\ ~(IS_TAPPING_RECORD(r) /\ ~r.pressed)
  /\ ~(r.pressed /\ is_tap_record(r))
  /\ Return(TRUE, r, tapping_key, <<r>>)

-----------------------------------------------------------------------------
(* "pressed" state, undecided, after TAPPING_TERM: it is a hold.           *)

Timeout(r) ==
  /\ ~IS_NOEVENT(tapping_key) /\ tapping_key.pressed
  /\ tapping_key.count = 0
  /\ ~WITHIN_TAPPING_TERM(r)
  /\ Return(FALSE, r, NoRecord, <<tapping_key>>)

-----------------------------------------------------------------------------
(* "released" state: the last tap was released less than a term ago.       *)

Released(r) == /\ ~IS_NOEVENT(tapping_key) /\ ~tapping_key.pressed
               /\ WITHIN_TAPPING_TERM(r)

ReleasedTick(r) ==
  /\ Released(r) /\ IS_NOEVENT(r)
  /\ Return(TRUE, r, tapping_key, <<>>)

SequentialTap_Uncapped(r) ==           \* mutant: tap.count is not capped
  /\ Released(r) /\ ~IS_NOEVENT(r) /\ r.pressed /\ IS_TAPPING_RECORD(r)
  /\ WITHIN_QUICK_TAP_TERM(r) /\ ~tapping_key.interrupted /\ tapping_key.count > 0
  /\ LET tap == WithCount(WithTap(r, tapping_key), tapping_key.count + 1)
     IN  Return(TRUE, tap, tap, <<tap>>)
SequentialTap(r) ==
  /\ Released(r) /\ ~IS_NOEVENT(r) /\ r.pressed /\ IS_TAPPING_RECORD(r)
  /\ WITHIN_QUICK_TAP_TERM(r) /\ ~tapping_key.interrupted /\ tapping_key.count > 0
  /\ LET n   == tapping_key.count
         tap == WithCount(WithTap(r, tapping_key),
                          IF n < MAX_TAP_COUNT THEN n + 1 ELSE n)
     IN  Return(TRUE, tap, tap, <<tap>>)

NewTapOfSameKey(r) ==
  /\ Released(r) /\ ~IS_NOEVENT(r) /\ r.pressed /\ IS_TAPPING_RECORD(r)
  /\ ~(WITHIN_QUICK_TAP_TERM(r) /\ ~tapping_key.interrupted /\ tapping_key.count > 0)
  /\ Return(TRUE, r, r, <<>>)

OtherTapKey(r) ==
  /\ Released(r) /\ ~IS_NOEVENT(r) /\ r.pressed /\ ~IS_TAPPING_RECORD(r)
  /\ is_tap_record(r)
  /\ StartTapping(r, <<>>)

OtherKeyAfterTap(r) ==
  /\ Released(r) /\ ~IS_NOEVENT(r) /\ r.pressed /\ ~IS_TAPPING_RECORD(r)
  /\ ~is_tap_record(r)
  /\ Return(TRUE, r, Interrupted(tapping_key), <<r>>)

ReleaseAfterTap(r) ==
  /\ Released(r) /\ ~IS_NOEVENT(r) /\ ~r.pressed
  /\ Return(TRUE, r, tapping_key, <<r>>)

ReleasedTimeout(r) ==
  /\ ~IS_NOEVENT(tapping_key) /\ ~tapping_key.pressed
  /\ ~WITHIN_TAPPING_TERM(r)
  /\ Return(FALSE, r, NoRecord, <<>>)

process_tapping(r) ==
  \/ ResetTick(r) \/ ResetStart(r) \/ ResetOther(r)
  \/ PressedTick(r)
  \/ FirstTap(r) \/ InterferedByTyping(r) \/ EarlierRelease(r)
  \/ OtherPress(r) \/ OtherRelease(r)
  \/ TapRelease(r) \/ StartWhileTapped(r) \/ EventWhileTapped(r)
  \/ Timeout(r)
  \/ ReleasedTick(r) \/ SequentialTap(r) \/ NewTapOfSameKey(r)
  \/ OtherTapKey(r) \/ OtherKeyAfterTap(r) \/ ReleaseAfterTap(r)
  \/ ReleasedTimeout(r)

-----------------------------------------------------------------------------
(* matrix_task: d ms after the last scan the matrix is scanned again, and  *)
(* either a key has changed or a tick event may be due.  Two keys that     *)
(* change in one scan are two scans zero ms apart.  The debouncer          *)
(* (external) lets a key change only when it was stable for DEBOUNCE ms.   *)

Aged(key, d) == IF stable[key] + d < DEBOUNCE THEN stable[key] + d ELSE DEBOUNCE

KeyChange(key, d) ==
  /\ pc = "scan" /\ key \in build.keys
  /\ Aged(key, d) = DEBOUNCE
  /\ now' = (now + d) % TIMER_MOD
  /\ ticked' = (ticked /\ d = 0)
  /\ stable' = [k \in Keys |-> IF k = key THEN 0 ELSE Aged(k, d)]
  /\ matrix' = Switch(matrix, key, key \notin matrix)
  /\ process_tapping(Record(key, key \notin matrix, now', 0, FALSE))

generate_tick_event(d) ==
  /\ pc = "scan"
  /\ d > 0 \/ ~ticked
  /\ now' = (now + d) % TIMER_MOD
  /\ ticked' = TRUE
  /\ stable' = [k \in Keys |-> Aged(k, d)]
  /\ process_tapping(Record(NoKey, FALSE, now', 0, FALSE))
  /\ UNCHANGED matrix

Drain ==
  /\ pc = "drain"
  /\ process_tapping(Head(waiting_buffer))
  /\ UNCHANGED <<matrix, stable, now, ticked>>

Init ==
  /\ build \in Builds
  /\ matrix = {} /\ stable = [k \in Keys |-> DEBOUNCE] /\ now = 0 /\ ticked = FALSE
  /\ tapping_key = NoRecord
  /\ waiting_buffer = <<>>
  /\ kb = KeyboardInit
  /\ pc = "scan" /\ processed = <<>> /\ overflowed = FALSE

Next ==
  \/ \E key \in Keys, d \in 0 .. MAX_SCAN_GAP : KeyChange(key, d)
  \/ \E d \in 0 .. MAX_SCAN_GAP : generate_tick_event(d)
  \/ Drain

\* The main loop never stops scanning: ticks are generated and drains end.
Fairness == /\ WF_vars(\E d \in 1 .. MAX_SCAN_GAP : generate_tick_event(d))
            /\ WF_vars(Drain)

Spec == Init /\ [][Next]_vars /\ Fairness

-----------------------------------------------------------------------------
(* Properties.                                                             *)

\* The type invariant; in particular the buffer never exceeds its capacity.
TypeOK ==
  /\ build \in Builds
  /\ matrix \subseteq Keys
  /\ stable \in [Keys -> 0 .. DEBOUNCE]
  /\ now \in 0 .. TIMER_MOD - 1
  /\ ticked \in BOOLEAN
  /\ tapping_key \in Records \cup {NoRecord}
  /\ waiting_buffer \in Seq(Records)
  /\ Len(waiting_buffer) < WAITING_BUFFER_SIZE
  /\ kb \in KeyboardStates
  /\ pc \in {"scan", "drain"}
  /\ processed \in Seq(Records)
  /\ overflowed \in BOOLEAN

\* Between two events the buffer holds records only while a tap key is undecided,
\* or in the millisecond of the newest of them, until the next tick.  In every
\* other state of the machine new events are processed at once, so this is what
\* keeps them from overtaking buffered ones.
NoneInBuffer ==
  pc = "scan" /\ waiting_buffer # <<>> =>
    \/ tapping_key.pressed /\ tapping_key.count = 0
    \/ ~ticked /\ waiting_buffer[Len(waiting_buffer)].time = now

\* Nothing is being tapped and nothing is buffered.
Settled == /\ pc = "scan" /\ waiting_buffer = <<>>
           /\ ~tapping_key.pressed

\* With every key up and everything settled, no key code, modifier or layer is
\* left switched on, whatever was tapped, held, interrupted or reordered.
NothingStuck ==
  (matrix = {} /\ Settled) =>
    /\ kb.keys = {} /\ kb.mods = {}
    /\ (~overflowed => kb.layers = {})

BufferedPress(key, i) == waiting_buffer[i].key = key /\ waiting_buffer[i].pressed
BufferedRelease(key, i) == waiting_buffer[i].key = key /\ ~waiting_buffer[i].pressed

\* Press r, of a tap key, was handed on with its hold function for a reason:
\* its term is over and no release within the term is waiting, or one of the
\* options let another key decide.
HoldJustified(r) ==
  LET I == 1 .. Len(waiting_buffer)
  IN  \/ /\ TIMER_DIFF_16(now, r.time) >= TAPPING_TERM
         /\ ~\E i \in I : /\ BufferedRelease(r.key, i)
                          /\ WITHIN(r, waiting_buffer[i], TAPPING_TERM)
      \/ /\ PERMISSIVE_HOLD
         /\ \E key \in Keys \ {r.key}, i, j \in I :
               i < j /\ BufferedPress(key, i) /\ BufferedRelease(key, j)
      \/ /\ HOLD_ON_OTHER_KEY_PRESS
         /\ \E key \in Keys \ {r.key}, i \in I : BufferedPress(key, i)

\* Press r was handed on as a first tap: its own release, within the term and
\* marked as a tap too, is waiting (unless an overflow just cleared the buffer).
TapJustified(r) ==
  \/ waiting_buffer = <<>>
  \/ \E i \in 1 .. Len(waiting_buffer) :
       /\ BufferedRelease(r.key, i)
       /\ waiting_buffer[i].count = 1
       /\ WITHIN(r, waiting_buffer[i], TAPPING_TERM)

\* Every tap key is decided by its own press and release times (and by the
\* options), however long its records waited behind another undecided key.
TapOrHold ==
  \A n \in 1 .. Len(processed) :
    LET r == processed[n]
    IN  r.pressed /\ is_tap_action(keymap[kb.cache[r.key]][r.key])
          => /\ r.count = 0 => HoldJustified(r)
             /\ r.count = 1 => TapJustified(r)

\* In the default mode nothing but time makes a tap key a hold: other keys do not
\* influence the decision, as docs/tap_hold.md says of process_tapping.
HoldMeansHeld ==
  ~PERMISSIVE_HOLD /\ ~HOLD_ON_OTHER_KEY_PRESS =>
    \A n \in 1 .. Len(processed) :
      LET r == processed[n]
      IN  r.pressed /\ r.count = 0 /\ is_tap_action(keymap[kb.cache[r.key]][r.key])
            => TIMER_DIFF_16(now, r.time) >= TAPPING_TERM

\* With HOLD_ON_OTHER_KEY_PRESS no interrupted press is ever handed on as a tap,
\* so the "ad hoc: set 0 to cancel tap" of process_action is never needed.
InterruptedNeverTaps ==
  HOLD_ON_OTHER_KEY_PRESS =>
    \A n \in 1 .. Len(processed) :
      processed[n].pressed /\ processed[n].count > 0 => ~processed[n].interrupted

\* Once the keys are left alone every buffered event is processed and no tap key
\* stays undecided: ticks alone finish what was begun.
EventuallyDecided ==
  <>[][~\E key \in Keys, d \in 0 .. MAX_SCAN_GAP : KeyChange(key, d)]_vars
    => <>[](waiting_buffer = <<>> /\ ~(tapping_key.pressed /\ tapping_key.count = 0))
=============================================================================
