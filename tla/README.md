# A verification development for QMK with the danopad01 keyboard

This directory specifies, model-checks and proves parts of the keyboard firmware
in `src/`: a fork of QMK whose own addition is the danopad01, a macro pad with a
200x200 e-paper panel. The specifications are in TLA+. TLC checks them on small
instances; TLAPS proves theorems about them for every value of the constants.

- [The system](#the-system): the components, their state, what makes them correct
- [The modules](#the-modules): which module models what, and how
- [The runs](#the-runs): what each TLC run asks and shows, its bounds
- [Where the code and its documentation disagree](#where-the-code-and-its-documentation-disagree)
- [Fairness](#fairness)
- [The proofs](#the-proofs)
- [What is not modelled](#what-is-not-modelled)
- [The plan](#the-plan)

To repeat the results, in this directory: `tlc -config Epd.cfg Epd.tla`,
`tlc -config Tapping.cfg MCTapping.tla`, and so on for the other runs, and
`tlapm EpdProofs.tla`, and likewise `TappingProofs`, `DeferredExecProofs`, `DebounceProofs`, `ComboProofs`,
`TapDanceProofs`, `OneShotProofs` and `WearLevelingProofs`.
`PROJECT.json` lists all runs with the properties each one checks, the source
lines behind every definition, the hazards of the code and the theorems.

## The system

QMK is one main loop on one core, with no threads. Each iteration
(`keyboard_task` in `quantum/keyboard.c`) scans the matrix, debounces it, generates a
record for each key that changed, or a *tick* record at most once per millisecond if
none did, sends every record down a chain of handlers, and then calls the
housekeeping tasks (combo, tap dance, layer lock, deferred execution, danopad01's
`epd_task`). Concurrency is therefore
*interleaving in time*: between two iterations the clock moves, keys change, the
panel finishes its work, and power may fail. What is hard is the state that the
handlers keep from one record to the next.

| Component | State | Operations | Interacts through |
|---|---|---|---|
| danopad01's e-paper driver (`keyboards/hernian/danopad01`) | position in the running sequence, a one-entry mailbox for the next one, reset phase, delay and idle timers | `epd_task`, `epd_display_image_partial`, the mode key | key records; the panel's BUSY and RST pins |
| Debouncing (`quantum/debounce`) | counters per key or row, time of the last update | `debounce` | raw matrix in, debounced matrix out |
| Matrix task and ticks (`quantum/keyboard.c`) | previous matrix, time of the last tick | `matrix_task`, `generate_tick_event`, ghost rows held back | calls the tapping machine |
| Combos (`process_combo.c`) | key buffer, ring of prepared combos, state per combo, one timer | `process_combo`, `combo_task`, the switch keycodes | swallows key records and hands them on later |
| Tap-or-hold (`quantum/action_tapping.c`) | `tapping_key`, `waiting_buffer` | `action_tapping_process`, one `process_tapping` per record | calls `process_record` with the records, later and with a tap count |
| Tap dance (`process_tap_dance.c`) | a state per dance, `active_td`, time of the last tap | `preprocess_tap_dance`, `process_tap_dance`, `tap_dance_task` | key records; registers codes, changes layers |
| One-shot keys (`action_util.c`, `action.c`) | pending and locked modifiers, the one-shot layer, timers | branches of `process_action`, every report | layers, modifiers, reports |
| Layer lock (`layer_lock.c`) | `locked_layers`, idle time | the lock key, the timeout task | layers, one-shot layers |
| Actions (`quantum/action.c`) | none of its own | `process_record`, `process_action`, `clear_keyboard` | layers, registered keys, modifiers |
| Layers (`quantum/action_layer.c`) | `layer_state`, `source_layers_cache` | `layer_on`, `layer_off`, `layer_switch_get_layer`, `store_or_get_action` | read by the tapping machine as well |
| Deferred execution (`deferred_exec.c`) | a table of executors, the last token | `defer_exec`, `extend_`, `cancel_deferred_exec`, the task | callbacks that use the same table |
| Wear leveling (`quantum/wear_leveling`) | a RAM copy of the data, write address, lock state; in flash: consolidated data, checksum, write log | init with playback, read, write, erase, consolidate | the backing store driver; above it the EEPROM API |

What makes each one correct, and where it is hard:

- **E-paper driver.** It must never freeze the keyboard. `epd_send_command`
  busy-waits for the panel inside the main loop, so one command sent to a sleeping
  panel may stop everything. Key events and the idle timer both write the mailbox
  while a sequence runs; no image asked for may get lost, and nothing may reset a
  panel in the middle of a refresh.
- **Debouncing.** A bounce is not a key press, however late the scans are; but every
  change that lasts must be reported, also one that falls into a lock-out or into a row
  that is held back because of ghosts, after which nothing changes any more.
- **Combos.** A press that is swallowed is typed later or belongs to a combo that
  fired, never both; what went down comes up, although keys of a combo are
  released, pressed again or shared with other combos.
- **Tap-or-hold.** A tap key is one thing when tapped and another when held. While
  it is undecided later events wait, and the waiting events must not be overtaken;
  when several tap keys wait behind one another, each must be decided by its own
  press and release times. Time is 16 bits wide and wraps. The buffer is finite.
- **Tap dance.** One dance is undecided at a time; it is decided by its next tap, by
  the term or by another key, which may act on a layer that the dance is about to
  change. Its reset must come once, with the release of its key.
- **One-shot keys, layer lock.** A one-shot applies to one key and no more, or
  expires; a layer that several parties switch on must be switched off by the right one.
- **Actions and layers.** The release of a key must undo what its press did,
  although the layers changed in between. Keys, modifiers and layers are bits and
  not counters.
- **Deferred execution.** Callbacks change the table that is being run through;
  8-bit tokens and 32-bit times wrap.
- **Wear leveling.** Power may fail between any two flash operations, and any of
  them may report failure. What the next start-up restores must be what had been
  written; a word of flash may be programmed only once between erases; the log
  must not overflow although a write or even one log entry is longer than what
  is left of it.

## The modules

| Module | Models |
|---|---|
| `Epd` | `epd_ws1in54_V2.c`, `danopad01.c` |
| `EpdProofs` | theorems about `Epd` |
| `Debounce`, `MCDebounce` | `debounce/*.c`, ghosting in `matrix_task`; matrices for TLC |
| `DebounceProofs` | theorems about `Debounce` |
| `Action` | `action.c` and `action_layer.c`, as far as tapping needs them |
| `Tapping`, `MCTapping` | `action_tapping.c`, and the matrix task of `keyboard.c`; EXTENDS `Action`; keyboards for TLC |
| `TappingProofs` | theorems about `Tapping` |
| `Combo`, `MCCombo` | `process_combo.c`; combos for TLC |
| `ComboProofs` | theorems about `Combo` |
| `TapDance`, `MCTapDance` | `process_tap_dance.c`; EXTENDS `Action`; dances for TLC |
| `TapDanceProofs` | theorems about `TapDance` |
| `OneShot`, `MCOneShot` | one-shot keys and layer lock; EXTENDS `Action`; keymaps for TLC |
| `OneShotProofs` | theorems about `OneShot` |
| `Timers` | abstract: what deferred execution promises |
| `DeferredExec` | `deferred_exec.c`; implements `Timers` |
| `DeferredExecProofs` | theorems about `DeferredExec`, the refinement among them |
| `Eeprom` | abstract: what wear leveling promises |
| `WearLeveling`, `MCWearLeveling` | `wear_leveling.c`; implements `Eeprom`; writes for TLC |
| `WearLevelingProofs` | theorems about `WearLeveling` |

Operators keep the names of the C functions and variables they model. An operator
that begins with the comment "Mutant" is no part of a specification: it is the form the definition
after it would have with a plausible bug, kept to show that the properties notice.

A module that covers several builds of the firmware (compile-time options, keymaps)
chooses one in `Init` with the variable `build`, from the constant set `Builds`.
Options that are never combined with more than one keymap are constants.

`Combo`, `TapDance`, `OneShot` and `Debounce` write a C function on static variables as an
operator from the record of these variables to the next one. One key event, with
everything it calls, is then one step: nothing else runs in between in the code either.

### Epd

The driver is a table of *sequences* (`seq_init`, `seq_show_image_partial`,
`seq_deep_sleep`), and each call of `epd_task` runs one element. The tables are
laid out in one memory, as in the code: `pelem_cur` and `seq_next` are addresses,
so that running off a table would be seen. There is one action per element
function, each with the loading of a requested sequence (`Loads`, `LoadSeq`) and
the advance (`Return`) that `cseq_engine_task` wraps around it, one action each for
the idle engine and `END` with the idle timer's check that follows in `epd_task`
(`IdleCheck`), one for the busy-wait (`epd_send_command_spin`), and two for the mode key.
While `spinning` is TRUE no key event is possible, because the main loop is stuck.

Time is two bits, "the delay has elapsed" and "the idle time has elapsed". The
panel is hardware, modelled by how the driver uses it: the job it is working on,
BUSY, the contents of its two RAMs and what it shows. The level of BUSY in deep
sleep is left open, since a comment in the driver assumes it high but nothing in
the repository settles it. Images are numbers; what matters is which one.

### Action and Tapping

`Action` is a pure function: `process_record(k, r)` maps the keyboard's output
state (registered keys, modifiers, layers, layer cache) and a record to the next
one. It covers basic keys, modifiers, mod-taps, layer-taps, momentary layers and
transparent keys.

In `Tapping` every call of `process_tapping` is one step, so its roughly twenty
branches are twenty actions. `ReturnWith` holds what `action_tapping_process` does with the
result: the first call's record is consumed, or goes to the buffer, or overflows
it; then the buffer is drained (`pc = "drain"`) until a record is not consumed.
A branch names its results explicitly: whether it consumed the record, the record
and `tapping_key` as it leaves them, the records it handed to `process_record`,
and the buffer. `processed` is the last of these, for the properties.

`KeyChange` and `generate_tick_event` are `matrix_task`. Either starts with the
time `d` since the last scan; two keys that change in one scan are two steps with
`d = 0`. Time is taken modulo `TIMER_MOD`, so that its wrap-around is part of every run.
A key changes again only after being stable for `DEBOUNCE` ms. That is what `Spaced` of
`Debounce` says of the debouncers, `none` and a press after a release with
`asym_eager_defer_pk` excepted.
`PERMISSIVE_HOLD` and `HOLD_ON_OTHER_KEY_PRESS` are fields of the build.

### Debounce

`db` holds the debounced matrix and what the six algorithms keep: counters (per key or,
as units of column 0, per row), the time since the last update, and two flags. A step is
one `matrix_task`: up to `MAX_STALL` ms pass, the contacts are in any position,
`debounce` runs, and the rows without a ghost are reported. `Wired` is the hardware: in
a matrix without diodes a fourth key reads as closed when three in a rectangle are. The
history `still`, `quiet` and `hurried` measures how long a key has been read unchanged
and how soon it changed again.

### Combo

`static` is the file's static state: which keys of each combo are down, active and
disabled combos, the key buffer and the ring of prepared combos, the timer. `process_combo`
is three operators, for a press, a release and the switch keycodes. `keys_down` and
`combos_down` are what the rest of the firmware was sent. `ticks` and `fired` are what
`apply_combo` has made of buffered records; both are empty between steps.

### TapDance

On the keyboard of `Action`: a press goes through `preprocess_tap_dance`, the lookup, and
`process_record_handler`, which looks the key up again, because a dance that was
interrupted may have changed the layers. Callbacks are those of the macros
`ACTION_TAP_DANCE_DOUBLE`, `_LAYER_MOVE`, `_LAYER_TOGGLE` and `_FN`. The time since
the last tap is kept, `tap_dance_task` may be late. `owed`, `sent` and `recent` are history.

### OneShot

A step is a key record as the tapping machine delivers it, a press with its tap count.
Every report is modelled, because a report is what uses up a one-shot modifier; `host`
is the modifiers in the last one. Of time only this is kept: which of the timers (`mods`, `layer`,
`lock`) have run out, since the code asks nothing else of them. `armed`, `typed` and
`locked_with` are history.

### DeferredExec and Timers

The table, the token counter, and the task's position in the table. A callback is a
period in which `pc = "callback"`: in it, time may pass and every operation of the API may be called,
as between two runs of the task. `defer_exec_elsewhere` is other tables that take tokens from the
same counter. `Timers` has handles that are never confused and time that never wraps: an
executor runs only when it is due, repeats from when it *was* due, and does not run after
it has been cancelled. The refinement maps the wrapped trigger times to signed
distances from now.

### WearLeveling and Eeprom

The backing store is three variables (`con`, `sum`, `log`), and every call that
changes it is one action; `pc` says which comes next, `caller` on whose behalf. So
`wear_leveling_write` is: unlock and update the cache, one `append_raw` per word,
perhaps a consolidation (erase, unlock, data, checksum), lock. `PowerLoss` may
follow each of them, and takes everything that is not in the backing store. An
erase that is cut short has erased nothing, everything, or the data and the first
`SECTOR` words of the log. Each call in `Failing` may return false, for any word of an
entry, and then the code's error path is taken, including those that ignore it.

A log word is its two bytes, put together and taken apart with the widths of
`wear_leveling_internal.h` (`MULTIBYTE`, `OPTIMIZED_64`, `WORD_01`; `Type`, `Length`,
`EntryAddress`, `EntryBytes`), so playback takes for an entry whatever words it meets: the data of a
half-written one, or, with a length of 6 or 7, which only such words have, the bytes of the
stack behind the `write_log_entry_t` (`Stray`). The checksum is the data it was computed from.
`write_raw` and `Play` are recursive functions: the encoder with its greedy choice of entry
types, and the playback entry by entry with the early exits of the code.

Two history variables say where the code's promise ends. `impaired`: since power-up an operation has
returned failure, or the checksum was not read. `astray`: a failed call has left
`write_address` elsewhere than where playback of the log ends, and the log has not
been erased since. It outlives a power loss, because what is in flash does.

`Eeprom` is the promise in one page: a byte array whose writes are visible at
once and survive a power loss between operations; one in the middle of a write
leaves a first part of it written; only while everything is rewritten or erased may
bytes become zero. `ImplementsEeprom` is the refinement: `mem` is the cache, or with
power off what start-up will restore.

## The runs

Nine runs pass, three show a disagreement (next section). All are exhaustive.
Deadlock is checked in each: the main loop never stops.

| Run | Distinct states | Asks |
|---|---|---|
| `epd` | 6,242 | the whole driver, three images in `img_list` |
| `debounce` | 30,722 | every algorithm on two or three keys, ghosts on four |
| `combo` | 23,129 | seven sets of combos: overlapping, disjoint, tap-only, hold-only, ordered, strict timer, short ring |
| `tapping` | 241,603 | three builds: the default mode with a layer-tap, a mod-tap and a plain key; `PERMISSIVE_HOLD` with a layer-tap and two plain keys; `HOLD_ON_OTHER_KEY_PRESS` with a layer-tap, a momentary layer and a modifier that is another key on that layer |
| `tapdance` | 128,447 | four dances, one of them only on a layer that another one switches, a plain key, a modifier, a momentary layer key |
| `oneshot` | 358,989 | OSM, OSL, MO, LT, lock key, plain key and modifier; with tap toggle; OS_TOGG with OSM, and with OSL and the lock key |
| `deferred` | 455,136 | three slots, tokens that go round after three, a clock of 8 ms |
| `wl_words` | 121,438 | refinement of `Eeprom`, one-word entries, two power losses |
| `wl_faults` | 244,276 | entries of one to four words, any two faults: power losses or calls failing at any word |

**epd.** `AwakeWhenCommanded`: no command is sent to a sleeping panel, so that
`epd_send_command` cannot spin for ever there. `BaseBeforePartial`: no partial refresh
happens before a base image was written, although requests overwrite one another
and keys may be pressed while `seq_init` runs. `QuiescentShowsWanted`: with nothing
running or requested the panel shows the image last asked for. `RefreshNotAborted`:
nothing resets a panel that is refreshing. `ImageEventuallyShown` and
`EventuallySleeps` are liveness: an image is shown or superseded, and once the
keys are left alone the panel sleeps for good.

**debounce.** `Deferred`: what an algorithm defers gets through only when it has been read for
`DEBOUNCE` ms, by all keys that share the counter. `Spaced`: two changes of one key are at
least that far apart. `Settles`: once nothing has changed for that time, what was
reported is what is read, with late scans, lock-outs and ghost rows in between; it is a
promise with a deadline and so an invariant. `NoPhantom`: with an algorithm that copies whole matrices, no
key is reported whose switch is open.

**combo.** `PressHandedOn`: a key held down has been handed on, or waits in the buffer,
or belongs to a combo that is down. `NothingStuck`: what is down downstream has a key
whose release will take it up. `UsedOnce`: no press is both typed and part of a combo,
or part of two. `FiresAsConfigured`: hold-only, tap-only and ordered combos fire only as
such. `EventuallyHandedOn`: `combo_task` hands on what nothing else does.

**tapping.** `NoneInBuffer`: between events the buffer is in use only while a
tap key is undecided, or until the next tick, which is what keeps new events
from overtaking buffered ones. `NothingStuck`: with every key up and nothing
pending, no key code, modifier or layer is left on, whatever was reordered,
interrupted or, layers excepted, dropped by an overflow. `TapOrHold`: every tap key is decided by
its own press and release times, or by the option that lets another key decide,
however long its records waited behind another undecided key. `InterruptedNeverTaps`: a branch of
`process_action` that would take a tap back is never needed. `EventuallyDecided`: ticks
alone finish what was begun. `TypeOK` includes the bounds of the buffer and of the tap count.

**tapdance.** `DanceEnds`: a decided dance has a key held down whose release will reset
it, whatever happened to the layers. `NothingStuck`: codes and weak modifiers in the report belong to a
key held or a decided dance. `TapsAnswered`: every tap is answered exactly once.
`SentAsTapped`: one tap is answered as one only after the term or when something else is pressed, two
as two only when they were consecutive presses within the term. A press counts as what the layers make of
its key at that moment: the key of a dance may be something else once a momentary layer is released. `InterrupterComesAfter`: a key that interrupts a dance is
registered after it, on the layer the dance has left. `EventuallyDecided`.

**oneshot.** `NoLayerStuck`, `NothingStuck`: each layer, code and modifier that is on has an
owner: a key held as what its press was, a lock, or the pending one-shot. `UsedOnce`: a one-shot
modifier is in the report of one key only. `LockSurvives`: releasing a key that was
down when a layer was locked does not switch the layer off (`locked_with` has these keys for each layer). `OneShotExpires` is liveness.

**deferred.** `ImplementsTimers` is the refinement of `Timers`. `TokensUnique`: no token
is in the table twice. `NotInSamePass`: what a run of the task queues or extends waits for the
next run. `DueRuns`: what is due is run, although others that fell behind are due again at once.

**wl\_\*.** `ImplementsEeprom`: reads, and what start-up restores, are those of
the abstract byte array. `ReplayMatches`: between operations a power loss would lose nothing.
`WritesInBounds`: no write past the log, although a write, or
one entry, may be longer than the rest of it. `ProgramsErased`: a word is
programmed once between erases. The last three are claimed
until an operation has reported failure or the checksum was not read (`impaired`), since the code promises nothing
afterwards; `ReplayMatches` and `ProgramsErased` also not while the log is `astray`, because then both fail, even
after the next power-up and with no failure since (next section).

`TypeOK` of `Combo`, `TapDance`, `OneShot`, `Debounce` and `WearLeveling` says what the
state looks like and is not among the properties of the runs, but is a theorem.

### Bounds

- *Epd*: `COUNT_IMG_LIST = 3`, so that the wrap of the index differs from a toggle; nothing else is bounded.
- *Debounce*: `DEBOUNCE` = 2 ms, so that a counter can be at its start, half way and over;
  `MAX_STALL` = 3, so that a scan may come after any counter's end. Where counters are per key,
  two keys; where they are per row, two in one row and one in the other; for ghosts, a rectangle.
- *Combo*: four keys in up to three combos and the switch key. The term is 1 ms and the hold
  term 2, the task up to 2 late. The rings are as long as these keymaps need, with one build whose
  ring only just suffices. `CLOCK_ZERO` = FALSE: no key is
  pressed in the one millisecond of 65536 in which `timer_read()` is 0.
- *Tapping*: a term of 3 ms instead of 200, and a scan at least every
  `MAX_SCAN_GAP` = 1 ms; times before, at and after the end of the term all occur. `TIMER_MOD` = 5 instead
  of 2^16: differences up to the term are unambiguous and older records wrap, as in the
  code. `WAITING_BUFFER_SIZE` = 4 instead of 8, so that three records fill it
  and overflow happens with two tap keys. `MAX_TAP_COUNT` = 2 instead of 15.
- `MAX_SCAN_GAP` < `DEBOUNCE` is an assumption of this run, not of the code: the loop visits the
  drain and the tick at least once between two changes of one key. If the loop
  stalls for as long as the tapping term, a release can overtake its press.
- *TapDance*: a term of 1 ms, the task 1 ms late; `MAX_TAPS` = 3, one more than any dance
  here counts; `MAX_HELD` = 3 keys at a time: a dance, another one, and what interrupts them.
- *OneShot*: `MAX_COUNT` = 2 taps in a row, so that both a toggle and a tap after it happen; two keys
  held at a time. OS_TOGG is pressed with no other key down and no one-shot layer on.
- *DeferredExec*: three slots and three tokens, so that the table may be full and a token
  reused at once; delays and stalls of 1 ms on a clock of 8. `ROUND_TRIP` = FALSE: a callback that has cancelled
  itself is not handed its own token again (256 tokens would have to go round meanwhile).
- *Wear leveling*: in `wl_words` 4 bytes and 4 log slots, so that a write of one-word entries fills the log
  half way. In `wl_faults` and `wl_torn` 70 bytes, so that addresses from 64 on need entries of several words, and 7 slots:
  an entry has at most four words, so an entry of each length can start, and be torn, in front of the
  end of the log and behind another one. The limits 64 and 16384 are those of the code. Three byte values tell 0 and 1,
  which have short forms, from the rest, and make the data word 0. `MAX_FAULTS` = 2: the second may hit what the first left.
- `SECTOR`: in `wl_words` (0) an interrupted erase may leave the log; in `wl_faults` it takes the whole log
  or nothing.

## Where the code and its documentation disagree

Each of these runs checks one statement and TLC finds it violated. `PROJECT.json`
quotes the statements.

- `wl_torn`: the first word of a multi-byte entry alone makes it an entry. Power
  lost after it, playback takes the rest as zeros and writes them to the
  start of a 256-byte page.
- `oneshot_host`: a one-shot modifier that was tapped and is then held is reported as
  down by its own release, and nothing reports it up again until some later key event.
- `tapping_three`: a tap key is to be a hold only when it was held for the term. Of three tap keys
  one that is pressed behind a buffered event is a hold at once: it becomes `tapping_key` while
  that earlier event is drained, and the negative time difference wraps.

Others were met while modelling. Those marked with a property can be reproduced by changing the keymap or
bound named; the passing runs stay on the near side of them, and the hazards in `PROJECT.json` say so.

- *Tapping.* An overflow of the waiting buffer clears keys and modifiers but not `layer_state`, and a
  layer-tap's layer can stay on. With `PERMISSIVE_HOLD` and two tap keys, a retained release
  followed by a new press of the same key counts as a key typed (`TapOrHold`). The drain of the
  buffer stops at a record that is not consumed, after an event and after a tick, and the next event
  overtakes what is left: with three tap keys (`NoneInBuffer`), and with a buffer of six or more and
  `QUICK_TAP_TERM` = 0, where a tap key typed twice behind an undecided one can have
  its release overtake its press and stay down (`NothingStuck`).
- *Combo.* A combo that is dropped from the middle of the ring is only marked disabled, and the mark does not last
  (`clear_combos`). It stays in the ring and is applied to an incomplete chord: with a hold-only combo that is disjoint
  from another one, with two combos on the same two keys and a third one apart from them, or with
  ab, cd and cde (`PressHandedOn`). With three combos the stale entries add up, and however long the ring is it runs
  over (`NothingStuck`, `UsedOnce`). A combo of one key is not always released (`NothingStuck`). As many prepared combos as the ring is long make it
  look empty (`NothingStuck`); a key pressed with the key buffer full is lost (`PressHandedOn`);
  a key pressed in the millisecond 0 is held back without a timer (`EventuallyHandedOn`, `CLOCK_ZERO` = TRUE).
- *TapDance.* A LAYER_MOVE dance on a key that is not transparent on its target layer types that layer's key with
  the same tap and is never reset (`DanceEnds`). The same dance on two keys leaves a code down
  (`NothingStuck`). A dance that calls `reset_tap_dance` from `on_each_tap` is made active again
  right afterwards (not modelled).
- *OneShot.* With one-shot keys switched off an OSL key is a layer key that layer lock does not know: its release
  switches the layer off that was locked meanwhile (`LockSurvives` excepts it). A second OSL key pressed while the first is held leaves the first one's layer on, as does
  OS_TOGG with a one-shot layer on (`NoLayerStuck`). With two keys held and one released, a pending
  modifier is used up by that release.
- *DeferredExec.* With `ROUND_TRIP` = TRUE the executor of a callback that cancelled itself and queued anew can be freed when it
  returns (`ImplementsTimers`).
- *Debounce.* With counters per key and no diodes a fourth key of a rectangle can be reported (`NoPhantom`
  without its restriction). `DEBOUNCE` 0 is said to disable debouncing; `sym_defer_pr` then
  reports no key at all (`Settles`, `DEBOUNCE` = 0).
- *Wear leveling.* An erase of several sectors cut short leaves old entries behind
  erased slots, which come back later (`ProgramsErased` and `ReplayMatches`, `SECTOR` = 2). When a later word of an entry
  fails to be written, the next write appends behind half an entry, and after a power loss playback
  is out of step: it restores other data and may take a zero word inside an entry for the end of the log, whose next
  slot is used. After a failed
  initialisation or erase, writes go on from slot 0 of a log that is not erased, and the next start-up
  replays old entries behind them. A failed word or erase and the power loss are two faults, and TLC finds this in
  the instance of `wl_faults` (`ReplayMatches` and `ProgramsErased` without `~astray`); a failed
  initialisation needs a power loss before it as well. A
  multi-byte entry in the last slot is read past the end of the log; a failed write, repeated,
  returns success with nothing stored; a failed erase leaves the write address at
  the end of the log; a checksum that cannot be read counts as a mismatch without a
  word to the caller; start-up erases a store that it has not unlocked.

## Fairness

- *Epd*: weak fairness of `epd_task` (the main loop calls it for ever), of the
  two timers (time passes) and of `PanelDone` (the panel finishes a job unless
  held in reset). No fairness of the keys: nobody has to press or release one.
- *Tapping*: weak fairness of a tick that takes at least one millisecond and of
  `Drain`. The loop in `action_tapping_process` always runs to its end, and
  `generate_tick_event` sends a tick in every scan without a change, once per
  millisecond. If keys kept changing for ever no tick would be due; the
  property is about leaving the keys alone.
- *Combo*, *TapDance*: weak fairness of the clock and of `combo_task` or
  `tap_dance_task`, which `keyboard_task` calls in every iteration.
- *OneShot*: weak fairness of each timer's end and of a tick event.
- *DeferredExec*: weak fairness of the clock, of the task's steps, and of the return
  of a callback: one that does not return stops the firmware.
- *Debounce* and *WearLeveling* claim no liveness. `Settles` is a deadline, and all
  loops of wear leveling are bounded.

## The proofs

**EpdProofs** proves, for every `COUNT_IMG_LIST` > 0: `TypeCorrect`,
`CommandsReachAwakePanel`, `NoImageLost`, `PartialNeedsBase` and
`RefreshesComplete`, the safety properties that the run `epd` checks, and three more:
`ResetSequenceSound` (the branch "hw reset sequence error." is dead),
`ImagesAreReal` (no image is sent from a NULL pointer) and
`RequestsSurviveIdleTimer` (the idle timer overwrites no request). None of these properties is
inductive: whether a command may go out depends on where in which sequence the
driver stands. `IInv` says so position by position: which sequences may be
requested when (`RequestInv`), where the panel can be asleep and what the reset phase then
is (`AsleepInv`), where the phase can be `OUTSET` (`OutsetInv`), which jobs the
panel can be at (`PanelInv`), and how far the image last asked for has come (`ShownInv`).
`Memory` reduces an element name to addresses, `IInvStep` has one case per
action, and each theorem is `Invariance` and a look at the positions.

**TappingProofs** proves, for every keymap, term, buffer size, timer width,
and option: `TypeCorrect` (in particular the buffer stays
below its capacity and tap counts stay in their field) and
`CancelTapUnreachable`. For the second, the type invariant is too weak: a buffered press becomes
`tapping_key` later, so `IInv` says what kind of record may wait in the buffer
(`FreshRecords`), be tapped (`TapKeys`) or be handed on (`HandedOn`).
`ReturnKeepsInv` treats the two callers once for all branches, `TappingKeepsInv`
has one case per branch, `StartTappingKeepsInv` the scan of the buffer.

**DeferredExecProofs** proves, for every table size, token width, clock width, delay and stall (as long as
delays and stalls fit into half the clock), under `~ROUND_TRIP`: `TypeCorrect`, `Unique`
(`TokensUnique`), `PutOff` (`NotInSamePass`) and `Implements`, the refinement of `Timers`.
`IInv` adds to the types that times are less than half the clock apart, so that a signed
difference means what it says (`TimesInv`); which executor the running callback belongs to, or that
its token is gone (`CallbackInv`); that what was put off lies behind the task or in the
future (`FreshInv`); and how late or early the running executor can be (`OwnInv`).
`DiffAdds` and its like are the arithmetic of wrapping differences; then there is one lemma per operation for
the invariant and one (`...Simulates`) for the step of `Timers` it maps to.

**DebounceProofs** proves, for every matrix, every `DEBOUNCE`, any switches and bouncing, and scans late by
any amount: `TypeCorrect`, `ChangesSpaced` (`Spaced`), `ChangesDeferred` (`Deferred`),
`PhantomsHeldBack` (`NoPhantom`, for a matrix with finitely many columns), and, if `DEBOUNCE` is not 0,
`ChangesSettle` (`Settles`). With 0 it is false for `sym_defer_pr`. The properties speak of the time a key has been quiet or still, the code of counters;
`IInv` converts one into the other. From below (`SpacedInv`, `DeferredInv`): what a counter has run down, less
the time not yet charged to it (`last_time`), is time the key did not change, so a counter that
ends has waited long enough. From above (`LateInv`): while a key is not as it is read a counter runs for it, and the
key has been still for no longer than that counter accounts for, so none waits
forever; `PromptInv` adds that a scan leaves no time uncharged. `FlagsInv` says that counters that run are brought up to date.
There is one lemma per algorithm (`NoneSound` to `AsymSound`), each from the state before
the scan (`Ready`, reached by `Passing`) to the state after it (`Sound`); `StepInv` puts them together.
For the phantoms, `PhantomIsGhost` shows that such a key shares two columns with another row, and is held back.

**ComboProofs** proves, for every keymap, any number of combos, both terms, every length of the two buffers, a task late
by any amount, and either value of `CLOCK_ZERO`: `TypeCorrect` whatever the keymap, and under three hypotheses that
the firmware does not check `StuckNever` (`NothingStuck`), `UsedOnceOnly` (`UsedOnce`) and `FiresRight`
(`FiresAsConfigured`). `ChordsOnly`: a combo has two keys or more, and they differ. `RingSuffices`: the ring is longer
than the number of combos that are disjoint from one another. `Grouped`: a combo that overlaps with one of two
disjoint combos overlaps with the other one too, and a hold-only combo with all. Then the combos that are dropped
from the ring are always the first ones in it, and none stays behind; the section above
says what happens otherwise. `NoPressLost` (`PressHandedOn`) also needs `BufferSuffices`, a key buffer as long as all keys of
combos together. A key event scans the combos one after the other and mostly flushes the buffer at the
end, and in between a press is not yet in the buffer and a release already gone from some combos. `Within` is therefore
stated of any state within an event, with the keys that count as held and the presses held back; `IInv` is `Within`
between events. It says where a key that is down may be known (`KeysInv`), what belongs to the combos that are
down (`ActiveInv`), that the ring holds combos that are complete, enabled and pairwise disjoint (`RingLive`) and misses
none that could fire (`Prepared`), that a combo that asks for an order has seen its keys in that order (`OrderInv`), that what a
combo that is not down has seen is held back (`FreshInv`), and where each press has gone (`HandedOn`). `PressScan` carries it through
the scan of a press, combo by combo; `UpTo` is its form in the middle of the scan of a release, where a combo may fire
at the combo's turn, and what was down has to be taken up before the key is.

**TapDanceProofs** proves, for every number of dances, keymap, term, number of keys held and taps in a row,
and a task late by any amount: `TypeCorrect`, `EveryDanceEnds` (`DanceEnds`), `NothingLeftStuck`
(`NothingStuck`), `EveryTapAnswered` (`TapsAnswered`) and `AnsweredAsTapped` (`SentAsTapped`), under two hypotheses on the keymap that the
firmware does not check: a dance is on one key (`OneKeyEach`), and a LAYER_MOVE dance is
transparent, or itself, where it moves to (`MoveStays`); the section above says what happens otherwise.
The properties are about the moments between events. One key event runs
through several functions, so the invariant is `Between`, stated for any state within an event and
with the code the event owes; `IInv` is `Between` with nothing owed. It ties
every code and weak modifier to the held key or the finished dance it came from. For the last two properties, which
are about steps, it has `RecentInv`: the active dance is that of the key pressed last, the time since is
the time the dance has waited, and a second tap followed the first at once.

`InterrupterIsLast` (`InterrupterComesAfter`) has a third hypothesis, `LayerKeysStay`: the key of a momentary layer is
neither a code nor a dance on that layer, since looked up again after its press it would be one. `QuantumIs` says what the
lookup, the interrupted dance and the second lookup leave behind.

**OneShotProofs** proves, for every keymap, any keys held together, and timeouts at any moment: `TypeCorrect`,
`NothingIsStuck` (`NothingStuck`), `OneshotsUsedOnce` (`UsedOnce`) and, if OSL keys switch on one
layer only (`OneOneshotLayer`: `oneshot_layer_data` holds one), `NoLayerIsStuck` (`NoLayerStuck`).
`LocksSurvive` is `LockSurvives` for every keymap, of any number of layers: a layer that has been locked is not the one-shot
layer (part of `OneshotInv`), so no use or timeout of that ends it, and `LetsPass` says that the release of a
layer key goes on only if its layer is not locked.
Its invariant is about owners: each code, modifier and layer is owned by a held key, as the action
it was pressed as, or by a lock, or by the one-shot layer. A press handled counts its key as held from the
start, a release until it has been freed (`Freed`); releases that the firmware adds on its own, of
a one-shot layer for instance, are the hard cases, since they end a layer in the middle of another key's event.

**WearLevelingProofs** proves, for every size of the data and the log, every set of writes, all limits of the
entry forms, and any number of faults, which may be power losses or any call failing at any word: `TypeCorrect` and
`EveryWordInBounds` (`WritesInBounds`) without a hypothesis, and `NothingLost` (`ReplayMatches`) and
`OnlyErasedProgrammed` (`ProgramsErased`) under `WholeErases`: an erase that is cut short or fails has
erased nothing or everything of the log. What `ReplayMatches` and `ProgramsErased` except, a log that a failed call has put out of
step, is in the properties themselves (`astray`), and the section above says what happens then. The proof is about what playback makes of a log. `PlayExists` and `PlayUnfold` turn the recursive
`Play` into its equations, and `PlaybackReached` makes playback a fact about *reaching* a slot with some data,
which depends only on the log before it (`ReachedAgree`). A torn entry takes the words behind it for its own, so which
slots begin an entry is itself a fact about playback (`Visits`). Then
`EncodesWrite` says that the words of a write, wherever playback comes to the first of them, lead behind the last
with that write made and nothing else, whichever of the
four entry forms the greedy encoder took. The invariant is `Shape` (types, control and addresses) and `Sound`: unless the log is astray, from the write
address on it is erased, playback comes to that address, and unless an operation failed it comes there with
the cache; within a write this holds of the log as it will be (`Image`), whose words `AppendSound` puts there one by one. `AppendFailsSound` is the case of a word that is not written: either
playback of what is there ends at the write address all the same, or the step makes the log astray.

`Implements` is the refinement of `Eeprom`, under two hypotheses more: no backing store call fails (`PlainStore`)
and every entry is one word (`OneWordEntries`), which `wl_words` satisfies; a torn entry of several words breaks the
promise, as `wl_torn` shows. The invariant it adds, `RestoreInv`, says what start-up would restore at each point: within a
write the bytes of a first part of it (`WriteInv`), during an erase each byte the old, the new or zero. For an erase that left
the log, `PlaybackOnBlank` compares playback onto the data with playback onto zeros.

The only other assumptions are the named ones on the constants: `CountAssumption`,
`ActionAssumption`, `TappingAssumption`, `DeferredExecAssumption`, `DebounceAssumption`, `ComboAssumption`, `TapDanceAssumption`,
`OneShotAssumption` and `WearLevelingAssumption`. The MC modules of combos, tap dance and one-shot keys assume the hypotheses of
their theorems, so TLC evaluates them on the keymaps of the runs; the three runs of wear leveling satisfy `WholeErases`.

Only model-checked are:

- the liveness properties, which are beyond the prover;
- `NothingStuck`, `TapOrHold` and `NoneInBuffer` of tapping. They hold within the bounds of the run and are false beyond them (the
  section above), so there is no theorem to prove.

Recursive functions over data are proved about by `SetInduction` of `WearLevelingProofs`: induction with a set in the place of a
predicate, from the least element of a set of naturals.

## What is not modelled

- Tapping: per-key option callbacks, `RETRO_SHIFT`, `RETRO_TAPPING`, swap hands.
- Combos: `COMBO_NO_TIMER`, per-combo terms, reference layers and the user hooks. The
  handlers are not composed with one another: `Combo` ends where `Tapping` begins, and
  `TapDance` and `OneShot` take records with the tap counts `Tapping` may give.
- Tap dance: user callbacks other than those of the macros, per-key terms.
- One-shot keys: swap hands, `SEMI_STRICT_LAYER_RELEASE`; TT and LM keys with layer lock.
- Actions: macros, mouse and consumer
  usages; the order of keys in the report (registered keys are a set).
- Debouncing: the halves of a split keyboard, and contacts that move while the rows are being read.
- Wear leveling: backing stores with 4- and 8-byte words, and collisions of the checksum.
- The other key handlers (auto shift, key overrides, caps word, leader, repeat key, dynamic macros,
  secure, tri layer), the split link, settings and dynamic keymaps: filters and layouts of their own, none of which danopad01 uses.
- Drivers, USB, Bluetooth, lighting, audio and displays: hardware access and
  arithmetic with little control state. Flash and the panel are external and
  modelled by how the code uses them.
- All other keyboards, the build system and the tests. They are by far the most of the
  repository's lines: data, keymaps and board-specific drivers.

`PROJECT.json` lists every component with its files and reason.

## The plan

What is left, in order of importance:

1. **Settings on Eeprom** (`dynamic_keymap.c`, `eeconfig.c`): bounds and
   the order of the magic number and the data, composed with `Eeprom`.
2. **Split** (`split_common`): a lossy link with retries, checksums and the
   disconnection throttle. **Secure** (`secure.c`): timeouts of the unlock sequence.
3. **Composition** of `Combo` with `Tapping`: combos fire and dump their buffer into
   `action_tapping_process`, with the times of the original events.
