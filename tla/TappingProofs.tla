---------------------------- MODULE TappingProofs ----------------------------
(***************************************************************************)
(* Proofs about the tap-or-hold state machine, for every keyboard, keymap, *)
(* term, buffer size and option.                                           *)
(*                                                                         *)
(* The invariant IInv says what kind of record may be where.  A press that *)
(* waits in the buffer is as fresh as it came from the matrix; with        *)
(* HOLD_ON_OTHER_KEY_PRESS no interrupted press is being tapped, nor was   *)
(* one handed on as a tap.  The type invariant alone is not inductive for  *)
(* the second fact: a buffered press becomes tapping_key, so what waits in *)
(* the buffer matters.                                                     *)
(***************************************************************************)
EXTENDS Tapping, SequenceTheorems, WellFoundedInduction, TLAPS

\* A nonempty set of naturals has a least element.
LEMMA LeastElement ==
  ASSUME NEW S \in SUBSET Nat, S # {}
  PROVE  \E x \in S : \A y \in S : x <= y
<1>1. IsWellFoundedOn(OpToRel(<, Nat), Nat)
  BY NatLessThanWellFounded
<1>2. \E x \in S : \A y \in S : ~(<<y, x>> \in OpToRel(<, Nat))
  BY <1>1, WFMin
<1>3. PICK x \in S : \A y \in S : ~(<<y, x>> \in OpToRel(<, Nat))
  BY <1>2
<1>4. ASSUME NEW y \in S
      PROVE  x <= y
  <2>1. ~(y < x)
    BY <1>3 DEF OpToRel
  <2> QED
    BY <2>1
<1> QED
  BY <1>3, <1>4

\* A nonempty set of layers has a topmost one, which layer_switch_get_layer finds.
LEMMA GreatestLayer ==
  ASSUME NEW S \in SUBSET Layers, S # {}
  PROVE  \E x \in S : \A y \in S : y <= x
<1> DEFINE T == {n \in Nat : MAX_LAYER - n \in S}
<1>0. MAX_LAYER \in Nat
  BY ActionAssumption
<1>1. T # {}
  <2>1. PICK l \in S : TRUE
    OBVIOUS
  <2>2. l \in Int /\ MAX_LAYER - l \in Nat /\ MAX_LAYER - (MAX_LAYER - l) = l
    BY <2>1, <1>0 DEF Layers
  <2> QED
    BY <2>1, <2>2
<1>2. PICK n \in T : \A y \in T : n <= y
  BY <1>1, LeastElement
<1>3. MAX_LAYER - n \in S
  BY <1>2
<1>4. ASSUME NEW y \in S
      PROVE  y <= MAX_LAYER - n
  <2>1. y \in Int /\ MAX_LAYER - y \in Nat /\ MAX_LAYER - (MAX_LAYER - y) = y
    BY <1>0 DEF Layers
  <2>2. n <= MAX_LAYER - y
    BY <2>1, <1>2
  <2> QED
    BY <2>1, <2>2, <1>0, <1>2
<1> QED
  BY <1>3, <1>4

\* layer_switch_get_layer returns a layer.
LEMMA LookupType ==
  ASSUME NEW k \in KeyboardStates, NEW key \in Keys
  PROVE  layer_switch_get_layer(k, key) \in Layers
<1> DEFINE on == {l \in k.layers \cup {0} : keymap[l][key].kind # "TRANSPARENT"}
<1>1. on \subseteq Layers /\ 0 \in Layers
  BY ActionAssumption DEF KeyboardStates, Layers
<1>2. CASE on = {}
  BY <1>1, <1>2 DEF layer_switch_get_layer
<1>3. CASE on # {}
  <2>1. \E l \in on : \A n \in on : n <= l
    BY <1>1, <1>3, GreatestLayer
  <2>2. (CHOOSE l \in on : \A n \in on : n <= l) \in on
    BY <2>1
  <2> QED
    BY <1>1, <1>3, <2>2 DEF layer_switch_get_layer
<1> QED
  BY <1>2, <1>3

\* process_record keeps the keyboard's output state well formed.
LEMMA ProcessRecordType ==
  ASSUME NEW k \in KeyboardStates, NEW r \in Records
  PROVE  process_record(k, r) \in KeyboardStates
<1> DEFINE layer == store_or_get_layer(k, r.pressed, r.key)
           a     == keymap[layer][r.key]
<1>1. r.key \in Keys /\ r.pressed \in BOOLEAN
  BY DEF Records
<1>2. layer \in Layers
  BY <1>1, LookupType DEF store_or_get_layer, KeyboardStates
<1>3. a.code \in Codes /\ a.mod \in Mods /\ a.layer \in Layers
  BY <1>1, <1>2, ActionAssumption DEF Actions
<1>4. Switch(k.keys, a.code, r.pressed) \in SUBSET Codes
  BY <1>1, <1>3 DEF Switch, KeyboardStates
<1>5. Switch(k.mods, a.mod, r.pressed) \in SUBSET Mods
  BY <1>1, <1>3 DEF Switch, KeyboardStates
<1>6. Switch(k.layers, a.layer, r.pressed) \in SUBSET Layers
  BY <1>1, <1>3 DEF Switch, KeyboardStates
<1>7. [k.cache EXCEPT ![r.key] = layer] \in [Keys -> Layers]
  BY <1>1, <1>2 DEF KeyboardStates
<1> HIDE DEF layer, a
<1>8. process_action(k, a, r.key, layer, r.pressed, r.count) \in KeyboardStates
  BY <1>4, <1>5, <1>6, <1>7 DEF process_action, KeyboardStates
<1> QED
  BY <1>8 DEF process_record, layer, a

\* So do the records one process_tapping call hands on.
LEMMA ProcessAllType ==
  ASSUME NEW k \in KeyboardStates, NEW out \in Seq(Records)
  PROVE  ProcessAll(k, out) \in KeyboardStates
<1>1. CASE out = <<>>
  BY <1>1 DEF ProcessAll
<1>2. CASE out # <<>> /\ Len(out) = 1
  <2>1. out[1] \in Records
    BY <1>2
  <2> QED
    BY <1>2, <2>1, ProcessRecordType DEF ProcessAll
<1>3. CASE out # <<>> /\ Len(out) # 1
  <2>1. out[1] \in Records /\ out[2] \in Records
    <3>1. Len(out) \in Nat /\ Len(out) # 0
      BY <1>3, EmptySeq, LenProperties
    <3>2. \A n \in Nat : n # 0 /\ n # 1 => 1 \in 1 .. n /\ 2 \in 1 .. n
      OBVIOUS
    <3>3. 1 \in 1 .. Len(out) /\ 2 \in 1 .. Len(out)
      BY <1>3, <3>1, <3>2
    <3> QED
      BY <3>3, ElementOfSeq
  <2>2. process_record(k, out[1]) \in KeyboardStates
    BY <2>1, ProcessRecordType
  <2>3. process_record(process_record(k, out[1]), out[2]) \in KeyboardStates
    BY <2>1, <2>2, ProcessRecordType
  <2> QED
    BY <1>3, <2>3 DEF ProcessAll
<1> QED
  BY <1>1, <1>2, <1>3

-----------------------------------------------------------------------------
\* What may wait in the buffer: presses as the matrix delivered them, and releases.
FreshRecords == {r \in Records : r.pressed => r.count = 0 /\ ~r.interrupted}

\* What tapping_key may hold.
TapKeys == {r \in Records \cup {NoRecord} :
              HOLD_ON_OTHER_KEY_PRESS /\ r.pressed => ~r.interrupted}

\* What may be handed to process_record.
HandedOn == {r \in Records :
               HOLD_ON_OTHER_KEY_PRESS /\ r.pressed /\ r.count > 0 => ~r.interrupted}

\* The parts of the invariant, one per group of variables.
ClockInv == /\ matrix \subseteq Keys
            /\ stable \in [Keys -> 0 .. DEBOUNCE]
            /\ now \in 0 .. TIMER_MOD - 1
            /\ ticked \in BOOLEAN

BufferInv == /\ waiting_buffer \in Seq(FreshRecords)
             /\ Len(waiting_buffer) < WAITING_BUFFER_SIZE
             /\ pc \in {"scan", "drain"}
             /\ pc = "drain" => waiting_buffer # <<>>

MachineInv == /\ build \in Builds
              /\ tapping_key \in TapKeys
              /\ processed \in Seq(HandedOn)
              /\ kb \in KeyboardStates
              /\ overflowed \in BOOLEAN

IInv == ClockInv /\ BufferInv /\ MachineInv

\* The two callers of process_tapping preserve the invariant, whatever the branch
\* they were called from returned, provided its results are of the right kind.
LEMMA ReturnKeepsInv ==
  ASSUME BufferInv, MachineInv,
         NEW ok \in BOOLEAN, NEW r, NEW tk \in TapKeys, NEW out \in Seq(HandedOn),
         NEW buf \in Seq(FreshRecords), Len(buf) < WAITING_BUFFER_SIZE,
         pc = "drain" => buf # <<>>,
         ok \/ r \in FreshRecords \/ (pc = "scan" /\ IS_NOEVENT(r)),
         ReturnWith(ok, r, tk, out, buf)
  PROVE  BufferInv' /\ MachineInv'
<1>0. TapKeys' = TapKeys /\ HandedOn' = HandedOn /\ build' \in Builds
  BY DEF ReturnWith, MachineInv, TapKeys, HandedOn, HOLD_ON_OTHER_KEY_PRESS
<1>1. processed' \in Seq(HandedOn)
  BY DEF ReturnWith
<1>2. out \in Seq(Records)
  BY SeqMonotonic DEF HandedOn
<1>3. ProcessAll(kb, out) \in KeyboardStates
  BY <1>2, ProcessAllType DEF MachineInv
<1>4. NoRecord \in TapKeys
  BY DEF TapKeys, NoRecord, Record
<1>5. ASSUME NEW k \in KeyboardStates
      PROVE  clear_keyboard(k) \in KeyboardStates
  BY DEF clear_keyboard, KeyboardStates
<1>6. CASE EventConsumed(ok, r, tk, out, buf)
  <2>1. BufferInv'
    BY <1>6 DEF EventConsumed, BufferInv, LoopOn
  <2>2. MachineInv'
    BY <1>0, <1>1, <1>3, <1>6 DEF EventConsumed, MachineInv
  <2> QED
    BY <2>1, <2>2
<1>7. CASE waiting_buffer_enq(ok, r, tk, out, buf)
  <2>1. r \in FreshRecords
    BY <1>7 DEF waiting_buffer_enq
  <2>2. /\ Append(buf, r) \in Seq(FreshRecords)
        /\ Append(buf, r) # <<>>
        /\ Len(Append(buf, r)) = Len(buf) + 1
    BY <2>1, AppendProperties
  <2>3. BufferInv'
    BY <1>7, <2>2 DEF waiting_buffer_enq, BufferInv
  <2>4. MachineInv'
    BY <1>0, <1>1, <1>3, <1>7 DEF waiting_buffer_enq, MachineInv
  <2> QED
    BY <2>3, <2>4
<1>8. CASE Overflow(ok, r, tk, out, buf)
  <2>1. BufferInv'
    BY <1>8, TappingAssumption DEF Overflow, BufferInv
  <2>2. kb' \in KeyboardStates
    BY <1>3, <1>5, <1>8 DEF Overflow
  <2>3. MachineInv'
    BY <1>0, <1>1, <1>4, <1>8, <2>2, Zenon DEF Overflow, MachineInv
  <2> QED
    BY <2>1, <2>3
<1>9. CASE DrainNext(ok, r, tk, out, buf)
  <2>1. buf # <<>>
    BY <1>9 DEF DrainNext
  <2>2. Tail(buf) \in Seq(FreshRecords) /\ Len(Tail(buf)) = Len(buf) - 1
    BY <2>1, HeadTailProperties
  <2>3. Len(Tail(buf)) < WAITING_BUFFER_SIZE
    BY <2>2, LenProperties, TappingAssumption
  <2>4. BufferInv'
    BY <1>9, <2>2, <2>3 DEF DrainNext, BufferInv, LoopOn
  <2>5. MachineInv'
    BY <1>0, <1>1, <1>3, <1>9 DEF DrainNext, MachineInv
  <2> QED
    BY <2>4, <2>5
<1>10. CASE DrainBreak(ok, r, tk, out, buf)
  <2>1. buf # <<>> /\ r \in FreshRecords
    BY <1>10 DEF DrainBreak
  <2>2. Tail(buf) \in Seq(FreshRecords) /\ Len(Tail(buf)) = Len(buf) - 1
    BY <2>1, HeadTailProperties
  <2>3. /\ <<r>> \o Tail(buf) \in Seq(FreshRecords)
        /\ Len(<<r>> \o Tail(buf)) = Len(buf)
    <3>1. <<r>> \in Seq(FreshRecords) /\ Len(<<r>>) = 1
      BY <2>1
    <3>2. Len(buf) \in Nat
      BY LenProperties
    <3> QED
      BY <2>2, <3>1, <3>2, ConcatProperties
  <2>4. BufferInv'
    BY <1>10, <2>3 DEF DrainBreak, BufferInv
  <2>5. MachineInv'
    BY <1>0, <1>1, <1>3, <1>10 DEF DrainBreak, MachineInv
  <2> QED
    BY <2>4, <2>5
<1> QED
  BY <1>6, <1>7, <1>8, <1>9, <1>10 DEF ReturnWith

\* A record put together from well-typed fields is a record.
LEMMA RecordType ==
  ASSUME NEW key \in Keys, NEW p \in BOOLEAN, NEW t \in 0 .. TIMER_MOD - 1,
         NEW n \in 0 .. MAX_TAP_COUNT, NEW i \in BOOLEAN
  PROVE  Record(key, p, t, n, i) \in Records
BY DEF Record, Records

\* A tapping_key that is not empty is a record, and not interrupted while pressed
\* under HOLD_ON_OTHER_KEY_PRESS.
LEMMA TapKeyFields ==
  ASSUME MachineInv, ~IS_NOEVENT(tapping_key)
  PROVE  /\ tapping_key \in Records
         /\ HOLD_ON_OTHER_KEY_PRESS /\ tapping_key.pressed => ~tapping_key.interrupted
BY DEF MachineInv, TapKeys, IS_NOEVENT, NoRecord, Record

\* The first of some buffer positions is one of them.
LEMMA FirstOfType ==
  ASSUME NEW S \in SUBSET Nat, S # {}
  PROVE  FirstOf(S) \in S
<1>1. \E i \in S : \A j \in S : i <= j
  BY LeastElement
<1> QED
  BY <1>1 DEF FirstOf

\* ReturnKeepsInv for the branches that leave the buffer alone.
LEMMA ReturnPlain ==
  ASSUME BufferInv, MachineInv,
         NEW ok \in BOOLEAN, NEW r, NEW tk \in TapKeys, NEW out \in Seq(HandedOn),
         ok \/ r \in FreshRecords \/ (pc = "scan" /\ IS_NOEVENT(r)),
         Return(ok, r, tk, out)
  PROVE  BufferInv' /\ MachineInv'
BY ReturnKeepsInv DEF Return, BufferInv

\* Starting to tap a fresh press preserves the invariant, whether or not
\* waiting_buffer_scan_tap finds its release in the buffer.
LEMMA StartTappingKeepsInv ==
  ASSUME BufferInv, MachineInv, NEW r \in FreshRecords, r.pressed,
         NEW out \in Seq(HandedOn), StartTapping(r, out)
  PROVE  BufferInv' /\ MachineInv'
<1> DEFINE hits == TapReleases(r)
           i    == FirstOf(hits)
           tap  == WithCount(r, 1)
           buf  == [waiting_buffer EXCEPT ![i] = WithCount(waiting_buffer[i], 1)]
<1>0. /\ r \in Records /\ r.key \in Keys /\ r.pressed \in BOOLEAN
      /\ r.time \in 0 .. TIMER_MOD - 1 /\ r.interrupted \in BOOLEAN
      /\ ~r.interrupted /\ 1 \in 0 .. MAX_TAP_COUNT
  BY TappingAssumption DEF FreshRecords, Records
<1>1. r \in TapKeys
  BY <1>0 DEF TapKeys
<1>2. tap \in Records /\ ~tap.interrupted
  BY <1>0, RecordType DEF WithCount, Record
<1>3. tap \in TapKeys /\ tap \in HandedOn
  BY <1>2 DEF TapKeys, HandedOn
<1>4. CASE hits = {}
  <2>1. Return(TRUE, r, r, out)
    BY <1>4 DEF StartTapping
  <2> QED
    BY <1>1, <2>1, ReturnPlain
<1>5. CASE hits # {}
  <2>1. hits \in SUBSET Nat
    BY DEF TapReleases
  <2>2. i \in hits
    BY <1>5, <2>1, FirstOfType
  <2>3. i \in 1 .. Len(waiting_buffer) /\ ~waiting_buffer[i].pressed
    BY <2>2 DEF TapReleases
  <2>4. waiting_buffer[i] \in Records
    BY <2>3, ElementOfSeq DEF BufferInv, FreshRecords
  <2>5. WithCount(waiting_buffer[i], 1) \in FreshRecords
    <3>1. WithCount(waiting_buffer[i], 1) \in Records
      BY <1>0, <2>4, RecordType DEF WithCount, Records
    <3>2. ~WithCount(waiting_buffer[i], 1).pressed
      BY <2>3 DEF WithCount, Record
    <3> QED
      BY <3>1, <3>2 DEF FreshRecords
  <2>6. buf \in Seq(FreshRecords) /\ Len(buf) = Len(waiting_buffer)
    BY <2>3, <2>5, ExceptSeq DEF BufferInv
  <2>7. Len(buf) < WAITING_BUFFER_SIZE
    BY <2>6 DEF BufferInv
  <2>8. pc = "drain" => buf # <<>>
    <3>1. pc = "drain" => Len(waiting_buffer) # 0
      BY EmptySeq DEF BufferInv
    <3> QED
      BY <2>6, <3>1, EmptySeq
  <2>9. Append(out, tap) \in Seq(HandedOn)
    BY <1>3, AppendProperties
  <2>10. ReturnWith(TRUE, r, tap, Append(out, tap), buf)
    BY <1>5 DEF StartTapping
  <2> HIDE DEF buf, tap, i, hits
  <2> QED
    BY <1>3, <2>6, <2>7, <2>8, <2>9, <2>10, ReturnKeepsInv
<1> QED
  BY <1>4, <1>5

\* Every branch of process_tapping preserves the invariant, for a tick and for any
\* fresh record.
LEMMA TappingKeepsInv ==
  ASSUME BufferInv, MachineInv, NEW r,
         r \in FreshRecords \/ (pc = "scan" /\ IS_NOEVENT(r)),
         process_tapping(r)
  PROVE  BufferInv' /\ MachineInv'
<1>1. tapping_key \in TapKeys /\ NoRecord \in TapKeys
  BY DEF MachineInv, TapKeys, NoRecord, Record
<1>2. <<>> \in Seq(HandedOn)
  OBVIOUS
<1>3. ASSUME NEW x \in HandedOn
      PROVE  <<x>> \in Seq(HandedOn)
  OBVIOUS
<1>4. IS_NOEVENT(r) \/ r \in FreshRecords
  OBVIOUS
<1>5. r \in FreshRecords => r \in HandedOn /\ r \in TapKeys /\ r \in Records
  BY DEF FreshRecords, HandedOn, TapKeys
<1>6. ~IS_NOEVENT(tapping_key) =>
        tapping_key \in Records /\ tapping_key \in HandedOn
  BY TapKeyFields DEF HandedOn
<1>7. 1 \in 0 .. MAX_TAP_COUNT
  BY TappingAssumption
<1>8. CASE ResetTick(r)
  BY <1>1, <1>2, <1>8, ReturnPlain DEF ResetTick
<1>9. CASE ResetStart(r)
  BY <1>2, <1>4, <1>9, StartTappingKeepsInv DEF ResetStart
<1>10. CASE ResetOther(r)
  BY <1>1, <1>3, <1>4, <1>5, <1>10, ReturnPlain DEF ResetOther
<1>11. CASE PressedTick(r)
  BY <1>1, <1>2, <1>11, ReturnPlain DEF PressedTick
<1>12. CASE FirstTap(r)
  <2> DEFINE tap == WithCount(tapping_key, 1)
             rel == WithTap(r, tap)
  <2>1. tapping_key \in Records /\ ~r.pressed /\ r \in Records /\ tapping_key.pressed
    BY <1>4, <1>5, <1>6, <1>12 DEF FirstTap, Undecided
  <2>2. tap \in Records
    BY <1>7, <2>1, RecordType DEF WithCount, Records
  <2>3. tap \in TapKeys /\ tap \in HandedOn
    <3>1. tap.pressed = tapping_key.pressed /\ tap.interrupted = tapping_key.interrupted
      BY DEF WithCount, Record
    <3> QED
      BY <2>2, <3>1, <1>12, TapKeyFields DEF TapKeys, HandedOn, FirstTap, Undecided
  <2>4. rel \in Records
    BY <2>1, <2>2, RecordType DEF WithTap, Records
  <2>5. rel \in FreshRecords
    BY <2>1, <2>4 DEF FreshRecords, WithTap, Record
  <2>6. Return(FALSE, rel, tap, <<tap>>)
    BY <1>12 DEF FirstTap
  <2> HIDE DEF tap, rel
  <2> QED
    BY <1>3, <2>3, <2>5, <2>6, ReturnPlain
<1>13. CASE InterferedByTyping(r)
  BY <1>1, <1>3, <1>4, <1>6, <1>13, ReturnPlain DEF InterferedByTyping, Undecided
<1>14. CASE EarlierRelease(r)
  BY <1>1, <1>2, <1>3, <1>4, <1>5, <1>14, ReturnPlain DEF EarlierRelease, Undecided
<1>15. CASE OtherPress(r)
  <2> DEFINE tk == Interrupted(tapping_key)
  <2>1. tapping_key \in Records /\ tapping_key.count = 0 /\ r \in FreshRecords
    BY <1>4, <1>6, <1>15 DEF OtherPress, Undecided
  <2>2. tk \in Records
    BY <2>1, RecordType, ZenonT(60) DEF Interrupted, Records
  <2>3. tk \in HandedOn
    BY <2>1, <2>2 DEF HandedOn, Interrupted, Record
  <2>4. ~HOLD_ON_OTHER_KEY_PRESS => tk \in TapKeys
    BY <2>2 DEF TapKeys
  <2>5. \/ HOLD_ON_OTHER_KEY_PRESS /\ Return(FALSE, r, NoRecord, <<tk>>)
        \/ ~HOLD_ON_OTHER_KEY_PRESS /\ Return(FALSE, r, tk, <<>>)
    BY <1>15 DEF OtherPress
  <2> HIDE DEF tk
  <2> QED
    BY <1>1, <1>2, <1>3, <2>1, <2>3, <2>4, <2>5, ReturnPlain
<1>16. CASE OtherRelease(r)
  BY <1>1, <1>2, <1>4, <1>16, ReturnPlain DEF OtherRelease, Undecided
<1>17. CASE TapRelease(r)
  <2> DEFINE rel == WithTap(r, tapping_key)
  <2>1. tapping_key \in Records /\ r \in Records /\ ~r.pressed
    BY <1>4, <1>5, <1>6, <1>17 DEF TapRelease, Tapped
  <2>2. rel \in Records /\ ~rel.pressed
    <3>1. rel \in Records
      BY <2>1, RecordType DEF WithTap, Records
    <3> QED
      BY <2>1, <3>1 DEF WithTap, Record
  <2>3. rel \in TapKeys /\ rel \in HandedOn
    BY <2>2 DEF TapKeys, HandedOn
  <2>4. PICK tk \in {rel, NoRecord} : Return(TRUE, rel, tk, <<rel>>)
    BY <1>17 DEF TapRelease
  <2> HIDE DEF rel
  <2> QED
    BY <1>1, <1>3, <2>3, <2>4, ReturnPlain
<1>18. CASE StartWhileTapped(r)
  <2> DEFINE rel == Record(tapping_key.key, FALSE, r.time,
                           tapping_key.count, tapping_key.interrupted)
  <2>1. tapping_key \in Records /\ r \in Records /\ r \in FreshRecords /\ r.pressed
    BY <1>4, <1>5, <1>6, <1>18 DEF StartWhileTapped, Tapped
  <2>2. rel \in HandedOn
    <3>1. rel \in Records
      BY <2>1, RecordType DEF Records
    <3> QED
      BY <3>1 DEF HandedOn, Record
  <2>3. PICK out \in {<<rel>>, <<>>} : StartTapping(r, out)
    BY <1>18 DEF StartWhileTapped
  <2> HIDE DEF rel
  <2>4. out \in Seq(HandedOn)
    BY <1>2, <1>3, <2>2, <2>3
  <2> QED
    BY <2>1, <2>3, <2>4, StartTappingKeepsInv
<1>19. CASE EventWhileTapped(r)
  BY <1>1, <1>3, <1>4, <1>5, <1>19, ReturnPlain DEF EventWhileTapped, Tapped
<1>20. CASE Timeout(r)
  BY <1>1, <1>3, <1>6, <1>20, ReturnPlain DEF Timeout
<1>21. CASE ReleasedTick(r)
  BY <1>1, <1>2, <1>21, ReturnPlain DEF ReleasedTick
<1>22. CASE SequentialTap(r)
  <2> DEFINE n   == tapping_key.count
             c   == IF n < MAX_TAP_COUNT THEN n + 1 ELSE n
             tap == WithCount(WithTap(r, tapping_key), c)
  <2>1. /\ tapping_key \in Records /\ r \in Records
        /\ ~tapping_key.interrupted
    BY <1>4, <1>5, <1>6, <1>22 DEF SequentialTap, Released
  <2>2. c \in 0 .. MAX_TAP_COUNT
    BY <2>1, TappingAssumption DEF Records
  <2> HIDE DEF c
  <2>3. tap \in Records
    BY <2>1, <2>2, RecordType DEF WithCount, WithTap, Records, Record
  <2>4. ~tap.interrupted
    BY <2>1 DEF WithCount, WithTap, Record
  <2>5. tap \in TapKeys /\ tap \in HandedOn
    BY <2>3, <2>4 DEF TapKeys, HandedOn
  <2>6. Return(TRUE, tap, tap, <<tap>>)
    BY <1>22 DEF SequentialTap, c
  <2> HIDE DEF tap
  <2> QED
    BY <1>3, <2>5, <2>6, ReturnPlain
<1>23. CASE NewTapOfSameKey(r)
  BY <1>2, <1>4, <1>5, <1>23, ReturnPlain DEF NewTapOfSameKey
<1>24. CASE OtherTapKey(r)
  BY <1>2, <1>4, <1>24, StartTappingKeepsInv DEF OtherTapKey
<1>25. CASE OtherKeyAfterTap(r)
  <2>1. tapping_key \in Records /\ ~tapping_key.pressed
    BY <1>6, <1>25 DEF OtherKeyAfterTap, Released
  <2>2. Interrupted(tapping_key) \in Records /\ ~Interrupted(tapping_key).pressed
    <3>1. Interrupted(tapping_key) \in Records
      BY <2>1, RecordType DEF Interrupted, Records
    <3> QED
      BY <2>1, <3>1 DEF Interrupted, Record
  <2>3. Interrupted(tapping_key) \in TapKeys
    BY <2>2 DEF TapKeys
  <2> QED
    BY <1>3, <1>4, <1>5, <1>25, <2>3, ReturnPlain DEF OtherKeyAfterTap
<1>26. CASE ReleaseAfterTap(r)
  BY <1>1, <1>3, <1>4, <1>5, <1>26, ReturnPlain DEF ReleaseAfterTap
<1>27. CASE ReleasedTimeout(r)
  BY <1>1, <1>2, <1>27, ReturnPlain DEF ReleasedTimeout
<1> QED
  BY <1>8, <1>9, <1>10, <1>11, <1>12, <1>13, <1>14, <1>15, <1>16, <1>17, <1>18,
     <1>19, <1>20, <1>21, <1>22, <1>23, <1>24, <1>25, <1>26, <1>27
  DEF process_tapping

-----------------------------------------------------------------------------
\* The invariant holds when the keyboard starts.
LEMMA InitInv == Init => IInv
<1> SUFFICES ASSUME Init PROVE IInv
  OBVIOUS
<1>1. ClockInv
  <2>1. 0 \in 0 .. TIMER_MOD - 1 /\ DEBOUNCE \in 0 .. DEBOUNCE
    BY TappingAssumption
  <2>2. ticked \in BOOLEAN
    BY Zenon DEF Init
  <2> QED
    BY <2>1, <2>2 DEF Init, ClockInv
<1>2. BufferInv
  BY TappingAssumption DEF Init, BufferInv
<1>3. kb \in KeyboardStates
  <2>1. 0 \in Layers
    BY ActionAssumption DEF Layers
  <2> QED
    BY <2>1 DEF Init, KeyboardInit, KeyboardStates
<1>4. tapping_key \in TapKeys
  BY DEF Init, TapKeys, NoRecord, Record
<1>5. overflowed \in BOOLEAN
  BY Zenon DEF Init
<1>6. MachineInv
  BY <1>3, <1>4, <1>5 DEF Init, MachineInv
<1> QED
  BY <1>1, <1>2, <1>6 DEF IInv

\* The timer wraps to a time.
LEMMA ClockType ==
  ASSUME ClockInv, NEW d \in 0 .. MAX_SCAN_GAP, now' = (now + d) % TIMER_MOD
  PROVE  now' \in 0 .. TIMER_MOD - 1
<1>1. TIMER_MOD \in Nat \ {0} /\ now + d \in Nat
  BY TappingAssumption DEF ClockInv
<1>2. \A a \in Nat, b \in Nat \ {0} : a % b \in 0 .. b - 1
  OBVIOUS
<1> QED
  BY <1>1, <1>2

\* The debouncer's counters stay within DEBOUNCE.
LEMMA AgedType ==
  ASSUME ClockInv, NEW d \in 0 .. MAX_SCAN_GAP, NEW key \in Keys
  PROVE  Aged(key, d) \in 0 .. DEBOUNCE
<1>1. stable[key] \in Nat /\ d \in Nat /\ DEBOUNCE \in Nat
  BY TappingAssumption DEF ClockInv
<1> QED
  BY <1>1 DEF Aged

\* Every step preserves the invariant.
LEMMA NextInv == IInv /\ [Next]_vars => IInv'
<1> SUFFICES ASSUME IInv, [Next]_vars PROVE IInv'
  OBVIOUS
<1>0. ClockInv /\ BufferInv /\ MachineInv
  BY DEF IInv
<1>1. ASSUME NEW key \in Keys, NEW d \in 0 .. MAX_SCAN_GAP, KeyChange(key, d)
      PROVE  IInv'
  <2> DEFINE p == key \notin matrix
             r == Record(key, p, now', 0, FALSE)
  <2>1. now' \in 0 .. TIMER_MOD - 1
    BY <1>0, <1>1, ClockType DEF KeyChange
  <2>2. matrix' \subseteq Keys
    BY <1>0, <1>1 DEF KeyChange, Switch, ClockInv
  <2>3. stable' \in [Keys -> 0 .. DEBOUNCE]
    <3>1. 0 \in 0 .. DEBOUNCE
      BY TappingAssumption
    <3> QED
      BY <1>0, <1>1, <3>1, AgedType DEF KeyChange
  <2>4. ticked' \in BOOLEAN
    BY <1>1, Zenon DEF KeyChange
  <2>5. ClockInv'
    BY <2>1, <2>2, <2>3, <2>4 DEF ClockInv
  <2>6. p \in BOOLEAN
    BY Zenon
  <2>7. process_tapping(r)
    BY <1>1 DEF KeyChange
  <2> HIDE DEF p
  <2>8. r \in FreshRecords
    <3>1. r \in Records
      <4>1. 0 \in 0 .. MAX_TAP_COUNT
        BY TappingAssumption
      <4> QED
        BY <2>1, <2>6, <4>1 DEF Record, Records
    <3> QED
      BY <3>1 DEF FreshRecords, Record
  <2> HIDE DEF r
  <2> QED
    BY <1>0, <2>5, <2>7, <2>8, TappingKeepsInv DEF IInv
<1>2. ASSUME NEW d \in 0 .. MAX_SCAN_GAP, generate_tick_event(d)
      PROVE  IInv'
  <2> DEFINE r == Record(NoKey, FALSE, now', 0, FALSE)
  <2>1. now' \in 0 .. TIMER_MOD - 1
    BY <1>0, <1>2, ClockType DEF generate_tick_event
  <2>2. stable' \in [Keys -> 0 .. DEBOUNCE]
    BY <1>0, <1>2, AgedType DEF generate_tick_event
  <2>3. ticked' \in BOOLEAN
    BY <1>2, Zenon DEF generate_tick_event
  <2>4. ClockInv'
    BY <1>0, <1>2, <2>1, <2>2, <2>3 DEF ClockInv, generate_tick_event
  <2>5. pc = "scan" /\ process_tapping(r)
    BY <1>2 DEF generate_tick_event
  <2>6. IS_NOEVENT(r)
    BY DEF IS_NOEVENT, Record
  <2> HIDE DEF r
  <2> QED
    BY <1>0, <2>4, <2>5, <2>6, TappingKeepsInv DEF IInv
<1>3. CASE Drain
  <2>1. ClockInv'
    BY <1>0, <1>3 DEF ClockInv, Drain
  <2>2. waiting_buffer # <<>>
    BY <1>0, <1>3 DEF Drain, BufferInv
  <2>3. Head(waiting_buffer) \in FreshRecords
    BY <1>0, <2>2, HeadTailProperties DEF BufferInv
  <2>4. process_tapping(Head(waiting_buffer))
    BY <1>3 DEF Drain
  <2> QED
    BY <1>0, <2>1, <2>3, <2>4, TappingKeepsInv DEF IInv
<1>4. CASE UNCHANGED vars
  BY <1>0, <1>4 DEF vars, IInv, ClockInv, BufferInv, MachineInv, TapKeys, HandedOn,
                    HOLD_ON_OTHER_KEY_PRESS
<1> QED
  BY <1>1, <1>2, <1>3, <1>4 DEF Next

\* IInv holds in every reachable state of matrix_task and action_tapping_process.
THEOREM Invariance == Spec => []IInv
<1>1. Init => IInv
  BY InitInv
<1>2. IInv /\ [Next]_vars => IInv'
  BY NextInv
<1> QED
  BY <1>1, <1>2, PTL DEF Spec

\* The type invariant, for every keyboard: in particular the waiting buffer never
\* holds WAITING_BUFFER_SIZE records, so head never runs into tail, and tap.count
\* never exceeds its maximum.
THEOREM TypeCorrect == Spec => []TypeOK
<1>1. IInv => TypeOK
  <2> SUFFICES ASSUME IInv PROVE TypeOK
    OBVIOUS
  <2>1. waiting_buffer \in Seq(Records)
    BY SeqMonotonic DEF IInv, BufferInv, FreshRecords
  <2>2. processed \in Seq(Records)
    BY SeqMonotonic DEF IInv, MachineInv, HandedOn
  <2>3. tapping_key \in Records \cup {NoRecord}
    BY DEF IInv, MachineInv, TapKeys
  <2> QED
    BY <2>1, <2>2, <2>3 DEF IInv, ClockInv, BufferInv, MachineInv, TypeOK
<1> QED
  BY <1>1, Invariance, PTL

\* With HOLD_ON_OTHER_KEY_PRESS no interrupted press is handed on as a tap: the
\* branch of process_action that cancels such a tap is dead code.
THEOREM CancelTapUnreachable == Spec => []InterruptedNeverTaps
<1>1. IInv => InterruptedNeverTaps
  <2> SUFFICES ASSUME IInv, HOLD_ON_OTHER_KEY_PRESS,
                      NEW n \in 1 .. Len(processed),
                      processed[n].pressed, processed[n].count > 0
               PROVE  ~processed[n].interrupted
    BY DEF InterruptedNeverTaps
  <2>1. processed[n] \in HandedOn
    BY ElementOfSeq DEF IInv, MachineInv
  <2> QED
    BY <2>1 DEF HandedOn
<1> QED
  BY <1>1, Invariance, PTL
=============================================================================
