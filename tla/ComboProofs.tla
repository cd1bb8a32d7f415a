----------------------------- MODULE ComboProofs -----------------------------
(***************************************************************************)
(* Proofs about combos, for every keymap, term and buffer length.          *)
(*                                                                         *)
(* A key event scans all combos in turn and then, mostly, flushes what was *)
(* held back.  The invariant is therefore stated for any state m of the    *)
(* file's variables within an event: with H, the keys that count as held;  *)
(* B, the presses that are held back (during a press also the new one); in *)
(* a release also G, the combos that have seen the key go up.  Its parts   *)
(* say where a key that is down may be known (KeysInv), what belongs to    *)
(* the combos that are down (ActiveInv), that the ring holds the complete  *)
(* combos and nothing else (RingLive, Prepared), in which order keys were  *)
(* pressed (OrderInv), and that no press is forgotten (FreshInv,           *)
(* HandedOn).                                                              *)
(*                                                                         *)
(* The hypotheses ChordsOnly, Grouped, RingSuffices and, for PressHandedOn *)
(* alone, BufferSuffices are those of module Combo.                        *)
(***************************************************************************)
EXTENDS Combo, FiniteSetTheorems, SequenceTheorems, WellFoundedInduction, TLAPS

\* What can be known of combos, and how far the timer can run.
Pairs == UNION {{c} \X KeysOf(c) : c \in Combos}

Longest == COMBO_TERM + COMBO_HOLD_TERM + MAX_STALL

\* The values of static, also within an event.
Fields == [state : SUBSET Pairs, active : SUBSET Combos, disabled : SUBSET Combos,
           key_buffer : Seq(Keys), ticks : SUBSET Nat, fired : SUBSET (Nat \X Combos),
           combo_buffer : Seq(Combos), timer : {Off} \cup 0 .. Longest,
           longest_term : {0, COMBO_TERM, COMBO_HOLD_TERM}, b_combo_enable : BOOLEAN,
           is_combo_key : BOOLEAN, keys_down : SUBSET Keys, combos_down : SUBSET Combos]

Statics == {m \in Fields : /\ Len(m.key_buffer) <= COMBO_KEY_BUFFER_LENGTH
                           /\ Len(m.combo_buffer) < COMBO_BUFFER_LENGTH}

-----------------------------------------------------------------------------
(* Facts of arithmetic and about keymaps.                                  *)

\* A set of natural numbers has a least element.
LEMMA LeastElement ==
  ASSUME NEW S \in SUBSET Nat, S # {}
  PROVE  \E x \in S : \A y \in S : x <= y
<1>1. IsWellFoundedOn(OpToRel(<, Nat), Nat)
  BY NatLessThanWellFounded
<1>2. PICK x \in S : \A y \in S : ~(<<y, x>> \in OpToRel(<, Nat))
  BY <1>1, WFMin
<1>3. \A y \in S : ~(y < x)
  BY <1>2 DEF OpToRel
<1> QED
  BY <1>3

\* Induction, with a set in the place of a predicate.
LEMMA SetInduction ==
  ASSUME NEW S, 0 \in S, \A n \in Nat : n \in S => n + 1 \in S
  PROVE  Nat \subseteq S
<1> SUFFICES ASSUME Nat \ S # {} PROVE FALSE
  OBVIOUS
<1>1. PICK n \in Nat \ S : \A m \in Nat \ S : n <= m
  BY LeastElement
<1>2. n # 0 /\ n - 1 \in Nat
  OBVIOUS
<1>3. n - 1 \in S
  BY <1>1, <1>2
<1> QED
  BY <1>3

\* The least and the greatest element of a set of indices.
LEMMA MinIs ==
  ASSUME NEW S \in SUBSET Nat, S # {}
  PROVE  Min(S) \in S /\ \A x \in S : Min(S) <= x
<1>1. \E x \in S : \A y \in S : x <= y
  BY LeastElement
<1> QED
  BY <1>1 DEF Min

\* A non-empty set of natural numbers with a bound has a greatest element.
LEMMA GreatestExists ==
  ASSUME NEW k \in Nat, NEW S \in SUBSET (0 .. k), S # {}
  PROVE  \E x \in S : \A y \in S : y <= x
<1> DEFINE U == {u \in Nat : \A y \in S : y <= u}
<1>1. k \in U
  OBVIOUS
<1>2. PICK u \in U : \A v \in U : u <= v
  BY <1>1, LeastElement
<1>3. u \in S
  <2> SUFFICES ASSUME u \notin S PROVE FALSE
    OBVIOUS
  <2>1. u # 0
    <3>1. PICK x \in S : TRUE
      OBVIOUS
    <3>2. x \in Nat /\ x <= u
      OBVIOUS
    <3>3. u = 0 => x = u
      BY <3>2
    <3> QED
      BY <3>1, <3>3
  <2>2. u - 1 \in U
    BY <2>1
  <2> QED
    BY <2>2, <1>2
<1> QED
  BY <1>3

\* Max is that element.
LEMMA MaxIs ==
  ASSUME NEW k \in Nat, NEW S \in SUBSET (0 .. k), S # {}
  PROVE  Max(S) \in S /\ \A x \in S : x <= Max(S)
<1>1. \E x \in S : \A y \in S : x >= y
  BY GreatestExists
<1> QED
  BY <1>1 DEF Max

\* A build of the firmware.
LEMMA BuildIs ==
  ASSUME build \in Builds
  PROVE  /\ build.combos \in Seq(Seq(Keys \ {SwitchKey}))
         /\ Len(build.combos) \in Nat /\ Combos = 1 .. Len(build.combos)
         /\ \A c \in Combos : /\ build.combos[c] \in Seq(Keys \ {SwitchKey})
                              /\ KeysOf(c) \subseteq Keys \ {SwitchKey}
         /\ build.must_hold \subseteq Combos /\ build.must_tap \subseteq Combos
         /\ build.in_order \subseteq Combos
         /\ COMBO_BUFFER_LENGTH \in Nat /\ COMBO_BUFFER_LENGTH >= 2
<1>1. /\ build.combos \in Seq(Seq(Keys \ {SwitchKey}))
      /\ build.must_hold \cup build.must_tap \cup build.in_order \subseteq DOMAIN build.combos
      /\ build.buffer_length \in Nat \ {0, 1}
  BY ComboAssumption
<1>2. Len(build.combos) \in Nat /\ Combos = 1 .. Len(build.combos)
  BY <1>1 DEF Combos
<1>3. ASSUME NEW c \in Combos
      PROVE  /\ build.combos[c] \in Seq(Keys \ {SwitchKey})
             /\ KeysOf(c) \subseteq Keys \ {SwitchKey}
  <2>1. build.combos[c] \in Seq(Keys \ {SwitchKey})
    BY <1>1, <1>2, ElementOfSeq
  <2>2. \A i \in DOMAIN build.combos[c] : build.combos[c][i] \in Keys \ {SwitchKey}
    BY <2>1
  <2> QED
    BY <2>1, <2>2 DEF KeysOf, Range
<1> QED
  BY <1>1, <1>2, <1>3 DEF Combos, COMBO_BUFFER_LENGTH

\* What the hypotheses say of its keymap.
LEMMA KeymapIs ==
  ASSUME build \in Builds, ChordsOnly, Grouped
  PROVE  /\ \A c \in Combos : /\ IsInjective(build.combos[c])
                              /\ \A key : KeysOf(c) \ {key} # {}
         /\ \A c, d, e \in Combos :
              c # d /\ c # e /\ d # e /\ Overlaps(c, d) => Overlaps(c, e) \/ Overlaps(d, e)
         /\ \A c \in build.must_hold, d \in Combos : Overlaps(c, d)
<1>1. ASSUME NEW c \in Combos
      PROVE  IsInjective(build.combos[c]) /\ \A key : KeysOf(c) \ {key} # {}
  <2>1. IsInjective(build.combos[c]) /\ Len(build.combos[c]) >= 2
    BY DEF ChordsOnly, Combos
  <2>2. build.combos[c] \in Seq(Keys \ {SwitchKey})
    BY BuildIs
  <2>3. 1 \in DOMAIN build.combos[c] /\ 2 \in DOMAIN build.combos[c]
    BY <2>1, <2>2
  <2>4. build.combos[c][1] # build.combos[c][2]
    BY <2>1, <2>3 DEF IsInjective
  <2>5. build.combos[c][1] \in KeysOf(c) /\ build.combos[c][2] \in KeysOf(c)
    BY <2>3 DEF KeysOf, Range
  <2> QED
    BY <2>1, <2>4, <2>5
<1>2. \A c, d \in Combos : Share(build, c, d) = Overlaps(c, d)
  BY DEF Share, Overlaps, KeysOf
<1>3. build.must_hold \subseteq Combos
  BY BuildIs
<1> QED
  BY <1>1, <1>2, <1>3 DEF Grouped, Combos

-----------------------------------------------------------------------------
(* The operators on the variables of the file: what each one changes, and  *)
(* that it leaves them with their types.                                   *)

\* What no operator but those of whole events changes.
SameInput(m, n) ==
  /\ n.timer = m.timer /\ n.b_combo_enable = m.b_combo_enable

\* What making events of the buffer does not change.
SameScan(m, n) ==
  /\ SameInput(m, n)
  /\ n.state = m.state /\ n.longest_term = m.longest_term /\ n.is_combo_key = m.is_combo_key
  /\ n.key_buffer = m.key_buffer
  /\ n.keys_down = m.keys_down /\ n.combos_down = m.combos_down

\* release_combo takes the combo up.
LEMMA ReleaseComboIs ==
  ASSUME NEW m \in Statics, NEW c \in Combos, NEW n, n = release_combo(m, c)
  PROVE  /\ n \in Statics /\ SameInput(m, n)
         /\ n.state = m.state /\ n.active = m.active \ {c} /\ n.disabled = m.disabled
         /\ n.key_buffer = m.key_buffer /\ n.ticks = m.ticks /\ n.fired = m.fired
         /\ n.combo_buffer = m.combo_buffer /\ n.longest_term = m.longest_term
         /\ n.is_combo_key = m.is_combo_key /\ n.keys_down = m.keys_down
         /\ n.combos_down = m.combos_down \ {c}
BY DEF release_combo, Statics, Fields, SameInput

\* clear_combos forgets what is known of combos that are not down.
LEMMA ClearCombosIs ==
  ASSUME NEW m \in Statics, NEW n, n = clear_combos(m)
  PROVE  /\ n \in Statics /\ SameInput(m, n)
         /\ n.state = {p \in m.state : p[1] \in m.active}
         /\ n.active = m.active /\ n.disabled = m.disabled \cap m.active
         /\ n.key_buffer = m.key_buffer /\ n.ticks = m.ticks /\ n.fired = m.fired
         /\ n.combo_buffer = m.combo_buffer /\ n.longest_term = 0
         /\ n.is_combo_key = m.is_combo_key /\ n.keys_down = m.keys_down
         /\ n.combos_down = m.combos_down
BY DEF clear_combos, Statics, Fields, SameInput

\* dump_key_buffer hands on what is neither ticked off nor became a combo.
LEMMA DumpIs ==
  ASSUME NEW m \in Statics, NEW n, n = dump_key_buffer(m)
  PROVE  /\ n \in Statics /\ SameInput(m, n)
         /\ n.state = m.state /\ n.active = m.active /\ n.disabled = m.disabled
         /\ n.key_buffer = <<>> /\ n.ticks = {} /\ n.fired = {}
         /\ n.combo_buffer = m.combo_buffer /\ n.longest_term = m.longest_term
         /\ n.is_combo_key = m.is_combo_key
         /\ n.keys_down = m.keys_down \cup {m.key_buffer[i] : i \in DOMAIN m.key_buffer \
                                                (m.ticks \cup {p[1] : p \in m.fired})}
         /\ n.combos_down = m.combos_down \cup {p[2] : p \in m.fired}
<1> DEFINE typed == {m.key_buffer[i] : i \in DOMAIN m.key_buffer \
                                         (m.ticks \cup {p[1] : p \in m.fired})}
           down  == {p[2] : p \in m.fired}
<1>1. typed \subseteq Keys
  BY DEF Statics, Fields
<1>2. down \subseteq Combos
  BY DEF Statics, Fields
<1>3. n = [m EXCEPT !.key_buffer = <<>>, !.ticks = {}, !.fired = {},
                    !.keys_down = @ \cup typed, !.combos_down = @ \cup down]
  BY DEF dump_key_buffer
<1>4. <<>> \in Seq(Keys) /\ Len(<<>>) <= COMBO_KEY_BUFFER_LENGTH
  BY ComboAssumption
<1> HIDE DEF typed, down
<1>5. /\ n \in Statics /\ SameInput(m, n)
      /\ n.state = m.state /\ n.active = m.active /\ n.disabled = m.disabled
      /\ n.key_buffer = <<>> /\ n.ticks = {} /\ n.fired = {}
      /\ n.combo_buffer = m.combo_buffer /\ n.longest_term = m.longest_term
      /\ n.is_combo_key = m.is_combo_key
      /\ n.keys_down = m.keys_down \cup typed /\ n.combos_down = m.combos_down \cup down
  BY <1>1, <1>2, <1>3, <1>4, ZenonT(40) DEF Statics, Fields, SameInput
<1> QED
  BY <1>5 DEF typed, down

\* drop_combo_from_buffer disables the combo, and takes it out of the ring if it is the first.
LEMMA DropIs ==
  ASSUME build \in Builds, NEW m \in Statics, NEW c \in Combos,
         NEW n, n = drop_combo_from_buffer(m, c)
  PROVE  /\ n \in Statics /\ SameScan(m, n)
         /\ n.active = m.active /\ n.ticks = m.ticks /\ n.fired = m.fired
         /\ n.disabled = m.disabled \cup (IF c \in Range(m.combo_buffer) THEN {c} ELSE {})
         /\ n.combo_buffer = IF c \in Range(m.combo_buffer) /\ Head(m.combo_buffer) = c
                             THEN Tail(m.combo_buffer) ELSE m.combo_buffer
<1>1. m.combo_buffer \in Seq(Combos) /\ Len(m.combo_buffer) \in Nat
  BY DEF Statics, Fields
<1>2. CASE c \notin Range(m.combo_buffer)
  BY <1>2 DEF drop_combo_from_buffer, Statics, Fields, SameScan, SameInput
<1>3. CASE c \in Range(m.combo_buffer)
  <2>1. m.combo_buffer # <<>>
    BY <1>3 DEF Range
  <2> DEFINE ring == IF Head(m.combo_buffer) = c THEN Tail(m.combo_buffer) ELSE m.combo_buffer
  <2>2. ring \in Seq(Combos) /\ Len(ring) < COMBO_BUFFER_LENGTH
    <3>1. Tail(m.combo_buffer) \in Seq(Combos) /\ Len(Tail(m.combo_buffer)) < COMBO_BUFFER_LENGTH
      BY <1>1, <2>1, BuildIs DEF Statics, Fields
    <3> QED
      BY <1>1, <3>1 DEF Statics, Fields
  <2> DEFINE gone == m.disabled \cup {c}
  <2>3. n = [m EXCEPT !.disabled = gone, !.combo_buffer = ring] /\ gone \in SUBSET Combos
    BY <1>3 DEF drop_combo_from_buffer, Statics, Fields
  <2> HIDE DEF ring, gone
  <2>4. /\ n \in Statics /\ SameScan(m, n)
        /\ n.active = m.active /\ n.ticks = m.ticks /\ n.fired = m.fired
        /\ n.disabled = gone /\ n.combo_buffer = ring
    BY <2>2, <2>3 DEF Statics, Fields, SameScan, SameInput
  <2> QED
    BY <1>3, <2>4 DEF ring, gone
<1> QED
  BY <1>2, <1>3

\* The ring counts as empty when it is full.
LEMMA SaveIs ==
  ASSUME build \in Builds, NEW m \in Statics, NEW c \in Combos, NEW n, n = save(m, c)
  PROVE  /\ n \in Statics /\ SameInput(m, n)
         /\ n.state = m.state /\ n.active = m.active /\ n.disabled = m.disabled
         /\ n.key_buffer = m.key_buffer /\ n.ticks = m.ticks /\ n.fired = m.fired
         /\ n.is_combo_key = m.is_combo_key
         /\ n.keys_down = m.keys_down /\ n.combos_down = m.combos_down
         /\ n.combo_buffer = IF Len(m.combo_buffer) + 1 = COMBO_BUFFER_LENGTH THEN <<>>
                             ELSE Append(m.combo_buffer, c)
<1> DEFINE ring == IF Len(m.combo_buffer) + 1 = COMBO_BUFFER_LENGTH THEN <<>>
                   ELSE Append(m.combo_buffer, c)
<1>1. m.combo_buffer \in Seq(Combos) /\ Len(m.combo_buffer) \in Nat /\ COMBO_BUFFER_LENGTH \in Nat
      /\ Len(m.combo_buffer) < COMBO_BUFFER_LENGTH
  BY BuildIs DEF Statics, Fields
<1>2. ring \in Seq(Combos) /\ Len(ring) < COMBO_BUFFER_LENGTH
  <2>1. CASE Len(m.combo_buffer) + 1 = COMBO_BUFFER_LENGTH
    BY <1>1, <2>1
  <2>2. CASE Len(m.combo_buffer) + 1 # COMBO_BUFFER_LENGTH
    BY <1>1, <2>2, AppendProperties
  <2> QED
    BY <2>1, <2>2
<1>3. n = [m EXCEPT !.combo_buffer = ring,
                    !.longest_term = IF c \in build.must_hold \cup build.must_tap /\ @ < COMBO_HOLD_TERM
                                     THEN COMBO_HOLD_TERM ELSE @]
  BY DEF save
<1> HIDE DEF ring
<1>4. /\ n \in Statics /\ SameInput(m, n)
      /\ n.state = m.state /\ n.active = m.active /\ n.disabled = m.disabled
      /\ n.key_buffer = m.key_buffer /\ n.ticks = m.ticks /\ n.fired = m.fired
      /\ n.is_combo_key = m.is_combo_key
      /\ n.keys_down = m.keys_down /\ n.combos_down = m.combos_down
      /\ n.combo_buffer = ring
  BY <1>2, <1>3 DEF Statics, Fields, SameInput
<1> QED
  BY <1>4 DEF ring

\* key_up changes what is known of the key, and whose event it is.
LEMMA KeyUpIs ==
  ASSUME NEW m \in Statics, NEW is \in BOOLEAN, NEW c \in Combos, NEW key,
         NEW n, n = key_up(<<m, is>>, c, key)
  PROVE  /\ n \in Statics /\ SameInput(m, n)
         /\ n.state = m.state \ {<<c, key>>}
         /\ n.active = m.active /\ n.disabled = m.disabled
         /\ n.key_buffer = m.key_buffer /\ n.ticks = m.ticks /\ n.fired = m.fired
         /\ n.combo_buffer = m.combo_buffer /\ n.longest_term = m.longest_term
         /\ n.is_combo_key = (m.is_combo_key \/ is)
         /\ n.keys_down = m.keys_down /\ n.combos_down = m.combos_down
<1>1. n = [m EXCEPT !.state = @ \ {<<c, key>>}, !.is_combo_key = @ \/ is]
  BY DEF key_up
<1>2. (m.is_combo_key \/ is) \in BOOLEAN
  OBVIOUS
<1> QED
  BY <1>1, <1>2, ZenonT(40) DEF Statics, Fields, SameInput


-----------------------------------------------------------------------------
(* apply_combo makes the chord of c in the buffer into c.                  *)

\* The positions of the presses of c; those up to which c is full, the first one of these,
\* what comes before it, and the combos that keep their press.
Chord(m, c) == {i \in DOMAIN m.key_buffer : m.key_buffer[i] \in KeysOf(c)}
Full(m, c)  == {i \in Chord(m, c) :
                  KeysOf(c) = {m.key_buffer[j] : j \in Chord(m, c) \cap 1 .. i}}
Latest(m, c) == IF Full(m, c) = {} THEN {} ELSE {Min(Full(m, c))}
Ticks(m, c) == {i \in Chord(m, c) : \A j \in Latest(m, c) : i < j}
Kept(m, c) == {p \in m.fired : p[1] \notin Ticks(m, c) \cup Latest(m, c)}

\* The parts of a chord are among the positions of the buffer.
LEMMA ChordTyped ==
  ASSUME NEW m \in Statics, NEW c \in Combos
  PROVE  /\ DOMAIN m.key_buffer = 1 .. Len(m.key_buffer) /\ Len(m.key_buffer) \in Nat
         /\ Chord(m, c) \subseteq DOMAIN m.key_buffer /\ Chord(m, c) \subseteq Nat
         /\ Latest(m, c) \subseteq Full(m, c) /\ Full(m, c) \subseteq Chord(m, c)
         /\ Ticks(m, c) \subseteq Chord(m, c)
<1>1. m.key_buffer \in Seq(Keys)
  BY DEF Statics, Fields
<1>2. DOMAIN m.key_buffer = 1 .. Len(m.key_buffer) /\ Len(m.key_buffer) \in Nat
  BY <1>1
<1>3. Full(m, c) \subseteq Chord(m, c) /\ Chord(m, c) \subseteq DOMAIN m.key_buffer
  BY DEF Full, Chord
<1>4. Full(m, c) \subseteq Nat
  BY <1>2, <1>3
<1>5. Latest(m, c) \subseteq Full(m, c)
  BY <1>4, MinIs DEF Latest
<1> QED
  BY <1>2, <1>3, <1>5 DEF Ticks

\* What apply_combo changes.
LEMMA ApplyComboIs ==
  ASSUME build \in Builds, NEW m \in Statics, NEW c \in Combos, c \notin m.disabled,
         NEW n, n = apply_combo(m, c)
  PROVE  /\ n \in Statics /\ SameScan(m, n)
         /\ n.active = m.active \cup (IF Full(m, c) = {} THEN {} ELSE {c})
         /\ n.ticks = (m.ticks \cup Ticks(m, c)) \ Latest(m, c)
         /\ n.fired = Kept(m, c) \cup (Latest(m, c) \X {c})
         /\ n.disabled = m.disabled \cup (IF c \in Range(m.combo_buffer) THEN {c} ELSE {})
         /\ n.combo_buffer = IF c \in Range(m.combo_buffer) /\ Head(m.combo_buffer) = c
                             THEN Tail(m.combo_buffer) ELSE m.combo_buffer
<1> DEFINE ticks  == (m.ticks \cup Ticks(m, c)) \ Latest(m, c)
           fired  == Kept(m, c) \cup (Latest(m, c) \X {c})
           active == m.active \cup (IF Full(m, c) = {} THEN {} ELSE {c})
           x == [m EXCEPT !.ticks = ticks, !.fired = fired, !.active = active]
<1>1. Latest(m, c) \subseteq Nat /\ Ticks(m, c) \subseteq Nat /\ Latest(m, c) \subseteq Chord(m, c)
  BY ChordTyped
<1>2. ticks \in SUBSET Nat /\ active \in SUBSET Combos
  BY <1>1 DEF Statics, Fields
<1>3. fired \in SUBSET (Nat \X Combos)
  BY <1>1 DEF Statics, Fields, Kept
<1>4. n = drop_combo_from_buffer(x, c)
  <2> DEFINE y == [m EXCEPT !.ticks  = (@ \cup Ticks(m, c)) \ Latest(m, c),
                            !.fired  = Kept(m, c) \cup (Latest(m, c) \X {c}),
                            !.active = IF Full(m, c) = {} THEN @ ELSE @ \cup {c}]
  <2>1. apply_combo(m, c) = After(y, LAMBDA v : drop_combo_from_buffer(v, c))
    BY DEF apply_combo, Chord, Full, Latest, Ticks, Kept
  <2>2. y = x
    OBVIOUS
  <2> HIDE DEF x, y
  <2>3. apply_combo(m, c) = drop_combo_from_buffer(y, c)
    BY <2>1 DEF After
  <2> QED
    BY <2>2, <2>3
<1> HIDE DEF ticks, fired, active
<1>5. /\ x \in Statics /\ SameScan(m, x)
      /\ x.active = active /\ x.ticks = ticks /\ x.fired = fired
      /\ x.disabled = m.disabled /\ x.combo_buffer = m.combo_buffer
  BY <1>2, <1>3 DEF Statics, Fields, SameScan, SameInput
<1> HIDE DEF x
<1>6. /\ n \in Statics /\ SameScan(x, n)
      /\ n.active = x.active /\ n.ticks = x.ticks /\ n.fired = x.fired
      /\ n.disabled = x.disabled \cup (IF c \in Range(x.combo_buffer) THEN {c} ELSE {})
      /\ n.combo_buffer = IF c \in Range(x.combo_buffer) /\ Head(x.combo_buffer) = c
                          THEN Tail(x.combo_buffer) ELSE x.combo_buffer
  BY <1>4, <1>5, DropIs
<1>7. SameScan(m, n)
  BY <1>5, <1>6 DEF SameScan, SameInput
<1> QED
  BY <1>5, <1>6, <1>7 DEF ticks, fired, active

\* And what it and apply_one leave as it was, also if c is disabled.
LEMMA ApplyTyped ==
  ASSUME build \in Builds, NEW m \in Statics, NEW c \in Combos
  PROVE  /\ apply_combo(m, c) \in Statics /\ SameScan(m, apply_combo(m, c))
         /\ apply_one(m, c) \in Statics /\ SameScan(m, apply_one(m, c))
<1>1. CASE c \in m.disabled
  <2>1. apply_combo(m, c) = m
    BY <1>1 DEF apply_combo
  <2>2. SameScan(m, m)
    BY DEF SameScan, SameInput
  <2> QED
    BY <2>1, <2>2, DropIs DEF apply_one
<1>2. CASE c \notin m.disabled
  BY <1>2, DropIs, ApplyComboIs DEF apply_one
<1> QED
  BY <1>1, <1>2

-----------------------------------------------------------------------------
(* apply_combos: one pass over the ring.                                   *)

\* f[i] is the state after the first i combos of the ring.
IsPass(f, m, n) ==
  f = [i \in 0 .. n |-> IF i = 0 THEN m ELSE apply_one(f[i - 1], m.combo_buffer[i])]

\* There is such a pass.
LEMMA PassExists ==
  ASSUME NEW m, NEW n \in Nat
  PROVE  \E f : IsPass(f, m, n)
<1> DEFINE S == {k \in Nat : \E f : IsPass(f, m, k)}
<1>1. 0 \in S
  <2> DEFINE f == [i \in 0 .. 0 |-> m]
  <2>1. IsPass(f, m, 0)
    BY DEF IsPass
  <2> HIDE DEF f
  <2> QED
    BY <2>1
<1>2. ASSUME NEW k \in Nat, k \in S PROVE k + 1 \in S
  <2>1. PICK f : IsPass(f, m, k)
    BY <1>2
  <2> DEFINE g == [i \in 0 .. k + 1 |-> IF i <= k THEN f[i]
                                        ELSE apply_one(f[k], m.combo_buffer[i])]
             h == [i \in 0 .. k + 1 |-> IF i = 0 THEN m
                                        ELSE apply_one(g[i - 1], m.combo_buffer[i])]
  <2>2. ASSUME NEW i \in 0 .. k + 1 PROVE g[i] = h[i]
    <3>1. CASE i = k + 1
      BY <3>1
    <3>2. CASE i # k + 1
      <4>1. i \in 0 .. k /\ g[i] = f[i]
        BY <3>2
      <4>2. i # 0 => g[i - 1] = f[i - 1]
        BY <4>1
      <4>3. f[i] = IF i = 0 THEN m ELSE apply_one(f[i - 1], m.combo_buffer[i])
        BY <2>1, <4>1 DEF IsPass
      <4> QED
        BY <4>1, <4>2, <4>3
    <3> QED
      BY <3>1, <3>2
  <2>3. g = h
    BY <2>2
  <2>4. IsPass(g, m, k + 1)
    BY <2>3 DEF IsPass
  <2> HIDE DEF g
  <2> QED
    BY <2>4
<1> HIDE DEF S
<1>3. Nat \subseteq S
  BY <1>1, <1>2, SetInduction
<1> QED
  BY <1>3 DEF S

\* apply_combos is a pass over the ring, and then the presses that are left.
LEMMA ApplyCombosIs ==
  ASSUME NEW m \in Statics
  PROVE  \E f : /\ IsPass(f, m, Len(m.combo_buffer))
                /\ apply_combos(m) = clear_combos(dump_key_buffer(f[Len(m.combo_buffer)]))
<1> DEFINE size == Len(m.combo_buffer)
<1>1. size \in Nat
  BY DEF Statics, Fields
<1>2. PICK f : IsPass(f, m, size)
  BY <1>1, PassExists
<1> DEFINE after[i \in 0 .. size] ==
             IF i = 0 THEN m ELSE After(after[i - 1], LAMBDA n : apply_one(n, m.combo_buffer[i]))
<1>3. \A x, c : After(x, LAMBDA n : apply_one(n, c)) = apply_one(x, c)
  BY DEF After
<1>4. f = [i \in 0 .. size |->
             IF i = 0 THEN m ELSE After(f[i - 1], LAMBDA n : apply_one(n, m.combo_buffer[i]))]
  BY <1>2, <1>3 DEF IsPass
<1>5. after = [i \in 0 .. size |->
             IF i = 0 THEN m ELSE After(after[i - 1], LAMBDA n : apply_one(n, m.combo_buffer[i]))]
  BY <1>4
<1>6. apply_combos(m) = After(After(after[size], dump_key_buffer), clear_combos)
  BY DEF apply_combos
<1> HIDE DEF after
<1>7. IsPass(after, m, size)
  BY <1>3, <1>5 DEF IsPass
<1>8. apply_combos(m) = clear_combos(dump_key_buffer(after[size]))
  BY <1>6 DEF After
<1> QED
  BY <1>7, <1>8

\* A pass leaves the types.
LEMMA PassTyped ==
  ASSUME build \in Builds, NEW m \in Statics, NEW f, IsPass(f, m, Len(m.combo_buffer))
  PROVE  \A i \in 0 .. Len(m.combo_buffer) : f[i] \in Statics /\ SameScan(m, f[i])
<1> DEFINE size == Len(m.combo_buffer)
           S == {i \in Nat : i <= size => f[i] \in Statics /\ SameScan(m, f[i])}
<1>1. size \in Nat /\ m.combo_buffer \in Seq(Combos)
  BY DEF Statics, Fields
<1>2. f[0] = m
  BY <1>1 DEF IsPass
<1>3. SameScan(m, m)
  BY DEF SameScan, SameInput
<1>4. 0 \in S
  BY <1>2, <1>3
<1>5. ASSUME NEW i \in Nat, i \in S PROVE i + 1 \in S
  <2> SUFFICES ASSUME i + 1 <= size PROVE f[i + 1] \in Statics /\ SameScan(m, f[i + 1])
    OBVIOUS
  <2>1. f[i] \in Statics /\ SameScan(m, f[i])
    BY <1>1, <1>5
  <2>2. m.combo_buffer[i + 1] \in Combos
    BY <1>1, ElementOfSeq
  <2>3. f[i + 1] = apply_one(f[i], m.combo_buffer[i + 1])
    <3>1. i + 1 \in 0 .. size /\ i + 1 # 0 /\ (i + 1) - 1 = i
      BY <1>1
    <3>2. f[i + 1] = apply_one(f[(i + 1) - 1], m.combo_buffer[i + 1])
      BY <3>1 DEF IsPass
    <3> QED
      BY <3>1, <3>2
  <2>4. f[i + 1] \in Statics /\ SameScan(f[i], f[i + 1])
    BY <2>1, <2>2, <2>3, ApplyTyped
  <2> QED
    BY <2>1, <2>4 DEF SameScan, SameInput
<1> HIDE DEF S
<1>6. Nat \subseteq S
  BY <1>4, <1>5, SetInduction
<1> QED
  BY <1>1, <1>6 DEF S

\* No press of the buffer is used up.
Clean(m) == m.ticks = {} /\ m.fired = {}

\* After apply_combos nothing is left in the buffers.
LEMMA ApplyCombosTyped ==
  ASSUME build \in Builds, NEW m \in Statics, NEW n, n = apply_combos(m)
  PROVE  /\ n \in Statics /\ SameInput(m, n) /\ Clean(n)
         /\ n.key_buffer = <<>> /\ n.is_combo_key = m.is_combo_key /\ n.longest_term = 0
<1>1. PICK f : /\ IsPass(f, m, Len(m.combo_buffer))
               /\ apply_combos(m) = clear_combos(dump_key_buffer(f[Len(m.combo_buffer)]))
  BY ApplyCombosIs
<1>2. Len(m.combo_buffer) \in Nat
  BY DEF Statics, Fields
<1> DEFINE x == f[Len(m.combo_buffer)]
<1>3. x \in Statics /\ SameScan(m, x)
  BY <1>1, <1>2, PassTyped
<1> HIDE DEF x
<1> DEFINE y == dump_key_buffer(x)
<1>4. /\ y \in Statics /\ SameInput(x, y) /\ y.key_buffer = <<>> /\ y.ticks = {} /\ y.fired = {}
      /\ y.is_combo_key = x.is_combo_key
  BY <1>3, DumpIs
<1>5. n = clear_combos(y)
  BY <1>1 DEF x
<1> HIDE DEF y
<1>6. /\ n \in Statics /\ SameInput(y, n) /\ n.key_buffer = y.key_buffer /\ n.longest_term = 0
      /\ n.ticks = y.ticks /\ n.fired = y.fired /\ n.is_combo_key = y.is_combo_key
  BY <1>4, <1>5, ClearCombosIs
<1> QED
  BY <1>3, <1>4, <1>6 DEF SameScan, SameInput, Clean

-----------------------------------------------------------------------------
(* process_single_combo.                                                   *)

\* What prepare does not change.
SameKeys(m, n) ==
  /\ SameInput(m, n)
  /\ n.active = m.active /\ n.key_buffer = m.key_buffer
  /\ n.ticks = m.ticks /\ n.fired = m.fired
  /\ n.keys_down = m.keys_down /\ n.combos_down = m.combos_down

\* The prepared combos before stop that overlap with c are disabled, those at the front
\* leave the ring, and c is disabled too or is saved.
PreparedAs(m, n, c, stop, leaving) ==
  LET dropped == {i \in 1 .. stop - 1 : Overlaps(m.combo_buffer[i], c)}
      left    == SubSeq(m.combo_buffer, leaving + 1, Len(m.combo_buffer))
  IN  /\ leaving <= stop - 1 /\ 1 .. leaving \subseteq dropped
      /\ \A k \in 0 .. stop - 1 : 1 .. k \subseteq dropped => k <= leaving
      /\ \/ /\ stop <= Len(m.combo_buffer) /\ Overlaps(m.combo_buffer[stop], c)
            /\ n.disabled = m.disabled \cup {m.combo_buffer[i] : i \in dropped} \cup {c}
            /\ n.combo_buffer = left
         \/ /\ stop = Len(m.combo_buffer) + 1
            /\ n.disabled = m.disabled \cup {m.combo_buffer[i] : i \in dropped}
            /\ n.combo_buffer = IF Len(left) + 1 = COMBO_BUFFER_LENGTH THEN <<>>
                                ELSE Append(left, c)

\* prepare, with stop the position of the first longer combo that overlaps with c.
LEMMA PrepareIs ==
  ASSUME build \in Builds, NEW m \in Statics, NEW c \in Combos, NEW n, n = prepare(m, c)
  PROVE  /\ n \in Statics /\ SameKeys(m, n)
         /\ n.state = m.state /\ n.is_combo_key = m.is_combo_key
         /\ \E stop \in 1 .. Len(m.combo_buffer) + 1, leaving \in 0 .. Len(m.combo_buffer) :
              PreparedAs(m, n, c, stop, leaving)
<1> DEFINE size    == Len(m.combo_buffer)
           longer  == {i \in 1 .. size : /\ Overlaps(m.combo_buffer[i], c)
                                         /\ Len(build.combos[c]) < Len(build.combos[m.combo_buffer[i]])}
           stop    == Min(longer \cup {size + 1})
           dropped == {i \in 1 .. stop - 1 : Overlaps(m.combo_buffer[i], c)}
           runs    == {k \in 0 .. stop - 1 : 1 .. k \subseteq dropped}
           leaving == Max(runs)
           left    == SubSeq(m.combo_buffer, leaving + 1, size)
           gone    == m.disabled \cup {m.combo_buffer[i] : i \in dropped}
           all     == gone \cup {c}
           updated == [m EXCEPT !.disabled = gone, !.combo_buffer = left]
           short   == [updated EXCEPT !.disabled = all]
<1>1. m.combo_buffer \in Seq(Combos) /\ size \in Nat /\ size < COMBO_BUFFER_LENGTH
  BY DEF Statics, Fields
<1>2. /\ stop \in longer \cup {size + 1} /\ stop \in 1 .. size + 1
      /\ longer # {} => stop \in longer
  <2>1. longer \cup {size + 1} \subseteq Nat
    BY <1>1
  <2>2. stop \in longer \cup {size + 1} /\ \A x \in longer \cup {size + 1} : stop <= x
    BY <2>1, MinIs
  <2>3. longer \subseteq 1 .. size
    OBVIOUS
  <2> HIDE DEF stop, longer, size
  <2>4. ASSUME longer # {} PROVE stop \in longer
    <3>1. PICK x \in longer : TRUE
      BY <2>4
    <3>2. x <= size /\ stop <= x
      BY <1>1, <2>2, <2>3
    <3>3. stop # size + 1
      BY <1>1, <2>3, <3>1, <3>2
    <3> QED
      BY <2>2, <3>3
  <2> QED
    BY <1>1, <2>2, <2>3, <2>4
<1> HIDE DEF stop
<1>3. leaving \in runs /\ \A k \in runs : k <= leaving
  <2>1. stop - 1 \in Nat /\ runs \subseteq 0 .. stop - 1
    BY <1>1, <1>2
  <2>2. 0 \in runs
    BY <1>1, <1>2
  <2> HIDE DEF runs
  <2> QED
    BY <2>1, <2>2, MaxIs
<1> HIDE DEF leaving
<1>4. left \in Seq(Combos) /\ Len(left) < COMBO_BUFFER_LENGTH /\ leaving \in 0 .. size
  <2>1. leaving \in 0 .. size
    BY <1>1, <1>2, <1>3
  <2>2. /\ left \in Seq(Combos)
        /\ Len(left) = IF leaving + 1 <= size THEN size - (leaving + 1) + 1 ELSE 0
    BY <1>1, <2>1, SubSeqProperties
  <2>3. COMBO_BUFFER_LENGTH \in Nat /\ COMBO_BUFFER_LENGTH >= 2
    BY BuildIs
  <2> HIDE DEF size
  <2> QED
    BY <1>1, <2>1, <2>2, <2>3
<1>10. /\ leaving <= stop - 1 /\ 1 .. leaving \subseteq dropped
      /\ \A k \in 0 .. stop - 1 : 1 .. k \subseteq dropped => k <= leaving
  <2>1. stop - 1 \in Nat
    BY <1>1, <1>2
  <2> HIDE DEF dropped
  <2> QED
    BY ONLY <1>3, <2>1
<1>5. gone \in SUBSET Combos /\ all \in SUBSET Combos
  <2>1. \A i \in 1 .. size : m.combo_buffer[i] \in Combos
    BY <1>1
  <2>2. dropped \subseteq 1 .. size
    BY <1>1, <1>2
  <2> QED
    BY <2>1, <2>2 DEF Statics, Fields
<1>6. n = IF longer # {} THEN short ELSE save(updated, c)
  <2>1. n = IF longer # {} THEN [updated EXCEPT !.disabled = @ \cup {c}]
            ELSE After(updated, LAMBDA v : save(v, c))
    BY DEF prepare, stop, leaving
  <2>2. After(updated, LAMBDA v : save(v, c)) = save(updated, c)
    BY DEF After
  <2>3. [updated EXCEPT !.disabled = @ \cup {c}] = short
    BY <1>1 DEF Statics, Fields
  <2> QED
    BY <2>1, <2>2, <2>3
<1> HIDE DEF gone, left, all
<1>7. updated \in Statics /\ SameKeys(m, updated) /\ updated.state = m.state
      /\ updated.is_combo_key = m.is_combo_key
      /\ updated.disabled = gone /\ updated.combo_buffer = left
  BY <1>4, <1>5 DEF Statics, Fields, SameKeys, SameInput
<1>8. CASE longer # {}
  <2>1. n \in Statics /\ SameKeys(m, n) /\ n.state = m.state
        /\ n.is_combo_key = m.is_combo_key /\ n.disabled = all /\ n.combo_buffer = left
    <3> HIDE DEF updated
    <3>1. n = [updated EXCEPT !.disabled = all]
      BY <1>6, <1>8
    <3>2. /\ n \in Statics /\ SameKeys(updated, n)
          /\ n.state = updated.state /\ n.is_combo_key = updated.is_combo_key
          /\ n.disabled = all /\ n.combo_buffer = updated.combo_buffer
      BY ONLY <1>5, <1>7, <3>1 DEF Statics, Fields, SameKeys, SameInput
    <3> QED
      BY ONLY <1>7, <3>2 DEF SameKeys, SameInput
  <2>2. stop <= size /\ Overlaps(m.combo_buffer[stop], c)
    BY <1>1, <1>2, <1>8
  <2>3. PreparedAs(m, n, c, stop, leaving)
    BY <1>10, <2>1, <2>2 DEF gone, all, left, PreparedAs
  <2> HIDE DEF updated, size
  <2> QED
    BY <1>2, <1>4, <2>1, <2>3 DEF size
<1>9. CASE longer = {}
  <2> HIDE DEF updated
  <2>1. /\ n \in Statics /\ SameInput(updated, n)
        /\ n.state = updated.state /\ n.active = updated.active /\ n.disabled = updated.disabled
        /\ n.key_buffer = updated.key_buffer /\ n.ticks = updated.ticks /\ n.fired = updated.fired
        /\ n.is_combo_key = updated.is_combo_key
        /\ n.keys_down = updated.keys_down /\ n.combos_down = updated.combos_down
        /\ n.combo_buffer = IF Len(updated.combo_buffer) + 1 = COMBO_BUFFER_LENGTH THEN <<>>
                            ELSE Append(updated.combo_buffer, c)
    BY <1>6, <1>7, <1>9, SaveIs
  <2>2. n \in Statics /\ SameKeys(m, n) /\ n.state = m.state /\ n.is_combo_key = m.is_combo_key
    BY <1>7, <2>1 DEF SameKeys, SameInput
  <2>3. /\ n.disabled = gone
        /\ n.combo_buffer = IF Len(left) + 1 = COMBO_BUFFER_LENGTH THEN <<>> ELSE Append(left, c)
    BY <1>7, <2>1
  <2>4. stop = size + 1
    BY <1>2, <1>9
  <2>5. PreparedAs(m, n, c, stop, leaving)
    BY <1>10, <2>3, <2>4 DEF gone, left, PreparedAs
  <2> HIDE DEF size
  <2> QED
    BY <1>2, <1>4, <2>2, <2>5 DEF size
<1> QED
  BY <1>8, <1>9

\* x is m after c has seen the press of key, and n what becomes of x.
PressedAs(m, x, n, c, key) ==
  /\ SameKeys(m, x) /\ x.is_combo_key = TRUE
  /\ x.state = IF c \in m.active THEN m.state ELSE m.state \cup {<<c, key>>}
  /\ x.disabled = m.disabled /\ x.combo_buffer = m.combo_buffer
  /\ n.state = x.state
  /\ \/ /\ ~Complete(x, c)
        /\ n.disabled = x.disabled /\ n.combo_buffer = x.combo_buffer
     \/ /\ Complete(x, c)
        /\ n.disabled = x.disabled \cup {c} /\ n.combo_buffer = x.combo_buffer
     \/ Complete(x, c) /\ n = prepare(x, c)

\* A key of c is pressed.
LEMMA PressIs ==
  ASSUME build \in Builds, NEW m \in Statics, NEW c \in Combos, NEW key \in KeysOf(c),
         NEW n, n = single_Press(m, c, key)
  PROVE  /\ n \in Statics /\ SameKeys(m, n) /\ n.is_combo_key = TRUE
         /\ \E x \in Statics : PressedAs(m, x, n, c, key)
<1> DEFINE known == IF c \in m.active THEN m.state ELSE m.state \cup {<<c, key>>}
           term  == IF c \in m.active THEN m.longest_term
                    ELSE IF m.longest_term < COMBO_TERM THEN COMBO_TERM ELSE m.longest_term
           x == [m EXCEPT !.is_combo_key = TRUE, !.state = known, !.longest_term = term]
           gone == x.disabled \cup {c}
           late == [x EXCEPT !.disabled = gone]
<1>1. known \in SUBSET Pairs /\ term \in {0, COMBO_TERM, COMBO_HOLD_TERM}
  BY DEF Statics, Fields, Pairs
<1>2. n = IF ~Complete(x, c) THEN x ELSE IF x.timer > COMBO_TERM THEN late ELSE prepare(x, c)
  <2> DEFINE y == IF c \in m.active THEN [m EXCEPT !.is_combo_key = TRUE]
                  ELSE [m EXCEPT !.is_combo_key = TRUE, !.state = @ \cup {<<c, key>>},
                                 !.longest_term = IF @ < COMBO_TERM THEN COMBO_TERM ELSE @]
  <2>1. n = After(y, LAMBDA v : IF ~Complete(v, c) THEN v
                                ELSE IF v.timer > COMBO_TERM THEN [v EXCEPT !.disabled = @ \cup {c}]
                                ELSE prepare(v, c))
    BY DEF single_Press
  <2>2. y = x
    BY DEF Statics, Fields
  <2> HIDE DEF x, y
  <2>3. n = IF ~Complete(y, c) THEN y
            ELSE IF y.timer > COMBO_TERM THEN [y EXCEPT !.disabled = @ \cup {c}] ELSE prepare(y, c)
    BY <2>1 DEF After
  <2> QED
    BY <2>2, <2>3
<1> HIDE DEF known, term
<1>3. /\ x \in Statics /\ SameKeys(m, x) /\ x.is_combo_key = TRUE /\ x.state = known
      /\ x.disabled = m.disabled /\ x.combo_buffer = m.combo_buffer
  BY <1>1 DEF Statics, Fields, SameKeys, SameInput
<1> HIDE DEF x
<1>4. gone \in SUBSET Combos
  BY <1>3 DEF Statics, Fields
<1> HIDE DEF gone
<1>5. /\ late \in Statics /\ SameKeys(x, late) /\ late.state = x.state
      /\ late.is_combo_key = x.is_combo_key
      /\ late.disabled = gone /\ late.combo_buffer = x.combo_buffer
  BY <1>3, <1>4 DEF Statics, Fields, SameKeys, SameInput
<1> HIDE DEF late
<1>6. SameKeys(x, n) => SameKeys(m, n)
  BY <1>3 DEF SameKeys, SameInput
<1>7. CASE ~Complete(x, c)
  BY <1>2, <1>3, <1>7 DEF known, PressedAs
<1>8. CASE Complete(x, c) /\ x.timer > COMBO_TERM
  BY <1>2, <1>3, <1>5, <1>6, <1>8 DEF known, gone, PressedAs
<1>9. CASE Complete(x, c) /\ ~(x.timer > COMBO_TERM)
  <2>1. n = prepare(x, c)
    BY <1>2, <1>9
  <2>2. n \in Statics /\ SameKeys(x, n) /\ n.state = x.state /\ n.is_combo_key = x.is_combo_key
    BY <1>3, <2>1, PrepareIs
  <2> QED
    BY <1>3, <1>6, <1>9, <2>1, <2>2 DEF known, PressedAs
<1> QED
  BY <1>7, <1>8, <1>9

\* A release leaves the types.
LEMMA ReleaseTyped ==
  ASSUME build \in Builds, NEW m \in Statics, NEW c \in Combos, NEW key
  PROVE  \E r \in Statics, is \in BOOLEAN :
           /\ single_Release(m, c, key) = <<r, is>>
           /\ SameInput(m, r) /\ (Clean(m) => Clean(r))
<1> DEFINE dropped == drop_combo_from_buffer(m, c)
           applied == apply_combos(apply_combo(m, c))
           let_go  == release_combo(m, c)
           result  == single_Release(m, c, key)
<1>1. IsPart(m, c, key) \in BOOLEAN
  BY DEF IsPart
<1>2. dropped \in Statics /\ SameInput(m, dropped) /\ (Clean(m) => Clean(dropped))
  BY DropIs DEF SameScan, Clean
<1>3. applied \in Statics /\ SameInput(m, applied) /\ Clean(applied)
  <2>1. apply_combo(m, c) \in Statics /\ SameScan(m, apply_combo(m, c))
    BY ApplyTyped
  <2>2. applied \in Statics /\ SameInput(apply_combo(m, c), applied) /\ Clean(applied)
    BY <2>1, ApplyCombosTyped
  <2> QED
    BY <2>1, <2>2 DEF SameScan, SameInput
<1>4. let_go \in Statics /\ SameInput(m, let_go) /\ (Clean(m) => Clean(let_go))
  BY ReleaseComboIs DEF Clean
<1>5. SameInput(m, m)
  BY DEF SameInput
<1>6. \/ result = <<dropped, FALSE>>
      \/ result = <<applied, IsPart(m, c, key)>>
      \/ result = <<m, IsPart(m, c, key)>>
      \/ result = <<let_go, TRUE>>
      \/ result = <<m, key \in StateOf(m, c)>>
      \/ result = <<m, FALSE>>
  <2>1. After(apply_combo(m, c), apply_combos) = applied
    BY DEF After
  <2> HIDE DEF applied, dropped, let_go
  <2> QED
    BY <2>1 DEF single_Release, dropped, let_go
<1>7. (key \in StateOf(m, c)) \in BOOLEAN
  OBVIOUS
<1> HIDE DEF applied, dropped, let_go, result
<1>8. \E r \in {dropped, applied, let_go, m}, is \in BOOLEAN : result = <<r, is>>
  BY <1>1, <1>6, <1>7
<1>9. \A r \in {dropped, applied, let_go, m} :
        r \in Statics /\ SameInput(m, r) /\ (Clean(m) => Clean(r))
  BY <1>2, <1>3, <1>4, <1>5
<1> QED
  BY <1>8, <1>9 DEF result

\* So does process_single_combo.
LEMMA SingleTyped ==
  ASSUME build \in Builds, NEW m \in Statics, NEW c \in Combos, NEW key, NEW pressed \in BOOLEAN,
         NEW n, n = process_single_combo(m, c, key, pressed)
  PROVE  n \in Statics /\ SameInput(m, n) /\ (Clean(m) => Clean(n))
<1>1. CASE key \notin KeysOf(c)
  BY <1>1 DEF process_single_combo, SameInput
<1>2. CASE key \in KeysOf(c) /\ pressed /\ IsPart(m, c, key)
  <2>1. n = single_Press(m, c, key)
    BY <1>2 DEF process_single_combo
  <2>2. n \in Statics /\ SameKeys(m, n)
    BY <1>2, <2>1, PressIs
  <2> QED
    BY <2>2 DEF SameKeys, Clean
<1>3. CASE key \in KeysOf(c) /\ ~(pressed /\ IsPart(m, c, key))
  <2>1. PICK r \in Statics, is \in BOOLEAN :
             /\ single_Release(m, c, key) = <<r, is>>
             /\ SameInput(m, r) /\ (Clean(m) => Clean(r))
    BY ReleaseTyped
  <2>2. n = key_up(<<r, is>>, c, key)
    BY <1>3, <2>1 DEF process_single_combo, After
  <2>3. n \in Statics /\ SameInput(r, n) /\ n.ticks = r.ticks /\ n.fired = r.fired
    BY <2>2, KeyUpIs
  <2> QED
    BY <2>1, <2>3 DEF SameInput, Clean
<1> QED
  BY <1>1, <1>2, <1>3

-----------------------------------------------------------------------------
(* process_combo and combo_task.                                           *)

\* f[c] is the state after the first c combos have been scanned.
IsScan(f, m, key, pressed) ==
  f = [c \in {0} \cup Combos |->
         IF c = 0 THEN m ELSE process_single_combo(f[c - 1], c, key, pressed)]

\* The same for the first n combos.
ScanOf(f, m, key, pressed, n) ==
  f = [c \in 0 .. n |-> IF c = 0 THEN m ELSE process_single_combo(f[c - 1], c, key, pressed)]

\* There is such a scan.
LEMMA ScanExists ==
  ASSUME NEW m, NEW key, NEW pressed, NEW n \in Nat
  PROVE  \E f : ScanOf(f, m, key, pressed, n)
<1> DEFINE S == {k \in Nat : \E f : ScanOf(f, m, key, pressed, k)}
<1>1. 0 \in S
  <2> DEFINE f == [c \in 0 .. 0 |-> m]
  <2>1. ScanOf(f, m, key, pressed, 0)
    BY DEF ScanOf
  <2> HIDE DEF f
  <2> QED
    BY <2>1
<1>2. ASSUME NEW k \in Nat, k \in S PROVE k + 1 \in S
  <2>1. PICK f : ScanOf(f, m, key, pressed, k)
    BY <1>2
  <2> DEFINE g == [c \in 0 .. k + 1 |-> IF c <= k THEN f[c]
                                        ELSE process_single_combo(f[k], c, key, pressed)]
             h == [c \in 0 .. k + 1 |-> IF c = 0 THEN m
                                        ELSE process_single_combo(g[c - 1], c, key, pressed)]
  <2>2. ASSUME NEW c \in 0 .. k + 1 PROVE g[c] = h[c]
    <3>1. CASE c = k + 1
      BY <3>1
    <3>2. CASE c # k + 1
      <4>1. c \in 0 .. k /\ g[c] = f[c]
        BY <3>2
      <4>2. c # 0 => g[c - 1] = f[c - 1]
        BY <4>1
      <4>3. f[c] = IF c = 0 THEN m ELSE process_single_combo(f[c - 1], c, key, pressed)
        BY <2>1, <4>1 DEF ScanOf
      <4> QED
        BY <4>1, <4>2, <4>3
    <3> QED
      BY <3>1, <3>2
  <2>3. g = h
    BY <2>2
  <2>4. ScanOf(g, m, key, pressed, k + 1)
    BY <2>3 DEF ScanOf
  <2> HIDE DEF g
  <2> QED
    BY <2>4
<1> HIDE DEF S
<1>3. Nat \subseteq S
  BY <1>1, <1>2, SetInduction
<1> QED
  BY <1>3 DEF S

\* The state in which a scan begins.
Quiet == [static EXCEPT !.is_combo_key = FALSE]

\* scan is such a scan, of a state in which no key of a combo is known.
LEMMA ScanIs ==
  ASSUME build \in Builds, NEW key, NEW pressed
  PROVE  \E f : IsScan(f, Quiet, key, pressed) /\ scan(key, pressed) = f[Len(build.combos)]
<1> DEFINE size == Len(build.combos)
<1>1. size \in Nat /\ Combos = 1 .. size
  BY BuildIs
<1>2. {0} \cup Combos = 0 .. size
  BY <1>1
<1>3. PICK f : IsScan(f, Quiet, key, pressed)
  <2>1. PICK f : ScanOf(f, Quiet, key, pressed, size)
    BY <1>1, ScanExists
  <2> QED
    BY <1>2, <2>1 DEF IsScan, ScanOf
<1> DEFINE after[c \in {0} \cup Combos] ==
             IF c = 0 THEN [static EXCEPT !.is_combo_key = FALSE]
             ELSE After(after[c - 1], LAMBDA m : process_single_combo(m, c, key, pressed))
<1>4. \A x, c : After(x, LAMBDA m : process_single_combo(m, c, key, pressed))
                  = process_single_combo(x, c, key, pressed)
  BY DEF After
<1>5. f = [c \in {0} \cup Combos |->
             IF c = 0 THEN [static EXCEPT !.is_combo_key = FALSE]
             ELSE After(f[c - 1], LAMBDA m : process_single_combo(m, c, key, pressed))]
  BY <1>3, <1>4 DEF IsScan, Quiet
<1>6. after = [c \in {0} \cup Combos |->
             IF c = 0 THEN [static EXCEPT !.is_combo_key = FALSE]
             ELSE After(after[c - 1], LAMBDA m : process_single_combo(m, c, key, pressed))]
  BY <1>5
<1>7. scan(key, pressed) = after[size]
  BY DEF scan
<1> HIDE DEF after
<1>8. IsScan(after, Quiet, key, pressed)
  BY <1>4, <1>6 DEF IsScan, Quiet
<1> QED
  BY <1>7, <1>8

\* The steps of a scan.
LEMMA ScanSteps ==
  ASSUME build \in Builds, NEW m, NEW key, NEW pressed, NEW f, IsScan(f, m, key, pressed)
  PROVE  /\ f[0] = m
         /\ \A c \in Combos : f[c] = process_single_combo(f[c - 1], c, key, pressed)
<1>1. Combos \subseteq Nat \ {0}
  BY BuildIs
<1> QED
  BY <1>1 DEF IsScan

\* A scan leaves the types.
LEMMA ScanTyped ==
  ASSUME build \in Builds, static \in Statics, Clean(static), NEW key, NEW pressed \in BOOLEAN,
         NEW f, IsScan(f, Quiet, key, pressed)
  PROVE  \A c \in 0 .. Len(build.combos) :
           f[c] \in Statics /\ SameInput(static, f[c]) /\ Clean(f[c])
<1> DEFINE size == Len(build.combos)
           S == {c \in Nat : c <= size =>
                   f[c] \in Statics /\ SameInput(static, f[c]) /\ Clean(f[c])}
<1>1. size \in Nat /\ Combos = 1 .. size
  BY BuildIs
<1>2. Quiet \in Statics /\ SameInput(static, Quiet) /\ Clean(Quiet)
  BY DEF Quiet, Statics, Fields, SameInput, Clean
<1>3. 0 \in S
  BY <1>2, ScanSteps
<1>4. ASSUME NEW c \in Nat, c \in S PROVE c + 1 \in S
  <2> SUFFICES ASSUME c + 1 <= size
               PROVE  f[c + 1] \in Statics /\ SameInput(static, f[c + 1]) /\ Clean(f[c + 1])
    OBVIOUS
  <2>1. f[c] \in Statics /\ SameInput(static, f[c]) /\ Clean(f[c])
    BY <1>1, <1>4
  <2>2. c + 1 \in Combos /\ (c + 1) - 1 = c
    BY <1>1
  <2>3. f[c + 1] = process_single_combo(f[c], c + 1, key, pressed)
    BY <2>2, ScanSteps
  <2>4. f[c + 1] \in Statics /\ SameInput(f[c], f[c + 1]) /\ Clean(f[c + 1])
    BY <2>1, <2>2, <2>3, SingleTyped
  <2> QED
    BY <2>1, <2>4 DEF SameInput
<1> HIDE DEF S
<1>5. Nat \subseteq S
  BY <1>3, <1>4, SetInduction
<1> QED
  BY <1>1, <1>5 DEF S

\* A flush leaves the buffers empty.
LEMMA FlushTyped ==
  ASSUME build \in Builds, NEW m \in Statics, NEW n, n = flush(m)
  PROVE  /\ n \in Statics /\ Clean(n) /\ n.b_combo_enable = m.b_combo_enable
         /\ n.timer \in {m.timer, Off}
         /\ n.key_buffer = <<>> /\ n.is_combo_key = m.is_combo_key /\ n.longest_term = 0
<1>1. CASE m.combo_buffer # <<>>
  BY <1>1, ApplyCombosTyped DEF flush, SameInput
<1>2. CASE m.combo_buffer = <<>>
  <2> DEFINE d == dump_key_buffer(m)
             x == [d EXCEPT !.timer = Off]
  <2>1. d \in Statics /\ SameInput(m, d) /\ Clean(d) /\ d.key_buffer = <<>>
        /\ d.is_combo_key = m.is_combo_key
    BY DumpIs DEF Clean
  <2>2. n = clear_combos(x)
    <3>1. n = After(x, clear_combos)
      BY <1>2 DEF flush
    <3> QED
      BY <3>1 DEF After
  <2> HIDE DEF d
  <2>3. x \in Statics /\ x.timer = Off /\ x.b_combo_enable = d.b_combo_enable /\ Clean(x)
        /\ x.key_buffer = d.key_buffer /\ x.is_combo_key = d.is_combo_key
    BY <2>1 DEF Statics, Fields, Clean
  <2> HIDE DEF x
  <2>4. /\ n \in Statics /\ SameInput(x, n) /\ n.key_buffer = x.key_buffer
        /\ n.ticks = x.ticks /\ n.fired = x.fired /\ n.longest_term = 0
        /\ n.is_combo_key = x.is_combo_key
    BY <2>2, <2>3, ClearCombosIs
  <2> QED
    BY <2>1, <2>3, <2>4 DEF SameInput, Clean
<1> QED
  BY <1>1, <1>2

\* A press is held back, if the buffer has room.
LEMMA HoldBackIs ==
  ASSUME build \in Builds, NEW m \in Statics, NEW key \in Keys, NEW time \in {0, Off},
         NEW n, n = hold_back(m, key, time)
  PROVE  /\ n \in Statics /\ n.b_combo_enable = m.b_combo_enable
         /\ n.state = m.state /\ n.active = m.active /\ n.disabled = m.disabled
         /\ n.ticks = m.ticks /\ n.fired = m.fired /\ n.combo_buffer = m.combo_buffer
         /\ n.keys_down = m.keys_down /\ n.combos_down = m.combos_down
         /\ n.key_buffer = IF Len(m.key_buffer) < COMBO_KEY_BUFFER_LENGTH
                           THEN Append(m.key_buffer, key) ELSE m.key_buffer
<1> DEFINE timer == IF build.strict /\ m.timer # Off THEN m.timer ELSE time
           keys  == IF Len(m.key_buffer) < COMBO_KEY_BUFFER_LENGTH
                    THEN Append(m.key_buffer, key) ELSE m.key_buffer
<1>1. timer \in {Off} \cup 0 .. Longest
  BY ComboAssumption DEF Statics, Fields, Longest
<1>2. keys \in Seq(Keys) /\ Len(keys) <= COMBO_KEY_BUFFER_LENGTH
  <2>1. m.key_buffer \in Seq(Keys) /\ Len(m.key_buffer) <= COMBO_KEY_BUFFER_LENGTH
        /\ Len(m.key_buffer) \in Nat /\ COMBO_KEY_BUFFER_LENGTH \in Nat
    BY ComboAssumption DEF Statics, Fields
  <2> QED
    BY <2>1, AppendProperties
<1>3. n = [m EXCEPT !.timer = timer, !.key_buffer = keys]
  BY DEF hold_back
<1> HIDE DEF timer, keys
<1>4. /\ n \in Statics /\ n.b_combo_enable = m.b_combo_enable
      /\ n.state = m.state /\ n.active = m.active /\ n.disabled = m.disabled
      /\ n.ticks = m.ticks /\ n.fired = m.fired /\ n.combo_buffer = m.combo_buffer
      /\ n.keys_down = m.keys_down /\ n.combos_down = m.combos_down
      /\ n.key_buffer = keys
  BY <1>1, <1>2, <1>3 DEF Statics, Fields
<1> QED
  BY <1>4 DEF keys

\* Combos are switched off: what is held back is typed.
LEMMA DisableIs ==
  ASSUME build \in Builds, NEW m \in Statics, Clean(m), NEW n, n = combo_disable(m)
  PROVE  /\ n \in Statics /\ Clean(n)
         /\ n.state = {p \in m.state : p[1] \in m.active}
         /\ n.active = m.active /\ n.disabled = m.disabled \cap m.active
         /\ n.key_buffer = <<>> /\ n.combo_buffer = <<>>
         /\ n.keys_down = m.keys_down \cup Range(m.key_buffer)
         /\ n.combos_down = m.combos_down
<1> DEFINE x == [m EXCEPT !.timer = Off, !.b_combo_enable = FALSE, !.combo_buffer = <<>>]
           y == clear_combos(x)
<1>1. COMBO_BUFFER_LENGTH \in Nat /\ COMBO_BUFFER_LENGTH >= 2
  BY BuildIs
<1>2. <<>> \in Seq(Combos) /\ Len(<<>>) < COMBO_BUFFER_LENGTH
  BY <1>1
<1>3. n = dump_key_buffer(y)
  <2>1. n = After(After(x, clear_combos), dump_key_buffer)
    BY DEF combo_disable
  <2> HIDE DEF x
  <2> QED
    BY <2>1 DEF After
<1>4. /\ x \in Statics /\ Clean(x) /\ x.state = m.state /\ x.active = m.active
      /\ x.disabled = m.disabled /\ x.key_buffer = m.key_buffer /\ x.combo_buffer = <<>>
      /\ x.keys_down = m.keys_down /\ x.combos_down = m.combos_down
  BY <1>2 DEF Statics, Fields, Clean
<1> HIDE DEF x
<1>5. /\ y \in Statics /\ y.state = {p \in x.state : p[1] \in x.active}
      /\ y.active = x.active /\ y.disabled = x.disabled \cap x.active
      /\ y.key_buffer = x.key_buffer /\ y.ticks = x.ticks /\ y.fired = x.fired
      /\ y.combo_buffer = x.combo_buffer
      /\ y.keys_down = x.keys_down /\ y.combos_down = x.combos_down
  BY <1>4, ClearCombosIs
<1> HIDE DEF y
<1>6. /\ n \in Statics
      /\ n.state = y.state /\ n.active = y.active /\ n.disabled = y.disabled
      /\ n.key_buffer = <<>> /\ n.ticks = {} /\ n.fired = {}
      /\ n.combo_buffer = y.combo_buffer
      /\ n.keys_down = y.keys_down \cup {y.key_buffer[i] : i \in DOMAIN y.key_buffer \
                                             (y.ticks \cup {p[1] : p \in y.fired})}
      /\ n.combos_down = y.combos_down \cup {p[2] : p \in y.fired}
  BY <1>3, <1>5, DumpIs
<1>7. y.ticks = {} /\ y.fired = {}
  BY <1>4, <1>5 DEF Clean
<1>8. /\ n.keys_down = y.keys_down \cup Range(y.key_buffer)
      /\ n.combos_down = y.combos_down
  BY <1>6, <1>7 DEF Range
<1> QED
  BY <1>4, <1>5, <1>6, <1>8 DEF Clean

-----------------------------------------------------------------------------
(* Types.                                                                  *)

\* The type invariant, as it is proved.
Typed == build \in Builds /\ held \subseteq Keys /\ static \in Statics /\ Clean(static)

\* What is down changes, nothing else.
LEMMA KeysDownTyped ==
  ASSUME NEW m \in Statics, NEW D \in SUBSET Keys, NEW n, n = [m EXCEPT !.keys_down = D]
  PROVE  /\ n \in Statics /\ (Clean(m) => Clean(n)) /\ SameInput(m, n)
         /\ n.state = m.state /\ n.active = m.active /\ n.disabled = m.disabled
         /\ n.key_buffer = m.key_buffer /\ n.combo_buffer = m.combo_buffer
         /\ n.keys_down = D /\ n.combos_down = m.combos_down
BY DEF Statics, Fields, SameInput, Clean

\* Initially every variable is of its type.
LEMMA InitTyped ==
  ASSUME Init
  PROVE  Typed
<1>1. build \in Builds /\ held \subseteq Keys
  BY DEF Init
<1>2. COMBO_BUFFER_LENGTH > 0 /\ COMBO_KEY_BUFFER_LENGTH \in Nat
  BY <1>1, BuildIs, ComboAssumption
<1>3. <<>> \in Seq(Keys) /\ <<>> \in Seq(Combos) /\ Len(<<>>) = 0
  OBVIOUS
<1>4. static \in Fields
  BY <1>3 DEF Init, Fields, Pairs
<1>5. static.key_buffer = <<>> /\ static.combo_buffer = <<>> /\ Clean(static)
  BY DEF Init, Clean
<1> QED
  BY <1>1, <1>2, <1>3, <1>4, <1>5 DEF Typed, Statics

\* A press leaves the types.
LEMMA PressTyped ==
  ASSUME Typed, NEW key \in Keys, process_combo_Press(key)
  PROVE  Typed'
<1>1. build \in Builds /\ static \in Statics /\ Clean(static) /\ build' = build
  BY DEF Typed, process_combo_Press
<1>2. PICK f : IsScan(f, Quiet, key, TRUE) /\ scan(key, TRUE) = f[Len(build.combos)]
  BY <1>1, ScanIs
<1>3. Len(build.combos) \in Nat
  BY <1>1, BuildIs
<1> DEFINE m == scan(key, TRUE)
<1>4. m \in Statics /\ Clean(m)
  <2>1. \A c \in 0 .. Len(build.combos) : f[c] \in Statics /\ Clean(f[c])
    BY <1>1, <1>2, ScanTyped
  <2>2. Len(build.combos) \in 0 .. Len(build.combos)
    BY <1>3
  <2> QED
    BY <1>2, <2>1, <2>2
<1>5. IF m.is_combo_key
      THEN \E time \in timer_read : static' = hold_back(m, key, time)
      ELSE static' = [flush(m) EXCEPT !.keys_down = @ \cup {key}]
  BY DEF process_combo_Press
<1> HIDE DEF m
<1>6. static' \in Statics /\ Clean(static')
  <2>1. CASE m.is_combo_key
    <3>1. PICK time \in {0, Off} : static' = hold_back(m, key, time)
      BY <1>5, <2>1 DEF timer_read
    <3> QED
      BY <1>1, <1>4, <3>1, HoldBackIs DEF Clean
  <2>2. CASE ~m.is_combo_key
    <3> DEFINE n == flush(m)
               D == n.keys_down \cup {key}
    <3>1. n \in Statics /\ Clean(n)
      BY <1>1, <1>4, FlushTyped
    <3>2. D \in SUBSET Keys
      BY <3>1 DEF Statics, Fields
    <3>3. static' = [n EXCEPT !.keys_down = D]
      BY <1>5, <2>2
    <3> HIDE DEF n, D
    <3> QED
      BY <3>1, <3>2, <3>3, KeysDownTyped
  <2> QED
    BY <2>1, <2>2
<1>7. held' \subseteq Keys
  BY DEF Typed, process_combo_Press
<1>8. Statics' = Statics
  BY <1>1 DEF Statics, Fields, Pairs, Combos, KeysOf, COMBO_BUFFER_LENGTH, Longest
<1> QED
  BY <1>1, <1>6, <1>7, <1>8 DEF Typed, Clean

\* So does a release.
LEMMA ReleaseKeyTyped ==
  ASSUME Typed, NEW key \in Keys, process_combo_Release(key)
  PROVE  Typed'
<1>1. build \in Builds /\ static \in Statics /\ Clean(static) /\ build' = build
  BY DEF Typed, process_combo_Release
<1>2. PICK f : IsScan(f, Quiet, key, FALSE) /\ scan(key, FALSE) = f[Len(build.combos)]
  BY <1>1, ScanIs
<1>3. Len(build.combos) \in Nat
  BY <1>1, BuildIs
<1> DEFINE m == scan(key, FALSE)
           n == flush(m)
           D == IF m.is_combo_key THEN n.keys_down ELSE n.keys_down \ {key}
<1>4. m \in Statics /\ Clean(m)
  <2>1. \A c \in 0 .. Len(build.combos) : f[c] \in Statics /\ Clean(f[c])
    BY <1>1, <1>2, ScanTyped
  <2>2. Len(build.combos) \in 0 .. Len(build.combos)
    BY <1>3
  <2> QED
    BY <1>2, <2>1, <2>2
<1>5. static' = [n EXCEPT !.keys_down = D]
  BY DEF process_combo_Release
<1> HIDE DEF m
<1>6. n \in Statics /\ Clean(n)
  BY <1>1, <1>4, FlushTyped
<1>7. D \in SUBSET Keys
  BY <1>6 DEF Statics, Fields
<1> HIDE DEF n, D
<1>8. static' \in Statics /\ Clean(static')
  BY <1>5, <1>6, <1>7, KeysDownTyped
<1>9. held' \subseteq Keys /\ Statics' = Statics
  BY <1>1 DEF Typed, process_combo_Release, Statics, Fields, Pairs, Combos, KeysOf,
              COMBO_BUFFER_LENGTH, Longest
<1> QED
  BY <1>1, <1>8, <1>9 DEF Typed, Clean

\* So does the switch.
LEMMA SwitchTyped ==
  ASSUME Typed, NEW enable \in BOOLEAN, process_combo_Switch(enable)
  PROVE  Typed'
<1>1. build \in Builds /\ static \in Statics /\ Clean(static) /\ build' = build
  BY DEF Typed, process_combo_Switch
<1> DEFINE m == IF enable THEN [static EXCEPT !.b_combo_enable = TRUE] ELSE combo_disable(static)
           D == m.keys_down \cup {SwitchKey}
<1>2. m \in Statics /\ Clean(m)
  <2>1. CASE enable
    BY <1>1, <2>1 DEF Statics, Fields, Clean
  <2>2. CASE ~enable
    BY <1>1, <2>2, DisableIs
  <2> QED
    BY <2>1, <2>2
<1>3. static' = [m EXCEPT !.keys_down = D]
  BY DEF process_combo_Switch
<1> HIDE DEF m
<1>4. D \in SUBSET Keys
  BY <1>2, ComboAssumption DEF Statics, Fields
<1> HIDE DEF D
<1>5. static' \in Statics /\ Clean(static')
  BY <1>2, <1>3, <1>4, KeysDownTyped
<1>6. held' \subseteq Keys /\ Statics' = Statics
  BY <1>1, ComboAssumption DEF Typed, process_combo_Switch, Statics, Fields, Pairs, Combos, KeysOf,
              COMBO_BUFFER_LENGTH, Longest
<1> QED
  BY <1>1, <1>5, <1>6 DEF Typed, Clean

\* So does combo_task.
LEMMA TaskTyped ==
  ASSUME Typed, combo_task
  PROVE  Typed'
<1>1. /\ build \in Builds /\ static \in Statics /\ build' = build /\ held' = held
      /\ held \subseteq Keys
  BY DEF Typed, combo_task
<1> DEFINE n == flush(static)
<1>2. n \in Statics /\ Clean(n)
  BY <1>1, FlushTyped
<1>3. static' = [n EXCEPT !.longest_term = 0, !.timer = Off]
  BY DEF combo_task
<1> HIDE DEF n
<1>4. static' \in Statics /\ Clean(static')
  BY <1>2, <1>3 DEF Statics, Fields, Clean
<1>5. Statics' = Statics
  BY <1>1 DEF Statics, Fields, Pairs, Combos, KeysOf, COMBO_BUFFER_LENGTH, Longest
<1> QED
  BY <1>1, <1>4, <1>5 DEF Typed, Clean

\* The timer does not run away, as combo_task stops it.
LEMMA TickTyped ==
  ASSUME Typed, Tick
  PROVE  Typed'
<1>1. /\ build \in Builds /\ static \in Statics /\ Clean(static)
      /\ build' = build /\ held' = held /\ held \subseteq Keys
  BY DEF Typed, Tick
<1> DEFINE time == static.timer + 1
<1>2. time \in {Off} \cup 0 .. Longest
  BY <1>1, ComboAssumption DEF Tick, Statics, Fields, Longest, Off
<1>3. static' = [static EXCEPT !.timer = time]
  BY DEF Tick
<1> HIDE DEF time
<1>4. static' \in Statics /\ Clean(static')
  BY <1>1, <1>2, <1>3 DEF Statics, Fields, Clean
<1>5. Statics' = Statics
  BY <1>1 DEF Statics, Fields, Pairs, Combos, KeysOf, COMBO_BUFFER_LENGTH, Longest
<1> QED
  BY <1>1, <1>4, <1>5 DEF Typed, Clean

\* Every step leaves the types.
LEMMA NextTyped ==
  ASSUME Typed, [Next]_vars
  PROVE  Typed'
<1>1. ASSUME UNCHANGED vars PROVE Typed'
  <2>1. build' = build /\ held' = held /\ static' = static
    BY <1>1 DEF vars
  <2>2. Statics' = Statics
    BY <2>1 DEF Statics, Fields, Pairs, Combos, KeysOf, COMBO_BUFFER_LENGTH, Longest
  <2> QED
    BY <2>1, <2>2 DEF Typed, Clean
<1> QED
  BY <1>1, PressTyped, ReleaseKeyTyped, SwitchTyped, TaskTyped, TickTyped DEF Next

\* The variables of process_combo.c stay within their types, whatever the keymap and the
\* options, and neither buffer is written beyond its end: key_buffer by the test in
\* process_combo, combo_buffer because a ring that is full counts as empty.
THEOREM TypeCorrect == Spec => []TypeOK
<1>1. Init => Typed
  BY InitTyped
<1>2. Typed /\ [Next]_vars => Typed'
  BY NextTyped
<1>3. Typed => TypeOK
  BY DEF Typed, TypeOK, Clean, Statics, Fields, Pairs, Longest
<1> QED
  BY <1>1, <1>2, <1>3, PTL DEF Spec

-----------------------------------------------------------------------------
(* What a flush makes of the presses.                                      *)

\* The combos of A all of whose keys are in the buffer.
Formed(m, A) == {c \in A : KeysOf(c) \subseteq Range(m.key_buffer)}

\* The presses that are used up, and the combos they became.
Used(m)  == m.ticks \cup {p[1] : p \in m.fired}
Downs(m) == {p[2] : p \in m.fired}

\* The combos of A have been applied to o.
AppliedTo(o, m, A) ==
  /\ SameScan(o, m)
  /\ m.active = o.active \cup Formed(o, A)
  /\ Used(m) = UNION {Chord(o, c) : c \in A}
  /\ Downs(m) = Formed(o, A)

\* o has been flushed, and the combos of A were applied to it.
FlushedAs(o, n, A) ==
  /\ n.active = o.active \cup Formed(o, A)
  /\ n.state = {p \in o.state : p[1] \in n.active}
  /\ n.disabled = n.active
  /\ n.key_buffer = <<>> /\ n.combo_buffer = <<>>
  /\ n.keys_down = o.keys_down \cup (Range(o.key_buffer) \ UNION {KeysOf(c) : c \in A})
  /\ n.combos_down = o.combos_down \cup Formed(o, A)

\* The whole chord is used, and it makes a combo if all keys are there.
LEMMA ChordIs ==
  ASSUME NEW m \in Statics, NEW c \in Combos, IsInjective(m.key_buffer), KeysOf(c) # {}
  PROVE  /\ Ticks(m, c) \cup Latest(m, c) = Chord(m, c)
         /\ Full(m, c) # {} <=> KeysOf(c) \subseteq Range(m.key_buffer)
         /\ Latest(m, c) # {} <=> Full(m, c) # {}
<1>1. /\ DOMAIN m.key_buffer = 1 .. Len(m.key_buffer) /\ Len(m.key_buffer) \in Nat
      /\ Chord(m, c) \subseteq DOMAIN m.key_buffer /\ Chord(m, c) \subseteq Nat
      /\ Latest(m, c) \subseteq Full(m, c) /\ Full(m, c) \subseteq Chord(m, c)
      /\ Ticks(m, c) \subseteq Chord(m, c)
  BY ChordTyped
<1>2. Latest(m, c) # {} <=> Full(m, c) # {}
  BY DEF Latest
<1>3. ASSUME NEW i \in Chord(m, c) PROVE i \in Ticks(m, c) \cup Latest(m, c)
  <2>1. ASSUME NEW l \in Latest(m, c) PROVE i <= l
    <3>1. l \in Full(m, c)
      BY <1>1
    <3>2. m.key_buffer[i] \in {m.key_buffer[j] : j \in Chord(m, c) \cap 1 .. l}
      BY <3>1 DEF Full, Chord
    <3>3. PICK j \in Chord(m, c) \cap 1 .. l : m.key_buffer[i] = m.key_buffer[j]
      BY <3>2
    <3>4. i = j
      BY <1>1, <3>3 DEF IsInjective
    <3> QED
      BY <3>3, <3>4
  <2>2. \A l \in Latest(m, c) : l \in Nat
    BY <1>1
  <2> QED
    BY <1>1, <2>1, <2>2 DEF Ticks, Latest
<1>4. ASSUME KeysOf(c) \subseteq Range(m.key_buffer) PROVE Full(m, c) # {}
  <2>1. PICK key \in KeysOf(c) : TRUE
    OBVIOUS
  <2>2. Chord(m, c) # {}
    BY <1>4, <2>1 DEF Chord, Range
  <2>3. Chord(m, c) \subseteq 0 .. Len(m.key_buffer)
    BY <1>1
  <2>4. PICK x \in Chord(m, c) : \A y \in Chord(m, c) : y <= x
    BY <1>1, <2>2, <2>3, GreatestExists
  <2>5. Chord(m, c) \cap 1 .. x = Chord(m, c)
    BY <1>1, <2>4
  <2>6. KeysOf(c) = {m.key_buffer[j] : j \in Chord(m, c)}
    BY <1>4 DEF Chord, Range
  <2> QED
    BY <2>4, <2>5, <2>6 DEF Full
<1>5. ASSUME Full(m, c) # {} PROVE KeysOf(c) \subseteq Range(m.key_buffer)
  <2>1. PICK i \in Full(m, c) : KeysOf(c) = {m.key_buffer[j] : j \in Chord(m, c) \cap 1 .. i}
    BY <1>5 DEF Full
  <2> QED
    BY <1>1, <2>1 DEF Range
<1> QED
  BY <1>1, <1>2, <1>3, <1>4, <1>5

\* One more combo is applied, that overlaps with none before.
LEMMA ApplyFormed ==
  ASSUME build \in Builds, NEW o \in Statics, NEW m \in Statics, NEW A \in SUBSET Combos,
         AppliedTo(o, m, A), IsInjective(o.key_buffer),
         NEW c \in Combos, c \notin m.disabled, KeysOf(c) # {}, \A d \in A : ~Overlaps(d, c),
         NEW n, n = apply_combo(m, c)
  PROVE  AppliedTo(o, n, A \cup {c})
<1>1. /\ n \in Statics /\ SameScan(m, n)
      /\ n.active = m.active \cup (IF Full(m, c) = {} THEN {} ELSE {c})
      /\ n.ticks = (m.ticks \cup Ticks(m, c)) \ Latest(m, c)
      /\ n.fired = Kept(m, c) \cup (Latest(m, c) \X {c})
  BY ApplyComboIs
<1>2. m.key_buffer = o.key_buffer
  BY DEF AppliedTo, SameScan
<1>3. /\ Ticks(m, c) \cup Latest(m, c) = Chord(m, c)
      /\ Full(m, c) # {} <=> KeysOf(c) \subseteq Range(m.key_buffer)
      /\ Latest(m, c) # {} <=> Full(m, c) # {}
  BY <1>2, ChordIs
<1>4. Chord(m, c) = Chord(o, c)
  BY <1>2 DEF Chord
<1>5. Used(m) = UNION {Chord(o, d) : d \in A} /\ Downs(m) = Formed(o, A)
  BY DEF AppliedTo
<1>6. Used(m) \cap Chord(o, c) = {}
  <2>1. \A d \in A : Chord(o, d) \cap Chord(o, c) = {}
    BY DEF Chord, Overlaps
  <2> QED
    BY <1>5, <2>1
<1>7. Kept(m, c) = m.fired
  BY <1>3, <1>4, <1>6 DEF Kept, Used
<1>14. /\ {p[1] : p \in n.fired} = {p[1] : p \in Kept(m, c)} \cup Latest(m, c)
      /\ {p[2] : p \in n.fired}
           = {p[2] : p \in Kept(m, c)} \cup (IF Latest(m, c) = {} THEN {} ELSE {c})
  <2> DEFINE L == Latest(m, c)
             K == Kept(m, c)
             F == n.fired
  <2>1. F = K \cup (L \X {c})
    BY <1>1
  <2> HIDE DEF L, K, F
  <2>2. \A l \in L : <<l, c>> \in F /\ <<l, c>>[1] = l /\ <<l, c>>[2] = c
    BY <2>1
  <2>3. \A p \in F : p \in K \/ (p[1] \in L /\ p[2] = c)
    BY <2>1
  <2>4. K \subseteq F
    BY <2>1
  <2>5. {p[1] : p \in F} = {p[1] : p \in K} \cup L
    <3>1. ASSUME NEW l \in L PROVE l \in {p[1] : p \in F}
      BY <2>2
    <3> QED
      BY <2>3, <2>4, <3>1
  <2>6. {p[2] : p \in F} = {p[2] : p \in K} \cup (IF L = {} THEN {} ELSE {c})
    <3>1. CASE L = {}
      BY <2>3, <2>4, <3>1
    <3>2. CASE L # {}
      <4>1. c \in {p[2] : p \in F}
        BY <2>2, <3>2
      <4> QED
        BY <2>3, <2>4, <3>2, <4>1
    <3> QED
      BY <3>1, <3>2
  <2> QED
    BY <2>5, <2>6 DEF F, K, L
<1>8. Used(n) = Used(m) \cup Chord(o, c)
  <2>1. {p[1] : p \in n.fired} = {p[1] : p \in m.fired} \cup Latest(m, c)
    BY <1>7, <1>14
  <2> QED
    BY <1>1, <1>3, <1>4, <2>1 DEF Used
<1>9. Formed(o, A \cup {c}) = Formed(o, A) \cup (IF Full(m, c) = {} THEN {} ELSE {c})
  BY <1>2, <1>3 DEF Formed
<1>10. Downs(n) = Formed(o, A \cup {c})
  <2>1. Downs(n) = Downs(m) \cup (IF Latest(m, c) = {} THEN {} ELSE {c})
    BY <1>7, <1>14 DEF Downs
  <2> QED
    BY <1>3, <1>5, <1>9, <2>1
<1>11. Used(n) = UNION {Chord(o, d) : d \in A \cup {c}}
  BY <1>5, <1>8
<1>12. SameScan(o, n)
  BY <1>1 DEF AppliedTo, SameScan, SameInput
<1>13. n.active = o.active \cup Formed(o, A \cup {c})
  BY <1>1, <1>9 DEF AppliedTo
<1> QED
  BY <1>10, <1>11, <1>12, <1>13 DEF AppliedTo

\* A sequence with an element has a first one.
LEMMA NonEmptyIs ==
  ASSUME NEW S, NEW s \in Seq(S), NEW k \in Nat, Len(s) = k, k > 0
  PROVE  s # <<>> /\ 1 \in DOMAIN s /\ Head(s) = s[1]
OBVIOUS

\* The rest of the ring.
LEMMA RestOf ==
  ASSUME NEW S, NEW r \in Seq(S), NEW i \in Nat, i + 1 <= Len(r),
         NEW s, s = SubSeq(r, i + 1, Len(r))
  PROVE  /\ s # <<>> /\ Head(s) = r[i + 1] /\ r[i + 1] \in Range(s)
         /\ Tail(s) = SubSeq(r, i + 2, Len(r))
<1>1. Len(r) \in Nat /\ i + 1 \in 1 .. Len(r) /\ Len(r) \in i + 1 .. Len(r)
  OBVIOUS
<1>2. Head(s) = r[i + 1] /\ Tail(s) = SubSeq(r, i + 2, Len(r))
  BY <1>1, HeadTailOfSubSeq
<1>3. s \in Seq(S) /\ Len(s) = Len(r) - i /\ Len(r) - i \in Nat /\ Len(r) - i > 0
  <2>1. \A j \in i + 1 .. Len(r) : r[j] \in S
    BY <1>1
  <2>2. s \in Seq(S) /\ Len(s) = IF i + 1 <= Len(r) THEN Len(r) - (i + 1) + 1 ELSE 0
    BY <1>1, <2>1, SubSeqProperties
  <2> QED
    BY <1>1, <2>2
<1>4. s # <<>> /\ 1 \in DOMAIN s /\ Head(s) = s[1]
  BY <1>1, <1>3, NonEmptyIs
<1> QED
  BY <1>2, <1>4 DEF Range

\* No two combos in the ring overlap.
Apart(m) ==
  \A i, j \in DOMAIN m.combo_buffer : i # j => ~Overlaps(m.combo_buffer[i], m.combo_buffer[j])

\* Combos have keys (one of ChordsOnly's consequences).
NoneEmpty == \A c \in Combos : KeysOf(c) # {}

\* A pass over the ring applies all combos but the tap-only ones; A are those that have
\* been applied before.
LEMMA PassIs ==
  ASSUME build \in Builds, NoneEmpty, NEW o \in Statics, NEW m \in Statics,
         NEW A \in SUBSET Combos, AppliedTo(o, m, A), IsInjective(o.key_buffer), Apart(m),
         \A c \in Range(m.combo_buffer) :
           c \in build.must_tap \/ (c \notin m.disabled /\ \A a \in A : ~Overlaps(a, c)),
         NEW f, IsPass(f, m, Len(m.combo_buffer)), NEW x, x = f[Len(m.combo_buffer)]
  PROVE  /\ x \in Statics /\ x.combo_buffer = <<>>
         /\ x.disabled = m.disabled \cup Range(m.combo_buffer)
         /\ AppliedTo(o, x, A \cup (Range(m.combo_buffer) \ build.must_tap))
<1> DEFINE ring == m.combo_buffer
           size == Len(ring)
           First(i) == {ring[j] : j \in 1 .. i}
           Is(i) == /\ f[i].combo_buffer = SubSeq(ring, i + 1, size)
                    /\ f[i].disabled = m.disabled \cup First(i)
                    /\ AppliedTo(o, f[i], A \cup (First(i) \ build.must_tap))
           S == {i \in Nat : i <= size => Is(i)}
<1>1. /\ ring \in Seq(Combos) /\ size \in Nat /\ DOMAIN ring = 1 .. size
      /\ Range(ring) = First(size) /\ \A j \in 1 .. size : ring[j] \in Combos
  BY DEF Statics, Fields, Range
<1>2. \A i \in 0 .. size : f[i] \in Statics /\ SameScan(m, f[i])
  BY PassTyped
<1>3. 0 \in S
  <2>1. f[0] = m
    BY <1>1 DEF IsPass
  <2>2. First(0) = {}
    <3>1. 1 .. 0 = {}
      OBVIOUS
    <3> QED
      BY <3>1
  <2>3. SubSeq(ring, 0 + 1, size) = ring
    BY <1>1, SubSeqFull
  <2> HIDE DEF First, ring
  <2>4. A \cup (First(0) \ build.must_tap) = A
    BY <2>2
  <2> QED
    BY <2>1, <2>2, <2>3, <2>4 DEF ring
<1>4. ASSUME NEW i \in Nat, i \in S PROVE i + 1 \in S
  <2> HIDE DEF Is
  <2> SUFFICES ASSUME i + 1 <= size PROVE Is(i + 1)
    OBVIOUS
  <2> USE DEF Is
  <2> DEFINE c == ring[i + 1]
             u == f[i]
             v == f[i + 1]
             B == A \cup (First(i) \ build.must_tap)
  <2>1. i <= size /\ i \in 0 .. size /\ i + 1 \in 0 .. size /\ i + 1 \in 1 .. size
    BY <1>1
  <2>2. Is(i)
    BY <1>4, <2>1
  <2>3. u \in Statics /\ v \in Statics
    BY <1>2, <2>1
  <2>4. v = apply_one(u, c)
    <3>1. i + 1 # 0 /\ (i + 1) - 1 = i
      OBVIOUS
    <3>2. v = apply_one(f[(i + 1) - 1], m.combo_buffer[i + 1])
      BY <2>1, <3>1 DEF IsPass
    <3> QED
      BY <3>1, <3>2
  <2>5. c \in Combos /\ c \in Range(ring)
    BY <1>1, <2>1 DEF Range
  <2>6. /\ u.combo_buffer = SubSeq(ring, i + 1, size) /\ u.disabled = m.disabled \cup First(i)
        /\ AppliedTo(o, u, B)
    BY <2>2
  <2>7. First(i + 1) = First(i) \cup {c}
    <3>1. 1 .. i + 1 = (1 .. i) \cup {i + 1}
      OBVIOUS
    <3> QED
      BY <3>1
  <2>8. /\ Head(u.combo_buffer) = c /\ c \in Range(u.combo_buffer)
        /\ Tail(u.combo_buffer) = SubSeq(ring, i + 2, size)
    BY <1>1, <2>6, RestOf
  <2>9. \A j \in 1 .. i : j \in DOMAIN ring /\ i + 1 \in DOMAIN ring /\ j # i + 1
    BY <1>1, <2>1
  <2>10. \A d \in First(i) : ~Overlaps(d, c)
    BY <2>9 DEF Apart
  <2>11. B \in SUBSET Combos
    BY <1>1, <2>1
  <2>12. KeysOf(c) # {}
    BY <2>5 DEF NoneEmpty
  <2> HIDE DEF ring, First, c, u, v, B, S
  <2>13. v.combo_buffer = SubSeq(ring, i + 2, size) /\ v.disabled = u.disabled \cup {c}
         /\ AppliedTo(o, v, IF c \in build.must_tap THEN B ELSE B \cup {c})
    <3>1. CASE c \in build.must_tap
      <4>1. v = drop_combo_from_buffer(u, c)
        BY <2>4, <3>1 DEF apply_one
      <4>2. /\ SameScan(u, v) /\ v.active = u.active /\ v.ticks = u.ticks /\ v.fired = u.fired
            /\ v.disabled = u.disabled \cup {c} /\ v.combo_buffer = Tail(u.combo_buffer)
        BY <2>3, <2>5, <2>8, <4>1, DropIs
      <4>3. AppliedTo(o, v, B)
        BY <2>6, <4>2 DEF AppliedTo, Used, Downs, SameScan, SameInput
      <4> QED
        BY <2>8, <3>1, <4>2, <4>3
    <3>2. CASE c \notin build.must_tap
      <4>1. v = apply_combo(u, c)
        BY <2>4, <3>2 DEF apply_one
      <4>2. c \notin m.disabled /\ \A a \in A : ~Overlaps(a, c)
        BY <2>5, <3>2 DEF ring
      <4>3. c \notin First(i)
        BY <2>10, <2>12 DEF Overlaps
      <4>4. c \notin u.disabled
        BY <2>6, <4>2, <4>3
      <4>5. \A d \in B : ~Overlaps(d, c)
        BY <2>10, <4>2 DEF B
      <4>6. v.disabled = u.disabled \cup {c} /\ v.combo_buffer = Tail(u.combo_buffer)
        BY <2>3, <2>5, <2>8, <4>1, <4>4, ApplyComboIs
      <4>7. AppliedTo(o, v, B \cup {c})
        BY <2>3, <2>5, <2>6, <2>11, <2>12, <4>1, <4>4, <4>5, ApplyFormed
      <4> QED
        BY <2>8, <3>2, <4>6, <4>7
    <3> QED
      BY <3>1, <3>2
  <2>14. A \cup (First(i + 1) \ build.must_tap) = IF c \in build.must_tap THEN B ELSE B \cup {c}
    BY <2>7 DEF B
  <2>15. (i + 1) + 1 = i + 2
    OBVIOUS
  <2> QED
    BY <2>6, <2>7, <2>13, <2>14, <2>15 DEF v
<1> HIDE DEF S
<1>5. Nat \subseteq S
  BY <1>3, <1>4, SetInduction
<1>6. Is(size)
  <2>1. size \in S /\ size <= size
    BY <1>1, <1>5
  <2> HIDE DEF Is, size
  <2> QED
    BY <2>1 DEF S
<1>7. SubSeq(ring, size + 1, size) = <<>>
  BY <1>1, SubSeqEmpty
<1>8. x \in Statics
  BY <1>1, <1>2
<1> HIDE DEF First
<1> QED
  BY <1>1, <1>6, <1>7, <1>8

\* What is left to be typed is all that is in no chord.
LEMMA LeftOver ==
  ASSUME NEW o \in Statics, NEW x \in Statics, NEW A \in SUBSET Combos, AppliedTo(o, x, A)
  PROVE  {x.key_buffer[i] : i \in DOMAIN x.key_buffer \ (x.ticks \cup {p[1] : p \in x.fired})}
           = Range(o.key_buffer) \ UNION {KeysOf(c) : c \in A}
<1>1. x.key_buffer = o.key_buffer
  BY DEF AppliedTo, SameScan
<1>2. x.ticks \cup {p[1] : p \in x.fired} = UNION {Chord(o, c) : c \in A}
  BY DEF AppliedTo, Used
<1>3. \A i \in DOMAIN o.key_buffer :
        i \in UNION {Chord(o, c) : c \in A} <=> o.key_buffer[i] \in UNION {KeysOf(c) : c \in A}
  BY DEF Chord
<1> QED
  BY <1>1, <1>2, <1>3 DEF Range

\* apply_combos flushes.
LEMMA ApplyCombosFlush ==
  ASSUME build \in Builds, NoneEmpty, NEW o \in Statics, NEW m \in Statics,
         NEW A \in SUBSET Combos, AppliedTo(o, m, A), IsInjective(o.key_buffer), Apart(m),
         \A c \in Range(m.combo_buffer) :
           c \in build.must_tap \/ (c \notin m.disabled /\ \A a \in A : ~Overlaps(a, c)),
         o.active \subseteq m.disabled, Formed(o, A) \subseteq m.disabled,
         NEW n, n = apply_combos(m)
  PROVE  FlushedAs(o, n, A \cup (Range(m.combo_buffer) \ build.must_tap))
<1> DEFINE all == A \cup (Range(m.combo_buffer) \ build.must_tap)
<1>1. PICK f : /\ IsPass(f, m, Len(m.combo_buffer))
               /\ apply_combos(m) = clear_combos(dump_key_buffer(f[Len(m.combo_buffer)]))
  BY ApplyCombosIs
<1> DEFINE x == f[Len(m.combo_buffer)]
           y == dump_key_buffer(x)
<1>2. /\ x \in Statics /\ x.combo_buffer = <<>>
      /\ x.disabled = m.disabled \cup Range(m.combo_buffer) /\ AppliedTo(o, x, all)
  BY <1>1, PassIs
<1>3. all \in SUBSET Combos
  BY DEF Statics, Fields, Range
<1> HIDE DEF x, all
<1>4. /\ y \in Statics
      /\ y.state = x.state /\ y.active = x.active /\ y.disabled = x.disabled
      /\ y.key_buffer = <<>> /\ y.combo_buffer = x.combo_buffer
      /\ y.keys_down = x.keys_down \cup {x.key_buffer[i] : i \in DOMAIN x.key_buffer \
                                             (x.ticks \cup {p[1] : p \in x.fired})}
      /\ y.combos_down = x.combos_down \cup {p[2] : p \in x.fired}
  BY <1>2, DumpIs
<1>5. n = clear_combos(y)
  BY <1>1 DEF x
<1> HIDE DEF y
<1>6. /\ n.state = {p \in y.state : p[1] \in y.active}
      /\ n.active = y.active /\ n.disabled = y.disabled \cap y.active
      /\ n.key_buffer = y.key_buffer /\ n.combo_buffer = y.combo_buffer
      /\ n.keys_down = y.keys_down /\ n.combos_down = y.combos_down
  BY <1>4, <1>5, ClearCombosIs
<1>7. {x.key_buffer[i] : i \in DOMAIN x.key_buffer \ (x.ticks \cup {p[1] : p \in x.fired})}
           = Range(o.key_buffer) \ UNION {KeysOf(c) : c \in all}
  BY <1>2, <1>3, LeftOver
<1>8. /\ x.state = o.state /\ x.keys_down = o.keys_down /\ x.combos_down = o.combos_down
      /\ x.active = o.active \cup Formed(o, all) /\ {p[2] : p \in x.fired} = Formed(o, all)
  BY <1>2 DEF AppliedTo, SameScan, Downs
<1>9. x.active \subseteq x.disabled
  BY <1>2, <1>8 DEF all, Formed
<1>10. FlushedAs(o, n, all)
  <2>1. n.active = o.active \cup Formed(o, all) /\ n.disabled = n.active
    BY <1>4, <1>6, <1>8, <1>9
  <2>2. n.state = {p \in o.state : p[1] \in n.active}
    BY <1>4, <1>6, <1>8
  <2>3. n.key_buffer = <<>> /\ n.combo_buffer = <<>>
    BY <1>2, <1>4, <1>6
  <2>4. n.keys_down = o.keys_down \cup (Range(o.key_buffer) \ UNION {KeysOf(c) : c \in all})
    BY <1>4, <1>6, <1>7, <1>8
  <2>5. n.combos_down = o.combos_down \cup Formed(o, all)
    BY <1>4, <1>6, <1>8
  <2> QED
    BY <2>1, <2>2, <2>3, <2>4, <2>5 DEF FlushedAs
<1> QED
  BY <1>10 DEF all

-----------------------------------------------------------------------------
(* The invariant, for a state m within an event: H, keys held down; B,     *)
(* presses that are held back; G, pairs <<c, key>> of a combo of the ring  *)
(* and a key of its chord that c has seen go up.                           *)

\* A key that is down counts in one place: it was handed on, or it is held back or known to
\* combos.
KeysInv(m, H, B) ==
  /\ m.keys_down \subseteq H
  /\ Range(B) \subseteq H \ m.keys_down /\ IsInjective(B)
  /\ \A c \in Combos : StateOf(m, c) \subseteq H \ m.keys_down

\* A combo that is down has keys of its own.
ActiveInv(m, B) ==
  /\ m.combos_down = m.active /\ m.active \subseteq m.disabled
  /\ \A c \in m.active :
       /\ StateOf(m, c) # {} /\ StateOf(m, c) \cap Range(B) = {}
       /\ \A d \in Combos \ {c} : StateOf(m, c) \cap StateOf(m, d) = {}

\* Combos in the ring are complete, and can be applied.
RingLive(m, B, G) ==
  /\ Apart(m)
  /\ \A c \in Range(m.combo_buffer) :
       /\ c \notin m.disabled
       /\ \A key \in KeysOf(c) : <<c, key>> \in m.state \cup G
       /\ c \in build.in_order => Ordered(c, B)

\* All complete combos are in the ring.
Prepared(m) ==
  \A c \in Combos \ (m.active \cup m.disabled) : Complete(m, c) => c \in Range(m.combo_buffer)

\* Keys of a combo that asks for an order are known from its first one on.
OrderInv(m, B) ==
  \A c \in build.in_order \ m.active : \A i, j \in DOMAIN build.combos[c] :
    i < j /\ build.combos[c][j] \in StateOf(m, c) =>
      /\ build.combos[c][i] \in StateOf(m, c)
      /\ \A p, q \in DOMAIN B : B[p] = build.combos[c][i] /\ B[q] = build.combos[c][j] => p < q

\* What a combo that is not down knows of is held back.
FreshInv(m, B) ==
  BufferSuffices => \A c \in Combos \ m.active : StateOf(m, c) \subseteq Range(B)

\* So are the keys of the combos in the ring.
RingFresh(m, B) ==
  BufferSuffices => \A c \in Range(m.combo_buffer) : KeysOf(c) \subseteq Range(B)

\* The keys of P are handed on, held back, or part of a combo that is down.
HandedOn(m, P, B) ==
  BufferSuffices => \A key \in P : \/ key \in m.keys_down \cup Range(B)
                                   \/ \E c \in m.active : key \in StateOf(m, c)

\* Only keys of combos are held back.
OfCombos(B) == \A key \in Range(B) : \E c \in Combos : key \in KeysOf(c)

-----------------------------------------------------------------------------
(* A flush and the invariant.                                              *)

\* What combos know of after clear_combos, and after a press.
LEMMA KnownCleared ==
  ASSUME NEW o, NEW n, n.state = {p \in o.state : p[1] \in n.active}
  PROVE  \A c : StateOf(n, c) = IF c \in n.active THEN StateOf(o, c) ELSE {}
<1> SUFFICES ASSUME NEW c, NEW key \in KeysOf(c)
             PROVE  <<c, key>> \in n.state <=> (c \in n.active /\ <<c, key>> \in o.state)
  BY DEF StateOf
<1>1. <<c, key>>[1] = c
  OBVIOUS
<1> QED
  BY <1>1

\* Only c learns of a press it sees.
LEMMA KnownAdded ==
  ASSUME NEW m, NEW n, NEW c, NEW key \in KeysOf(c), n.state = m.state \cup {<<c, key>>}
  PROVE  /\ StateOf(n, c) = StateOf(m, c) \cup {key}
         /\ \A d : d # c => StateOf(n, d) = StateOf(m, d)
<1>1. \A d, k : <<d, k>> = <<c, key>> <=> d = c /\ k = key
  OBVIOUS
<1> QED
  BY <1>1 DEF StateOf

\* Distinct combos in the ring do not overlap.
LEMMA ApartIs ==
  ASSUME NEW m \in Statics, Apart(m)
  PROVE  /\ \A c, d \in Range(m.combo_buffer) : c # d => ~Overlaps(c, d)
         /\ Range(m.combo_buffer) \subseteq Combos
<1>1. m.combo_buffer \in Seq(Combos)
  BY DEF Statics, Fields
<1> QED
  BY <1>1 DEF Apart, Range

\* The combos of A can be applied; keys of G are those of p[2] = key.
Flushable(m, H, G, key, P, A) ==
  /\ A \subseteq Range(m.combo_buffer)
  /\ \A c \in Combos : KeysOf(c) \ {key} # {}
  /\ \A p \in G : p[2] = key
  /\ G = {} \/ key \notin P
  /\ KeysInv(m, H, m.key_buffer) /\ ActiveInv(m, m.key_buffer)
  /\ RingLive(m, m.key_buffer, G) /\ RingFresh(m, m.key_buffer)
  /\ HandedOn(m, P, m.key_buffer)

\* Nothing is held back, and nothing is known of combos that are not down.
Emptied(m, H, P) ==
  /\ KeysInv(m, H, <<>>) /\ ActiveInv(m, <<>>) /\ HandedOn(m, P, <<>>)
  /\ \A c \in Combos \ m.active : StateOf(m, c) = {}

\* The state after a flush.
LEMMA FlushedInv ==
  ASSUME build \in Builds, NEW o \in Statics, NEW n \in Statics, NEW H, NEW G, NEW key, NEW P,
         NEW A, FlushedAs(o, n, A), Flushable(o, H, G, key, P, A)
  PROVE  Emptied(n, H, P) /\ \A c \in Formed(o, A) : KeysOf(c) \ {key} \subseteq StateOf(n, c)
<1> USE DEF Flushable
<1> DEFINE typed == Range(o.key_buffer) \ UNION {KeysOf(c) : c \in A}
<1>1. /\ n.active = o.active \cup Formed(o, A)
      /\ n.state = {p \in o.state : p[1] \in n.active} /\ n.disabled = n.active
      /\ n.keys_down = o.keys_down \cup typed
      /\ n.combos_down = o.combos_down \cup Formed(o, A)
  BY DEF FlushedAs
<1>2. \A c : StateOf(n, c) = IF c \in n.active THEN StateOf(o, c) ELSE {}
  BY <1>1, KnownCleared
<1>3. /\ A \subseteq Combos /\ Formed(o, A) \subseteq A
      /\ \A c, d \in A : c # d => KeysOf(c) \cap KeysOf(d) = {}
  BY ApartIs DEF RingLive, Overlaps, Formed
<1>4. \A c \in A : KeysOf(c) \ {key} \subseteq StateOf(o, c)
  <2> SUFFICES ASSUME NEW c \in A, NEW k \in KeysOf(c), k # key PROVE <<c, k>> \in o.state
    BY DEF StateOf
  <2>1. <<c, k>> \in o.state \cup G
    BY DEF RingLive
  <2>2. <<c, k>>[2] = k
    OBVIOUS
  <2> QED
    BY <2>1, <2>2
<1>5. \A c \in Formed(o, A) : KeysOf(c) \ {key} \subseteq StateOf(n, c)
  BY <1>1, <1>2, <1>3, <1>4
<1>6. \A c \in Combos \ n.active : StateOf(n, c) = {}
  BY <1>2
<1>7. Range(<<>>) = {} /\ IsInjective(<<>>)
  BY DEF Range, IsInjective
<1>8. \A c \in n.active : StateOf(o, c) \cap typed = {}
  <2>1. \A c \in o.active : StateOf(o, c) \cap Range(o.key_buffer) = {}
    BY DEF ActiveInv
  <2>2. \A c \in Formed(o, A) : StateOf(o, c) \subseteq KeysOf(c) /\ KeysOf(c) \cap typed = {}
    BY <1>3 DEF StateOf
  <2> HIDE DEF typed
  <2>3. ASSUME NEW c \in n.active PROVE StateOf(o, c) \cap typed = {}
    <3>1. CASE c \in o.active
      BY <2>1, <3>1 DEF typed
    <3>2. CASE c \in Formed(o, A)
      BY <2>2, <3>2
    <3> QED
      BY <1>1, <3>1, <3>2
  <2> QED
    BY <2>3
<1>9. KeysInv(n, H, <<>>)
  <2>1. typed \subseteq H
    BY DEF KeysInv
  <2>2. \A c \in Combos : StateOf(o, c) \subseteq H \ o.keys_down
    BY DEF KeysInv
  <2> HIDE DEF typed
  <2>3. \A c \in Combos : StateOf(n, c) \subseteq H \ n.keys_down
    BY <1>1, <1>2, <1>8, <2>2
  <2> QED
    BY <1>1, <1>7, <2>1, <2>3 DEF KeysInv
<1>10. ActiveInv(n, <<>>)
  <2>1. n.combos_down = n.active
    BY <1>1 DEF ActiveInv
  <2>2. ASSUME NEW c \in n.active PROVE StateOf(n, c) # {}
    <3>1. CASE c \in o.active
      BY <1>2, <3>1 DEF ActiveInv
    <3>2. CASE c \in Formed(o, A)
      BY <1>3, <1>5, <3>2
    <3> QED
      BY <1>1, <3>1, <3>2
  <2>3. ASSUME NEW c \in n.active, NEW d \in n.active, c # d
        PROVE  StateOf(o, c) \cap StateOf(o, d) = {}
    <3>1. n.active \subseteq Combos
      BY DEF Statics, Fields
    <3>2. CASE c \in o.active \/ d \in o.active
      BY <2>3, <3>1, <3>2 DEF ActiveInv
    <3>3. CASE c \in Formed(o, A) /\ d \in Formed(o, A)
      BY <1>3, <2>3, <3>3 DEF StateOf
    <3> QED
      BY <1>1, <3>2, <3>3
  <2>4. \A c \in n.active : \A d \in Combos \ {c} : StateOf(n, c) \cap StateOf(n, d) = {}
    BY <1>2, <2>3
  <2> QED
    BY <1>1, <1>7, <2>1, <2>2, <2>4 DEF ActiveInv
<1>11. HandedOn(n, P, <<>>)
  <2> SUFFICES ASSUME BufferSuffices, NEW k \in P, k \notin n.keys_down
               PROVE  \E c \in n.active : k \in StateOf(n, c)
    BY DEF HandedOn
  <2>1. \/ k \in o.keys_down \cup Range(o.key_buffer)
        \/ \E c \in o.active : k \in StateOf(o, c)
    BY DEF HandedOn
  <2>2. k \notin o.keys_down /\ k \notin typed
    BY <1>1
  <2>3. CASE k \in Range(o.key_buffer)
    <3>1. PICK c \in A : k \in KeysOf(c)
      BY <2>2, <2>3
    <3>2. KeysOf(c) \subseteq Range(o.key_buffer)
      BY DEF RingFresh
    <3>3. c \in n.active
      BY <1>1, <3>2 DEF Formed
    <3>4. k \in StateOf(o, c)
      <4>1. CASE k # key
        BY <1>4, <3>1, <4>1
      <4>2. CASE k = key
        BY <3>1, <4>2 DEF RingLive, StateOf
      <4> QED
        BY <4>1, <4>2
    <3> QED
      BY <1>2, <3>3, <3>4
  <2>4. CASE \E c \in o.active : k \in StateOf(o, c)
    BY <1>1, <1>2, <2>4
  <2> QED
    BY <2>1, <2>2, <2>3, <2>4
<1> QED
  BY <1>5, <1>6, <1>9, <1>10, <1>11 DEF Emptied

\* flush applies what is in the ring, but for tap-only combos.
LEMMA FlushIs ==
  ASSUME build \in Builds, NoneEmpty, NEW m \in Statics, Clean(m), IsInjective(m.key_buffer),
         Apart(m), m.active \subseteq m.disabled, Range(m.combo_buffer) \cap m.disabled = {},
         NEW n, n = flush(m)
  PROVE  FlushedAs(m, n, Range(m.combo_buffer) \ build.must_tap)
<1>1. AppliedTo(m, m, {})
  <2>1. Used(m) = {} /\ Downs(m) = {} /\ Formed(m, {}) = {}
    BY DEF Clean, Used, Downs, Formed
  <2>2. SameScan(m, m)
    BY DEF SameScan, SameInput
  <2> QED
    BY <2>1, <2>2 DEF AppliedTo
<1>2. CASE m.combo_buffer # <<>>
  <2>1. n = apply_combos(m)
    BY <1>2 DEF flush
  <2>2. Formed(m, {}) = {} /\ {} \in SUBSET Combos
    BY DEF Formed
  <2>3. FlushedAs(m, n, {} \cup (Range(m.combo_buffer) \ build.must_tap))
    BY <1>1, <2>1, <2>2, ApplyCombosFlush
  <2>4. {} \cup (Range(m.combo_buffer) \ build.must_tap) = Range(m.combo_buffer) \ build.must_tap
    OBVIOUS
  <2> QED
    BY <2>3, <2>4
<1>3. CASE m.combo_buffer = <<>>
  <2> DEFINE d == dump_key_buffer(m)
             x == [d EXCEPT !.timer = Off]
  <2>1. /\ d \in Statics
        /\ d.state = m.state /\ d.active = m.active /\ d.disabled = m.disabled
        /\ d.key_buffer = <<>> /\ d.combo_buffer = m.combo_buffer
        /\ d.keys_down = m.keys_down \cup {m.key_buffer[i] : i \in DOMAIN m.key_buffer \
                                               (m.ticks \cup {p[1] : p \in m.fired})}
        /\ d.combos_down = m.combos_down \cup {p[2] : p \in m.fired}
    BY DumpIs
  <2>2. d.keys_down = m.keys_down \cup Range(m.key_buffer) /\ d.combos_down = m.combos_down
    BY <2>1 DEF Clean, Range
  <2>3. n = clear_combos(x)
    <3>1. n = After(x, clear_combos)
      BY <1>3 DEF flush
    <3> QED
      BY <3>1 DEF After
  <2> HIDE DEF d
  <2>4. /\ x \in Statics
        /\ x.state = d.state /\ x.active = d.active /\ x.disabled = d.disabled
        /\ x.key_buffer = d.key_buffer /\ x.combo_buffer = d.combo_buffer
        /\ x.keys_down = d.keys_down /\ x.combos_down = d.combos_down
    BY <2>1 DEF Statics, Fields
  <2> HIDE DEF x
  <2>5. /\ n.state = {p \in x.state : p[1] \in x.active}
        /\ n.active = x.active /\ n.disabled = x.disabled \cap x.active
        /\ n.key_buffer = x.key_buffer /\ n.combo_buffer = x.combo_buffer
        /\ n.keys_down = x.keys_down /\ n.combos_down = x.combos_down
    BY <2>3, <2>4, ClearCombosIs
  <2>6. Range(m.combo_buffer) \ build.must_tap = {}
    BY <1>3 DEF Range
  <2>7. Formed(m, {}) = {} /\ UNION {KeysOf(c) : c \in {}} = {}
    BY DEF Formed
  <2>8. n.disabled = m.active
    BY <2>1, <2>4, <2>5
  <2>9. FlushedAs(m, n, {})
    BY <1>3, <2>1, <2>2, <2>4, <2>5, <2>7, <2>8 DEF FlushedAs
  <2> QED
    BY <2>6, <2>9
<1> QED
  BY <1>2, <1>3

\* What holds within a press, and between events.
Within(m, H, B) ==
  /\ KeysInv(m, H, B) /\ ActiveInv(m, B) /\ RingLive(m, B, {}) /\ Prepared(m)
  /\ OrderInv(m, B) /\ FreshInv(m, B) /\ HandedOn(m, H, B)

\* What holds between events, with H the keys that are held down.
Core(m, H) == Within(m, H, m.key_buffer) /\ OfCombos(m.key_buffer)

\* The inductive invariant.
IInv == Typed /\ Core(static, held)

\* Nothing is held back and nothing is known of combos that are not down.
LEMMA EmptyCore ==
  ASSUME NoneEmpty, build \in Builds, NEW n, NEW H, n.key_buffer = <<>>, n.combo_buffer = <<>>,
         KeysInv(n, H, <<>>), ActiveInv(n, <<>>), HandedOn(n, H, <<>>),
         \A c \in Combos \ n.active : StateOf(n, c) = {}
  PROVE  Core(n, H)
<1>1. Range(<<>>) = {} /\ DOMAIN <<>> = {}
  BY DEF Range
<1>2. RingLive(n, <<>>, {}) /\ OfCombos(<<>>)
  BY <1>1 DEF RingLive, Apart, OfCombos
<1>3. Prepared(n)
  BY DEF Prepared, Complete, NoneEmpty
<1>4. OrderInv(n, <<>>)
  <2>1. build.in_order \subseteq Combos
    BY BuildIs
  <2> QED
    BY <2>1 DEF OrderInv
<1>5. FreshInv(n, <<>>)
  BY DEF FreshInv
<1> QED
  BY <1>2, <1>3, <1>4, <1>5 DEF Core, Within

\* In a ring of complete combos all keys are fresh.
LEMMA RingFreshIs ==
  ASSUME NEW m \in Statics, NEW B, RingLive(m, B, {}), FreshInv(m, B), ActiveInv(m, B)
  PROVE  /\ RingFresh(m, B) /\ Range(m.combo_buffer) \cap m.disabled = {}
         /\ \A c \in Range(m.combo_buffer) : c \notin m.active /\ Complete(m, c)
<1>1. Range(m.combo_buffer) \subseteq Combos
  BY ApartIs DEF RingLive
<1>2. \A c \in Range(m.combo_buffer) : c \notin m.disabled /\ c \notin m.active
  BY DEF RingLive, ActiveInv
<1>3. \A c \in Range(m.combo_buffer) : KeysOf(c) = StateOf(m, c)
  BY DEF RingLive, StateOf
<1> QED
  BY <1>1, <1>2, <1>3 DEF RingFresh, FreshInv, Complete

\* The state after a flush between events, or of an event that no combo sees.
LEMMA FlushCore ==
  ASSUME build \in Builds, NoneEmpty, \A c \in Combos : \A key : KeysOf(c) \ {key} # {},
         NEW m \in Statics, Clean(m), NEW H, Core(m, H), NEW n, n = flush(m)
  PROVE  /\ n \in Statics /\ FlushedAs(m, n, Range(m.combo_buffer) \ build.must_tap)
         /\ KeysInv(n, H, <<>>) /\ ActiveInv(n, <<>>) /\ HandedOn(n, H, <<>>)
         /\ \A c \in Combos \ n.active : StateOf(n, c) = {}
<1>1. RingFresh(m, m.key_buffer) /\ Range(m.combo_buffer) \cap m.disabled = {}
  BY RingFreshIs DEF Core, Within
<1>2. n \in Statics
  BY FlushTyped
<1>3. FlushedAs(m, n, Range(m.combo_buffer) \ build.must_tap)
  BY <1>1, FlushIs DEF Core, Within, KeysInv, ActiveInv, RingLive
<1>4. Range(m.combo_buffer) \ build.must_tap \in SUBSET Range(m.combo_buffer)
  OBVIOUS
<1> DEFINE A == Range(m.combo_buffer) \ build.must_tap
<1>5. Flushable(m, H, {}, SwitchKey, H, A)
  BY <1>1, <1>4 DEF Core, Within, Flushable
<1> HIDE DEF A
<1>6. Emptied(n, H, H)
  <2>1. FlushedAs(m, n, A)
    BY <1>3 DEF A
  <2> QED
    BY <1>2, <1>5, <2>1, FlushedInv
<1> QED
  BY <1>2, <1>3, <1>6 DEF Emptied

-----------------------------------------------------------------------------
(* combo_task, the clock and the switch.                                   *)

\* The invariant says nothing of timers.
LEMMA SameWithin ==
  ASSUME NEW m, NEW n, NEW H, NEW B, Within(m, H, B), build \in Builds,
         n.state = m.state, n.active = m.active, n.disabled = m.disabled,
         n.combo_buffer = m.combo_buffer,
         n.keys_down = m.keys_down, n.combos_down = m.combos_down
  PROVE  Within(n, H, B)
<1>1. \A c : StateOf(n, c) = StateOf(m, c)
  BY DEF StateOf
<1>2. KeysInv(n, H, B)
  BY <1>1 DEF Within, KeysInv
<1>3. ActiveInv(n, B)
  BY <1>1 DEF Within, ActiveInv
<1>4. RingLive(n, B, {})
  BY DEF Within, RingLive, Apart
<1>5. Prepared(n)
  BY <1>1 DEF Within, Prepared, Complete
<1>6. OrderInv(n, B)
  BY <1>1 DEF Within, OrderInv
<1>7. FreshInv(n, B)
  BY <1>1 DEF Within, FreshInv
<1>8. HandedOn(n, H, B)
  BY <1>1 DEF Within, HandedOn
<1> QED
  BY <1>2, <1>3, <1>4, <1>5, <1>6, <1>7, <1>8 DEF Within

\* Nor does it between events.
LEMMA SameCore ==
  ASSUME NEW m, NEW n, NEW H, Core(m, H), build \in Builds,
         n.state = m.state, n.active = m.active, n.disabled = m.disabled,
         n.key_buffer = m.key_buffer, n.combo_buffer = m.combo_buffer,
         n.keys_down = m.keys_down, n.combos_down = m.combos_down
  PROVE  Core(n, H)
<1>1. Within(m, H, m.key_buffer)
  BY DEF Core
<1>2. Within(n, H, m.key_buffer)
  BY <1>1, SameWithin
<1> QED
  BY <1>2 DEF Core

\* A key goes down that no combo takes: it is handed on at once.
LEMMA DownInv ==
  ASSUME build \in Builds, NEW n, NEW H, NEW B, NEW key, key \notin H,
         NEW r, r.state = n.state, r.active = n.active, r.disabled = n.disabled,
         r.combo_buffer = n.combo_buffer, r.combos_down = n.combos_down,
         r.keys_down = n.keys_down \cup {key}
  PROVE  /\ KeysInv(n, H, B) => KeysInv(r, H \cup {key}, B)
         /\ ActiveInv(n, B) => ActiveInv(r, B)
         /\ HandedOn(n, H, B) => HandedOn(r, H \cup {key}, B)
         /\ \A c : StateOf(r, c) = StateOf(n, c)
<1>1. \A c : StateOf(r, c) = StateOf(n, c)
  BY DEF StateOf
<1> QED
  BY <1>1 DEF KeysInv, ActiveInv, HandedOn

\* The invariant in the next state.
LEMMA PrimedCore ==
  ASSUME build' = build, Core(static', held')
  PROVE  Core(static, held)'
<1>1. KeysInv(static, held, static.key_buffer)'
  BY DEF Core, Within, KeysInv, StateOf, KeysOf, Combos
<1>2. ActiveInv(static, static.key_buffer)'
  BY DEF Core, Within, ActiveInv, StateOf, KeysOf, Combos
<1>3. RingLive(static, static.key_buffer, {})'
  BY DEF Core, Within, RingLive, Apart, Overlaps, Ordered, KeysOf
<1>4. Prepared(static)'
  BY DEF Core, Within, Prepared, Complete, StateOf, KeysOf, Combos
<1>5. OrderInv(static, static.key_buffer)'
  <2>1. \A c : StateOf(static, c)' = StateOf(static', c)
    BY DEF StateOf, KeysOf
  <2>2. OrderInv(static', static'.key_buffer)
    BY DEF Core, Within
  <2> HIDE DEF StateOf
  <2> QED
    BY <2>1, <2>2 DEF OrderInv
<1>6. FreshInv(static, static.key_buffer)'
  BY DEF Core, Within, FreshInv, StateOf, KeysOf, Combos, BufferSuffices
<1>7. HandedOn(static, held, static.key_buffer)'
  BY DEF Core, Within, HandedOn, StateOf, KeysOf, BufferSuffices
<1>8. OfCombos(static.key_buffer)'
  BY DEF Core, Within, OfCombos, KeysOf, Combos
<1> QED
  BY <1>1, <1>2, <1>3, <1>4, <1>5, <1>6, <1>7, <1>8 DEF Core, Within

\* What the hypotheses say, in the terms of the lemmas.
LEMMA Hypotheses ==
  ASSUME build \in Builds, ChordsOnly
  PROVE  NoneEmpty /\ \A c \in Combos : \A key : KeysOf(c) \ {key} # {}
<1>1. ASSUME NEW c \in Combos, NEW key PROVE KeysOf(c) \ {key} # {}
  <2>1. IsInjective(build.combos[c]) /\ Len(build.combos[c]) >= 2
    BY DEF ChordsOnly, Combos
  <2>2. build.combos[c] \in Seq(Keys \ {SwitchKey})
    BY BuildIs
  <2>3. 1 \in DOMAIN build.combos[c] /\ 2 \in DOMAIN build.combos[c]
    BY <2>1, <2>2
  <2>4. build.combos[c][1] # build.combos[c][2]
    BY <2>1, <2>3 DEF IsInjective
  <2>5. build.combos[c][1] \in KeysOf(c) /\ build.combos[c][2] \in KeysOf(c)
    BY <2>3 DEF KeysOf, Range
  <2> QED
    BY <2>4, <2>5
<1> QED
  BY <1>1 DEF NoneEmpty

\* The step in which Fired(c) asks for its conditions.
AsConfigured ==
  \A c \in Combos : Fired(c) =>
    /\ KeysOf(c) \subseteq held \cap Range(static.key_buffer)
    /\ c \in build.must_hold => KeysOf(c) \subseteq held'
    /\ c \in build.must_tap  => ~(KeysOf(c) \subseteq held')
    /\ c \in build.in_order  => InOrder(c)

\* The combos of the ring are made of presses that are held back, in order.
LEMMA FlushFires ==
  ASSUME NEW m \in Statics, NEW H, Core(m, H),
         NEW c \in Formed(m, Range(m.combo_buffer) \ build.must_tap)
  PROVE  /\ KeysOf(c) \subseteq H \cap Range(m.key_buffer) /\ c \notin build.must_tap
         /\ c \in build.in_order => Ordered(c, m.key_buffer)
BY DEF Core, Within, KeysInv, RingLive, Formed

\* So an event that ends with a flush, and releases no key, fires as configured.
LEMMA FlushFiresAs ==
  ASSUME Typed, Core(static, held), held \subseteq held', build' = build,
         static'.combos_down \subseteq static.combos_down \cup
                                Formed(static, Range(static.combo_buffer) \ build.must_tap)
  PROVE  AsConfigured
<1> SUFFICES ASSUME NEW c \in Formed(static, Range(static.combo_buffer) \ build.must_tap)
             PROVE  /\ KeysOf(c) \subseteq held \cap Range(static.key_buffer)
                    /\ c \notin build.must_tap
                    /\ c \in build.in_order => InOrder(c)
  BY DEF AsConfigured, Fired
<1> QED
  BY FlushFires DEF Typed, InOrder

\* It holds initially.
LEMMA InitCore ==
  ASSUME Init, ChordsOnly
  PROVE  Core(static, held)
<1>1. build \in Builds /\ held = {}
  BY DEF Init
<1>2. /\ static.state = {} /\ static.active = {} /\ static.disabled = {}
      /\ static.key_buffer = <<>> /\ static.combo_buffer = <<>>
      /\ static.keys_down = {} /\ static.combos_down = {}
  BY DEF Init
<1>3. \A c : StateOf(static, c) = {}
  BY <1>2 DEF StateOf
<1>4. Range(<<>>) = {} /\ IsInjective(<<>>)
  BY DEF Range, IsInjective
<1>5. KeysInv(static, held, <<>>) /\ ActiveInv(static, <<>>) /\ HandedOn(static, held, <<>>)
  BY <1>1, <1>2, <1>3, <1>4 DEF KeysInv, ActiveInv, HandedOn
<1> QED
  BY <1>1, <1>2, <1>3, <1>5, Hypotheses, EmptyCore

\* combo_task keeps it.
LEMMA TaskCore ==
  ASSUME IInv, ChordsOnly, combo_task
  PROVE  Core(static, held)' /\ AsConfigured
<1>1. /\ build \in Builds /\ static \in Statics /\ Clean(static)
      /\ build' = build /\ held' = held /\ Core(static, held)
  BY DEF IInv, Typed, combo_task
<1>2. NoneEmpty /\ \A c \in Combos : \A key : KeysOf(c) \ {key} # {}
  BY <1>1, Hypotheses
<1> DEFINE n == flush(static)
<1>3. static' = [n EXCEPT !.longest_term = 0, !.timer = Off]
  BY DEF combo_task
<1>4. /\ n \in Statics /\ FlushedAs(static, n, Range(static.combo_buffer) \ build.must_tap)
      /\ KeysInv(n, held, <<>>) /\ ActiveInv(n, <<>>) /\ HandedOn(n, held, <<>>)
      /\ \A c \in Combos \ n.active : StateOf(n, c) = {}
  BY <1>1, <1>2, FlushCore
<1> HIDE DEF n
<1>5. n.key_buffer = <<>> /\ n.combo_buffer = <<>>
  BY <1>4 DEF FlushedAs
<1>6. Core(n, held)
  BY <1>1, <1>2, <1>4, <1>5, EmptyCore
<1>7. /\ static'.state = n.state /\ static'.active = n.active /\ static'.disabled = n.disabled
      /\ static'.key_buffer = n.key_buffer /\ static'.combo_buffer = n.combo_buffer
      /\ static'.keys_down = n.keys_down /\ static'.combos_down = n.combos_down
  BY <1>3, <1>4 DEF Statics, Fields
<1>8. Core(static', held')
  BY <1>1, <1>6, <1>7, SameCore
<1>9. Core(static, held)'
  BY <1>1, <1>8, PrimedCore
<1>10. AsConfigured
  BY <1>1, <1>4, <1>7, FlushFiresAs DEF FlushedAs, IInv
<1> QED
  BY <1>9, <1>10

\* So does the clock.
LEMMA TickCore ==
  ASSUME IInv, Tick
  PROVE  Core(static, held)' /\ AsConfigured
<1>1. /\ build \in Builds /\ static \in Statics
      /\ build' = build /\ held' = held /\ Core(static, held)
  BY DEF IInv, Typed, Tick
<1>2. static' = [static EXCEPT !.timer = @ + 1]
  BY DEF Tick
<1>3. /\ static'.state = static.state /\ static'.active = static.active
      /\ static'.disabled = static.disabled
      /\ static'.key_buffer = static.key_buffer /\ static'.combo_buffer = static.combo_buffer
      /\ static'.keys_down = static.keys_down /\ static'.combos_down = static.combos_down
  BY <1>1, <1>2 DEF Statics, Fields
<1>4. Core(static', held')
  BY <1>1, <1>3, SameCore
<1>5. Core(static, held)'
  BY <1>1, <1>4, PrimedCore
<1>6. AsConfigured
  BY <1>3 DEF AsConfigured, Fired
<1> QED
  BY <1>5, <1>6

\* A key that no combo takes goes down.
LEMMA DownCore ==
  ASSUME build \in Builds, NEW n, NEW H, NEW key, key \notin H, Core(n, H),
         NEW r, r.state = n.state, r.active = n.active, r.disabled = n.disabled,
         r.key_buffer = n.key_buffer, r.combo_buffer = n.combo_buffer,
         r.combos_down = n.combos_down, r.keys_down = n.keys_down \cup {key}
  PROVE  Core(r, H \cup {key})
<1>1. /\ KeysInv(r, H \cup {key}, n.key_buffer) /\ ActiveInv(r, n.key_buffer)
      /\ HandedOn(r, H \cup {key}, n.key_buffer)
      /\ \A c : StateOf(r, c) = StateOf(n, c)
  BY DownInv DEF Core, Within
<1>2. RingLive(r, n.key_buffer, {})
  BY DEF Core, Within, RingLive, Apart
<1>3. Prepared(r)
  BY <1>1 DEF Core, Within, Prepared, Complete
<1>4. OrderInv(r, n.key_buffer)
  BY <1>1 DEF Core, Within, OrderInv
<1>5. FreshInv(r, n.key_buffer)
  BY <1>1 DEF Core, Within, FreshInv
<1> QED
  BY <1>1, <1>2, <1>3, <1>4, <1>5 DEF Core, Within

\* Combos are switched off.
LEMMA DisableCore ==
  ASSUME build \in Builds, ChordsOnly, NEW m \in Statics, Clean(m), NEW H, Core(m, H),
         NEW n, n = combo_disable(m)
  PROVE  n \in Statics /\ Core(n, H) /\ n.combos_down = m.combos_down
<1>1. /\ n \in Statics
      /\ n.state = {p \in m.state : p[1] \in m.active}
      /\ n.active = m.active /\ n.disabled = m.disabled \cap m.active
      /\ n.key_buffer = <<>> /\ n.combo_buffer = <<>>
      /\ n.keys_down = m.keys_down \cup Range(m.key_buffer)
      /\ n.combos_down = m.combos_down
  BY DisableIs
<1>2. NoneEmpty /\ \A c \in Combos : KeysOf(c) \ {SwitchKey} # {}
  BY Hypotheses
<1>3. /\ KeysInv(m, H, m.key_buffer) /\ ActiveInv(m, m.key_buffer)
      /\ RingLive(m, m.key_buffer, {}) /\ HandedOn(m, H, m.key_buffer)
      /\ RingFresh(m, m.key_buffer)
  BY RingFreshIs DEF Core, Within
<1>4. FlushedAs(m, n, {})
  <2>1. Formed(m, {}) = {} /\ UNION {KeysOf(c) : c \in {}} = {}
    BY DEF Formed
  <2>2. n.disabled = n.active
    BY <1>1, <1>3 DEF ActiveInv
  <2> QED
    BY <1>1, <2>1, <2>2 DEF FlushedAs
<1>5. Flushable(m, H, {}, SwitchKey, H, {})
  BY <1>2, <1>3 DEF Flushable
<1>6. /\ KeysInv(n, H, <<>>) /\ ActiveInv(n, <<>>) /\ HandedOn(n, H, <<>>)
      /\ \A c \in Combos \ n.active : StateOf(n, c) = {}
  BY <1>1, <1>4, <1>5, FlushedInv DEF Emptied
<1>7. Core(n, H)
  BY <1>1, <1>2, <1>6, EmptyCore
<1> QED
  BY <1>1, <1>7

\* So does the switch, on or off.
LEMMA SwitchCore ==
  ASSUME IInv, ChordsOnly, NEW enable \in BOOLEAN, process_combo_Switch(enable)
  PROVE  Core(static, held)' /\ AsConfigured
<1>1. /\ build \in Builds /\ static \in Statics /\ Clean(static) /\ Core(static, held)
      /\ build' = build /\ SwitchKey \notin held /\ held' = held \cup {SwitchKey}
  BY DEF IInv, Typed, process_combo_Switch
<1> DEFINE m == IF enable THEN [static EXCEPT !.b_combo_enable = TRUE] ELSE combo_disable(static)
<1>2. static' = [m EXCEPT !.keys_down = @ \cup {SwitchKey}]
  BY DEF process_combo_Switch
<1>3. m \in Statics /\ Core(m, held) /\ m.combos_down = static.combos_down
  <2>1. CASE enable
    <3>1. m = [static EXCEPT !.b_combo_enable = TRUE]
      BY <2>1
    <3> HIDE DEF m
    <3>2. /\ m \in Statics
          /\ m.state = static.state /\ m.active = static.active
          /\ m.disabled = static.disabled
          /\ m.key_buffer = static.key_buffer /\ m.combo_buffer = static.combo_buffer
          /\ m.keys_down = static.keys_down /\ m.combos_down = static.combos_down
      BY <1>1, <3>1 DEF Statics, Fields
    <3> QED
      BY <1>1, <3>2, SameCore
  <2>2. CASE ~enable
    BY <1>1, <2>2, DisableCore
  <2> QED
    BY <2>1, <2>2
<1> HIDE DEF m
<1>4. /\ static'.state = m.state /\ static'.active = m.active /\ static'.disabled = m.disabled
      /\ static'.key_buffer = m.key_buffer /\ static'.combo_buffer = m.combo_buffer
      /\ static'.combos_down = m.combos_down
      /\ static'.keys_down = m.keys_down \cup {SwitchKey}
  BY <1>2, <1>3 DEF Statics, Fields
<1>5. Core(static', held \cup {SwitchKey})
  BY <1>1, <1>3, <1>4, DownCore
<1>6. Core(static, held)'
  BY <1>1, <1>5, PrimedCore
<1>7. AsConfigured
  BY <1>3, <1>4 DEF AsConfigured, Fired
<1> QED
  BY <1>6, <1>7

-----------------------------------------------------------------------------
(* A press.                                                                *)

\* A sequence without repetition is no longer than a set it is over.
LEMMA InjectiveLength ==
  ASSUME NEW T, NEW s \in Seq(T), NEW R, IsFiniteSet(R), Range(s) \subseteq R, IsInjective(s)
  PROVE  Len(s) \in Nat /\ Len(s) <= Cardinality(R) /\ Cardinality(R) \in Nat
<1>1. Len(s) \in Nat /\ s \in [1 .. Len(s) -> T]
  OBVIOUS
<1>2. s \in Injection(1 .. Len(s), R)
  <2>1. \A i \in 1 .. Len(s) : s[i] \in R
    BY <1>1 DEF Range
  <2> QED
    BY <1>1, <2>1 DEF Injection
<1>3. Cardinality(1 .. Len(s)) = Len(s)
  BY <1>1, FS_Interval
<1>4. Cardinality(1 .. Len(s)) <= Cardinality(R)
  BY <1>2, FS_Injection
<1>5. Cardinality(R) \in Nat
  BY FS_CardinalityType
<1> QED
  BY <1>1, <1>3, <1>4, <1>5

\* A sequence with one more element.
LEMMA AppendIs ==
  ASSUME NEW T, NEW s \in Seq(T), NEW x \in T
  PROVE  /\ Append(s, x) \in Seq(T) /\ Len(s) \in Nat /\ Len(Append(s, x)) = Len(s) + 1
         /\ DOMAIN s = 1 .. Len(s) /\ DOMAIN Append(s, x) = 1 .. Len(s) + 1
         /\ Append(s, x)[Len(s) + 1] = x /\ \A i \in 1 .. Len(s) : Append(s, x)[i] = s[i]
         /\ Range(Append(s, x)) = Range(s) \cup {x}
<1> DEFINE t == Append(s, x)
<1>1. /\ t \in Seq(T) /\ Len(s) \in Nat /\ Len(t) = Len(s) + 1
      /\ t[Len(s) + 1] = x /\ \A i \in 1 .. Len(s) : t[i] = s[i]
  BY AppendProperties
<1> HIDE DEF t
<1>2. DOMAIN s = 1 .. Len(s) /\ DOMAIN t = 1 .. Len(s) + 1
  BY <1>1
<1>3. DOMAIN t = DOMAIN s \cup {Len(s) + 1}
  BY <1>1, <1>2
<1>4. Range(t) = Range(s) \cup {x}
  BY <1>1, <1>2, <1>3 DEF Range
<1> QED
  BY <1>1, <1>2, <1>4 DEF t

\* Combos that do not overlap and one more fit in the ring.
LEMMA RingHasRoom ==
  ASSUME build \in Builds, RingSuffices, NoneEmpty, NEW m \in Statics, Apart(m),
         NEW c \in Combos, \A d \in Range(m.combo_buffer) : ~Overlaps(d, c)
  PROVE  Len(m.combo_buffer) + 1 < COMBO_BUFFER_LENGTH
<1> DEFINE S == Range(m.combo_buffer) \cup {c}
           s == Append(m.combo_buffer, c)
<1>1. /\ m.combo_buffer \in Seq(Combos) /\ Len(m.combo_buffer) \in Nat
      /\ Combos = 1 .. Len(build.combos) /\ Len(build.combos) \in Nat
      /\ COMBO_BUFFER_LENGTH \in Nat /\ Range(m.combo_buffer) \subseteq Combos
  <2>1. m.combo_buffer \in Seq(Combos) /\ Len(m.combo_buffer) \in Nat
    BY DEF Statics, Fields
  <2>2. Range(m.combo_buffer) \subseteq Combos
    BY ApartIs
  <2> QED
    BY <2>1, <2>2, BuildIs
<1>2. \A d, e \in S : d # e => ~Overlaps(d, e)
  <2>1. \A d, e \in Range(m.combo_buffer) : d # e => ~Overlaps(d, e)
    BY ApartIs
  <2> QED
    BY <2>1 DEF Overlaps
<1>3. S \in SUBSET DOMAIN build.combos
  BY <1>1 DEF Combos
<1>4. \A d, e \in S : d # e => ~Share(build, d, e)
  BY <1>2 DEF Share, Overlaps, KeysOf
<1>5. Cardinality(S) < COMBO_BUFFER_LENGTH
  BY <1>3, <1>4 DEF RingSuffices, COMBO_BUFFER_LENGTH
<1>6. IsFiniteSet(S)
  <2>1. IsFiniteSet(1 .. Len(build.combos))
    BY <1>1, FS_Interval
  <2> QED
    BY <1>1, <2>1, FS_Subset
<1>7. /\ s \in Seq(Combos) /\ Len(s) = Len(m.combo_buffer) + 1 /\ Range(s) = S
      /\ DOMAIN s = 1 .. Len(m.combo_buffer) + 1
      /\ s[Len(m.combo_buffer) + 1] = c
      /\ \A i \in 1 .. Len(m.combo_buffer) : s[i] = m.combo_buffer[i]
  <2> DEFINE r == m.combo_buffer
  <2> HIDE DEF r
  <2>1. r \in Seq(Combos) /\ s = Append(r, c)
    BY <1>1 DEF r
  <2> HIDE DEF s
  <2>2. /\ s \in Seq(Combos) /\ Len(s) = Len(r) + 1 /\ Range(s) = Range(r) \cup {c}
        /\ DOMAIN s = 1 .. Len(r) + 1
        /\ s[Len(r) + 1] = c /\ \A i \in 1 .. Len(r) : s[i] = r[i]
    BY <2>1, AppendIs
  <2> QED
    BY <2>2 DEF r
<1>8. IsInjective(s)
  <2>1. \A i, j \in DOMAIN m.combo_buffer :
           i # j => m.combo_buffer[i] # m.combo_buffer[j]
    <3>1. \A d \in Combos : Overlaps(d, d)
      BY DEF NoneEmpty, Overlaps
    <3>2. \A i \in DOMAIN m.combo_buffer : m.combo_buffer[i] \in Combos
      BY <1>1 DEF Range
    <3> QED
      BY <3>1, <3>2 DEF Apart
  <2>2. \A i \in DOMAIN m.combo_buffer : m.combo_buffer[i] # c
    BY DEF Range, Overlaps, NoneEmpty
  <2>3. DOMAIN m.combo_buffer = 1 .. Len(m.combo_buffer)
    BY <1>1
  <2> HIDE DEF s, S
  <2>4. \A i \in DOMAIN s : i \in DOMAIN m.combo_buffer \/ i = Len(m.combo_buffer) + 1
    BY <1>1, <1>7, <2>3
  <2>5. \A i \in DOMAIN m.combo_buffer : s[i] = m.combo_buffer[i] /\ s[i] # c
    BY <1>7, <2>2, <2>3
  <2> SUFFICES ASSUME NEW i \in DOMAIN s, NEW j \in DOMAIN s, s[i] = s[j] PROVE i = j
    BY DEF IsInjective
  <2> QED
    BY <1>7, <2>1, <2>4, <2>5
<1> HIDE DEF S, s
<1>9. Len(s) <= Cardinality(S) /\ Cardinality(S) \in Nat
  BY <1>6, <1>7, <1>8, InjectiveLength
<1> QED
  BY <1>1, <1>5, <1>7, <1>9

\* The invariant as a press begins.
LEMMA PressStart ==
  ASSUME build \in Builds, NEW m \in Statics, NEW H, Core(m, H), NEW key \in Keys, key \notin H,
         NEW x, x.state = m.state, x.active = m.active, x.disabled = m.disabled,
         x.key_buffer = m.key_buffer, x.combo_buffer = m.combo_buffer,
         x.keys_down = m.keys_down, x.combos_down = m.combos_down,
         NEW B, B = Append(m.key_buffer, key)
  PROVE  Within(x, H \cup {key}, B) /\ \A c \in Combos : key \notin StateOf(x, c)
<1> DEFINE K == m.key_buffer
           k == Len(K)
<1>1. /\ k \in Nat /\ DOMAIN K = 1 .. k /\ DOMAIN B = 1 .. k + 1
      /\ B[k + 1] = key /\ \A i \in 1 .. k : B[i] = K[i]
      /\ Range(B) = Range(K) \cup {key}
  <2>1. K \in Seq(Keys) /\ B = Append(K, key)
    BY DEF Statics, Fields
  <2> HIDE DEF K
  <2> QED
    BY <2>1, AppendIs
<1>2. \A c : StateOf(x, c) = StateOf(m, c)
  BY DEF StateOf
<1>3. /\ KeysInv(m, H, K) /\ ActiveInv(m, K) /\ RingLive(m, K, {}) /\ Prepared(m)
      /\ OrderInv(m, K) /\ FreshInv(m, K) /\ HandedOn(m, H, K)
  BY DEF Core, Within
<1> HIDE DEF K, k
<1>4. \A c \in Combos : key \notin StateOf(m, c)
  BY <1>3 DEF KeysInv
<1>5. \A i \in 1 .. k : K[i] # key
  BY <1>1, <1>3 DEF KeysInv, Range
<1>6. \A c : key \notin KeysOf(c) /\ Ordered(c, K) => Ordered(c, B)
  <2> SUFFICES ASSUME NEW c, key \notin KeysOf(c), Ordered(c, K) PROVE Ordered(c, B)
    OBVIOUS
  <2>1. \A p \in DOMAIN B, i \in DOMAIN build.combos[c] :
           B[p] = build.combos[c][i] => p \in DOMAIN K /\ K[p] = B[p]
    <3>1. \A i \in DOMAIN build.combos[c] : build.combos[c][i] # key
      BY DEF KeysOf, Range
    <3> QED
      BY <1>1, <3>1
  <2> QED
    BY <2>1 DEF Ordered
<1>7. KeysInv(x, H \cup {key}, B)
  <2>1. IsInjective(B)
    BY <1>1, <1>3, <1>5 DEF KeysInv, IsInjective
  <2> QED
    BY <1>1, <1>2, <1>3, <2>1 DEF KeysInv
<1>8. ActiveInv(x, B)
  <2>1. x.active \subseteq Combos
    BY DEF Statics, Fields
  <2> QED
    BY <1>1, <1>2, <1>3, <1>4, <2>1 DEF ActiveInv
<1>9. RingLive(x, B, {})
  <2>1. Apart(x)
    BY <1>3 DEF RingLive, Apart
  <2>2. ASSUME NEW c \in Range(x.combo_buffer), c \in build.in_order PROVE Ordered(c, B)
    <3>1. c \in Combos /\ KeysOf(c) = StateOf(m, c) /\ Ordered(c, K)
      BY <1>3, <2>2, ApartIs DEF RingLive, StateOf
    <3> QED
      BY <1>4, <1>6, <3>1
  <2> QED
    BY <1>3, <2>1, <2>2 DEF RingLive
<1>10. Prepared(x)
  BY <1>2, <1>3 DEF Prepared, Complete
<1>11. OrderInv(x, B)
  <2> SUFFICES ASSUME NEW c \in build.in_order \ m.active,
                      NEW i \in DOMAIN build.combos[c], NEW j \in DOMAIN build.combos[c],
                      i < j, build.combos[c][j] \in StateOf(m, c)
               PROVE  /\ build.combos[c][i] \in StateOf(m, c)
                      /\ \A p, q \in DOMAIN B :
                           B[p] = build.combos[c][i] /\ B[q] = build.combos[c][j] => p < q
    BY <1>2 DEF OrderInv
  <2>1. /\ build.combos[c][i] \in StateOf(m, c)
        /\ \A p, q \in DOMAIN K :
             K[p] = build.combos[c][i] /\ K[q] = build.combos[c][j] => p < q
    BY <1>3 DEF OrderInv
  <2>2. c \in Combos
    BY BuildIs
  <2>3. build.combos[c][i] # key /\ build.combos[c][j] # key
    BY <1>4, <2>1, <2>2
  <2>4. \A p \in DOMAIN B : B[p] # key => p \in DOMAIN K /\ K[p] = B[p]
    BY <1>1
  <2> QED
    BY <2>1, <2>3, <2>4
<1>12. FreshInv(x, B)
  BY <1>1, <1>2, <1>3 DEF FreshInv
<1>13. HandedOn(x, H \cup {key}, B)
  BY <1>1, <1>2, <1>3 DEF HandedOn
<1> QED
  BY <1>2, <1>4, <1>7, <1>8, <1>9, <1>10, <1>11, <1>12, <1>13 DEF Within

\* Positions of the last press, and of a press that is held back.
LastIs(B, key) ==
  \E k \in Nat : /\ DOMAIN B = 1 .. k + 1 /\ B[k + 1] = key

\* A combo that is not down sees the press of its key: all of the invariant stays, but
\* that it may now be complete and not yet in the ring.
LEMMA PressSees ==
  ASSUME build \in Builds, NoneEmpty, NEW m \in Statics, NEW H, NEW B, NEW key, Within(m, H, B),
         LastIs(B, key), NEW c \in Combos, IsInjective(build.combos[c]), c \notin m.active,
         key \in KeysOf(c), key \notin StateOf(m, c), keys_pressed_in_order(m, c, key),
         NEW x \in Statics, SameKeys(m, x), x.state = m.state \cup {<<c, key>>},
         x.disabled = m.disabled, x.combo_buffer = m.combo_buffer
  PROVE  /\ KeysInv(x, H, B) /\ ActiveInv(x, B) /\ RingLive(x, B, {})
         /\ OrderInv(x, B) /\ FreshInv(x, B) /\ HandedOn(x, H, B)
         /\ \A d \in Combos \ (x.active \cup x.disabled \cup {c}) :
              Complete(x, d) => d \in Range(x.combo_buffer)
         /\ c \notin Range(x.combo_buffer)
         /\ \A d : d # c => StateOf(x, d) = StateOf(m, d)
<1>1. /\ StateOf(x, c) = StateOf(m, c) \cup {key}
      /\ \A d : d # c => StateOf(x, d) = StateOf(m, d)
  BY KnownAdded
<1>2. /\ x.active = m.active /\ x.keys_down = m.keys_down /\ x.combos_down = m.combos_down
  BY DEF SameKeys
<1>3. /\ KeysInv(m, H, B) /\ ActiveInv(m, B) /\ RingLive(m, B, {}) /\ Prepared(m)
      /\ OrderInv(m, B) /\ FreshInv(m, B) /\ HandedOn(m, H, B)
  BY DEF Within
<1>4. PICK k \in Nat : DOMAIN B = 1 .. k + 1 /\ B[k + 1] = key
  BY DEF LastIs
<1>5. key \in Range(B)
  BY <1>4 DEF Range
<1>6. KeysInv(x, H, B)
  BY <1>1, <1>2, <1>3, <1>5 DEF KeysInv
<1>7. ActiveInv(x, B)
  <2>1. \A a \in m.active : key \notin StateOf(m, a) /\ a # c
    BY <1>3, <1>5 DEF ActiveInv
  <2> QED
    BY <1>1, <1>2, <1>3, <2>1 DEF ActiveInv
<1>8. RingLive(x, B, {})
  BY <1>3 DEF RingLive, Apart
<1>9. c \notin Range(x.combo_buffer)
  BY <1>3 DEF RingLive, StateOf
<1>10. \A d \in Combos \ (x.active \cup x.disabled \cup {c}) :
          Complete(x, d) => d \in Range(x.combo_buffer)
  BY <1>1, <1>2, <1>3 DEF Prepared, Complete
<1>11. FreshInv(x, B)
  BY <1>1, <1>2, <1>3, <1>5 DEF FreshInv
<1>12. HandedOn(x, H, B)
  <2>1. \A a \in m.active : StateOf(x, a) = StateOf(m, a)
    BY <1>1
  <2> QED
    BY <1>2, <1>3, <2>1 DEF HandedOn
<1>13. OrderInv(x, B)
  <2> SUFFICES ASSUME NEW d \in build.in_order \ m.active,
                      NEW i \in DOMAIN build.combos[d], NEW j \in DOMAIN build.combos[d],
                      i < j, build.combos[d][j] \in StateOf(x, d)
               PROVE  /\ build.combos[d][i] \in StateOf(x, d)
                      /\ \A p, q \in DOMAIN B :
                           B[p] = build.combos[d][i] /\ B[q] = build.combos[d][j] => p < q
    BY <1>2 DEF OrderInv
  <2>1. CASE build.combos[d][j] \in StateOf(m, d)
    <3>1. /\ build.combos[d][i] \in StateOf(m, d)
          /\ \A p, q \in DOMAIN B :
               B[p] = build.combos[d][i] /\ B[q] = build.combos[d][j] => p < q
      BY <1>3, <2>1 DEF OrderInv
    <3> QED
      BY <1>1, <3>1
  <2>2. CASE build.combos[d][j] \notin StateOf(m, d)
    <3>1. d = c /\ build.combos[c][j] = key
      BY <1>1, <2>2
    <3>2. PICK l \in DOMAIN build.combos[c] :
               /\ build.combos[c][l] = key
               /\ StateOf(m, c) = {build.combos[c][r] : r \in 1 .. l - 1}
      BY <3>1 DEF keys_pressed_in_order
    <3>3. l = j
      BY <3>1, <3>2 DEF IsInjective
    <3>4. DOMAIN build.combos[c] = 1 .. Len(build.combos[c]) /\ Len(build.combos[c]) \in Nat
      BY BuildIs
    <3>5. i \in 1 .. j - 1 /\ i # j
      BY <3>1, <3>4
    <3>6. build.combos[c][i] \in StateOf(m, c)
      BY <3>2, <3>3, <3>5
    <3>7. build.combos[c][i] # key
      BY <3>6
    <3>8. ASSUME NEW p \in DOMAIN B, NEW q \in DOMAIN B,
                 B[p] = build.combos[c][i], B[q] = key
          PROVE  p < q
      <4>1. q = k + 1
        BY <1>3, <1>4, <3>8 DEF KeysInv, IsInjective
      <4>2. p # k + 1
        BY <1>4, <3>7, <3>8
      <4> QED
        BY <1>4, <4>1, <4>2
    <3> QED
      BY <1>1, <3>1, <3>6, <3>8
  <2> QED
    BY <2>1, <2>2
<1> QED
  BY <1>1, <1>6, <1>7, <1>8, <1>9, <1>10, <1>11, <1>12, <1>13

\* What prepare does to the ring: some combos leave it, and c enters it or is disabled.
LEMMA RingAfter ==
  ASSUME build \in Builds, Grouped, ChordsOnly, RingSuffices, NEW x \in Statics, Apart(x),
         NEW c \in Combos, c \notin Range(x.combo_buffer), NEW n \in Statics,
         NEW stop \in 1 .. Len(x.combo_buffer) + 1, NEW leaving \in 0 .. Len(x.combo_buffer),
         PreparedAs(x, n, c, stop, leaving)
  PROVE  /\ Apart(n)
         /\ \E gone \in SUBSET Range(x.combo_buffer) :
              \/ /\ Range(n.combo_buffer) = (Range(x.combo_buffer) \ gone) \cup {c}
                 /\ n.disabled = x.disabled \cup gone
              \/ /\ Range(n.combo_buffer) = Range(x.combo_buffer) \ gone
                 /\ n.disabled = x.disabled \cup gone \cup {c}
<1> DEFINE ring == x.combo_buffer
           size == Len(ring)
           dropped == {i \in 1 .. stop - 1 : Overlaps(ring[i], c)}
           left == SubSeq(ring, leaving + 1, size)
           gone == {ring[i] : i \in dropped}
<1>1. /\ ring \in Seq(Combos) /\ size \in Nat /\ DOMAIN ring = 1 .. size
      /\ Range(ring) \subseteq Combos /\ Range(ring) = {ring[i] : i \in 1 .. size}
  <2>1. ring \in Seq(Combos)
    BY DEF Statics, Fields
  <2>2. size \in Nat /\ DOMAIN ring = 1 .. size
    BY <2>1
  <2> QED
    BY <2>1, <2>2, ApartIs DEF Range
<1>2. /\ NoneEmpty
      /\ \A d, e \in Combos :
           d # c /\ e # c /\ d # e /\ Overlaps(c, d) => Overlaps(c, e) \/ Overlaps(d, e)
  BY Hypotheses, KeymapIs
<1>3. \A d, e : Overlaps(d, e) = Overlaps(e, d)
  BY DEF Overlaps
<1>4. /\ leaving <= stop - 1 /\ 1 .. leaving \subseteq dropped
      /\ \A k \in 0 .. stop - 1 : 1 .. k \subseteq dropped => k <= leaving
      /\ \/ /\ stop <= size /\ Overlaps(ring[stop], c)
            /\ n.disabled = x.disabled \cup gone \cup {c} /\ n.combo_buffer = left
         \/ /\ stop = size + 1 /\ n.disabled = x.disabled \cup gone
            /\ n.combo_buffer = IF Len(left) + 1 = COMBO_BUFFER_LENGTH THEN <<>>
                                ELSE Append(left, c)
  BY DEF PreparedAs
<1>5. \A i, j \in 1 .. size : i # j => ring[i] # ring[j] /\ ~Overlaps(ring[i], ring[j])
  <2>1. \A i \in 1 .. size : Overlaps(ring[i], ring[i])
    BY <1>1, <1>2 DEF Overlaps, NoneEmpty
  <2> QED
    BY <1>1, <2>1 DEF Apart
<1>6. gone \in SUBSET Range(ring)
  BY <1>1
<1>7. CASE \A i \in 1 .. size : ~Overlaps(ring[i], c)
  <2>1. dropped = {} /\ stop = size + 1 /\ leaving = 0
    <3>1. dropped = {} /\ stop = size + 1
      BY <1>1, <1>4, <1>7
    <3>2. leaving = 0
      <4>1. 1 .. leaving = {}
        BY <1>4, <3>1
      <4> QED
        BY <4>1
    <3> QED
      BY <3>1, <3>2
  <2>2. left = ring
    BY <1>1, <2>1, SubSeqFull
  <2>3. size + 1 < COMBO_BUFFER_LENGTH
    <3>1. \A d \in Range(ring) : ~Overlaps(d, c)
      BY <1>1, <1>7
    <3> QED
      BY <1>2, <3>1, RingHasRoom
  <2>4. n.combo_buffer = Append(ring, c) /\ n.disabled = x.disabled /\ gone = {}
    <3>1. gone = {}
      BY <2>1
    <3>2. stop # size + 1 => stop <= size
      BY <1>1
    <3>3. ~(stop <= size) /\ Len(left) + 1 # COMBO_BUFFER_LENGTH
      BY <1>1, <2>1, <2>2, <2>3, BuildIs
    <3> HIDE DEF gone, left, ring, size
    <3> QED
      BY <1>4, <2>1, <2>2, <3>1, <3>3
  <2> HIDE DEF ring, size, left, gone
  <2>5. /\ DOMAIN n.combo_buffer = 1 .. size + 1 /\ n.combo_buffer[size + 1] = c
        /\ \A i \in 1 .. size : n.combo_buffer[i] = ring[i]
        /\ Range(n.combo_buffer) = Range(ring) \cup {c}
    BY <1>1, <2>4, AppendIs DEF size
  <2>6. Apart(n)
    <3>1. \A i \in 1 .. size + 1 : i \in 1 .. size \/ i = size + 1
      BY <1>1
    <3> QED
      BY <1>3, <1>5, <1>7, <2>5, <3>1 DEF Apart
  <2>7. (Range(ring) \ {}) \cup {c} = Range(ring) \cup {c} /\ x.disabled \cup {} = x.disabled
    OBVIOUS
  <2> QED
    BY <1>6, <2>4, <2>5, <2>6, <2>7 DEF ring
<1>8. CASE \E i \in 1 .. size : Overlaps(ring[i], c)
  <2>1. PICK i \in 1 .. size : Overlaps(ring[i], c)
    BY <1>8
  <2>2. ASSUME NEW j \in 1 .. size PROVE Overlaps(ring[j], c)
    <3>1. CASE j = i
      BY <2>1, <3>1
    <3>2. CASE j # i
      <4>1. /\ ring[i] \in Combos /\ ring[j] \in Combos /\ ring[i] # c /\ ring[j] # c
            /\ ring[i] # ring[j] /\ ~Overlaps(ring[i], ring[j])
        BY <1>1, <1>5, <3>2
      <4> QED
        BY <1>2, <1>3, <2>1, <4>1
    <3> QED
      BY <3>1, <3>2
  <2>3. dropped = 1 .. stop - 1 /\ leaving = stop - 1
    <3>1. dropped = 1 .. stop - 1
      BY <1>1, <2>2
    <3>2. stop - 1 \in 0 .. stop - 1
      BY <1>1
    <3>3. stop - 1 <= leaving
      BY <1>4, <3>1, <3>2
    <3> QED
      BY <1>1, <1>4, <3>1, <3>3
  <2>4. /\ left \in Seq(Combos)
        /\ Len(left) = IF stop <= size THEN size - stop + 1 ELSE 0
        /\ \A j \in 1 .. size - stop + 1 : left[j] = ring[stop + j - 1]
    <3>1. \A j \in leaving + 1 .. size : ring[j] \in Combos
      BY <1>1
    <3>2. /\ left \in Seq(Combos)
          /\ Len(left) = IF leaving + 1 <= size THEN size - (leaving + 1) + 1 ELSE 0
          /\ \A j \in 1 .. size - (leaving + 1) + 1 : left[j] = ring[(leaving + 1) + j - 1]
      BY <1>1, <3>1, SubSeqProperties
    <3>3. leaving + 1 = stop
      BY <1>1, <2>3
    <3> HIDE DEF left
    <3> QED
      BY <3>2, <3>3
  <2> HIDE DEF ring, size, left
  <2>5. CASE stop <= size
    <3>1. /\ n.combo_buffer = left /\ n.disabled = x.disabled \cup gone \cup {c}
      BY <1>1, <1>4, <2>5
    <3>2. DOMAIN left = 1 .. size - stop + 1
      BY <1>1, <2>4, <2>5
    <3>3. \A j \in 1 .. size - stop + 1 : stop + j - 1 \in 1 .. size
      BY <1>1, <2>5
    <3>4. Apart(n)
      BY <1>1, <1>5, <2>4, <3>1, <3>2, <3>3 DEF Apart
    <3>5. ASSUME NEW d PROVE d \in Range(left) <=> d \in Range(ring) \ gone
      <4>1. ASSUME d \in Range(left) PROVE d \in Range(ring) \ gone
        <5>1. PICK j \in 1 .. size - stop + 1 : d = ring[stop + j - 1]
          BY <2>4, <3>2, <4>1 DEF Range
        <5>2. \A l \in 1 .. stop - 1 : l \in 1 .. size /\ l # stop + j - 1
          BY <1>1, <2>5
        <5> QED
          BY <1>1, <1>5, <2>3, <3>3, <5>1, <5>2
      <4>2. ASSUME d \in Range(ring) \ gone PROVE d \in Range(left)
        <5>1. PICK l \in 1 .. size : d = ring[l]
          BY <1>1, <4>2
        <5>2. l \notin 1 .. stop - 1
          BY <2>3, <4>2, <5>1
        <5>3. l - stop + 1 \in 1 .. size - stop + 1 /\ stop + (l - stop + 1) - 1 = l
          BY <1>1, <5>2
        <5>4. left[l - stop + 1] = d
          BY <2>4, <5>1, <5>3
        <5> QED
          BY <3>2, <5>3, <5>4 DEF Range
      <4> QED
        BY <4>1, <4>2
    <3>6. Range(n.combo_buffer) = Range(ring) \ gone
      BY <3>1, <3>5
    <3> HIDE DEF gone
    <3> QED
      BY <1>6, <3>1, <3>4, <3>6 DEF ring
  <2>6. CASE stop = size + 1
    <3>1. left = <<>> /\ Len(left) = 0
      BY <1>1, <2>4, <2>6, EmptySeq
    <3>2. n.disabled = x.disabled \cup gone /\ n.combo_buffer = Append(<<>>, c)
      BY <1>1, <1>4, <2>6, <3>1, BuildIs
    <3>3. gone = Range(ring)
      BY <1>1, <2>3, <2>6
    <3> HIDE DEF gone
    <3>4. n.combo_buffer = <<c>>
      BY <3>2
    <3>5. DOMAIN n.combo_buffer = {1} /\ n.combo_buffer[1] = c
      BY <3>4
    <3>6. Apart(n) /\ Range(n.combo_buffer) = {c}
      BY <3>5 DEF Apart, Range
    <3>7. Range(n.combo_buffer) = (Range(ring) \ gone) \cup {c}
      BY <3>3, <3>6
    <3> QED
      BY <1>6, <3>2, <3>6, <3>7 DEF ring
  <2>7. stop <= size \/ stop = size + 1
    BY <1>1 DEF ring, size
  <2> QED
    BY <2>5, <2>6, <2>7
<1> QED
  BY <1>7, <1>8

\* The ring after a press that c has seen, and the invariant.
LEMMA RingUpdate ==
  ASSUME build \in Builds, NEW x \in Statics, NEW n \in Statics, NEW H, NEW B, NEW c \in Combos,
         KeysInv(x, H, B), ActiveInv(x, B), RingLive(x, B, {}), OrderInv(x, B), FreshInv(x, B),
         HandedOn(x, H, B), c \notin x.active, c \notin x.disabled,
         \A d \in Combos \ (x.active \cup x.disabled \cup {c}) :
            Complete(x, d) => d \in Range(x.combo_buffer),
         SameKeys(x, n), n.state = x.state, Apart(n),
         \/ /\ ~Complete(x, c)
            /\ Range(n.combo_buffer) = Range(x.combo_buffer) /\ n.disabled = x.disabled
         \/ /\ Complete(x, c)
            /\ \E gone \in SUBSET Range(x.combo_buffer) :
                 \/ /\ Range(n.combo_buffer) = (Range(x.combo_buffer) \ gone) \cup {c}
                    /\ n.disabled = x.disabled \cup gone
                 \/ /\ Range(n.combo_buffer) = Range(x.combo_buffer) \ gone
                    /\ n.disabled = x.disabled \cup gone \cup {c},
         c \notin Range(x.combo_buffer)
  PROVE  Within(n, H, B)
<1>1. n.active = x.active /\ n.keys_down = x.keys_down /\ n.combos_down = x.combos_down
  BY DEF SameKeys
<1>2. \A d : StateOf(n, d) = StateOf(x, d)
  BY DEF StateOf
<1>3. x.disabled \subseteq n.disabled
  OBVIOUS
<1>4. KeysInv(n, H, B)
  BY <1>1, <1>2 DEF KeysInv
<1>5. ActiveInv(n, B)
  BY <1>1, <1>2, <1>3 DEF ActiveInv
<1>6. OrderInv(n, B)
  BY <1>1, <1>2 DEF OrderInv
<1>7. FreshInv(n, B)
  BY <1>1, <1>2 DEF FreshInv
<1>8. HandedOn(n, H, B)
  BY <1>1, <1>2 DEF HandedOn
<1>9. \A d \in Range(x.combo_buffer) :
        /\ d \notin x.disabled /\ \A key \in KeysOf(d) : <<d, key>> \in x.state
        /\ d \in build.in_order => Ordered(d, B)
  BY DEF RingLive
<1>10. ASSUME Complete(x, c), c \in build.in_order PROVE Ordered(c, B)
  <2> SUFFICES ASSUME NEW i \in DOMAIN build.combos[c], NEW j \in DOMAIN build.combos[c], i < j
               PROVE  \A p, q \in DOMAIN B :
                        B[p] = build.combos[c][i] /\ B[q] = build.combos[c][j] => p < q
    BY DEF Ordered
  <2>1. build.combos[c][j] \in StateOf(x, c)
    BY <1>10 DEF Complete, KeysOf, Range
  <2> QED
    BY <1>10, <2>1 DEF OrderInv
<1>11. \A d \in Range(n.combo_buffer) :
         d \in Range(x.combo_buffer) \/ (d = c /\ Complete(x, c) /\ c \notin n.disabled)
  OBVIOUS
<1>12. \A d \in Range(n.combo_buffer) : d \notin n.disabled
  BY <1>9
<1>13. ASSUME NEW d \in Range(n.combo_buffer)
       PROVE  /\ \A key \in KeysOf(d) : <<d, key>> \in n.state \cup {}
              /\ d \in build.in_order => Ordered(d, B)
  <2>1. CASE d \in Range(x.combo_buffer)
    BY <1>9, <2>1
  <2>2. CASE d = c /\ Complete(x, c)
    BY <1>10, <2>2 DEF Complete, StateOf
  <2> QED
    BY <1>11, <2>1, <2>2
<1>14. RingLive(n, B, {})
  BY <1>12, <1>13 DEF RingLive
<1>15. Prepared(n)
  <2> SUFFICES ASSUME NEW d \in Combos, d \notin n.active, d \notin n.disabled, Complete(n, d)
               PROVE  d \in Range(n.combo_buffer)
    BY DEF Prepared
  <2>1. Complete(x, d)
    BY <1>2 DEF Complete
  <2>2. CASE d = c
    BY <2>1, <2>2
  <2>3. CASE d # c
    <3>1. d \in Range(x.combo_buffer)
      BY <1>1, <1>3, <2>1, <2>3
    <3> QED
      BY <3>1
  <2> QED
    BY <2>2, <2>3
<1> QED
  BY <1>4, <1>5, <1>6, <1>7, <1>8, <1>14, <1>15 DEF Within

\* One combo of the scan of a press.
LEMMA PressStep ==
  ASSUME build \in Builds, ChordsOnly, Grouped, RingSuffices, NEW m \in Statics, NEW H, NEW B,
         NEW key, Within(m, H, B), LastIs(B, key), NEW c \in Combos, key \notin StateOf(m, c),
         NEW n, n = process_single_combo(m, c, key, TRUE)
  PROVE  /\ n \in Statics /\ SameKeys(m, n) /\ Within(n, H, B)
         /\ \A d : d # c => StateOf(n, d) = StateOf(m, d)
         /\ n = m \/ (n.is_combo_key = TRUE /\ key \in KeysOf(c))
<1>1. SameKeys(m, m)
  BY DEF SameKeys, SameInput
<1>2. CASE key \notin KeysOf(c)
  BY <1>1, <1>2 DEF process_single_combo
<1>3. CASE key \in KeysOf(c) /\ ~IsPart(m, c, key)
  <2>1. ~Complete(m, c) /\ StateOf(m, c) # {key} /\ (key \in StateOf(m, c)) = FALSE
    BY <1>3 DEF Complete
  <2>2. single_Release(m, c, key) = <<m, FALSE>>
    BY <2>1 DEF single_Release
  <2>3. n = key_up(<<m, FALSE>>, c, key)
    BY <1>3, <2>2 DEF process_single_combo, After
  <2>4. m.state \ {<<c, key>>} = m.state
    BY <1>3 DEF StateOf
  <2>5. (m.is_combo_key \/ FALSE) = m.is_combo_key
    BY DEF Statics, Fields
  <2>6. n = [m EXCEPT !.state = m.state, !.is_combo_key = m.is_combo_key]
    BY <2>3, <2>4, <2>5 DEF key_up
  <2>7. n = m
    BY <2>6 DEF Statics, Fields
  <2> QED
    BY <1>1, <2>7
<1>4. CASE key \in KeysOf(c) /\ IsPart(m, c, key)
  <2>1. c \notin m.disabled /\ c \notin m.active /\ keys_pressed_in_order(m, c, key)
    BY <1>4 DEF IsPart, Within, ActiveInv
  <2>2. n = single_Press(m, c, key)
    BY <1>4 DEF process_single_combo
  <2>3. n \in Statics /\ SameKeys(m, n) /\ n.is_combo_key = TRUE
    BY <1>4, <2>2, PressIs
  <2>4. PICK x \in Statics :
          /\ SameKeys(m, x) /\ x.state = m.state \cup {<<c, key>>}
          /\ x.disabled = m.disabled /\ x.combo_buffer = m.combo_buffer
          /\ n.state = x.state
          /\ \/ /\ ~Complete(x, c)
                /\ n.disabled = x.disabled /\ n.combo_buffer = x.combo_buffer
             \/ /\ Complete(x, c)
                /\ n.disabled = x.disabled \cup {c} /\ n.combo_buffer = x.combo_buffer
             \/ Complete(x, c) /\ n = prepare(x, c)
    <3>1. \E x \in Statics : PressedAs(m, x, n, c, key)
      BY <1>4, <2>2, PressIs
    <3>2. PICK x \in Statics : PressedAs(m, x, n, c, key)
      BY <3>1
    <3>3. x.state = m.state \cup {<<c, key>>}
      BY <2>1, <3>2 DEF PressedAs
    <3> QED
      BY <3>2, <3>3 DEF PressedAs
  <2>5. NoneEmpty /\ IsInjective(build.combos[c])
    BY Hypotheses, KeymapIs
  <2>6. /\ KeysInv(x, H, B) /\ ActiveInv(x, B) /\ RingLive(x, B, {})
        /\ OrderInv(x, B) /\ FreshInv(x, B) /\ HandedOn(x, H, B)
        /\ \A d \in Combos \ (x.active \cup x.disabled \cup {c}) :
             Complete(x, d) => d \in Range(x.combo_buffer)
        /\ c \notin Range(x.combo_buffer)
        /\ \A d : d # c => StateOf(x, d) = StateOf(m, d)
    BY <1>4, <2>1, <2>4, <2>5, PressSees
  <2>7. SameKeys(x, n) /\ c \notin x.active /\ c \notin x.disabled
    BY <2>1, <2>3, <2>4 DEF SameKeys, SameInput
  <2>8. Apart(x)
    BY <2>6 DEF RingLive
  <2>9. /\ Apart(n)
        /\ \/ /\ ~Complete(x, c)
              /\ Range(n.combo_buffer) = Range(x.combo_buffer) /\ n.disabled = x.disabled
           \/ /\ Complete(x, c)
              /\ \E gone \in SUBSET Range(x.combo_buffer) :
                   \/ /\ Range(n.combo_buffer) = (Range(x.combo_buffer) \ gone) \cup {c}
                      /\ n.disabled = x.disabled \cup gone
                   \/ /\ Range(n.combo_buffer) = Range(x.combo_buffer) \ gone
                      /\ n.disabled = x.disabled \cup gone \cup {c}
    <3>1. CASE ~Complete(x, c)
      BY <2>4, <2>8, <3>1 DEF Apart
    <3>2. CASE Complete(x, c) /\ n.disabled = x.disabled \cup {c} /\ n.combo_buffer = x.combo_buffer
      <4>1. Apart(n)
        BY <2>8, <3>2 DEF Apart
      <4>2. /\ {} \in SUBSET Range(x.combo_buffer)
            /\ Range(n.combo_buffer) = Range(x.combo_buffer) \ {}
            /\ n.disabled = x.disabled \cup {} \cup {c}
        BY <3>2
      <4> QED
        BY <3>2, <4>1, <4>2
    <3>3. CASE Complete(x, c) /\ n = prepare(x, c)
      <4>1. PICK stop \in 1 .. Len(x.combo_buffer) + 1, leaving \in 0 .. Len(x.combo_buffer) :
                   PreparedAs(x, n, c, stop, leaving)
        BY <3>3, PrepareIs
      <4> QED
        BY <2>3, <2>6, <2>8, <3>3, <4>1, RingAfter
    <3> QED
      BY <2>4, <3>1, <3>2, <3>3
  <2>10. Within(n, H, B)
    BY <2>3, <2>4, <2>6, <2>7, <2>9, RingUpdate
  <2>11. \A d : StateOf(n, d) = StateOf(x, d)
    BY <2>4 DEF StateOf
  <2> QED
    BY <1>4, <2>3, <2>6, <2>10, <2>11
<1> QED
  BY <1>2, <1>3, <1>4

\* The scan of a press.
LEMMA PressScan ==
  ASSUME build \in Builds, ChordsOnly, Grouped, RingSuffices, static \in Statics, Clean(static),
         NEW H, NEW B, NEW key, Within(Quiet, H, B), LastIs(B, key),
         \A c \in Combos : key \notin StateOf(Quiet, c),
         NEW f, IsScan(f, Quiet, key, TRUE), NEW n, n = f[Len(build.combos)]
  PROVE  /\ n \in Statics /\ Clean(n) /\ SameKeys(Quiet, n) /\ Within(n, H, B)
         /\ \/ n = Quiet
            \/ n.is_combo_key = TRUE /\ \E c \in Combos : key \in KeysOf(c)
<1> DEFINE size == Len(build.combos)
           Is(c) == /\ SameKeys(Quiet, f[c]) /\ Within(f[c], H, B)
                    /\ \A d \in Combos : d > c => key \notin StateOf(f[c], d)
                    /\ \/ f[c] = Quiet
                       \/ f[c].is_combo_key = TRUE /\ \E d \in Combos : key \in KeysOf(d)
           S == {c \in Nat : c <= size => Is(c)}
<1>1. size \in Nat /\ Combos = 1 .. size
  BY BuildIs
<1>2. \A c \in 0 .. size : f[c] \in Statics /\ Clean(f[c])
  BY ScanTyped
<1>3. f[0] = Quiet /\ \A c \in Combos : f[c] = process_single_combo(f[c - 1], c, key, TRUE)
  <2>1. Combos \subseteq Nat \ {0}
    BY <1>1
  <2> QED
    BY <2>1 DEF IsScan
<1>4. Is(0)
  <2>1. SameKeys(Quiet, Quiet)
    BY DEF SameKeys, SameInput
  <2> QED
    BY <1>3, <2>1
<1>5. ASSUME NEW c \in Nat, c \in S PROVE c + 1 \in S
  <2> HIDE DEF Is
  <2> SUFFICES ASSUME c + 1 <= size PROVE Is(c + 1)
    OBVIOUS
  <2>1. c \in 0 .. size /\ c + 1 \in Combos /\ (c + 1) - 1 = c /\ Is(c)
    BY <1>1, <1>5
  <2> DEFINE m == f[c]
             x == f[c + 1]
  <2>2. m \in Statics /\ x = process_single_combo(m, c + 1, key, TRUE)
    BY <1>2, <1>3, <2>1
  <2>3. /\ SameKeys(Quiet, m) /\ Within(m, H, B)
        /\ \A d \in Combos : d > c => key \notin StateOf(m, d)
        /\ \/ m = Quiet
           \/ m.is_combo_key = TRUE /\ \E d \in Combos : key \in KeysOf(d)
    BY <2>1 DEF Is
  <2> HIDE DEF m, x
  <2>4. key \notin StateOf(m, c + 1)
    BY <1>1, <2>1, <2>3
  <2>5. /\ x \in Statics /\ SameKeys(m, x) /\ Within(x, H, B)
        /\ \A d : d # c + 1 => StateOf(x, d) = StateOf(m, d)
        /\ x = m \/ (x.is_combo_key = TRUE /\ key \in KeysOf(c + 1))
    <3> DEFINE d == c + 1
    <3>1. d \in Combos /\ key \notin StateOf(m, d) /\ x = process_single_combo(m, d, key, TRUE)
      BY <2>1, <2>2, <2>4
    <3> HIDE DEF d
    <3>2. /\ x \in Statics /\ SameKeys(m, x) /\ Within(x, H, B)
          /\ \A e : e # d => StateOf(x, e) = StateOf(m, e)
          /\ x = m \/ (x.is_combo_key = TRUE /\ key \in KeysOf(d))
      BY <2>2, <2>3, <3>1, PressStep
    <3> QED
      BY <3>2 DEF d
  <2>6. SameKeys(Quiet, x)
    BY <2>3, <2>5 DEF SameKeys, SameInput
  <2>7. \A d \in Combos : d > c + 1 => key \notin StateOf(x, d)
    <3>1. \A d \in Combos : d > c + 1 => d > c /\ d # c + 1
      BY <1>1
    <3> QED
      BY <2>3, <2>5, <3>1
  <2>8. \/ x = Quiet
        \/ x.is_combo_key = TRUE /\ \E d \in Combos : key \in KeysOf(d)
    BY <2>1, <2>3, <2>5
  <2> QED
    BY <2>5, <2>6, <2>7, <2>8 DEF Is, x
<1>6. 0 \in S
  BY <1>4
<1> HIDE DEF S
<1>7. Nat \subseteq S
  BY <1>5, <1>6, SetInduction
<1>8. Is(size) /\ size \in 0 .. size
  BY <1>1, <1>7 DEF S
<1> QED
  BY <1>2, <1>8

\* With room for all keys of combos, no press is lost for want of room.
LEMMA BufferHasRoom ==
  ASSUME build \in Builds, NEW m \in Statics, OfCombos(m.key_buffer), NEW key \in Keys,
         NEW c \in Combos, key \in KeysOf(c), NEW B, B = Append(m.key_buffer, key),
         IsInjective(B), BufferSuffices
  PROVE  Len(m.key_buffer) < COMBO_KEY_BUFFER_LENGTH
<1> DEFINE K == m.key_buffer
           R == UNION {KeysOf(d) : d \in Combos}
<1>1. IsFiniteSet(R) /\ Cardinality(R) <= COMBO_KEY_BUFFER_LENGTH
  <2>1. UNION {Range(build.combos[d]) : d \in DOMAIN build.combos} = R
    BY DEF KeysOf, Combos
  <2> HIDE DEF R
  <2> QED
    BY <2>1 DEF BufferSuffices
<1>2. K \in Seq(Keys) /\ COMBO_KEY_BUFFER_LENGTH \in Nat
  BY ComboAssumption DEF Statics, Fields
<1>3. Range(K) \cup {key} \subseteq R
  BY DEF OfCombos
<1> HIDE DEF K, R
<1>4. B = Append(K, key)
  BY DEF K
<1>5. /\ Append(K, key) \in Seq(Keys) /\ Len(K) \in Nat /\ Len(Append(K, key)) = Len(K) + 1
      /\ Range(Append(K, key)) = Range(K) \cup {key}
  BY <1>2, AppendIs
<1>6. B \in Seq(Keys) /\ Len(B) = Len(K) + 1 /\ Range(B) \subseteq R
  BY <1>3, <1>4, <1>5
<1>7. Len(B) <= Cardinality(R) /\ Cardinality(R) \in Nat
  BY ONLY IsInjective(B), <1>1, <1>6, InjectiveLength
<1>8. Len(K) < COMBO_KEY_BUFFER_LENGTH
  BY ONLY <1>1, <1>2, <1>5, <1>6, <1>7
<1> QED
  BY <1>8 DEF K

\* A press that is lost for want of room.
LEMMA PressLost ==
  ASSUME build \in Builds, ~BufferSuffices, NEW m \in Statics, NEW H, NEW key \in Keys,
         NEW B, B = Append(m.key_buffer, key), Within(m, H, B)
  PROVE  Within(m, H, m.key_buffer)
<1> DEFINE K == m.key_buffer
           k == Len(K)
<1>1. /\ k \in Nat /\ DOMAIN K = 1 .. k /\ DOMAIN B = 1 .. k + 1
      /\ \A i \in 1 .. k : B[i] = K[i]
      /\ Range(B) = Range(K) \cup {key}
  <2>1. K \in Seq(Keys) /\ B = Append(K, key)
    BY DEF Statics, Fields
  <2> HIDE DEF K
  <2> QED
    BY <2>1, AppendIs
<1>2. \A i \in DOMAIN K : i \in DOMAIN B /\ B[i] = K[i]
  BY <1>1
<1> HIDE DEF K, k
<1>3. /\ KeysInv(m, H, B) /\ ActiveInv(m, B) /\ RingLive(m, B, {}) /\ Prepared(m)
      /\ OrderInv(m, B)
  BY DEF Within
<1>4. KeysInv(m, H, K)
  <2>1. IsInjective(K)
    BY <1>2, <1>3 DEF KeysInv, IsInjective
  <2> QED
    BY <1>1, <1>3, <2>1 DEF KeysInv
<1>5. ActiveInv(m, K)
  BY <1>1, <1>3 DEF ActiveInv
<1>6. RingLive(m, K, {})
  <2>1. \A c : Ordered(c, B) => Ordered(c, K)
    BY <1>2 DEF Ordered
  <2> QED
    BY <1>3, <2>1 DEF RingLive
<1>7. OrderInv(m, K)
  BY <1>2, <1>3 DEF OrderInv
<1>8. FreshInv(m, K) /\ HandedOn(m, H, K)
  BY DEF FreshInv, HandedOn
<1> QED
  BY <1>3, <1>4, <1>5, <1>6, <1>7, <1>8 DEF Within, K

\* The presses that are held back, and one more.
AndPress(m, key) == Append(m.key_buffer, key)

\* A press of which a combo takes the key is held back.
LEMMA HeldBackCore ==
  ASSUME build \in Builds, NEW m \in Statics, NEW H, NEW key \in Keys,
         NEW B, B = AndPress(m, key), Within(m, H, B), OfCombos(m.key_buffer),
         NEW c \in Combos, key \in KeysOf(c),
         NEW time \in {0, Off}, NEW n, n = hold_back(m, key, time)
  PROVE  Core(n, H) /\ n.combos_down = m.combos_down
<1>1. /\ n.state = m.state /\ n.active = m.active /\ n.disabled = m.disabled
      /\ n.combo_buffer = m.combo_buffer
      /\ n.keys_down = m.keys_down /\ n.combos_down = m.combos_down
      /\ n.key_buffer = IF Len(m.key_buffer) < COMBO_KEY_BUFFER_LENGTH THEN B ELSE m.key_buffer
  BY HoldBackIs DEF AndPress
<1>2. CASE Len(m.key_buffer) < COMBO_KEY_BUFFER_LENGTH
  <2>1. n.key_buffer = B
    BY <1>1, <1>2
  <2>2. Within(n, H, B)
    BY <1>1, SameWithin
  <2>3. Range(B) = Range(m.key_buffer) \cup {key}
    <3> DEFINE K == m.key_buffer
    <3>1. K \in Seq(Keys) /\ B = Append(K, key)
      BY DEF Statics, Fields, AndPress
    <3> HIDE DEF K
    <3>2. Range(B) = Range(K) \cup {key}
      BY <3>1, AppendIs
    <3> QED
      BY <3>2 DEF K
  <2>4. OfCombos(B)
    BY <2>3 DEF OfCombos
  <2> QED
    BY <1>1, <2>1, <2>2, <2>4 DEF Core
<1>3. CASE ~(Len(m.key_buffer) < COMBO_KEY_BUFFER_LENGTH)
  <2>1. n.key_buffer = m.key_buffer
    BY <1>1, <1>3
  <2>2. IsInjective(B)
    BY DEF Within, KeysInv
  <2>3. ~BufferSuffices
    BY <1>3, <2>2, BufferHasRoom DEF AndPress
  <2>4. Within(m, H, m.key_buffer)
    BY <2>3, PressLost DEF AndPress
  <2>5. Within(n, H, m.key_buffer)
    BY <1>1, <2>4, SameWithin
  <2> QED
    BY <1>1, <2>1, <2>5 DEF Core
<1> QED
  BY <1>2, <1>3

\* The step of a press.
LEMMA PressCore ==
  ASSUME IInv, ChordsOnly, Grouped, RingSuffices, NEW key \in Keys, process_combo_Press(key)
  PROVE  Core(static, held)' /\ AsConfigured
<1>1. /\ build \in Builds /\ static \in Statics /\ Clean(static) /\ Core(static, held)
      /\ build' = build /\ key \notin held /\ held' = held \cup {key}
  BY DEF IInv, Typed, process_combo_Press
<1>2. PICK f : IsScan(f, Quiet, key, TRUE) /\ scan(key, TRUE) = f[Len(build.combos)]
  BY <1>1, ScanIs
<1> DEFINE m == scan(key, TRUE)
           H == held \cup {key}
           B == Append(static.key_buffer, key)
<1>3. /\ Quiet \in Statics /\ Clean(Quiet) /\ Quiet.state = static.state
      /\ Quiet.active = static.active /\ Quiet.disabled = static.disabled
      /\ Quiet.key_buffer = static.key_buffer /\ Quiet.combo_buffer = static.combo_buffer
      /\ Quiet.keys_down = static.keys_down /\ Quiet.combos_down = static.combos_down
  BY <1>1 DEF Quiet, Statics, Fields, Clean
<1>4. IF m.is_combo_key
      THEN \E time \in timer_read : static' = hold_back(m, key, time)
      ELSE static' = [flush(m) EXCEPT !.keys_down = @ \cup {key}]
  BY DEF process_combo_Press
<1>5. LastIs(B, key)
  <2> DEFINE K == static.key_buffer
  <2>1. K \in Seq(Keys)
    BY <1>1 DEF Statics, Fields
  <2> HIDE DEF K
  <2>2. /\ Len(K) \in Nat /\ DOMAIN Append(K, key) = 1 .. Len(K) + 1
        /\ Append(K, key)[Len(K) + 1] = key
    BY <2>1, AppendIs
  <2>3. LastIs(Append(K, key), key)
    BY <2>2 DEF LastIs
  <2> QED
    BY <2>3 DEF K
<1> HIDE DEF m, H, B
<1>6. B = Append(static.key_buffer, key) /\ m = f[Len(build.combos)] /\ H = held \cup {key}
  BY <1>2 DEF B, m, H
<1>7. Within(Quiet, H, B) /\ \A c \in Combos : key \notin StateOf(Quiet, c)
  BY <1>1, <1>3, <1>6, PressStart
<1>8. /\ m \in Statics /\ SameKeys(Quiet, m) /\ Within(m, H, B)
      /\ \/ m = Quiet
         \/ m.is_combo_key = TRUE /\ \E c \in Combos : key \in KeysOf(c)
  BY <1>1, <1>2, <1>5, <1>6, <1>7, PressScan
<1>9. m.key_buffer = static.key_buffer /\ m.combos_down = static.combos_down
  BY <1>3, <1>8 DEF SameKeys
<1>10. CASE m.is_combo_key
  <2>1. PICK time \in {0, Off} : static' = hold_back(m, key, time)
    BY <1>4, <1>10 DEF timer_read
  <2>2. m # Quiet
    BY <1>1, <1>10 DEF Quiet, Statics, Fields
  <2>3. PICK c \in Combos : key \in KeysOf(c)
    BY <1>8, <2>2
  <2>4. OfCombos(m.key_buffer)
    BY <1>1, <1>9 DEF Core
  <2>5. Core(static', H) /\ static'.combos_down = m.combos_down
    <3>1. build \in Builds /\ m \in Statics /\ B = AndPress(m, key) /\ Within(m, H, B)
      BY <1>1, <1>6, <1>8, <1>9 DEF AndPress
    <3> QED
      BY <2>1, <2>3, <2>4, <3>1, HeldBackCore
  <2>6. Core(static, held)'
    BY <1>1, <1>6, <2>5, PrimedCore
  <2>7. AsConfigured
    BY <1>9, <2>5 DEF AsConfigured, Fired
  <2> QED
    BY <2>6, <2>7
<1>11. CASE ~m.is_combo_key
  <2> DEFINE n == flush(Quiet)
  <2>1. static' = [n EXCEPT !.keys_down = @ \cup {key}]
    BY <1>4, <1>8, <1>11
  <2>2. Core(Quiet, held)
    BY <1>1, <1>3, SameCore
  <2>3. NoneEmpty /\ \A c \in Combos : \A k : KeysOf(c) \ {k} # {}
    BY <1>1, Hypotheses
  <2>4. /\ n \in Statics /\ FlushedAs(Quiet, n, Range(Quiet.combo_buffer) \ build.must_tap)
        /\ KeysInv(n, held, <<>>) /\ ActiveInv(n, <<>>) /\ HandedOn(n, held, <<>>)
        /\ \A c \in Combos \ n.active : StateOf(n, c) = {}
    BY <1>1, <1>3, <2>2, <2>3, FlushCore
  <2> HIDE DEF n
  <2>5. n.key_buffer = <<>> /\ n.combo_buffer = <<>>
    BY <2>4 DEF FlushedAs
  <2>6. Core(n, held)
    BY <1>1, <2>3, <2>4, <2>5, EmptyCore
  <2>7. /\ static'.state = n.state /\ static'.active = n.active
        /\ static'.disabled = n.disabled
        /\ static'.key_buffer = n.key_buffer /\ static'.combo_buffer = n.combo_buffer
        /\ static'.keys_down = n.keys_down \cup {key}
        /\ static'.combos_down = n.combos_down
    BY <2>1, <2>4 DEF Statics, Fields
  <2>8. Core(static', held')
    BY <1>1, <2>6, <2>7, DownCore
  <2>9. Core(static, held)'
    BY <1>1, <2>8, PrimedCore
  <2>10. static'.combos_down = static.combos_down \cup
                    Formed(static, Range(static.combo_buffer) \ build.must_tap)
    BY <1>3, <2>4, <2>7 DEF FlushedAs, Formed
  <2>11. AsConfigured
    BY <1>1, <2>10, FlushFiresAs DEF IInv
  <2> QED
    BY <2>9, <2>11
<1> QED
  BY <1>10, <1>11

-----------------------------------------------------------------------------
(* A release.                                                              *)

\* What the combos up to i have seen go up.
Gone(key, i) == {<<c, key>> : c \in 1 .. i}

\* A combo fires as it is configured to, of presses that are held back in K, when the
\* keys of H are down before the step and those of P after it.
Configured(c, K, H, P) ==
  /\ KeysOf(c) \subseteq H \cap Range(K)
  /\ c \in build.must_hold => KeysOf(c) \subseteq P
  /\ c \in build.must_tap  => ~(KeysOf(c) \subseteq P)
  /\ c \in build.in_order  => Ordered(c, K)

\* No combo up to i knows key any more, and those left in the ring are plain ones.
Passed(m, key, i) ==
  \A c \in Combos : c <= i =>
    /\ key \notin StateOf(m, c)
    /\ c \in Range(m.combo_buffer) /\ key \in KeysOf(c) =>
         c \notin build.must_hold \cup build.must_tap

\* If the release belongs to a combo then the key was not handed on, and if its press is
\* still held back, then it is to become part of a combo.
Taken(m, key, i) ==
  m.is_combo_key = TRUE =>
    /\ key \notin m.keys_down
    /\ key \in Range(m.key_buffer) =>
         \E c \in Range(m.combo_buffer) \ build.must_tap : c <= i /\ key \in KeysOf(c)

\* Either nothing fired yet, or the buffers are empty.
History(m, key) ==
  /\ \A c \in m.combos_down \ static.combos_down :
       Configured(c, static.key_buffer, held, held \ {key})
  /\ \/ m.key_buffer = static.key_buffer /\ m.combos_down \subseteq static.combos_down
     \/ /\ m.key_buffer = <<>> /\ m.combo_buffer = <<>>
        /\ \A c \in Combos \ m.active : StateOf(m, c) = {}

\* What holds of m when the combos up to i have been told that key is released.
UpTo(m, key, i) ==
  /\ KeysInv(m, held, m.key_buffer) /\ ActiveInv(m, m.key_buffer)
  /\ RingLive(m, m.key_buffer, Gone(key, i)) /\ Prepared(m)
  /\ RingFresh(m, m.key_buffer) /\ HandedOn(m, held \ {key}, m.key_buffer)
  /\ Passed(m, key, i) /\ Taken(m, key, i) /\ History(m, key)

\* It holds before the first combo is told.
LEMMA UpToZero ==
  ASSUME Typed, Core(static, held), NEW key
  PROVE  UpTo(Quiet, key, 0)
<1>1. /\ Quiet.state = static.state /\ Quiet.active = static.active
      /\ Quiet.disabled = static.disabled
      /\ Quiet.key_buffer = static.key_buffer /\ Quiet.combo_buffer = static.combo_buffer
      /\ Quiet.keys_down = static.keys_down /\ Quiet.combos_down = static.combos_down
      /\ Quiet.is_combo_key = FALSE /\ Quiet \in Statics
  BY DEF Typed, Quiet, Statics, Fields
<1>2. build \in Builds
  BY DEF Typed
<1> DEFINE K == Quiet.key_buffer
<1>3. Within(Quiet, held, K)
  <2>1. Within(static, held, K)
    BY <1>1 DEF Core
  <2> QED
    BY <1>1, <1>2, <2>1, SameWithin
<1>4. /\ KeysInv(Quiet, held, K) /\ ActiveInv(Quiet, K) /\ RingLive(Quiet, K, {})
      /\ Prepared(Quiet) /\ FreshInv(Quiet, K) /\ HandedOn(Quiet, held, K)
  BY <1>3 DEF Within
<1>5. Gone(key, 0) = {}
  BY DEF Gone
<1>6. RingFresh(Quiet, K)
  BY <1>1, <1>4, RingFreshIs
<1>7. HandedOn(Quiet, held \ {key}, K)
  BY <1>4 DEF HandedOn
<1>8. Passed(Quiet, key, 0)
  <2>1. \A c \in Combos : ~(c <= 0)
    BY <1>2, BuildIs
  <2> QED
    BY <2>1 DEF Passed
<1>9. Taken(Quiet, key, 0) /\ History(Quiet, key)
  BY <1>1 DEF Taken, History
<1> QED
  BY <1>4, <1>5, <1>6, <1>7, <1>8, <1>9 DEF UpTo

\* c sees the release of its key, and nothing is made of what is held back.
LEMMA ReleaseKeeps ==
  ASSUME build \in Builds, NEW m \in Statics, NEW key, NEW c \in Combos, UpTo(m, key, c - 1),
         key \in KeysOf(c), NEW n,
         n.key_buffer = m.key_buffer, n.keys_down = m.keys_down,
         n.state = m.state \ {<<c, key>>},
         \/ n.active = m.active /\ n.combos_down = m.combos_down
         \/ /\ n.active = m.active \ {c} /\ n.combos_down = m.combos_down \ {c}
            /\ StateOf(m, c) = {key},
         c \in n.active => StateOf(m, c) # {key},
         \/ n.combo_buffer = m.combo_buffer /\ n.disabled = m.disabled
         \/ /\ n.combo_buffer = <<>> /\ n.disabled = m.disabled \cup {c}
            /\ Range(m.combo_buffer) = {c} /\ c \in build.must_hold,
         c \in Range(n.combo_buffer) => c \notin build.must_hold \cup build.must_tap,
         n.is_combo_key = TRUE => \/ m.is_combo_key = TRUE
                                  \/ /\ key \in StateOf(m, c)
                                     /\ c \in m.active \cup Range(n.combo_buffer)
  PROVE  UpTo(n, key, c)
<1> DEFINE K == m.key_buffer
<1>1. /\ KeysInv(m, held, K) /\ ActiveInv(m, K)
      /\ RingLive(m, K, Gone(key, c - 1)) /\ Prepared(m)
      /\ RingFresh(m, K) /\ HandedOn(m, held \ {key}, K)
      /\ Passed(m, key, c - 1) /\ Taken(m, key, c - 1) /\ History(m, key)
  BY DEF UpTo
<1>2. /\ StateOf(n, c) = StateOf(m, c) \ {key}
      /\ \A d : d # c => StateOf(n, d) = StateOf(m, d)
  <2>1. \A d, k : <<d, k>> = <<c, key>> <=> d = c /\ k = key
    OBVIOUS
  <2>2. \A d, k : <<d, k>> \in n.state <=> <<d, k>> \in m.state /\ ~(d = c /\ k = key)
    BY <2>1
  <2> QED
    BY ONLY <2>2 DEF StateOf
<1>3. \A d : StateOf(n, d) \subseteq StateOf(m, d)
  BY <1>2
<1>4. Range(<<>>) = {}
  BY DEF Range
<1>5. /\ n.active \subseteq m.active /\ Range(n.combo_buffer) \subseteq Range(m.combo_buffer)
      /\ n.combos_down \subseteq m.combos_down /\ m.disabled \subseteq n.disabled
      /\ Combos \subseteq Nat /\ m.active \subseteq Combos
  <2>1. Combos \subseteq Nat /\ m.active \subseteq Combos
    BY BuildIs DEF Statics, Fields
  <2> QED
    BY <1>4, <2>1
<1>6. \A d \in Combos : d <= c => d = c \/ d <= c - 1
  BY <1>5
<1>7. \A d \in Combos : d <= c - 1 => d <= c /\ d # c
  BY <1>5
<1>8. KeysInv(n, held, K)
  BY <1>1, <1>3 DEF KeysInv
<1>9. ActiveInv(n, K)
  <2>1. n.combos_down = n.active /\ n.active \subseteq n.disabled
    BY <1>1, <1>5 DEF ActiveInv
  <2>2. ASSUME NEW a \in n.active PROVE StateOf(n, a) # {}
    <3>1. StateOf(m, a) # {}
      BY <1>1, <1>5 DEF ActiveInv
    <3> QED
      BY <1>2, <3>1
  <2>3. ASSUME NEW a \in n.active
        PROVE  /\ StateOf(n, a) \cap Range(K) = {}
               /\ \A d \in Combos \ {a} : StateOf(n, a) \cap StateOf(n, d) = {}
    <3>1. /\ StateOf(m, a) \cap Range(K) = {}
          /\ \A d \in Combos \ {a} : StateOf(m, a) \cap StateOf(m, d) = {}
      BY <1>1, <1>5 DEF ActiveInv
    <3> QED
      BY <1>3, <3>1
  <2> QED
    BY <2>1, <2>2, <2>3 DEF ActiveInv
<1>10. RingLive(n, K, Gone(key, c))
  <2>1. Apart(n)
    BY <1>1 DEF RingLive, Apart
  <2>2. ASSUME NEW d \in Range(n.combo_buffer), NEW k \in KeysOf(d)
        PROVE  <<d, k>> \in n.state \cup Gone(key, c)
    <3>1. <<d, k>> \in m.state \cup Gone(key, c - 1)
      BY <1>1, <1>5 DEF RingLive
    <3>2. Gone(key, c - 1) \subseteq Gone(key, c) /\ <<c, key>> \in Gone(key, c)
      <4>1. 1 .. c - 1 \subseteq 1 .. c /\ c \in 1 .. c
        BY BuildIs
      <4> QED
        BY <4>1 DEF Gone
    <3> QED
      BY <3>1, <3>2
  <2>3. \A d \in Range(n.combo_buffer) :
          d \notin n.disabled /\ (d \in build.in_order => Ordered(d, K))
    BY <1>1, <1>4 DEF RingLive
  <2> QED
    BY <2>1, <2>2, <2>3 DEF RingLive
<1>11. Prepared(n)
  <2> SUFFICES ASSUME NEW d \in Combos, d \notin n.active, d \notin n.disabled, Complete(n, d)
               PROVE  d \in Range(n.combo_buffer)
    BY DEF Prepared
  <2>1. d # c
    BY <1>2 DEF Complete
  <2>2. Complete(m, d) /\ d \notin m.active /\ d \notin m.disabled
    BY <1>2, <1>5, <2>1 DEF Complete
  <2>3. d \in Range(m.combo_buffer)
    BY <1>1, <2>2 DEF Prepared
  <2> QED
    BY <2>1, <2>3
<1>12. RingFresh(n, K)
  BY <1>1, <1>5 DEF RingFresh
<1>13. HandedOn(n, held \ {key}, K)
  <2> SUFFICES ASSUME BufferSuffices, NEW k \in held \ {key}, k \notin m.keys_down \cup Range(K)
               PROVE  \E a \in n.active : k \in StateOf(n, a)
    BY DEF HandedOn
  <2>1. PICK a \in m.active : k \in StateOf(m, a)
    BY <1>1 DEF HandedOn
  <2>2. k # key
    OBVIOUS
  <2>3. k \in StateOf(n, a)
    BY <1>2, <2>1, <2>2
  <2>4. a \in n.active
    BY <2>1, <2>2
  <2> QED
    BY <2>3, <2>4
<1>14. Passed(n, key, c)
  <2>1. key \notin StateOf(n, c)
    BY <1>2
  <2>2. ASSUME NEW d \in Combos, d <= c
        PROVE  /\ key \notin StateOf(n, d)
               /\ d \in Range(n.combo_buffer) /\ key \in KeysOf(d) =>
                    d \notin build.must_hold \cup build.must_tap
    <3>1. CASE d = c
      BY <2>1, <3>1
    <3>2. CASE d <= c - 1
      BY <1>1, <1>3, <1>5, <3>2 DEF Passed
    <3> QED
      BY <1>6, <2>2, <3>1, <3>2
  <2> QED
    BY <2>2 DEF Passed
<1>15. Taken(n, key, c)
  <2> SUFFICES ASSUME n.is_combo_key = TRUE
               PROVE  /\ key \notin n.keys_down
                      /\ key \in Range(K) =>
                           \E d \in Range(n.combo_buffer) \ build.must_tap :
                             d <= c /\ key \in KeysOf(d)
    BY DEF Taken
  <2>1. CASE m.is_combo_key = TRUE
    <3>1. key \notin m.keys_down
      BY <1>1, <2>1 DEF Taken
    <3>2. ASSUME key \in Range(K)
          PROVE  \E d \in Range(n.combo_buffer) \ build.must_tap : d <= c /\ key \in KeysOf(d)
      <4>1. PICK d \in Range(m.combo_buffer) \ build.must_tap : d <= c - 1 /\ key \in KeysOf(d)
        BY <1>1, <2>1, <3>2 DEF Taken
      <4>2. d \in Combos
        BY <1>1, ApartIs DEF RingLive
      <4>3. d # c /\ d <= c
        BY <1>7, <4>1, <4>2
      <4>4. d \in Range(n.combo_buffer)
        BY <4>1, <4>3
      <4> QED
        BY <4>1, <4>3, <4>4
    <3> QED
      BY <3>1, <3>2
  <2>2. CASE key \in StateOf(m, c) /\ c \in m.active \cup Range(n.combo_buffer)
    <3>1. key \notin m.keys_down
      BY <1>1, <2>2 DEF KeysInv
    <3>2. c \in m.active => key \notin Range(K)
      BY <1>1, <2>2 DEF ActiveInv
    <3>3. c <= c
      BY <1>5
    <3>4. c \in Range(n.combo_buffer) => c \in Range(n.combo_buffer) \ build.must_tap
      OBVIOUS
    <3> QED
      BY <2>2, <3>1, <3>2, <3>3, <3>4
  <2> QED
    BY <2>1, <2>2
<1>16. History(n, key)
  <2>1. \A d \in n.combos_down \ static.combos_down :
          Configured(d, static.key_buffer, held, held \ {key})
    BY <1>1, <1>5 DEF History
  <2>2. CASE m.key_buffer = static.key_buffer /\ m.combos_down \subseteq static.combos_down
    BY <1>5, <2>1, <2>2 DEF History
  <2>3. CASE /\ m.key_buffer = <<>> /\ m.combo_buffer = <<>>
             /\ \A d \in Combos \ m.active : StateOf(m, d) = {}
    <3>1. n.combo_buffer = <<>>
      BY <2>3
    <3>2. ASSUME NEW d \in Combos \ n.active PROVE StateOf(n, d) = {}
      <4>1. CASE d \notin m.active
        BY <1>3, <2>3, <4>1
      <4>2. CASE d \in m.active
        BY <1>2, <4>2
      <4> QED
        BY <4>1, <4>2
    <3> QED
      BY <2>1, <2>3, <3>1, <3>2 DEF History
  <2> QED
    BY <1>1, <2>2, <2>3 DEF History
<1> QED
  BY <1>8, <1>9, <1>10, <1>11, <1>12, <1>13, <1>14, <1>15, <1>16 DEF UpTo

\* A combo taken out of the ring, if it is the first.
LEMMA DropRing ==
  ASSUME build \in Builds, NEW m \in Statics, Apart(m), NoneEmpty, NEW c \in Combos,
         NEW n \in Statics,
         n.combo_buffer = IF c \in Range(m.combo_buffer) /\ Head(m.combo_buffer) = c
                          THEN Tail(m.combo_buffer) ELSE m.combo_buffer
  PROVE  /\ Apart(n) /\ Range(n.combo_buffer) \cup {c} = Range(m.combo_buffer) \cup {c}
         /\ Range(m.combo_buffer) = {c} => n.combo_buffer = <<>>
<1> DEFINE r == m.combo_buffer
           t == n.combo_buffer
<1>1. r \in Seq(Combos) /\ t \in Seq(Combos) /\ DOMAIN r = 1 .. Len(r) /\ Len(r) \in Nat
  <2>1. r \in Seq(Combos) /\ t \in Seq(Combos)
    BY ONLY m \in Statics, n \in Statics DEF Statics, Fields
  <2> QED
    BY ONLY <2>1
<1>2. CASE c \in Range(r) /\ Head(r) = c
  <2>1. r # <<>>
    BY <1>2 DEF Range
  <2> HIDE DEF r, t
  <2>2. /\ Len(Tail(r)) = Len(r) - 1 /\ \A i \in 1 .. Len(Tail(r)) : Tail(r)[i] = r[i + 1]
        /\ Head(r) = r[1] /\ Len(r) >= 1
    <3>1. Head(r) = r[1] /\ Len(r) >= 1
      BY <1>1, <2>1
    <3> QED
      BY <1>1, <2>1, <3>1, HeadTailProperties
  <2>3. t = Tail(r)
    BY <1>2 DEF r, t
  <2>4. Len(t) = Len(r) - 1 /\ \A i \in 1 .. Len(t) : t[i] = r[i + 1]
    BY <2>2, <2>3
  <2>5. r[1] = c /\ Len(r) >= 1
    BY <1>2, <2>2
  <2>6. DOMAIN t = 1 .. Len(t) /\ Len(t) \in Nat
    BY <1>1
  <2>7. \A i \in DOMAIN t : i + 1 \in DOMAIN r /\ t[i] = r[i + 1]
    BY ONLY <1>1, <2>4, <2>6
  <2>8. \A j \in DOMAIN r : j = 1 \/ (j - 1 \in DOMAIN t /\ t[j - 1] = r[j])
    BY ONLY <1>1, <2>4, <2>6
  <2>9. \A i, j \in DOMAIN t : i # j => ~Overlaps(t[i], t[j])
    <3>1. \A i, j \in DOMAIN r : i # j => ~Overlaps(r[i], r[j])
      BY DEF Apart, r
    <3>2. \A i, j \in DOMAIN t : i # j => i + 1 # j + 1
      BY ONLY <2>6
    <3> QED
      BY ONLY <2>7, <3>1, <3>2
  <2>10. Range(t) \cup {c} = Range(r) \cup {c}
    <3>1. Range(t) \subseteq Range(r)
      BY ONLY <2>7 DEF Range
    <3>2. Range(r) \subseteq Range(t) \cup {c}
      BY ONLY <2>5, <2>8 DEF Range
    <3> QED
      BY ONLY <1>2, <3>1, <3>2
  <2>11. ASSUME Range(r) = {c} PROVE t = <<>>
    <3>1. \A j \in DOMAIN r : r[j] = c
      BY <2>11 DEF Range
    <3>2. Overlaps(c, c)
      BY DEF NoneEmpty, Overlaps
    <3>3. \A i, j \in DOMAIN r : i # j => ~Overlaps(r[i], r[j])
      BY DEF Apart, r
    <3>4. \A i, j \in DOMAIN r : i = j
      BY ONLY <3>1, <3>2, <3>3
    <3>5. 1 \in DOMAIN r
      BY ONLY <1>1, <2>5
    <3>6. ~(Len(r) >= 2)
      <4>1. Len(r) >= 2 => 2 \in DOMAIN r
        BY ONLY <1>1
      <4>2. 2 \in DOMAIN r => 1 = 2
        BY ONLY <3>4, <3>5
      <4> QED
        BY ONLY <4>1, <4>2
    <3>7. Len(t) = 0
      BY ONLY <1>1, <2>4, <2>5, <3>6
    <3> QED
      BY ONLY <1>1, <3>7, EmptySeq
  <2> QED
    BY <2>9, <2>10, <2>11 DEF Apart, r, t
<1>3. CASE ~(c \in Range(r) /\ Head(r) = c)
  <2>1. t = r
    BY <1>3
  <2>2. ASSUME Range(r) = {c} PROVE FALSE
    <3>1. r # <<>>
      BY <2>2 DEF Range
    <3> HIDE DEF r, t
    <3>2. Head(r) = r[1] /\ 1 \in DOMAIN r
      BY <1>1, <3>1
    <3>3. r[1] \in Range(r)
      BY <3>2 DEF Range
    <3> QED
      BY <1>3, <2>2, <3>2, <3>3
  <2> QED
    BY <2>1, <2>2 DEF Apart
<1> QED
  BY <1>2, <1>3

\* A hold-only combo is alone in the ring.
LEMMA AloneInRing ==
  ASSUME build \in Builds, ChordsOnly, Grouped, NEW m \in Statics, Apart(m),
         NEW c \in Range(m.combo_buffer), c \in build.must_hold
  PROVE  Range(m.combo_buffer) = {c}
BY ApartIs, KeymapIs

\* c is tap-only, and its key is released before it fired: it is applied, and so is what is
\* in the ring.
LEMMA ReleaseFlushes ==
  ASSUME build \in Builds, ChordsOnly, Grouped, NEW m \in Statics, Clean(m), NEW key,
         NEW c \in Combos, UpTo(m, key, c - 1), key \in KeysOf(c), Complete(m, c),
         c \notin m.active, c \notin m.disabled, c \notin build.must_hold, c \in build.must_tap,
         NEW x, x = apply_combos(apply_combo(m, c)), NEW n,
         n.state = x.state \ {<<c, key>>}, n.active = x.active, n.disabled = x.disabled,
         n.key_buffer = x.key_buffer, n.combo_buffer = x.combo_buffer,
         n.keys_down = x.keys_down, n.combos_down = x.combos_down
  PROVE  UpTo(n, key, c)
<1> DEFINE K == m.key_buffer
           a == apply_combo(m, c)
           A == {c} \cup (Range(a.combo_buffer) \ build.must_tap)
<1>1. /\ KeysInv(m, held, K) /\ ActiveInv(m, K)
      /\ RingLive(m, K, Gone(key, c - 1)) /\ Prepared(m)
      /\ RingFresh(m, K) /\ HandedOn(m, held \ {key}, K)
      /\ Passed(m, key, c - 1) /\ History(m, key)
  BY DEF UpTo
<1>2. NoneEmpty /\ \A d \in Combos : KeysOf(d) \ {key} # {}
  BY Hypotheses
<1>3. c \in Range(m.combo_buffer) /\ Apart(m) /\ Range(m.combo_buffer) \subseteq Combos
  BY <1>1, ApartIs DEF Prepared, RingLive
<1>4. /\ a \in Statics
      /\ a.disabled = m.disabled \cup (IF c \in Range(m.combo_buffer) THEN {c} ELSE {})
      /\ a.combo_buffer = IF c \in Range(m.combo_buffer) /\ Head(m.combo_buffer) = c
                          THEN Tail(m.combo_buffer) ELSE m.combo_buffer
  BY ApplyComboIs
<1>5. AppliedTo(m, a, {c})
  <2>1. Used(m) = {} /\ Downs(m) = {} /\ Formed(m, {}) = {}
    BY DEF Clean, Used, Downs, Formed
  <2>2. AppliedTo(m, m, {})
    BY <2>1 DEF AppliedTo, SameScan, SameInput
  <2>3. IsInjective(m.key_buffer) /\ KeysOf(c) # {} /\ {} \in SUBSET Combos
    BY <1>1, <1>2 DEF KeysInv, NoneEmpty
  <2>4. AppliedTo(m, a, {} \cup {c})
    BY <2>2, <2>3, ApplyFormed
  <2>5. {} \cup {c} = {c}
    OBVIOUS
  <2> QED
    BY <2>4, <2>5
<1> HIDE DEF a
<1>6. Apart(a) /\ Range(a.combo_buffer) \cup {c} = Range(m.combo_buffer)
  <2>1. Range(a.combo_buffer) \cup {c} = Range(m.combo_buffer) \cup {c} /\ Apart(a)
    BY <1>2, <1>3, <1>4, DropRing
  <2> QED
    BY <1>3, <2>1
<1>7. a.disabled = m.disabled \cup {c}
  BY <1>3, <1>4
<1>8. \A d \in Range(m.combo_buffer) : d \notin m.disabled /\ (d # c => ~Overlaps(c, d))
  BY <1>1, <1>3, ApartIs DEF RingLive
<1>9. FlushedAs(m, x, A)
  <2>1. \A d \in Range(a.combo_buffer) :
          d \in build.must_tap \/ (d \notin a.disabled /\ \A e \in {c} : ~Overlaps(e, d))
    BY <1>6, <1>7, <1>8
  <2>2. IsInjective(m.key_buffer) /\ m.active \subseteq a.disabled /\ {c} \in SUBSET Combos
    BY <1>1, <1>7 DEF KeysInv, ActiveInv
  <2>3. Formed(m, {c}) \subseteq a.disabled
    BY <1>7 DEF Formed
  <2>4. x = apply_combos(a)
    BY DEF a
  <2> QED
    BY <1>2, <1>4, <1>5, <1>6, <2>1, <2>2, <2>3, <2>4, ApplyCombosFlush
<1>10. A \in SUBSET Range(m.combo_buffer) /\ c \in A
  BY <1>6
<1> HIDE DEF A
<1>11. x \in Statics
  <2>1. apply_combo(m, c) \in Statics
    BY <1>4 DEF a
  <2> QED
    BY <2>1, ApplyCombosTyped
<1>12. /\ KeysInv(x, held, <<>>) /\ ActiveInv(x, <<>>) /\ HandedOn(x, held \ {key}, <<>>)
       /\ \A d \in Combos \ x.active : StateOf(x, d) = {}
       /\ \A d \in Formed(m, A) : KeysOf(d) \ {key} \subseteq StateOf(x, d)
  <2> DEFINE G == Gone(key, c - 1)
             P == held \ {key}
  <2>1. \A p \in G : p[2] = key
    BY DEF Gone
  <2> HIDE DEF G
  <2>2. key \notin P
    OBVIOUS
  <2>3. Flushable(m, held, G, key, P, A)
    BY <1>1, <1>2, <1>10, <2>1, <2>2 DEF Flushable, G
  <2> HIDE DEF P
  <2>4. /\ Emptied(x, held, P)
        /\ \A d \in Formed(m, A) : KeysOf(d) \ {key} \subseteq StateOf(x, d)
    BY <1>9, <1>11, <2>3, FlushedInv
  <2> QED
    BY <2>4 DEF P, Emptied
<1>13. /\ x.active = m.active \cup Formed(m, A)
       /\ x.state = {p \in m.state : p[1] \in x.active}
       /\ x.key_buffer = <<>> /\ x.combo_buffer = <<>>
       /\ x.keys_down = m.keys_down \cup (Range(K) \ UNION {KeysOf(d) : d \in A})
       /\ x.combos_down = m.combos_down \cup Formed(m, A)
  BY <1>9 DEF FlushedAs
<1>14. /\ StateOf(n, c) = StateOf(x, c) \ {key}
       /\ \A d : d # c => StateOf(n, d) = StateOf(x, d)
  <2>1. \A d, k : <<d, k>> = <<c, key>> <=> d = c /\ k = key
    OBVIOUS
  <2>2. \A d, k : <<d, k>> \in n.state <=> <<d, k>> \in x.state /\ ~(d = c /\ k = key)
    BY <2>1
  <2> QED
    BY ONLY <2>2 DEF StateOf
<1>15. \A d : StateOf(n, d) \subseteq StateOf(x, d) /\ StateOf(x, d) \subseteq StateOf(m, d)
  <2>1. x.state \subseteq m.state
    BY <1>13
  <2> QED
    BY <1>14, <2>1 DEF StateOf
<1>16. Range(<<>>) = {}
  BY DEF Range
<1>17. KeysInv(n, held, <<>>) /\ HandedOn(n, held \ {key}, <<>>)
  <2>1. KeysInv(n, held, <<>>)
    BY <1>12, <1>15 DEF KeysInv
  <2>2. \A d : \A k \in held \ {key} : k \in StateOf(x, d) => k \in StateOf(n, d)
    BY <1>14
  <2> QED
    BY <1>12, <2>1, <2>2 DEF HandedOn
<1>18. ActiveInv(n, <<>>)
  <2>1. x.combos_down = x.active /\ x.active \subseteq x.disabled
        /\ \A d \in x.active : /\ StateOf(x, d) # {}
                               /\ \A e \in Combos \ {d} : StateOf(x, d) \cap StateOf(x, e) = {}
    BY <1>12 DEF ActiveInv
  <2>2. c \in x.active => KeysOf(c) \ {key} \subseteq StateOf(x, c)
    BY <1>12, <1>13
  <2>3. ASSUME NEW d \in x.active PROVE StateOf(n, d) # {}
    <3>1. CASE d = c
      BY <1>2, <1>14, <2>2, <3>1
    <3>2. CASE d # c
      BY <1>14, <2>1, <3>2
    <3> QED
      BY <3>1, <3>2
  <2>4. \A d \in x.active : \A e \in Combos \ {d} : StateOf(n, d) \cap StateOf(n, e) = {}
    BY <1>15, <2>1
  <2> QED
    BY <1>16, <2>1, <2>3, <2>4 DEF ActiveInv
<1>19. RingLive(n, <<>>, Gone(key, c)) /\ RingFresh(n, <<>>)
  BY <1>13, <1>16 DEF RingLive, RingFresh, Apart
<1>20. \A d \in Combos \ n.active : StateOf(n, d) = {}
  BY <1>12, <1>15
<1>21. Prepared(n)
  BY <1>2, <1>20 DEF Prepared, Complete, NoneEmpty
<1>22. Passed(n, key, c)
  <2>1. \A d \in Combos : d <= c => d = c \/ d <= c - 1
    <3>1. Combos \subseteq Nat
      BY BuildIs
    <3> QED
      BY <3>1
  <2>2. \A d \in Combos : d <= c - 1 => key \notin StateOf(m, d)
    BY <1>1 DEF Passed
  <2>3. \A d \in Combos : d <= c => key \notin StateOf(n, d)
    BY <1>14, <1>15, <2>1, <2>2
  <2> QED
    BY <1>13, <1>16, <2>3 DEF Passed
<1>23. Taken(n, key, c)
  <2>1. key \notin m.keys_down
    BY <1>1 DEF KeysInv, Complete
  <2> QED
    BY <1>10, <1>13, <1>16, <2>1 DEF Taken
<1>24. History(n, key)
  <2>1. StateOf(m, c) # {}
    BY <1>2 DEF Complete, NoneEmpty
  <2>2. K = static.key_buffer /\ m.combos_down \subseteq static.combos_down
    BY <1>1, <2>1 DEF History
  <2>3. ASSUME NEW d \in Formed(m, A) PROVE Configured(d, K, held, held \ {key})
    <3>1. d \in Range(m.combo_buffer) /\ KeysOf(d) \subseteq Range(K) /\ d \in A
      BY <1>10 DEF Formed
    <3>2. Range(K) \subseteq held
      BY <1>1 DEF KeysInv
    <3>3. d \in build.in_order => Ordered(d, K)
      BY <1>1, <3>1 DEF RingLive
    <3>4. d \notin build.must_hold
      <4>1. d \in build.must_hold => Overlaps(d, c)
        BY KeymapIs
      <4>2. Overlaps(d, c) <=> Overlaps(c, d)
        BY DEF Overlaps
      <4> QED
        BY <1>8, <3>1, <4>1, <4>2
    <3>5. d \in build.must_tap => d = c
      BY <3>1 DEF A
    <3> QED
      BY <3>1, <3>2, <3>3, <3>4, <3>5 DEF Configured
  <2>4. n.key_buffer = <<>> /\ n.combo_buffer = <<>>
    BY <1>13
  <2> QED
    BY <1>13, <1>20, <2>2, <2>3, <2>4 DEF History
<1> QED
  BY <1>13, <1>17, <1>18, <1>19, <1>21, <1>22, <1>23, <1>24 DEF UpTo

\* What becomes of the combo, by the cases of single_Release.
LEMMA ReleaseCases ==
  ASSUME NEW m, NEW c, NEW key
  PROVE  LET result == single_Release(m, c, key)
         IN  \/ /\ c \notin m.active /\ Complete(m, c)
                /\ \/ /\ c \in m.disabled \cup build.must_hold
                      /\ result = <<drop_combo_from_buffer(m, c), FALSE>>
                   \/ /\ c \notin m.disabled \cup build.must_hold /\ c \in build.must_tap
                      /\ \E is \in BOOLEAN : result = <<apply_combos(apply_combo(m, c)), is>>
                   \/ /\ c \notin build.must_hold \cup build.must_tap
                      /\ \E is \in BOOLEAN : /\ result = <<m, is>>
                                             /\ is = TRUE => c \notin m.disabled
             \/ c \in m.active /\ StateOf(m, c) = {key} /\ result = <<release_combo(m, c), TRUE>>
             \/ /\ c \in m.active /\ StateOf(m, c) # {key}
                /\ \E is \in BOOLEAN : result = <<m, is>> /\ (is = TRUE => key \in StateOf(m, c))
             \/ c \notin m.active /\ ~Complete(m, c) /\ result = <<m, FALSE>>
<1> DEFINE result == single_Release(m, c, key)
<1>1. CASE c \notin m.active /\ Complete(m, c)
  <2>1. CASE c \in m.disabled \cup build.must_hold
    <3>1. result = <<drop_combo_from_buffer(m, c), FALSE>>
      BY <1>1, <2>1 DEF single_Release
    <3> QED
      BY <1>1, <2>1, <3>1
  <2>2. CASE c \notin m.disabled \cup build.must_hold /\ c \in build.must_tap
    <3> DEFINE x == apply_combos(apply_combo(m, c))
               is == IsPart(m, c, key)
    <3>1. After(apply_combo(m, c), apply_combos) = x
      BY DEF After
    <3> HIDE DEF x
    <3>2. result = <<x, is>>
      BY <1>1, <2>2, <3>1 DEF single_Release
    <3>3. is \in BOOLEAN
      BY DEF IsPart
    <3> HIDE DEF is, result
    <3>4. \E i \in BOOLEAN : result = <<x, i>>
      BY <3>2, <3>3
    <3> QED
      BY <1>1, <2>2, <3>4 DEF x, result
  <2>3. CASE c \notin m.disabled \cup build.must_hold /\ c \notin build.must_tap
    <3> DEFINE is == IsPart(m, c, key)
    <3>1. result = <<m, is>>
      BY <1>1, <2>3 DEF single_Release
    <3>2. is \in BOOLEAN
      BY DEF IsPart
    <3> HIDE DEF is, result
    <3>3. \E i \in BOOLEAN : result = <<m, i>> /\ (i = TRUE => c \notin m.disabled)
      BY <2>3, <3>1, <3>2
    <3> QED
      BY <1>1, <2>3, <3>3 DEF result
  <2> QED
    BY <2>1, <2>2, <2>3
<1>2. CASE c \in m.active /\ StateOf(m, c) = {key}
  <2>1. result = <<release_combo(m, c), TRUE>>
    BY <1>2 DEF single_Release
  <2> QED
    BY <1>2, <2>1
<1>3. CASE c \in m.active /\ StateOf(m, c) # {key}
  <2> DEFINE is == key \in StateOf(m, c)
  <2>1. result = <<m, is>>
    BY <1>3 DEF single_Release
  <2>2. is \in BOOLEAN /\ (is = TRUE => key \in StateOf(m, c))
    OBVIOUS
  <2> HIDE DEF is, result
  <2>3. \E i \in BOOLEAN : result = <<m, i>> /\ (i = TRUE => key \in StateOf(m, c))
    BY <2>1, <2>2
  <2> QED
    BY <1>3, <2>3 DEF result
<1>4. CASE c \notin m.active /\ ~Complete(m, c)
  <2>1. result = <<m, FALSE>>
    BY <1>4 DEF single_Release
  <2> QED
    BY <1>4, <2>1
<1> QED
  BY <1>1, <1>2, <1>3, <1>4

\* key_up, where the event belongs to a combo only if it did or is.
KeyedUp(m, n, is, c, key) ==
  /\ n.state = m.state \ {<<c, key>>}
  /\ n.active = m.active /\ n.disabled = m.disabled
  /\ n.key_buffer = m.key_buffer /\ n.combo_buffer = m.combo_buffer
  /\ n.keys_down = m.keys_down /\ n.combos_down = m.combos_down
  /\ n.is_combo_key = TRUE => m.is_combo_key = TRUE \/ is = TRUE

\* That is what key_up does.
LEMMA KeyUpDoes ==
  ASSUME NEW m \in Statics, NEW is \in BOOLEAN, NEW c \in Combos, NEW key,
         NEW n, n = key_up(<<m, is>>, c, key)
  PROVE  KeyedUp(m, n, is, c, key)
<1>1. n = [m EXCEPT !.state = @ \ {<<c, key>>}, !.is_combo_key = @ \/ is]
  BY DEF key_up
<1>2. m.is_combo_key \in BOOLEAN
  BY DEF Statics, Fields
<1>3. n.is_combo_key = (m.is_combo_key \/ is)
  BY <1>1 DEF Statics, Fields
<1> QED
  BY <1>1, <1>2, <1>3 DEF Statics, Fields, KeyedUp

\* A combo without the key sees nothing.
LEMMA ReleaseUnseen ==
  ASSUME build \in Builds, NEW m \in Statics, NEW key, NEW c \in Combos, UpTo(m, key, c - 1),
         key \notin KeysOf(c)
  PROVE  UpTo(m, key, c)
<1>1. Combos \subseteq Nat
  BY BuildIs
<1>2. \A d \in Combos : d <= c => d = c \/ d <= c - 1
  BY <1>1
<1>3. \A d \in Combos : d <= c - 1 => d <= c
  BY <1>1
<1>4. RingLive(m, m.key_buffer, Gone(key, c))
  <2>1. Gone(key, c - 1) \subseteq Gone(key, c)
    <3>1. 1 .. c - 1 \subseteq 1 .. c
      BY <1>1
    <3> QED
      BY <3>1 DEF Gone
  <2> QED
    BY <2>1 DEF UpTo, RingLive
<1>5. Passed(m, key, c)
  <2>1. key \notin StateOf(m, c)
    BY DEF StateOf
  <2> QED
    BY <1>2, <2>1 DEF UpTo, Passed
<1>6. Taken(m, key, c)
  <2>1. Range(m.combo_buffer) \subseteq Combos
    BY ApartIs DEF UpTo, RingLive
  <2> QED
    BY <1>3, <2>1 DEF UpTo, Taken
<1> QED
  BY <1>4, <1>5, <1>6 DEF UpTo

\* One combo of the scan of a release.
LEMMA ReleaseStep ==
  ASSUME build \in Builds, ChordsOnly, Grouped, NEW m \in Statics, Clean(m), NEW key,
         NEW c \in Combos, UpTo(m, key, c - 1), NEW n, n = process_single_combo(m, c, key, FALSE)
  PROVE  UpTo(n, key, c)
<1>1. CASE key \notin KeysOf(c)
  <2>1. n = m
    BY <1>1 DEF process_single_combo
  <2> QED
    BY <1>1, <2>1, ReleaseUnseen
<1>2. CASE key \in KeysOf(c)
  <2> DEFINE result == single_Release(m, c, key)
  <2>1. n = key_up(result, c, key)
    BY <1>2 DEF process_single_combo, After
  <2>2. \/ /\ c \notin m.active /\ Complete(m, c)
           /\ \/ /\ c \in m.disabled \cup build.must_hold
                 /\ result = <<drop_combo_from_buffer(m, c), FALSE>>
              \/ /\ c \notin m.disabled \cup build.must_hold /\ c \in build.must_tap
                 /\ \E is \in BOOLEAN : result = <<apply_combos(apply_combo(m, c)), is>>
              \/ /\ c \notin build.must_hold \cup build.must_tap
                 /\ \E is \in BOOLEAN : /\ result = <<m, is>>
                                        /\ is = TRUE => c \notin m.disabled
        \/ c \in m.active /\ StateOf(m, c) = {key} /\ result = <<release_combo(m, c), TRUE>>
        \/ /\ c \in m.active /\ StateOf(m, c) # {key}
           /\ \E is \in BOOLEAN : result = <<m, is>> /\ (is = TRUE => key \in StateOf(m, c))
        \/ c \notin m.active /\ ~Complete(m, c) /\ result = <<m, FALSE>>
    BY ReleaseCases
  <2> HIDE DEF result
  <2>3. /\ RingLive(m, m.key_buffer, Gone(key, c - 1)) /\ Apart(m) /\ Prepared(m)
        /\ m.active \subseteq m.disabled /\ Range(m.combo_buffer) \cap m.disabled = {}
    BY DEF UpTo, RingLive, ActiveInv
  <2>4. NoneEmpty
    BY Hypotheses
  <2>5. m.is_combo_key \in BOOLEAN
    BY DEF Statics, Fields
  <2>6. CASE /\ c \notin m.active /\ Complete(m, c) /\ c \in m.disabled \cup build.must_hold
             /\ result = <<drop_combo_from_buffer(m, c), FALSE>>
    <3> DEFINE x == drop_combo_from_buffer(m, c)
    <3>1. /\ x \in Statics /\ SameScan(m, x) /\ x.active = m.active
          /\ x.disabled = m.disabled \cup (IF c \in Range(m.combo_buffer) THEN {c} ELSE {})
          /\ x.combo_buffer = IF c \in Range(m.combo_buffer) /\ Head(m.combo_buffer) = c
                              THEN Tail(m.combo_buffer) ELSE m.combo_buffer
      BY DropIs
    <3>2. PICK is \in BOOLEAN : is = FALSE /\ n = key_up(<<x, is>>, c, key)
      BY <2>1, <2>6
    <3> HIDE DEF x
    <3>3. /\ n.state = x.state \ {<<c, key>>}
          /\ n.active = x.active /\ n.disabled = x.disabled
          /\ n.key_buffer = x.key_buffer /\ n.combo_buffer = x.combo_buffer
          /\ n.is_combo_key = TRUE => x.is_combo_key = TRUE
          /\ n.keys_down = x.keys_down /\ n.combos_down = x.combos_down
      <4>1. KeyedUp(x, n, is, c, key)
        BY ONLY <3>1, <3>2, KeyUpDoes
      <4> QED
        BY <3>1, <3>2, <4>1 DEF KeyedUp
    <3>4. /\ x.state = m.state /\ x.key_buffer = m.key_buffer /\ x.keys_down = m.keys_down
          /\ x.combos_down = m.combos_down /\ x.is_combo_key = m.is_combo_key
      BY <3>1 DEF SameScan
    <3>6. \/ n.combo_buffer = m.combo_buffer /\ n.disabled = m.disabled
             /\ c \notin Range(m.combo_buffer)
          \/ /\ n.combo_buffer = <<>> /\ n.disabled = m.disabled \cup {c}
             /\ Range(m.combo_buffer) = {c} /\ c \in build.must_hold
      <4>1. CASE c \in Range(m.combo_buffer)
        <5>1. c \in build.must_hold
          BY <2>3, <2>6, <4>1
        <5>2. Range(m.combo_buffer) = {c}
          BY <2>3, <4>1, <5>1, AloneInRing
        <5>3. x.combo_buffer = <<>>
          BY <2>3, <2>4, <3>1, <5>2, DropRing
        <5> QED
          BY <3>1, <3>3, <4>1, <5>1, <5>2, <5>3
      <4>2. CASE c \notin Range(m.combo_buffer)
        <5>1. x.combo_buffer = m.combo_buffer /\ x.disabled = m.disabled
          BY <3>1, <4>2
        <5> QED
          BY <3>3, <4>2, <5>1
      <4> QED
        BY <4>1, <4>2
    <3>7. Range(<<>>) = {}
      BY DEF Range
    <3>8. c \notin Range(n.combo_buffer) /\ c \notin n.active
      BY <2>6, <3>1, <3>3, <3>6, <3>7
    <3>9. n.is_combo_key = TRUE => m.is_combo_key = TRUE
      BY <3>3, <3>4
    <3>10. /\ n.key_buffer = m.key_buffer /\ n.keys_down = m.keys_down
           /\ n.state = m.state \ {<<c, key>>} /\ n.active = m.active
           /\ n.combos_down = m.combos_down
      BY <3>1, <3>3, <3>4
    <3> QED
      BY <1>2, <3>6, <3>8, <3>9, <3>10, ReleaseKeeps
  <2>7. CASE /\ c \notin m.active /\ Complete(m, c)
             /\ c \notin m.disabled \cup build.must_hold /\ c \in build.must_tap
             /\ \E is \in BOOLEAN : result = <<apply_combos(apply_combo(m, c)), is>>
    <3> DEFINE x == apply_combos(apply_combo(m, c))
    <3>1. PICK is \in BOOLEAN : result = <<x, is>>
      BY <2>7
    <3>2. x \in Statics
      BY ApplyTyped, ApplyCombosTyped
    <3>3. n = key_up(<<x, is>>, c, key)
      BY <2>1, <3>1
    <3> HIDE DEF x
    <3>4. /\ n.state = x.state \ {<<c, key>>}
          /\ n.active = x.active /\ n.disabled = x.disabled
          /\ n.key_buffer = x.key_buffer /\ n.combo_buffer = x.combo_buffer
          /\ n.keys_down = x.keys_down /\ n.combos_down = x.combos_down
      <4>1. KeyedUp(x, n, is, c, key)
        BY ONLY <3>2, <3>3, KeyUpDoes
      <4> QED
        BY <3>2, <3>3, <4>1 DEF KeyedUp
    <3>5. x = apply_combos(apply_combo(m, c))
      BY DEF x
    <3>6. c \notin m.disabled /\ c \notin build.must_hold
      BY <2>7
    <3> QED
      BY <1>2, <2>7, <3>4, <3>5, <3>6, ReleaseFlushes
  <2>8. CASE /\ c \notin m.active /\ Complete(m, c)
             /\ c \notin build.must_hold \cup build.must_tap
             /\ \E is \in BOOLEAN : result = <<m, is>> /\ (is = TRUE => c \notin m.disabled)
    <3>1. PICK is \in BOOLEAN : result = <<m, is>> /\ (is = TRUE => c \notin m.disabled)
      BY <2>8
    <3>2. n = key_up(<<m, is>>, c, key)
      BY <2>1, <3>1
    <3>3. /\ n.state = m.state \ {<<c, key>>}
          /\ n.active = m.active /\ n.disabled = m.disabled
          /\ n.key_buffer = m.key_buffer /\ n.combo_buffer = m.combo_buffer
          /\ n.is_combo_key = TRUE => m.is_combo_key = TRUE \/ is = TRUE
          /\ n.keys_down = m.keys_down /\ n.combos_down = m.combos_down
      <4>1. KeyedUp(m, n, is, c, key)
        BY ONLY <3>2, KeyUpDoes
      <4> QED
        BY <3>2, <4>1 DEF KeyedUp
    <3>4. n.is_combo_key = TRUE => m.is_combo_key = TRUE \/ is = TRUE
      BY <2>5, <3>3
    <3>5. is = TRUE => key \in StateOf(m, c) /\ c \in Range(n.combo_buffer)
      BY <1>2, <2>3, <2>8, <3>1, <3>3 DEF Prepared, Complete
    <3>6. c \notin n.active
      BY <2>8, <3>3
    <3>7. n.is_combo_key = TRUE => \/ m.is_combo_key = TRUE
                                   \/ /\ key \in StateOf(m, c)
                                      /\ c \in m.active \cup Range(n.combo_buffer)
      BY <3>4, <3>5
    <3> QED
      BY <1>2, <2>8, <3>3, <3>6, <3>7, ReleaseKeeps
  <2>9. CASE c \in m.active /\ StateOf(m, c) = {key} /\ result = <<release_combo(m, c), TRUE>>
    <3> DEFINE x == release_combo(m, c)
    <3>1. /\ x \in Statics /\ x.state = m.state /\ x.active = m.active \ {c}
          /\ x.disabled = m.disabled
          /\ x.key_buffer = m.key_buffer /\ x.combo_buffer = m.combo_buffer
          /\ x.keys_down = m.keys_down /\ x.combos_down = m.combos_down \ {c}
      BY ReleaseComboIs
    <3>2. PICK is \in BOOLEAN : n = key_up(<<x, is>>, c, key)
      BY <2>1, <2>9
    <3> HIDE DEF x
    <3>3. /\ n.state = x.state \ {<<c, key>>}
          /\ n.active = x.active /\ n.disabled = x.disabled
          /\ n.key_buffer = x.key_buffer /\ n.combo_buffer = x.combo_buffer
          /\ n.keys_down = x.keys_down /\ n.combos_down = x.combos_down
      <4>1. KeyedUp(x, n, is, c, key)
        BY ONLY <3>1, <3>2, KeyUpDoes
      <4> QED
        BY <3>1, <3>2, <4>1 DEF KeyedUp
    <3>4. /\ n.state = m.state \ {<<c, key>>} /\ n.active = m.active \ {c}
          /\ n.disabled = m.disabled /\ n.key_buffer = m.key_buffer
          /\ n.combo_buffer = m.combo_buffer /\ n.keys_down = m.keys_down
          /\ n.combos_down = m.combos_down \ {c}
      BY <3>1, <3>3
    <3>5. c \notin n.active /\ c \notin Range(n.combo_buffer) /\ key \in StateOf(m, c)
      BY <2>3, <2>9, <3>4
    <3>6. c \in m.active \cup Range(n.combo_buffer)
      BY <2>9
    <3> QED
      BY <1>2, <2>9, <3>4, <3>5, <3>6, ReleaseKeeps
  <2>10. CASE /\ c \in m.active /\ StateOf(m, c) # {key}
              /\ \E is \in BOOLEAN : result = <<m, is>> /\ (is = TRUE => key \in StateOf(m, c))
    <3>1. PICK is \in BOOLEAN : result = <<m, is>> /\ (is = TRUE => key \in StateOf(m, c))
      BY <2>10
    <3>2. n = key_up(<<m, is>>, c, key)
      BY <2>1, <3>1
    <3>3. /\ n.state = m.state \ {<<c, key>>}
          /\ n.active = m.active /\ n.disabled = m.disabled
          /\ n.key_buffer = m.key_buffer /\ n.combo_buffer = m.combo_buffer
          /\ n.is_combo_key = TRUE => m.is_combo_key = TRUE \/ is = TRUE
          /\ n.keys_down = m.keys_down /\ n.combos_down = m.combos_down
      <4>1. KeyedUp(m, n, is, c, key)
        BY ONLY <3>2, KeyUpDoes
      <4> QED
        BY <3>2, <4>1 DEF KeyedUp
    <3>4. n.is_combo_key = TRUE => m.is_combo_key = TRUE \/ is = TRUE
      BY <2>5, <3>3
    <3>5. c \notin Range(n.combo_buffer)
      BY <2>3, <2>10, <3>3
    <3>6. n.is_combo_key = TRUE => \/ m.is_combo_key = TRUE
                                   \/ /\ key \in StateOf(m, c)
                                      /\ c \in m.active \cup Range(n.combo_buffer)
      BY <2>10, <3>1, <3>4
    <3> QED
      BY <1>2, <2>10, <3>3, <3>5, <3>6, ReleaseKeeps
  <2>11. CASE c \notin m.active /\ ~Complete(m, c) /\ result = <<m, FALSE>>
    <3>1. PICK is \in BOOLEAN : is = FALSE /\ n = key_up(<<m, is>>, c, key)
      BY <2>1, <2>11
    <3>2. /\ n.state = m.state \ {<<c, key>>}
          /\ n.active = m.active /\ n.disabled = m.disabled
          /\ n.key_buffer = m.key_buffer /\ n.combo_buffer = m.combo_buffer
          /\ n.is_combo_key = TRUE => m.is_combo_key = TRUE
          /\ n.keys_down = m.keys_down /\ n.combos_down = m.combos_down
      <4>1. KeyedUp(m, n, is, c, key)
        BY ONLY <3>1, KeyUpDoes
      <4> QED
        BY <3>1, <4>1 DEF KeyedUp
    <3>3. n.is_combo_key = TRUE => m.is_combo_key = TRUE
      BY <2>5, <3>2
    <3>4. c \notin Range(m.combo_buffer)
      <4> SUFFICES ASSUME c \in Range(m.combo_buffer) PROVE Complete(m, c)
        BY <2>11
      <4>1. \A k : <<c, k>> \notin Gone(key, c - 1)
        <5>1. c \notin 1 .. c - 1
          BY BuildIs
        <5>2. \A d, k, l : <<c, k>> = <<d, l>> => c = d
          OBVIOUS
        <5> QED
          BY <5>1, <5>2 DEF Gone
      <4>2. \A k \in KeysOf(c) : <<c, k>> \in m.state
        BY <2>3, <4>1 DEF RingLive
      <4> QED
        BY <4>2 DEF Complete, StateOf
    <3>5. c \notin Range(n.combo_buffer) /\ c \notin n.active
      BY <2>11, <3>2, <3>4
    <3> QED
      BY <1>2, <3>2, <3>3, <3>5, ReleaseKeeps
  <2> QED
    BY <2>2, <2>6, <2>7, <2>8, <2>9, <2>10, <2>11
<1> QED
  BY <1>1, <1>2

\* The scan of a release.
LEMMA ReleaseScan ==
  ASSUME Typed, Core(static, held), ChordsOnly, Grouped, NEW key,
         NEW f, IsScan(f, Quiet, key, FALSE), NEW n, n = f[Len(build.combos)]
  PROVE  n \in Statics /\ Clean(n) /\ UpTo(n, key, Len(build.combos))
<1> DEFINE size == Len(build.combos)
           Is(c) == UpTo(f[c], key, c)
           S == {c \in Nat : c <= size => Is(c)}
<1>1. size \in Nat /\ Combos = 1 .. size /\ build \in Builds
  BY BuildIs DEF Typed
<1>2. \A c \in 0 .. size : f[c] \in Statics /\ Clean(f[c])
  BY <1>1, ScanTyped DEF Typed
<1>3. f[0] = Quiet /\ \A c \in Combos : f[c] = process_single_combo(f[c - 1], c, key, FALSE)
  <2>1. Combos \subseteq Nat \ {0}
    BY <1>1
  <2> QED
    BY <2>1 DEF IsScan
<1>4. Is(0)
  BY <1>3, UpToZero
<1>5. ASSUME NEW c \in Nat, c \in S PROVE c + 1 \in S
  <2> SUFFICES ASSUME c + 1 <= size PROVE UpTo(f[c + 1], key, c + 1)
    OBVIOUS
  <2> DEFINE d == c + 1
             m == f[c]
             x == f[d]
  <2>1. c \in 0 .. size /\ d \in Combos /\ d - 1 = c /\ UpTo(m, key, c)
    BY <1>1, <1>5
  <2>2. m \in Statics /\ Clean(m) /\ x = process_single_combo(m, d, key, FALSE)
    BY <1>2, <1>3, <2>1
  <2> HIDE DEF d, m, x
  <2>3. UpTo(m, key, d - 1)
    BY <2>1
  <2>4. UpTo(x, key, d)
    BY <1>1, <2>1, <2>2, <2>3, ReleaseStep
  <2> QED
    BY <2>4 DEF d, x
<1>6. 0 \in S
  BY <1>4
<1> HIDE DEF S
<1>7. Nat \subseteq S
  BY <1>5, <1>6, SetInduction
<1>8. Is(size) /\ size \in 0 .. size
  BY <1>1, <1>7 DEF S
<1> QED
  BY <1>2, <1>8

\* The flush after the scan.
LEMMA ReleaseEnds ==
  ASSUME build \in Builds, ChordsOnly, NEW m \in Statics, Clean(m), NEW key,
         UpTo(m, key, Len(build.combos)), NEW y, y = flush(m), NEW n,
         n.state = y.state, n.active = y.active, n.disabled = y.disabled,
         n.key_buffer = y.key_buffer, n.combo_buffer = y.combo_buffer,
         n.combos_down = y.combos_down,
         n.keys_down = IF m.is_combo_key THEN y.keys_down ELSE y.keys_down \ {key}
  PROVE  /\ Core(n, held \ {key})
         /\ \A c \in n.combos_down \ static.combos_down :
              Configured(c, static.key_buffer, held, held \ {key})
<1> DEFINE K == m.key_buffer
           A == Range(m.combo_buffer) \ build.must_tap
           P == held \ {key}
           size == Len(build.combos)
           G == Gone(key, size)
<1>1. /\ KeysInv(m, held, K) /\ ActiveInv(m, K)
      /\ RingLive(m, K, G) /\ RingFresh(m, K) /\ HandedOn(m, P, K)
      /\ Passed(m, key, size) /\ Taken(m, key, size) /\ History(m, key)
  BY DEF UpTo
<1>2. NoneEmpty /\ \A d \in Combos : KeysOf(d) \ {key} # {}
  BY Hypotheses
<1>3. /\ Apart(m) /\ Range(m.combo_buffer) \cap m.disabled = {}
      /\ Range(m.combo_buffer) \subseteq Combos
  BY <1>1, ApartIs DEF RingLive
<1>4. \A d \in Combos : d <= size
  BY BuildIs
<1>5. y \in Statics
  BY FlushTyped
<1>6. FlushedAs(m, y, A)
  BY <1>1, <1>2, <1>3, FlushIs DEF KeysInv, ActiveInv
<1>7. Flushable(m, held, G, key, P, A)
  <2>1. \A p \in G : p[2] = key
    BY DEF Gone
  <2>2. A \subseteq Range(m.combo_buffer) /\ key \notin P
    OBVIOUS
  <2> HIDE DEF G, P, A
  <2> QED
    BY <1>1, <1>2, <2>1, <2>2 DEF Flushable
<1>8. Emptied(y, held, P)
  <2> HIDE DEF G, P, A
  <2> QED
    BY <1>5, <1>6, <1>7, FlushedInv
<1>9. /\ y.active = m.active \cup Formed(m, A)
      /\ y.state = {p \in m.state : p[1] \in y.active}
      /\ y.key_buffer = <<>> /\ y.combo_buffer = <<>>
      /\ y.keys_down = m.keys_down \cup (Range(K) \ UNION {KeysOf(d) : d \in A})
      /\ y.combos_down = m.combos_down \cup Formed(m, A)
  BY <1>6 DEF FlushedAs
<1>10. \A c \in Combos : key \notin StateOf(y, c)
  <2>1. \A c \in Combos : key \notin StateOf(m, c)
    BY <1>1, <1>4 DEF Passed
  <2>2. y.state \subseteq m.state
    BY <1>9
  <2> QED
    BY <2>1, <2>2 DEF StateOf
<1>11. m.is_combo_key = TRUE => key \notin y.keys_down
  <2> SUFFICES ASSUME m.is_combo_key = TRUE PROVE key \notin y.keys_down
    OBVIOUS
  <2>1. key \notin m.keys_down
    BY <1>1 DEF Taken
  <2>2. key \in Range(K) => \E d \in A : key \in KeysOf(d)
    BY <1>1 DEF Taken
  <2> QED
    BY <1>9, <2>1, <2>2
<1>12. n.keys_down = y.keys_down \ {key}
  <2>1. m.is_combo_key \in BOOLEAN
    BY DEF Statics, Fields
  <2> QED
    BY <1>11, <2>1
<1>13. \A c : StateOf(n, c) = StateOf(y, c)
  BY DEF StateOf
<1>14. KeysInv(n, P, <<>>)
  <2>1. Range(<<>>) = {} /\ IsInjective(<<>>)
    BY DEF Range, IsInjective
  <2>2. y.keys_down \subseteq held /\ \A c \in Combos : StateOf(y, c) \subseteq held \ y.keys_down
    BY <1>8 DEF Emptied, KeysInv
  <2> QED
    BY <1>10, <1>12, <1>13, <2>1, <2>2 DEF KeysInv
<1>15. ActiveInv(n, <<>>)
  BY <1>8, <1>13 DEF Emptied, ActiveInv
<1>16. HandedOn(n, P, <<>>)
  <2>1. key \notin P
    OBVIOUS
  <2> HIDE DEF P
  <2> QED
    BY <1>8, <1>12, <1>13, <2>1 DEF Emptied, HandedOn
<1>17. \A c \in Combos \ n.active : StateOf(n, c) = {}
  BY <1>8, <1>13 DEF Emptied
<1>18. Core(n, P)
  BY <1>2, <1>9, <1>14, <1>15, <1>16, <1>17, EmptyCore
<1>19. ASSUME NEW c \in n.combos_down \ static.combos_down
       PROVE  Configured(c, static.key_buffer, held, P)
  <2>1. CASE c \in m.combos_down
    BY <1>1, <1>19, <2>1 DEF History
  <2>2. CASE c \in Formed(m, A)
    <3>1. c \in Range(m.combo_buffer) /\ c \notin build.must_tap /\ KeysOf(c) \subseteq Range(K)
      BY <2>2 DEF Formed
    <3>2. m.combo_buffer # <<>>
      BY <3>1 DEF Range
    <3>3. K = static.key_buffer
      BY <1>1, <3>2 DEF History
    <3>4. Range(K) \subseteq held
      BY <1>1 DEF KeysInv
    <3>5. c \in build.in_order => Ordered(c, K)
      BY <1>1, <3>1 DEF RingLive
    <3>6. c \in build.must_hold => key \notin KeysOf(c)
      BY <1>1, <1>3, <1>4, <3>1 DEF Passed
    <3> QED
      BY <3>1, <3>3, <3>4, <3>5, <3>6 DEF Configured
  <2> QED
    BY <1>9, <1>19, <2>1, <2>2
<1> QED
  BY <1>18, <1>19

\* The step of a release.
LEMMA ReleaseCore ==
  ASSUME IInv, ChordsOnly, Grouped, NEW key \in Keys, process_combo_Release(key)
  PROVE  Core(static, held)' /\ AsConfigured
<1>1. /\ Typed /\ build \in Builds /\ Core(static, held)
      /\ build' = build /\ held' = held \ {key}
  BY DEF IInv, Typed, process_combo_Release
<1>2. PICK f : IsScan(f, Quiet, key, FALSE) /\ scan(key, FALSE) = f[Len(build.combos)]
  BY <1>1, ScanIs
<1> DEFINE m == scan(key, FALSE)
           y == flush(m)
           D == IF m.is_combo_key THEN y.keys_down ELSE y.keys_down \ {key}
<1>3. static' = [y EXCEPT !.keys_down = D]
  BY DEF process_combo_Release
<1> HIDE DEF m
<1>4. m = f[Len(build.combos)]
  BY <1>2 DEF m
<1>5. m \in Statics /\ Clean(m) /\ UpTo(m, key, Len(build.combos))
  BY <1>1, <1>2, <1>4, ReleaseScan
<1> HIDE DEF y
<1>6. y \in Statics /\ y = flush(m)
  BY <1>1, <1>5, FlushTyped DEF y
<1> HIDE DEF D
<1>7. /\ static'.state = y.state /\ static'.active = y.active
      /\ static'.disabled = y.disabled /\ static'.key_buffer = y.key_buffer
      /\ static'.combo_buffer = y.combo_buffer /\ static'.combos_down = y.combos_down
      /\ static'.keys_down = D
  BY <1>3, <1>6 DEF Statics, Fields
<1>8. static'.keys_down = IF m.is_combo_key THEN y.keys_down ELSE y.keys_down \ {key}
  BY <1>7 DEF D
<1>9. /\ Core(static', held \ {key})
      /\ \A c \in static'.combos_down \ static.combos_down :
           Configured(c, static.key_buffer, held, held \ {key})
  BY <1>1, <1>5, <1>6, <1>7, <1>8, ReleaseEnds
<1>10. Core(static, held)'
  BY <1>1, <1>9, PrimedCore
<1>11. AsConfigured
  BY <1>1, <1>9 DEF AsConfigured, Fired, Configured, InOrder
<1> QED
  BY <1>10, <1>11

-----------------------------------------------------------------------------
(* The theorems.                                                           *)

\* Every step keeps the invariant, and fires combos as they are configured.
LEMMA Step ==
  ASSUME IInv, ChordsOnly, Grouped, RingSuffices, [Next]_vars
  PROVE  IInv' /\ (AsConfigured \/ UNCHANGED vars)
<1>1. Typed'
  BY NextTyped DEF IInv
<1>2. CASE Next
  <2>1. Core(static, held)' /\ AsConfigured
    <3>1. ASSUME NEW key \in Keys, process_combo_Press(key)
          PROVE  Core(static, held)' /\ AsConfigured
      BY <3>1, PressCore
    <3>2. ASSUME NEW key \in Keys, process_combo_Release(key)
          PROVE  Core(static, held)' /\ AsConfigured
      BY <3>2, ReleaseCore
    <3>3. ASSUME NEW enable \in BOOLEAN, process_combo_Switch(enable)
          PROVE  Core(static, held)' /\ AsConfigured
      BY <3>3, SwitchCore
    <3>4. CASE combo_task
      BY <3>4, TaskCore
    <3>5. CASE Tick
      BY <3>5, TickCore
    <3> QED
      BY <1>2, <3>1, <3>2, <3>3, <3>4, <3>5 DEF Next
  <2> QED
    BY <1>1, <2>1 DEF IInv
<1>3. CASE UNCHANGED vars
  <2>1. build' = build /\ held' = held /\ static' = static
    BY <1>3 DEF vars
  <2>2. Core(static', held')
    BY <2>1 DEF IInv
  <2>3. Core(static, held)'
    BY <2>1, <2>2, PrimedCore
  <2> QED
    BY <1>1, <1>3, <2>3 DEF IInv
<1> QED
  BY <1>2, <1>3

\* The invariant: of every key that is down, where it counts; of every combo in the ring,
\* that all its keys are held back and that none of the others in the ring has one.
THEOREM Invariance == ASSUME ChordsOnly, Grouped, RingSuffices PROVE Spec => []IInv
<1>1. Init => IInv
  BY InitTyped, InitCore DEF IInv
<1>2. IInv /\ [Next]_vars => IInv'
  BY Step
<1> QED
  BY <1>1, <1>2, PTL DEF Spec

\* What dump_key_buffer hands on is still held down, and a combo that is down has a key
\* left whose release ends it, in every keymap of chords that are Grouped and fit in the
\* ring.
THEOREM StuckNever == ASSUME ChordsOnly, Grouped, RingSuffices PROVE Spec => []NothingStuck
<1>1. IInv => NothingStuck
  BY DEF IInv, Typed, Core, Within, KeysInv, ActiveInv, NothingStuck, Statics, Fields
<1> QED
  BY <1>1, Invariance, PTL

\* apply_combo, the releases and dump_key_buffer never make two things of one press.
THEOREM UsedOnceOnly == ASSUME ChordsOnly, Grouped, RingSuffices PROVE Spec => []UsedOnce
<1>1. IInv => UsedOnce
  <2> SUFFICES ASSUME IInv, NEW c \in static.combos_down
               PROVE  /\ StateOf(static, c) \cap static.keys_down = {}
                      /\ \A d \in static.combos_down \ {c} :
                           StateOf(static, c) \cap StateOf(static, d) = {}
    BY DEF UsedOnce
  <2>1. static.combos_down = static.active /\ static.active \subseteq Combos
    BY DEF IInv, Typed, Core, Within, ActiveInv, Statics, Fields
  <2>2. StateOf(static, c) \subseteq held \ static.keys_down
    BY <2>1 DEF IInv, Core, Within, KeysInv
  <2>3. \A d \in Combos \ {c} : StateOf(static, c) \cap StateOf(static, d) = {}
    BY <2>1 DEF IInv, Core, Within, ActiveInv
  <2> QED
    BY <2>1, <2>2, <2>3
<1> QED
  BY <1>1, Invariance, PTL

\* With room for all keys of combos in key_buffer, no press is swallowed: each is typed,
\* is held back, or is part of a combo that is down.
THEOREM NoPressLost ==
  ASSUME ChordsOnly, Grouped, RingSuffices, BufferSuffices PROVE Spec => []PressHandedOn
<1>1. IInv => PressHandedOn
  <2> SUFFICES ASSUME IInv, NEW key \in held
               PROVE  \/ key \in static.keys_down \/ key \in Range(static.key_buffer)
                      \/ \E c \in static.combos_down : key \in StateOf(static, c)
    BY DEF PressHandedOn, Buffered
  <2>1. HandedOn(static, held, static.key_buffer) /\ static.combos_down = static.active
    BY DEF IInv, Core, Within, ActiveInv
  <2> QED
    BY <2>1 DEF HandedOn
<1> QED
  BY <1>1, Invariance, PTL

\* A combo fires of presses that are held back only, and as get_combo_must_hold,
\* get_combo_must_tap and keys_pressed_in_order ask.
THEOREM FiresRight ==
  ASSUME ChordsOnly, Grouped, RingSuffices PROVE Spec => FiresAsConfigured
<1>1. IInv /\ [Next]_vars => [AsConfigured]_vars
  BY Step
<1> QED
  BY <1>1, Invariance, PTL DEF Spec, FiresAsConfigured, AsConfigured
=============================================================================
