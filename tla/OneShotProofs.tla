--------------------------- MODULE OneShotProofs ---------------------------
(***************************************************************************)
(* Proofs about one-shot keys and layer lock, for every keymap, build and  *)
(* bound.                                                                  *)
(*                                                                         *)
(* Owners are what the invariant is about: a key code in the report, a     *)
(* modifier and a layer is each owned by a key held down (as the action    *)
(* and the tap count it was pressed with), or is locked, or is the         *)
(* one-shot layer.  It is stated for any state st goes through within one  *)
(* key record (Between), with the set H of the keys that count as held and *)
(* a set X of layers that are excused for the moment: layer 0, and a layer *)
(* between being switched and being accounted for.  A press is handled     *)
(* with its key in H from the start; a release takes it out at the end,    *)
(* when it has been freed (Freed).                                         *)
(*                                                                         *)
(* Only the claim about layers has a hypothesis, OneOneshotLayer:          *)
(* oneshot_layer_data holds one layer, and a second one overwrites it.     *)
(***************************************************************************)
EXTENDS OneShot, WellFoundedInduction, TLAPS

\* The values of layer_data and of st.
LayerData == [layer : Layers, state : (SUBSET {PRESSED, OTHER_KEY_PRESSED}) \cup {{TOGGLED}}]

\* How a key was typed.
Typing == [mods : SUBSET Mods, real : SUBSET Mods, armed : SUBSET Mods]

States == [kb : KeyboardStates, oneshot_mods : SUBSET Mods, oneshot_locked_mods : SUBSET Mods,
           layer_data : LayerData, locked_layers : SUBSET Layers, oneshot_enable : BOOLEAN,
           old : SUBSET Timers, host : SUBSET Mods, armed : SUBSET Mods,
           typed : SUBSET Typing, locked_with : [Layers -> SUBSET Keys]]

\* A state given by its fields.
State(kb, mods, lmods, data, locked, enable, old, host, armed, typed, with) ==
  [kb |-> kb, oneshot_mods |-> mods, oneshot_locked_mods |-> lmods, layer_data |-> data,
   locked_layers |-> locked, oneshot_enable |-> enable, old |-> old, host |-> host,
   armed |-> armed, typed |-> typed, locked_with |-> with]

\* Only what concerns reports differs.
ReportOnly(m, n) ==
  /\ n.kb = m.kb /\ n.oneshot_locked_mods = m.oneshot_locked_mods
  /\ n.layer_data = m.layer_data /\ n.locked_layers = m.locked_layers
  /\ n.oneshot_enable = m.oneshot_enable /\ n.locked_with = m.locked_with

\* What is pending was tapped for the next key, and every key was typed with no more than
\* that and what was held.
UsedInv(m) ==
  /\ m.oneshot_mods \subseteq m.armed
  /\ "mods" \in m.old => m.oneshot_mods # {}
  /\ \A t \in m.typed : t.mods \subseteq t.real \cup t.armed

\* clear_oneshot_mods keeps the pending modifiers among the armed ones.
LEMMA ClearModsIs ==
  ASSUME NEW m \in States, UsedInv(m), NEW n, n = clear_oneshot_mods(m)
  PROVE  n \in States /\ UsedInv(n) /\ ReportOnly(m, n) /\ n.oneshot_mods = {}
         /\ n.typed = m.typed /\ n.armed = m.armed /\ n.host = m.host
<1>1. CASE m.oneshot_mods = {}
  <2>1. n = [m EXCEPT !.oneshot_mods = {}, !.old = m.old]
    BY <1>1 DEF clear_oneshot_mods
  <2>2. n = m
    BY <1>1, <2>1 DEF States
  <2> QED BY <2>2, <1>1 DEF ReportOnly
<1>2. CASE m.oneshot_mods # {}
  <2>1. n = [m EXCEPT !.oneshot_mods = {}, !.old = m.old \ {"mods"}]
    BY <1>2 DEF clear_oneshot_mods, States
  <2>2. n \in States
    BY <2>1 DEF States
  <2>3. UsedInv(n) /\ ReportOnly(m, n) /\ n.oneshot_mods = {}
        /\ n.typed = m.typed /\ n.armed = m.armed /\ n.host = m.host
    BY <2>1 DEF States, ReportOnly, UsedInv
  <2> QED BY <2>2, <2>3
<1> QED BY <1>1, <1>2

\* So does the timeout of one-shot modifiers.
LEMMA ModsTimeoutIs ==
  ASSUME NEW m \in States, UsedInv(m), NEW n, n = mods_timeout(m)
  PROVE  n \in States /\ UsedInv(n) /\ ReportOnly(m, n)
         /\ n.typed = m.typed /\ n.host = m.host
<1>1. CASE build.ONESHOT_TIMEOUT /\ "mods" \in m.old
  <2> DEFINE c == clear_oneshot_mods(m)
  <2>1. c \in States /\ UsedInv(c) /\ ReportOnly(m, c) /\ c.oneshot_mods = {}
        /\ c.typed = m.typed /\ c.host = m.host
    BY ClearModsIs
  <2>2. n = [c EXCEPT !.armed = {}]
    BY <1>1 DEF mods_timeout
  <2> HIDE DEF c
  <2>3. n \in States
    BY <2>1, <2>2 DEF States
  <2>4. UsedInv(n) /\ ReportOnly(m, n) /\ n.typed = m.typed /\ n.host = m.host
    BY <2>1, <2>2 DEF States, ReportOnly, UsedInv
  <2> QED BY <2>3, <2>4
<1>2. CASE ~(build.ONESHOT_TIMEOUT /\ "mods" \in m.old)
  BY <1>2 DEF mods_timeout, ReportOnly
<1> QED BY <1>1, <1>2

\* What has been reported of n.
Reported(n) == [n EXCEPT !.host = n.kb.mods \cup n.oneshot_mods]

\* n is m after a report.
Sent(m, n) ==
  /\ n \in States /\ UsedInv(n) /\ ReportOnly(m, n) /\ n.typed = m.typed
  /\ n.host = m.kb.mods \cup mods_timeout(m).oneshot_mods
  /\ m.kb.keys # {} => n.oneshot_mods = {}

\* A report shows the pending modifiers, and with a key down uses them up.
LEMMA SendIs ==
  ASSUME NEW m \in States, UsedInv(m)
  PROVE  Sent(m, send_keyboard_report(m))
<1> DEFINE t == mods_timeout(m)
           h == [t EXCEPT !.host = t.kb.mods \cup t.oneshot_mods]
           n == send_keyboard_report(m)
<1>1. t \in States /\ UsedInv(t) /\ ReportOnly(m, t) /\ t.typed = m.typed
  BY ModsTimeoutIs
<1>2. n = IF h.kb.keys = {} THEN h ELSE clear_oneshot_mods(h)
  BY DEF send_keyboard_report, After
<1> HIDE DEF t
<1>3. h \in States
  BY <1>1 DEF States, KeyboardStates
<1>4. UsedInv(h) /\ ReportOnly(t, h) /\ h.typed = m.typed /\ h.kb = m.kb
      /\ h.host = m.kb.mods \cup t.oneshot_mods
  BY <1>1 DEF States, ReportOnly, UsedInv
<1> HIDE DEF h, n
<1>5. CASE h.kb.keys = {}
  <2>1. n = h
    BY <1>2, <1>5
  <2>2. ReportOnly(m, h)
    BY <1>1, <1>4 DEF ReportOnly
  <2> QED BY <2>1, <2>2, <1>3, <1>4, <1>5 DEF Sent, n, t
<1>6. CASE h.kb.keys # {}
  <2>1. n = clear_oneshot_mods(h)
    BY <1>2, <1>6
  <2>2. n \in States /\ UsedInv(n) /\ ReportOnly(h, n) /\ n.oneshot_mods = {}
        /\ n.typed = h.typed /\ n.host = h.host
    BY <2>1, <1>3, <1>4, ClearModsIs
  <2>3. ReportOnly(m, n)
    BY <1>1, <1>4, <2>2 DEF ReportOnly
  <2> QED BY <2>2, <2>3, <1>4 DEF Sent, n, t
<1> QED BY <1>5, <1>6

\* The action a key was last pressed as, and what it holds down: with hld, the tap
\* counts.
HeldIn(m, key) == keymap[m.kb.cache[key]][key]

OwnsCode(m, hld, key, c) == Registers(HeldIn(m, key), hld[key]) /\ HeldIn(m, key).code = c

OwnsMod(m, hld, key, mod) ==
  /\ HeldIn(m, key).mod = mod
  /\ \/ HeldIn(m, key).kind = "MOD"
     \/ HeldIn(m, key).kind = "ONESHOT_MODS" /\ (hld[key] = 0 \/ ~m.oneshot_enable)

OwnsLayer(m, hld, key, l) ==
  /\ HeldIn(m, key).layer = l
  /\ \/ HeldIn(m, key).kind = "ON_OFF"
     \/ HeldIn(m, key).kind = "LAYER_TAP" /\ hld[key] = 0
     \/ HeldIn(m, key).kind = "ONESHOT_LAYER" /\ ~m.oneshot_enable

\* A one-shot layer is active only while one-shot keys are enabled, is that of an OSL key,
\* and was not locked since it became one.
OneshotInv(m) ==
  /\ ~m.oneshot_enable => m.layer_data.state = {}
  /\ m.layer_data.state # {} => /\ m.layer_data.layer \in OneshotLayers
                               /\ m.locked_with[m.layer_data.layer] = {}

\* The invariant of key codes: each is owned.
KeysInv(m, hld, H) == \A c \in m.kb.keys : \E key \in H : OwnsCode(m, hld, key, c)

\* The invariant of modifiers: each is locked or owned.
ModsInv(m, hld, H) ==
  \A x \in m.kb.mods : x \in m.oneshot_locked_mods \/ \E key \in H : OwnsMod(m, hld, key, x)

IsOneshot(m, l) == m.layer_data.layer = l /\ m.layer_data.state # {}

\* The invariant of layers: but for X, each that is on is locked, the one-shot layer, or
\* owned.
LayersInv(m, hld, H, X) ==
  \A l \in m.kb.layers \ X :
    l \in m.locked_layers \/ IsOneshot(m, l) \/ \E key \in H : OwnsLayer(m, hld, key, l)

\* The invariant of st, within a key record too.
Between(m, hld, H, X) ==
  /\ m \in States /\ UsedInv(m) /\ OneshotInv(m)
  /\ KeysInv(m, hld, H) /\ ModsInv(m, hld, H)
  /\ OneOneshotLayer => LayersInv(m, hld, H, X)

\* The same keys are held as the same.
Frame(m, n) == n.kb.cache = m.kb.cache /\ n.oneshot_enable = m.oneshot_enable

\* What a key owns depends on the layer caches and on oneshot_enable only.
LEMMA FrameOwns ==
  ASSUME NEW m, NEW n, Frame(m, n), NEW hld, NEW key
  PROVE  /\ HeldIn(n, key) = HeldIn(m, key)
         /\ \A c : OwnsCode(n, hld, key, c) <=> OwnsCode(m, hld, key, c)
         /\ \A c : OwnsMod(n, hld, key, c) <=> OwnsMod(m, hld, key, c)
         /\ \A c : OwnsLayer(n, hld, key, c) <=> OwnsLayer(m, hld, key, c)
<1>1. HeldIn(n, key) = HeldIn(m, key)
  BY DEF Frame, HeldIn
<1> QED BY <1>1 DEF OwnsCode, OwnsMod, OwnsLayer, Frame

\* Fewer key codes in the report need no new owners.
LEMMA FrameKeys ==
  ASSUME NEW m, NEW n, Frame(m, n), NEW hld, NEW H, KeysInv(m, hld, H),
         n.kb.keys \subseteq m.kb.keys
  PROVE  KeysInv(n, hld, H)
BY FrameOwns DEF KeysInv

\* Nor do fewer modifiers, as long as the locked ones stay locked.
LEMMA FrameMods ==
  ASSUME NEW m, NEW n, Frame(m, n), NEW hld, NEW H, ModsInv(m, hld, H),
         \A x \in n.kb.mods : x \in m.kb.mods /\ (x \in m.oneshot_locked_mods => x \in n.oneshot_locked_mods)
  PROVE  ModsInv(n, hld, H)
BY FrameOwns DEF ModsInv

\* Nor do fewer layers, as long as locked and one-shot layers remain so.
LEMMA FrameLayers ==
  ASSUME NEW m, NEW n, Frame(m, n), NEW hld, NEW H, NEW X, NEW Y, LayersInv(m, hld, H, X),
         \A l \in n.kb.layers \ Y : l \in m.kb.layers \ X
            /\ (l \in m.locked_layers \/ IsOneshot(m, l) => l \in n.locked_layers \/ IsOneshot(n, l))
  PROVE  LayersInv(n, hld, H, Y)
BY FrameOwns DEF LayersInv

\* A report breaks nothing.
LEMMA BetweenReport ==
  ASSUME NEW m, NEW n, NEW hld, NEW H, NEW X, Between(m, hld, H, X),
         n \in States, UsedInv(n), ReportOnly(m, n)
  PROVE  Between(n, hld, H, X) /\ Frame(m, n)
<1>1. Frame(m, n)
  BY DEF ReportOnly, Frame
<1>2. KeysInv(n, hld, H)
  BY <1>1, FrameKeys DEF ReportOnly, Between
<1>3. ModsInv(n, hld, H)
  BY <1>1, FrameMods DEF ReportOnly, Between
<1>4. ASSUME OneOneshotLayer PROVE LayersInv(n, hld, H, X)
  <2>1. LayersInv(m, hld, H, X)
    BY <1>4 DEF Between
  <2>2. \A l : IsOneshot(m, l) => IsOneshot(n, l)
    BY DEF IsOneshot, ReportOnly
  <2> QED BY <2>1, <2>2, <1>1, FrameLayers DEF ReportOnly
<1>5. OneshotInv(n)
  BY DEF OneshotInv, ReportOnly, Between
<1> QED BY <1>1, <1>2, <1>3, <1>4, <1>5 DEF Between

\* A change of layers, and of nothing about keys and modifiers.
LayersOnly(m, n) ==
  /\ n \in States /\ n.kb.keys = m.kb.keys /\ n.kb.mods = m.kb.mods /\ n.kb.cache = m.kb.cache
  /\ n.oneshot_mods = m.oneshot_mods /\ n.oneshot_locked_mods = m.oneshot_locked_mods
  /\ n.oneshot_enable = m.oneshot_enable /\ n.armed = m.armed /\ n.typed = m.typed
  /\ "mods" \in n.old => "mods" \in m.old

\* A change of layers keeps the invariant if every layer that is on without a held key's
\* help is locked or the one-shot layer.
LEMMA BetweenLayers ==
  ASSUME NEW m, NEW n, NEW hld, NEW H, NEW X, NEW Y, Between(m, hld, H, X), LayersOnly(m, n),
         OneshotInv(n),
         OneOneshotLayer =>
           \A l \in n.kb.layers \ Y :
             l \in n.locked_layers \/ IsOneshot(n, l)
               \/ (l \in m.kb.layers \ X /\ l \notin m.locked_layers /\ ~IsOneshot(m, l))
  PROVE  Between(n, hld, H, Y) /\ Frame(m, n)
<1>1. Frame(m, n)
  BY DEF LayersOnly, Frame
<1>2. KeysInv(n, hld, H)
  BY <1>1, FrameKeys DEF LayersOnly, Between
<1>3. ModsInv(n, hld, H)
  BY <1>1, FrameMods DEF LayersOnly, Between
<1>4. ASSUME OneOneshotLayer PROVE LayersInv(n, hld, H, Y)
  <2>1. LayersInv(m, hld, H, X)
    BY <1>4 DEF Between
  <2> SUFFICES ASSUME NEW l \in n.kb.layers \ Y, l \notin n.locked_layers, ~IsOneshot(n, l)
               PROVE  \E key \in H : OwnsLayer(n, hld, key, l)
    BY DEF LayersInv
  <2>2. \E key \in H : OwnsLayer(m, hld, key, l)
    BY <2>1, <1>4 DEF LayersInv
  <2> QED BY <2>2, <1>1, FrameOwns
<1>5. UsedInv(n)
  BY DEF LayersOnly, UsedInv, Between
<1> QED BY <1>1, <1>2, <1>3, <1>4, <1>5 DEF Between, LayersOnly

\* n is m with other layers on.
WithLayers(m, n, L) ==
  /\ LayersOnly(m, n) /\ n.kb.layers = L /\ n.layer_data = m.layer_data
  /\ n.locked_layers = m.locked_layers /\ n.locked_with = m.locked_with

\* Assigning the layers changes nothing else.
LEMMA LayersAre ==
  ASSUME NEW m \in States, NEW L \in SUBSET Layers, NEW n, n = [m EXCEPT !.kb.layers = L]
  PROVE  WithLayers(m, n, L)
<1> DEFINE k == [m.kb EXCEPT !.layers = L]
<1>1. m.kb \in KeyboardStates
  BY DEF States
<1>2. k \in KeyboardStates /\ k.keys = m.kb.keys /\ k.mods = m.kb.mods /\ k.cache = m.kb.cache
      /\ k.layers = L
  BY <1>1 DEF KeyboardStates
<1>3. n = [m EXCEPT !.kb = k]
  OBVIOUS
<1> HIDE DEF k
<1>4. n \in States
  BY <1>2, <1>3 DEF States
<1>5. n.kb = k /\ n.layer_data = m.layer_data /\ n.locked_layers = m.locked_layers
      /\ n.locked_with = m.locked_with
      /\ n.oneshot_mods = m.oneshot_mods /\ n.oneshot_locked_mods = m.oneshot_locked_mods
      /\ n.oneshot_enable = m.oneshot_enable /\ n.armed = m.armed /\ n.typed = m.typed
      /\ n.old = m.old
  BY <1>3 DEF States
<1> QED BY <1>2, <1>4, <1>5 DEF WithLayers, LayersOnly

\* The types of the fields of a state.
LEMMA StateTypes ==
  ASSUME NEW m \in States
  PROVE  /\ m.kb \in KeyboardStates /\ m.kb.layers \in SUBSET Layers /\ m.locked_layers \in SUBSET Layers
         /\ m.layer_data.layer \in Layers
         /\ m.layer_data.state \in (SUBSET {PRESSED, OTHER_KEY_PRESSED}) \cup {{TOGGLED}}
         /\ m.layer_data = [layer |-> m.layer_data.layer, state |-> m.layer_data.state]
         /\ m.oneshot_enable \in BOOLEAN /\ m.old \in SUBSET Timers
         /\ m.kb.mods \in SUBSET Mods /\ m.kb.keys \in SUBSET Codes /\ m.kb.cache \in [Keys -> Layers]
         /\ m.oneshot_mods \in SUBSET Mods /\ m.oneshot_locked_mods \in SUBSET Mods
         /\ m.locked_with \in [Layers -> SUBSET Keys]
BY DEF States, KeyboardStates, LayerData

\* layer_on: the new layer has no owner yet.
LEMMA LayerOnIs ==
  ASSUME NEW m, NEW hld, NEW H, NEW X, Between(m, hld, H, X), NEW l \in Layers,
         NEW n, n = layer_on(m, l)
  PROVE  Between(n, hld, H, X \cup {l}) /\ Frame(m, n) /\ WithLayers(m, n, m.kb.layers \cup {l})
<1>1. m \in States /\ m.kb.layers \cup {l} \in SUBSET Layers
  BY StateTypes DEF Between
<1>2. WithLayers(m, n, m.kb.layers \cup {l})
  BY <1>1, LayersAre DEF layer_on
<1>3. OneshotInv(n)
  BY <1>2 DEF WithLayers, LayersOnly, OneshotInv, Between
<1>4. \A k : IsOneshot(n, k) <=> IsOneshot(m, k)
  BY <1>2 DEF WithLayers, IsOneshot
<1>5. \A k \in n.kb.layers \ (X \cup {l}) :
             k \in n.locked_layers \/ IsOneshot(n, k)
               \/ (k \in m.kb.layers \ X /\ k \notin m.locked_layers /\ ~IsOneshot(m, k))
  BY <1>2, <1>4 DEF WithLayers
<1>6. LayersOnly(m, n)
  BY <1>2 DEF WithLayers
<1> QED BY <1>2, <1>3, <1>5, <1>6, BetweenLayers

\* layer_off: the layer needs none any more.
LEMMA LayerOffIs ==
  ASSUME NEW m, NEW hld, NEW H, NEW X, NEW l, Between(m, hld, H, X \cup {l}),
         NEW n, n = layer_off(m, l)
  PROVE  Between(n, hld, H, X) /\ Frame(m, n) /\ WithLayers(m, n, m.kb.layers \ {l})
<1>1. m \in States /\ m.kb.layers \ {l} \in SUBSET Layers
  BY StateTypes DEF Between
<1>2. WithLayers(m, n, m.kb.layers \ {l})
  BY <1>1, LayersAre DEF layer_off
<1>3. OneshotInv(n)
  BY <1>2 DEF WithLayers, LayersOnly, OneshotInv, Between
<1>4. \A k : IsOneshot(n, k) <=> IsOneshot(m, k)
  BY <1>2 DEF WithLayers, IsOneshot
<1>5. \A k \in n.kb.layers \ X :
             k \in n.locked_layers \/ IsOneshot(n, k)
               \/ (k \in m.kb.layers \ (X \cup {l}) /\ k \notin m.locked_layers /\ ~IsOneshot(m, k))
  BY <1>2, <1>4 DEF WithLayers
<1>6. LayersOnly(m, n)
  BY <1>2 DEF WithLayers
<1> QED BY <1>2, <1>3, <1>5, <1>6, BetweenLayers

\* More layers may be excused.
LEMMA BetweenMore ==
  ASSUME NEW m, NEW hld, NEW H, NEW X, NEW Y, X \subseteq Y, Between(m, hld, H, X)
  PROVE  Between(m, hld, H, Y)
BY DEF Between, LayersInv

\* reset_oneshot_layer, when the layer is excused or no one-shot layer is active.
LEMMA ResetIs ==
  ASSUME NEW m, NEW hld, NEW H, NEW X, Between(m, hld, H, X),
         m.layer_data.state = {} \/ m.layer_data.layer \in X,
         NEW n, n = reset_oneshot_layer(m)
  PROVE  /\ Between(n, hld, H, X) /\ Frame(m, n) /\ LayersOnly(m, n)
         /\ n.layer_data = Nothing /\ n.kb = m.kb /\ n.locked_layers = m.locked_layers
         /\ n.locked_with = m.locked_with
<1>1. m \in States
  BY DEF Between
<1>2. n = [m EXCEPT !.layer_data = Nothing, !.old = m.old \ {"layer"}]
  BY <1>1 DEF reset_oneshot_layer, States
<1>3. Nothing \in LayerData
  BY ActionAssumption DEF Nothing, LayerData, Layers
<1>4. n \in States
  BY <1>1, <1>2, <1>3 DEF States
<1>5. n.kb = m.kb /\ n.layer_data = Nothing /\ n.locked_layers = m.locked_layers
      /\ n.locked_with = m.locked_with
      /\ n.oneshot_mods = m.oneshot_mods /\ n.oneshot_locked_mods = m.oneshot_locked_mods
      /\ n.oneshot_enable = m.oneshot_enable /\ n.armed = m.armed /\ n.typed = m.typed
      /\ n.old = m.old \ {"layer"}
  BY <1>1, <1>2 DEF States
<1>6. LayersOnly(m, n)
  BY <1>4, <1>5 DEF LayersOnly
<1>7. OneshotInv(n)
  BY <1>5 DEF OneshotInv, Nothing
<1>8. \A l : ~IsOneshot(n, l) /\ (IsOneshot(m, l) => l \in X)
  BY <1>5 DEF IsOneshot, Nothing
<1>9. Between(n, hld, H, X) /\ Frame(m, n)
  BY <1>5, <1>6, <1>7, <1>8, BetweenLayers
<1> QED BY <1>5, <1>6, <1>9

\* The layers of OSL keys are layers.
LEMMA OneshotLayersIs == OneshotLayers \subseteq Layers
BY DEF OneshotLayers

\* set_oneshot_layer: with one such layer, it takes over what it overwrites.
LEMMA SetOneshotIs ==
  ASSUME NEW m, NEW hld, NEW H, NEW X, Between(m, hld, H, X), m.oneshot_enable,
         NEW l \in OneshotLayers,
         NEW s \in (SUBSET {PRESSED, OTHER_KEY_PRESSED}) \cup {{TOGGLED}}, s # {},
         NEW n, n = set_oneshot_layer(m, l, s)
  PROVE  Between(n, hld, H, X) /\ Frame(m, n) /\ n.layer_data = [layer |-> l, state |-> s]
         /\ n.kb.layers = m.kb.layers \cup {l}
<1> DEFINE o == layer_on(m, l)
<1>1. l \in Layers
  BY OneshotLayersIs
<1>2. Between(o, hld, H, X \cup {l}) /\ Frame(m, o) /\ WithLayers(m, o, m.kb.layers \cup {l})
  BY <1>1, LayerOnIs
<1> DEFINE with == [o.locked_with EXCEPT ![l] = {}]
<1>3. n = [o EXCEPT !.layer_data = [layer |-> l, state |-> s], !.old = @ \ {"layer"}, !.locked_with = with]
  BY DEF set_oneshot_layer
<1> HIDE DEF o
<1>4. o \in States
  BY <1>2 DEF Between
<1>15. with \in [Layers -> SUBSET Keys] /\ with[l] = {}
  BY <1>1, <1>4, StateTypes
<1> HIDE DEF with
<1>5. [layer |-> l, state |-> s] \in LayerData
  BY <1>1 DEF LayerData
<1>6. n \in States
  <2>1. o.old \ {"layer"} \in SUBSET Timers
    BY <1>4, StateTypes
  <2> DEFINE data == [layer |-> l, state |-> s]
  <2>2. n = [o EXCEPT !.layer_data = data, !.old = o.old \ {"layer"}, !.locked_with = with]
    BY <1>3
  <2> HIDE DEF data
  <2>3. data \in LayerData
    BY <1>5 DEF data
  <2> QED BY <1>4, <1>15, <2>1, <2>2, <2>3 DEF States
<1>7. n.kb = o.kb /\ n.locked_with = with /\ n.layer_data = [layer |-> l, state |-> s] /\ n.locked_layers = o.locked_layers
      /\ n.oneshot_mods = o.oneshot_mods /\ n.oneshot_locked_mods = o.oneshot_locked_mods
      /\ n.oneshot_enable = o.oneshot_enable /\ n.armed = o.armed /\ n.typed = o.typed
      /\ n.old = o.old \ {"layer"}
  BY <1>3, <1>4 DEF States
<1>8. LayersOnly(o, n)
  BY <1>6, <1>7 DEF LayersOnly
<1>9. OneshotInv(n)
  <2>1. n.oneshot_enable
    BY <1>7, <1>2 DEF Frame
  <2> QED BY <1>7, <1>15, <2>1 DEF OneshotInv
<1>10. ASSUME OneOneshotLayer, NEW k, IsOneshot(o, k) PROVE k = l
  <2>1. OneshotInv(o)
    BY <1>2 DEF Between
  <2> QED BY <1>10, <2>1 DEF IsOneshot, OneshotInv, OneOneshotLayer
<1>11. IsOneshot(n, l)
  BY <1>7 DEF IsOneshot
<1>12. ASSUME OneOneshotLayer
       PROVE  \A k \in n.kb.layers \ X :
             k \in n.locked_layers \/ IsOneshot(n, k)
               \/ (k \in o.kb.layers \ (X \cup {l}) /\ k \notin o.locked_layers /\ ~IsOneshot(o, k))
  BY <1>7, <1>10, <1>11, <1>12
<1>13. Between(n, hld, H, X) /\ Frame(o, n)
  BY <1>2, <1>8, <1>9, <1>12, BetweenLayers
<1>14. Frame(m, n) /\ n.kb.layers = m.kb.layers \cup {l}
  BY <1>2, <1>7, <1>13 DEF Frame, WithLayers
<1> QED BY <1>7, <1>13, <1>14

\* Every layer that is on stays on, but for the one-shot layer, and none becomes one-shot.
KeepsOn(m, n) ==
  /\ n.locked_layers = m.locked_layers
  /\ \A l \in m.kb.layers : ~IsOneshot(m, l) => l \in n.kb.layers /\ ~IsOneshot(n, l)

\* clear_oneshot_layer_state: a layer that loses its last bit is switched off.
LEMMA ClearLayerIs ==
  ASSUME NEW m, NEW hld, NEW H, NEW X, Between(m, hld, H, X),
         NEW bit \in {PRESSED, OTHER_KEY_PRESSED},
         NEW n, n = clear_oneshot_layer_state(m, bit)
  PROVE  /\ Between(n, hld, H, X) /\ Frame(m, n) /\ LayersOnly(m, n) /\ KeepsOn(m, n)
         /\ m.layer_data.state = {} => n = m
<1> DEFINE d == [m EXCEPT !.layer_data.state = m.layer_data.state \ {bit}]
<1>1. m \in States /\ UsedInv(m) /\ OneshotInv(m)
  BY DEF Between
<1>2. n = IF d.layer_data.state = {} /\ d.layer_data # m.layer_data /\ d.oneshot_enable
          THEN reset_oneshot_layer(layer_off(d, d.layer_data.layer)) ELSE d
  <2> DEFINE e == [m EXCEPT !.layer_data.state = @ \ {bit}]
  <2>1. n = IF e.layer_data.state = {} /\ e.layer_data # m.layer_data /\ e.oneshot_enable
            THEN reset_oneshot_layer(layer_off(e, e.layer_data.layer)) ELSE e
    <3>1. \A v : After(v, LAMBDA w :
                    IF w.layer_data.state = {} /\ w.layer_data # m.layer_data /\ w.oneshot_enable
                    THEN reset_oneshot_layer(layer_off(w, w.layer_data.layer)) ELSE w)
                 = IF v.layer_data.state = {} /\ v.layer_data # m.layer_data /\ v.oneshot_enable
                   THEN reset_oneshot_layer(layer_off(v, v.layer_data.layer)) ELSE v
      BY DEF After
    <3> QED BY <3>1 DEF clear_oneshot_layer_state
  <2>2. e = d
    OBVIOUS
  <2> HIDE DEF e, d
  <2> QED BY <2>1, <2>2
<1>3. m.layer_data.state \ {bit} \in (SUBSET {PRESSED, OTHER_KEY_PRESSED}) \cup {{TOGGLED}}
  BY <1>1, StateTypes DEF PRESSED, OTHER_KEY_PRESSED, TOGGLED
<1> DEFINE data == [layer |-> m.layer_data.layer, state |-> m.layer_data.state \ {bit}]
<1>4. data \in LayerData /\ data.state = m.layer_data.state \ {bit} /\ data.layer = m.layer_data.layer
  BY <1>1, <1>3, StateTypes DEF LayerData
<1>5. d = [m EXCEPT !.layer_data = data]
  <2>1. [m.layer_data EXCEPT !.state = m.layer_data.state \ {bit}] = data
    <3> DEFINE ld == m.layer_data
               S == m.layer_data.state \ {bit}
    <3>1. ld = [layer |-> m.layer_data.layer, state |-> m.layer_data.state]
      BY <1>1, StateTypes
    <3> HIDE DEF ld, S
    <3>2. [ld EXCEPT !.state = S] = [layer |-> m.layer_data.layer, state |-> S]
      BY <3>1
    <3> QED BY <3>2 DEF ld, S
  <2> QED BY <2>1, <1>1 DEF States
<1> HIDE DEF d, data
<1>6. d \in States
  BY <1>1, <1>4, <1>5 DEF States
<1>7. d.kb = m.kb /\ d.locked_with = m.locked_with /\ d.layer_data = data /\ d.locked_layers = m.locked_layers
      /\ d.oneshot_mods = m.oneshot_mods /\ d.oneshot_locked_mods = m.oneshot_locked_mods
      /\ d.oneshot_enable = m.oneshot_enable /\ d.armed = m.armed /\ d.typed = m.typed
      /\ d.old = m.old
  BY <1>1, <1>5 DEF States
<1>8. LayersOnly(m, d)
  BY <1>6, <1>7 DEF LayersOnly
<1>9. OneshotInv(d)
  BY <1>1, <1>4, <1>7 DEF OneshotInv
<1>10. CASE m.layer_data.state = {}
  <2>1. data = m.layer_data
    BY <1>1, <1>10, StateTypes DEF data
  <2>2. d = m
    BY <1>1, <1>5, <2>1 DEF States
  <2>3. n = m
    BY <1>2, <2>2
  <2> QED BY <2>2, <2>3, <1>8 DEF Frame, KeepsOn
<1>11. CASE m.layer_data.state # {} /\ data.state # {}
  <2>1. n = d
    BY <1>2, <1>7, <1>11
  <2>2. \A l : IsOneshot(m, l) <=> IsOneshot(d, l)
    BY <1>4, <1>7, <1>11 DEF IsOneshot
  <2>3. \A l \in d.kb.layers \ X :
             l \in d.locked_layers \/ IsOneshot(d, l)
               \/ (l \in m.kb.layers \ X /\ l \notin m.locked_layers /\ ~IsOneshot(m, l))
    BY <1>7, <2>2
  <2>4. Between(d, hld, H, X) /\ Frame(m, d)
    BY <2>3, <1>8, <1>9, BetweenLayers
  <2>5. KeepsOn(m, n)
    BY <2>1, <2>2, <1>7 DEF KeepsOn
  <2> QED BY <2>1, <2>4, <2>5, <1>8, <1>11
<1>12. CASE m.layer_data.state # {} /\ data.state = {}
  <2> DEFINE o == layer_off(d, d.layer_data.layer)
             x == d.layer_data.layer
  <2>1. n = reset_oneshot_layer(o)
    <3>1. d.oneshot_enable
      BY <1>1, <1>7, <1>12 DEF OneshotInv
    <3>2. d.layer_data # m.layer_data
      BY <1>7, <1>12
    <3> QED BY <3>1, <3>2, <1>2, <1>7, <1>12
  <2>2. \A l : ~IsOneshot(d, l) /\ (IsOneshot(m, l) => l = x)
    BY <1>4, <1>7, <1>12 DEF IsOneshot
  <2>3. \A l \in d.kb.layers \ (X \cup {x}) :
             l \in d.locked_layers \/ IsOneshot(d, l)
               \/ (l \in m.kb.layers \ X /\ l \notin m.locked_layers /\ ~IsOneshot(m, l))
    BY <1>7, <2>2
  <2>4. Between(d, hld, H, X \cup {x}) /\ Frame(m, d)
    BY <2>3, <1>8, <1>9, BetweenLayers
  <2>5. Between(o, hld, H, X) /\ Frame(d, o) /\ WithLayers(d, o, d.kb.layers \ {x})
    BY <2>4, LayerOffIs
  <2>6. o.layer_data.state = {}
    BY <2>5, <1>7, <1>12 DEF WithLayers
  <2> HIDE DEF o, x
  <2>7. Between(n, hld, H, X) /\ Frame(o, n) /\ LayersOnly(o, n)
        /\ n.layer_data = Nothing /\ n.kb = o.kb /\ n.locked_layers = o.locked_layers
    BY <2>1, <2>5, <2>6, ResetIs
  <2>8. LayersOnly(m, n) /\ Frame(m, n)
    BY <2>4, <2>5, <2>7, <1>8 DEF LayersOnly, Frame, WithLayers
  <2>9. m.layer_data.layer = x
    BY <1>4, <1>7 DEF x
  <2>10. KeepsOn(m, n)
    BY <2>5, <2>7, <2>9, <1>7, <1>12 DEF KeepsOn, WithLayers, IsOneshot, Nothing
  <2> QED BY <2>7, <2>8, <2>10, <1>12
<1> QED BY <1>10, <1>11, <1>12

\* The timeouts at the start of action_exec keep the invariant.
LEMMA TimeoutsIs ==
  ASSUME NEW m, NEW hld, NEW H, NEW X, Between(m, hld, H, X), NEW n, n = timeouts(m)
  PROVE  Between(n, hld, H, X) /\ Frame(m, n) /\ KeepsOn(m, n)
<1>1. CASE ~m.oneshot_enable \/ ~build.ONESHOT_TIMEOUT
  BY <1>1 DEF timeouts, Frame, KeepsOn
<1>2. CASE ~(~m.oneshot_enable \/ ~build.ONESHOT_TIMEOUT)
  <2> DEFINE o == IF "layer" \in m.old /\ TOGGLED \notin m.layer_data.state
                  THEN clear_oneshot_layer_state(m, OTHER_KEY_PRESSED) ELSE m
  <2>1. n = mods_timeout(o)
    BY <1>2 DEF timeouts
  <2>2. Between(o, hld, H, X) /\ Frame(m, o) /\ KeepsOn(m, o)
    <3>1. CASE "layer" \in m.old /\ TOGGLED \notin m.layer_data.state
      <4>1. o = clear_oneshot_layer_state(m, OTHER_KEY_PRESSED)
        BY <3>1
      <4> HIDE DEF o
      <4> QED BY <4>1, ClearLayerIs
    <3>2. CASE ~("layer" \in m.old /\ TOGGLED \notin m.layer_data.state)
      BY <3>2 DEF Frame, KeepsOn
    <3> QED BY <3>1, <3>2
  <2> HIDE DEF o
  <2>3. o \in States /\ UsedInv(o)
    BY <2>2 DEF Between
  <2>4. n \in States /\ UsedInv(n) /\ ReportOnly(o, n)
    BY <2>1, <2>3, ModsTimeoutIs
  <2>5. Between(n, hld, H, X) /\ Frame(o, n)
    BY <2>2, <2>4, BetweenReport
  <2>6. KeepsOn(m, n)
    BY <2>2, <2>4 DEF KeepsOn, ReportOnly, IsOneshot
  <2> QED BY <2>2, <2>5, <2>6 DEF Frame
<1> QED BY <1>1, <1>2

\* oneshot_toggle: no key is held whose role it would change.
LEMMA ToggleIs ==
  ASSUME NEW m, NEW hld, NEW H, NEW X, Between(m, hld, H, X), m.layer_data.state = {},
         \A k \in H : HeldIn(m, k).kind = "ONESHOT_TOGGLE",
         NEW n, n = oneshot_toggle(m)
  PROVE  Between(n, hld, H, X) /\ n.kb = m.kb
<1> DEFINE e == ~m.oneshot_enable
           d == [m EXCEPT !.oneshot_enable = e]
<1>1. n = clear_oneshot_layer_state(d, OTHER_KEY_PRESSED)
  BY DEF oneshot_toggle
<1>2. m \in States /\ e \in BOOLEAN
  BY StateTypes DEF Between
<1> HIDE DEF e
<1>3. d \in States
  BY <1>2 DEF States
<1>4. /\ d.kb = m.kb /\ d.layer_data = m.layer_data /\ d.locked_layers = m.locked_layers
      /\ d.oneshot_mods = m.oneshot_mods /\ d.oneshot_locked_mods = m.oneshot_locked_mods
      /\ d.locked_with = m.locked_with /\ d.armed = m.armed /\ d.typed = m.typed /\ d.old = m.old
  BY <1>2 DEF States
<1> HIDE DEF d
<1>5. UsedInv(d) /\ OneshotInv(d)
  BY <1>4 DEF UsedInv, OneshotInv, Between
<1>6. \A k : HeldIn(d, k) = HeldIn(m, k)
  BY <1>4 DEF HeldIn
<1>7. ASSUME NEW k \in H
      PROVE  \A c : ~OwnsCode(m, hld, k, c) /\ ~OwnsMod(m, hld, k, c) /\ ~OwnsLayer(m, hld, k, c)
  BY DEF OwnsCode, OwnsMod, OwnsLayer, Registers, is_tap_action
<1>8. KeysInv(d, hld, H)
  BY <1>4, <1>7 DEF KeysInv, Between
<1>9. ModsInv(d, hld, H)
  BY <1>4, <1>7 DEF ModsInv, Between
<1>10. OneOneshotLayer => LayersInv(d, hld, H, X)
  BY <1>4, <1>7 DEF LayersInv, Between, IsOneshot
<1>11. Between(d, hld, H, X)
  BY <1>3, <1>5, <1>8, <1>9, <1>10 DEF Between
<1>12. Between(n, hld, H, X) /\ (d.layer_data.state = {} => n = d)
  BY <1>1, <1>11, ClearLayerIs
<1> QED BY <1>4, <1>12

\* layer_lock_invert: a layer locked is on, a layer unlocked is off.
LEMMA InvertIs ==
  ASSUME NEW m, NEW hld, NEW H, NEW X, Between(m, hld, H, X), NEW l \in Layers,
         NEW n, n = layer_lock_invert(m, l)
  PROVE  Between(n, hld, H, X) /\ Frame(m, n)
<1>1. Held \in SUBSET Keys
  BY DEF Held
<1>2. CASE l \in m.locked_layers
  <2> DEFINE o == layer_off(m, l)
  <2>1. Between(m, hld, H, X \cup {l})
    BY BetweenMore
  <2>2. Between(o, hld, H, X) /\ Frame(m, o) /\ WithLayers(m, o, m.kb.layers \ {l})
    BY <2>1, LayerOffIs
  <2>3. n = [o EXCEPT !.locked_layers = @ \ {l}]
    BY <1>2 DEF layer_lock_invert
  <2> HIDE DEF o
  <2>4. o \in States /\ OneshotInv(o)
    BY <2>2 DEF Between
  <2>5. n \in States
    BY <2>3, <2>4 DEF States
  <2>6. /\ n.kb = o.kb /\ n.layer_data = o.layer_data /\ n.locked_layers = o.locked_layers \ {l}
        /\ n.locked_with = o.locked_with
        /\ n.oneshot_mods = o.oneshot_mods /\ n.oneshot_locked_mods = o.oneshot_locked_mods
        /\ n.armed = o.armed /\ n.typed = o.typed /\ n.old = o.old
        /\ n.oneshot_enable = o.oneshot_enable
    BY <2>3, <2>4 DEF States
  <2>7. LayersOnly(o, n) /\ OneshotInv(n)
    BY <2>4, <2>5, <2>6 DEF LayersOnly, OneshotInv
  <2>8. \A k : IsOneshot(n, k) <=> IsOneshot(o, k)
    BY <2>6 DEF IsOneshot
  <2>9. l \notin n.kb.layers
    BY <2>2, <2>6 DEF WithLayers
  <2>10. \A k \in n.kb.layers \ X :
             k \in n.locked_layers \/ IsOneshot(n, k)
               \/ (k \in o.kb.layers \ X /\ k \notin o.locked_layers /\ ~IsOneshot(o, k))
    BY <2>6, <2>8, <2>9
  <2>11. Between(n, hld, H, X) /\ Frame(o, n)
    BY <2>2, <2>7, <2>10, BetweenLayers
  <2> QED BY <2>2, <2>11 DEF Frame
<1>3. CASE l \notin m.locked_layers
  <2> DEFINE r == IF l = m.layer_data.layer THEN reset_oneshot_layer(m) ELSE m
             o == layer_on(r, l)
  <2>1. Between(m, hld, H, X \cup {l})
    BY BetweenMore
  <2>2. Between(r, hld, H, X \cup {l}) /\ Frame(m, r)
        /\ (r.layer_data.state # {} => r.layer_data.layer # l)
    <3>1. CASE l = m.layer_data.layer
      <4>1. r = reset_oneshot_layer(m)
        BY <3>1
      <4> HIDE DEF r
      <4> QED BY <3>1, <4>1, <2>1, ResetIs DEF Nothing
    <3>2. CASE l # m.layer_data.layer
      BY <3>2, <2>1 DEF Frame
    <3> QED BY <3>1, <3>2
  <2>3. n = [o EXCEPT !.locked_layers = @ \cup {l}, !.old = @ \ {"lock"}, !.locked_with[l] = Held]
    <3>1. \A v : After(v, LAMBDA w : [layer_on(w, l) EXCEPT !.locked_layers = @ \cup {l},
                                        !.old = @ \ {"lock"}, !.locked_with[l] = Held])
                 = [layer_on(v, l) EXCEPT !.locked_layers = @ \cup {l},
                                        !.old = @ \ {"lock"}, !.locked_with[l] = Held]
      BY DEF After
    <3> QED BY <3>1, <1>3 DEF layer_lock_invert
  <2> HIDE DEF r
  <2>4. Between(o, hld, H, (X \cup {l}) \cup {l}) /\ Frame(r, o) /\ o.layer_data = r.layer_data
    BY <2>2, LayerOnIs DEF WithLayers
  <2> HIDE DEF o
  <2>5. o \in States /\ OneshotInv(o)
    BY <2>4 DEF Between
  <2> DEFINE old == o.old \ {"lock"}
             locked == o.locked_layers \cup {l}
             with == [o.locked_with EXCEPT ![l] = Held]
  <2>6. old \in SUBSET Timers /\ locked \in SUBSET Layers /\ ("mods" \in old => "mods" \in o.old)
    BY <2>5, StateTypes
  <2>7. n = [o EXCEPT !.locked_layers = locked, !.old = old, !.locked_with = with]
    BY <2>3
  <2>14. with \in [Layers -> SUBSET Keys] /\ \A k \in Layers \ {l} : with[k] = o.locked_with[k]
    <3>1. o.locked_with \in [Layers -> SUBSET Keys]
      BY <2>5, StateTypes
    <3> HIDE DEF old, locked
    <3> QED BY <1>1, <3>1
  <2> HIDE DEF old, with
  <2>8. n \in States
    <3> HIDE DEF locked
    <3> QED BY <2>5, <2>6, <2>7, <2>14 DEF States
  <2>9. /\ n.kb = o.kb /\ n.layer_data = o.layer_data /\ n.locked_layers = locked
        /\ n.locked_with = with
        /\ n.oneshot_mods = o.oneshot_mods /\ n.oneshot_locked_mods = o.oneshot_locked_mods
        /\ n.armed = o.armed /\ n.typed = o.typed /\ n.old = old
        /\ n.oneshot_enable = o.oneshot_enable
    <3> HIDE DEF locked
    <3> QED BY <2>7, <2>5 DEF States
  <2>10. LayersOnly(o, n) /\ OneshotInv(n)
    <3> HIDE DEF locked
    <3> DEFINE x == o.layer_data.layer
    <3>4. x \in Layers
      BY <2>5, StateTypes
    <3>5. o.layer_data.state # {} => x # l /\ o.locked_with[x] = {}
      BY <2>2, <2>4, <2>5 DEF OneshotInv
    <3>6. n.layer_data.layer = x /\ n.layer_data.state = o.layer_data.state
      BY <2>9
    <3> HIDE DEF x
    <3>1. n.layer_data.state # {} => n.locked_with[n.layer_data.layer] = {}
      BY <2>9, <2>14, <3>4, <3>5, <3>6
    <3>2. OneshotInv(n)
      BY <3>1, <2>5, <2>9 DEF OneshotInv
    <3>3. LayersOnly(o, n)
      BY <2>6, <2>8, <2>9 DEF LayersOnly
    <3> QED BY <3>2, <3>3
  <2>11. \A k : IsOneshot(n, k) <=> IsOneshot(o, k)
    BY <2>9 DEF IsOneshot
  <2>12. \A k \in n.kb.layers \ X :
             k \in n.locked_layers \/ IsOneshot(n, k)
               \/ (k \in o.kb.layers \ ((X \cup {l}) \cup {l}) /\ k \notin o.locked_layers /\ ~IsOneshot(o, k))
    BY <2>9, <2>11
  <2>13. Between(n, hld, H, X) /\ Frame(o, n)
    BY <2>4, <2>10, <2>12, BetweenLayers
  <2> QED BY <2>2, <2>4, <2>13 DEF Frame
<1> QED BY <1>2, <1>3

\* A nonempty set of layers has a greatest.
LEMMA GreatestLayer ==
  ASSUME NEW S \in SUBSET Layers, S # {}
  PROVE  \E x \in S : \A y \in S : y <= x
<1> DEFINE T == {n \in Nat : MAX_LAYER - n \in S}
<1>0. MAX_LAYER \in Nat
  BY ActionAssumption
<1>1. T # {}
  <2>1. PICK l \in S : TRUE
    OBVIOUS
  <2>2. l \in Int /\ MAX_LAYER - l \in Nat /\ MAX_LAYER - (MAX_LAYER - l) = l
    BY <2>1, <1>0 DEF Layers
  <2> QED
    BY <2>1, <2>2
<1>2. PICK n \in T : \A y \in T : ~(<<y, n>> \in OpToRel(<, Nat))
  BY <1>1, WFMin, NatLessThanWellFounded
<1>3. MAX_LAYER - n \in S
  BY <1>2
<1>4. ASSUME NEW y \in S
      PROVE  y <= MAX_LAYER - n
  <2>1. y \in Int /\ MAX_LAYER - y \in Nat /\ MAX_LAYER - (MAX_LAYER - y) = y
    BY <1>0 DEF Layers
  <2>2. ~(MAX_LAYER - y < n)
    BY <2>1, <1>2 DEF OpToRel
  <2>3. n \in Nat
    BY <1>2
  <2> HIDE DEF T
  <2> QED
    BY <2>1, <2>2, <2>3, <1>0
<1> QED
  BY <1>3, <1>4

\* The topmost layer that is on.
LEMMA HighestIs ==
  ASSUME NEW m \in States
  PROVE  get_highest_layer(m) \in Layers
<1> DEFINE S == m.kb.layers \cup {0}
<1>1. 0 \in Layers
  BY ActionAssumption DEF Layers
<1>2. S \in SUBSET Layers /\ S # {}
  BY <1>1, StateTypes
<1> HIDE DEF S
<1>3. PICK x \in S : \A y \in S : y <= x
  BY <1>2, GreatestLayer
<1>4. \A y \in S : x >= y
  BY <1>2, <1>3 DEF Layers
<1>5. Max(S) \in S
  BY <1>4 DEF Max
<1> QED BY <1>2, <1>5 DEF get_highest_layer, S

\* r is the outcome of process_layer_lock or Quantum for m.
Looked(m, r, a, pressed, count) ==
  /\ r.goes_on \in BOOLEAN
  /\ r.goes_on => r.m.kb = m.kb
  /\ ~r.goes_on /\ ~pressed =>
       \/ a.kind \in {"LAYER_LOCK", "ONESHOT_TOGGLE"}
       \/ a.kind = "ON_OFF" /\ a.layer \in r.m.locked_layers
       \/ a.kind = "LAYER_TAP" /\ count = 0 /\ a.layer \in r.m.locked_layers
  /\ r.goes_on => a.kind # "LAYER_LOCK"

\* What process_layer_lock and Quantum do to the release of a: it goes on only if it
\* switches no locked layer.
LetsPass(m, r, a, count) ==
  /\ r.m.kb = m.kb /\ r.m.layer_data = m.layer_data
  /\ r.m.locked_layers = m.locked_layers \cap m.kb.layers
  /\ r.goes_on /\ ChangesLayers(a, count) => a.layer \notin r.m.locked_layers

\* process_layer_lock keeps the invariant, and swallows the release of a key only if its
\* layer is locked or it holds nothing down.
LEMMA LayerLockIs ==
  ASSUME NEW m, NEW hld, NEW H, NEW X, Between(m, hld, H, X), NEW a \in Actions,
         NEW pressed \in BOOLEAN, NEW count, NEW r, r = process_layer_lock(m, a, pressed, count)
  PROVE  /\ Between(r.m, hld, H, X) /\ Frame(m, r.m) /\ Looked(m, r, a, pressed, count)
         /\ ~pressed => LetsPass(m, r, a, count)
         /\ a.kind = "ONESHOT_TOGGLE" => r.m.kb = m.kb /\ r.m.layer_data = m.layer_data
<1> DEFINE q == [m EXCEPT !.old = @ \ {"lock"}, !.locked_layers = @ \cap m.kb.layers]
           p(n) == LET locked == a.layer \in n.locked_layers IN
              CASE a.kind = "LAYER_LOCK" ->
                     [m |-> IF pressed THEN layer_lock_invert(n, get_highest_layer(n)) ELSE n,
                      goes_on |-> FALSE]
                [] a.kind = "ON_OFF" /\ locked ->
                     [m |-> IF pressed THEN layer_lock_invert(n, a.layer) ELSE n, goes_on |-> FALSE]
                [] a.kind = "LAYER_TAP" /\ locked /\ ~pressed /\ count = 0 ->
                     [m |-> n, goes_on |-> FALSE]
                [] OTHER -> [m |-> n, goes_on |-> TRUE]
<1>1. r = p(q)
  <2>1. \A v : After(v, LAMBDA n : p(n)) = p(v)
    BY DEF After
  <2> QED BY <2>1 DEF process_layer_lock
<1>2. m \in States /\ OneshotInv(m)
  BY DEF Between
<1> DEFINE old == m.old \ {"lock"}
           locks == m.locked_layers \cap m.kb.layers
<1>3. old \in SUBSET Timers /\ locks \in SUBSET Layers /\ ("mods" \in old => "mods" \in m.old)
  BY <1>2, StateTypes
<1>4. q = [m EXCEPT !.old = old, !.locked_layers = locks]
  OBVIOUS
<1>5. locks = m.locked_layers \cap m.kb.layers
  OBVIOUS
<1> HIDE DEF q, old, locks
<1>6. q \in States
  BY <1>2, <1>3, <1>4 DEF States
<1>7. /\ q.kb = m.kb /\ q.locked_with = m.locked_with /\ q.layer_data = m.layer_data /\ q.locked_layers = locks
      /\ q.oneshot_mods = m.oneshot_mods /\ q.oneshot_locked_mods = m.oneshot_locked_mods
      /\ q.armed = m.armed /\ q.typed = m.typed /\ q.old = old
      /\ q.oneshot_enable = m.oneshot_enable
  BY <1>2, <1>4 DEF States
<1>8. LayersOnly(m, q) /\ OneshotInv(q)
  BY <1>2, <1>3, <1>6, <1>7 DEF LayersOnly, OneshotInv
<1>9. \A k : IsOneshot(q, k) <=> IsOneshot(m, k)
  BY <1>7 DEF IsOneshot
<1>10. \A k \in q.kb.layers \ X :
             k \in q.locked_layers \/ IsOneshot(q, k)
               \/ (k \in m.kb.layers \ X /\ k \notin m.locked_layers /\ ~IsOneshot(m, k))
  BY <1>5, <1>7, <1>9
<1>11. Between(q, hld, H, X) /\ Frame(m, q)
  BY <1>8, <1>10, BetweenLayers
<1>12. get_highest_layer(q) \in Layers /\ a.layer \in Layers
  BY <1>6, HighestIs DEF Actions
<1>13. CASE a.kind = "LAYER_LOCK"
  <2> DEFINE i == layer_lock_invert(q, get_highest_layer(q))
  <2>1. r = [m |-> IF pressed THEN i ELSE q, goes_on |-> FALSE]
    BY <1>1, <1>13
  <2>2. Between(i, hld, H, X) /\ Frame(q, i)
    BY <1>11, <1>12, InvertIs
  <2> HIDE DEF i
  <2>3. r.m = (IF pressed THEN i ELSE q) /\ r.goes_on = FALSE
    BY <2>1
  <2>4. Between(r.m, hld, H, X) /\ Frame(q, r.m)
    BY <2>2, <2>3, <1>11 DEF Frame
  <2>5. ~pressed => LetsPass(m, r, a, count)
    BY <2>3, <1>5, <1>7 DEF LetsPass
  <2> QED BY <2>3, <2>4, <2>5, <1>11, <1>13 DEF Frame, Looked
<1>14. CASE a.kind = "ON_OFF" /\ a.layer \in q.locked_layers
  <2> DEFINE i == layer_lock_invert(q, a.layer)
  <2>1. r = [m |-> IF pressed THEN i ELSE q, goes_on |-> FALSE]
    BY <1>1, <1>14
  <2>2. Between(i, hld, H, X) /\ Frame(q, i)
    BY <1>11, <1>12, InvertIs
  <2> HIDE DEF i
  <2>3. r.m = (IF pressed THEN i ELSE q) /\ r.goes_on = FALSE
    BY <2>1
  <2>4. Between(r.m, hld, H, X) /\ Frame(q, r.m)
    BY <2>2, <2>3, <1>11 DEF Frame
  <2>5. ~pressed => LetsPass(m, r, a, count)
    BY <2>3, <1>5, <1>7 DEF LetsPass
  <2> QED BY <2>3, <2>4, <2>5, <1>11, <1>14 DEF Frame, Looked
<1>15. CASE a.kind = "LAYER_TAP" /\ a.layer \in q.locked_layers /\ ~pressed /\ count = 0
  <2>1. r = [m |-> q, goes_on |-> FALSE]
    BY <1>1, <1>15
  <2>2. LetsPass(m, r, a, count)
    BY <2>1, <1>5, <1>7 DEF LetsPass
  <2> QED BY <2>1, <2>2, <1>11, <1>15 DEF Looked
<1>16. CASE /\ a.kind # "LAYER_LOCK" /\ ~(a.kind = "ON_OFF" /\ a.layer \in q.locked_layers)
            /\ ~(a.kind = "LAYER_TAP" /\ a.layer \in q.locked_layers /\ ~pressed /\ count = 0)
  <2>1. r = [m |-> q, goes_on |-> TRUE]
    BY <1>1, <1>16
  <2>2. ~pressed => LetsPass(m, r, a, count)
    BY <2>1, <1>5, <1>7, <1>16 DEF LetsPass, ChangesLayers
  <2> QED BY <2>1, <2>2, <1>11, <1>16, <1>7 DEF Looked
<1> QED BY <1>13, <1>14, <1>15, <1>16

\* OS_TOGG may be pressed: only keys like it are held, and no one-shot layer is on.
Toggleable(m, H) ==
  m.layer_data.state = {} /\ \A k \in H : HeldIn(m, k).kind = "ONESHOT_TOGGLE"

\* The same of process_record_quantum, which adds OS_TOGG.
LEMMA QuantumIs ==
  ASSUME NEW m, NEW hld, NEW H, NEW X, Between(m, hld, H, X), NEW a \in Actions,
         NEW pressed \in BOOLEAN, NEW count, NEW r, r = Quantum(m, a, pressed, count),
         a.kind = "ONESHOT_TOGGLE" /\ pressed => Toggleable(m, H)
  PROVE  /\ Between(r.m, hld, H, X) /\ Looked(m, r, a, pressed, count)
         /\ r.m.kb.cache = m.kb.cache
         /\ r.goes_on => Frame(m, r.m) /\ a.kind # "ONESHOT_TOGGLE"
         /\ ~pressed => Frame(m, r.m) /\ LetsPass(m, r, a, count)
<1> DEFINE s == process_layer_lock(m, a, pressed, count)
           p(v) == IF v.goes_on /\ a.kind = "ONESHOT_TOGGLE"
                   THEN [m |-> IF pressed THEN oneshot_toggle(v.m) ELSE v.m, goes_on |-> FALSE] ELSE v
<1>1. r = p(s)
  <2>1. \A v : After(v, LAMBDA n : p(n)) = p(v)
    BY DEF After
  <2> QED BY <2>1 DEF Quantum
<1>2. /\ Between(s.m, hld, H, X) /\ Frame(m, s.m) /\ Looked(m, s, a, pressed, count)
      /\ ~pressed => LetsPass(m, s, a, count)
      /\ a.kind = "ONESHOT_TOGGLE" => s.m.kb = m.kb /\ s.m.layer_data = m.layer_data
  BY LayerLockIs
<1> HIDE DEF s
<1>3. CASE s.goes_on /\ a.kind = "ONESHOT_TOGGLE" /\ pressed
  <2> DEFINE o == oneshot_toggle(s.m)
  <2>1. \A k \in H : HeldIn(s.m, k).kind = "ONESHOT_TOGGLE"
    BY <1>2, <1>3 DEF HeldIn, Toggleable
  <2>2. Between(o, hld, H, X) /\ o.kb = s.m.kb
    BY <1>2, <1>3, <2>1, ToggleIs DEF Toggleable
  <2>3. r = [m |-> o, goes_on |-> FALSE]
    BY <1>1, <1>3
  <2> HIDE DEF o
  <2>4. r.m = o /\ r.goes_on = FALSE
    BY <2>3
  <2> QED BY <2>2, <2>4, <1>2, <1>3 DEF Looked
<1>4. CASE s.goes_on /\ a.kind = "ONESHOT_TOGGLE" /\ ~pressed
  <2>1. r = [m |-> s.m, goes_on |-> FALSE]
    BY <1>1, <1>4
  <2>2. r.m = s.m /\ r.goes_on = FALSE
    BY <2>1
  <2>3. LetsPass(m, r, a, count)
    BY <2>2, <1>2, <1>4 DEF LetsPass
  <2> QED BY <2>2, <2>3, <1>2, <1>4 DEF Looked, Frame
<1>5. CASE ~(s.goes_on /\ a.kind = "ONESHOT_TOGGLE")
  <2>1. r = s
    BY <1>1, <1>5
  <2> QED BY <2>1, <1>2, <1>5 DEF Looked, Frame
<1>6. s.goes_on \in BOOLEAN
  BY <1>2 DEF Looked
<1> QED BY <1>3, <1>4, <1>5

\* The key holds nothing down any more, though it is still recorded as held.
Freed(m, hld, key, X) ==
  /\ \A c \in m.kb.keys : ~OwnsCode(m, hld, key, c)
  /\ \A x \in m.kb.mods : ~OwnsMod(m, hld, key, x) \/ x \in m.oneshot_locked_mods
  /\ \A l \in m.kb.layers \ X : ~OwnsLayer(m, hld, key, l) \/ l \in m.locked_layers

\* A key that holds nothing down can be taken off the owners.
LEMMA DropKey ==
  ASSUME NEW m, NEW hld, NEW H, NEW X, NEW key, Between(m, hld, H, X), Freed(m, hld, key, X)
  PROVE  Between(m, hld, H \ {key}, X)
<1>1. KeysInv(m, hld, H \ {key})
  BY DEF Between, KeysInv, Freed
<1>2. ModsInv(m, hld, H \ {key})
  BY DEF Between, ModsInv, Freed
<1>3. OneOneshotLayer => LayersInv(m, hld, H \ {key}, X)
  BY DEF Between, LayersInv, Freed
<1> QED BY <1>1, <1>2, <1>3 DEF Between

\* With more keys held, and the counts of those that were held unchanged.
LEMMA MoreHeld ==
  ASSUME NEW m, NEW hld, NEW nhld, NEW H, NEW G, NEW X, Between(m, hld, H, X), H \subseteq G,
         \A key \in H : nhld[key] = hld[key]
  PROVE  Between(m, nhld, G, X)
<1>1. \A key \in H : /\ \A c : OwnsCode(m, hld, key, c) => OwnsCode(m, nhld, key, c)
                     /\ \A c : OwnsMod(m, hld, key, c) => OwnsMod(m, nhld, key, c)
                     /\ \A c : OwnsLayer(m, hld, key, c) => OwnsLayer(m, nhld, key, c)
  BY DEF OwnsCode, OwnsMod, OwnsLayer
<1>2. KeysInv(m, nhld, G)
  BY <1>1 DEF Between, KeysInv
<1>3. ModsInv(m, nhld, G)
  BY <1>1 DEF Between, ModsInv
<1>4. OneOneshotLayer => LayersInv(m, nhld, G, X)
  BY <1>1 DEF Between, LayersInv
<1> QED BY <1>2, <1>3, <1>4 DEF Between

\* A change of modifiers, and of nothing about keys and layers.
ModsOnly(m, n) ==
  /\ n \in States /\ UsedInv(n)
  /\ n.kb.keys = m.kb.keys /\ n.kb.layers = m.kb.layers /\ n.kb.cache = m.kb.cache
  /\ n.layer_data = m.layer_data /\ n.locked_layers = m.locked_layers
  /\ n.oneshot_enable = m.oneshot_enable /\ n.locked_with = m.locked_with

\* A change of modifiers keeps the invariant if each has an owner or is locked.
LEMMA BetweenMods ==
  ASSUME NEW m, NEW n, NEW hld, NEW H, NEW X, Between(m, hld, H, X), ModsOnly(m, n),
         \A x \in n.kb.mods : \/ x \in n.oneshot_locked_mods
                              \/ x \in m.kb.mods /\ x \notin m.oneshot_locked_mods
                              \/ \E key \in H : OwnsMod(m, hld, key, x)
  PROVE  Between(n, hld, H, X) /\ Frame(m, n)
<1>1. Frame(m, n)
  BY DEF ModsOnly, Frame
<1>2. KeysInv(n, hld, H)
  BY <1>1, FrameKeys DEF ModsOnly, Between
<1>3. ModsInv(n, hld, H)
  BY <1>1, FrameOwns DEF Between, ModsInv
<1>4. ASSUME OneOneshotLayer PROVE LayersInv(n, hld, H, X)
  <2>1. LayersInv(m, hld, H, X)
    BY <1>4 DEF Between
  <2>2. \A l : IsOneshot(m, l) => IsOneshot(n, l)
    BY DEF IsOneshot, ModsOnly
  <2> QED BY <2>1, <2>2, <1>1, FrameLayers DEF ModsOnly
<1>5. OneshotInv(n)
  BY DEF OneshotInv, ModsOnly, Between
<1> QED BY <1>1, <1>2, <1>3, <1>4, <1>5 DEF Between, ModsOnly

\* n is m with S as the modifiers held down, after a report.
SentMods(m, n, S) ==
  ModsOnly(m, n) /\ n.kb.mods = S /\ n.oneshot_locked_mods = m.oneshot_locked_mods

\* Assigning the modifiers and reporting them changes modifiers only.
LEMMA SendModsIs ==
  ASSUME NEW m \in States, UsedInv(m), NEW S \in SUBSET Mods,
         NEW n, n = send_keyboard_report([m EXCEPT !.kb.mods = S])
  PROVE  SentMods(m, n, S)
<1> DEFINE k == [m.kb EXCEPT !.mods = S]
           o == [m EXCEPT !.kb.mods = S]
<1>1. m.kb \in KeyboardStates
  BY StateTypes
<1>2. k \in KeyboardStates /\ k.keys = m.kb.keys /\ k.mods = S /\ k.cache = m.kb.cache
      /\ k.layers = m.kb.layers
  BY <1>1 DEF KeyboardStates
<1>3. o = [m EXCEPT !.kb = k]
  OBVIOUS
<1> HIDE DEF k, o
<1>4. o \in States
  BY <1>2, <1>3 DEF States
<1>5. o.kb = k /\ o.layer_data = m.layer_data /\ o.locked_layers = m.locked_layers
      /\ o.locked_with = m.locked_with
      /\ o.oneshot_mods = m.oneshot_mods /\ o.oneshot_locked_mods = m.oneshot_locked_mods
      /\ o.oneshot_enable = m.oneshot_enable /\ o.armed = m.armed /\ o.typed = m.typed
      /\ o.old = m.old
  BY <1>3 DEF States
<1>6. UsedInv(o)
  BY <1>5 DEF UsedInv
<1>7. Sent(o, n)
  <2>1. n = send_keyboard_report(o)
    BY DEF o
  <2> QED BY <2>1, <1>4, <1>6, SendIs
<1> QED BY <1>2, <1>5, <1>7 DEF Sent, SentMods, ModsOnly, ReportOnly

\* register_mods adds modifiers.
LEMMA RegisterModsIs ==
  ASSUME NEW m \in States, UsedInv(m), NEW mods \in SUBSET Mods, NEW n, n = register_mods(m, mods)
  PROVE  SentMods(m, n, m.kb.mods \cup mods)
<1>1. n = send_keyboard_report([m EXCEPT !.kb.mods = m.kb.mods \cup mods])
  BY DEF register_mods
<1>2. m.kb.mods \cup mods \in SUBSET Mods
  BY StateTypes
<1> QED BY <1>1, <1>2, SendModsIs

\* unregister_mods removes them.
LEMMA UnregisterModsIs ==
  ASSUME NEW m \in States, UsedInv(m), NEW mods \in SUBSET Mods, NEW n, n = unregister_mods(m, mods)
  PROVE  SentMods(m, n, m.kb.mods \ mods)
<1>1. n = send_keyboard_report([m EXCEPT !.kb.mods = m.kb.mods \ mods])
  BY DEF unregister_mods
<1>2. m.kb.mods \ mods \in SUBSET Mods
  BY StateTypes
<1> QED BY <1>1, <1>2, SendModsIs

\* The one-shot modifier becomes pending, or is no longer, and may be locked.
LEMMA AddModsIs ==
  ASSUME NEW m \in States, UsedInv(m), NEW mods \in SUBSET Mods,
         NEW n, n = [add_oneshot_mods(m, mods) EXCEPT !.armed = @ \cup mods]
  PROVE  n \in States /\ UsedInv(n) /\ ReportOnly(m, n)
<1> DEFINE o == add_oneshot_mods(m, mods)
           S == m.oneshot_mods \cup mods
           old == m.old \ {"mods"}
<1>1. CASE mods \subseteq m.oneshot_mods
  <2>1. n = [m EXCEPT !.armed = m.armed \cup mods]
    BY <1>1 DEF add_oneshot_mods
  <2>2. n \in States
    BY <2>1 DEF States
  <2>3. UsedInv(n) /\ ReportOnly(m, n)
    BY <2>1 DEF States, UsedInv, ReportOnly
  <2> QED BY <2>2, <2>3
<1>2. CASE ~(mods \subseteq m.oneshot_mods)
  <2>1. n = [m EXCEPT !.oneshot_mods = S, !.old = old, !.armed = m.armed \cup mods]
    <3>1. o = [m EXCEPT !.oneshot_mods = S, !.old = old]
      BY <1>2 DEF add_oneshot_mods
    <3>2. o.armed = m.armed
      BY <3>1 DEF States
    <3>3. n = [o EXCEPT !.armed = m.armed \cup mods]
      BY <3>2
    <3> HIDE DEF o, S, old
    <3> QED BY <3>1, <3>3
  <2>2. S \in SUBSET Mods /\ old \in SUBSET Timers
    BY StateTypes
  <2>3. n \in States
    <3> HIDE DEF S, old
    <3> QED BY <2>1, <2>2, ZenonT(60) DEF States
  <2>4. n.oneshot_mods = S /\ n.old = old /\ n.armed = m.armed \cup mods /\ n.typed = m.typed
        /\ ReportOnly(m, n)
    <3> HIDE DEF S, old
    <3> QED BY <2>1 DEF States, ReportOnly
  <2>5. UsedInv(n)
    BY <2>4 DEF UsedInv
  <2> QED BY <2>3, <2>4, <2>5
<1> QED BY <1>1, <1>2

\* The pending modifiers without mods, and L locked.
Deleted(m, mods, L) == [del_oneshot_mods(m, mods) EXCEPT !.oneshot_locked_mods = L]

\* del_oneshot_mods and the assignment of the locked modifiers after it.
LEMMA DelModsIs ==
  ASSUME NEW m \in States, UsedInv(m), NEW mods \in SUBSET Mods, NEW L \in SUBSET Mods,
         NEW n, n = Deleted(m, mods, L)
  PROVE  /\ ModsOnly(m, n) /\ n.kb = m.kb /\ n.oneshot_locked_mods = L
<1> DEFINE S == m.oneshot_mods \ mods
           R == m.armed \ mods
           old == IF mods \cap m.oneshot_mods = {} THEN m.old ELSE m.old \ {"mods"}
           o == del_oneshot_mods(m, mods)
<1>1. o = [m EXCEPT !.oneshot_mods = S, !.armed = R, !.old = old]
  BY DEF del_oneshot_mods
<1>2. n = [o EXCEPT !.oneshot_locked_mods = L]
  BY DEF Deleted
<1>3. S \in SUBSET Mods /\ R \in SUBSET Mods /\ old \in SUBSET Timers
  <2>1. m.armed \in SUBSET Mods
    BY DEF States
  <2> QED BY <2>1, StateTypes
<1>4. S \subseteq R /\ ("mods" \in old => S # {})
  BY DEF UsedInv
<1> HIDE DEF S, R, old, o
<1>5. n = [m EXCEPT !.oneshot_mods = S, !.armed = R, !.old = old, !.oneshot_locked_mods = L]
  BY <1>1, <1>2 DEF States
<1>6. n \in States
  BY <1>3, <1>5 DEF States
<1>7. /\ n.kb = m.kb /\ n.layer_data = m.layer_data /\ n.locked_layers = m.locked_layers
      /\ n.locked_with = m.locked_with /\ n.oneshot_mods = S /\ n.oneshot_locked_mods = L
      /\ n.oneshot_enable = m.oneshot_enable /\ n.armed = R /\ n.typed = m.typed
      /\ n.old = old
  BY <1>5 DEF States
<1>8. UsedInv(n)
  BY <1>4, <1>7 DEF UsedInv
<1> QED BY <1>6, <1>7, <1>8 DEF ModsOnly

\* key is held down as a, with count.
Holds(m, hld, H, key, a, count) ==
  key \in H /\ HeldIn(m, key) = a /\ hld[key] = count /\ key \in Keys

\* An OSM key: every modifier it registers is its own or locked, and its release frees it.
LEMMA OneshotModsIs ==
  ASSUME NEW m, NEW hld, NEW H, NEW X, Between(m, hld, H, X), NEW a \in Actions,
         a.kind = "ONESHOT_MODS", NEW key, NEW count \in Nat, Holds(m, hld, H, key, a, count),
         NEW pressed \in BOOLEAN, NEW n, n = oneshot_mods_key(m, a, pressed, count)
  PROVE  /\ Between(n, hld, H, X) /\ Frame(m, n) /\ (~pressed => Freed(n, hld, key, X))
         /\ n.kb.layers = m.kb.layers
<1> DEFINE mods == {a.mod}
           reg == register_mods(m, mods)
           unreg == unregister_mods(m, mods)
<1>1. m \in States /\ UsedInv(m) /\ mods \in SUBSET Mods
  BY DEF Between, Actions
<1>2. SentMods(m, reg, m.kb.mods \cup mods)
  BY <1>1, RegisterModsIs
<1>3. SentMods(m, unreg, m.kb.mods \ mods)
  BY <1>1, UnregisterModsIs
<1>4. Between(unreg, hld, H, X) /\ Frame(m, unreg)
  <2> HIDE DEF unreg
  <2>1. ModsInv(m, hld, H)
    BY DEF Between
  <2> QED BY <1>3, <2>1, BetweenMods DEF SentMods, ModsInv
<1>5. ASSUME NEW o, o.kb.mods = m.kb.mods \ mods, Frame(m, o)
      PROVE  Freed(o, hld, key, X)
  <2>1. HeldIn(o, key) = a
    BY <1>5, FrameOwns DEF Holds
  <2> QED BY <1>5, <2>1 DEF Freed, OwnsCode, OwnsMod, OwnsLayer, Registers, is_tap_action
<1>6. (count = 0 \/ ~m.oneshot_enable) => OwnsMod(m, hld, key, a.mod)
  BY DEF Holds, OwnsMod
<1>7. (count = 0 \/ ~m.oneshot_enable) => Between(reg, hld, H, X) /\ Frame(m, reg)
  <2> HIDE DEF reg
  <2>1. ModsInv(m, hld, H) /\ key \in H
    BY DEF Between, Holds
  <2> QED BY <1>2, <1>6, <2>1, BetweenMods, SMTT(30) DEF SentMods, ModsInv
<1>8. m.oneshot_enable \in BOOLEAN
  BY <1>1, StateTypes
<1>12. reg.kb.layers = m.kb.layers /\ unreg.kb.layers = m.kb.layers
  BY <1>2, <1>3 DEF SentMods, ModsOnly
<1>9. CASE ~m.oneshot_enable
  <2>1. n = IF pressed THEN reg ELSE unreg
    BY <1>9 DEF oneshot_mods_key
  <2> HIDE DEF reg, unreg
  <2>2. CASE pressed
    BY <2>1, <2>2, <1>7, <1>9, <1>12
  <2>3. CASE ~pressed
    <3>1. n = unreg
      BY <2>1, <2>3
    <3> QED BY <3>1, <1>3, <1>4, <1>5, <1>12 DEF SentMods
  <2> QED BY <2>2, <2>3
<1>10. CASE m.oneshot_enable /\ pressed
  <2>1. CASE count = 0
    <3>1. n = reg
      BY <1>10, <2>1 DEF oneshot_mods_key
    <3> QED BY <3>1, <2>1, <1>7, <1>10, <1>12
  <2>2. CASE count = 1
    <3>1. n = [add_oneshot_mods(m, mods) EXCEPT !.armed = @ \cup mods]
      BY <1>10, <2>2 DEF oneshot_mods_key
    <3>2. n \in States /\ UsedInv(n) /\ ReportOnly(m, n)
      BY <3>1, <1>1, AddModsIs
    <3> QED BY <3>2, <1>10, BetweenReport DEF ReportOnly
  <2>3. CASE count > 1 /\ count = build.ONESHOT_TAP_TOGGLE
    <3> DEFINE L == reg.oneshot_locked_mods \cup mods
    <3>1. n = Deleted(reg, mods, L)
      <4>1. n = [del_oneshot_mods(reg, mods) EXCEPT !.oneshot_locked_mods = @ \cup mods]
        BY <1>10, <2>3 DEF oneshot_mods_key
      <4>2. del_oneshot_mods(reg, mods).oneshot_locked_mods = reg.oneshot_locked_mods
        <5>1. reg \in States
          BY <1>2 DEF SentMods, ModsOnly
        <5> HIDE DEF reg
        <5> QED BY <5>1 DEF del_oneshot_mods, States
      <4> QED BY <4>1, <4>2 DEF Deleted
    <3>2. reg \in States /\ UsedInv(reg) /\ L \in SUBSET Mods
      <4>1. reg \in States /\ UsedInv(reg)
        BY <1>2 DEF SentMods, ModsOnly
      <4> HIDE DEF reg
      <4> QED BY <4>1, <1>1, StateTypes
    <3> HIDE DEF reg, L
    <3>3. ModsOnly(reg, n) /\ n.kb = reg.kb /\ n.oneshot_locked_mods = L
      <4>1. mods \in SUBSET Mods
        BY <1>1
      <4> HIDE DEF mods
      <4> QED BY <3>1, <3>2, <4>1, DelModsIs
    <3>4. ModsOnly(m, n) /\ n.kb.mods = m.kb.mods \cup mods
          /\ n.oneshot_locked_mods = m.oneshot_locked_mods \cup mods
      BY <3>3, <1>2 DEF ModsOnly, SentMods, L
    <3>5. Between(n, hld, H, X) /\ Frame(m, n)
      BY <3>4, BetweenMods
    <3>6. n.kb.layers = m.kb.layers
      BY <3>4 DEF ModsOnly
    <3> QED BY <3>5, <3>6, <1>10
  <2>4. CASE count # 0 /\ count # 1 /\ ~(count > 1 /\ count = build.ONESHOT_TAP_TOGGLE)
    <3>1. n = m
      BY <1>10, <2>4 DEF oneshot_mods_key
    <3> QED BY <3>1, <1>10 DEF Frame
  <2> QED BY <2>1, <2>2, <2>3, <2>4
<1>11. CASE m.oneshot_enable /\ ~pressed
  <2> DEFINE L == unreg.oneshot_locked_mods \ mods
             ends == count = 0 \/ (build.ONESHOT_TAP_TOGGLE > 1 /\ count = 1 /\ a.mod \in m.kb.mods)
  <2>1. CASE ends
    <3>1. n = Deleted(unreg, mods, L)
      <4>1. n = [del_oneshot_mods(unreg, mods) EXCEPT !.oneshot_locked_mods = @ \ mods]
        BY <1>11, <2>1 DEF oneshot_mods_key
      <4>2. del_oneshot_mods(unreg, mods).oneshot_locked_mods = unreg.oneshot_locked_mods
        <5>1. unreg \in States
          BY <1>3 DEF SentMods, ModsOnly
        <5> HIDE DEF unreg
        <5> QED BY <5>1 DEF del_oneshot_mods, States
      <4> QED BY <4>1, <4>2 DEF Deleted
    <3>2. unreg \in States /\ UsedInv(unreg) /\ L \in SUBSET Mods
      <4>1. unreg \in States /\ UsedInv(unreg)
        BY <1>3 DEF SentMods, ModsOnly
      <4> HIDE DEF unreg
      <4> QED BY <4>1, <1>1, StateTypes
    <3> HIDE DEF unreg, L
    <3>3. ModsOnly(unreg, n) /\ n.kb = unreg.kb /\ n.oneshot_locked_mods = L
      <4>1. mods \in SUBSET Mods
        BY <1>1
      <4> HIDE DEF mods
      <4> QED BY <3>1, <3>2, <4>1, DelModsIs
    <3>4. ModsOnly(m, n) /\ n.kb.mods = m.kb.mods \ mods
          /\ n.oneshot_locked_mods = m.oneshot_locked_mods \ mods
      BY <3>3, <1>3 DEF ModsOnly, SentMods, L
    <3>5. Between(n, hld, H, X) /\ Frame(m, n)
      <4>1. ModsInv(m, hld, H)
        BY DEF Between
      <4> QED BY <3>4, <4>1, BetweenMods DEF ModsInv
    <3> QED BY <3>4, <3>5, <1>5 DEF ModsOnly
  <2>2. CASE ~ends
    <3>1. n = m
      BY <1>11, <2>2 DEF oneshot_mods_key
    <3>2. Freed(m, hld, key, X)
      BY <2>2, <1>11 DEF Holds, Freed, OwnsCode, OwnsMod, OwnsLayer, Registers, is_tap_action
    <3> QED BY <3>1, <3>2 DEF Frame
  <2> QED BY <2>1, <2>2
<1> QED BY <1>8, <1>9, <1>10, <1>11

\* An OSL key: the layer it switches on is the one-shot layer, or its own while one-shot
\* keys are disabled.
LEMMA OneshotLayerIs ==
  ASSUME NEW m, NEW hld, NEW H, NEW X, Between(m, hld, H, X), NEW a \in Actions,
         a.kind = "ONESHOT_LAYER", a.layer \in OneshotLayers,
         NEW key, NEW count \in Nat, Holds(m, hld, H, key, a, count),
         NEW pressed \in BOOLEAN, NEW n, n = oneshot_layer_key(m, a, pressed, count),
         build.ONESHOT_TAP_TOGGLE \in Nat
  PROVE  /\ Between(n, hld, H, X) /\ Frame(m, n) /\ (~pressed => Freed(n, hld, key, X))
         /\ ~pressed /\ m.oneshot_enable => \A x \in m.kb.layers : ~IsOneshot(m, x) => x \in n.kb.layers
         /\ pressed /\ m.oneshot_enable /\ build.ONESHOT_TAP_TOGGLE <= 1 => PRESSED \in n.layer_data.state
<1> DEFINE toggle == build.ONESHOT_TAP_TOGGLE
           clear == clear_oneshot_layer_state(m, PRESSED)
           l == a.layer
<1>1. m.oneshot_enable \in BOOLEAN /\ l \in Layers /\ m \in States
  BY OneshotLayersIs, StateTypes DEF Between
<1>2. Between(clear, hld, H, X) /\ Frame(m, clear) /\ KeepsOn(m, clear)
  BY ClearLayerIs
<1>3. ASSUME NEW o, Frame(m, o), m.oneshot_enable \/ l \notin o.kb.layers
      PROVE  Freed(o, hld, key, X)
  <2>1. HeldIn(o, key) = a /\ (m.oneshot_enable <=> o.oneshot_enable)
    BY <1>3, FrameOwns DEF Holds, Frame
  <2> QED BY <1>3, <2>1 DEF Freed, OwnsCode, OwnsMod, OwnsLayer, Registers, is_tap_action
<1>4. ASSUME NEW s \in (SUBSET {PRESSED, OTHER_KEY_PRESSED}) \cup {{TOGGLED}}, s # {}, m.oneshot_enable,
             NEW o, o = set_oneshot_layer(m, l, s)
      PROVE  Between(o, hld, H, X) /\ Frame(m, o) /\ o.layer_data = [layer |-> l, state |-> s]
             /\ o.kb.layers = m.kb.layers \cup {l}
  BY <1>4, SetOneshotIs
<1> DEFINE both == {PRESSED, OTHER_KEY_PRESSED}
           Bits == (SUBSET {PRESSED, OTHER_KEY_PRESSED}) \cup {{TOGGLED}}
<1>0. both \in Bits /\ both # {} /\ {TOGGLED} \in Bits /\ {TOGGLED} # {} /\ PRESSED \in both
  OBVIOUS
<1>5. CASE ~m.oneshot_enable
  <2>1. CASE pressed
    <3>1. n = layer_on(m, l)
      BY <1>5, <2>1 DEF oneshot_layer_key
    <3>2. Between(n, hld, H, X \cup {l}) /\ Frame(m, n)
      BY <3>1, <1>1, LayerOnIs
    <3>3. OwnsLayer(n, hld, key, l) /\ key \in H
      <4>1. HeldIn(n, key) = a /\ ~n.oneshot_enable
        BY <3>2, <1>5, FrameOwns DEF Holds, Frame
      <4> QED BY <4>1 DEF OwnsLayer, Holds
    <3>4. OneOneshotLayer => LayersInv(n, hld, H, X)
      BY <3>2, <3>3 DEF LayersInv, Between
    <3>5. Between(n, hld, H, X)
      BY <3>2, <3>4 DEF Between
    <3> QED BY <3>2, <3>5, <1>5, <2>1
  <2>2. CASE ~pressed
    <3>1. n = layer_off(m, l)
      BY <1>5, <2>2 DEF oneshot_layer_key
    <3>2. Between(m, hld, H, X \cup {l})
      BY BetweenMore
    <3>3. Between(n, hld, H, X) /\ Frame(m, n) /\ WithLayers(m, n, m.kb.layers \ {l})
      BY <3>1, <3>2, LayerOffIs
    <3>4. l \notin n.kb.layers
      BY <3>3 DEF WithLayers
    <3> QED BY <3>3, <3>4, <1>3, <1>5, <2>2
  <2> QED BY <2>1, <2>2
<1>6. CASE m.oneshot_enable /\ pressed /\ toggle > 1 /\ m.layer_data.state = {TOGGLED}
  <2> DEFINE o == reset_oneshot_layer(m)
  <2>1. n = layer_off(o, l)
    BY <1>6 DEF oneshot_layer_key
  <2>2. Between(m, hld, H, X \cup {m.layer_data.layer})
    BY BetweenMore
  <2>3. Between(o, hld, H, X \cup {m.layer_data.layer}) /\ Frame(m, o)
    BY <2>2, ResetIs
  <2> HIDE DEF o
  <2>4. Between(o, hld, H, X \cup {l})
    <3>1. OneOneshotLayer => m.layer_data.layer = l
      BY <1>6 DEF Between, OneshotInv, OneOneshotLayer
    <3> QED BY <2>3, <3>1 DEF Between
  <2>5. Between(n, hld, H, X) /\ Frame(o, n)
    BY <2>1, <2>4, LayerOffIs
  <2>6. Frame(m, n)
    BY <2>3, <2>5 DEF Frame
  <2>7. ~(toggle <= 1)
    BY <1>6
  <2> QED BY <2>5, <2>6, <2>7, <1>6
<1>7. CASE m.oneshot_enable /\ pressed /\ toggle > 1 /\ m.layer_data.state # {TOGGLED}
  <2>1. CASE count < toggle
    <3>1. n = set_oneshot_layer(m, l, both)
      BY <1>7, <2>1 DEF oneshot_layer_key
    <3> HIDE DEF both
    <3>2. Between(n, hld, H, X) /\ Frame(m, n)
      BY <3>1, <1>0, <1>4, <1>7
    <3>3. ~(toggle <= 1)
      BY <1>7
    <3> QED BY <3>2, <3>3, <1>7
  <2>2. CASE ~(count < toggle)
    <3>1. n = m
      BY <1>7, <2>2 DEF oneshot_layer_key
    <3> QED BY <3>1, <1>7 DEF Frame
  <2> QED BY <2>1, <2>2
<1>8. CASE m.oneshot_enable /\ ~pressed /\ toggle > 1
  <2>1. CASE count >= toggle
    <3>1. n = set_oneshot_layer(m, l, {TOGGLED})
      BY <1>8, <2>1 DEF oneshot_layer_key
    <3>2. Between(n, hld, H, X) /\ Frame(m, n) /\ n.kb.layers = m.kb.layers \cup {l}
      BY <3>1, <1>0, <1>4, <1>8
    <3> QED BY <3>2, <1>3, <1>8
  <2>2. CASE ~(count >= toggle)
    <3>1. n = clear
      BY <1>8, <2>2 DEF oneshot_layer_key
    <3> QED BY <3>1, <1>2, <1>3, <1>8 DEF KeepsOn
  <2> QED BY <2>1, <2>2
<1>9. CASE m.oneshot_enable /\ pressed /\ ~(toggle > 1)
  <2>1. n = set_oneshot_layer(m, l, both)
    BY <1>9 DEF oneshot_layer_key
  <2>2. Between(n, hld, H, X) /\ Frame(m, n) /\ n.layer_data = [layer |-> l, state |-> both]
    BY <2>1, <1>4, <1>9
  <2> QED BY <2>2, <1>9
<1>10. CASE m.oneshot_enable /\ ~pressed /\ ~(toggle > 1)
  <2> DEFINE again == clear_oneshot_layer_state(clear, OTHER_KEY_PRESSED)
  <2>1. n = IF count > 1 THEN again ELSE clear
    BY <1>10 DEF oneshot_layer_key
  <2> HIDE DEF clear
  <2>2. Between(again, hld, H, X) /\ Frame(clear, again) /\ KeepsOn(clear, again)
    BY <1>2, ClearLayerIs
  <2> HIDE DEF again
  <2>3. Between(n, hld, H, X) /\ Frame(m, n)
    BY <2>1, <2>2, <1>2 DEF Frame
  <2>4. \A x \in m.kb.layers : ~IsOneshot(m, x) => x \in n.kb.layers
    BY <2>1, <2>2, <1>2 DEF KeepsOn
  <2> QED BY <2>3, <2>4, <1>3, <1>10
<1> QED BY <1>1, <1>5, <1>6, <1>7, <1>8, <1>9, <1>10

\* n is m after process_action on its keyboard: with pressed = FALSE, what a holds
\* down is off.
Processed(m, n, a, pressed, count) ==
  /\ pressed /\ Registers(a, count) => n.kb.keys # {}
  /\ ~pressed /\ Registers(a, count) => a.code \notin n.kb.keys
  /\ ~pressed /\ ChangesMods(a, count) => a.mod \notin n.kb.mods
  /\ ~pressed /\ ChangesLayers(a, count) => a.layer \notin n.kb.layers
  /\ \A l \in m.kb.layers : l \in n.kb.layers \/ (ChangesLayers(a, count) /\ l = a.layer)

\* m after process_action on its keyboard.
WithProcessed(m, a, key, pressed, count) ==
  [m EXCEPT !.kb = process_action(m.kb, a, key, m.kb.cache[key], pressed, count)]

\* process_action on the keyboard: a press owns what it registers, a release frees it.
LEMMA ProcessIs ==
  ASSUME NEW m, NEW hld, NEW H, NEW X, Between(m, hld, H, X), NEW a \in Actions,
         a.kind # "MODS_TAP", NEW key, NEW count, Holds(m, hld, H, key, a, count),
         NEW pressed \in BOOLEAN, NEW n, n = WithProcessed(m, a, key, pressed, count)
  PROVE  Between(n, hld, H, X) /\ Frame(m, n) /\ Processed(m, n, a, pressed, count)
<1> DEFINE k == process_action(m.kb, a, key, m.kb.cache[key], pressed, count)
           keys == IF Registers(a, count) THEN Switch(m.kb.keys, a.code, pressed) ELSE m.kb.keys
           mods == IF ChangesMods(a, count) THEN Switch(m.kb.mods, a.mod, pressed) ELSE m.kb.mods
           layers == IF ChangesLayers(a, count) THEN Switch(m.kb.layers, a.layer, pressed) ELSE m.kb.layers
           cache == IF pressed THEN [m.kb.cache EXCEPT ![key] = m.kb.cache[key]] ELSE m.kb.cache
<1>1. m \in States /\ UsedInv(m) /\ OneshotInv(m) /\ key \in Keys
      /\ a.code \in Codes /\ a.mod \in Mods /\ a.layer \in Layers
  BY DEF Between, Actions, Holds
<1>2. m.kb \in KeyboardStates /\ m.kb.keys \in SUBSET Codes /\ m.kb.mods \in SUBSET Mods
      /\ m.kb.layers \in SUBSET Layers /\ m.kb.cache \in [Keys -> Layers]
  BY <1>1, StateTypes
<1>3. k = [keys |-> keys, mods |-> mods, layers |-> layers, cache |-> cache]
  BY DEF process_action
<1>4. cache = m.kb.cache
  BY <1>2
<1>5. keys \in SUBSET Codes /\ keys \subseteq m.kb.keys \cup {a.code}
      /\ (a.code \in keys /\ a.code \notin m.kb.keys => Registers(a, count))
      /\ (pressed /\ Registers(a, count) => a.code \in keys)
      /\ (~pressed /\ Registers(a, count) => a.code \notin keys)
  BY <1>1, <1>2 DEF Switch
<1>6. mods \in SUBSET Mods /\ mods \subseteq m.kb.mods \cup {a.mod}
      /\ (a.mod \in mods /\ a.mod \notin m.kb.mods => ChangesMods(a, count))
      /\ (~pressed /\ ChangesMods(a, count) => a.mod \notin mods)
  BY <1>1, <1>2 DEF Switch
<1>7. layers \in SUBSET Layers /\ layers \subseteq m.kb.layers \cup {a.layer}
      /\ (a.layer \in layers /\ a.layer \notin m.kb.layers => ChangesLayers(a, count))
      /\ (~pressed /\ ChangesLayers(a, count) => a.layer \notin layers)
      /\ (\A l \in m.kb.layers : l \in layers \/ (ChangesLayers(a, count) /\ l = a.layer))
  BY <1>1, <1>2 DEF Switch
<1>8. n = [m EXCEPT !.kb = k]
  BY DEF WithProcessed
<1> HIDE DEF k, keys, mods, layers, cache
<1>9. k \in KeyboardStates /\ k.keys = keys /\ k.mods = mods /\ k.layers = layers /\ k.cache = m.kb.cache
  BY <1>2, <1>3, <1>4, <1>5, <1>6, <1>7 DEF KeyboardStates
<1>10. n \in States
  BY <1>1, <1>8, <1>9 DEF States
<1>11. /\ n.kb = k /\ n.layer_data = m.layer_data /\ n.locked_layers = m.locked_layers
       /\ n.locked_with = m.locked_with
       /\ n.oneshot_mods = m.oneshot_mods /\ n.oneshot_locked_mods = m.oneshot_locked_mods
       /\ n.armed = m.armed /\ n.typed = m.typed /\ n.old = m.old
       /\ n.oneshot_enable = m.oneshot_enable
  BY <1>1, <1>8 DEF States
<1>12. Frame(m, n) /\ UsedInv(n) /\ OneshotInv(n)
  BY <1>1, <1>9, <1>11 DEF Frame, UsedInv, OneshotInv
<1>13. Registers(a, count) => OwnsCode(m, hld, key, a.code)
  BY DEF OwnsCode, Holds
<1>14. ChangesMods(a, count) => OwnsMod(m, hld, key, a.mod)
  BY DEF OwnsMod, Holds, ChangesMods
<1>15. ChangesLayers(a, count) => OwnsLayer(m, hld, key, a.layer)
  BY DEF OwnsLayer, Holds, ChangesLayers
<1>16. key \in H
  BY DEF Holds
<1>17. KeysInv(n, hld, H)
  <2> SUFFICES ASSUME NEW c \in keys PROVE \E j \in H : OwnsCode(m, hld, j, c)
    BY <1>9, <1>11, <1>12, FrameOwns DEF KeysInv
  <2> QED BY <1>5, <1>13, <1>16 DEF Between, KeysInv
<1>18. ModsInv(n, hld, H)
  <2> SUFFICES ASSUME NEW x \in mods
               PROVE  x \in m.oneshot_locked_mods \/ \E j \in H : OwnsMod(m, hld, j, x)
    BY <1>9, <1>11, <1>12, FrameOwns DEF ModsInv
  <2> QED BY <1>6, <1>14, <1>16 DEF Between, ModsInv
<1>19. ASSUME OneOneshotLayer PROVE LayersInv(n, hld, H, X)
  <2>1. \A l : IsOneshot(m, l) <=> IsOneshot(n, l)
    BY <1>11 DEF IsOneshot
  <2> SUFFICES ASSUME NEW l \in layers \ X
               PROVE  l \in m.locked_layers \/ IsOneshot(m, l) \/ \E j \in H : OwnsLayer(m, hld, j, l)
    BY <1>9, <1>11, <1>12, <2>1, FrameOwns DEF LayersInv
  <2>2. LayersInv(m, hld, H, X)
    BY <1>19 DEF Between
  <2> QED BY <1>7, <1>15, <1>16, <2>2 DEF LayersInv
<1>20. Processed(m, n, a, pressed, count)
  BY <1>5, <1>6, <1>7, <1>9, <1>11 DEF Processed
<1> QED BY <1>10, <1>12, <1>17, <1>18, <1>19, <1>20 DEF Between

\* A key typed is one more record of typed, and uses up what was armed.
LEMMA TypedIs ==
  ASSUME NEW m \in States, UsedInv(m), m.kb.keys # {},
         NEW n, n = Typed(mods_timeout(m), send_keyboard_report(m))
  PROVE  n \in States /\ UsedInv(n) /\ ReportOnly(m, n)
<1> DEFINE t == mods_timeout(m)
           s == send_keyboard_report(m)
           T == {[mods |-> s.host, real |-> t.kb.mods, armed |-> t.armed]}
<1>1. t \in States /\ UsedInv(t) /\ ReportOnly(m, t)
  BY ModsTimeoutIs
<1>2. Sent(m, s)
  BY SendIs
<1>3. n = [s EXCEPT !.typed = T, !.armed = {}]
  BY DEF Typed
<1> HIDE DEF s
<1>4. s.host = m.kb.mods \cup t.oneshot_mods /\ s \in States /\ UsedInv(s) /\ ReportOnly(m, s)
      /\ s.oneshot_mods = {}
  BY <1>2 DEF Sent
<1> HIDE DEF t
<1>5. s.host \in SUBSET Mods /\ t.armed \in SUBSET Mods /\ t.kb.mods \in SUBSET Mods
  <2>1. s.host \in SUBSET Mods /\ t.armed \in SUBSET Mods
    BY <1>1, <1>4 DEF States
  <2> QED BY <2>1, <1>1, StateTypes
<1>6. T \in SUBSET Typing
  BY <1>5 DEF Typing
<1>7. \A u \in T : u.mods \subseteq u.real \cup u.armed
  BY <1>1, <1>4 DEF UsedInv, ReportOnly
<1> HIDE DEF T
<1>8. n \in States
  BY <1>3, <1>4, <1>6 DEF States
<1>9. n.typed = T /\ n.oneshot_mods = {} /\ n.old = s.old /\ ReportOnly(s, n)
  BY <1>3, <1>4 DEF States, ReportOnly
<1>10. UsedInv(n)
  BY <1>4, <1>7, <1>9 DEF UsedInv
<1>11. ReportOnly(m, n)
  BY <1>4, <1>9 DEF ReportOnly
<1> QED BY <1>8, <1>10, <1>11

\* The switch of process_action, for every kind of action.
LEMMA ActIs ==
  ASSUME NEW m, NEW hld, NEW H, NEW X, Between(m, hld, H, X), NEW a \in Actions,
         a.kind # "MODS_TAP", a.kind = "ONESHOT_LAYER" => a.layer \in OneshotLayers,
         NEW key, NEW count \in Nat, Holds(m, hld, H, key, a, count),
         NEW pressed \in BOOLEAN, NEW n, n = Act(m, a, key, pressed, count),
         build.ONESHOT_TAP_TOGGLE \in Nat
  PROVE  /\ Between(n, hld, H, X) /\ Frame(m, n) /\ (~pressed => Freed(n, hld, key, X))
         /\ ~pressed /\ (m.oneshot_enable \/ a.kind # "ONESHOT_LAYER") =>
              \A l \in m.kb.layers :
                ~IsOneshot(m, l) /\ (ChangesLayers(a, count) => l # a.layer) => l \in n.kb.layers
<1>1. CASE a.kind = "ONESHOT_MODS"
  <2>1. n = oneshot_mods_key(m, a, pressed, count)
    BY <1>1 DEF Act
  <2> QED BY <2>1, <1>1, OneshotModsIs
<1>2. CASE a.kind = "ONESHOT_LAYER"
  <2>1. n = oneshot_layer_key(m, a, pressed, count)
    BY <1>2 DEF Act
  <2> QED BY <2>1, <1>2, OneshotLayerIs
<1>3. CASE a.kind # "ONESHOT_MODS" /\ a.kind # "ONESHOT_LAYER"
  <2> DEFINE p(v) == CASE Registers(a, count) /\ pressed ->
                            Typed(mods_timeout(v), send_keyboard_report(v))
                       [] (Registers(a, count) /\ ~pressed) \/ ChangesMods(a, count) ->
                            send_keyboard_report(v)
                       [] OTHER -> v
             o == WithProcessed(m, a, key, pressed, count)
  <2>1. n = p(o)
    <3>1. \A v : After(v, LAMBDA w : p(w)) = p(v)
      BY DEF After
    <3>2. n = After([m EXCEPT !.kb = process_action(@, a, key, @.cache[key], pressed, count)], LAMBDA w : p(w))
      BY <1>3 DEF Act
    <3> QED BY <3>1, <3>2 DEF WithProcessed
  <2>2. Between(o, hld, H, X) /\ Frame(m, o) /\ Processed(m, o, a, pressed, count)
    BY ProcessIs
  <2> HIDE DEF o
  <2>3. o \in States /\ UsedInv(o)
    BY <2>2 DEF Between
  <2>4. n \in States /\ UsedInv(n) /\ ReportOnly(o, n)
    <3>1. CASE Registers(a, count) /\ pressed
      <4>0. ~ChangesMods(a, count)
        BY <3>1 DEF ChangesMods, Registers, is_tap_action
      <4>1. n = Typed(mods_timeout(o), send_keyboard_report(o))
        BY <4>0, <2>1, <3>1
      <4>2. o.kb.keys # {}
        BY <2>2, <3>1 DEF Processed
      <4> QED BY <4>1, <4>2, <2>3, TypedIs
    <3>2. CASE ~(Registers(a, count) /\ pressed)
               /\ ((Registers(a, count) /\ ~pressed) \/ ChangesMods(a, count))
      <4>1. n = send_keyboard_report(o)
        BY <2>1, <3>2
      <4>2. Sent(o, n)
        BY <4>1, <2>3, SendIs
      <4> QED BY <4>2 DEF Sent
    <3>3. CASE ~(Registers(a, count) /\ pressed)
               /\ ~((Registers(a, count) /\ ~pressed) \/ ChangesMods(a, count))
      <4>1. n = o
        BY <2>1, <3>3
      <4> QED BY <4>1, <2>3 DEF ReportOnly
    <3> QED BY <3>1, <3>2, <3>3
  <2>5. Between(n, hld, H, X) /\ Frame(o, n)
    BY <2>2, <2>4, BetweenReport
  <2>6. Frame(m, n)
    BY <2>2, <2>5 DEF Frame
  <2>7. ASSUME ~pressed PROVE Freed(n, hld, key, X)
    <3>1. HeldIn(n, key) = a /\ n.kb = o.kb /\ hld[key] = count
      BY <2>4, <2>6, FrameOwns DEF Holds, ReportOnly
    <3>2. \A c \in n.kb.keys : ~OwnsCode(n, hld, key, c)
      BY <3>1, <2>2, <2>7 DEF OwnsCode, Processed
    <3>3. \A x \in n.kb.mods : ~OwnsMod(n, hld, key, x)
      BY <3>1, <2>2, <2>7, <1>3 DEF OwnsMod, Processed, ChangesMods
    <3>4. \A l \in n.kb.layers : ~OwnsLayer(n, hld, key, l)
      BY <3>1, <2>2, <2>7, <1>3 DEF OwnsLayer, Processed, ChangesLayers
    <3> QED BY <3>2, <3>3, <3>4 DEF Freed
  <2>8. \A l \in m.kb.layers : (ChangesLayers(a, count) => l # a.layer) => l \in n.kb.layers
    BY <2>2, <2>4 DEF Processed, ReportOnly
  <2> QED BY <2>5, <2>6, <2>7, <2>8
<1> QED BY <1>1, <1>2, <1>3

\* What a state of key records knows of the build and of the keymap.
Known == build.ONESHOT_TAP_TOGGLE \in Nat

\* The actions of the keymap.
LEMMA KeymapIs ==
  ASSUME NEW l \in Layers, NEW key \in Keys
  PROVE  /\ keymap[l][key] \in Actions
         /\ keymap[l][key].kind # "MODS_TAP"
         /\ keymap[l][key].kind = "ONESHOT_LAYER" => keymap[l][key].layer \in OneshotLayers
<1>1. keymap[l][key] \in Actions
  BY ActionAssumption
<1>2. keymap[l][key].kind # "MODS_TAP"
  BY OneShotAssumption
<1>3. keymap[l][key].kind = "ONESHOT_LAYER" => keymap[l][key].layer \in OneshotLayers
  BY <1>1 DEF OneshotLayers, Actions
<1> QED BY <1>1, <1>2, <1>3

\* What the release of key leaves on: locked layers that are not the one-shot layer.
KeepsLocked(m, n, key) ==
  m.oneshot_enable \/ HeldIn(m, key).kind # "ONESHOT_LAYER" =>
    \A l \in m.kb.layers \cap m.locked_layers : ~IsOneshot(m, l) => l \in n.kb.layers

\* A release: what the key held down is off or has another owner.
LEMMA ReleaseIs ==
  ASSUME NEW m, NEW hld, NEW H, NEW X, Between(m, hld, H, X), Known,
         NEW key \in H, key \in Keys, NEW count \in Nat, hld[key] = count,
         NEW n, n = release_record(m, key, count)
  PROVE  Between(n, hld, H \ {key}, X) /\ Frame(m, n) /\ KeepsLocked(m, n, key)
<1> DEFINE a == HeldIn(m, key)
           r == Quantum(m, a, FALSE, count)
           act(v) == Act(v, a, key, FALSE, count)
           p(v) == IF v.goes_on THEN act(v.m) ELSE v.m
<1>1. m \in States /\ m.kb.cache[key] \in Layers
  BY StateTypes DEF Between
<1>2. a \in Actions /\ a.kind # "MODS_TAP" /\ (a.kind = "ONESHOT_LAYER" => a.layer \in OneshotLayers)
  BY <1>1, KeymapIs DEF HeldIn
<1>3. n = p(r)
  <2>1. \A v : After(v, LAMBDA w : p(w)) = p(v)
    <3> HIDE DEF act
    <3> QED BY DEF After
  <2>2. n = After(r, LAMBDA w : p(w))
    BY DEF release_record, HeldIn
  <2> HIDE DEF r
  <2> QED BY <2>1, <2>2
<1>4. /\ Between(r.m, hld, H, X) /\ Looked(m, r, a, FALSE, count) /\ Frame(m, r.m)
      /\ LetsPass(m, r, a, count)
      /\ r.goes_on => a.kind # "ONESHOT_TOGGLE"
  <2> HIDE DEF a
  <2> QED BY <1>2, QuantumIs
<1> HIDE DEF r
<1>5. HeldIn(r.m, key) = a
  BY <1>4, FrameOwns
<1>7. /\ r.m.kb = m.kb /\ r.m.locked_layers = m.locked_layers \cap m.kb.layers
      /\ \A l : IsOneshot(r.m, l) <=> IsOneshot(m, l)
      /\ r.m.oneshot_enable = m.oneshot_enable
  BY <1>4 DEF LetsPass, IsOneshot, Frame
<1>6. Between(n, hld, H, X) /\ Frame(m, n) /\ Freed(n, hld, key, X) /\ KeepsLocked(m, n, key)
  <2>1. CASE r.goes_on
    <3>1. n = Act(r.m, a, key, FALSE, count)
      BY <1>3, <2>1
    <3>2. Holds(r.m, hld, H, key, a, count)
      BY <1>5 DEF Holds
    <3> HIDE DEF a
    <3>3. /\ Between(n, hld, H, X) /\ Frame(r.m, n) /\ Freed(n, hld, key, X)
          /\ r.m.oneshot_enable \/ a.kind # "ONESHOT_LAYER" =>
               \A l \in r.m.kb.layers :
                 ~IsOneshot(r.m, l) /\ (ChangesLayers(a, count) => l # a.layer) => l \in n.kb.layers
      BY <1>2, <1>4, <3>1, <3>2, ActIs DEF Known
    <3>4. ChangesLayers(a, count) => a.layer \notin m.locked_layers \cap m.kb.layers
      BY <1>4, <1>7, <2>1 DEF LetsPass
    <3>5. KeepsLocked(m, n, key)
      BY <1>7, <3>3, <3>4 DEF KeepsLocked, a
    <3> QED BY <3>3, <3>5, <1>4 DEF Frame
  <2>2. CASE ~r.goes_on
    <3>1. n = r.m
      BY <1>3, <2>2
    <3>2. Freed(r.m, hld, key, X)
      <4> HIDE DEF a
      <4> QED BY <1>4, <1>5, <2>2 DEF Looked, Freed, OwnsCode, OwnsMod, OwnsLayer, Registers, is_tap_action
    <3>3. KeepsLocked(m, n, key)
      BY <3>1, <1>7 DEF KeepsLocked
    <3> QED BY <3>1, <3>2, <3>3, <1>4
  <2> QED BY <2>1, <2>2
<1> QED BY <1>6, DropKey

\* The release that the firmware adds when a press ends the one-shot layer.
LEMMA LeaveIs ==
  ASSUME NEW m, NEW hld, NEW H, NEW X, Between(m, hld, H, X), Known,
         NEW key \in H, key \in Keys, NEW count \in Nat, hld[key] = count,
         NEW n, n = leave_layer(m, key, count)
  PROVE  Between(n, hld, H, X) /\ n.kb.cache = m.kb.cache
<1> DEFINE x == m.layer_data.layer
           o == layer_on(m, x)
           r == release_record(o, key, count)
<1>1. n = layer_off(r, x)
  BY DEF leave_layer
<1>2. x \in Layers
  BY StateTypes DEF Between
<1> HIDE DEF x
<1>3. Between(o, hld, H, X \cup {x}) /\ Frame(m, o)
  BY <1>2, LayerOnIs
<1> HIDE DEF o
<1>4. Between(r, hld, H \ {key}, X \cup {x}) /\ Frame(o, r)
  BY <1>3, ReleaseIs
<1> HIDE DEF r
<1>5. Between(n, hld, H \ {key}, X) /\ Frame(r, n)
  BY <1>1, <1>4, LayerOffIs
<1>6. Between(n, hld, H, X)
  BY <1>5, MoreHeld
<1> QED BY <1>3, <1>4, <1>5, <1>6 DEF Frame

\* process_action for a press, with the use of the one-shot layer before it.
LEMMA PressActionIs ==
  ASSUME NEW m, NEW hld, NEW H, NEW X, Between(m, hld, H, X), Known,
         NEW key, NEW count \in Nat, NEW a, Holds(m, hld, H, key, a, count),
         a \in Actions, a.kind # "MODS_TAP", a.kind = "ONESHOT_LAYER" => a.layer \in OneshotLayers,
         NEW n, n = press_action(m, a, key, count)
  PROVE  Between(n, hld, H, X) /\ n.kb.cache = m.kb.cache
<1> DEFINE uses == is_oneshot_layer_active(m) /\ UsesLayer(a) /\ m.oneshot_enable
           c == IF uses THEN clear_oneshot_layer_state(m, OTHER_KEY_PRESSED) ELSE m
           ends(v) == /\ uses /\ ~is_oneshot_layer_active(v)
                      /\ a.kind = "ONESHOT_LAYER" => build.ONESHOT_TAP_TOGGLE = 1
           q(v, w) == IF ends(v) /\ PRESSED \notin w.layer_data.state
                      THEN leave_layer(w, key, count) ELSE w
           o == Act(c, a, key, TRUE, count)
<1>1. n = q(c, o)
  <2>1. \A u, v : After(v, LAMBDA w : q(u, w)) = q(u, v)
    BY DEF After
  <2>2. \A v : After(v, LAMBDA w : After(Act(w, a, key, TRUE, count), LAMBDA z : q(w, z)))
               = After(Act(v, a, key, TRUE, count), LAMBDA z : q(v, z))
    BY ZenonT(60) DEF After
  <2>3. n = After(c, LAMBDA w : After(Act(w, a, key, TRUE, count), LAMBDA z : q(w, z)))
    BY DEF press_action
  <2> HIDE DEF c
  <2>4. n = After(o, LAMBDA z : q(c, z))
    BY <2>2, <2>3
  <2> HIDE DEF o, q
  <2> QED BY <2>1, <2>4
<1>2. Between(c, hld, H, X) /\ Frame(m, c)
  <2>1. CASE uses
    <3>1. c = clear_oneshot_layer_state(m, OTHER_KEY_PRESSED)
      BY <2>1
    <3> HIDE DEF c
    <3> QED BY <3>1, ClearLayerIs
  <2>2. CASE ~uses
    BY <2>2 DEF Frame
  <2> QED BY <2>1, <2>2
<1> HIDE DEF c
<1>3. Holds(c, hld, H, key, a, count)
  BY <1>2, FrameOwns DEF Holds
<1>4. Between(o, hld, H, X) /\ Frame(c, o)
  BY <1>2, <1>3, ActIs DEF Known
<1> HIDE DEF o
<1>5. CASE ends(c) /\ PRESSED \notin o.layer_data.state
  <2>1. n = leave_layer(o, key, count)
    BY <1>1, <1>5
  <2>2. key \in H /\ key \in Keys /\ hld[key] = count
    BY DEF Holds
  <2>3. Between(n, hld, H, X) /\ n.kb.cache = o.kb.cache
    BY <2>1, <2>2, <1>4, LeaveIs
  <2> QED BY <2>3, <1>2, <1>4 DEF Frame
<1>6. CASE ~(ends(c) /\ PRESSED \notin o.layer_data.state)
  <2>1. n = o
    BY <1>1, <1>6
  <2> QED BY <2>1, <1>2, <1>4 DEF Frame
<1> QED BY <1>5, <1>6

\* layer_switch_get_layer returns a layer.
LEMMA LookupType ==
  ASSUME NEW k \in KeyboardStates, NEW key \in Keys
  PROVE  layer_switch_get_layer(k, key) \in Layers
<1> DEFINE on == {l \in k.layers \cup {0} : keymap[l][key].kind # "TRANSPARENT"}
<1>1. on \subseteq Layers /\ 0 \in Layers
  BY ActionAssumption DEF KeyboardStates, Layers
<1>2. CASE on = {}
  BY <1>1, <1>2 DEF layer_switch_get_layer
<1>3. CASE on # {}
  <2>1. \E l \in on : \A n \in on : n <= l
    BY <1>1, <1>3, GreatestLayer
  <2>2. (CHOOSE l \in on : \A n \in on : n <= l) \in on
    BY <2>1
  <2> QED
    BY <1>1, <1>3, <2>2 DEF layer_switch_get_layer
<1> QED
  BY <1>2, <1>3


\* m with the layer of a key cached.
CacheAt(m, key, l) == [m EXCEPT !.kb.cache[key] = l]

\* Caching the layer of a key changes nothing else.
LEMMA CacheIs ==
  ASSUME NEW m \in States, NEW key \in Keys, NEW l \in Layers, NEW n, n = CacheAt(m, key, l)
  PROVE  /\ n \in States
         /\ n.kb.keys = m.kb.keys /\ n.kb.mods = m.kb.mods /\ n.kb.layers = m.kb.layers
         /\ n.kb.cache = [m.kb.cache EXCEPT ![key] = l]
         /\ n.layer_data = m.layer_data /\ n.locked_layers = m.locked_layers
         /\ n.locked_with = m.locked_with
         /\ n.oneshot_mods = m.oneshot_mods /\ n.oneshot_locked_mods = m.oneshot_locked_mods
         /\ n.armed = m.armed /\ n.typed = m.typed /\ n.old = m.old
         /\ n.oneshot_enable = m.oneshot_enable
<1> DEFINE cache == [m.kb.cache EXCEPT ![key] = l]
           k == [m.kb EXCEPT !.cache = cache]
<1>1. m.kb \in KeyboardStates /\ m.kb.cache \in [Keys -> Layers]
  BY StateTypes
<1>2. cache \in [Keys -> Layers]
  BY <1>1
<1>3. n = [m EXCEPT !.kb = k]
  BY DEF CacheAt
<1> HIDE DEF cache
<1>4. k \in KeyboardStates /\ k.keys = m.kb.keys /\ k.mods = m.kb.mods /\ k.layers = m.kb.layers
      /\ k.cache = cache
  BY <1>1, <1>2 DEF KeyboardStates
<1> HIDE DEF k
<1>6. n \in States
  BY <1>3, <1>4 DEF States
<1>7. /\ n.kb = k /\ n.layer_data = m.layer_data /\ n.locked_layers = m.locked_layers
      /\ n.locked_with = m.locked_with
      /\ n.oneshot_mods = m.oneshot_mods /\ n.oneshot_locked_mods = m.oneshot_locked_mods
      /\ n.armed = m.armed /\ n.typed = m.typed /\ n.old = m.old
      /\ n.oneshot_enable = m.oneshot_enable
  BY <1>3 DEF States
<1> QED BY <1>4, <1>6, <1>7 DEF cache

\* Caching it again on the same layer changes nothing.
LEMMA CacheSame ==
  ASSUME NEW m \in States, NEW key \in Keys, NEW l \in Layers, m.kb.cache[key] = l
  PROVE  CacheAt(m, key, l) = m
<1> DEFINE cache == [m.kb.cache EXCEPT ![key] = l]
           k == [m.kb EXCEPT !.cache = cache]
<1>1. m.kb \in KeyboardStates /\ m.kb.cache \in [Keys -> Layers]
  BY StateTypes
<1>2. cache = m.kb.cache
  BY <1>1
<1>3. CacheAt(m, key, l) = [m EXCEPT !.kb = k]
  BY DEF CacheAt
<1> HIDE DEF cache
<1>4. k = m.kb
  <2>1. m.kb = [keys |-> m.kb.keys, mods |-> m.kb.mods, layers |-> m.kb.layers, cache |-> m.kb.cache]
    BY <1>1 DEF KeyboardStates
  <2>2. k = [keys |-> m.kb.keys, mods |-> m.kb.mods, layers |-> m.kb.layers, cache |-> cache]
    BY <1>1 DEF KeyboardStates
  <2> QED BY <2>1, <2>2, <1>2
<1> HIDE DEF k
<1> QED BY <1>3, <1>4 DEF States

\* A key that is not held is cached, and from then on counts as held.
LEMMA BetweenCache ==
  ASSUME NEW m, NEW hld, NEW nhld, NEW H \in SUBSET Keys, NEW X, Between(m, hld, H, X),
         NEW key \in Keys \ H, NEW l \in Layers, \A j \in H : nhld[j] = hld[j],
         NEW n, n = CacheAt(m, key, l)
  PROVE  Between(n, nhld, H \cup {key}, X) /\ HeldIn(n, key) = keymap[l][key]
<1>1. m \in States /\ UsedInv(m) /\ OneshotInv(m) /\ m.kb.cache \in [Keys -> Layers]
  BY StateTypes DEF Between
<1>2. /\ n \in States
      /\ n.kb.keys = m.kb.keys /\ n.kb.mods = m.kb.mods /\ n.kb.layers = m.kb.layers
      /\ n.kb.cache = [m.kb.cache EXCEPT ![key] = l]
      /\ n.layer_data = m.layer_data /\ n.locked_layers = m.locked_layers
      /\ n.locked_with = m.locked_with
      /\ n.oneshot_mods = m.oneshot_mods /\ n.oneshot_locked_mods = m.oneshot_locked_mods
      /\ n.armed = m.armed /\ n.typed = m.typed /\ n.old = m.old
      /\ n.oneshot_enable = m.oneshot_enable
  BY <1>1, CacheIs
<1>3. HeldIn(n, key) = keymap[l][key]
  BY <1>1, <1>2 DEF HeldIn
<1>4. \A j \in H : HeldIn(n, j) = HeldIn(m, j)
  BY <1>1, <1>2 DEF HeldIn
<1>5. ASSUME NEW j \in H
      PROVE  /\ \A c : OwnsCode(m, hld, j, c) => OwnsCode(n, hld, j, c)
             /\ \A c : OwnsMod(m, hld, j, c) => OwnsMod(n, hld, j, c)
             /\ \A c : OwnsLayer(m, hld, j, c) => OwnsLayer(n, hld, j, c)
  BY <1>2, <1>4 DEF OwnsCode, OwnsMod, OwnsLayer
<1>6. UsedInv(n) /\ OneshotInv(n)
  BY <1>1, <1>2 DEF UsedInv, OneshotInv
<1>7. KeysInv(n, hld, H)
  BY <1>2, <1>5 DEF Between, KeysInv
<1>8. ModsInv(n, hld, H)
  BY <1>2, <1>5 DEF Between, ModsInv
<1>9. OneOneshotLayer => LayersInv(n, hld, H, X)
  BY <1>2, <1>5 DEF Between, LayersInv, IsOneshot
<1>10. Between(n, hld, H, X)
  BY <1>2, <1>6, <1>7, <1>8, <1>9 DEF Between
<1> QED BY <1>3, <1>10, MoreHeld

\* A record that is not processed further may use up the one-shot layer.
LEMMA SwallowedIs ==
  ASSUME NEW m, NEW hld, NEW H, NEW X, Between(m, hld, H, X), NEW pressed \in BOOLEAN,
         NEW n, n = Swallowed(m, pressed)
  PROVE  Between(n, hld, H, X)
<1>1. n = clear_oneshot_layer_state(m, OTHER_KEY_PRESSED) \/ n = m
  BY DEF Swallowed
<1> QED BY <1>1, ClearLayerIs

\* A press: the key becomes an owner, of what its action switches on.
LEMMA PressIs ==
  ASSUME NEW m, NEW hld, NEW nhld, NEW H \in SUBSET Keys, NEW X, Between(m, hld, H, X), Known,
         NEW key \in Keys \ H, NEW count \in Nat, \A j \in H : nhld[j] = hld[j], nhld[key] = count,
         layer_switch_get_action(m.kb, key).kind = "ONESHOT_TOGGLE"
           => H = {} /\ ~is_oneshot_layer_active(m),
         NEW n, n = press_record(m, key, count)
  PROVE  Between(n, nhld, H \cup {key}, X)
<1> DEFINE l == layer_switch_get_layer(m.kb, key)
           c == CacheAt(m, key, l)
           a == keymap[l][key]
           quantum(v, b) == Quantum(v, b, TRUE, count)
           swallowed(v) == Swallowed(v, TRUE)
           r == quantum(c, a)
           last_(w) == press_action(w, keymap[w.kb.cache[key]][key], key, count)
           again(v) == CacheAt(v, key, layer_switch_get_layer(v.kb, key))
           p(v) == IF ~v.goes_on THEN swallowed(v.m)
                   ELSE After(again(v.m), LAMBDA w : last_(w))
           G == H \cup {key}
<1>1. m \in States /\ m.kb \in KeyboardStates
  BY StateTypes DEF Between
<1>2. l \in Layers
  BY <1>1, LookupType
<1>3. /\ c \in States /\ c.kb.layers = m.kb.layers /\ c.layer_data = m.layer_data
      /\ c.kb.cache = [m.kb.cache EXCEPT ![key] = l]
  <2> HIDE DEF l
  <2> QED BY <1>1, <1>2, CacheIs
<1>4. Between(c, nhld, G, X) /\ HeldIn(c, key) = a
  <2> HIDE DEF l
  <2> QED BY <1>2, BetweenCache
<1>5. n = p(r)
  <2> DEFINE f(v) == After(quantum(v, keymap[v.kb.cache[key]][key]), LAMBDA w : p(w))
  <2>1. n = After(c, LAMBDA v : f(v))
    BY DEF press_record, CacheAt
  <2>2. \A v : After(v, LAMBDA w : f(w)) = f(v)
    <3> HIDE DEF f
    <3> QED BY DEF After
  <2>3. n = f(c)
    <3> HIDE DEF f, c
    <3> QED BY <2>1, <2>2
  <2>4. keymap[c.kb.cache[key]][key] = a
    BY <1>4 DEF HeldIn
  <2>5. \A v : After(v, LAMBDA w : p(w)) = p(v)
    <3> HIDE DEF p
    <3> QED BY DEF After
  <2>6. n = After(r, LAMBDA w : p(w))
    <3> HIDE DEF quantum, p, c, a
    <3> QED BY <2>3, <2>4
  <2> HIDE DEF p, r
  <2> QED BY <2>5, <2>6
<1>6. a \in Actions /\ a.kind # "MODS_TAP" /\ (a.kind = "ONESHOT_LAYER" => a.layer \in OneshotLayers)
  <2> HIDE DEF l
  <2> QED BY <1>2, KeymapIs
<1>7. a = layer_switch_get_action(m.kb, key)
  BY DEF layer_switch_get_action
<1>8. a.kind = "ONESHOT_TOGGLE" => Toggleable(c, G)
  <2> HIDE DEF a, c
  <2> QED BY <1>3, <1>4, <1>7 DEF is_oneshot_layer_active, Toggleable
<1> HIDE DEF a, c
<1>9. /\ Between(r.m, nhld, G, X) /\ Looked(c, r, a, TRUE, count)
      /\ r.goes_on => Frame(c, r.m)
  <2>1. r = Quantum(c, a, TRUE, count)
    OBVIOUS
  <2> HIDE DEF r
  <2> QED BY <2>1, <1>4, <1>6, <1>8, QuantumIs
<1> HIDE DEF r
<1>10. CASE ~r.goes_on
  <2>1. n = Swallowed(r.m, TRUE)
    BY <1>5, <1>10
  <2> QED BY <2>1, <1>9, SwallowedIs
<1>11. CASE r.goes_on
  <2>1. r.m.kb = c.kb /\ r.m \in States
    BY <1>9, <1>11 DEF Looked, Between
  <2>2. layer_switch_get_layer(r.m.kb, key) = l
    BY <2>1, <1>3 DEF layer_switch_get_layer
  <2>3. r.m.kb.cache[key] = l
    <3>1. m.kb.cache \in [Keys -> Layers]
      BY <1>1, StateTypes
    <3> HIDE DEF l
    <3> QED BY <2>1, <1>3, <3>1
  <2>4. again(r.m) = r.m
    <3> DEFINE rm == r.m
    <3>1. again(rm) = CacheAt(rm, key, l)
      BY <2>2
    <3>2. rm \in States /\ rm.kb.cache[key] = l /\ l \in Layers
      BY <1>2, <2>1, <2>3
    <3> HIDE DEF l, rm, again
    <3>3. CacheAt(rm, key, l) = rm
      BY <3>2, CacheSame
    <3>4. again(rm) = rm
      BY <3>1, <3>3
    <3> QED BY <3>4 DEF rm
  <2>5. n = After(again(r.m), LAMBDA w : last_(w))
    BY <1>5, <1>11
  <2>6. \A v : After(v, LAMBDA w : last_(w)) = last_(v)
    <3> HIDE DEF last_
    <3> QED BY DEF After
  <2>7. n = last_(r.m)
    <3> HIDE DEF last_, again
    <3> QED BY <2>4, <2>5, <2>6
  <2>8. HeldIn(r.m, key) = a
    BY <1>4, <2>1 DEF HeldIn
  <2>9. n = press_action(r.m, a, key, count)
    BY <2>7, <2>8 DEF HeldIn
  <2>10. Holds(r.m, nhld, G, key, a, count)
    BY <2>8 DEF Holds
  <2> QED BY <2>9, <2>10, <1>6, <1>9, PressActionIs
<1> QED BY <1>10, <1>11

-----------------------------------------------------------------------------
(* The invariant of the specification.                                     *)

\* The invariant: of the keys held down, with layer 0 excused.
IInv ==
  /\ build \in Builds /\ held \in [Keys -> {Up} \cup 0 .. MAX_COUNT]
  /\ Between(st, held, Held, {0})

\* What the assumption on builds says.
LEMMA KnownIs ==
  ASSUME build \in Builds
  PROVE  Known
BY OneShotAssumption DEF Known

\* With nothing down at the start, there is nothing to own.
LEMMA InitInv ==
  ASSUME Init
  PROVE  IInv
<1>1. KeyboardInit \in KeyboardStates /\ KeyboardInit.keys = {} /\ KeyboardInit.mods = {}
      /\ KeyboardInit.layers = {}
  BY ActionAssumption DEF KeyboardInit, KeyboardStates, Layers
<1>2. Nothing \in LayerData /\ Nothing.state = {}
  BY ActionAssumption DEF Nothing, LayerData, Layers
<1> DEFINE with == [l \in Layers |-> {}]
<1>3. st = State(KeyboardInit, {}, {}, Nothing, {}, TRUE, {}, {}, {}, {}, with)
  BY DEF Init, State
<1>9. with \in [Layers -> SUBSET Keys]
  OBVIOUS
<1> HIDE DEF with
<1>4. st \in States
  BY <1>1, <1>2, <1>3, <1>9 DEF State, States
<1>5. st.kb = KeyboardInit /\ st.layer_data = Nothing /\ st.oneshot_enable = TRUE
      /\ st.oneshot_mods = {} /\ st.typed = {} /\ st.old = {} /\ st.armed = {}
  BY <1>3 DEF State
<1>6. UsedInv(st) /\ OneshotInv(st)
  BY <1>2, <1>5 DEF UsedInv, OneshotInv
<1>7. KeysInv(st, held, Held) /\ ModsInv(st, held, Held) /\ LayersInv(st, held, Held, {0})
  BY <1>1, <1>5 DEF KeysInv, ModsInv, LayersInv
<1>8. build \in Builds /\ held \in [Keys -> {Up} \cup 0 .. MAX_COUNT]
  BY DEF Init
<1> QED BY <1>4, <1>6, <1>7, <1>8 DEF IInv, Between

\* A change of the history of a state, or of its timers.
LEMMA HistoryIs ==
  ASSUME NEW m, NEW hld, NEW H, NEW X, Between(m, hld, H, X)
  PROVE  /\ Between([m EXCEPT !.typed = {}], hld, H, X)
         /\ \A S \in [Layers -> SUBSET Keys] : (\A l \in Layers : S[l] \subseteq m.locked_with[l])
              => Between([m EXCEPT !.locked_with = S], hld, H, X)
         /\ \A old \in SUBSET Timers : ("mods" \in old => m.oneshot_mods # {}) =>
              Between([m EXCEPT !.old = old], hld, H, X)
<1>1. m \in States /\ UsedInv(m)
  BY DEF Between
<1>2. Between([m EXCEPT !.typed = {}], hld, H, X)
  <2> DEFINE n == [m EXCEPT !.typed = {}]
  <2>1. n \in States
    BY <1>1 DEF States
  <2>2. UsedInv(n) /\ ReportOnly(m, n)
    BY <1>1 DEF States, UsedInv, ReportOnly
  <2> HIDE DEF n
  <2>3. Between(n, hld, H, X)
    BY <2>1, <2>2, BetweenReport
  <2> QED BY <2>3 DEF n
<1>3. ASSUME NEW S \in [Layers -> SUBSET Keys], \A l \in Layers : S[l] \subseteq m.locked_with[l]
      PROVE  Between([m EXCEPT !.locked_with = S], hld, H, X)
  <2> DEFINE n == [m EXCEPT !.locked_with = S]
  <2>1. n \in States
    BY <1>1 DEF States
  <2>2. UsedInv(n)
    BY <1>1 DEF States, UsedInv
  <2>3. n.kb = m.kb /\ n.oneshot_locked_mods = m.oneshot_locked_mods /\ n.locked_with = S
        /\ n.layer_data = m.layer_data /\ n.locked_layers = m.locked_layers
        /\ n.oneshot_enable = m.oneshot_enable
    BY <1>1 DEF States
  <2> HIDE DEF n
  <2>4. OneshotInv(n)
    <3>1. OneshotInv(m) /\ m.layer_data.layer \in Layers
      BY StateTypes DEF Between
    <3> QED BY <3>1, <1>3, <2>3 DEF OneshotInv
  <2>5. Frame(m, n) /\ \A l : IsOneshot(m, l) <=> IsOneshot(n, l)
    BY <2>3 DEF Frame, IsOneshot
  <2>6. KeysInv(n, hld, H)
    BY <2>3, <2>5, FrameKeys DEF Between
  <2>7. ModsInv(n, hld, H)
    BY <2>3, <2>5, FrameMods DEF Between
  <2>8. ASSUME OneOneshotLayer PROVE LayersInv(n, hld, H, X)
    <3>1. LayersInv(m, hld, H, X)
      BY <2>8 DEF Between
    <3> QED BY <3>1, <2>3, <2>5, FrameLayers
  <2>9. Between(n, hld, H, X)
    BY <2>1, <2>2, <2>4, <2>6, <2>7, <2>8 DEF Between
  <2> QED BY <2>9 DEF n
<1>4. ASSUME NEW old \in SUBSET Timers, "mods" \in old => m.oneshot_mods # {}
      PROVE  Between([m EXCEPT !.old = old], hld, H, X)
  <2> DEFINE n == [m EXCEPT !.old = old]
  <2>1. n \in States
    BY <1>1 DEF States
  <2>2. UsedInv(n) /\ ReportOnly(m, n)
    BY <1>1, <1>4 DEF States, UsedInv, ReportOnly
  <2> HIDE DEF n
  <2>3. Between(n, hld, H, X)
    BY <2>1, <2>2, BetweenReport
  <2> QED BY <2>3 DEF n
<1> QED BY <1>2, <1>3, <1>4

\* The timeouts before a record keep the invariant.
LEMMA CurrentIs ==
  ASSUME IInv
  PROVE  Between(Current, held, Held, {0}) /\ KeepsOn(st, Current) /\ Frame(st, Current)
<1> DEFINE m == [st EXCEPT !.typed = {}]
<1>1. Between(m, held, Held, {0})
  BY HistoryIs DEF IInv
<1>2. Current = timeouts(m)
  BY DEF Current
<1>3. /\ m.kb = st.kb /\ m.layer_data = st.layer_data /\ m.locked_layers = st.locked_layers
      /\ m.oneshot_enable = st.oneshot_enable
  <2>1. st \in States
    BY DEF IInv, Between
  <2> QED BY <2>1 DEF States
<1> HIDE DEF m
<1>4. Between(Current, held, Held, {0}) /\ KeepsOn(m, Current) /\ Frame(m, Current)
  BY <1>1, <1>2, TimeoutsIs
<1> QED BY <1>3, <1>4 DEF KeepsOn, IsOneshot, Frame

\* A press makes its key an owner.
LEMMA PressInv ==
  ASSUME IInv, NEW key \in Keys, NEW count \in 0 .. MAX_COUNT, press(key, count)
  PROVE  IInv'
<1>1. MAX_COUNT \in Nat
  BY OneShotAssumption
<1>2. count \in Nat /\ count # Up
  BY <1>1 DEF Up
<1>3. held' = [held EXCEPT ![key] = count] /\ held \in [Keys -> {Up} \cup 0 .. MAX_COUNT]
      /\ build' = build /\ build \in Builds /\ key \in Keys \ Held /\ Held \in SUBSET Keys
  BY DEF press, IInv, Held
<1>4. held' \in [Keys -> {Up} \cup 0 .. MAX_COUNT] /\ held'[key] = count
      /\ \A j \in Held : held'[j] = held[j]
  BY <1>3
<1>5. Held' = Held \cup {key}
  BY <1>2, <1>3 DEF Held
<1>6. st' = press_record(Current, key, count)
  BY DEF press
<1>7. layer_switch_get_action(Current.kb, key).kind = "ONESHOT_TOGGLE"
           => Held = {} /\ ~is_oneshot_layer_active(Current)
  BY DEF press
<1>8. Between(Current, held, Held, {0}) /\ Known
  BY <1>3, CurrentIs, KnownIs
<1> DEFINE m == Current
           H == Held
           hld == held
           nhld == held'
           n == st'
<1>9. Between(n, nhld, H \cup {key}, {0})
  <2>1. /\ n = press_record(m, key, count) /\ Between(m, hld, H, {0}) /\ H \in SUBSET Keys
        /\ key \in Keys \ H /\ nhld[key] = count /\ \A j \in H : nhld[j] = hld[j]
    BY <1>3, <1>4, <1>6, <1>8
  <2>2. layer_switch_get_action(m.kb, key).kind = "ONESHOT_TOGGLE" => H = {} /\ ~is_oneshot_layer_active(m)
    BY <1>7
  <2> HIDE DEF m, H, hld, nhld, n
  <2> QED BY <2>1, <2>2, <1>2, <1>8, PressIs
<1> QED BY <1>3, <1>4, <1>5, <1>9 DEF IInv

\* A release makes its key no owner any more.
LEMMA ReleaseInv ==
  ASSUME IInv, NEW key \in Keys, release(key)
  PROVE  IInv'
<1>1. MAX_COUNT \in Nat
  BY OneShotAssumption
<1>2. held' = [held EXCEPT ![key] = Up] /\ held \in [Keys -> {Up} \cup 0 .. MAX_COUNT]
      /\ build' = build /\ build \in Builds /\ key \in Held /\ Held \in SUBSET Keys
  BY DEF release, IInv, Held
<1>3. held[key] \in Nat
  BY <1>1, <1>2 DEF Held
<1>4. held' \in [Keys -> {Up} \cup 0 .. MAX_COUNT] /\ \A j \in Held \ {key} : held'[j] = held[j]
  BY <1>2
<1>5. Held' = Held \ {key}
  BY <1>2 DEF Held
<1> DEFINE r == release_record(Current, key, held[key])
<1> DEFINE with == [l \in Layers |-> r.locked_with[l] \ {key}]
<1>6. st' = [r EXCEPT !.locked_with = with]
  BY DEF release
<1>7. Between(Current, held, Held, {0}) /\ Known
  BY <1>2, CurrentIs, KnownIs
<1>8. Between(r, held, Held \ {key}, {0})
  <2> HIDE DEF Held, Current
  <2> QED BY <1>2, <1>3, <1>7, ReleaseIs
<1> HIDE DEF r
<1>9. with \in [Layers -> SUBSET Keys] /\ \A l \in Layers : with[l] \subseteq r.locked_with[l]
  BY <1>8 DEF Between, States
<1> HIDE DEF with
<1>10. Between(st', held, Held \ {key}, {0})
  BY <1>6, <1>8, <1>9, HistoryIs
<1>11. Between(st', held', Held \ {key}, {0})
  BY <1>4, <1>10, MoreHeld
<1> QED BY <1>2, <1>4, <1>5, <1>11 DEF IInv

\* The idle timeout of layer lock switches off what it unlocks.
LEMMA LockTimeoutInv ==
  ASSUME IInv, layer_lock_timeout_task
  PROVE  IInv'
<1> DEFINE m == st
           old == m.old \ {"lock"}
           L == m.kb.layers \ m.locked_layers
           k == [m.kb EXCEPT !.layers = L]
           n == st'
<1>1. Between(m, held, Held, {0}) /\ m \in States /\ OneshotInv(m)
  BY DEF IInv, Between
<1>2. n = [m EXCEPT !.kb = k, !.locked_layers = {}, !.old = old]
  <2> DEFINE o == layer_lock_all_off(m)
  <2>1. o = [m EXCEPT !.kb = k, !.locked_layers = {}]
    BY DEF layer_lock_all_off
  <2>2. o.old = m.old
    <3> HIDE DEF m, k
    <3> QED BY <1>1, <2>1 DEF States
  <2>3. n = [o EXCEPT !.old = o.old \ {"lock"}]
    BY DEF layer_lock_timeout_task
  <2>4. n = [o EXCEPT !.old = old]
    BY <2>2, <2>3
  <2> HIDE DEF m, k, o, old, n
  <2> QED BY <1>1, <2>1, <2>4 DEF States
<1>3. /\ m.kb \in KeyboardStates /\ L \in SUBSET Layers /\ old \in SUBSET Timers
      /\ ("mods" \in old => "mods" \in m.old)
  <2> HIDE DEF m
  <2> QED BY <1>1, StateTypes
<1> HIDE DEF m, old, n
<1>4. k \in KeyboardStates /\ k.keys = m.kb.keys /\ k.mods = m.kb.mods /\ k.cache = m.kb.cache
      /\ k.layers = L
  <2> HIDE DEF L
  <2> QED BY <1>3 DEF KeyboardStates
<1>5. L = m.kb.layers \ m.locked_layers
  OBVIOUS
<1> HIDE DEF k, L
<1>6. n \in States
  BY <1>1, <1>2, <1>3, <1>4 DEF States
<1>7. /\ n.kb = k /\ n.layer_data = m.layer_data /\ n.locked_layers = {}
      /\ n.locked_with = m.locked_with
      /\ n.oneshot_mods = m.oneshot_mods /\ n.oneshot_locked_mods = m.oneshot_locked_mods
      /\ n.armed = m.armed /\ n.typed = m.typed /\ n.old = old
      /\ n.oneshot_enable = m.oneshot_enable
  BY <1>1, <1>2 DEF States
<1>8. LayersOnly(m, n) /\ OneshotInv(n)
  BY <1>1, <1>3, <1>4, <1>6, <1>7 DEF LayersOnly, OneshotInv
<1>9. \A l : IsOneshot(n, l) <=> IsOneshot(m, l)
  BY <1>7 DEF IsOneshot
<1>10. \A l \in n.kb.layers \ {0} :
             l \in n.locked_layers \/ IsOneshot(n, l)
               \/ (l \in m.kb.layers \ {0} /\ l \notin m.locked_layers /\ ~IsOneshot(m, l))
  BY <1>4, <1>5, <1>7, <1>9
<1>11. Between(n, held, Held, {0})
  BY <1>1, <1>8, <1>10, BetweenLayers
<1>12. held' = held /\ build' = build /\ Held' = Held
  BY DEF layer_lock_timeout_task, Held
<1> QED BY <1>11, <1>12 DEF IInv, n

\* Every step keeps the invariant.
LEMMA StepInv ==
  ASSUME IInv, [Next]_vars
  PROVE  IInv'
<1>1. ASSUME NEW key \in Keys, release(key) PROVE IInv'
  BY <1>1, ReleaseInv
<1>2. ASSUME NEW key \in Keys, NEW count \in 0 .. MAX_COUNT, press(key, count) PROVE IInv'
  BY <1>2, PressInv
<1>3. CASE action_exec
  <2>1. st' = timeouts(st) /\ held' = held /\ build' = build /\ Held' = Held
    BY <1>3 DEF action_exec, Held
  <2>2. Between(st', held, Held, {0})
    BY <2>1, TimeoutsIs DEF IInv
  <2> QED BY <2>1, <2>2 DEF IInv
<1>4. CASE layer_lock_timeout_task
  BY <1>4, LockTimeoutInv
<1>5. ASSUME NEW t \in Timers, Elapse(t) PROVE IInv'
  <2>1. st' = [st EXCEPT !.old = st.old \cup {t}] /\ held' = held /\ build' = build /\ Held' = Held
    BY <1>5 DEF Elapse, Held
  <2>2. Between(st, held, Held, {0}) /\ st.old \in SUBSET Timers
    BY StateTypes DEF IInv, Between
  <2>3. "mods" \in st.old \cup {t} => st.oneshot_mods # {}
    BY <1>5 DEF IInv, Between, UsedInv, Elapse, Running
  <2>4. st.old \cup {t} \in SUBSET Timers
    BY <2>2
  <2>5. Between(st', held, Held, {0})
    BY <2>1, <2>2, <2>3, <2>4, HistoryIs
  <2> QED BY <2>1, <2>5 DEF IInv
<1>6. CASE UNCHANGED vars
  <2>1. st' = st /\ held' = held /\ build' = build /\ Held' = Held
    BY <1>6 DEF vars, Held
  <2> QED BY <2>1 DEF IInv
<1> QED BY <1>1, <1>2, <1>3, <1>4, <1>5, <1>6 DEF Next

\* What a step leaves on: the step of LockSurvives.
LockKept ==
  \A l \in st.locked_layers \cap st.kb.layers : \A key \in st.locked_with[l] :
    /\ key \in Held /\ held'[key] = Up
    /\ st.oneshot_enable \/ HeldAs(key).kind # "ONESHOT_LAYER"
    => l \in st'.kb.layers

\* A release keeps the locked layers on, and no other step releases a key.
LEMMA StepKeepsLocked ==
  ASSUME IInv, [Next]_vars
  PROVE  LockKept \/ UNCHANGED vars
<1>0. held \in [Keys -> {Up} \cup 0 .. MAX_COUNT] /\ MAX_COUNT \in Nat
  BY OneShotAssumption DEF IInv
<1>1. ASSUME NEW key \in Keys, release(key) PROVE LockKept
  <2> DEFINE m == Current
             r == release_record(m, key, held[key])
  <2>1. \A j \in Held : held'[j] = Up => j = key
    BY <1>0, <1>1 DEF release, Held
  <2>2. Between(m, held, Held, {0}) /\ KeepsOn(st, m) /\ Frame(st, m) /\ Known
    BY CurrentIs, KnownIs DEF IInv
  <2>3. key \in Held /\ held[key] \in Nat
    BY <1>0, <1>1 DEF release, Held
  <2>4. Between(r, held, Held \ {key}, {0}) /\ KeepsLocked(m, r, key)
    <3> HIDE DEF Held, m
    <3> QED BY <2>2, <2>3, ReleaseIs
  <2> DEFINE with == [l \in Layers |-> r.locked_with[l] \ {key}]
  <2>5. st' = [r EXCEPT !.locked_with = with]
    BY <1>1 DEF release
  <2> HIDE DEF m, r, with
  <2>6. st'.kb = r.kb
    BY <2>4, <2>5 DEF Between, States
  <2>7. HeldIn(m, key) = HeldAs(key) /\ m.oneshot_enable = st.oneshot_enable
    BY <2>2 DEF HeldIn, HeldAs, Frame
  <2>8. ASSUME NEW l \in st.locked_layers \cap st.kb.layers, key \in st.locked_with[l]
        PROVE  ~IsOneshot(st, l)
    BY <2>8 DEF IInv, Between, OneshotInv, IsOneshot
  <2>9. ASSUME NEW l \in st.locked_layers \cap st.kb.layers, key \in st.locked_with[l],
               st.oneshot_enable \/ HeldAs(key).kind # "ONESHOT_LAYER"
        PROVE  l \in st'.kb.layers
    BY <2>2, <2>4, <2>6, <2>7, <2>8, <2>9 DEF KeepsOn, KeepsLocked
  <2> QED BY <2>1, <2>9 DEF LockKept
<1>2. ASSUME NEW key \in Keys, NEW count \in 0 .. MAX_COUNT, press(key, count) PROVE LockKept
  <2>1. \A j \in Held : held'[j] # Up
    BY <1>0, <1>2 DEF press, Held, Up
  <2> QED BY <2>1 DEF LockKept
<1>3. CASE action_exec \/ layer_lock_timeout_task \/ \E t \in Timers : Elapse(t)
  <2>1. held' = held
    BY <1>3 DEF action_exec, layer_lock_timeout_task, Elapse
  <2> QED BY <2>1 DEF LockKept, Held
<1> QED BY <1>1, <1>2, <1>3 DEF Next

\* In every reachable state, every key code, modifier and layer has its owner.
THEOREM Invariance == Spec => []IInv
<1>1. Init => IInv
  BY InitInv
<1>2. IInv /\ [Next]_vars => IInv'
  BY StepInv
<1> QED BY <1>1, <1>2, PTL DEF Spec

\* The variables of the one-shot and layer-lock state keep their types, and a timer has
\* run out only while it runs.
THEOREM TypeCorrect == Spec => []TypeOK
<1>1. IInv => TypeOK
  <2> SUFFICES ASSUME IInv PROVE TypeOK
    OBVIOUS
  <2>1. st \in States /\ UsedInv(st)
    BY DEF IInv, Between
  <2> QED BY <2>1, StateTypes DEF TypeOK, UsedInv, IInv, States, LayerData
<1> QED BY <1>1, Invariance, PTL

\* No key and no modifier is left down, in any keymap and whatever the order of presses,
\* releases and timeouts: each is that of a key held down, or locked.
THEOREM NothingIsStuck == Spec => []NothingStuck
<1>1. IInv => NothingStuck
  <2> SUFFICES ASSUME IInv PROVE NothingStuck
    OBVIOUS
  <2>1. KeysInv(st, held, Held) /\ ModsInv(st, held, Held)
    BY DEF IInv, Between
  <2>2. \A key : HeldAs(key) = HeldIn(st, key)
    BY DEF HeldAs, HeldIn
  <2> QED BY <2>1, <2>2 DEF NothingStuck, KeysInv, ModsInv, OwnsCode, OwnsMod
<1> QED BY <1>1, Invariance, PTL

\* A one-shot modifier applies to one key: what a key is typed with was held down, or was
\* tapped since the key typed before it.
THEOREM OneshotsUsedOnce == Spec => []UsedOnce
<1>1. IInv => UsedOnce
  BY DEF IInv, Between, UsedInv, UsedOnce
<1> QED BY <1>1, Invariance, PTL

\* No layer is left on, if the OSL keys of the keymap all switch on the same layer: it is
\* locked, it is the one-shot layer, or a layer key is held for it.
THEOREM NoLayerIsStuck ==
  ASSUME OneOneshotLayer
  PROVE  Spec => []NoLayerStuck
<1>1. IInv => NoLayerStuck
  <2> SUFFICES ASSUME IInv PROVE NoLayerStuck
    OBVIOUS
  <2>1. LayersInv(st, held, Held, {0})
    BY DEF IInv, Between
  <2>2. \A key : HeldAs(key) = HeldIn(st, key)
    BY DEF HeldAs, HeldIn
  <2> QED BY <2>1, <2>2 DEF NoLayerStuck, LayersInv, OwnsLayer, IsOneshot, is_oneshot_layer_active
<1> QED BY <1>1, Invariance, PTL

\* A locked layer survives the release of the keys that were held when it was locked: what
\* switched it on forgets it (layer_lock_invert, process_layer_lock), but for an OSL key
\* while one-shot keys are off.
THEOREM LocksSurvive == Spec => LockSurvives
<1>1. IInv /\ [Next]_vars => [LockKept]_vars
  BY StepKeepsLocked
<1> QED BY <1>1, Invariance, PTL DEF Spec, LockSurvives, LockKept
=============================================================================
