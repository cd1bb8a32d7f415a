--------------------------- MODULE DebounceProofs ---------------------------
(***************************************************************************)
(* Proofs about debouncing, for every matrix, every DEBOUNCE and however   *)
(* late the scans are.                                                     *)
(*                                                                         *)
(* A counter of the program says how long to wait; the properties speak of *)
(* the time a key has been quiet or still.  The inductive invariant ties   *)
(* the two together: what a counter has run down, less what has not been   *)
(* charged to it yet, is time the key was quiet (SpacedInv) and, where     *)
(* changes are deferred, time it was read as it is (DeferredInv).          *)
(***************************************************************************)
EXTENDS Debounce, FiniteSetTheorems, TLAPS

Db == [cooked : SUBSET Keys, counter : [Units -> 0 .. DEBOUNCE], pressed : SUBSET Units,
       counters_need_update : BOOLEAN, matrix_need_update : BOOLEAN,
       last_time : 0 .. DEBOUNCE]

\* The types, as far as the proofs need them.
TypeInv ==
  /\ build \in Builds
  /\ raw_matrix \subseteq Keys /\ matrix_previous \subseteq Keys
  /\ contacts \subseteq build.switches /\ db \in Db
  /\ still \in [Keys -> 0 .. Latency] /\ quiet \in [Keys -> 0 .. Apart]
  /\ hurried \subseteq Keys

\* The counter of u and the time not yet charged to it account for an age:
\* when it ends, the age will be total.
Charged(m, u, age, total) == age >= total \/ age + m.counter[u] >= total + m.last_time

Counters == {"sym_defer_pk", "sym_eager_pk", "sym_eager_pr", "asym_eager_defer_pk"}

\* Counters are brought up to date while one runs, and with
\* asym_eager_defer_pk only keys that are on have one.
FlagsInv(m) ==
  /\ Algorithm \in Counters /\ ~m.counters_need_update =>
       \A u \in Units : m.counter[u] = DEBOUNCE_ELAPSED
  /\ Algorithm = "asym_eager_defer_pk" =>
       \A k \in Keys : m.counter[k] # DEBOUNCE_ELAPSED => k \in m.cooked

\* How long key k has been quiet (q), from its counter.
SpacedKey(m, q, k) ==
  /\ Algorithm = "sym_defer_g" /\ m.counters_need_update => q[k] >= m.last_time
  /\ Algorithm \in {"sym_defer_pk", "sym_defer_pr"} /\ m.counter[Unit(k)] # DEBOUNCE_ELAPSED =>
       Charged(m, Unit(k), q[k], DEBOUNCE)
  /\ Algorithm \in {"sym_eager_pk", "sym_eager_pr"} => Charged(m, Unit(k), q[k], DEBOUNCE)
  /\ Algorithm = "asym_eager_defer_pk" /\ k \in m.cooked =>
       Charged(m, k, q[k], IF m.counter[k] = DEBOUNCE_ELAPSED \/ k \in m.pressed
                           THEN DEBOUNCE ELSE 2 * DEBOUNCE)

SpacedInv(m, q) == \A k \in Keys : SpacedKey(m, q, k)

\* How long key k has been still (s), from its counter; raw is the last scan.
DeferredKey(m, raw, s, k) ==
  /\ Algorithm = "sym_defer_g" /\ m.counters_need_update => s[k] >= m.last_time
  /\ Algorithm = "sym_defer_pk" /\ m.counter[k] # DEBOUNCE_ELAPSED =>
       (k \in raw) # (k \in m.cooked) /\ Charged(m, k, s[k], DEBOUNCE)
  /\ Algorithm = "sym_defer_pr" /\ m.counter[Unit(k)] # DEBOUNCE_ELAPSED =>
       Charged(m, Unit(k), s[k], DEBOUNCE)
  /\ Algorithm = "asym_eager_defer_pk" /\ m.counter[k] # DEBOUNCE_ELAPSED /\ k \notin m.pressed =>
       k \notin raw /\ Charged(m, k, s[k], DEBOUNCE)

DeferredInv(m, raw, s) == \A k \in Keys : DeferredKey(m, raw, s, k)

\* While a key is not as it is read, a counter runs for it, and the time it has
\* been still is no longer than that counter accounts for.  slack is the time
\* since the last scan.
LateKey(m, raw, s, k, slack) ==
  LET c     == m.counter[Unit(k)]
      total == IF Algorithm = "asym_eager_defer_pk" /\ k \notin m.pressed
               THEN Latency ELSE DEBOUNCE
  IN  (k \in raw) # (k \in m.cooked) =>
        /\ Algorithm = "sym_defer_g" => m.counters_need_update /\ s[k] <= m.last_time
        /\ Algorithm \in Counters \cup {"sym_defer_pr"} =>
             c # DEBOUNCE_ELAPSED /\ (c <= m.last_time \/ s[k] + c <= total + m.last_time)
        /\ Algorithm = "asym_eager_defer_pk" =>
             k \in m.cooked /\ (k \in m.pressed => s[k] < DEBOUNCE + slack)

LateInv(m, raw, s, slack) == DEBOUNCE # 0 => \A k \in Keys : LateKey(m, raw, s, k, slack)

\* After a scan, no time is left to be charged to a counter that runs.
PromptInv(m) ==
  /\ Algorithm = "sym_defer_g" /\ m.counters_need_update => m.last_time < DEBOUNCE
  /\ Algorithm \in Counters \cup {"sym_defer_pr"} =>
       \A u \in Units : m.counter[u] # DEBOUNCE_ELAPSED => m.last_time = 0

\* What is reported is what the rows held back allow, and without debouncing
\* the debounced matrix is the last scan.
ReportedInv ==
  /\ Algorithm = "none" => db.cooked = raw_matrix
  /\ matrix_previous = Reported(db.cooked, matrix_previous)

IInv == /\ TypeInv /\ FlagsInv(db) /\ SpacedInv(db, quiet) /\ DeferredInv(db, raw_matrix, still)
        /\ LateInv(db, raw_matrix, still, 0) /\ PromptInv(db) /\ ReportedInv /\ Spaced

-----------------------------------------------------------------------------
(* Lemmas about the helpers.                                               *)

\* The smaller of two numbers.
LEMMA MinOfTwo ==
  ASSUME NEW a \in Int, NEW b \in Int
  PROVE  Min({a, b}) = IF a <= b THEN a ELSE b
<1> DEFINE m == IF a <= b THEN a ELSE b
<1>1. m \in {a, b} /\ \A y \in {a, b} : m =< y
  OBVIOUS
<1>2. \A x \in {a, b} : (\A y \in {a, b} : x =< y) => x = m
  OBVIOUS
<1> QED
  BY <1>1, <1>2 DEF Min

\* Every key has a counter, in which its build decides what it shares.
LEMMA UnitOfKey ==
  /\ \A k \in Keys : Unit(k) \in Units
  /\ \A k \in Keys, u \in Units : k \in UnitKeys(u) <=> Unit(k) = u
  /\ build.algorithm \notin PerRow => Units = Keys /\ \A k \in Keys : Unit(k) = k
BY DEF Units, UnitKeys, Unit

\* The keys of the chosen units are read, the others are kept.
LEMMA TransferMember ==
  ASSUME NEW cooked \in SUBSET Keys, NEW raw \in SUBSET Keys, NEW us \in SUBSET Units
  PROVE  /\ Transfer(cooked, raw, us) \in SUBSET Keys
         /\ \A k \in Keys : k \in Transfer(cooked, raw, us) <=>
              IF Unit(k) \in us THEN k \in raw ELSE k \in cooked
<1>1. \A k \in Keys : k \in UNION {UnitKeys(u) : u \in us} <=> Unit(k) \in us
  BY DEF UnitKeys
<1> QED
  BY <1>1 DEF Transfer

\* With a counter for each key, a counter differs when its key does.
LEMMA DiffersKey ==
  ASSUME build.algorithm \notin PerRow, NEW m, NEW raw, NEW k \in Keys
  PROVE  Differs(m, raw, k) <=> (k \in raw) # (k \in m.cooked)
<1>1. UnitKeys(k) = {k}
  BY DEF UnitKeys, Unit
<1> QED
  BY <1>1 DEF Differs

\* What CountDown does to each counter, and to nothing else.
LEMMA CountDownFacts ==
  ASSUME NEW m \in Db, FlagsInv(m), Algorithm \in Counters
  PROVE  /\ CountDown(m) \in Db /\ FlagsInv(CountDown(m))
         /\ CountDown(m).cooked = m.cooked /\ CountDown(m).pressed = m.pressed
         /\ Ending(m) = {u \in Units : m.counter[u] # DEBOUNCE_ELAPSED /\ m.counter[u] <= m.last_time}
         /\ \A u \in Units :
              CountDown(m).counter[u] = IF m.counter[u] <= m.last_time THEN DEBOUNCE_ELAPSED
                                        ELSE m.counter[u] - m.last_time
         /\ CountDown(m).last_time = IF m.counters_need_update THEN 0 ELSE m.last_time
         /\ \A u \in Units : CountDown(m).counter[u] # DEBOUNCE_ELAPSED => CountDown(m).last_time = 0
<1> DEFINE left == [u \in Units |-> IF m.counter[u] <= m.last_time THEN DEBOUNCE_ELAPSED
                                    ELSE m.counter[u] - m.last_time]
<1>1. left \in [Units -> 0 .. DEBOUNCE]
  BY DebounceAssumption DEF Db, DEBOUNCE_ELAPSED
<1>2. CASE ~m.counters_need_update
  <2>1. CountDown(m) = m
    BY <1>2 DEF CountDown
  <2>2. \A u \in Units : m.counter[u] = 0
    BY <1>2 DEF FlagsInv, DEBOUNCE_ELAPSED
  <2>3. m.last_time >= 0
    BY DebounceAssumption DEF Db
  <2> QED
    BY <1>2, <2>1, <2>2, <2>3 DEF Ending, DEBOUNCE_ELAPSED
<1>3. CASE m.counters_need_update
  <2> DEFINE goesOn == m.last_time = 0 \/ \E u \in Units : left[u] # DEBOUNCE_ELAPSED
  <2>0. goesOn \in BOOLEAN
    OBVIOUS
  <2>1. CountDown(m) = [m EXCEPT !.counter = left, !.last_time = 0,
                                 !.counters_need_update = goesOn]
    BY <1>3 DEF CountDown
  <2> HIDE DEF left, goesOn
  <2>2. CountDown(m) = [cooked |-> m.cooked, counter |-> left, pressed |-> m.pressed,
                        counters_need_update |-> goesOn,
                        matrix_need_update |-> m.matrix_need_update, last_time |-> 0]
    BY <2>1 DEF Db
  <2>3. CountDown(m) \in Db
    BY <1>1, <2>0, <2>2, DebounceAssumption DEF Db
  <2> USE DEF left, goesOn
  <2>4. FlagsInv(CountDown(m))
    <3>1. \A k \in Units : left[k] # DEBOUNCE_ELAPSED => m.counter[k] # DEBOUNCE_ELAPSED
      BY DebounceAssumption DEF Db, DEBOUNCE_ELAPSED
    <3>2. Algorithm = "asym_eager_defer_pk" => Units = Keys
      BY UnitOfKey DEF Algorithm, PerRow
    <3>3. ~goesOn => \A u \in Units : left[u] = DEBOUNCE_ELAPSED
      OBVIOUS
    <3> HIDE DEF left, goesOn
    <3> QED
      BY <2>2, <3>1, <3>2, <3>3 DEF FlagsInv
  <2> QED
    BY <1>3, <2>2, <2>3, <2>4 DEF Ending
<1> QED
  BY <1>2, <1>3

-----------------------------------------------------------------------------
(* Time passes between two scans.                                          *)

\* What the ms before a scan add to an age, they also add to what the counter
\* is still to be charged.
LEMMA ChargedLater ==
  ASSUME NEW m \in Db, NEW u \in Units, NEW age \in Nat, NEW total \in Nat, NEW limit \in Nat,
         NEW d \in Nat, total <= limit, Charged(m, u, age, total)
  PROVE  Charged([m EXCEPT !.last_time = Saturated(@ + d)], u, Aged(age, d, limit), total)
<1> DEFINE n == [m EXCEPT !.last_time = Saturated(@ + d)]
<1>1. m.last_time \in Nat /\ m.counter[u] \in Nat /\ DEBOUNCE \in Nat
  BY DebounceAssumption DEF Db
<1>2. n.counter = m.counter /\ n.last_time = Saturated(m.last_time + d)
  BY DEF Db
<1>3. Saturated(m.last_time + d) \in Int /\ Saturated(m.last_time + d) <= m.last_time + d
  BY <1>1, MinOfTwo DEF Saturated
<1>4. Aged(age, d, limit) = IF age + d <= limit THEN age + d ELSE limit
  BY MinOfTwo DEF Aged
<1> QED
  BY <1>1, <1>2, <1>3, <1>4 DEF Charged

\* The limits of the ages are no less than any wait.
LEMMA Limits ==
  /\ Apart \in Nat /\ Latency \in Nat
  /\ Algorithm # "none" => DEBOUNCE <= Apart /\ DEBOUNCE <= Latency
  /\ Algorithm = "asym_eager_defer_pk" => 2 * DEBOUNCE <= Apart
  /\ Algorithm = "none" => Apart = 0
BY DebounceAssumption DEF Apart, Latency

\* The state a debounce algorithm works on.
Ready(m, q, s) ==
  /\ m \in Db /\ FlagsInv(m) /\ SpacedInv(m, q) /\ DeferredInv(m, raw_matrix, s)
  /\ LateInv(m, raw_matrix, s, MAX_STALL) /\ raw_matrix \in SUBSET Keys
  /\ q \in [Keys -> 0 .. Apart] /\ s \in [Keys -> 0 .. Latency]

\* What the ms before a scan add, the invariant bears.
LEMMA Passing ==
  ASSUME TypeInv, FlagsInv(db), SpacedInv(db, quiet), DeferredInv(db, raw_matrix, still),
         LateInv(db, raw_matrix, still, 0), PromptInv(db),
         NEW d \in 0 .. MAX_STALL
  PROVE  Ready([db EXCEPT !.last_time = Saturated(@ + d)],
               [k \in Keys |-> Aged(quiet[k], d, Apart)],
               [k \in Keys |-> Aged(still[k], d, Latency)])
<1> DEFINE m == [db EXCEPT !.last_time = Saturated(@ + d)]
           q == [k \in Keys |-> Aged(quiet[k], d, Apart)]
           s == [k \in Keys |-> Aged(still[k], d, Latency)]
<1>1. /\ db \in Db /\ d \in Nat /\ DEBOUNCE \in Nat /\ db.last_time \in Nat
      /\ \A k \in Keys : quiet[k] \in 0 .. Apart /\ still[k] \in 0 .. Latency
  BY DebounceAssumption DEF TypeInv, Db
<1>2. Saturated(db.last_time + d) = IF db.last_time + d <= DEBOUNCE THEN db.last_time + d
                                    ELSE DEBOUNCE
  BY <1>1, MinOfTwo DEF Saturated
<1>3. \A k \in Keys : /\ q[k] = IF quiet[k] + d <= Apart THEN quiet[k] + d ELSE Apart
                      /\ s[k] = IF still[k] + d <= Latency THEN still[k] + d ELSE Latency
  BY <1>1, MinOfTwo, Limits DEF Aged
<1>4. m = [cooked |-> db.cooked, counter |-> db.counter, pressed |-> db.pressed,
           counters_need_update |-> db.counters_need_update,
           matrix_need_update |-> db.matrix_need_update,
           last_time |-> Saturated(db.last_time + d)]
  BY <1>1 DEF Db
<1>5. m \in Db
  BY <1>1, <1>2, <1>4 DEF Db
<1>6. q \in [Keys -> 0 .. Apart] /\ s \in [Keys -> 0 .. Latency]
  BY <1>1, <1>3, Limits
<1>7. FlagsInv(m)
  BY <1>4 DEF FlagsInv
<1>8. ASSUME NEW k \in Keys, NEW u \in Units, NEW total \in Nat
      PROVE  /\ total <= Apart /\ Charged(db, u, quiet[k], total) => Charged(m, u, q[k], total)
             /\ total <= Latency /\ Charged(db, u, still[k], total) => Charged(m, u, s[k], total)
  <2>1. quiet[k] \in Nat /\ still[k] \in Nat
    BY <1>1, Limits
  <2> QED
    BY <1>1, <2>1, Limits, ChargedLater
<1>9. SpacedInv(m, q)
  <2> SUFFICES ASSUME NEW k \in Keys
               PROVE  SpacedKey(m, q, k)
    BY DEF SpacedInv
  <2>0. SpacedKey(db, quiet, k)
    BY DEF SpacedInv
  <2>1. CASE Algorithm = "sym_defer_g"
    BY <1>1, <1>2, <1>3, <1>4, <2>0, <2>1, Limits DEF SpacedKey
  <2>2. CASE Algorithm \in {"sym_defer_pk", "sym_defer_pr", "sym_eager_pk", "sym_eager_pr"}
    BY <1>1, <1>4, <1>8, <2>0, <2>2, Limits, UnitOfKey DEF SpacedKey
  <2>3. CASE Algorithm = "asym_eager_defer_pk"
    <3>1. k \in Units /\ DEBOUNCE \in Nat /\ 2 * DEBOUNCE \in Nat
      BY <1>1, <2>3, UnitOfKey DEF Algorithm, PerRow
    <3>2. /\ Charged(db, k, quiet[k], DEBOUNCE) => Charged(m, k, q[k], DEBOUNCE)
          /\ Charged(db, k, quiet[k], 2 * DEBOUNCE) => Charged(m, k, q[k], 2 * DEBOUNCE)
      BY <1>8, <2>3, <3>1, Limits
    <3> QED
      BY <1>4, <2>0, <2>3, <3>2 DEF SpacedKey
  <2>4. CASE Algorithm \notin {"sym_defer_g", "sym_defer_pk", "sym_defer_pr", "sym_eager_pk",
                               "sym_eager_pr", "asym_eager_defer_pk"}
    BY <2>4 DEF SpacedKey
  <2> QED
    BY <2>1, <2>2, <2>3, <2>4
<1>10. DeferredInv(m, raw_matrix, s)
  <2> SUFFICES ASSUME NEW k \in Keys
               PROVE  DeferredKey(m, raw_matrix, s, k)
    BY DEF DeferredInv
  <2>0. DeferredKey(db, raw_matrix, still, k)
    BY DEF DeferredInv
  <2>1. CASE Algorithm = "sym_defer_g"
    BY <1>1, <1>2, <1>3, <1>4, <2>0, <2>1, Limits DEF DeferredKey
  <2>2. CASE Algorithm = "sym_defer_pr"
    BY <1>1, <1>4, <1>8, <2>0, <2>2, Limits, UnitOfKey DEF DeferredKey
  <2>3. CASE Algorithm \in {"sym_defer_pk", "asym_eager_defer_pk"}
    <3>1. k \in Units
      BY <2>3, UnitOfKey DEF Algorithm, PerRow
    <3>2. Charged(db, k, still[k], DEBOUNCE) => Charged(m, k, s[k], DEBOUNCE)
      BY <1>1, <1>8, <2>3, <3>1, Limits
    <3> QED
      BY <1>4, <2>0, <2>3, <3>2 DEF DeferredKey
  <2>4. CASE Algorithm \notin {"sym_defer_g", "sym_defer_pr", "sym_defer_pk", "asym_eager_defer_pk"}
    BY <2>4 DEF DeferredKey
  <2> QED
    BY <2>1, <2>2, <2>3, <2>4
<1>11. LateInv(m, raw_matrix, s, MAX_STALL)
  <2> SUFFICES ASSUME DEBOUNCE # 0, NEW k \in Keys, (k \in raw_matrix) # (k \in db.cooked)
               PROVE  LateKey(m, raw_matrix, s, k, MAX_STALL)
    BY <1>4 DEF LateInv, LateKey
  <2>0. LateKey(db, raw_matrix, still, k, 0) /\ Unit(k) \in Units
    BY UnitOfKey DEF LateInv
  <2>1. /\ still[k] \in Nat /\ MAX_STALL \in Nat /\ d <= MAX_STALL /\ Latency \in Nat
        /\ db.counter[Unit(k)] \in 0 .. DEBOUNCE /\ s[k] <= still[k] + d
    BY <1>1, <1>3, <2>0, Limits, DebounceAssumption DEF Db
  <2>2. CASE Algorithm = "sym_defer_g"
    <3>1. still[k] <= db.last_time /\ db.counters_need_update /\ Latency = DEBOUNCE
      BY <2>0, <2>2 DEF LateKey, Latency
    <3>2. s[k] <= m.last_time
      BY <1>1, <1>2, <1>3, <1>4, <2>1, <3>1
    <3> QED
      BY <1>4, <2>2, <3>1, <3>2 DEF LateKey, Counters
  <2>3. CASE Algorithm \in Counters \cup {"sym_defer_pr"}
    <3> DEFINE c == db.counter[Unit(k)]
               total == IF Algorithm = "asym_eager_defer_pk" /\ k \notin db.pressed
                        THEN Latency ELSE DEBOUNCE
    <3>1. c # 0 /\ (c <= db.last_time \/ still[k] + c <= total + db.last_time)
      BY <2>0, <2>3 DEF LateKey, DEBOUNCE_ELAPSED
    <3>2. db.last_time = 0
      BY <2>0, <2>3, <3>1 DEF PromptInv, DEBOUNCE_ELAPSED
    <3>3. c <= m.last_time \/ s[k] + c <= total + m.last_time
      <4>1. total \in Nat
        BY <1>1, <2>1
      <4>2. c \in 0 .. DEBOUNCE /\ m.last_time = IF d <= DEBOUNCE THEN d ELSE DEBOUNCE
        BY <1>1, <1>2, <1>4, <2>1, <3>2
      <4>3. s[k] \in Nat
        BY <1>6, <2>1
      <4> HIDE DEF total, c, m, s
      <4> QED
        BY <1>1, <2>1, <3>1, <3>2, <4>1, <4>2, <4>3
    <3>4. /\ m.counter[Unit(k)] = c /\ m.pressed = db.pressed /\ m.cooked = db.cooked
      BY <1>4
    <3>5. Algorithm = "asym_eager_defer_pk" =>
            k \in m.cooked /\ (k \in m.pressed => s[k] < DEBOUNCE + MAX_STALL)
      <4>1. Algorithm = "asym_eager_defer_pk" =>
              k \in db.cooked /\ (k \in db.pressed => still[k] < DEBOUNCE + 0)
        BY <2>0 DEF LateKey
      <4>2. s[k] \in Nat
        BY <1>6, <2>1
      <4> HIDE DEF m, s
      <4> QED
        BY <1>1, <2>1, <3>4, <4>1, <4>2
    <3>6. Algorithm # "sym_defer_g"
      BY <2>3 DEF Counters
    <3> QED
      BY <3>1, <3>3, <3>4, <3>5, <3>6 DEF LateKey, DEBOUNCE_ELAPSED
  <2>4. CASE Algorithm \notin Counters \cup {"sym_defer_pr", "sym_defer_g"}
    BY <2>4 DEF LateKey, Counters
  <2> QED
    BY <2>2, <2>3, <2>4
<1> QED
  BY <1>5, <1>6, <1>7, <1>9, <1>10, <1>11 DEF Ready, TypeInv

-----------------------------------------------------------------------------
(* One scan, algorithm by algorithm.                                       *)

Moves(m, n) == {k \in Keys : (k \in n.cooked) # (k \in m.cooked)}

QuietAfter(m, n, q) == [k \in Keys |-> IF k \in Moves(m, n) THEN 0 ELSE q[k]]

StillAfter(raw, s) ==
  [k \in Keys |-> IF Watched(k) \cap raw # Watched(k) \cap raw_matrix THEN 0 ELSE s[k]]

\* Defers, of a state that is about to move.
DefersFrom(m, k) == \/ build.algorithm \in {"sym_defer_g", "sym_defer_pk", "sym_defer_pr"}
                    \/ build.algorithm = "asym_eager_defer_pk" /\ k \in m.cooked

\* What a scan makes of m: the invariant again, and the moves are those allowed.
Sound(m, n, raw, q, s) ==
  /\ n \in Db /\ FlagsInv(n)
  /\ SpacedInv(n, QuietAfter(m, n, q)) /\ DeferredInv(n, raw, StillAfter(raw, s))
  /\ LateInv(n, raw, StillAfter(raw, s), 0) /\ PromptInv(n)
  /\ \A k \in Moves(m, n) :
       /\ \/ q[k] >= Apart
          \/ Algorithm = "asym_eager_defer_pk" /\ k \in n.cooked
       /\ DefersFrom(m, k) => StillAfter(raw, s)[k] >= DEBOUNCE

\* A key is one of those it is watched with.
LEMMA WatchedItself ==
  ASSUME NEW k \in Keys, NEW raw, Watched(k) \cap raw = Watched(k) \cap raw_matrix
  PROVE  k \in raw <=> k \in raw_matrix
BY DEF Watched

\* The types of the state before a scan.
Typed(m, q, s, raw) ==
  /\ m \in Db /\ DEBOUNCE \in Nat /\ m.last_time \in 0 .. DEBOUNCE
  /\ m.cooked \in SUBSET Keys /\ m.pressed \in SUBSET Units
  /\ m.counter \in [Units -> 0 .. DEBOUNCE]
  /\ m.counters_need_update \in BOOLEAN /\ m.matrix_need_update \in BOOLEAN
  /\ \A k \in Keys : /\ q[k] \in Nat /\ q[k] <= Apart /\ s[k] \in Nat
                     /\ StillAfter(raw, s)[k] \in Nat
                     /\ StillAfter(raw, s)[k] =
                          IF Watched(k) \cap raw # Watched(k) \cap raw_matrix THEN 0 ELSE s[k]
                     /\ (k \in raw) # (k \in raw_matrix) => StillAfter(raw, s)[k] = 0

\* What stands before a scan has these types.
LEMMA ReadyTypes ==
  ASSUME NEW m, NEW q, NEW s, Ready(m, q, s), NEW raw
  PROVE  Typed(m, q, s, raw)
<1>1. \A k \in Keys : (k \in raw) # (k \in raw_matrix) => StillAfter(raw, s)[k] = 0
  BY WatchedItself DEF StillAfter
<1> QED
  BY <1>1, DebounceAssumption, Limits DEF Ready, Db, StillAfter, Typed

\* Without debouncing every reading is taken over.
LEMMA NoneSound ==
  ASSUME NEW m, NEW q, NEW s, Ready(m, q, s), NEW raw \in SUBSET Keys, build \in Builds,
         Algorithm = "none"
  PROVE  Sound(m, none(m, raw, raw # raw_matrix), raw, q, s)
<1> DEFINE n == none(m, raw, raw # raw_matrix)
<1>0. Typed(m, q, s, raw)
  BY ReadyTypes
<1>1. n = m \/ n = [m EXCEPT !.cooked = raw]
  BY DEF none
<1> HIDE DEF n
<1>2. n \in Db
  BY <1>0, <1>1 DEF Db, Typed
<1>3. Apart = 0 /\ (DEBOUNCE = 0 \/ build.algorithm = "none")
  BY Limits DEF Algorithm
<1>4. /\ FlagsInv(n) /\ SpacedInv(n, QuietAfter(m, n, q)) /\ DeferredInv(n, raw, StillAfter(raw, s))
      /\ LateInv(n, raw, StillAfter(raw, s), 0) /\ PromptInv(n)
  BY DEF FlagsInv, SpacedInv, SpacedKey, DeferredInv, DeferredKey, LateInv, LateKey, PromptInv, Counters
<1>5. \A k \in Moves(m, n) : q[k] >= Apart /\ (DefersFrom(m, k) => StillAfter(raw, s)[k] >= DEBOUNCE)
  BY <1>0, <1>3 DEF Typed, DefersFrom, Moves
<1> QED
  BY <1>2, <1>4, <1>5 DEF Sound, n

\* The whole matrix waits for one timer.
LEMMA GlobalSound ==
  ASSUME NEW m, NEW q, NEW s, Ready(m, q, s), NEW raw \in SUBSET Keys,
         Algorithm = "sym_defer_g"
  PROVE  Sound(m, sym_defer_g(m, raw, raw # raw_matrix), raw, q, s)
<1> DEFINE n == sym_defer_g(m, raw, raw # raw_matrix)
<1>0. Typed(m, q, s, raw)
  BY ReadyTypes
<1>1. \A k \in Keys : m.counters_need_update => q[k] >= m.last_time /\ s[k] >= m.last_time
  BY DEF Ready, SpacedInv, SpacedKey, DeferredInv, DeferredKey
<1>2. Apart = DEBOUNCE /\ \A k \in Keys : Watched(k) = Keys
  BY DEF Apart, Watched
<1>3. ASSUME NEW c \in SUBSET Keys, NEW b \in BOOLEAN, NEW t \in 0 .. DEBOUNCE,
             n = [m EXCEPT !.cooked = c, !.counters_need_update = b, !.last_time = t],
             b => \A k \in Keys : QuietAfter(m, n, q)[k] >= t /\ StillAfter(raw, s)[k] >= t,
             c = m.cooked \/ \A k \in Keys : q[k] >= Apart /\ StillAfter(raw, s)[k] >= DEBOUNCE,
             b => t < DEBOUNCE,
             \A k \in Keys : (k \in raw) # (k \in c) => b /\ StillAfter(raw, s)[k] <= t
      PROVE  Sound(m, n, raw, q, s)
  <2> HIDE DEF n
  <2>1. n = [cooked |-> c, counter |-> m.counter, pressed |-> m.pressed,
             counters_need_update |-> b, matrix_need_update |-> m.matrix_need_update,
             last_time |-> t]
    BY <1>0, <1>3 DEF Typed, Db
  <2>2. n \in Db
    BY <1>0, <2>1 DEF Typed, Db
  <2>3. FlagsInv(n)
    BY DEF FlagsInv, Counters
  <2>4. SpacedInv(n, QuietAfter(m, n, q)) /\ DeferredInv(n, raw, StillAfter(raw, s))
    BY <1>3, <2>1 DEF SpacedInv, SpacedKey, DeferredInv, DeferredKey
  <2>5. \A k \in Moves(m, n) : q[k] >= Apart /\ StillAfter(raw, s)[k] >= DEBOUNCE
    BY <1>3, <2>1 DEF Moves
  <2>6. LateInv(n, raw, StillAfter(raw, s), 0) /\ PromptInv(n)
    BY <1>3, <2>1 DEF LateInv, LateKey, PromptInv, Counters
  <2> QED
    BY <2>2, <2>3, <2>4, <2>5, <2>6 DEF Sound
<1>4. CASE raw # raw_matrix
  <2>1. n = [m EXCEPT !.cooked = m.cooked, !.counters_need_update = TRUE, !.last_time = 0]
    BY <1>0, <1>4 DEF sym_defer_g, Typed, Db
  <2>2. \A k \in Keys : QuietAfter(m, n, q)[k] >= 0 /\ StillAfter(raw, s)[k] >= 0
    BY <1>0 DEF Typed, QuietAfter
  <2>3. /\ m.cooked \in SUBSET Keys /\ TRUE \in BOOLEAN /\ 0 \in 0 .. DEBOUNCE /\ 0 < DEBOUNCE
    BY <1>0 DEF Typed, Algorithm
  <2>4. \A k \in Keys : StillAfter(raw, s)[k] <= 0
    <3>1. Keys \cap raw # Keys \cap raw_matrix
      BY <1>4 DEF Ready
    <3> QED
      BY <1>0, <1>2, <3>1 DEF Typed
  <2> QED
    BY <1>3, <2>1, <2>2, <2>3, <2>4
<1>5. CASE raw = raw_matrix /\ m.counters_need_update /\ m.last_time >= DEBOUNCE
  <2>1. n = [m EXCEPT !.cooked = raw, !.counters_need_update = FALSE, !.last_time = m.last_time]
    BY <1>0, <1>5 DEF sym_defer_g, Typed, Db
  <2>2. \A k \in Keys : q[k] >= Apart /\ StillAfter(raw, s)[k] >= DEBOUNCE
    BY <1>0, <1>1, <1>2, <1>5 DEF Typed
  <2> QED
    BY <1>0, <1>3, <2>1, <2>2 DEF Typed
<1>6. CASE raw = raw_matrix /\ ~(m.counters_need_update /\ m.last_time >= DEBOUNCE)
  <2>1. n = m
    BY <1>6 DEF sym_defer_g
  <2>2. n = [m EXCEPT !.cooked = m.cooked, !.counters_need_update = m.counters_need_update,
                      !.last_time = m.last_time]
    BY <1>0, <2>1 DEF Typed, Db
  <2>3. \A k \in Keys : QuietAfter(m, n, q)[k] = q[k] /\ StillAfter(raw, s)[k] = s[k]
    BY <1>0, <1>6, <2>1 DEF Typed, QuietAfter, Moves
  <2>4. \A k \in Keys : (k \in raw) # (k \in m.cooked) =>
          m.counters_need_update /\ s[k] <= m.last_time
    <3>1. DEBOUNCE # 0
      BY DEF Algorithm
    <3> QED
      BY <1>6, <3>1 DEF Ready, LateInv, LateKey
  <2>5. m.counters_need_update => m.last_time < DEBOUNCE
    BY <1>0, <1>6 DEF Typed
  <2>6. /\ m.cooked \in SUBSET Keys /\ m.counters_need_update \in BOOLEAN
        /\ m.last_time \in 0 .. DEBOUNCE
        /\ m.counters_need_update => \A k \in Keys : /\ QuietAfter(m, n, q)[k] >= m.last_time
                                                   /\ StillAfter(raw, s)[k] >= m.last_time
        /\ \A k \in Keys : (k \in raw) # (k \in m.cooked) =>
             m.counters_need_update /\ StillAfter(raw, s)[k] <= m.last_time
    BY <1>0, <1>1, <2>3, <2>4 DEF Typed
  <2> QED
    BY <1>3, <2>2, <2>5, <2>6
<1> QED
  BY <1>4, <1>5, <1>6

\* The keys of a row wait for the countdown of the row.
LEMMA RowSound ==
  ASSUME NEW m, NEW q, NEW s, Ready(m, q, s), NEW raw \in SUBSET Keys,
         Algorithm = "sym_defer_pr"
  PROVE  Sound(m, sym_defer_pr(m, raw, raw_matrix), raw, q, s)
<1> DEFINE moved == {u \in Units : UnitKeys(u) \cap raw # UnitKeys(u) \cap raw_matrix}
           over == {u \in Units \ moved : m.counter[u] # 0 /\ m.counter[u] <= m.last_time}
           counter == [u \in Units |-> IF u \in moved THEN DEBOUNCE
                                       ELSE IF u \in over THEN 0
                                       ELSE IF m.counter[u] > m.last_time
                                            THEN m.counter[u] - m.last_time
                                       ELSE m.counter[u]]
           cooked == Transfer(m.cooked, raw, over)
           n == sym_defer_pr(m, raw, raw_matrix)
<1>0. Typed(m, q, s, raw)
  BY ReadyTypes
<1>1. n = [m EXCEPT !.counter = counter, !.cooked = cooked, !.last_time = 0]
  BY <1>0 DEF sym_defer_pr, Typed, Db
<1>2. counter \in [Units -> 0 .. DEBOUNCE]
  BY <1>0 DEF Typed
<1>3. /\ cooked \in SUBSET Keys
      /\ \A k \in Keys : k \in cooked <=> IF Unit(k) \in over THEN k \in raw ELSE k \in m.cooked
  BY <1>0, TransferMember DEF Typed
<1>4. n = [cooked |-> cooked, counter |-> counter, pressed |-> m.pressed,
           counters_need_update |-> m.counters_need_update,
           matrix_need_update |-> m.matrix_need_update, last_time |-> 0]
  <2> HIDE DEF n, cooked, counter
  <2> QED
    BY <1>0, <1>1 DEF Typed, Db
<1>5. n \in Db
  <2> HIDE DEF n, cooked, counter
  <2> QED
    BY <1>0, <1>2, <1>3, <1>4 DEF Typed, Db
<1>6. FlagsInv(n)
  BY DEF FlagsInv, Counters
<1>7. ASSUME NEW k \in Keys
      PROVE  /\ SpacedKey(n, QuietAfter(m, n, q), k)
             /\ DeferredKey(n, raw, StillAfter(raw, s), k)
             /\ k \in Moves(m, n) => q[k] >= Apart /\ StillAfter(raw, s)[k] >= DEBOUNCE
             /\ DEBOUNCE # 0 => LateKey(n, raw, StillAfter(raw, s), k, 0)
  <2> DEFINE u == Unit(k)
  <2>1. u \in Units
    BY UnitOfKey
  <2>2. m.counter[u] # DEBOUNCE_ELAPSED =>
          Charged(m, u, q[k], DEBOUNCE) /\ Charged(m, u, s[k], DEBOUNCE)
    BY DEF Ready, SpacedInv, SpacedKey, DeferredInv, DeferredKey
  <2>3. Apart = DEBOUNCE /\ Watched(k) = UnitKeys(u)
    <3>1. build.algorithm = "sym_defer_pr"
      BY DEF Algorithm
    <3> QED
      BY <3>1 DEF Apart, Watched, UnitKeys, Unit, PerRow
  <2>4. u \notin moved => StillAfter(raw, s)[k] = s[k]
    BY <1>0, <2>1, <2>3 DEF Typed
  <2>5. k \in Moves(m, n) => u \in over
    <3> HIDE DEF cooked, counter, over, n
    <3> QED
      BY <1>3, <1>4 DEF Moves
  <2>6. n.counter[u] = counter[u] /\ n.last_time = 0
    BY <1>4, <2>1
  <2>7. q[k] \in Nat /\ s[k] \in Nat /\ StillAfter(raw, s)[k] \in Nat /\ DEBOUNCE \in Nat
        /\ QuietAfter(m, n, q)[k] \in {0, q[k]} /\ m.counter[u] \in Nat /\ m.last_time \in Nat
    BY <1>0, <2>1 DEF Typed, QuietAfter
  <2>8. u \in over => q[k] >= DEBOUNCE /\ s[k] >= DEBOUNCE
    BY <2>2, <2>7 DEF Charged, DEBOUNCE_ELAPSED
  <2>9. k \in Moves(m, n) => q[k] >= Apart /\ StillAfter(raw, s)[k] >= DEBOUNCE
    BY <2>3, <2>4, <2>5, <2>8
  <2>10. QuietAfter(m, n, q)[k] = IF k \in Moves(m, n) THEN 0 ELSE q[k]
    BY DEF QuietAfter
  <2>11. n.counter[u] # DEBOUNCE_ELAPSED =>
           /\ Charged(n, u, QuietAfter(m, n, q)[k], DEBOUNCE)
           /\ Charged(n, u, StillAfter(raw, s)[k], DEBOUNCE)
    <3>1. CASE u \in moved
      <4>1. n.counter[u] = DEBOUNCE
        BY <2>1, <2>6, <3>1
      <4> QED
        BY <2>6, <2>7, <4>1 DEF Charged
    <3>2. CASE u \in over
      BY <2>1, <2>6, <3>2 DEF DEBOUNCE_ELAPSED
    <3>3. CASE u \notin moved /\ u \notin over
      <4>1. n.counter[u] = IF m.counter[u] > m.last_time THEN m.counter[u] - m.last_time
                           ELSE m.counter[u]
        BY <2>1, <2>6, <3>3
      <4>2. m.counter[u] <= m.last_time => m.counter[u] = 0
        BY <2>1, <2>7, <3>3
      <4>3. k \notin Moves(m, n)
        BY <2>5, <3>3
      <4> HIDE DEF n, moved, over, u
      <4> QED
        BY <2>2, <2>4, <2>6, <2>7, <2>10, <3>3, <4>1, <4>2, <4>3 DEF Charged, DEBOUNCE_ELAPSED
    <3> QED
      BY <3>1, <3>2, <3>3
  <2>12. ASSUME DEBOUNCE # 0, (k \in raw) # (k \in n.cooked)
         PROVE  n.counter[u] # 0 /\ StillAfter(raw, s)[k] + n.counter[u] <= DEBOUNCE
    <3>1. u \notin over /\ (k \in n.cooked <=> k \in m.cooked)
      <4> HIDE DEF cooked, counter, over, n
      <4> QED
        BY <1>3, <1>4, <2>12
    <3>2. CASE u \in moved
      <4>1. n.counter[u] = DEBOUNCE
        BY <2>1, <2>6, <3>2
      <4>2. StillAfter(raw, s)[k] = 0
        BY <1>0, <2>3, <3>2 DEF Typed
      <4> QED
        BY <2>7, <2>12, <4>1, <4>2
    <3>3. CASE u \notin moved
      <4>1. UnitKeys(u) \cap raw = UnitKeys(u) \cap raw_matrix /\ k \in UnitKeys(u)
        BY <2>1, <3>3, UnitOfKey
      <4>2. (k \in raw_matrix) # (k \in m.cooked)
        BY <2>12, <3>1, <4>1
      <4>3. m.counter[u] # 0 /\ (m.counter[u] <= m.last_time \/ s[k] + m.counter[u] <= DEBOUNCE + m.last_time)
        BY <2>12, <4>2 DEF Ready, LateInv, LateKey, DEBOUNCE_ELAPSED
      <4>4. m.counter[u] > m.last_time
        BY <2>1, <2>7, <3>1, <3>3, <4>3
      <4>5. n.counter[u] = m.counter[u] - m.last_time
        BY <2>1, <2>6, <3>1, <3>3, <4>4
      <4> HIDE DEF n, u
      <4> QED
        BY <2>4, <2>7, <3>3, <4>3, <4>4, <4>5
    <3> QED
      BY <3>2, <3>3
  <2>13. DEBOUNCE # 0 => LateKey(n, raw, StillAfter(raw, s), k, 0)
    <3> HIDE DEF n
    <3> QED
      BY <2>6, <2>7, <2>12 DEF LateKey, DEBOUNCE_ELAPSED
  <2> HIDE DEF n
  <2> QED
    BY <2>9, <2>11, <2>13 DEF SpacedKey, DeferredKey
<1>8. PromptInv(n)
  <2> HIDE DEF n, cooked, counter
  <2> QED
    BY <1>4 DEF PromptInv
<1> HIDE DEF n
<1>9. Sound(m, n, raw, q, s)
  BY <1>5, <1>6, <1>7, <1>8 DEF Sound, SpacedInv, DeferredInv, LateInv, Moves
<1> QED
  BY <1>9 DEF n

\* CountDown charges a counter all the time there is to charge: what it has
\* then run down is time that has passed.
LEMMA ChargedDown ==
  ASSUME NEW m \in Db, FlagsInv(m), Algorithm \in Counters,
         NEW u \in Units, NEW age \in Nat, NEW total \in Nat, Charged(m, u, age, total)
  PROVE  /\ m.counter[u] <= m.last_time => age >= total
         /\ \/ age >= total
            \/ CountDown(m).last_time = 0 /\ age + CountDown(m).counter[u] >= total
<1>1. m.counter[u] \in Nat /\ m.last_time \in Nat
  BY DebounceAssumption DEF Db
<1>2. ~m.counters_need_update => m.counter[u] = 0
  BY DEF FlagsInv, DEBOUNCE_ELAPSED
<1>3. /\ CountDown(m).counter[u] = IF m.counter[u] <= m.last_time THEN 0
                                   ELSE m.counter[u] - m.last_time
      /\ CountDown(m).last_time = IF m.counters_need_update THEN 0 ELSE m.last_time
  BY CountDownFacts DEF DEBOUNCE_ELAPSED
<1> QED
  BY <1>1, <1>2, <1>3 DEF Charged

\* A key that differs waits for its own counter.
LEMMA KeySound ==
  ASSUME NEW m, NEW q, NEW s, Ready(m, q, s), NEW raw \in SUBSET Keys,
         Algorithm = "sym_defer_pk"
  PROVE  Sound(m, sym_defer_pk(m, raw, raw # raw_matrix), raw, q, s)
<1> DEFINE d == CountDown(m)
           cooked == Transfer(m.cooked, raw, Ending(m))
           us == {u \in Units : (u \in raw) # (u \in cooked)}
           new == {u \in us : d.counter[u] = DEBOUNCE_ELAPSED}
           started == [u \in Units |-> IF u \in new THEN DEBOUNCE
                                       ELSE IF u \in us THEN d.counter[u] ELSE DEBOUNCE_ELAPSED]
           n == sym_defer_pk(m, raw, raw # raw_matrix)
<1>0. Typed(m, q, s, raw)
  BY ReadyTypes
<1>a. build.algorithm = "sym_defer_pk" /\ Algorithm \in Counters
  BY DEF Algorithm, Counters
<1>b. Units = Keys /\ \A k \in Keys : Unit(k) = k
  BY <1>a, UnitOfKey DEF PerRow
<1>c. Apart = DEBOUNCE /\ DEBOUNCE \in Nat /\ \A k \in Keys : Watched(k) = {k}
  BY <1>0 DEF Apart, Watched, Typed
<1>1. /\ d \in Db /\ FlagsInv(d) /\ d.cooked = m.cooked /\ d.pressed = m.pressed
      /\ Ending(m) = {u \in Units : m.counter[u] # DEBOUNCE_ELAPSED /\ m.counter[u] <= m.last_time}
      /\ \A u \in Units : d.counter[u] = IF m.counter[u] <= m.last_time THEN DEBOUNCE_ELAPSED
                                         ELSE m.counter[u] - m.last_time
      /\ \A u \in Units : d.counter[u] # DEBOUNCE_ELAPSED => d.last_time = 0
  BY <1>0, <1>a, CountDownFacts DEF Ready, Typed
<1>2. /\ cooked \in SUBSET Keys
      /\ \A k \in Keys : k \in cooked <=> IF k \in Ending(m) THEN k \in raw ELSE k \in m.cooked
  BY <1>0, <1>1, <1>b, TransferMember DEF Typed
<1>3. ASSUME NEW c \in [Units -> 0 .. DEBOUNCE], NEW b \in BOOLEAN, NEW t \in 0 .. DEBOUNCE,
             n = [d EXCEPT !.cooked = cooked, !.counter = c, !.counters_need_update = b,
                           !.last_time = t],
             ~b => \A u \in Units : c[u] = DEBOUNCE_ELAPSED,
             t \in {0, d.last_time},
             \A k \in Keys : (k \in raw) # (k \in cooked) => c[k] # DEBOUNCE_ELAPSED,
             \A k \in Keys : c[k] # DEBOUNCE_ELAPSED =>
               /\ (k \in raw) # (k \in cooked)
               /\ \/ c[k] = DEBOUNCE /\ t = 0 /\ d.counter[k] = DEBOUNCE_ELAPSED
                  \/ c[k] = d.counter[k] /\ d.counter[k] # DEBOUNCE_ELAPSED
      PROVE  Sound(m, n, raw, q, s)
  <2> HIDE DEF n, d, cooked
  <2>1. n = [cooked |-> cooked, counter |-> c, pressed |-> d.pressed, counters_need_update |-> b,
             matrix_need_update |-> d.matrix_need_update, last_time |-> t]
    BY <1>1, <1>3 DEF Db
  <2>2. n \in Db
    BY <1>1, <1>2, <2>1 DEF Db
  <2>3. FlagsInv(n)
    BY <1>3, <2>1 DEF FlagsInv
  <2>4. ASSUME NEW k \in Keys
        PROVE  /\ SpacedKey(n, QuietAfter(m, n, q), k)
               /\ DeferredKey(n, raw, StillAfter(raw, s), k)
               /\ k \in Moves(m, n) => q[k] >= Apart /\ StillAfter(raw, s)[k] >= DEBOUNCE
               /\ LateKey(n, raw, StillAfter(raw, s), k, 0)
    <3>1. /\ k \in Units /\ q[k] \in Nat /\ s[k] \in Nat /\ StillAfter(raw, s)[k] \in Nat
          /\ m.counter[k] \in Nat /\ m.last_time \in Nat /\ d.counter[k] \in Nat
          /\ c[k] \in Nat /\ d.last_time \in Nat
      BY <1>0, <1>1, <1>3, <1>b DEF Typed, Db
    <3>2. m.counter[k] # DEBOUNCE_ELAPSED =>
            /\ (k \in raw_matrix) # (k \in m.cooked)
            /\ Charged(m, k, q[k], DEBOUNCE) /\ Charged(m, k, s[k], DEBOUNCE)
      BY <1>b DEF Ready, SpacedInv, SpacedKey, DeferredInv, DeferredKey
    <3>3. m.counter[k] # DEBOUNCE_ELAPSED =>
            /\ m.counter[k] <= m.last_time => q[k] >= DEBOUNCE /\ s[k] >= DEBOUNCE
            /\ q[k] < DEBOUNCE => d.last_time = 0 /\ q[k] + d.counter[k] >= DEBOUNCE
            /\ s[k] < DEBOUNCE => d.last_time = 0 /\ s[k] + d.counter[k] >= DEBOUNCE
      BY <1>0, <1>a, <1>c, <3>1, <3>2, ChargedDown DEF Ready, d
    <3>4. (k \in raw <=> k \in raw_matrix) => StillAfter(raw, s)[k] = s[k]
      BY <1>0, <1>c DEF Typed
    <3>5. k \in Moves(m, n) =>
            k \in Ending(m) /\ q[k] >= Apart /\ StillAfter(raw, s)[k] >= DEBOUNCE
      <4>1. k \in Moves(m, n) => k \in Ending(m) /\ (k \in raw) # (k \in m.cooked)
        BY <1>2, <2>1 DEF Moves
      <4>2. k \in Ending(m) => m.counter[k] # DEBOUNCE_ELAPSED /\ m.counter[k] <= m.last_time
        BY <1>1
      <4> QED
        BY <1>c, <3>2, <3>3, <3>4, <4>1, <4>2
    <3>6. QuietAfter(m, n, q)[k] = IF k \in Moves(m, n) THEN 0 ELSE q[k]
      BY DEF QuietAfter
    <3>7. ASSUME c[k] # DEBOUNCE_ELAPSED
          PROVE  /\ Charged(n, k, QuietAfter(m, n, q)[k], DEBOUNCE)
                 /\ Charged(n, k, StillAfter(raw, s)[k], DEBOUNCE)
      <4>1. CASE c[k] = DEBOUNCE /\ t = 0
        BY <1>c, <2>1, <3>1, <3>6, <4>1 DEF Charged
      <4>2. CASE c[k] = d.counter[k] /\ d.counter[k] # DEBOUNCE_ELAPSED
        <5>1. m.counter[k] > m.last_time /\ m.counter[k] # DEBOUNCE_ELAPSED
          BY <1>1, <3>1, <4>2 DEF DEBOUNCE_ELAPSED
        <5>2. k \notin Ending(m)
          BY <1>1, <3>1, <5>1
        <5>3. StillAfter(raw, s)[k] = s[k] /\ QuietAfter(m, n, q)[k] = q[k]
          BY <1>2, <1>3, <3>2, <3>4, <3>5, <3>6, <3>7, <5>1, <5>2
        <5>4. n.counter[k] = d.counter[k] /\ n.last_time \in {0, d.last_time}
          BY <1>3, <2>1, <4>2
        <5> QED
          BY <1>c, <3>1, <3>3, <5>1, <5>3, <5>4 DEF Charged
      <4> QED
        BY <1>3, <3>7, <4>1, <4>2
    <3>8. c[k] # DEBOUNCE_ELAPSED => (k \in raw) # (k \in n.cooked)
      BY <1>3, <2>1
    <3>9. ASSUME (k \in raw) # (k \in n.cooked)
          PROVE  n.counter[k] # 0 /\ StillAfter(raw, s)[k] + n.counter[k] <= DEBOUNCE
      <4>1. n.counter[k] = c[k] /\ c[k] # 0 /\ c[k] <= DEBOUNCE
        BY <1>3, <2>1, <3>1, <3>9 DEF DEBOUNCE_ELAPSED
      <4>2. CASE (k \in raw) # (k \in raw_matrix)
        <5>1. StillAfter(raw, s)[k] = 0
          BY <1>0, <4>2 DEF Typed
        <5> QED
          BY <1>c, <3>1, <4>1, <5>1
      <4>3. CASE k \in raw <=> k \in raw_matrix
        <5>1. k \notin Ending(m) /\ (k \in raw_matrix) # (k \in m.cooked)
          BY <1>2, <2>1, <3>9, <4>3
        <5>2. m.counter[k] # 0 /\ (m.counter[k] <= m.last_time \/ s[k] + m.counter[k] <= DEBOUNCE + m.last_time)
          <6>1. DEBOUNCE # 0
            BY DEF Algorithm
          <6> QED
            BY <1>a, <1>b, <5>1, <6>1 DEF Ready, LateInv, LateKey, DEBOUNCE_ELAPSED
        <5>3. m.counter[k] > m.last_time
          BY <1>1, <3>1, <5>1, <5>2 DEF DEBOUNCE_ELAPSED
        <5>4. d.counter[k] = m.counter[k] - m.last_time
          BY <1>1, <3>1, <5>3
        <5>5. c[k] = d.counter[k]
          BY <1>3, <1>c, <3>1, <4>1, <5>3, <5>4 DEF DEBOUNCE_ELAPSED
        <5> QED
          BY <1>c, <3>1, <3>4, <4>1, <4>3, <5>2, <5>3, <5>4, <5>5
      <4> QED
        BY <4>2, <4>3
    <3>10. LateKey(n, raw, StillAfter(raw, s), k, 0)
      <4>1. n.last_time \in Nat /\ n.counter[k] \in Nat
        BY <2>2, <3>1 DEF Db
      <4> QED
        BY <1>b, <1>c, <3>1, <3>9, <4>1 DEF LateKey, DEBOUNCE_ELAPSED
    <3> QED
      BY <1>b, <2>1, <3>5, <3>7, <3>8, <3>10 DEF SpacedKey, DeferredKey
  <2>5. PromptInv(n)
    <3> SUFFICES ASSUME NEW k \in Keys, c[k] # DEBOUNCE_ELAPSED
                 PROVE  t = 0
      BY <1>b, <2>1 DEF PromptInv
    <3> QED
      BY <1>1, <1>3, <1>b
  <2> QED
    BY <2>2, <2>3, <2>4, <2>5 DEF Sound, SpacedInv, DeferredInv, LateInv, Moves
<1>4. CASE raw = raw_matrix
  <2>1. n = [d EXCEPT !.cooked = cooked]
    BY <1>1, <1>4 DEF sym_defer_pk
  <2>2. \A k \in Keys : d.counter[k] # DEBOUNCE_ELAPSED => (k \in raw) # (k \in cooked)
    <3> SUFFICES ASSUME NEW k \in Keys, d.counter[k] # DEBOUNCE_ELAPSED
                 PROVE  (k \in raw) # (k \in cooked)
      OBVIOUS
    <3>1. m.counter[k] \in Nat /\ m.last_time \in Nat
      BY <1>0, <1>b DEF Typed
    <3>2. m.counter[k] # DEBOUNCE_ELAPSED /\ ~(m.counter[k] <= m.last_time)
      BY <1>1, <1>b, <3>1 DEF DEBOUNCE_ELAPSED
    <3>3. (k \in raw) # (k \in m.cooked)
      BY <1>4, <3>2 DEF Ready, DeferredInv, DeferredKey
    <3> QED
      BY <1>1, <1>2, <3>2, <3>3
  <2>3. /\ d.counter \in [Units -> 0 .. DEBOUNCE] /\ d.counters_need_update \in BOOLEAN
        /\ d.last_time \in 0 .. DEBOUNCE
        /\ ~d.counters_need_update => \A u \in Units : d.counter[u] = DEBOUNCE_ELAPSED
    BY <1>1, <1>a DEF Db, FlagsInv
  <2>4. n = [d EXCEPT !.cooked = cooked, !.counter = d.counter,
                      !.counters_need_update = d.counters_need_update, !.last_time = d.last_time]
    <3> HIDE DEF d, n, cooked
    <3> QED
      BY <1>1, <2>1 DEF Db
  <2>5. \A k \in Keys : (k \in raw) # (k \in cooked) => d.counter[k] # DEBOUNCE_ELAPSED
    <3> SUFFICES ASSUME NEW k \in Keys, (k \in raw) # (k \in cooked)
                 PROVE  d.counter[k] # DEBOUNCE_ELAPSED
      OBVIOUS
    <3>1. m.counter[k] \in Nat /\ m.last_time \in Nat
      BY <1>0, <1>b DEF Typed
    <3>2. k \notin Ending(m) /\ (k \in raw_matrix) # (k \in m.cooked)
      BY <1>2, <1>4
    <3>3. m.counter[k] # DEBOUNCE_ELAPSED
      BY <1>a, <1>b, <3>2 DEF Ready, LateInv, LateKey, Algorithm
    <3>4. m.counter[k] > m.last_time
      BY <1>1, <1>b, <3>1, <3>2, <3>3
    <3> QED
      BY <1>1, <1>b, <3>1, <3>4 DEF DEBOUNCE_ELAPSED
  <2> HIDE DEF d, cooked, n
  <2>6. Sound(m, n, raw, q, s)
    BY <1>3, <2>2, <2>3, <2>4, <2>5
  <2> QED
    BY <2>6 DEF n
<1>5. CASE raw # raw_matrix
  <2> DEFINE e == [d EXCEPT !.cooked = cooked, !.last_time = 0]
             b == d.counters_need_update \/ new # {}
  <2>1. /\ e = [cooked |-> cooked, counter |-> d.counter, pressed |-> d.pressed,
                counters_need_update |-> d.counters_need_update,
                matrix_need_update |-> d.matrix_need_update, last_time |-> 0]
        /\ n = start_debounce_counters(e, raw)
    <3>1. n = start_debounce_counters(Touched([d EXCEPT !.cooked = cooked]), raw)
      BY <1>1, <1>5 DEF sym_defer_pk
    <3>0. d \in Db
      BY <1>1
    <3> DEFINE e1 == [d EXCEPT !.cooked = cooked]
    <3> HIDE DEF d, cooked
    <3>2. e1 = [cooked |-> cooked, counter |-> d.counter, pressed |-> d.pressed,
                counters_need_update |-> d.counters_need_update,
                matrix_need_update |-> d.matrix_need_update, last_time |-> d.last_time]
      BY <1>1 DEF Db
    <3>3. e = [d EXCEPT !.cooked = cooked, !.last_time = 0]
      OBVIOUS
    <3>4. n = start_debounce_counters(Touched(e1), raw)
      BY <3>1
    <3> HIDE DEF e1, e, n
    <3>6. e = [cooked |-> cooked, counter |-> d.counter, pressed |-> d.pressed,
               counters_need_update |-> d.counters_need_update,
               matrix_need_update |-> d.matrix_need_update, last_time |-> 0]
      BY <3>0, <3>3 DEF Db
    <3>5. Touched(e1) = e
      BY <3>2, <3>6 DEF Touched
    <3> QED
      BY <3>4, <3>5, <3>6
  <2>2. {u \in Units : Differs(e, raw, u)} = us
    <3>1. e.cooked = cooked
      BY <2>1
    <3> HIDE DEF e, cooked
    <3> QED
      BY <1>a, <1>b, <3>1, DiffersKey DEF PerRow
  <2>3. n = [e EXCEPT !.counter = started, !.counters_need_update = b]
    <3>1. e.counter = d.counter /\ e.counters_need_update = d.counters_need_update
      BY <2>1
    <3>2. {u \in us : e.counter[u] = DEBOUNCE_ELAPSED} = new
      BY <3>1
    <3> HIDE DEF e, d, us
    <3> QED
      BY <2>1, <2>2, <3>1, <3>2, ZenonT(60) DEF start_debounce_counters
  <2>4. started \in [Units -> 0 .. DEBOUNCE] /\ b \in BOOLEAN
    <3>1. \A u \in Units : d.counter[u] \in 0 .. DEBOUNCE
      BY <1>1 DEF Db
    <3> HIDE DEF d
    <3> QED
      BY <1>c, <3>1 DEF DEBOUNCE_ELAPSED
  <2>5. /\ ~b => \A u \in Units : started[u] = DEBOUNCE_ELAPSED
        /\ \A k \in Keys : started[k] # DEBOUNCE_ELAPSED =>
             /\ (k \in raw) # (k \in cooked)
             /\ \/ started[k] = DEBOUNCE /\ d.counter[k] = DEBOUNCE_ELAPSED
                \/ started[k] = d.counter[k] /\ d.counter[k] # DEBOUNCE_ELAPSED
        /\ \A k \in Keys : (k \in raw) # (k \in cooked) => started[k] # DEBOUNCE_ELAPSED
    <3>0. DEBOUNCE # DEBOUNCE_ELAPSED
      BY DEF Algorithm, DEBOUNCE_ELAPSED
    <3>1. ~d.counters_need_update => \A u \in Units : d.counter[u] = DEBOUNCE_ELAPSED
      BY <1>1, <1>a DEF FlagsInv
    <3> HIDE DEF d, cooked
    <3> QED
      BY <1>b, <3>0, <3>1
  <2>6. n = [d EXCEPT !.cooked = cooked, !.counter = started, !.counters_need_update = b,
                      !.last_time = 0]
    <3> HIDE DEF d, cooked, started, b, n
    <3> QED
      BY <1>1, <2>1, <2>3 DEF Db
  <2>7. 0 \in 0 .. DEBOUNCE
    BY <1>c
  <2> HIDE DEF d, cooked, us, started, b, e, n
  <2>8. Sound(m, n, raw, q, s)
    BY <1>3, <2>4, <2>5, <2>6, <2>7
  <2> QED
    BY <2>8 DEF n
<1> QED
  BY <1>4, <1>5

\* A unit that has passed on a change is not read until its counter ends.
LEMMA EagerSound ==
  ASSUME NEW m, NEW q, NEW s, Ready(m, q, s), NEW raw \in SUBSET Keys, build \in Builds,
         Algorithm \in {"sym_eager_pk", "sym_eager_pr"}
  PROVE  Sound(m, sym_eager(m, raw, raw # raw_matrix), raw, q, s)
<1> DEFINE d == CountDown(m)
           e == eager_expired(m)
           n == sym_eager(m, raw, raw # raw_matrix)
<1>0. Typed(m, q, s, raw)
  BY ReadyTypes
<1>a. build.algorithm \in {"sym_eager_pk", "sym_eager_pr"} /\ Algorithm \in Counters
  BY DEF Algorithm, Counters
<1>c. Apart = DEBOUNCE /\ DEBOUNCE \in Nat
  BY <1>0 DEF Apart, Typed
<1>1. /\ d \in Db /\ FlagsInv(d) /\ d.cooked = m.cooked /\ d.last_time \in Nat
      /\ \A u \in Units : d.counter[u] \in Nat /\ m.counter[u] \in Nat /\ m.last_time \in Nat
      /\ \A u \in Units : d.counter[u] = IF m.counter[u] <= m.last_time THEN 0
                                         ELSE m.counter[u] - m.last_time
      /\ \A u \in Units : d.counter[u] # 0 => d.last_time = 0
  BY <1>0, <1>a, CountDownFacts DEF Ready, Typed, Db, DEBOUNCE_ELAPSED
<1>2. ASSUME NEW us \in SUBSET {u \in Units : d.counter[u] = 0}, NEW cooked \in SUBSET Keys,
             NEW b \in BOOLEAN, NEW g \in BOOLEAN, NEW t \in {0, d.last_time},
             NEW n1,
             n1 = [cooked |-> cooked,
                   counter |-> [u \in Units |-> IF u \in us THEN DEBOUNCE ELSE d.counter[u]],
                   pressed |-> d.pressed, counters_need_update |-> b,
                   matrix_need_update |-> g, last_time |-> t],
             ~b => us = {} /\ ~d.counters_need_update,
             us # {} => t = 0,
             \A k \in Keys : (k \in cooked) # (k \in m.cooked) => Unit(k) \in us,
             \A k \in Keys : (k \in raw) # (k \in cooked) =>
               Unit(k) \notin us /\ d.counter[Unit(k)] # 0
      PROVE  Sound(m, n1, raw, q, s)
  <2> DEFINE counter == [u \in Units |-> IF u \in us THEN DEBOUNCE ELSE d.counter[u]]
  <2> HIDE DEF d
  <2>1. counter \in [Units -> 0 .. DEBOUNCE] /\ t \in 0 .. DEBOUNCE
    BY <1>1, <1>c DEF Db
  <2>2. ~b => \A u \in Units : counter[u] = DEBOUNCE_ELAPSED
    BY <1>1, <1>2, <1>a DEF FlagsInv
  <2>a. n1 = [cooked |-> cooked, counter |-> counter, pressed |-> d.pressed,
              counters_need_update |-> b, matrix_need_update |-> g, last_time |-> t]
    BY <1>2
  <2>3. n1 \in Db
    <3> HIDE DEF counter
    <3> QED
      BY <1>1, <2>1, <2>a DEF Db
  <2>4. FlagsInv(n1)
    <3> HIDE DEF counter
    <3> QED
      BY <2>2, <2>a DEF FlagsInv
  <2>5. ASSUME NEW k \in Keys
        PROVE  /\ SpacedKey(n1, QuietAfter(m, n1, q), k)
               /\ k \in Moves(m, n1) => q[k] >= Apart
               /\ LateKey(n1, raw, StillAfter(raw, s), k, 0)
    <3> DEFINE u == Unit(k)
    <3>1. u \in Units /\ q[k] \in Nat
      BY <1>0, UnitOfKey DEF Typed
    <3>2. Charged(m, u, q[k], DEBOUNCE)
      BY DEF Ready, SpacedInv, SpacedKey
    <3>3. /\ m.counter[u] <= m.last_time => q[k] >= DEBOUNCE
          /\ q[k] < DEBOUNCE => d.last_time = 0 /\ q[k] + d.counter[u] >= DEBOUNCE
      BY <1>0, <1>a, <1>c, <3>1, <3>2, ChargedDown DEF Ready, Typed, d
    <3>4. k \in Moves(m, n1) => u \in us
      BY <1>2 DEF Moves
    <3>5. u \in us => q[k] >= DEBOUNCE /\ n1.counter[u] = DEBOUNCE /\ n1.last_time = 0
      BY <1>1, <1>2, <3>1, <3>3
    <3>6. u \notin us => n1.counter[u] = d.counter[u] /\ n1.last_time \in {0, d.last_time}
      BY <1>2, <3>1
    <3>7. QuietAfter(m, n1, q)[k] = IF k \in Moves(m, n1) THEN 0 ELSE q[k]
      BY DEF QuietAfter
    <3>8. Charged(n1, u, QuietAfter(m, n1, q)[k], DEBOUNCE)
      <4> HIDE DEF u
      <4>1. CASE u \in us
        BY <1>c, <3>1, <3>5, <3>7, <4>1 DEF Charged
      <4>2. CASE u \notin us
        BY <1>1, <1>c, <3>1, <3>3, <3>4, <3>6, <3>7, <4>2 DEF Charged
      <4> QED
        BY <4>1, <4>2
    <3>9. ASSUME (k \in raw) # (k \in n1.cooked)
          PROVE  n1.counter[u] # 0 /\ StillAfter(raw, s)[k] + n1.counter[u] <= DEBOUNCE
      <4>1. u \notin us /\ d.counter[u] # 0 /\ (k \in n1.cooked <=> k \in m.cooked)
        BY <1>2, <3>9
      <4>2. /\ n1.counter[u] = d.counter[u] /\ d.counter[u] \in 0 .. DEBOUNCE
            /\ m.counter[u] \in Nat /\ m.last_time \in Nat /\ s[k] \in Nat
            /\ StillAfter(raw, s)[k] \in {0, s[k]}
        BY <1>0, <1>1, <3>1, <3>6, <4>1 DEF Db, Typed
      <4>3. CASE (k \in raw) # (k \in raw_matrix)
        <5>1. StillAfter(raw, s)[k] = 0
          BY <1>0, <4>3 DEF Typed
        <5> QED
          BY <1>c, <4>1, <4>2, <5>1
      <4>4. CASE k \in raw <=> k \in raw_matrix
        <5>1. DEBOUNCE # 0 /\ Algorithm # "asym_eager_defer_pk"
          BY DEF Algorithm
        <5>2. m.counter[u] # 0 /\ (m.counter[u] <= m.last_time \/ s[k] + m.counter[u] <= DEBOUNCE + m.last_time)
          BY <1>a, <3>9, <4>1, <4>4, <5>1 DEF Ready, LateInv, LateKey, DEBOUNCE_ELAPSED
        <5>3. m.counter[u] > m.last_time /\ d.counter[u] = m.counter[u] - m.last_time
          BY <1>1, <3>1, <4>1, <4>2
        <5> HIDE DEF u
        <5> QED
          BY <1>c, <4>1, <4>2, <5>2, <5>3
      <4> QED
        BY <4>3, <4>4
    <3>10. LateKey(n1, raw, StillAfter(raw, s), k, 0)
      <4>1. n1.last_time \in Nat /\ n1.counter[u] \in Nat /\ StillAfter(raw, s)[k] \in Nat
        BY <1>0, <2>3, <3>1 DEF Db, Typed
      <4> QED
        BY <1>c, <3>1, <3>9, <4>1 DEF LateKey, DEBOUNCE_ELAPSED
    <3> QED
      BY <1>c, <3>4, <3>5, <3>8, <3>10 DEF SpacedKey
  <2>6. DeferredInv(n1, raw, StillAfter(raw, s)) /\ \A k \in Keys : ~DefersFrom(m, k)
    BY <1>a DEF DeferredInv, DeferredKey, DefersFrom
  <2>7. PromptInv(n1)
    <3>1. \A u \in Units : counter[u] # 0 => t = 0
      BY <1>1, <1>2
    <3> HIDE DEF counter
    <3> QED
      BY <2>a, <3>1 DEF PromptInv, DEBOUNCE_ELAPSED
  <2> QED
    BY <2>3, <2>4, <2>5, <2>6, <2>7 DEF Sound, SpacedInv, LateInv, Moves
<1>3. e = [cooked |-> d.cooked, counter |-> d.counter, pressed |-> d.pressed,
           counters_need_update |-> d.counters_need_update,
           matrix_need_update |-> Ending(m) # {}, last_time |-> d.last_time]
  <2>1. e = [d EXCEPT !.matrix_need_update = Ending(m) # {}]
    BY DEF eager_expired
  <2> DEFINE g == Ending(m) # {}
  <2> HIDE DEF d, e, g
  <2> QED
    BY <1>1, <2>1 DEF Db, g
<1>4. CASE ~(raw # raw_matrix \/ e.matrix_need_update)
  <2>1. n = e
    BY <1>4 DEF sym_eager
  <2>2. d.counter = [u \in Units |-> IF u \in {} THEN DEBOUNCE ELSE d.counter[u]]
    <3> HIDE DEF d
    <3> QED
      BY <1>1 DEF Db
  <2>3. /\ d.cooked \in SUBSET Keys /\ d.counters_need_update \in BOOLEAN
        /\ (Ending(m) # {}) \in BOOLEAN
    BY <1>1 DEF Db
  <2>4. \A k \in Keys : (k \in raw) # (k \in m.cooked) => d.counter[Unit(k)] # 0
    <3> SUFFICES ASSUME NEW k \in Keys, (k \in raw) # (k \in m.cooked)
                 PROVE  d.counter[Unit(k)] # 0
      OBVIOUS
    <3>1. Unit(k) \in Units
      BY UnitOfKey
    <3>2. m.counter[Unit(k)] # 0 /\ raw = raw_matrix
      BY <1>4, <1>a DEF Ready, LateInv, LateKey, Algorithm, DEBOUNCE_ELAPSED
    <3>3. Unit(k) \notin Ending(m)
      <4>1. e.matrix_need_update = (Ending(m) # {})
        <5> HIDE DEF e
        <5> QED
          BY <1>3
      <4> QED
        BY <1>4, <4>1
    <3>4. ~(m.counter[Unit(k)] <= m.last_time)
      <4>1. Ending(m) = {u \in Units : m.counter[u] # DEBOUNCE_ELAPSED /\ m.counter[u] <= m.last_time}
        BY <1>0, <1>a, CountDownFacts DEF Ready, Typed
      <4> QED
        BY <3>1, <3>2, <3>3, <4>1 DEF DEBOUNCE_ELAPSED
    <3> QED
      BY <1>1, <3>1, <3>4
  <2>5. /\ {} \in SUBSET {u \in Units : d.counter[u] = 0} /\ d.last_time \in {0, d.last_time}
        /\ \A k \in Keys : (k \in raw) # (k \in d.cooked) =>
             Unit(k) \notin {} /\ d.counter[Unit(k)] # 0
        /\ \A k \in Keys : (k \in d.cooked) # (k \in m.cooked) => Unit(k) \in {}
    BY <1>1, <2>4
  <2> HIDE DEF d, e, n
  <2>6. n = [cooked |-> d.cooked,
             counter |-> [u \in Units |-> IF u \in {} THEN DEBOUNCE ELSE d.counter[u]],
             pressed |-> d.pressed, counters_need_update |-> d.counters_need_update,
             matrix_need_update |-> Ending(m) # {}, last_time |-> d.last_time]
    BY <1>3, <2>1, <2>2
  <2>7. Sound(m, n, raw, q, s)
    BY <1>2, <2>3, <2>5, <2>6, ZenonT(60)
  <2> QED
    BY <2>7 DEF n
<1>5. CASE raw # raw_matrix \/ e.matrix_need_update
  <2> DEFINE f == Touched(e)
             us == {u \in Units : Differs(m, raw, u) /\ d.counter[u] = 0}
             cooked == Transfer(m.cooked, raw, us)
             counter == [u \in Units |-> IF u \in us THEN DEBOUNCE ELSE d.counter[u]]
             b == d.counters_need_update \/ us # {}
  <2>1. n = eager_transfer_matrix_values(f, raw)
    BY <1>5 DEF sym_eager
  <2>2. f = [cooked |-> m.cooked, counter |-> d.counter, pressed |-> d.pressed,
             counters_need_update |-> d.counters_need_update,
             matrix_need_update |-> Ending(m) # {}, last_time |-> 0]
    <3>1. f = [e EXCEPT !.last_time = 0]
      BY DEF Touched
    <3> HIDE DEF d, e, f
    <3> QED
      BY <1>1, <1>3, <3>1
  <2>3. {u \in Units : Differs(f, raw, u) /\ f.counter[u] = DEBOUNCE_ELAPSED} = us
    <3>1. f.cooked = m.cooked /\ f.counter = d.counter
      BY <2>2
    <3> HIDE DEF f, d
    <3> QED
      BY <3>1 DEF Differs, DEBOUNCE_ELAPSED
  <2>4. n = [f EXCEPT !.matrix_need_update = FALSE, !.counter = counter,
                      !.counters_need_update = b, !.cooked = cooked]
    <3>1. /\ f.cooked = m.cooked /\ f.counter = d.counter
          /\ f.counters_need_update = d.counters_need_update
      BY <2>2
    <3> HIDE DEF f, d, us, n
    <3> QED
      BY <2>1, <2>3, <3>1 DEF eager_transfer_matrix_values
  <2>5. n = [cooked |-> cooked, counter |-> counter, pressed |-> d.pressed,
             counters_need_update |-> b, matrix_need_update |-> FALSE, last_time |-> 0]
    <3> HIDE DEF f, d, us, n, cooked, counter, b
    <3> QED
      BY <2>2, <2>4
  <2>6. /\ cooked \in SUBSET Keys
        /\ \A k \in Keys : (k \in cooked) # (k \in m.cooked) => Unit(k) \in us
        /\ \A k \in Keys : (k \in raw) # (k \in cooked) =>
             Unit(k) \notin us /\ d.counter[Unit(k)] # 0
    <3> HIDE DEF d
    <3>1. us \in SUBSET Units
      OBVIOUS
    <3>2. /\ cooked \in SUBSET Keys
          /\ \A k \in Keys : k \in cooked <=> IF Unit(k) \in us THEN k \in raw ELSE k \in m.cooked
      <4> HIDE DEF us
      <4> QED
        BY <1>0, <3>1, TransferMember DEF Typed
    <3>3. \A k \in Keys : (k \in raw) # (k \in m.cooked) /\ Unit(k) \notin us =>
            d.counter[Unit(k)] # 0
      <4>1. \A k \in Keys : (k \in raw) # (k \in m.cooked) => Differs(m, raw, Unit(k))
        BY UnitOfKey DEF Differs
      <4> QED
        BY <4>1, UnitOfKey
    <3> HIDE DEF us, cooked
    <3> QED
      BY <3>2, <3>3
  <2>7. us \in SUBSET {u \in Units : d.counter[u] = 0} /\ b \in BOOLEAN /\ FALSE \in BOOLEAN
        /\ (~b => us = {} /\ ~d.counters_need_update)
    OBVIOUS
  <2>8. n = [cooked |-> cooked,
             counter |-> [u \in Units |-> IF u \in us THEN DEBOUNCE ELSE d.counter[u]],
             pressed |-> d.pressed,
             counters_need_update |-> b, matrix_need_update |-> FALSE, last_time |-> 0]
    BY <2>5
  <2> DEFINE t == 0
            g == FALSE
  <2>9. /\ n = [cooked |-> cooked,
                 counter |-> [u \in Units |-> IF u \in us THEN DEBOUNCE ELSE d.counter[u]],
                 pressed |-> d.pressed,
                 counters_need_update |-> b, matrix_need_update |-> g, last_time |-> t]
        /\ g \in BOOLEAN /\ t \in {0, d.last_time} /\ (us # {} => t = 0)
    BY <2>8
  <2> HIDE DEF d, e, f, us, cooked, b, n, counter, t, g
  <2>10. Sound(m, n, raw, q, s)
    BY <1>2, <2>6, <2>7, <2>9
  <2> QED
    BY <2>10 DEF n
<1> QED
  BY <1>4, <1>5

\* A press is passed on at once, a release when it has lasted.
LEMMA AsymSound ==
  ASSUME NEW m, NEW q, NEW s, Ready(m, q, s), NEW raw \in SUBSET Keys,
         Algorithm = "asym_eager_defer_pk"
  PROVE  Sound(m, asym_eager_defer_pk(m, raw, raw # raw_matrix), raw, q, s)
<1> DEFINE d == CountDown(m)
           released == Ending(m) \ m.pressed
           kept == Transfer(m.cooked, raw, released)
           again == Ending(m) \cap m.pressed # {}
           e == [d EXCEPT !.matrix_need_update = again, !.cooked = kept]
           n == asym_eager_defer_pk(m, raw, raw # raw_matrix)
<1>0. Typed(m, q, s, raw)
  BY ReadyTypes
<1>a. build.algorithm = "asym_eager_defer_pk" /\ Algorithm \in Counters
  BY DEF Algorithm, Counters
<1>b. Units = Keys /\ \A k \in Keys : Unit(k) = k
  BY <1>a, UnitOfKey DEF PerRow
<1>c. Apart = 2 * DEBOUNCE /\ DEBOUNCE \in Nat /\ \A k \in Keys : Watched(k) = {k}
  BY <1>0 DEF Apart, Watched, Typed
<1>1. /\ d \in Db /\ FlagsInv(d) /\ d.cooked = m.cooked /\ d.pressed = m.pressed
      /\ d.last_time \in Nat
      /\ Ending(m) = {u \in Units : m.counter[u] # 0 /\ m.counter[u] <= m.last_time}
      /\ \A u \in Units : d.counter[u] \in Nat /\ m.counter[u] \in Nat /\ m.last_time \in Nat
      /\ \A u \in Units : d.counter[u] = IF m.counter[u] <= m.last_time THEN 0
                                         ELSE m.counter[u] - m.last_time
      /\ \A u \in Units : d.counter[u] # 0 => d.last_time = 0
  BY <1>0, <1>a, CountDownFacts DEF Ready, Typed, Db, DEBOUNCE_ELAPSED
<1>2. /\ kept \in SUBSET Keys
      /\ \A k \in Keys : k \in kept <=> IF k \in released THEN k \in raw ELSE k \in m.cooked
  <2>1. released \in SUBSET Units
    BY <1>1
  <2> HIDE DEF released
  <2> QED
    BY <1>0, <1>b, <2>1, TransferMember DEF Typed
<1>d. /\ DEBOUNCE # 0 /\ MAX_STALL \in Nat \ {0}
      /\ Latency = 2 * DEBOUNCE + MAX_STALL - 1
  BY DebounceAssumption DEF Algorithm, Latency
\* What the time of a key that is not as it is read leaves open.
<1>e. ASSUME NEW k \in Keys, (k \in raw_matrix) # (k \in m.cooked)
      PROVE  /\ m.counter[k] # 0
             /\ \/ m.counter[k] <= m.last_time
                \/ s[k] + m.counter[k] <= (IF k \notin m.pressed THEN Latency ELSE DEBOUNCE)
                                         + m.last_time
             /\ k \in m.cooked /\ (k \in m.pressed => s[k] < DEBOUNCE + MAX_STALL)
  BY <1>a, <1>b, <1>d, <1>e DEF Ready, LateInv, LateKey, DEBOUNCE_ELAPSED
<1>3. ASSUME NEW us \in SUBSET Keys, NEW cancelled \in SUBSET Keys, NEW b \in BOOLEAN,
             NEW g \in BOOLEAN, NEW t \in {0, d.last_time}, NEW n1,
             n1 = [cooked |-> kept \cup (us \cap raw),
                   counter |-> [u \in Units |-> IF u \in us THEN DEBOUNCE
                                                ELSE IF u \in cancelled THEN DEBOUNCE_ELAPSED
                                                ELSE d.counter[u]],
                   pressed |-> (m.pressed \ us) \cup (us \cap raw), counters_need_update |-> b,
                   matrix_need_update |-> g, last_time |-> t],
             ~b => us = {} /\ ~d.counters_need_update,
             us # {} => t = 0,
             \A k \in us : d.counter[k] = 0 /\ (k \in raw) # (k \in kept),
             \A k \in cancelled : k \notin m.pressed /\ (k \in raw <=> k \in kept),
             \A k \in Keys : (k \in raw) # (k \in kept) => k \in us \/ d.counter[k] # 0,
             \A k \in Keys \ (us \cup cancelled) :
               d.counter[k] # 0 /\ k \notin m.pressed => k \notin raw
      PROVE  Sound(m, n1, raw, q, s)
  <2> DEFINE counter == [u \in Units |-> IF u \in us THEN DEBOUNCE
                                         ELSE IF u \in cancelled THEN DEBOUNCE_ELAPSED
                                         ELSE d.counter[u]]
             cooked == kept \cup (us \cap raw)
             pressed == (m.pressed \ us) \cup (us \cap raw)
  <2> HIDE DEF d, kept, released
  <2>1. /\ counter \in [Units -> 0 .. DEBOUNCE] /\ t \in 0 .. DEBOUNCE
        /\ cooked \in SUBSET Keys /\ pressed \in SUBSET Units
    BY <1>0, <1>1, <1>2, <1>b, <1>c DEF Db, DEBOUNCE_ELAPSED, Typed
  <2>2. ~b => \A u \in Units : counter[u] = DEBOUNCE_ELAPSED
    BY <1>1, <1>3, <1>a DEF FlagsInv
  <2>3. n1 = [cooked |-> cooked, counter |-> counter, pressed |-> pressed,
              counters_need_update |-> b, matrix_need_update |-> g, last_time |-> t]
    BY <1>3
  <2>4. n1 \in Db
    <3> HIDE DEF counter, cooked, pressed
    <3> QED
      BY <2>1, <2>3 DEF Db
  <2>5. ASSUME NEW k \in Keys
        PROVE  /\ n1.counter[k] # DEBOUNCE_ELAPSED => k \in n1.cooked
               /\ LateKey(n1, raw, StillAfter(raw, s), k, 0)
               /\ SpacedKey(n1, QuietAfter(m, n1, q), k)
               /\ DeferredKey(n1, raw, StillAfter(raw, s), k)
               /\ k \in Moves(m, n1) =>
                    /\ q[k] >= Apart \/ k \in n1.cooked
                    /\ k \in m.cooked => StillAfter(raw, s)[k] >= DEBOUNCE
    <3> DEFINE q1 == QuietAfter(m, n1, q)[k]
               s1 == StillAfter(raw, s)[k]
    <3>1. /\ k \in Units /\ q[k] \in Nat /\ s[k] \in Nat /\ s1 \in Nat
          /\ m.counter[k] \in Nat /\ m.last_time \in Nat /\ d.counter[k] \in Nat
          /\ q1 = IF k \in Moves(m, n1) THEN 0 ELSE q[k]
      BY <1>0, <1>1, <1>b DEF Typed, QuietAfter
    <3>2. /\ m.counter[k] # 0 => k \in m.cooked
          /\ m.counter[k] # 0 /\ k \notin m.pressed =>
               k \notin raw_matrix /\ Charged(m, k, s[k], DEBOUNCE)
      BY DEF Ready, FlagsInv, DeferredInv, DeferredKey, DEBOUNCE_ELAPSED
    <3>3. k \in m.cooked => Charged(m, k, q[k], IF m.counter[k] = 0 \/ k \in m.pressed
                                                THEN DEBOUNCE ELSE 2 * DEBOUNCE)
      BY DEF Ready, SpacedInv, SpacedKey, DEBOUNCE_ELAPSED
    <3>4. (k \in raw <=> k \in raw_matrix) => s1 = s[k]
      BY <1>0, <1>c DEF Typed
    <3>5. ASSUME NEW age \in Nat, NEW total \in Nat, Charged(m, k, age, total)
          PROVE  /\ m.counter[k] <= m.last_time => age >= total
                 /\ age < total => d.last_time = 0 /\ age + d.counter[k] >= total
      <4>1. m \in Db /\ FlagsInv(m)
        BY <1>0 DEF Ready, Typed
      <4>2. \/ age >= total
            \/ d.last_time = 0 /\ age + d.counter[k] >= total
        BY <1>a, <3>1, <3>5, <4>1, ChargedDown DEF d
      <4>3. m.counter[k] <= m.last_time => age >= total
        BY <1>a, <3>1, <3>5, <4>1, ChargedDown
      <4> QED
        BY <3>1, <4>2, <4>3
    \* Charged while nothing of its own happens to the counter.
    <3>6. k \in released <=> m.counter[k] # 0 /\ m.counter[k] <= m.last_time /\ k \notin m.pressed
      BY <1>1, <3>1 DEF released
    <3>7. k \in kept => k \in m.cooked
      BY <1>2, <3>2, <3>6
    <3>8. k \in m.cooked /\ k \notin kept => k \in released /\ k \notin raw
      BY <1>2
    <3>9. k \in us /\ k \in raw => k \notin m.cooked
      BY <1>3, <3>8
    <3>10. /\ n1.counter[k] = IF k \in us THEN DEBOUNCE
                              ELSE IF k \in cancelled THEN 0 ELSE d.counter[k]
           /\ k \in n1.cooked <=> k \in kept \/ (k \in us /\ k \in raw)
           /\ k \in n1.pressed <=> IF k \in us THEN k \in raw ELSE k \in m.pressed
           /\ n1.last_time = t
      BY <1>3, <3>1 DEF DEBOUNCE_ELAPSED
    <3>11. d.counter[k] # 0 => m.counter[k] > m.last_time /\ m.counter[k] # 0
      BY <1>1, <3>1
    <3>12. n1.counter[k] # 0 => k \in n1.cooked
      <4>1. d.counter[k] # 0 => k \in kept
        BY <1>2, <3>1, <3>2, <3>6, <3>11
      <4> QED
        BY <1>3, <3>10, <4>1
    \* A press is new; who stays has not moved.
    <3>13. k \in kept => k \notin Moves(m, n1)
      BY <3>7, <3>10 DEF Moves
    <3>14. k \in m.cooked /\ m.counter[k] <= m.last_time => q[k] >= DEBOUNCE
      <4>1. CASE m.counter[k] = 0 \/ k \in m.pressed
        BY <1>c, <3>1, <3>3, <3>5, <4>1
      <4>2. CASE ~(m.counter[k] = 0 \/ k \in m.pressed)
        <5>1. k \in m.cooked => Charged(m, k, q[k], 2 * DEBOUNCE)
          BY <3>3, <4>2
        <5>2. 2 * DEBOUNCE \in Nat
          BY <1>c
        <5> QED
          BY <1>c, <3>1, <3>5, <5>1, <5>2
      <4> QED
        BY <4>1, <4>2
    <3>15. k \in released => q[k] >= 2 * DEBOUNCE /\ s[k] >= DEBOUNCE
      <4>1. k \in released => Charged(m, k, q[k], 2 * DEBOUNCE) /\ Charged(m, k, s[k], DEBOUNCE)
        BY <3>2, <3>3, <3>6
      <4>2. 2 * DEBOUNCE \in Nat
        BY <1>c
      <4> QED
        BY <1>c, <3>1, <3>5, <3>6, <4>1, <4>2
    <3>16. ASSUME k \in n1.cooked
           PROVE  Charged(n1, k, q1, IF n1.counter[k] = 0 \/ k \in n1.pressed
                                     THEN DEBOUNCE ELSE 2 * DEBOUNCE)
      <4> HIDE DEF q1
      <4>1. CASE k \in us /\ k \in raw
        <5>1. n1.counter[k] = DEBOUNCE /\ n1.last_time = 0 /\ k \in n1.pressed
          BY <1>3, <3>10, <4>1
        <5> QED
          BY <1>c, <3>1, <5>1 DEF Charged
      <4>2. CASE k \in us /\ k \notin raw
        <5>1. k \in kept /\ d.counter[k] = 0
          BY <1>3, <4>2
        <5>2. q1 = q[k] /\ q[k] >= DEBOUNCE
          <6>1. m.counter[k] <= m.last_time
            BY <1>1, <3>1, <5>1
          <6> QED
            BY <3>1, <3>7, <3>13, <3>14, <5>1, <6>1
        <5>3. n1.counter[k] = DEBOUNCE /\ n1.last_time = 0
          BY <1>3, <3>10, <4>2
        <5> QED
          BY <1>c, <3>1, <5>2, <5>3 DEF Charged
      <4>3. CASE k \notin us
        <5>1. k \in m.cooked /\ q1 = q[k]
          BY <3>1, <3>7, <3>10, <3>13, <3>16, <4>3
        <5>2. CASE k \in cancelled
          <6>1. k \notin m.pressed /\ n1.counter[k] = 0
            BY <1>3, <3>10, <4>3, <5>2
          <6>2. q[k] >= DEBOUNCE
            <7>1. CASE m.counter[k] = 0
              BY <3>1, <3>14, <5>1, <7>1
            <7>2. CASE m.counter[k] # 0
              <8>1. Charged(m, k, q[k], 2 * DEBOUNCE)
                BY <3>3, <5>1, <6>1, <7>2
              <8>2. m.counter[k] <= DEBOUNCE
                BY <1>0, <3>1 DEF Typed
              <8> QED
                BY <1>c, <3>1, <8>1, <8>2 DEF Charged
            <7> QED
              BY <7>1, <7>2
          <6> QED
            BY <5>1, <6>1, <6>2 DEF Charged
        <5>3. CASE k \notin cancelled /\ d.counter[k] = 0
          <6>1. n1.counter[k] = 0 /\ m.counter[k] <= m.last_time
            BY <1>1, <3>1, <3>10, <4>3, <5>3
          <6> QED
            BY <3>14, <5>1, <6>1 DEF Charged
        <5>4. CASE k \notin cancelled /\ d.counter[k] # 0
          <6>1. n1.counter[k] = d.counter[k] /\ (k \in n1.pressed <=> k \in m.pressed)
                /\ m.counter[k] # 0
            BY <3>10, <3>11, <4>3, <5>4
          <6>2. n1.last_time \in {0, d.last_time} /\ 2 * DEBOUNCE \in Nat
            BY <1>c, <3>10
          <6>3. ASSUME NEW total \in Nat, Charged(m, k, q[k], total)
                PROVE  Charged(n1, k, q[k], total)
            BY <3>1, <3>5, <6>1, <6>2, <6>3 DEF Charged
          <6>4. CASE k \in m.pressed
            BY <1>c, <3>3, <5>1, <6>1, <6>3, <6>4
          <6>5. CASE k \notin m.pressed
            BY <3>3, <5>1, <5>4, <6>1, <6>2, <6>3, <6>5
          <6> QED
            BY <6>4, <6>5
        <5> QED
          BY <5>2, <5>3, <5>4
      <4> QED
        BY <4>1, <4>2, <4>3
    <3>17. ASSUME n1.counter[k] # 0, k \notin n1.pressed
           PROVE  k \notin raw /\ Charged(n1, k, s1, DEBOUNCE)
      <4> HIDE DEF s1
      <4>1. CASE k \in us
        <5>1. k \notin raw /\ n1.counter[k] = DEBOUNCE /\ n1.last_time = 0
          BY <1>3, <3>10, <3>17, <4>1
        <5> QED
          BY <1>c, <3>1, <5>1 DEF Charged
      <4>2. CASE k \notin us
        <5>1. /\ d.counter[k] # 0 /\ k \notin m.pressed /\ n1.counter[k] = d.counter[k]
              /\ k \notin cancelled
          BY <3>10, <3>17, <4>2
        <5>2. k \notin raw
          BY <1>3, <4>2, <5>1
        <5>3. s1 = s[k] /\ Charged(m, k, s[k], DEBOUNCE)
          BY <3>2, <3>4, <3>11, <5>1, <5>2
        <5>4. n1.last_time \in {0, d.last_time}
          BY <3>10
        <5> QED
          BY <1>c, <3>1, <3>5, <5>1, <5>2, <5>3, <5>4 DEF Charged
      <4> QED
        BY <4>1, <4>2
    <3>18. k \in Moves(m, n1) => /\ q[k] >= Apart \/ k \in n1.cooked
                                 /\ k \in m.cooked => s1 >= DEBOUNCE
      <4>1. k \in Moves(m, n1) /\ k \in m.cooked => k \notin kept
        BY <3>13
      <4>2. k \in Moves(m, n1) /\ k \notin m.cooked => k \in n1.cooked
        BY DEF Moves
      <4>3. k \in m.cooked /\ k \notin kept => /\ q[k] >= Apart
                                               /\ s1 = s[k] /\ s[k] >= DEBOUNCE
        BY <1>c, <3>2, <3>4, <3>6, <3>8, <3>15
      <4> QED
        BY <4>1, <4>2, <4>3
    <3>19. ASSUME (k \in raw) # (k \in n1.cooked)
           PROVE  /\ k \in n1.cooked /\ n1.counter[k] # 0
                  /\ k \in n1.pressed => s1 < DEBOUNCE
                  /\ s1 + n1.counter[k] <= (IF k \notin n1.pressed THEN Latency ELSE DEBOUNCE)
      <4>0. /\ s1 \in {0, s[k]} /\ ((k \in raw) # (k \in raw_matrix) => s1 = 0)
            /\ d.counter[k] \in 0 .. DEBOUNCE
        BY <1>0, <1>1, <3>1 DEF Typed, Db
      <4> HIDE DEF s1
      <4>1. CASE k \in us
        <5>1. /\ k \notin raw /\ k \in kept /\ d.counter[k] = 0
              /\ n1.counter[k] = DEBOUNCE /\ k \notin n1.pressed /\ k \in n1.cooked
          BY <1>3, <3>10, <3>19, <4>1
        <5>2. s1 < DEBOUNCE + MAX_STALL
          <6>1. CASE k \in raw_matrix
            BY <1>c, <1>d, <3>1, <4>0, <5>1, <6>1
          <6>2. CASE k \notin raw_matrix
            <7>1. m.counter[k] # 0 /\ m.counter[k] <= m.last_time
              BY <1>1, <1>e, <3>1, <3>7, <5>1, <6>2
            <7>2. k \in m.pressed
              BY <1>2, <3>6, <5>1, <7>1
            <7>3. s[k] < DEBOUNCE + MAX_STALL
              BY <1>e, <3>7, <5>1, <6>2, <7>2
            <7> QED
              BY <1>c, <1>d, <3>1, <4>0, <7>3
          <6> QED
            BY <6>1, <6>2
        <5> QED
          BY <1>c, <1>d, <3>1, <5>1, <5>2
      <4>2. CASE k \notin us
        <5>1. /\ d.counter[k] # 0 /\ k \notin cancelled /\ n1.counter[k] = d.counter[k]
              /\ (k \in n1.pressed <=> k \in m.pressed)
          BY <1>3, <3>10, <3>19, <4>2
        <5>2. k \in n1.cooked /\ k \notin raw /\ k \in m.cooked
          BY <3>2, <3>11, <3>12, <3>19, <5>1
        <5>3. CASE k \in raw_matrix
          BY <1>c, <1>d, <3>1, <4>0, <5>1, <5>2, <5>3
        <5>4. CASE k \notin raw_matrix
          <6>1. d.counter[k] = m.counter[k] - m.last_time /\ m.counter[k] > m.last_time
            BY <1>1, <3>1, <3>11, <5>1
          <6>2. s[k] + m.counter[k] <= (IF k \notin m.pressed THEN Latency ELSE DEBOUNCE)
                                       + m.last_time
            BY <1>e, <3>1, <5>2, <5>4, <6>1
          <6> QED
            BY <1>c, <1>d, <3>1, <4>0, <5>1, <5>2, <6>1, <6>2
        <5> QED
          BY <5>3, <5>4
      <4> QED
        BY <4>1, <4>2
    <3>20. LateKey(n1, raw, StillAfter(raw, s), k, 0)
      <4>1. /\ n1.last_time \in Nat /\ n1.counter[k] \in Nat /\ Latency \in Nat
            /\ DEBOUNCE + 0 = DEBOUNCE
        BY <1>c, <2>4, <3>1, Limits DEF Db
      <4>2. Unit(k) = k
        BY <1>b
      <4>3. (k \in raw) # (k \in n1.cooked) =>
              s1 + n1.counter[k] <= (IF k \notin n1.pressed THEN Latency ELSE DEBOUNCE) + n1.last_time
        <5> HIDE DEF s1
        <5> QED
          BY <1>c, <3>1, <3>19, <4>1
      <4> QED
        BY <3>19, <4>1, <4>2, <4>3 DEF LateKey, DEBOUNCE_ELAPSED
    <3> QED
      BY <3>12, <3>16, <3>17, <3>18, <3>20 DEF SpacedKey, DeferredKey, DEBOUNCE_ELAPSED
  <2>6. FlagsInv(n1)
    <3> HIDE DEF counter
    <3> QED
      BY <2>2, <2>3, <2>5 DEF FlagsInv
  <2>7. \A k \in Keys : DefersFrom(m, k) => k \in m.cooked
    BY <1>a DEF DefersFrom
  <2>8. PromptInv(n1)
    <3>1. \A u \in Units : counter[u] # 0 => t = 0
      BY <1>1, <1>3, <1>b DEF DEBOUNCE_ELAPSED
    <3> HIDE DEF counter
    <3> QED
      BY <2>3, <3>1 DEF PromptInv, DEBOUNCE_ELAPSED
  <2> QED
    BY <2>4, <2>5, <2>6, <2>7, <2>8 DEF Sound, SpacedInv, DeferredInv, LateInv, Moves
<1>4. e = [cooked |-> kept, counter |-> d.counter, pressed |-> m.pressed,
           counters_need_update |-> d.counters_need_update,
           matrix_need_update |-> again, last_time |-> d.last_time]
  <2>1. e = [d EXCEPT !.matrix_need_update = again, !.cooked = kept]
    OBVIOUS
  <2> HIDE DEF d, e, again, kept
  <2> QED
    BY <1>1, <2>1 DEF Db
<1>5. CASE ~(raw # raw_matrix \/ e.matrix_need_update)
  <2>1. n = e
    BY <1>1, <1>5 DEF asym_eager_defer_pk
  <2>2. /\ d.counter = [u \in Units |-> IF u \in {} THEN DEBOUNCE
                                        ELSE IF u \in {} THEN DEBOUNCE_ELAPSED
                                        ELSE d.counter[u]]
        /\ kept = kept \cup ({} \cap raw) /\ m.pressed = (m.pressed \ {}) \cup ({} \cap raw)
    <3> HIDE DEF d, kept
    <3> QED
      BY <1>1 DEF Db
  <2>3. \A k \in Keys : d.counter[k] # 0 /\ k \notin m.pressed => k \notin raw
    <3> SUFFICES ASSUME NEW k \in Keys, d.counter[k] # 0, k \notin m.pressed
                 PROVE  k \notin raw
      OBVIOUS
    <3>1. m.counter[k] # 0
      BY <1>1, <1>b
    <3> QED
      BY <1>5, <3>1 DEF Ready, DeferredInv, DeferredKey, DEBOUNCE_ELAPSED
  <2>4. d.counters_need_update \in BOOLEAN /\ again \in BOOLEAN
    BY <1>1 DEF Db
  <2>5. n = [cooked |-> kept \cup ({} \cap raw),
             counter |-> [u \in Units |-> IF u \in {} THEN DEBOUNCE
                                          ELSE IF u \in {} THEN DEBOUNCE_ELAPSED
                                          ELSE d.counter[u]],
             pressed |-> (m.pressed \ {}) \cup ({} \cap raw),
             counters_need_update |-> d.counters_need_update,
             matrix_need_update |-> again, last_time |-> d.last_time]
    <3> HIDE DEF d, e, n, kept, again
    <3> QED
      BY <1>4, <2>1, <2>2
  <2>a. \A k \in Keys : (k \in raw) # (k \in kept) => d.counter[k] # 0
    <3> SUFFICES ASSUME NEW k \in Keys, (k \in raw) # (k \in kept)
                 PROVE  d.counter[k] # 0
      OBVIOUS
    <3>1. k \notin released /\ (k \in raw_matrix) # (k \in m.cooked)
      BY <1>2, <1>5
    <3>2. m.counter[k] # 0 /\ k \in Units
      BY <1>b, <1>e, <3>1
    <3>3. k \notin Ending(m)
      BY <1>4, <1>5, <3>1
    <3>4. ~(m.counter[k] <= m.last_time)
      BY <1>1, <3>2, <3>3
    <3> QED
      BY <1>1, <3>2, <3>4
  <2> DEFINE noKey == {}
  <2>6. /\ noKey \in SUBSET Keys /\ d.last_time \in {0, d.last_time}
        /\ noKey = {} /\ \A k \in noKey : FALSE
    OBVIOUS
  <2>7. \A k \in Keys \ (noKey \cup noKey) :
          d.counter[k] # 0 /\ k \notin m.pressed => k \notin raw
    BY <2>3
  <2>8. n = [cooked |-> kept \cup (noKey \cap raw),
             counter |-> [u \in Units |-> IF u \in noKey THEN DEBOUNCE
                                          ELSE IF u \in noKey THEN DEBOUNCE_ELAPSED
                                          ELSE d.counter[u]],
             pressed |-> (m.pressed \ noKey) \cup (noKey \cap raw),
             counters_need_update |-> d.counters_need_update,
             matrix_need_update |-> again, last_time |-> d.last_time]
    BY <2>5
  <2> HIDE DEF d, e, n, kept, again, noKey
  <2>9. Sound(m, n, raw, q, s)
    BY <1>3, <2>4, <2>6, <2>7, <2>8, <2>a
  <2> QED
    BY <2>9 DEF n
<1>6. CASE raw # raw_matrix \/ e.matrix_need_update
  <2> DEFINE f == Touched(e)
             us == {u \in Units : (u \in raw) # (u \in kept) /\ d.counter[u] = 0}
             cancelled == {u \in Units : (u \in raw) = (u \in kept) /\ u \notin m.pressed}
             counter == [u \in Units |-> IF u \in us THEN DEBOUNCE
                                         ELSE IF u \in cancelled THEN DEBOUNCE_ELAPSED
                                         ELSE d.counter[u]]
             pressed == (m.pressed \ us) \cup (us \cap raw)
             cooked == kept \cup (us \cap raw)
             b == d.counters_need_update \/ us # {}
  <2>1. n = asym_transfer_matrix_values(f, raw)
    BY <1>1, <1>6 DEF asym_eager_defer_pk
  <2>2. f = [cooked |-> kept, counter |-> d.counter, pressed |-> m.pressed,
             counters_need_update |-> d.counters_need_update,
             matrix_need_update |-> again, last_time |-> 0]
    <3>1. f = [e EXCEPT !.last_time = 0]
      BY DEF Touched
    <3> HIDE DEF d, e, f, again, kept
    <3> QED
      BY <1>4, <3>1
  <2>3. /\ {u \in Units : Differs(f, raw, u) /\ f.counter[u] = DEBOUNCE_ELAPSED} = us
        /\ {u \in Units : ~Differs(f, raw, u) /\ u \notin f.pressed} = cancelled
    <3>1. f.cooked = kept /\ f.counter = d.counter /\ f.pressed = m.pressed
      BY <2>2
    <3>2. \A u \in Units : Differs(f, raw, u) <=> (u \in raw) # (u \in kept)
      <4> HIDE DEF f, kept
      <4> QED
        BY <1>a, <1>b, <3>1, DiffersKey DEF PerRow
    <3> HIDE DEF f, d, kept
    <3> QED
      BY <3>1, <3>2 DEF DEBOUNCE_ELAPSED
  <2>4. n = [f EXCEPT !.matrix_need_update = FALSE, !.counter = counter, !.pressed = pressed,
                      !.counters_need_update = b, !.cooked = cooked]
    <3>1. /\ f.cooked = kept /\ f.counter = d.counter /\ f.pressed = m.pressed
          /\ f.counters_need_update = d.counters_need_update
      BY <2>2
    <3> HIDE DEF f, d, us, cancelled, n, kept
    <3> QED
      BY <2>1, <2>3, <3>1 DEF asym_transfer_matrix_values
  <2>5. n = [cooked |-> cooked, counter |-> counter, pressed |-> pressed,
             counters_need_update |-> b, matrix_need_update |-> FALSE, last_time |-> 0]
    <3> HIDE DEF f, d, us, n, cooked, counter, pressed, b
    <3> QED
      BY <2>2, <2>4
  <2>6. /\ us \in SUBSET Keys /\ cancelled \in SUBSET Keys /\ b \in BOOLEAN /\ FALSE \in BOOLEAN
        /\ ~b => us = {} /\ ~d.counters_need_update
        /\ \A k \in us : d.counter[k] = 0 /\ (k \in raw) # (k \in kept)
        /\ \A k \in cancelled : k \notin m.pressed /\ (k \in raw <=> k \in kept)
        /\ \A k \in Keys : (k \in raw) # (k \in kept) => k \in us \/ d.counter[k] # 0
    <3> HIDE DEF d, kept
    <3> QED
      BY <1>b
  <2>7. \A k \in Keys \ (us \cup cancelled) :
          d.counter[k] # 0 /\ k \notin m.pressed => k \notin raw
    <3> SUFFICES ASSUME NEW k \in Keys, k \notin cancelled, d.counter[k] # 0, k \notin m.pressed
                 PROVE  k \notin raw
      OBVIOUS
    <3>1. (k \in raw) # (k \in kept)
      BY <1>b
    <3>2. m.counter[k] # 0 /\ ~(m.counter[k] <= m.last_time)
      BY <1>1, <1>b
    <3>3. k \in m.cooked
      BY <3>2 DEF Ready, FlagsInv, DEBOUNCE_ELAPSED
    <3>4. k \in kept
      BY <1>1, <1>2, <3>2, <3>3
    <3> QED
      BY <3>1, <3>4
  <2> HIDE DEF d, e, f, n, kept, us, cancelled, b
  <2>8. Sound(m, n, raw, q, s)
    BY <1>3, <2>5, <2>6, <2>7, ZenonT(60)
  <2> QED
    BY <2>8 DEF n
<1> QED
  BY <1>5, <1>6

-----------------------------------------------------------------------------
(* A turn of matrix_task.                                                  *)

\* Whatever the algorithm, a scan keeps its invariant and moves as allowed.
LEMMA DebounceSound ==
  ASSUME NEW m, NEW q, NEW s, Ready(m, q, s), NEW raw \in SUBSET Keys, build \in Builds
  PROVE  Sound(m, debounce(m, raw), raw, q, s)
<1>1. Algorithm \in {"none", "sym_defer_g", "sym_defer_pr", "sym_defer_pk", "sym_eager_pk",
                     "sym_eager_pr", "asym_eager_defer_pk"}
  BY DebounceAssumption DEF Algorithm, PerKey, PerRow
<1>2. CASE Algorithm = "none"
  BY <1>2, NoneSound DEF debounce
<1>3. CASE Algorithm = "sym_defer_g"
  BY <1>3, GlobalSound DEF debounce
<1>4. CASE Algorithm = "sym_defer_pr"
  BY <1>4, RowSound DEF debounce
<1>5. CASE Algorithm = "sym_defer_pk"
  BY <1>5, KeySound DEF debounce
<1>6. CASE Algorithm \in {"sym_eager_pk", "sym_eager_pr"}
  BY <1>6, EagerSound DEF debounce
<1>7. CASE Algorithm = "asym_eager_defer_pk"
  BY <1>7, AsymSound DEF debounce
<1> QED
  BY <1>1, <1>2, <1>3, <1>4, <1>5, <1>6, <1>7

\* The algorithms without counters take the whole reading or nothing.
LEMMA WholeMatrix ==
  ASSUME NEW m \in Db, NEW raw \in SUBSET Keys, Algorithm \in {"sym_defer_g", "none"}
  PROVE  /\ debounce(m, raw).cooked \in {m.cooked, raw}
         /\ Algorithm = "none" /\ m.cooked = raw_matrix => debounce(m, raw).cooked = raw
<1>1. CASE Algorithm = "none"
  BY <1>1 DEF debounce, none, Db
<1>2. CASE Algorithm = "sym_defer_g"
  BY <1>2 DEF debounce, sym_defer_g, Db
<1> QED
  BY <1>1, <1>2

\* What is read lies within the matrix.
LEMMA WiredType ==
  ASSUME build \in Builds, NEW closed \in SUBSET build.switches
  PROVE  closed \in SUBSET Keys /\ Wired(closed) \in SUBSET Keys
BY DebounceAssumption DEF Wired

\* Reporting again reports nothing new.
LEMMA ReportedTwice ==
  ASSUME NEW cooked, NEW previous
  PROVE  /\ Reported(cooked, previous) \in SUBSET Keys
         /\ Reported(cooked, previous) = Reported(cooked, Reported(cooked, previous))
BY DEF Reported

\* A key that reads as closed only by way of three others shares two columns
\* with another row, so its row is held back.
LEMMA PhantomIsGhost ==
  ASSUME NEW closed \in SUBSET Keys, NEW k \in Wired(closed) \ closed
  PROVE  has_ghost_in_row(Wired(closed), k[1])
<1> DEFINE m == Wired(closed)
<1>1. build.MATRIX_HAS_GHOST
  BY DEF Wired
<1>2. closed \subseteq m /\ k \in Keys
  BY DEF Wired
<1>3. PICK r \in ROWS, c \in COLS : {<<r, k[2]>>, <<k[1], c>>, <<r, c>>} \subseteq closed
  BY <1>1 DEF Wired
<1>4. k = <<k[1], k[2]>> /\ k[1] \in ROWS /\ k[2] \in COLS
  BY <1>2 DEF Keys
<1>5. r # k[1] /\ c # k[2]
  BY <1>3, <1>4
<1> DEFINE common == Columns(m, r) \cap Columns(m, k[1])
<1> HIDE DEF m
<1>6. {c, k[2]} \subseteq common
  <2>1. <<r, k[2]>> \in m /\ <<k[1], c>> \in m /\ <<r, c>> \in m /\ <<k[1], k[2]>> \in m
    BY <1>2, <1>3, <1>4 DEF m
  <2> QED
    BY <1>3, <1>4, <2>1 DEF Columns
<1>7. IsFiniteSet(common) /\ Cardinality(common) \in Nat
  <2>1. common \in SUBSET COLS
    BY DEF Columns
  <2> QED
    BY <2>1, DebounceAssumption, FS_Subset, FS_CardinalityType
<1>8. Cardinality({c, k[2]}) = 2
  <2>1. {c, k[2]} = {c} \cup {k[2]}
    OBVIOUS
  <2>2. IsFiniteSet({c}) /\ Cardinality({c}) = 1 /\ k[2] \notin {c}
    BY <1>5, FS_Singleton
  <2>3. Cardinality({c} \cup {k[2]}) = Cardinality({c}) + 1
    BY <2>2, FS_AddElement
  <2> QED
    BY <2>1, <2>2, <2>3
<1>9. Cardinality(common) > 1
  BY <1>6, <1>7, <1>8, FS_Subset
<1> QED
  BY <1>1, <1>3, <1>5, <1>9 DEF has_ghost_in_row, m

\* What a turn does, in terms of the state before the scan (m, q, s).
LEMMA Turn ==
  ASSUME IInv, NEW closed \in SUBSET build.switches, NEW d \in 0 .. MAX_STALL,
         matrix_task(closed, d),
         NEW m, m = [db EXCEPT !.last_time = Saturated(@ + d)],
         NEW q, q = [k \in Keys |-> Aged(quiet[k], d, Apart)],
         NEW s, s = [k \in Keys |-> Aged(still[k], d, Latency)],
         NEW raw, raw = Wired(closed)
  PROVE  /\ Ready(m, q, s) /\ m.cooked = db.cooked /\ raw \in SUBSET Keys
         /\ build' = build /\ contacts' = closed /\ raw_matrix' = raw
         /\ db' = debounce(m, raw) /\ Sound(m, db', raw, q, s)
         /\ quiet' = QuietAfter(m, db', q) /\ still' = StillAfter(raw, s)
         /\ matrix_previous' = Reported(db'.cooked, matrix_previous)
         /\ hurried' = {k \in Moves(m, db') : q[k] < Apart}
<1>1. Ready(m, q, s)
  BY Passing DEF IInv
<1>2. m.cooked = db.cooked
  BY DEF IInv, TypeInv, Db
<1>3. build \in Builds /\ raw \in SUBSET Keys
  BY WiredType DEF IInv, TypeInv
<1>4. /\ build' = build /\ contacts' = closed /\ raw_matrix' = raw /\ db' = debounce(m, raw)
      /\ matrix_previous' = Reported(db'.cooked, matrix_previous)
  BY DEF matrix_task
<1>5. Sound(m, db', raw, q, s)
  BY <1>1, <1>3, <1>4, DebounceSound
<1>6. Moves(m, db') = {k \in Keys : (k \in db'.cooked) # (k \in db.cooked)}
  BY <1>2 DEF Moves
<1>7. quiet' = QuietAfter(m, db', q)
  BY <1>6 DEF matrix_task, QuietAfter
<1>8. still' = StillAfter(raw, s)
  BY DEF matrix_task, StillAfter
<1>9. hurried' = {k \in Moves(m, db') : q[k] < Apart}
  BY <1>6 DEF matrix_task, Moves
<1> QED
  BY <1>1, <1>2, <1>3, <1>4, <1>5, <1>7, <1>8, <1>9

-----------------------------------------------------------------------------
(* The invariant.                                                          *)

\* After matrix_init no counter runs and nothing is pressed.
LEMMA InitInv == Init => IInv
<1> SUFFICES ASSUME Init
             PROVE  IInv
  OBVIOUS
<1>1. /\ db.cooked = {} /\ db.counters_need_update = FALSE /\ db.last_time = 0 /\ db.pressed = {}
      /\ db.counter = [u \in Units |-> DEBOUNCE_ELAPSED] /\ db.matrix_need_update = FALSE
      /\ raw_matrix = {} /\ matrix_previous = {} /\ hurried = {}
  BY DEF Init
<1>2. \A k \in Keys : quiet[k] = Apart /\ still[k] = Latency
  BY DEF Init
<1>3. TypeInv
  <2>1. db \in Db
    BY DebounceAssumption DEF Init, Db, DEBOUNCE_ELAPSED
  <2>2. quiet \in [Keys -> 0 .. Apart] /\ still \in [Keys -> 0 .. Latency]
    BY Limits DEF Init
  <2> QED
    BY <2>1, <2>2 DEF Init, TypeInv
<1>4. \A u \in Units : db.counter[u] = DEBOUNCE_ELAPSED
  BY <1>1
<1>5. FlagsInv(db)
  <2>1. Algorithm = "asym_eager_defer_pk" => Units = Keys
    BY UnitOfKey DEF Algorithm, PerRow
  <2> QED
    BY <1>4, <2>1 DEF FlagsInv
<1>6. SpacedInv(db, quiet)
  <2> SUFFICES ASSUME NEW k \in Keys
               PROVE  SpacedKey(db, quiet, k)
    BY DEF SpacedInv
  <2>1. Unit(k) \in Units
    BY UnitOfKey
  <2>2. Algorithm \in {"sym_eager_pk", "sym_eager_pr"} => quiet[k] >= DEBOUNCE
    BY <1>2, Limits, DebounceAssumption
  <2> QED
    BY <1>1, <1>4, <2>1, <2>2 DEF SpacedKey, Charged
<1>7. DeferredInv(db, raw_matrix, still)
  <2>1. \A k \in Keys : Unit(k) \in Units
    BY UnitOfKey
  <2>2. Algorithm \in {"sym_defer_pk", "asym_eager_defer_pk"} => Units = Keys
    BY UnitOfKey DEF Algorithm, PerRow
  <2> QED
    BY <1>1, <1>4, <2>1, <2>2 DEF DeferredInv, DeferredKey
<1>8. ReportedInv /\ Spaced
  BY <1>1 DEF ReportedInv, Spaced, Reported
<1>9. LateInv(db, raw_matrix, still, 0) /\ PromptInv(db)
  <2>1. Algorithm = "sym_defer_g" => DEBOUNCE # 0 /\ DEBOUNCE \in Nat
    BY DebounceAssumption DEF Algorithm
  <2> QED
    BY <1>1, <1>4, <2>1 DEF LateInv, LateKey, PromptInv
<1> QED
  BY <1>3, <1>5, <1>6, <1>7, <1>8, <1>9 DEF IInv

\* Time that passes and a scan, with whatever algorithm, keep it.
LEMMA StepInv == IInv /\ [Next]_vars => IInv'
<1> SUFFICES ASSUME IInv, [Next]_vars
             PROVE  IInv'
  OBVIOUS
<1>1. CASE UNCHANGED vars
  <2>1. /\ build' = build /\ raw_matrix' = raw_matrix /\ db' = db /\ contacts' = contacts
        /\ matrix_previous' = matrix_previous /\ still' = still /\ quiet' = quiet
        /\ hurried' = hurried
    BY <1>1 DEF vars
  <2>2. TypeInv'
    BY <2>1 DEF IInv, TypeInv, Db, Units, Unit, Apart, Latency, Algorithm
  <2>3. FlagsInv(db)'
    BY <2>1 DEF IInv, FlagsInv, Algorithm, Units, Unit
  <2>4. SpacedInv(db, quiet)'
    BY <2>1 DEF IInv, SpacedInv, SpacedKey, Charged, Algorithm, Unit
  <2>5. DeferredInv(db, raw_matrix, still)'
    BY <2>1 DEF IInv, DeferredInv, DeferredKey, Charged, Algorithm, Unit
  <2>6. ReportedInv' /\ Spaced'
    BY <2>1 DEF IInv, ReportedInv, Reported, has_ghost_in_row, Columns, Algorithm, Spaced
  <2>7. LateInv(db, raw_matrix, still, 0)'
    BY <2>1 DEF IInv, LateInv, LateKey, Algorithm, Counters, Unit, Latency
  <2>8. PromptInv(db)'
    BY <2>1 DEF IInv, PromptInv, Algorithm, Counters, Units, Unit
  <2> QED
    BY <2>2, <2>3, <2>4, <2>5, <2>6, <2>7, <2>8 DEF IInv
<1>2. ASSUME NEW closed \in SUBSET build.switches, NEW d \in 0 .. MAX_STALL, matrix_task(closed, d)
      PROVE  IInv'
  <2> DEFINE m == [db EXCEPT !.last_time = Saturated(@ + d)]
             q == [k \in Keys |-> Aged(quiet[k], d, Apart)]
             s == [k \in Keys |-> Aged(still[k], d, Latency)]
             raw == Wired(closed)
  <2>1. /\ Ready(m, q, s) /\ m.cooked = db.cooked /\ raw \in SUBSET Keys
        /\ build' = build /\ contacts' = closed /\ raw_matrix' = raw
        /\ db' = debounce(m, raw) /\ Sound(m, db', raw, q, s)
        /\ quiet' = QuietAfter(m, db', q) /\ still' = StillAfter(raw, s)
        /\ matrix_previous' = Reported(db'.cooked, matrix_previous)
        /\ hurried' = {k \in Moves(m, db') : q[k] < Apart}
    BY <1>2, Turn
  <2> HIDE DEF m, q, s, raw
  <2>2. /\ db' \in Db /\ FlagsInv(db') /\ SpacedInv(db', quiet') /\ DeferredInv(db', raw_matrix', still')
        /\ LateInv(db', raw_matrix', still', 0) /\ PromptInv(db')
    BY <2>1 DEF Sound
  <2>3. TypeInv'
    <3>1. quiet' \in [Keys -> 0 .. Apart] /\ still' \in [Keys -> 0 .. Latency]
      BY <2>1, Limits DEF Ready, QuietAfter, StillAfter
    <3>2. matrix_previous' \in SUBSET Keys /\ hurried' \in SUBSET Keys
      BY <2>1, ReportedTwice DEF Moves
    <3>3. build \in Builds
      BY DEF IInv, TypeInv
    <3> QED
      BY <1>2, <2>1, <2>2, <3>1, <3>2, <3>3 DEF TypeInv, Db, Units, Unit, Apart, Latency, Algorithm
  <2>4. FlagsInv(db)'
    BY <2>1, <2>2 DEF FlagsInv, Algorithm, Units, Unit
  <2>5. SpacedInv(db, quiet)'
    BY <2>1, <2>2 DEF SpacedInv, SpacedKey, Charged, Algorithm, Unit
  <2>6. DeferredInv(db, raw_matrix, still)'
    BY <2>1, <2>2 DEF DeferredInv, DeferredKey, Charged, Algorithm, Unit
  <2>7. ReportedInv'
    <3>1. matrix_previous' = Reported(db'.cooked, matrix_previous')
      BY <2>1, ReportedTwice
    <3>2. Algorithm = "none" => db'.cooked = raw_matrix'
      BY <2>1, WholeMatrix DEF IInv, ReportedInv, Ready
    <3> QED
      BY <2>1, <3>1, <3>2 DEF ReportedInv, Reported, has_ghost_in_row, Columns, Algorithm
  <2>8. Spaced'
    <3>1. \A k \in Moves(m, db') : q[k] \in Int /\ Apart \in Int
      BY <2>1, Limits DEF Ready, Moves
    <3>2. \A k \in hurried' : Algorithm = "asym_eager_defer_pk" /\ k \in db'.cooked
      BY <2>1, <3>1 DEF Sound
    <3> QED
      BY <2>1, <3>2 DEF Spaced, Algorithm
  <2>9. LateInv(db, raw_matrix, still, 0)'
    BY <2>1, <2>2 DEF LateInv, LateKey, Algorithm, Unit, Latency
  <2>10. PromptInv(db)'
    BY <2>1, <2>2 DEF PromptInv, Algorithm, Units, Unit
  <2> QED
    BY <2>3, <2>4, <2>5, <2>6, <2>7, <2>8, <2>9, <2>10 DEF IInv
<1> QED
  BY <1>1, <1>2 DEF Next

\* The invariant holds in every behaviour of matrix_task.
THEOREM Invariance == Spec => []IInv
<1> QED
  BY InitInv, StepInv, PTL DEF Spec

-----------------------------------------------------------------------------
(* What the runs check, for every matrix and every DEBOUNCE.               *)

\* The variables keep their types, and no counter exceeds DEBOUNCE.
THEOREM TypeCorrect == Spec => []TypeOK
<1>1. IInv => TypeOK
  BY DEF IInv, TypeInv, TypeOK, Db
<1> QED
  BY <1>1, Invariance, PTL

\* Two changes of a key are DEBOUNCE ms apart or more (Spaced).
THEOREM ChangesSpaced == Spec => []Spaced
<1>1. IInv => Spaced
  BY DEF IInv
<1> QED
  BY <1>1, Invariance, PTL

\* A change that is deferred has been read for DEBOUNCE ms (Deferred).
THEOREM ChangesDeferred == Spec => Deferred
<1>1. IInv /\ [Next]_vars => [\A k \in Keys : Changes(k) /\ Defers(k) => still'[k] >= DEBOUNCE]_vars
  <2> SUFFICES ASSUME IInv, Next, NEW k \in Keys, Changes(k), Defers(k)
               PROVE  still'[k] >= DEBOUNCE
    OBVIOUS
  <2>1. PICK closed \in SUBSET build.switches, d \in 0 .. MAX_STALL : matrix_task(closed, d)
    BY DEF Next
  <2> DEFINE m == [db EXCEPT !.last_time = Saturated(@ + d)]
             q == [j \in Keys |-> Aged(quiet[j], d, Apart)]
             s == [j \in Keys |-> Aged(still[j], d, Latency)]
             raw == Wired(closed)
  <2>2. /\ m.cooked = db.cooked /\ Sound(m, db', raw, q, s) /\ still' = StillAfter(raw, s)
    BY <2>1, Turn
  <2> HIDE DEF m, q, s, raw
  <2>3. k \in Moves(m, db') /\ DefersFrom(m, k)
    BY <2>2 DEF Changes, Defers, Moves, DefersFrom
  <2> QED
    BY <2>2, <2>3 DEF Sound
<1> QED
  BY <1>1, Invariance, PTL DEF Spec, Deferred

\* No change is lost: a key that has been still long enough is reported as it
\* is read (Settles).  With sym_defer_pr and a DEBOUNCE of 0 it is not.
THEOREM ChangesSettle == ASSUME DEBOUNCE # 0 PROVE Spec => []Settles
<1>1. ASSUME IInv, NEW k \in Keys, still[k] = Latency, ~has_ghost_in_row(db.cooked, k[1])
      PROVE  (k \in matrix_previous) = (k \in raw_matrix)
  <2>1. (k \in matrix_previous) = (k \in db.cooked)
    BY <1>1 DEF IInv, ReportedInv, Reported
  <2>2. Algorithm \in Counters \cup {"sym_defer_pr", "sym_defer_g", "none"}
    BY <1>1, DebounceAssumption DEF IInv, TypeInv, Algorithm, PerKey, PerRow, Counters
  <2>3. (k \in raw_matrix) = (k \in db.cooked)
    <3> SUFFICES ASSUME (k \in raw_matrix) # (k \in db.cooked)
                 PROVE  FALSE
      OBVIOUS
    <3>1. LateKey(db, raw_matrix, still, k, 0) /\ Unit(k) \in Units
      BY <1>1, UnitOfKey DEF IInv, LateInv
    <3>2. /\ db.last_time \in Nat /\ db.counter[Unit(k)] \in Nat /\ Latency \in Nat
          /\ DEBOUNCE \in Nat /\ MAX_STALL \in Nat \ {0}
      BY <1>1, <3>1, Limits, DebounceAssumption DEF IInv, TypeInv, Db
    <3>3. CASE Algorithm = "none"
      BY <1>1, <3>3 DEF IInv, ReportedInv
    <3>4. CASE Algorithm = "sym_defer_g"
      <4>1. still[k] <= db.last_time /\ db.last_time < DEBOUNCE
        BY <1>1, <3>1, <3>4 DEF IInv, LateKey, PromptInv
      <4>2. Latency = DEBOUNCE
        BY <3>4 DEF Latency
      <4> QED
        BY <1>1, <3>2, <4>1, <4>2
    <3>5. CASE Algorithm \in Counters \cup {"sym_defer_pr"}
      <4> DEFINE c == db.counter[Unit(k)]
                 total == IF Algorithm = "asym_eager_defer_pk" /\ k \notin db.pressed
                          THEN Latency ELSE DEBOUNCE
      <4>1. c # 0 /\ (c <= db.last_time \/ still[k] + c <= total + db.last_time)
        BY <3>1, <3>5 DEF LateKey, DEBOUNCE_ELAPSED
      <4>2. db.last_time = 0
        BY <1>1, <3>1, <3>5, <4>1 DEF IInv, PromptInv, DEBOUNCE_ELAPSED
      <4>3. total \in Nat /\ total <= Latency
        BY <3>2, <3>5, Limits DEF Counters
      <4> HIDE DEF c, total
      <4>4. c \in Nat
        BY <3>2 DEF c
      <4> QED
        BY <1>1, <3>2, <4>1, <4>2, <4>3, <4>4
    <3> QED
      BY <2>2, <3>3, <3>4, <3>5
  <2> QED
    BY <2>1, <2>3
<1>2. IInv => Settles
  BY <1>1 DEF Settles
<1> QED
  BY <1>2, Invariance, PTL

\* No press is reported of a switch that is open, where whole matrices are
\* copied (NoPhantom).
THEOREM PhantomsHeldBack == Spec => NoPhantom
<1>1. IInv /\ [Next]_vars => [\/ Algorithm \notin {"sym_defer_g", "none"}
                              \/ matrix_previous' \ matrix_previous \subseteq contacts']_vars
  <2> SUFFICES ASSUME IInv, Next, Algorithm \in {"sym_defer_g", "none"},
                      NEW k \in matrix_previous' \ matrix_previous
               PROVE  k \in contacts'
    OBVIOUS
  <2>1. PICK closed \in SUBSET build.switches, d \in 0 .. MAX_STALL : matrix_task(closed, d)
    BY DEF Next
  <2> DEFINE m == [db EXCEPT !.last_time = Saturated(@ + d)]
             q == [j \in Keys |-> Aged(quiet[j], d, Apart)]
             s == [j \in Keys |-> Aged(still[j], d, Latency)]
             raw == Wired(closed)
  <2>2. /\ Ready(m, q, s) /\ m.cooked = db.cooked /\ raw \in SUBSET Keys /\ contacts' = closed
        /\ db' = debounce(m, raw) /\ matrix_previous' = Reported(db'.cooked, matrix_previous)
    BY <2>1, Turn, SMTT(30)
  <2> HIDE DEF m, q, s
  <2>3. k \in db'.cooked /\ ~has_ghost_in_row(db'.cooked, k[1]) /\ k \in Keys
    BY <2>2 DEF Reported
  <2>4. db'.cooked \in {db.cooked, raw}
    BY <2>2, WholeMatrix DEF Ready
  <2>5. db'.cooked # db.cooked
    <3>1. matrix_previous = Reported(db.cooked, matrix_previous)
      BY DEF IInv, ReportedInv
    <3> QED
      BY <2>3, <3>1 DEF Reported
  <2>6. closed \in SUBSET Keys
    BY <2>1, WiredType DEF IInv, TypeInv
  <2>7. k \in closed
    BY <2>3, <2>4, <2>5, <2>6, PhantomIsGhost
  <2> QED
    BY <2>2, <2>7
<1> QED
  BY <1>1, Invariance, PTL DEF Spec, NoPhantom
=============================================================================
