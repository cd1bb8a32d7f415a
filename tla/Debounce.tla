------------------------------ MODULE Debounce ------------------------------
(***************************************************************************)
(* From switch contacts to key events: a scan of the matrix                *)
(* (quantum/matrix.c), one of the debounce algorithms of quantum/debounce, *)
(* and matrix_task of quantum/keyboard.c, which compares the debounced     *)
(* matrix with the one it last reported and holds back rows that may hold  *)
(* ghosts.  The algorithm is a compile-time choice and is made by Init.    *)
(*                                                                         *)
(* A step is one turn of matrix_task: some ms after the previous one, with *)
(* the contacts as they are at that moment.  Contacts bounce: they may be  *)
(* anything in every scan.  The reading of the rows is taken to be one     *)
(* moment.  A matrix of the program is the set of its keys that are on.    *)
(***************************************************************************)
EXTENDS Integers, FiniteSetsExt

CONSTANTS ROWS, COLS,        \* the lines of the matrix, sets of positive numbers
          Builds,            \* [algorithm, MATRIX_HAS_GHOST, switches] to choose from
          DEBOUNCE,          \* ms
          MAX_STALL          \* bound: ms between two scans

Keys == ROWS \X COLS

PerKey == {"sym_defer_pk", "sym_eager_pk", "asym_eager_defer_pk"}
PerRow == {"sym_defer_pr", "sym_eager_pr"}

ASSUME DebounceAssumption ==
  /\ ROWS \subseteq Nat \ {0} /\ COLS \subseteq Nat \ {0} /\ IsFiniteSet(COLS)
  /\ DEBOUNCE \in Nat /\ MAX_STALL \in Nat \ {0}
  /\ \A b \in Builds : /\ b.algorithm \in PerKey \cup PerRow \cup {"sym_defer_g", "none"}
                       /\ b.MATRIX_HAS_GHOST \in BOOLEAN /\ b.switches \subseteq Keys

VARIABLES build,
          raw_matrix,        \* as last scanned
          db,                \* the debounced matrix and the algorithm's variables
          matrix_previous,   \* as reported to action_exec
          contacts,          \* the switches that are closed
          still, quiet, hurried  \* history: see Aged

vars == <<build, raw_matrix, db, matrix_previous, contacts, still, quiet, hurried>>

\* What one counter is for: a key or, written as column 0, a row.
Unit(k)   == IF build.algorithm \in PerRow THEN <<k[1], 0>> ELSE k
UnitKeys(u) == {k \in Keys : Unit(k) = u}
Units     == {Unit(k) : k \in Keys}
DEBOUNCE_ELAPSED == 0

\* last_time is kept as the ms that have passed since.  No test tells ages
\* of DEBOUNCE and more apart.
Saturated(d) == Min({d, DEBOUNCE})

-----------------------------------------------------------------------------
(* The algorithms.  m is db with last_time moved on to now, raw the matrix *)
(* just scanned.                                                           *)

\* The first half of debounce() of the algorithms with counters: the counters
\* that end now ...
Ending(m) ==
  {u \in Units : /\ m.counters_need_update
                 /\ m.counter[u] # DEBOUNCE_ELAPSED /\ m.counter[u] <= m.last_time}

\* ... and all of them brought up to date, and last_time with them.
CountDown(m) ==
  LET left == [u \in Units |-> IF m.counter[u] <= m.last_time THEN DEBOUNCE_ELAPSED
                               ELSE m.counter[u] - m.last_time]
  IN  IF ~m.counters_need_update THEN m
      ELSE [m EXCEPT !.counter = left, !.last_time = 0,
                     !.counters_need_update =
                       m.last_time = 0 \/ \E u \in Units : left[u] # DEBOUNCE_ELAPSED]

\* The keys of the units us as they are in raw.
Transfer(cooked, raw, us) ==
  LET ks == UNION {UnitKeys(u) : u \in us} IN (cooked \ ks) \cup (raw \cap ks)

\* Mutant: a counter that is started alone counts from the last one.
Touched_Stale(m) == m

\* last_time is set to now if CountDown has not done so.
Touched(m) == [m EXCEPT !.last_time = 0]

Differs(m, raw, u) == \E k \in UnitKeys(u) : (k \in raw) # (k \in m.cooked)

\* A counter that has ended lets its keys be read again.
eager_expired(m) == [CountDown(m) EXCEPT !.matrix_need_update = Ending(m) # {}]

eager_transfer_matrix_values(m, raw) ==
  LET us == {u \in Units : Differs(m, raw, u) /\ m.counter[u] = DEBOUNCE_ELAPSED}
  IN  [m EXCEPT !.matrix_need_update = FALSE,
                !.counter = [u \in Units |-> IF u \in us THEN DEBOUNCE ELSE @[u]],
                !.counters_need_update = @ \/ us # {},
                !.cooked = Transfer(@, raw, us)]

\* Mutant: the matrix is read again only when it changes.
sym_eager_ChangedOnly(m, raw, changed) ==
  LET n == eager_expired(m)
  IN  IF changed THEN eager_transfer_matrix_values(Touched(n), raw) ELSE n

sym_eager(m, raw, changed) ==
  LET n == eager_expired(m)
  IN  IF changed \/ n.matrix_need_update
      THEN eager_transfer_matrix_values(Touched(n), raw) ELSE n

start_debounce_counters(m, raw) ==
  LET us == {u \in Units : Differs(m, raw, u)}
      new == {u \in us : m.counter[u] = DEBOUNCE_ELAPSED}
  IN  [m EXCEPT !.counter = [u \in Units |-> IF u \in new THEN DEBOUNCE
                                             ELSE IF u \in us THEN @[u] ELSE DEBOUNCE_ELAPSED],
                !.counters_need_update = @ \/ new # {}]

sym_defer_pk(m, raw, changed) ==
  LET n == [CountDown(m) EXCEPT !.cooked = Transfer(@, raw, Ending(m))]
  IN  IF changed THEN start_debounce_counters(Touched(n), raw) ELSE n

\* A counter that was started by a press is in pressed.
asym_transfer_matrix_values(m, raw) ==
  LET us == {u \in Units : Differs(m, raw, u) /\ m.counter[u] = DEBOUNCE_ELAPSED}
      cancelled == {u \in Units : ~Differs(m, raw, u) /\ u \notin m.pressed}
  IN  [m EXCEPT !.matrix_need_update = FALSE,
                !.counter = [u \in Units |-> IF u \in us THEN DEBOUNCE
                                             ELSE IF u \in cancelled THEN DEBOUNCE_ELAPSED
                                             ELSE @[u]],
                !.pressed = (@ \ us) \cup (us \cap raw),
                !.counters_need_update = @ \/ us # {},
                !.cooked = @ \cup (us \cap raw)]

asym_eager_defer_pk(m, raw, changed) ==
  LET n == [CountDown(m) EXCEPT !.matrix_need_update = Ending(m) \cap m.pressed # {},
                                !.cooked = Transfer(@, raw, Ending(m) \ m.pressed)]
  IN  IF changed \/ n.matrix_need_update
      THEN asym_transfer_matrix_values(Touched(n), raw) ELSE n

\* last_raw of the source is always the matrix of the previous scan.
sym_defer_pr(m, raw, last_raw) ==
  LET moved == {u \in Units : UnitKeys(u) \cap raw # UnitKeys(u) \cap last_raw}
      over  == {u \in Units \ moved : m.counter[u] # 0 /\ m.counter[u] <= m.last_time}
  IN  [m EXCEPT !.counter = [u \in Units |-> IF u \in moved THEN DEBOUNCE
                                             ELSE IF u \in over THEN 0
                                             ELSE IF @[u] > m.last_time THEN @[u] - m.last_time
                                             ELSE @[u]],
                !.cooked = Transfer(@, raw, over), !.last_time = 0]

\* Mutant: a change while debouncing does not start the time again.
sym_defer_g_Once(m, raw, changed) ==
  IF changed /\ ~m.counters_need_update
  THEN [m EXCEPT !.counters_need_update = TRUE, !.last_time = 0]
  ELSE IF m.counters_need_update /\ m.last_time >= DEBOUNCE
       THEN [m EXCEPT !.cooked = raw, !.counters_need_update = FALSE] ELSE m

\* counters_need_update stands for debouncing, last_time for debouncing_time.
sym_defer_g(m, raw, changed) ==
  IF changed THEN [m EXCEPT !.counters_need_update = TRUE, !.last_time = 0]
  ELSE IF m.counters_need_update /\ m.last_time >= DEBOUNCE
       THEN [m EXCEPT !.cooked = raw, !.counters_need_update = FALSE] ELSE m

none(m, raw, changed) == IF changed THEN [m EXCEPT !.cooked = raw] ELSE m

\* With DEBOUNCE 0 all algorithms but sym_defer_pr are compiled to none.
Algorithm ==
  IF DEBOUNCE = 0 /\ build.algorithm # "sym_defer_pr" THEN "none" ELSE build.algorithm

debounce(m, raw) ==
  LET changed == raw # raw_matrix
  IN  CASE Algorithm = "none"                             -> none(m, raw, changed)
        [] Algorithm = "sym_defer_g"                      -> sym_defer_g(m, raw, changed)
        [] Algorithm = "sym_defer_pr"                     -> sym_defer_pr(m, raw, raw_matrix)
        [] Algorithm = "sym_defer_pk"                     -> sym_defer_pk(m, raw, changed)
        [] Algorithm \in {"sym_eager_pk", "sym_eager_pr"} -> sym_eager(m, raw, changed)
        [] Algorithm = "asym_eager_defer_pk"              -> asym_eager_defer_pk(m, raw, changed)

-----------------------------------------------------------------------------
(* The matrix.                                                             *)

\* Without diodes a key also reads as closed when its lines are connected by
\* three others (in a matrix of two rows there is no longer way round).
Wired(closed) ==
  IF ~build.MATRIX_HAS_GHOST THEN closed
  ELSE closed \cup {k \in Keys : \E r \in ROWS, c \in COLS :
                                   {<<r, k[2]>>, <<k[1], c>>, <<r, c>>} \subseteq closed}

Columns(m, r) == {c \in COLS : <<r, c>> \in m}

\* Mutant: two common columns are taken for one.
has_ghost_in_row_Two(m, r) ==
  /\ build.MATRIX_HAS_GHOST
  /\ \E i \in ROWS \ {r} : Cardinality(Columns(m, i) \cap Columns(m, r)) > 2

\* Every position is a real key of the keymap.
has_ghost_in_row(m, r) ==
  /\ build.MATRIX_HAS_GHOST
  /\ \E i \in ROWS \ {r} : Cardinality(Columns(m, i) \cap Columns(m, r)) > 1

\* The matrix that is reported: rows that may hold a ghost stay as they were.
Reported(cooked, previous) ==
  {k \in Keys : k \in IF has_ghost_in_row(cooked, k[1]) THEN previous ELSE cooked}

\* The keys whose bouncing keeps a change of k waiting.
Watched(k) == CASE Algorithm = "sym_defer_g"  -> Keys
                [] Algorithm = "sym_defer_pr" -> {j \in Keys : j[1] = k[1]}
                [] OTHER                      -> {k}

\* History, as far as the properties need it: the ms that all Watched keys of
\* a key have been read as they are, the ms since its debounced state changed,
\* and the keys that just changed again too soon.
Apart   == CASE Algorithm = "none"                -> 0
             [] Algorithm = "asym_eager_defer_pk" -> 2 * DEBOUNCE
             [] OTHER                             -> DEBOUNCE
Latency == CASE Algorithm = "none"                -> 0
             [] Algorithm = "asym_eager_defer_pk" -> 2 * DEBOUNCE + MAX_STALL - 1
             [] OTHER                             -> DEBOUNCE
Aged(age, d, limit) == Min({age + d, limit})

matrix_task(closed, d) ==
  LET raw == Wired(closed)
  IN  /\ contacts' = closed
      /\ raw_matrix' = raw
      /\ db' = debounce([db EXCEPT !.last_time = Saturated(@ + d)], raw)
      /\ matrix_previous' = Reported(db'.cooked, matrix_previous)
      /\ still' = [k \in Keys |-> IF Watched(k) \cap raw # Watched(k) \cap raw_matrix THEN 0
                                ELSE Aged(still[k], d, Latency)]
      /\ LET changes == {k \in Keys : (k \in db'.cooked) # (k \in db.cooked)}
         IN  /\ quiet' = [k \in Keys |-> IF k \in changes THEN 0 ELSE Aged(quiet[k], d, Apart)]
             /\ hurried' = {k \in changes : Aged(quiet[k], d, Apart) < Apart}
      /\ UNCHANGED build

Init ==
  /\ build \in Builds
  /\ raw_matrix = {} /\ matrix_previous = {} /\ contacts = {}
  /\ db = [cooked |-> {}, counter |-> [u \in Units |-> DEBOUNCE_ELAPSED], pressed |-> {},
           counters_need_update |-> FALSE, matrix_need_update |-> FALSE, last_time |-> 0]
  /\ still = [k \in Keys |-> Latency] /\ quiet = [k \in Keys |-> Apart]
  /\ hurried = {}

Next == \E closed \in SUBSET build.switches, d \in 0 .. MAX_STALL : matrix_task(closed, d)

Spec == Init /\ [][Next]_vars

-----------------------------------------------------------------------------
(* What the passage from contacts to events promises.                      *)

\* The variables have their types, and no counter exceeds DEBOUNCE.
TypeOK ==
  /\ build \in Builds
  /\ raw_matrix \subseteq Keys /\ matrix_previous \subseteq Keys
  /\ contacts \subseteq build.switches
  /\ db.cooked \subseteq Keys /\ db.counter \in [Units -> 0 .. DEBOUNCE] /\ db.pressed \subseteq Units
  /\ db.counters_need_update \in BOOLEAN /\ db.matrix_need_update \in BOOLEAN
  /\ db.last_time \in 0 .. DEBOUNCE
  /\ still \in [Keys -> 0 .. Latency] /\ quiet \in [Keys -> 0 .. Apart]
  /\ hurried \subseteq Keys

Changes(k) == (k \in db'.cooked) # (k \in db.cooked)

Defers(k) == \/ build.algorithm \in {"sym_defer_g", "sym_defer_pk", "sym_defer_pr"}
             \/ build.algorithm = "asym_eager_defer_pk" /\ k \in db.cooked

\* A change that is deferred reaches the debounced matrix only when the key
\* has been read as it is now for DEBOUNCE ms, and so have all keys that share
\* its timer: a contact that bounces, however long, changes nothing.
Deferred == [][\A k \in Keys : Changes(k) /\ Defers(k) => still'[k] >= DEBOUNCE]_vars

\* Two changes of one key are DEBOUNCE ms apart or more, which the tapping
\* machine relies on.  asym_eager_defer_pk promises this only for a release
\* after its press, and then twice the time; a press comes through in the scan
\* after a release.
Spaced == \A k \in hurried : Algorithm = "asym_eager_defer_pk" /\ k \in db.cooked

\* Once nothing the algorithm watches has changed for DEBOUNCE ms (twice that
\* where a release waits for the time of its press and then for its own, from
\* the scan that finds the first one over), what was reported to action_exec is
\* what the matrix reads, unless the row may hold a ghost: no change is lost,
\* however the counters, the late scans and the rows held back fall together.
Settles ==
  \A k \in Keys :
    /\ still[k] = Latency
    /\ ~has_ghost_in_row(db.cooked, k[1])
    => (k \in matrix_previous) = (k \in raw_matrix)

\* Where the debounced matrix is always one that was read as a whole, no press
\* is reported of a switch that is open: three keys held in a rectangle never
\* type the fourth, and neither does a release out of such a rectangle.
NoPhantom ==
  [][\/ Algorithm \notin {"sym_defer_g", "none"}
     \/ matrix_previous' \ matrix_previous \subseteq contacts']_vars
=============================================================================
