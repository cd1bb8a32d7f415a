----------------------------- MODULE MCDebounce -----------------------------
(* A matrix of two rows and two columns, with each debounce algorithm.     *)
EXTENDS Debounce

Diodes(algorithm, switches) ==
  [algorithm |-> algorithm, MATRIX_HAS_GHOST |-> FALSE, switches |-> switches]

\* Two keys of one row and one of the other, where rows share a counter.
Corner == {<<1, 1>>, <<1, 2>>, <<2, 1>>}
\* Keys with counters of their own share nothing but the flags and last_time.
Pair == {<<1, 1>>, <<1, 2>>}

MCBuilds ==
  {Diodes(a, Corner) : a \in {"sym_defer_pr", "sym_eager_pr"}}
  \cup {Diodes(a, Pair) : a \in {"sym_defer_pk", "sym_eager_pk", "asym_eager_defer_pk"}}
  \cup {[algorithm |-> a, MATRIX_HAS_GHOST |-> TRUE, switches |-> Keys] : a \in {"none", "sym_defer_g"}}
=============================================================================
