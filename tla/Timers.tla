------------------------------- MODULE Timers -------------------------------
(***************************************************************************)
(* What deferred execution promises (quantum/deferred_exec.h and the       *)
(* Deferred Execution section of docs/custom_quantum_functions.md): a set  *)
(* of pending executors, each run once its delay is over, repeated at a    *)
(* fixed distance from the time it was due, and never run once cancelled.  *)
(* Time is unbounded here: pending[h] is how many milliseconds from now h  *)
(* is due, negative when it is late.                                       *)
(***************************************************************************)
EXTENDS Integers

CONSTANTS Handles,      \* what defer_exec returns
          Delays,       \* in ms, not 0
          None          \* not a handle

VARIABLES pending,      \* the pending executors and when they are due
          running       \* the one whose callback runs, None once cancelled

vars == <<pending, running>>

Init == pending = [h \in {} |-> 0] /\ running = None

With(h, due)  == [g \in DOMAIN pending \cup {h} |-> IF g = h THEN due ELSE pending[g]]
Without(h)    == [g \in DOMAIN pending \ {h} |-> pending[g]]

\* The handle is new: neither pending nor the one the running callback belonged to.
Queue(h, delay) ==
  /\ h \in Handles \ DOMAIN pending
  /\ pending' = With(h, delay)
  /\ UNCHANGED running

Extend(h, delay) ==
  /\ h \in DOMAIN pending
  /\ pending' = With(h, delay)
  /\ UNCHANGED running

Cancel(h) ==
  /\ h \in DOMAIN pending
  /\ pending' = Without(h)
  /\ running' = IF running = h THEN None ELSE running

Fire(h) ==
  /\ running = None
  /\ h \in DOMAIN pending /\ pending[h] <= 0
  /\ running' = h
  /\ UNCHANGED pending

\* The callback has returned: repeat it, counting from when it was due, or not.
Finish(delay) ==
  /\ running # None
  /\ pending' = IF delay > 0 THEN With(running, pending[running] + delay)
                             ELSE Without(running)
  /\ running' = None

Pass ==
  /\ pending' = [h \in DOMAIN pending |-> pending[h] - 1]
  /\ UNCHANGED running

Next ==
  \/ \E h \in Handles : Cancel(h) \/ Fire(h)
  \/ \E h \in Handles, delay \in Delays : Queue(h, delay) \/ Extend(h, delay)
  \/ \E delay \in {0} \cup Delays : Finish(delay)
  \/ Pass

Spec == Init /\ [][Next]_vars
=============================================================================
