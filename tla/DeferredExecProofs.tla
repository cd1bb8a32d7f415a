------------------------- MODULE DeferredExecProofs -------------------------
(***************************************************************************)
(* Proofs about deferred execution, for every size of the table, width of  *)
(* the tokens and width of the clock.                                      *)
(*                                                                         *)
(* The inductive invariant adds three things to the types: that times are  *)
(* never more than half the clock apart, so that signed differences mean   *)
(* what they say (TimesInv); which executor the callback in progress       *)
(* belongs to (CallbackInv); and that what this run of the task has put    *)
(* off lies behind it or in the future (FreshInv).                         *)
(***************************************************************************)
EXTENDS DeferredExec, WellFoundedInduction, TLAPS

TimesInv ==
  /\ Diff(now, last_execution_time) \in 0 .. MAX_STALL
  /\ \A s \in Slots : Live(s) =>
       Diff(table[s].trigger_time, now) \in -MAX_STALL .. 2 * MAX_DELAY

CallbackInv ==
  /\ pc # "callback" => ~cancelled /\ curr_token = INVALID_DEFERRED_TOKEN
  /\ pc = "callback" => /\ slot \in Slots /\ curr_token \in Tokens
                        /\ ~cancelled => table[slot].token = curr_token
                        /\ cancelled => \A s \in Slots : table[s].token # curr_token

\* A slot the task has still to look at.
Ahead(s) == \/ pc = "task" /\ s >= slot
            \/ pc = "callback" /\ s > slot

FreshInv ==
  /\ pc = "idle" => fresh = {}
  /\ \A s \in Slots : Ahead(s) /\ Live(s) /\ table[s].token \in fresh =>
       Diff(table[s].trigger_time, last_execution_time) > 0

\* The executor whose callback runs was due, unless the callback extended it.
OwnInv ==
  pc = "callback" /\ ~cancelled => Diff(table[slot].trigger_time, now) <= MAX_DELAY

IInv == TypeOK /\ TokensUnique /\ TimesInv /\ CallbackInv /\ FreshInv /\ OwnInv

-----------------------------------------------------------------------------
(* Lemmas about the clock.                                                 *)

\* uint32_t addition stays within the clock.
LEMMA WrapType ==
  ASSUME NEW t \in Times, NEW n \in 0 .. HALF
  PROVE  Wrap(t + n) \in Times
BY DeferredExecAssumption DEF Wrap, Times, TIMER_MOD

\* The signed difference of two times is a number of milliseconds.
LEMMA DiffType ==
  ASSUME NEW a \in Times, NEW b \in Times
  PROVE  Diff(a, b) \in -HALF .. HALF - 1 /\ Diff(a, a) = 0
BY DeferredExecAssumption DEF Diff, Times, TIMER_MOD

\* A delay that does not reach across half the clock adds up.
LEMMA DiffLater ==
  ASSUME NEW a \in Times, NEW b \in Times, NEW n \in 0 .. HALF, Diff(a, b) + n < HALF
  PROVE  Diff(Wrap(a + n), b) = Diff(a, b) + n
BY DeferredExecAssumption DEF Diff, Wrap, Times, TIMER_MOD

\* As time passes, what is to come draws nearer.
LEMMA DiffTick ==
  ASSUME NEW a \in Times, NEW b \in Times, Diff(a, b) > -HALF
  PROVE  Diff(a, Wrap(b + 1)) = Diff(a, b) - 1
BY DeferredExecAssumption DEF Diff, Wrap, Times, TIMER_MOD

\* Differences from two times add up.
LEMMA DiffAdds ==
  ASSUME NEW a \in Times, NEW b \in Times, NEW c \in Times,
         Diff(a, b) + Diff(b, c) \in -HALF .. HALF - 1
  PROVE  Diff(a, c) = Diff(a, b) + Diff(b, c)
BY DeferredExecAssumption DEF Diff, Times, TIMER_MOD

-----------------------------------------------------------------------------
(* Lemmas about the table.                                                 *)

\* The first of some positions is one of them.
LEMMA FirstType ==
  ASSUME NEW S \in SUBSET Nat, S # {}
  PROVE  First(S) \in S
<1>1. IsWellFoundedOn(OpToRel(<, Nat), Nat)
  BY NatLessThanWellFounded
<1>2. PICK n \in S : \A m \in S : ~(<<m, n>> \in OpToRel(<, Nat))
  BY <1>1, WFMin
<1>3. ASSUME NEW m \in S PROVE n <= m
  <2>1. ~(m < n)
    BY <1>2 DEF OpToRel
  <2> QED
    BY <2>1
<1> QED
  BY <1>2, <1>3 DEF First

\* allocate_token hands out a token that no slot holds.
LEMMA TokenIsNew ==
  ASSUME TypeOK, Usable # {}
  PROVE  /\ Nth(First(Usable)) \in Tokens
         /\ \A s \in Slots : table[s].token # Nth(First(Usable))
<1>1. First(Usable) \in Usable
  BY FirstType, DeferredExecAssumption DEF Usable
<1>2. First(Usable) \in 1 .. TOKEN_MOD /\ token_can_be_used(Nth(First(Usable)))
  BY <1>1 DEF Usable
<1> QED
  BY <1>2, DeferredExecAssumption
     DEF token_can_be_used, Nth, Tokens, TypeOK, INVALID_DEFERRED_TOKEN

\* A free slot is found if there is one.
LEMMA FreeSlot ==
  ASSUME Free # {}
  PROVE  First(Free) \in Slots /\ ~Live(First(Free))
<1>1. Free \in SUBSET Nat
  BY DeferredExecAssumption DEF Free, Slots
<1> QED
  BY <1>1, FirstType DEF Free

\* Waiting for delay from now, or repeating an executor that is due, keeps its time
\* within half the clock.
LEMMA DelayedTimes ==
  ASSUME TypeOK, NEW delay \in Delays
  PROVE  /\ Wrap(now + delay) \in Times
         /\ Diff(Wrap(now + delay), now) = delay
<1>1. now \in Times /\ delay \in 0 .. HALF /\ delay < HALF
  BY DeferredExecAssumption DEF TypeOK, Delays
<1>2. Diff(now, now) = 0
  BY <1>1, DiffType
<1> QED
  BY <1>1, <1>2, WrapType, DiffLater

-----------------------------------------------------------------------------
(* The invariant.                                                          *)

LEMMA InitInv == Init => IInv
<1> SUFFICES ASSUME Init PROVE IInv
  OBVIOUS
<1>1. 0 \in Times /\ Diff(0, 0) = 0
  BY DeferredExecAssumption DEF Times, TIMER_MOD, Diff
<1>2. TypeOK
  <2>1. NoEntry \in [token : 0 .. TOKEN_MOD - 1, trigger_time : Times]
    BY <1>1, DeferredExecAssumption DEF NoEntry, Entry, INVALID_DEFERRED_TOKEN
  <2>2. /\ table \in [Slots -> [token : 0 .. TOKEN_MOD - 1, trigger_time : Times]]
        /\ \A s \in Slots : table[s] = NoEntry
    BY <2>1 DEF Init
  <2>3. 0 \in 0 .. TOKEN_MOD - 1 /\ 1 \in 1 .. TABLE_COUNT + 1
    BY DeferredExecAssumption
  <2> QED
    BY <1>1, <2>2, <2>3 DEF Init, TypeOK, INVALID_DEFERRED_TOKEN
<1>3. \A s \in Slots : ~Live(s)
  BY DEF Init, Live, NoEntry, Entry
<1>4. TokensUnique /\ TimesInv
  BY <1>1, <1>3, DeferredExecAssumption DEF TokensUnique, TimesInv, Init
<1>5. CallbackInv /\ FreshInv /\ OwnInv
  BY <1>3 DEF CallbackInv, FreshInv, OwnInv, Init, Ahead
<1> QED
  BY <1>2, <1>4, <1>5 DEF IInv

\* defer_exec_advanced: the new executor's token is its own, and its time to come.
LEMMA DeferInv ==
  ASSUME IInv, ~ROUND_TRIP, NEW delay \in Delays, defer_exec(delay)
  PROVE  IInv'
<1>1. CASE Usable = {}
  <2>1. current_token' \in 0 .. TOKEN_MOD - 1
    BY <1>1, DeferredExecAssumption DEF defer_exec, Nth, IInv, TypeOK
  <2> QED
    BY <1>1, <2>1 DEF defer_exec, position, IInv, TypeOK, TokensUnique, TimesInv,
                      CallbackInv, FreshInv, OwnInv, Live, Ahead
<1>2. CASE Usable # {}
  <2> DEFINE u == First(Free)
             t == Nth(First(Usable))
             e == Entry(t, Wrap(now + delay))
  <2>1. u \in Slots /\ ~Live(u)
    BY FreeSlot DEF defer_exec
  <2>2. t \in Tokens /\ \A s \in Slots : table[s].token # t
    BY <1>2, TokenIsNew DEF IInv
  <2>3. e.token = t /\ e.trigger_time = Wrap(now + delay)
    BY DEF Entry
  <2>4. e.trigger_time \in Times /\ Diff(e.trigger_time, now) = delay
    BY <2>3, DelayedTimes DEF IInv
  <2>5. /\ table' = [table EXCEPT ![u] = e] /\ current_token' = t
        /\ ~cancelled \/ t # curr_token
        /\ fresh' = Refreshed(t)
        /\ UNCHANGED <<last_execution_time, now, pc, slot, curr_token, cancelled>>
    BY <1>2 DEF defer_exec, position
  <2>6. e \in [token : 0 .. TOKEN_MOD - 1, trigger_time : Times]
    BY <2>2, <2>3, <2>4 DEF Entry, Tokens
  <2> HIDE DEF u, t, e
  <2>7. table' \in [Slots -> [token : 0 .. TOKEN_MOD - 1, trigger_time : Times]]
    BY <2>5, <2>6 DEF IInv, TypeOK
  <2>8. /\ \A s \in Slots : s # u => table'[s] = table[s]
        /\ table'[u] = e
    BY <2>1, <2>5 DEF IInv, TypeOK
  <2>9. table'[u].token # INVALID_DEFERRED_TOKEN
    BY <2>2, <2>3, <2>8 DEF Tokens, INVALID_DEFERRED_TOKEN
  <2>10. TypeOK'
    <3>1. \A s \in Slots : table'[s].token = INVALID_DEFERRED_TOKEN => table'[s] = NoEntry
      BY <2>8, <2>9 DEF IInv, TypeOK, Live
    <3>2. fresh' \subseteq Tokens /\ current_token' \in 0 .. TOKEN_MOD - 1
      BY <2>2, <2>5 DEF IInv, TypeOK, Refreshed, Tokens
    <3> QED
      BY <2>5, <2>7, <3>1, <3>2 DEF IInv, TypeOK, Live
  <2>11. TokensUnique'
    BY <2>2, <2>3, <2>8, <2>9 DEF IInv, TokensUnique, Live
  <2>12. TimesInv'
    <3>1. delay \in -MAX_STALL .. 2 * MAX_DELAY
      BY DeferredExecAssumption DEF Delays
    <3> QED
      BY <2>4, <2>5, <2>8, <2>9, <3>1 DEF IInv, TimesInv, Live
  <2>13. CallbackInv'
    <3>1. pc = "callback" /\ ~cancelled => u # slot
      BY <2>1 DEF IInv, CallbackInv, Live, Tokens, INVALID_DEFERRED_TOKEN
    <3> QED
      BY <2>3, <2>5, <2>8, <3>1 DEF IInv, CallbackInv
  <2>14. FreshInv'
    <3>1. Diff(e.trigger_time, last_execution_time) > 0
      <4>1. Diff(e.trigger_time, now) + Diff(now, last_execution_time) \in -HALF .. HALF - 1
        BY <2>4, DeferredExecAssumption DEF IInv, TimesInv, Delays
      <4>2. Diff(e.trigger_time, last_execution_time)
              = Diff(e.trigger_time, now) + Diff(now, last_execution_time)
        BY <2>4, <4>1, DiffAdds DEF IInv, TypeOK
      <4> QED
        BY <2>4, <4>2, DeferredExecAssumption DEF IInv, TimesInv, Delays
    <3>2. \A s \in Slots : s # u /\ Live(s) => table[s].token # t
      BY <2>2
    <3> QED
      BY <2>3, <2>5, <2>8, <2>9, <3>1, <3>2 DEF IInv, FreshInv, Refreshed, Ahead, Live
  <2>15. OwnInv'
    <3>1. pc = "callback" /\ ~cancelled => u # slot /\ slot \in Slots
      BY <2>1 DEF IInv, CallbackInv, Live, Tokens, INVALID_DEFERRED_TOKEN
    <3> QED
      BY <2>5, <2>8, <3>1 DEF IInv, OwnInv
  <2> QED
    BY <2>10, <2>11, <2>12, <2>13, <2>14, <2>15 DEF IInv
<1> QED
  BY <1>1, <1>2

\* extend_deferred_exec_advanced: the executor is put off, from now.
LEMMA ExtendInv ==
  ASSUME IInv, NEW s \in Slots, NEW delay \in Delays, extend_deferred_exec(s, delay)
  PROVE  IInv'
<1> DEFINE time == Wrap(now + delay)
<1>1. time \in Times /\ Diff(time, now) = delay
  BY DelayedTimes DEF IInv
<1> HIDE DEF time
<1>2. /\ table' = [table EXCEPT ![s].trigger_time = time]
      /\ fresh' = Refreshed(table[s].token) /\ Live(s)
      /\ UNCHANGED <<current_token, last_execution_time, now, pc, slot, curr_token, cancelled>>
  BY DEF extend_deferred_exec, position, time
<1>3. /\ table' \in [Slots -> [token : 0 .. TOKEN_MOD - 1, trigger_time : Times]]
      /\ \A u \in Slots : table'[u].token = table[u].token
      /\ \A u \in Slots : u # s => table'[u] = table[u]
      /\ table'[s].trigger_time = time
  BY <1>1, <1>2 DEF IInv, TypeOK
<1>4. table[s].token \in Tokens
  BY <1>2 DEF IInv, TypeOK, Live, Tokens, INVALID_DEFERRED_TOKEN
<1>5. TypeOK'
  <2>1. \A u \in Slots : table'[u].token = INVALID_DEFERRED_TOKEN => table'[u] = NoEntry
    BY <1>2, <1>3 DEF IInv, TypeOK, Live
  <2>2. fresh' \subseteq Tokens
    BY <1>2, <1>4 DEF IInv, TypeOK, Refreshed
  <2> QED
    BY <1>2, <1>3, <2>1, <2>2 DEF IInv, TypeOK, Live
<1>6. TokensUnique'
  BY <1>3 DEF IInv, TokensUnique, Live
<1>7. TimesInv'
  <2>1. delay \in -MAX_STALL .. 2 * MAX_DELAY
    BY DeferredExecAssumption DEF Delays
  <2> QED
    BY <1>1, <1>2, <1>3, <2>1 DEF IInv, TimesInv, Live
<1>8. CallbackInv'
  BY <1>2, <1>3 DEF IInv, CallbackInv
<1>9. FreshInv'
  <2>1. Diff(time, now) + Diff(now, last_execution_time) \in -HALF .. HALF - 1
    BY <1>1, DeferredExecAssumption DEF IInv, TimesInv, Delays
  <2>2. Diff(time, last_execution_time) = Diff(time, now) + Diff(now, last_execution_time)
    BY <1>1, <2>1, DiffAdds DEF IInv, TypeOK
  <2>3. Diff(time, last_execution_time) > 0
    BY <1>1, <2>2, DeferredExecAssumption DEF IInv, TimesInv, Delays
  <2>4. \A u \in Slots : u # s /\ Live(u) => table[u].token # table[s].token
    BY DEF IInv, TokensUnique
  <2> QED
    BY <1>2, <1>3, <2>3, <2>4 DEF IInv, FreshInv, Refreshed, Ahead, Live
<1>10. OwnInv'
  <2>1. delay <= MAX_DELAY
    BY DeferredExecAssumption DEF Delays
  <2> QED
    BY <1>1, <1>2, <1>3, <2>1 DEF IInv, OwnInv, CallbackInv
<1> QED
  BY <1>5, <1>6, <1>7, <1>8, <1>9, <1>10 DEF IInv

\* cancel_deferred_exec_advanced: the slot is free, and no other held its token.
LEMMA CancelInv ==
  ASSUME IInv, NEW s \in Slots, cancel_deferred_exec(s)
  PROVE  IInv'
<1>1. /\ table' = [table EXCEPT ![s] = NoEntry] /\ Live(s)
      /\ cancelled' = (cancelled \/ (pc = "callback" /\ table[s].token = curr_token))
      /\ UNCHANGED <<current_token, last_execution_time, now, pc, slot, curr_token, fresh>>
  BY DEF cancel_deferred_exec, position
<1>2. NoEntry \in [token : 0 .. TOKEN_MOD - 1, trigger_time : Times]
  BY DeferredExecAssumption
     DEF NoEntry, Entry, INVALID_DEFERRED_TOKEN, Times, TIMER_MOD
<1>3. /\ table' \in [Slots -> [token : 0 .. TOKEN_MOD - 1, trigger_time : Times]]
      /\ \A u \in Slots : u # s => table'[u] = table[u]
      /\ table'[s] = NoEntry
  BY <1>1, <1>2 DEF IInv, TypeOK
<1>4. NoEntry.token = INVALID_DEFERRED_TOKEN
  BY DEF NoEntry, Entry
<1>5. TypeOK'
  BY <1>1, <1>3 DEF IInv, TypeOK, Live
<1>6. TokensUnique'
  BY <1>3, <1>4 DEF IInv, TokensUnique, Live
<1>7. TimesInv'
  BY <1>1, <1>3, <1>4 DEF IInv, TimesInv, Live
<1>8. CallbackInv'
  <2>1. CASE pc # "callback"
    BY <1>1, <2>1 DEF IInv, CallbackInv
  <2>2. CASE pc = "callback"
    <3>1. curr_token # INVALID_DEFERRED_TOKEN /\ slot \in Slots
      BY <2>2 DEF IInv, CallbackInv, Tokens, INVALID_DEFERRED_TOKEN
    <3>2. CASE table[s].token = curr_token
      <4>1. \A u \in Slots : u # s => table[u].token # curr_token
        BY <1>1, <3>1, <3>2 DEF IInv, TokensUnique, Live
      <4> QED
        BY <1>1, <1>3, <1>4, <2>2, <3>1, <3>2, <4>1 DEF IInv, CallbackInv
    <3>3. CASE table[s].token # curr_token
      BY <1>1, <1>3, <1>4, <2>2, <3>1, <3>3 DEF IInv, CallbackInv
    <3> QED
      BY <3>2, <3>3
  <2> QED
    BY <2>1, <2>2
<1>9. FreshInv'
  BY <1>1, <1>3, <1>4 DEF IInv, FreshInv, Ahead, Live
<1>10. OwnInv'
  BY <1>1, <1>3 DEF IInv, OwnInv, CallbackInv
<1> QED
  BY <1>5, <1>6, <1>7, <1>8, <1>9, <1>10 DEF IInv

\* The start, the invocation of a callback and the end of a run of the task.
LEMMA TaskInv ==
  ASSUME IInv, task_Start \/ (\E s \in Slots : task_Invoke(s)) \/ task_End
  PROVE  IInv'
<1>1. CASE task_Start
  <2>1. Diff(now, now) = 0 /\ 0 \in 0 .. MAX_STALL
    BY DiffType, DeferredExecAssumption DEF IInv, TypeOK
  <2>2. TypeOK' /\ TokensUnique' /\ TimesInv'
    BY <1>1, <2>1, DeferredExecAssumption
       DEF task_Start, IInv, TypeOK, TokensUnique, TimesInv, Live
  <2>3. CallbackInv' /\ FreshInv' /\ OwnInv'
    BY <1>1 DEF task_Start, IInv, CallbackInv, FreshInv, OwnInv, Ahead
  <2> QED
    BY <2>2, <2>3 DEF IInv
<1>2. ASSUME NEW s \in Slots, task_Invoke(s)
      PROVE  IInv'
  <2>1. table[s].token \in Tokens
    BY <1>2 DEF task_Invoke, Due, Live, IInv, TypeOK, Tokens, INVALID_DEFERRED_TOKEN
  <2>2. TypeOK' /\ TokensUnique' /\ TimesInv'
    BY <1>2, <2>1, DeferredExecAssumption
       DEF task_Invoke, IInv, TypeOK, TokensUnique, TimesInv, Live, Slots, Tokens
  <2>3. CallbackInv'
    BY <1>2, <2>1 DEF task_Invoke, IInv, CallbackInv
  <2>4. FreshInv'
    BY <1>2 DEF task_Invoke, IInv, FreshInv, Ahead, Live, TypeOK, Slots
  <2>5. OwnInv'
    <3> DEFINE t == table[s].trigger_time
    <3>1. t \in Times /\ now \in Times /\ last_execution_time \in Times
      BY DEF IInv, TypeOK
    <3>2. Diff(t, last_execution_time) <= 0 /\ Diff(t, now) \in -MAX_STALL .. 2 * MAX_DELAY
      BY <1>2 DEF task_Invoke, Due, IInv, TimesInv
    <3>3. Diff(now, last_execution_time) \in 0 .. MAX_STALL
      BY DEF IInv, TimesInv
    <3>4. Diff(t, last_execution_time) = Diff(t, now) + Diff(now, last_execution_time)
      BY <3>1, <3>2, <3>3, DiffAdds, DeferredExecAssumption
    <3>5. Diff(t, now) <= MAX_DELAY
      BY <3>2, <3>3, <3>4, DeferredExecAssumption
    <3> QED
      BY <1>2, <3>5 DEF task_Invoke, OwnInv
  <2> QED
    BY <2>2, <2>3, <2>4, <2>5 DEF IInv
<1>3. CASE task_End
  BY <1>3, DeferredExecAssumption
     DEF task_End, IInv, TypeOK, TokensUnique, TimesInv, CallbackInv, FreshInv, OwnInv,
         Live, Ahead
<1> QED
  BY <1>1, <1>2, <1>3

\* A callback returns: its executor, if it is still in its slot, is freed or repeated.
LEMMA ReturnInv ==
  ASSUME IInv, NEW delay \in {0} \cup Delays, task_Return(delay)
  PROVE  IInv'
<1>1. /\ pc = "callback" /\ pc' = "task" /\ slot' = slot + 1
      /\ curr_token' = INVALID_DEFERRED_TOKEN /\ cancelled' = FALSE
      /\ UNCHANGED <<current_token, last_execution_time, now, fresh>>
  BY DEF task_Return
<1>2. slot \in Slots /\ slot' \in 1 .. TABLE_COUNT + 1
  BY <1>1, DeferredExecAssumption DEF IInv, CallbackInv, Slots
<1>3. CallbackInv' /\ OwnInv'
  BY <1>1 DEF CallbackInv, OwnInv
<1>4. CASE table' = table
  <2>1. 0 \in 0 .. TOKEN_MOD - 1
    BY DeferredExecAssumption
  <2>2. TypeOK'
    BY <1>1, <1>2, <1>4, <2>1 DEF IInv, TypeOK, Live, INVALID_DEFERRED_TOKEN
  <2>3. TokensUnique' /\ TimesInv'
    BY <1>1, <1>4 DEF IInv, TokensUnique, TimesInv, Live
  <2>4. FreshInv'
    BY <1>1, <1>2, <1>4 DEF IInv, FreshInv, Live, Ahead, Slots
  <2> QED
    BY <1>3, <2>2, <2>3, <2>4 DEF IInv
<1>5. CASE table' # table
  <2> DEFINE e == Requeue(table[slot], delay)
             t == table[slot].trigger_time
  <2>1. table' = [table EXCEPT ![slot] = e]
    BY <1>5 DEF task_Return
  <2>2. table[slot].token = curr_token /\ curr_token \in Tokens
    BY <1>1, <1>5 DEF task_Return, IInv, CallbackInv
  <2>3. Live(slot) /\ t \in Times
    BY <1>2, <2>2 DEF Live, Tokens, INVALID_DEFERRED_TOKEN, IInv, TypeOK
  <2>4. CASE delay = 0
    <3>1. e = NoEntry /\ e.token = INVALID_DEFERRED_TOKEN
      BY <2>4 DEF Requeue, NoEntry, Entry
    <3>2. e \in [token : 0 .. TOKEN_MOD - 1, trigger_time : Times]
      BY <3>1, DeferredExecAssumption
         DEF NoEntry, Entry, INVALID_DEFERRED_TOKEN, Times, TIMER_MOD
    <3> HIDE DEF e
    <3>3. /\ table' \in [Slots -> [token : 0 .. TOKEN_MOD - 1, trigger_time : Times]]
          /\ \A u \in Slots : u # slot => table'[u] = table[u]
          /\ table'[slot] = NoEntry /\ table'[slot].token = INVALID_DEFERRED_TOKEN
      BY <1>2, <2>1, <3>1, <3>2 DEF IInv, TypeOK
    <3>4. TypeOK' /\ TokensUnique' /\ TimesInv'
      BY <1>1, <1>2, <3>3, DeferredExecAssumption
         DEF IInv, TypeOK, TokensUnique, TimesInv, Live, INVALID_DEFERRED_TOKEN
    <3>5. FreshInv'
      BY <1>1, <1>2, <3>3 DEF IInv, FreshInv, Live, Ahead, Slots
    <3> QED
      BY <1>3, <3>4, <3>5 DEF IInv
  <2>5. CASE delay \in Delays
    <3>1. /\ delay \in 0 .. HALF /\ delay > 0 /\ delay <= MAX_DELAY
          /\ delay \in Int /\ MAX_DELAY \in Nat /\ MAX_STALL \in Nat
      BY <2>5, DeferredExecAssumption DEF Delays
    <3>2. e.token = table[slot].token /\ e.trigger_time = Wrap(t + delay)
      BY <2>5, <3>1 DEF Requeue, Entry
    <3>3. e \in [token : 0 .. TOKEN_MOD - 1, trigger_time : Times]
      <4>1. Wrap(t + delay) \in Times /\ table[slot].token \in 0 .. TOKEN_MOD - 1
        BY <1>2, <2>3, <3>1, WrapType DEF IInv, TypeOK
      <4> QED
        BY <3>1, <4>1 DEF Requeue, Entry
    <3>4. Diff(Wrap(t + delay), now) \in -MAX_STALL .. 2 * MAX_DELAY
      <4>1. Diff(t, now) \in -MAX_STALL .. 2 * MAX_DELAY /\ now \in Times
        BY <1>2, <2>3 DEF IInv, TimesInv, TypeOK
      <4>2. Diff(t, now) <= MAX_DELAY
        BY <1>1, <1>2, <2>2 DEF IInv, OwnInv, CallbackInv
      <4>3. Diff(Wrap(t + delay), now) = Diff(t, now) + delay
        BY <2>3, <3>1, <4>1, <4>2, DiffLater, DeferredExecAssumption
      <4> QED
        BY <3>1, <4>1, <4>2, <4>3
    <3> HIDE DEF e
    <3>5. /\ table' \in [Slots -> [token : 0 .. TOKEN_MOD - 1, trigger_time : Times]]
          /\ \A u \in Slots : table'[u].token = table[u].token
          /\ \A u \in Slots : u # slot => table'[u] = table[u]
          /\ table'[slot].trigger_time = Wrap(t + delay)
      BY <1>2, <2>1, <3>2, <3>3 DEF IInv, TypeOK
    <3>6. TypeOK'
      <4>1. 0 \in 0 .. TOKEN_MOD - 1
        BY DeferredExecAssumption
      <4>2. \A u \in Slots : table'[u].token = INVALID_DEFERRED_TOKEN
                              => table'[u] = NoEntry
        BY <2>3, <3>5 DEF IInv, TypeOK, Live
      <4> QED
        BY <1>1, <1>2, <3>5, <4>1, <4>2 DEF IInv, TypeOK, Live, INVALID_DEFERRED_TOKEN
    <3>7. TokensUnique'
      BY <3>5 DEF IInv, TokensUnique, Live
    <3>8. TimesInv'
      BY <1>1, <3>4, <3>5 DEF IInv, TimesInv, Live
    <3>9. FreshInv'
      BY <1>1, <1>2, <3>5 DEF IInv, FreshInv, Live, Ahead, Slots
    <3> QED
      BY <1>3, <3>6, <3>7, <3>8, <3>9 DEF IInv
  <2> QED
    BY <2>4, <2>5
<1> QED
  BY <1>4, <1>5

\* Time passes: nothing comes nearer than half the clock from the other side.
LEMMA TickInv ==
  ASSUME IInv, Tick
  PROVE  IInv'
<1>1. /\ now' = Wrap(now + 1) /\ now \in Times /\ last_execution_time \in Times
      /\ UNCHANGED <<table, current_token, last_execution_time, pc, slot, curr_token,
                     cancelled, fresh>>
  BY DEF Tick, IInv, TypeOK
<1>2. now' \in Times
  BY <1>1, WrapType, DeferredExecAssumption
<1>3. TypeOK' /\ TokensUnique'
  BY <1>1, <1>2 DEF IInv, TypeOK, TokensUnique, Live
<1>4. Diff(now', last_execution_time) = Diff(now, last_execution_time) + 1
  <2>1. Diff(now, last_execution_time) + 1 < HALF
    BY DeferredExecAssumption DEF IInv, TimesInv
  <2> QED
    BY <1>1, <2>1, DiffLater, DeferredExecAssumption
<1>5. ASSUME NEW s \in Slots, Live(s)
      PROVE  Diff(table[s].trigger_time, now') = Diff(table[s].trigger_time, now) - 1
  <2>1. Diff(table[s].trigger_time, now) > -HALF
    BY <1>5, DeferredExecAssumption DEF IInv, TimesInv
  <2>2. table[s].trigger_time \in Times
    BY DEF IInv, TypeOK
  <2> QED
    BY <1>1, <2>1, <2>2, DiffTick
<1>6. TimesInv'
  <2>1. Diff(now', last_execution_time) \in 0 .. MAX_STALL
    BY <1>4, DeferredExecAssumption DEF Tick, IInv, TimesInv
  <2>2. ASSUME NEW s \in Slots, Live(s)
        PROVE  Diff(table[s].trigger_time, now') \in -MAX_STALL .. 2 * MAX_DELAY
    BY <1>5, <2>2, DeferredExecAssumption DEF Tick, IInv, TimesInv
  <2> QED
    BY <1>1, <2>1, <2>2 DEF TimesInv, Live
<1>7. CallbackInv' /\ FreshInv'
  BY <1>1 DEF IInv, CallbackInv, FreshInv, Live, Ahead
<1>8. OwnInv'
  <2>1. pc = "callback" /\ ~cancelled => slot \in Slots /\ Live(slot)
    BY DEF IInv, CallbackInv, Live, Tokens, INVALID_DEFERRED_TOKEN
  <2>2. pc = "callback" /\ ~cancelled => Diff(table[slot].trigger_time, now) \in Int
    BY <2>1 DEF IInv, TimesInv
  <2> QED
    BY <1>1, <1>5, <2>1, <2>2, DeferredExecAssumption DEF IInv, OwnInv
<1> QED
  BY <1>3, <1>6, <1>7, <1>8 DEF IInv

LEMMA ElsewhereInv ==
  ASSUME IInv, defer_exec_elsewhere
  PROVE  IInv'
<1>1. current_token' \in 0 .. TOKEN_MOD - 1
  BY DeferredExecAssumption DEF defer_exec_elsewhere, Nth, IInv, TypeOK
<1> QED
  BY <1>1 DEF defer_exec_elsewhere, position, IInv, TypeOK, TokensUnique, TimesInv,
              CallbackInv, FreshInv, OwnInv, Live, Ahead

\* Every step preserves the invariant.
LEMMA NextInv ==
  ASSUME ~ROUND_TRIP, IInv, [Next]_vars
  PROVE  IInv'
<1>1. CASE UNCHANGED vars
  BY <1>1 DEF vars, IInv, TypeOK, TokensUnique, TimesInv, CallbackInv, FreshInv, OwnInv,
              Live, Ahead
<1> QED
  BY <1>1, DeferInv, ExtendInv, CancelInv, ElsewhereInv, TaskInv, ReturnInv, TickInv DEF Next

\* Unless a callback that cancelled itself is handed its own token again, IInv holds in
\* every reachable state of the table.
THEOREM Invariance == ASSUME ~ROUND_TRIP PROVE Spec => []IInv
<1>1. Init => IInv
  BY InitInv
<1>2. IInv /\ [Next]_vars => IInv'
  BY NextInv
<1> QED
  BY <1>1, <1>2, PTL DEF Spec

\* The type invariant of deferred_exec.c's table and clock.
THEOREM TypeCorrect == ASSUME ~ROUND_TRIP PROVE Spec => []TypeOK
<1>1. Spec => []IInv
  BY Invariance
<1>2. IInv => TypeOK
  BY DEF IInv
<1> QED
  BY <1>1, <1>2, PTL

\* allocate_token never hands out a token that is in use, for every table size and
\* token width.
THEOREM Unique == ASSUME ~ROUND_TRIP PROVE Spec => []TokensUnique
<1>1. Spec => []IInv
  BY Invariance
<1>2. IInv => TokensUnique
  BY DEF IInv
<1> QED
  BY <1>1, <1>2, PTL

\* What a run of the task queues or extends is not invoked by the same run.
THEOREM PutOff == ASSUME ~ROUND_TRIP PROVE Spec => NotInSamePass
<1>1. Spec => []IInv
  BY Invariance
<1>2. ASSUME IInv, NEW s \in Slots, task_Invoke(s)
      PROVE  table[s].token \notin fresh
  <2>1. Ahead(s) /\ Live(s) /\ Diff(table[s].trigger_time, last_execution_time) <= 0
    BY <1>2 DEF task_Invoke, Due, Ahead
  <2>2. Diff(table[s].trigger_time, last_execution_time) \in Int
    BY <1>2, DiffType, DeferredExecAssumption DEF IInv, TypeOK
  <2> QED
    BY <1>2, <2>1, <2>2 DEF IInv, FreshInv
<1>3. IInv /\ [Next]_vars
        => [\A s \in Slots : task_Invoke(s) => table[s].token \notin fresh]_vars
  BY <1>2
<1> QED
  BY <1>1, <1>3, PTL DEF Spec, NotInSamePass

-----------------------------------------------------------------------------
(* The table implements the abstract timers.                               *)

\* The pending executors of a table T at time n, and that T has no token twice.
SlotIn(T, token) == CHOOSE s \in Slots : T[s].token = token
TokensIn(T)      == {T[s].token : s \in {u \in Slots : T[u].token # INVALID_DEFERRED_TOKEN}}
PendingIn(T, n)  == [token \in TokensIn(T) |-> Diff(T[SlotIn(T, token)].trigger_time, n)]
Once(T) ==
  \A s, u \in Slots :
    T[s].token # INVALID_DEFERRED_TOKEN /\ T[s].token = T[u].token => s = u

LEMMA PendingIs ==
  /\ PendingNow = PendingIn(table, now)
  /\ PendingNow' = PendingIn(table', now')
  /\ TokensUnique <=> Once(table)
  /\ TokensUnique' <=> Once(table')
BY DEF PendingNow, LiveTokens, DueIn, SlotOf, Live, PendingIn, TokensIn, SlotIn, TokensUnique, Once

LEMMA PendingFunction ==
  ASSUME NEW T, NEW n
  PROVE  PendingIn(T, n) = [token \in TokensIn(T) |-> PendingIn(T, n)[token]]
BY DEF PendingIn

\* What a live slot of T is to the pending executors.
LEMMA PendingAt ==
  ASSUME NEW T, NEW n, Once(T), NEW s \in Slots, T[s].token # INVALID_DEFERRED_TOKEN
  PROVE  /\ T[s].token \in TokensIn(T)
         /\ PendingIn(T, n)[T[s].token] = Diff(T[s].trigger_time, n)
<1>1. T[s].token \in TokensIn(T)
  BY DEF TokensIn
<1>2. SlotIn(T, T[s].token) = s
  BY DEF SlotIn, Once
<1> QED
  BY <1>1, <1>2 DEF PendingIn

\* A slot of T is filled, or its executor put off.
LEMMA PendingSet ==
  ASSUME NEW T, NEW U, NEW n, Once(T), Once(U), NEW s \in Slots,
         U[s].token # INVALID_DEFERRED_TOKEN,
         \A u \in Slots : u # s => U[u] = T[u],
         T[s].token # INVALID_DEFERRED_TOKEN => U[s].token = T[s].token
  PROVE  /\ TokensIn(U) = TokensIn(T) \cup {U[s].token}
         /\ PendingIn(U, n)[U[s].token] = Diff(U[s].trigger_time, n)
         /\ \A token \in TokensIn(T) \ {U[s].token} :
              PendingIn(U, n)[token] = PendingIn(T, n)[token]
<1>1. TokensIn(U) = TokensIn(T) \cup {U[s].token}
  BY DEF TokensIn
<1>2. PendingIn(U, n)[U[s].token] = Diff(U[s].trigger_time, n)
  BY PendingAt
<1>3. ASSUME NEW token \in TokensIn(T), token # U[s].token
      PROVE  PendingIn(U, n)[token] = PendingIn(T, n)[token]
  <2>1. PICK u \in Slots : T[u].token # INVALID_DEFERRED_TOKEN /\ T[u].token = token
    BY DEF TokensIn
  <2>2. u # s /\ U[u] = T[u]
    BY <1>3, <2>1
  <2>3. PendingIn(U, n)[U[u].token] = Diff(U[u].trigger_time, n)
    BY <2>1, <2>2, PendingAt
  <2>4. PendingIn(T, n)[T[u].token] = Diff(T[u].trigger_time, n)
    BY <2>1, PendingAt
  <2> QED
    BY <2>1, <2>2, <2>3, <2>4
<1> QED
  BY <1>1, <1>2, <1>3

\* A slot of T is freed.
LEMMA PendingDrop ==
  ASSUME NEW T, NEW U, NEW n, Once(T), Once(U), NEW s \in Slots,
         T[s].token # INVALID_DEFERRED_TOKEN, U[s].token = INVALID_DEFERRED_TOKEN,
         \A u \in Slots : u # s => U[u] = T[u]
  PROVE  /\ TokensIn(U) = TokensIn(T) \ {T[s].token}
         /\ \A token \in TokensIn(U) : PendingIn(U, n)[token] = PendingIn(T, n)[token]
<1>1. TokensIn(U) = TokensIn(T) \ {T[s].token}
  BY DEF TokensIn, Once
<1>2. ASSUME NEW token \in TokensIn(U)
      PROVE  PendingIn(U, n)[token] = PendingIn(T, n)[token]
  <2>1. PICK u \in Slots : U[u].token # INVALID_DEFERRED_TOKEN /\ U[u].token = token
    BY DEF TokensIn
  <2>2. U[u] = T[u]
    BY <2>1
  <2>3. PendingIn(U, n)[U[u].token] = Diff(U[u].trigger_time, n)
    BY <2>1, PendingAt
  <2>4. PendingIn(T, n)[T[u].token] = Diff(T[u].trigger_time, n)
    BY <2>1, <2>2, PendingAt
  <2> QED
    BY <2>1, <2>2, <2>3, <2>4
<1> QED
  BY <1>1, <1>2

\* Each step of the table is a step of the timers, or changes nothing they know of.
LEMMA DeferSimulates ==
  ASSUME IInv, TokensUnique', NEW delay \in Delays, defer_exec(delay)
  PROVE  \/ \E h \in Tokens : Abstract!Queue(h, delay)
         \/ UNCHANGED <<PendingNow, Active>>
<1>1. UNCHANGED Active /\ now' = now
  BY DEF defer_exec, position, Active
<1>2. CASE Usable = {}
  <2>1. UNCHANGED <<table, now>>
    BY <1>1, <1>2 DEF defer_exec
  <2> QED
    BY <1>1, <2>1, PendingIs
<1>3. CASE Usable # {}
  <2> DEFINE h == Nth(First(Usable))
             s == First(Free)
  <2>1. h \in Tokens /\ h # INVALID_DEFERRED_TOKEN /\ \A u \in Slots : table[u].token # h
    BY <1>3, TokenIsNew DEF IInv, Tokens, INVALID_DEFERRED_TOKEN
  <2>2. s \in Slots /\ table[s].token = INVALID_DEFERRED_TOKEN
    BY FreeSlot DEF defer_exec, Live
  <2>3. table' = [table EXCEPT ![s] = Entry(h, Wrap(now + delay))]
    BY <1>3 DEF defer_exec
  <2>4. /\ table'[s].token = h /\ table'[s].trigger_time = Wrap(now + delay)
        /\ \A u \in Slots : u # s => table'[u] = table[u]
    BY <2>2, <2>3 DEF Entry, IInv, TypeOK
  <2>5. Diff(Wrap(now + delay), now) = delay
    BY DelayedTimes DEF IInv
  <2>6. Once(table) /\ Once(table')
    BY PendingIs DEF IInv
  <2> HIDE DEF h, s
  <2>7. /\ TokensIn(table') = TokensIn(table) \cup {table'[s].token}
        /\ PendingIn(table', now)[table'[s].token] = Diff(table'[s].trigger_time, now)
        /\ \A token \in TokensIn(table) \ {table'[s].token} :
             PendingIn(table', now)[token] = PendingIn(table, now)[token]
    <3>1. /\ table'[s].token # INVALID_DEFERRED_TOKEN
          /\ table[s].token # INVALID_DEFERRED_TOKEN => table'[s].token = table[s].token
      BY <2>1, <2>2, <2>4
    <3>2. \A u \in Slots : u # s => table'[u] = table[u]
      BY <2>4
    <3> QED
      BY <2>2, <2>6, <3>1, <3>2, PendingSet
  <2>8. DOMAIN PendingNow = TokensIn(table) /\ h \notin TokensIn(table)
    BY <2>1, PendingIs DEF PendingIn, TokensIn
  <2>9. PendingNow' = Abstract!With(h, delay)
    BY <1>1, <2>4, <2>5, <2>7, <2>8, PendingIs, PendingFunction DEF Abstract!With
  <2> QED
    BY <1>1, <2>1, <2>8, <2>9 DEF Abstract!Queue
<1> QED
  BY <1>2, <1>3

LEMMA ExtendSimulates ==
  ASSUME IInv, TokensUnique', NEW s \in Slots, NEW delay \in Delays,
         extend_deferred_exec(s, delay)
  PROVE  \E h \in Tokens : Abstract!Extend(h, delay)
<1> DEFINE h == table[s].token
<1>1. UNCHANGED Active /\ now' = now
  BY DEF extend_deferred_exec, position, Active
<1>2. h # INVALID_DEFERRED_TOKEN /\ h \in Tokens
  BY DEF extend_deferred_exec, Live, IInv, TypeOK, Tokens, INVALID_DEFERRED_TOKEN
<1>3. /\ table'[s].token = h /\ table'[s].trigger_time = Wrap(now + delay)
      /\ \A u \in Slots : u # s => table'[u] = table[u]
  BY DEF extend_deferred_exec, IInv, TypeOK
<1>4. Diff(Wrap(now + delay), now) = delay
  BY DelayedTimes DEF IInv
<1>5. Once(table) /\ Once(table')
  BY PendingIs DEF IInv
<1>6. h \in TokensIn(table)
  BY <1>2, <1>5, PendingAt
<1> HIDE DEF h
<1>7. /\ TokensIn(table') = TokensIn(table) \cup {table'[s].token}
      /\ PendingIn(table', now)[table'[s].token] = Diff(table'[s].trigger_time, now)
      /\ \A token \in TokensIn(table) \ {table'[s].token} :
           PendingIn(table', now)[token] = PendingIn(table, now)[token]
  BY <1>2, <1>3, <1>5, PendingSet DEF h
<1>8. DOMAIN PendingNow = TokensIn(table)
  BY PendingIs DEF PendingIn
<1>9. PendingNow' = Abstract!With(h, delay)
  BY <1>1, <1>3, <1>4, <1>7, <1>8, PendingIs, PendingFunction DEF Abstract!With
<1> QED
  BY <1>1, <1>2, <1>6, <1>8, <1>9 DEF Abstract!Extend

LEMMA CancelSimulates ==
  ASSUME IInv, TokensUnique', NEW s \in Slots, cancel_deferred_exec(s)
  PROVE  \E h \in Tokens : Abstract!Cancel(h)
<1> DEFINE h == table[s].token
<1>1. now' = now /\ curr_token' = curr_token
  BY DEF cancel_deferred_exec, position
<1>2. h # INVALID_DEFERRED_TOKEN /\ h \in Tokens
  BY DEF cancel_deferred_exec, Live, IInv, TypeOK, Tokens, INVALID_DEFERRED_TOKEN
<1>3. /\ table'[s].token = INVALID_DEFERRED_TOKEN
      /\ \A u \in Slots : u # s => table'[u] = table[u]
  BY DEF cancel_deferred_exec, NoEntry, Entry, IInv, TypeOK
<1>4. Once(table) /\ Once(table')
  BY PendingIs DEF IInv
<1>5. h \in TokensIn(table)
  BY <1>2, <1>4, PendingAt
<1>6. /\ TokensIn(table') = TokensIn(table) \ {h}
      /\ \A token \in TokensIn(table') : PendingIn(table', now)[token] = PendingIn(table, now)[token]
  BY <1>2, <1>3, <1>4, PendingDrop
<1>7. Active' = IF Active = h THEN INVALID_DEFERRED_TOKEN ELSE Active
  BY <1>1, <1>2 DEF cancel_deferred_exec, Active, IInv, CallbackInv
<1> HIDE DEF h
<1>8. DOMAIN PendingNow = TokensIn(table)
  BY PendingIs DEF PendingIn
<1>9. PendingNow' = Abstract!Without(h)
  BY <1>1, <1>6, <1>8, PendingIs, PendingFunction DEF Abstract!Without
<1> QED
  BY <1>2, <1>5, <1>7, <1>8, <1>9 DEF Abstract!Cancel

LEMMA InvokeSimulates ==
  ASSUME IInv, NEW s \in Slots, task_Invoke(s)
  PROVE  \E h \in Tokens : Abstract!Fire(h)
<1> DEFINE h == table[s].token
<1>1. UNCHANGED <<table, now, cancelled>> /\ curr_token' = h /\ ~cancelled
      /\ curr_token = INVALID_DEFERRED_TOKEN
  BY DEF task_Invoke, IInv, CallbackInv
<1>2. h # INVALID_DEFERRED_TOKEN /\ h \in Tokens
  BY DEF task_Invoke, Due, Live, IInv, TypeOK, Tokens, INVALID_DEFERRED_TOKEN
<1>3. Diff(table[s].trigger_time, now) <= 0
  <2>1. /\ table[s].trigger_time \in Times /\ now \in Times /\ last_execution_time \in Times
        /\ Diff(now, last_execution_time) \in 0 .. MAX_STALL
        /\ Diff(table[s].trigger_time, now) \in -MAX_STALL .. 2 * MAX_DELAY
    BY DEF task_Invoke, Due, IInv, TypeOK, TimesInv
  <2>2. Diff(table[s].trigger_time, now) + Diff(now, last_execution_time)
          \in -HALF .. HALF - 1
    BY <2>1, DeferredExecAssumption
  <2>3. Diff(table[s].trigger_time, last_execution_time) =
          Diff(table[s].trigger_time, now) + Diff(now, last_execution_time)
    BY <2>1, <2>2, DiffAdds
  <2>4. Diff(table[s].trigger_time, last_execution_time) <= 0
    BY DEF task_Invoke, Due
  <2> QED
    BY <2>1, <2>3, <2>4, DeferredExecAssumption
<1>4. h \in TokensIn(table) /\ PendingIn(table, now)[h] = Diff(table[s].trigger_time, now)
  BY <1>2, PendingAt, PendingIs DEF IInv
<1>5. Active = INVALID_DEFERRED_TOKEN /\ Active' = h
  BY <1>1 DEF Active
<1> HIDE DEF h
<1>6. UNCHANGED PendingNow
  BY <1>1, PendingIs
<1>7. h \in DOMAIN PendingNow /\ PendingNow[h] <= 0
  BY <1>3, <1>4, PendingIs DEF PendingIn
<1> QED
  BY <1>2, <1>5, <1>6, <1>7 DEF Abstract!Fire

LEMMA ReturnSimulates ==
  ASSUME IInv, TokensUnique', NEW delay \in {0} \cup Delays, task_Return(delay)
  PROVE  Abstract!Finish(delay) \/ UNCHANGED <<PendingNow, Active>>
<1>1. /\ now' = now /\ Active' = INVALID_DEFERRED_TOKEN
      /\ slot \in Slots /\ curr_token \in Tokens /\ pc = "callback"
  BY DEF task_Return, Active, IInv, CallbackInv
<1>2. CASE cancelled
  <2>1. table' = table /\ Active = INVALID_DEFERRED_TOKEN
    BY <1>1, <1>2 DEF task_Return, Active, IInv, CallbackInv
  <2> QED
    BY <1>1, <2>1, PendingIs
<1>3. CASE ~cancelled
  <2> DEFINE h == curr_token
  <2>1. table[slot].token = h /\ h # INVALID_DEFERRED_TOKEN /\ Active = h
    BY <1>1, <1>3 DEF Active, IInv, CallbackInv, Tokens, INVALID_DEFERRED_TOKEN
  <2>2. table' = [table EXCEPT ![slot] = Requeue(table[slot], delay)]
    BY <2>1 DEF task_Return
  <2>3. Once(table) /\ Once(table')
    BY PendingIs DEF IInv
  <2>4. \A u \in Slots : u # slot => table'[u] = table[u]
    BY <1>1, <2>2 DEF IInv, TypeOK
  <2>5. /\ h \in TokensIn(table)
        /\ PendingIn(table, now)[h] = Diff(table[slot].trigger_time, now)
    BY <1>1, <2>1, <2>3, PendingAt
  <2>6. DOMAIN PendingNow = TokensIn(table)
    BY PendingIs DEF PendingIn
  <2>7. CASE delay > 0
    <3>1. /\ table'[slot].token = h
          /\ table'[slot].trigger_time = Wrap(table[slot].trigger_time + delay)
      BY <1>1, <2>1, <2>2, <2>7 DEF Requeue, Entry, IInv, TypeOK
    <3>2. /\ table[slot].trigger_time \in Times /\ now \in Times
          /\ Diff(table[slot].trigger_time, now) \in Int
          /\ Diff(table[slot].trigger_time, now) <= MAX_DELAY
      BY <1>1, <1>3, DiffType, DeferredExecAssumption DEF IInv, TypeOK, OwnInv
    <3>3. delay \in 0 .. HALF /\ Diff(table[slot].trigger_time, now) + delay < HALF
      BY <3>2, DeferredExecAssumption DEF Delays
    <3>4. Diff(table'[slot].trigger_time, now) = Diff(table[slot].trigger_time, now) + delay
      BY <3>1, <3>2, <3>3, DiffLater
    <3> HIDE DEF h
    <3>5. /\ TokensIn(table') = TokensIn(table) \cup {table'[slot].token}
          /\ PendingIn(table', now)[table'[slot].token] = Diff(table'[slot].trigger_time, now)
          /\ \A token \in TokensIn(table) \ {table'[slot].token} :
               PendingIn(table', now)[token] = PendingIn(table, now)[token]
      <4>1. /\ table'[slot].token # INVALID_DEFERRED_TOKEN
            /\ table[slot].token # INVALID_DEFERRED_TOKEN =>
                 table'[slot].token = table[slot].token
        BY <2>1, <3>1
      <4> QED
        BY <1>1, <2>3, <2>4, <4>1, PendingSet
    <3>6. PendingNow' = Abstract!With(h, PendingNow[h] + delay)
      <4>1. PendingNow[h] + delay = Diff(table'[slot].trigger_time, now)
        BY <2>5, <3>4, PendingIs
      <4>2. PendingNow' = [token \in TokensIn(table') |-> PendingIn(table', now)[token]]
        BY <1>1, PendingIs, PendingFunction
      <4>3. \A token \in TokensIn(table') :
               PendingIn(table', now)[token] =
                 IF token = h THEN PendingNow[h] + delay ELSE PendingNow[token]
        BY <3>1, <3>5, <4>1, PendingIs
      <4>4. TokensIn(table') = DOMAIN PendingNow \cup {h}
        BY <2>6, <3>1, <3>5
      <4> QED
        BY <4>2, <4>3, <4>4 DEF Abstract!With
    <3> QED
      BY <1>1, <2>1, <2>7, <3>6 DEF Abstract!Finish
  <2>8. CASE ~(delay > 0)
    <3>1. table'[slot].token = INVALID_DEFERRED_TOKEN
      BY <1>1, <2>2, <2>8 DEF Requeue, NoEntry, Entry, IInv, TypeOK
    <3>2. /\ TokensIn(table') = TokensIn(table) \ {table[slot].token}
          /\ \A token \in TokensIn(table') : PendingIn(table', now)[token] = PendingIn(table, now)[token]
      BY <1>1, <2>1, <2>3, <2>4, <3>1, PendingDrop
    <3> HIDE DEF h
    <3>3. PendingNow' = Abstract!Without(h)
      BY <1>1, <2>1, <2>6, <3>2, PendingIs, PendingFunction DEF Abstract!Without
    <3> QED
      BY <1>1, <2>1, <2>8, <3>3 DEF Abstract!Finish
  <2> QED
    BY <2>7, <2>8
<1> QED
  BY <1>2, <1>3

LEMMA TickSimulates ==
  ASSUME IInv, Tick
  PROVE  Abstract!Pass
<1>1. table' = table /\ now' = Wrap(now + 1) /\ UNCHANGED Active
  BY DEF Tick, Active
<1>2. ASSUME NEW token \in TokensIn(table)
      PROVE  PendingIn(table, Wrap(now + 1))[token] = PendingIn(table, now)[token] - 1
  <2>1. PICK s \in Slots : table[s].token # INVALID_DEFERRED_TOKEN /\ table[s].token = token
    BY DEF TokensIn
  <2>2. /\ PendingIn(table, Wrap(now + 1))[table[s].token] =
             Diff(table[s].trigger_time, Wrap(now + 1))
        /\ PendingIn(table, now)[table[s].token] = Diff(table[s].trigger_time, now)
    BY <2>1, PendingAt, PendingIs DEF IInv
  <2>3. /\ table[s].trigger_time \in Times /\ now \in Times
        /\ Diff(table[s].trigger_time, now) > -HALF
    BY <2>1, DeferredExecAssumption DEF IInv, TypeOK, TimesInv, Live
  <2> QED
    BY <2>1, <2>2, <2>3, DiffTick
<1>3. DOMAIN PendingNow = TokensIn(table) /\ DOMAIN PendingNow' = TokensIn(table)
  BY <1>1, PendingIs DEF PendingIn
<1>4. PendingNow' = [token \in DOMAIN PendingNow |-> PendingNow[token] - 1]
  <2>1. PendingNow' = PendingIn(table, Wrap(now + 1)) /\ PendingNow = PendingIn(table, now)
    BY <1>1, PendingIs
  <2>2. PendingIn(table, Wrap(now + 1)) =
          [token \in TokensIn(table) |-> PendingIn(table, Wrap(now + 1))[token]]
    BY DEF PendingIn
  <2> QED
    BY <1>2, <1>3, <2>1, <2>2
<1> QED
  BY <1>1, <1>4 DEF Abstract!Pass

\* The table starts as the timers do.
LEMMA InitSimulates == Init => Abstract!Init
<1> SUFFICES ASSUME Init PROVE Abstract!Init
  OBVIOUS
<1>1. LiveTokens = {}
  BY DEF Init, LiveTokens, Live, NoEntry, Entry
<1>2. Active = INVALID_DEFERRED_TOKEN
  BY DEF Init, Active
<1> QED
  BY <1>1, <1>2 DEF Abstract!Init, PendingNow

\* Every step of the table is one of the timers or a stutter.
LEMMA NextSimulates ==
  ASSUME IInv, IInv', [Next]_vars
  PROVE  [Abstract!Next]_(Abstract!vars)
<1> USE DEF Abstract!vars
<1>1. CASE UNCHANGED vars
  <2>1. UNCHANGED <<table, now, cancelled, curr_token>>
    BY <1>1 DEF vars
  <2> QED
    BY <2>1, PendingIs DEF Active
<1>2. CASE \E delay \in Delays : defer_exec(delay)
  BY <1>2, DeferSimulates DEF IInv, Abstract!Next
<1>3. CASE \E s \in Slots, delay \in Delays : extend_deferred_exec(s, delay)
  BY <1>3, ExtendSimulates DEF IInv, Abstract!Next
<1>4. CASE \E s \in Slots : cancel_deferred_exec(s)
  BY <1>4, CancelSimulates DEF IInv, Abstract!Next
<1>5. CASE defer_exec_elsewhere \/ task_Start \/ task_End
  <2>1. UNCHANGED <<table, now, cancelled, curr_token>>
    BY <1>5 DEF defer_exec_elsewhere, position, task_Start, task_End
  <2> QED
    BY <2>1, PendingIs DEF Active
<1>6. CASE \E s \in Slots : task_Invoke(s)
  BY <1>6, InvokeSimulates DEF IInv, Abstract!Next
<1>7. CASE \E delay \in {0} \cup Delays : task_Return(delay)
  BY <1>7, ReturnSimulates DEF IInv, Abstract!Next
<1>8. CASE Tick
  BY <1>8, TickSimulates DEF Abstract!Next
<1> QED
  BY <1>1, <1>2, <1>3, <1>4, <1>5, <1>6, <1>7, <1>8 DEF Next

\* deferred_exec.c keeps what Timers promises, whatever the size of the table and the
\* width of tokens and times.
THEOREM Implements == ASSUME ~ROUND_TRIP PROVE Spec => ImplementsTimers
<1>1. Init => Abstract!Init
  BY InitSimulates
<1>2. IInv /\ IInv' /\ [Next]_vars => [Abstract!Next]_(Abstract!vars)
  BY NextSimulates
<1>3. Spec => []IInv
  BY Invariance
<1> QED
  BY <1>1, <1>2, <1>3, PTL DEF Spec, ImplementsTimers, Abstract!Spec
=============================================================================
