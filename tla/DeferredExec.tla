---------------------------- MODULE DeferredExec ----------------------------
(***************************************************************************)
(* Deferred execution (quantum/deferred_exec.c): a table of callbacks to   *)
(* run at a later time.  The main loop runs through the table at most once *)
(* a millisecond; the callbacks it invokes may queue, extend and cancel    *)
(* executors, the one in their own slot included, and may take time.       *)
(*                                                                         *)
(* One step is one call of the API, by the main loop or by a callback, or  *)
(* the part of deferred_exec_advanced_task up to the next invocation of a  *)
(* callback.  An executor is known by its token; which function and which  *)
(* argument it carries makes no difference to the table and is left out.   *)
(* Calls that change nothing (a token that is not in the table, a delay of *)
(* zero, a full table) are stuttering steps.                               *)
(***************************************************************************)
EXTENDS Integers

CONSTANTS TABLE_COUNT,   \* slots of the table: MAX_DEFERRED_EXECUTORS
          TOKEN_MOD,     \* 256: deferred_token is 8 bits wide
          HALF,          \* 2^31: times are 32 bits wide, differences signed
          MAX_DELAY,     \* bound on the delays asked for
          MAX_STALL,     \* bound: ms the main loop or a callback may take
          ROUND_TRIP     \* a callback that cancelled itself may be handed its
                         \* own token again by defer_exec, all others in between
                         \* having gone round

TIMER_MOD == 2 * HALF
INVALID_DEFERRED_TOKEN == 0

ASSUME DeferredExecAssumption ==
  /\ TABLE_COUNT \in Nat \ {0} /\ TOKEN_MOD \in Nat \ {0, 1}
  /\ HALF \in Nat /\ MAX_DELAY \in Nat \ {0} /\ MAX_STALL \in Nat \ {0}
  /\ 2 * MAX_DELAY + MAX_STALL < HALF
  /\ ROUND_TRIP \in BOOLEAN

Slots  == 1 .. TABLE_COUNT
Times  == 0 .. TIMER_MOD - 1
Tokens == 1 .. TOKEN_MOD - 1
Delays == 1 .. MAX_DELAY

VARIABLES
  table,                 \* the executors, in the order they are looked at
  current_token,         \* the token handed out last
  last_execution_time,   \* when the task last ran; its "now" while it runs
  now,                   \* timer_read32()
  pc,                    \* "idle": in the main loop; "task": between two slots;
                         \* "callback": in the callback of slot
  slot,                  \* the slot the task has got to
  curr_token,            \* its token when the callback was invoked
  cancelled,             \* history: the callback has cancelled its own executor
  fresh                  \* history: tokens queued or extended in this pass

vars == <<table, current_token, last_execution_time, now, pc, slot, curr_token,
          cancelled, fresh>>
position == <<last_execution_time, now, pc, slot, curr_token>>

Entry(token, trigger_time) == [token |-> token, trigger_time |-> trigger_time]
NoEntry == Entry(INVALID_DEFERRED_TOKEN, 0)

Live(s) == table[s].token # INVALID_DEFERRED_TOKEN

Wrap(t) == IF t >= TIMER_MOD THEN t - TIMER_MOD ELSE t     \* uint32_t addition

\* (int32_t)TIMER_DIFF_32(a, b)
Diff(a, b) ==
  LET d == IF a >= b THEN a - b ELSE a - b + TIMER_MOD
  IN  IF d >= HALF THEN d - TIMER_MOD ELSE d

-----------------------------------------------------------------------------
(* The API.                                                                *)

token_can_be_used_Anyway(token) == token # INVALID_DEFERRED_TOKEN  \* mutant
token_can_be_used(token) ==
  token # INVALID_DEFERRED_TOKEN /\ \A s \in Slots : table[s].token # token

\* allocate_token: the tokens after current_token, in turn, until one can be used;
\* once round, current_token has moved by one and there is none.
Nth(n) == IF current_token + n >= TOKEN_MOD THEN current_token + n - TOKEN_MOD
                                            ELSE current_token + n
Usable == {n \in 1 .. TOKEN_MOD : token_can_be_used(Nth(n))}

First(S) == CHOOSE n \in S : \A m \in S : n <= m

InApi == pc \in {"idle", "callback"}

Refreshed(token) == IF pc = "callback" THEN fresh \cup {token} ELSE fresh

Free == {s \in Slots : ~Live(s)}

\* defer_exec_advanced, of a valid delay and with a free slot.
defer_exec(delay) ==
  /\ InApi /\ Free # {}
  /\ IF Usable = {}
     THEN /\ current_token' = Nth(1)
          /\ UNCHANGED <<table, fresh>>
     ELSE /\ current_token' = Nth(First(Usable))
          /\ ROUND_TRIP \/ ~cancelled \/ current_token' # curr_token
          /\ table' = [table EXCEPT ![First(Free)] = Entry(current_token', Wrap(now + delay))]
          /\ fresh' = Refreshed(current_token')
  /\ UNCHANGED <<position, cancelled>>

\* extend_deferred_exec_advanced, of a token in the table.
extend_deferred_exec(s, delay) ==
  /\ InApi /\ Live(s)
  /\ table' = [table EXCEPT ![s].trigger_time = Wrap(now + delay)]
  /\ fresh' = Refreshed(table[s].token)
  /\ UNCHANGED <<position, current_token, cancelled>>

\* cancel_deferred_exec_advanced, of a token in the table.
cancel_deferred_exec(s) ==
  /\ InApi /\ Live(s)
  /\ table' = [table EXCEPT ![s] = NoEntry]
  /\ cancelled' = (cancelled \/ (pc = "callback" /\ table[s].token = curr_token))
  /\ UNCHANGED <<position, current_token, fresh>>

\* The tokens are common to all tables: one is handed out for another table.
defer_exec_elsewhere ==
  /\ InApi
  /\ current_token' = Nth(1)
  /\ UNCHANGED <<position, table, cancelled, fresh>>

-----------------------------------------------------------------------------
(* deferred_exec_advanced_task.                                            *)

\* Mutant: the clock is read again for every slot.
Due_Now(s) == Live(s) /\ Diff(table[s].trigger_time, now) <= 0
\* Supposed to be executed, by the time the task started at.
Due(s) == Live(s) /\ Diff(table[s].trigger_time, last_execution_time) <= 0

\* Mutant: the times are compared without regard to their wrapping round.
task_Start_NoWrap ==
  /\ pc = "idle" /\ now > last_execution_time
  /\ pc' = "task" /\ slot' = 1 /\ last_execution_time' = now
  /\ UNCHANGED <<table, current_token, now, curr_token, cancelled, fresh>>

\* Throttled to once a millisecond.
task_Start ==
  /\ pc = "idle" /\ Diff(now, last_execution_time) > 0
  /\ pc' = "task" /\ slot' = 1 /\ last_execution_time' = now
  /\ UNCHANGED <<table, current_token, now, curr_token, cancelled, fresh>>

\* The next slot that is due.
task_Invoke(s) ==
  /\ pc = "task" /\ s >= slot /\ Due(s)
  /\ \A u \in slot .. s - 1 : ~Due(u)
  /\ pc' = "callback" /\ slot' = s /\ curr_token' = table[s].token
  /\ UNCHANGED <<table, current_token, last_execution_time, now, cancelled, fresh>>

\* Mutant: a repeated executor counts from when it ran.
Requeue_FromNow(entry, delay) ==
  IF delay > 0 THEN Entry(entry.token, Wrap(now + delay)) ELSE NoEntry
\* Repeated by the delay from when it was due, or freed.
Requeue(entry, delay) ==
  IF delay > 0 THEN Entry(entry.token, Wrap(entry.trigger_time + delay)) ELSE NoEntry

\* The callback returns delay.
task_Return(delay) ==
  /\ pc = "callback"
  /\ table' = IF table[slot].token # curr_token THEN table
              ELSE [table EXCEPT ![slot] = Requeue(table[slot], delay)]
  /\ pc' = "task" /\ slot' = slot + 1
  /\ curr_token' = INVALID_DEFERRED_TOKEN /\ cancelled' = FALSE
  /\ UNCHANGED <<current_token, last_execution_time, now, fresh>>

\* No slot left that is due.
task_End ==
  /\ pc = "task" /\ \A u \in slot .. TABLE_COUNT : ~Due(u)
  /\ pc' = "idle" /\ slot' = 1 /\ fresh' = {}
  /\ UNCHANGED <<table, current_token, last_execution_time, now, curr_token, cancelled>>

-----------------------------------------------------------------------------
\* A millisecond passes, in the main loop or in a callback, unless the main loop has
\* stalled for MAX_STALL or an executor is that late.
Tick ==
  /\ InApi
  /\ Diff(now, last_execution_time) < MAX_STALL
  /\ \A s \in Slots : Live(s) => Diff(table[s].trigger_time, now) > -MAX_STALL
  /\ now' = Wrap(now + 1)
  /\ UNCHANGED <<table, current_token, last_execution_time, pc, slot, curr_token,
                 cancelled, fresh>>

Init ==
  /\ table = [s \in Slots |-> NoEntry]
  /\ current_token = 0 /\ last_execution_time = 0 /\ now = 0
  /\ pc = "idle" /\ slot = 1 /\ curr_token = INVALID_DEFERRED_TOKEN
  /\ cancelled = FALSE /\ fresh = {}

Next ==
  \/ \E delay \in Delays : defer_exec(delay)
  \/ \E s \in Slots, delay \in Delays : extend_deferred_exec(s, delay)
  \/ \E s \in Slots : cancel_deferred_exec(s)
  \/ defer_exec_elsewhere
  \/ task_Start
  \/ \E s \in Slots : task_Invoke(s)
  \/ \E delay \in {0} \cup Delays : task_Return(delay)
  \/ task_End
  \/ Tick

\* Time goes on, the main loop keeps calling the task, and callbacks return.
Fairness ==
  /\ WF_vars(Tick) /\ WF_vars(task_Start) /\ WF_vars(task_End)
  /\ WF_vars(\E s \in Slots : task_Invoke(s))
  /\ WF_vars(\E delay \in {0} \cup Delays : task_Return(delay))

Spec == Init /\ [][Next]_vars /\ Fairness

-----------------------------------------------------------------------------
(* Properties.                                                             *)

TypeOK ==
  /\ table \in [Slots -> [token : 0 .. TOKEN_MOD - 1, trigger_time : Times]]
  /\ \A s \in Slots : ~Live(s) => table[s] = NoEntry
  /\ current_token \in 0 .. TOKEN_MOD - 1
  /\ last_execution_time \in Times /\ now \in Times
  /\ pc \in {"idle", "task", "callback"} /\ slot \in 1 .. TABLE_COUNT + 1
  /\ curr_token \in 0 .. TOKEN_MOD - 1
  /\ cancelled \in BOOLEAN /\ fresh \subseteq Tokens

\* A token names one executor: extend_deferred_exec and cancel_deferred_exec never
\* have two to choose from, however often the 8-bit tokens have gone round
\* (allocate_token).
TokensUnique ==
  \A s, u \in Slots : Live(s) /\ table[s].token = table[u].token => s = u

\* The table keeps what the abstract timers promise: an executor runs only when its
\* delay is over, is repeated from when it was due, and a cancelled one is not run
\* again, in whatever order callbacks and the main loop use the table.
LiveTokens    == {table[s].token : s \in {u \in Slots : Live(u)}}
SlotOf(token) == CHOOSE s \in Slots : table[s].token = token
DueIn(token)  == Diff(table[SlotOf(token)].trigger_time, now)
Active        == IF cancelled THEN INVALID_DEFERRED_TOKEN ELSE curr_token
PendingNow    == [token \in LiveTokens |-> DueIn(token)]

Abstract == INSTANCE Timers WITH
  Handles <- Tokens, Delays <- Delays, None <- INVALID_DEFERRED_TOKEN,
  pending <- PendingNow,
  running <- Active

ImplementsTimers == Abstract!Spec

\* An executor that was queued or extended while the task runs through the table is
\* not invoked by the same run, however long the callbacks take.
NotInSamePass == [][\A s \in Slots : task_Invoke(s) => table[s].token \notin fresh]_vars

\* An executor that is due is run, unless it is cancelled or extended first: those
\* that fell behind and are repeated do not keep the others from their turn.
Running(token) == pc = "callback" /\ curr_token = token
DueNow(token) ==
  \E s \in Slots : table[s].token = token /\ Diff(table[s].trigger_time, now) <= 0
DueRuns == \A token \in Tokens : DueNow(token) ~> Running(token) \/ ~DueNow(token)
=============================================================================
