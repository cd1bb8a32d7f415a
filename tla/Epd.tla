-------------------------------- MODULE Epd --------------------------------
(***************************************************************************)
(* The e-paper driver of the danopad01 keyboard                            *)
(* (keyboards/hernian/danopad01/epd_ws1in54_V2.c and danopad01.c).         *)
(*                                                                         *)
(* The driver never blocks the keyboard on purpose: it is a table-driven   *)
(* sequencer.  Each call of epd_task, once per main-loop iteration, runs   *)
(* at most one element of the current sequence and advances when the       *)
(* element returns true.  Key events request a sequence (cseq_start), and  *)
(* three idle seconds request the deep-sleep sequence.                     *)
(*                                                                         *)
(* Time is abstracted to "has this interval elapsed yet" (delayUp, idleUp) *)
(* and the panel, which is hardware, to what the driver can tell of it:    *)
(* its BUSY pin, the job it is working on, its two RAMs and what it shows. *)
(***************************************************************************)
EXTENDS Integers, Sequences

CONSTANT COUNT_IMG_LIST      \* length of img_list in danopad01.c

ASSUME CountAssumption == COUNT_IMG_LIST \in Nat \ {0}

VARIABLES
  pelem_cur,         \* element the sequencer is at, or NULL
  seq_next,          \* first element of the requested sequence, or NULL
  image_next,        \* image requested with it
  image,             \* image of the running sequence
  hw_reset_phase,    \* progress of the RST pulse; RST is low only in "LOW"
  delayUp,           \* delay_ctx: the last delay_async has elapsed
  idle_timer_phase,
  idleUp,            \* ENTER_DEEP_SLEEP_AFTER_MS have passed since tim_idle_start
  spinning,          \* the main loop is inside epd_send_command's BUSY loop
  idx_img, keydown,  \* danopad01.c: selected image, state of the mode key
  scanned,           \* the first iteration of the main loop is over
  wanted,            \* history: the image last asked for
  panel, busy, ram, base, shown   \* the panel (external)

sequencer == <<pelem_cur, seq_next, image_next, image>>
idle      == <<idle_timer_phase, idleUp>>
keys      == <<idx_img, keydown, wanted>>
display   == <<panel, busy, ram, base, shown>>
vars == <<sequencer, hw_reset_phase, delayUp, idle, spinning, keys, scanned,
          display>>

NoImage == -1
\* img_epaper_200x200_selectmode, the one image that is not in img_list
SelectMode == COUNT_IMG_LIST
Images  == 0 .. COUNT_IMG_LIST

seq_init ==
  << "dprint", "delay_init_async", "delay_init_wait", "hw_reset_async",
     "hw_reset_wait", "sw_reset_async", "busy_wait", "init_async", "busy_wait",
     "set_lut", "send_image_base", "turn_on_display_async", "busy_wait",
     "set_lut", "prepare_partial", "dprint", "END" >>

seq_show_image_partial ==
  << "dprint", "hw_reset_async", "hw_reset_wait", "send_image",
     "turn_on_display_partial_async", "busy_wait", "dprint", "END" >>

seq_deep_sleep ==
  << "dprint", "deep_sleep_async", "deep_sleep_wait", "dprint", "END" >>

\* The three arrays as the memory pelem_cur and seq_next point into; INIT, SHOW
\* and SLEEP are the addresses of their first elements.
NULL  == 0
INIT  == 1
SHOW  == 18
SLEEP == 26
LAST  == 30

Elements ==
  [p \in INIT .. LAST |->
     IF p < SHOW THEN seq_init[p]
     ELSE IF p < SLEEP THEN seq_show_image_partial[p - SHOW + 1]
     ELSE seq_deep_sleep[p - SLEEP + 1]]

Phases   == {"OUTSET", "HIGH_PRE", "LOW", "HIGH_POST", "COMPL"}

\* The elements that begin with epd_send_command.
CommandElems ==
  {"sw_reset_async", "init_async", "set_lut", "prepare_partial", "send_image",
   "send_image_base", "turn_on_display_async",
   "turn_on_display_partial_async", "deep_sleep_async"}

-----------------------------------------------------------------------------
(* The sequencer, cseq_engine_task.                                        *)

\* A requested sequence is loaded only when none is running.
LoadsPreempting == seq_next # NULL   \* mutant: the running one is abandoned
Loads == /\ pelem_cur = NULL
         /\ seq_next # NULL

\* The element this call runs, of the sequence just loaded or of the running one.
Cur  == IF Loads THEN seq_next ELSE pelem_cur
Elem == Elements[Cur]

LoadSeq ==
  /\ seq_next'   = IF Loads THEN NULL ELSE seq_next
  /\ image'      = IF Loads THEN image_next ELSE image
  /\ image_next' = IF Loads THEN NoImage ELSE image_next

\* This call of cseq_engine_task runs element e ...
At(e) == /\ pelem_cur # NULL \/ Loads
         /\ Elem = e
         /\ LoadSeq

\* ... and the element's function returns ok.
Return(ok) ==
  pelem_cur' = IF ok THEN Cur + 1 ELSE Cur

cseq_start(seq, img) ==
  /\ seq_next'   = seq
  /\ image_next' = img

\* A command goes out once BUSY is low; until then the main loop spins in
\* epd_send_command and neither keys nor anything else is processed.
SendCommand == /\ ~busy
               /\ spinning' = FALSE

epd_send_command_spin ==
  /\ pelem_cur # NULL \/ Loads
  /\ Elem \in CommandElems
  /\ LoadSeq
  /\ busy /\ ~spinning
  /\ spinning' = TRUE
  /\ Return(FALSE)
  /\ UNCHANGED <<hw_reset_phase, delayUp, idle, keys, scanned, display>>

-----------------------------------------------------------------------------
(* The elements of the sequences.  pelem_cur is not NULL after any of      *)
(* them, so the idle check at the end of epd_task does nothing.            *)

seqelem_dprint ==
  /\ At("dprint") /\ Return(TRUE)
  /\ scanned' = TRUE
  /\ UNCHANGED <<hw_reset_phase, delayUp, idle, spinning, keys, display>>

seqelem_delay_init_async ==
  /\ At("delay_init_async") /\ Return(TRUE)
  /\ delayUp' = FALSE
  /\ UNCHANGED <<hw_reset_phase, idle, spinning, keys, scanned, display>>

seqelem_delay_wait(e) ==
  /\ At(e) /\ Return(delayUp)
  /\ UNCHANGED <<hw_reset_phase, delayUp, idle, spinning, keys, scanned, display>>

hw_reset_skipped == hw_reset_phase # "OUTSET" /\ ~busy

seqelem_hw_reset_async ==
  /\ At("hw_reset_async") /\ Return(TRUE)
  /\ IF hw_reset_skipped
     THEN UNCHANGED <<hw_reset_phase, delayUp>>
     ELSE hw_reset_phase' = "HIGH_PRE" /\ delayUp' = FALSE
  /\ UNCHANGED <<idle, spinning, keys, scanned, display>>

\* OUTSET ("hw reset sequence error.") and COMPL return at once.
hw_reset_wait_skip ==
  /\ At("hw_reset_wait") /\ Return(TRUE)
  /\ hw_reset_phase \in {"OUTSET", "COMPL"}
  /\ UNCHANGED <<hw_reset_phase, delayUp, idle, spinning, keys, scanned, display>>

hw_reset_wait_delay ==
  /\ At("hw_reset_wait") /\ Return(FALSE)
  /\ hw_reset_phase \in {"HIGH_PRE", "LOW", "HIGH_POST"}
  /\ ~delayUp
  /\ UNCHANGED <<hw_reset_phase, delayUp, idle, spinning, keys, scanned, display>>

\* RST falls: the panel, asleep or not, drops what it does and resets.
hw_reset_wait_low ==
  /\ At("hw_reset_wait") /\ Return(FALSE)
  /\ hw_reset_phase = "HIGH_PRE" /\ delayUp
  /\ hw_reset_phase' = "LOW" /\ delayUp' = FALSE
  /\ panel' = "resetting" /\ busy' = TRUE
  /\ UNCHANGED <<idle, spinning, keys, scanned, ram, base, shown>>

hw_reset_wait_high ==
  /\ At("hw_reset_wait") /\ Return(FALSE)
  /\ hw_reset_phase = "LOW" /\ delayUp
  /\ hw_reset_phase' = "HIGH_POST" /\ delayUp' = FALSE
  /\ UNCHANGED <<idle, spinning, keys, scanned, display>>

hw_reset_wait_compl ==
  /\ At("hw_reset_wait") /\ Return(TRUE)
  /\ hw_reset_phase = "HIGH_POST" /\ delayUp
  /\ hw_reset_phase' = "COMPL"
  /\ UNCHANGED <<delayUp, idle, spinning, keys, scanned, display>>

seqelem_hw_reset_wait ==
  \/ hw_reset_wait_skip
  \/ hw_reset_wait_delay
  \/ hw_reset_wait_low
  \/ hw_reset_wait_high
  \/ hw_reset_wait_compl

\* sw_reset_wait, init_wait and both turn_on_display_waits.
seqelem_busy_wait_NoWait ==            \* mutant: does not look at BUSY
  /\ At("busy_wait") /\ Return(TRUE)
  /\ UNCHANGED <<hw_reset_phase, delayUp, idle, spinning, keys, scanned, display>>
seqelem_busy_wait ==
  /\ At("busy_wait") /\ Return(~busy)
  /\ UNCHANGED <<hw_reset_phase, delayUp, idle, spinning, keys, scanned, display>>

\* A command element that makes the panel work on job and so raise BUSY.
StartJob(e, job) ==
  /\ At(e) /\ SendCommand /\ Return(TRUE)
  /\ panel' = job /\ busy' = TRUE
  /\ UNCHANGED <<hw_reset_phase, delayUp, idle, keys, scanned, ram, base, shown>>

seqelem_sw_reset_async                == StartJob("sw_reset_async", "resetting")
seqelem_init_async                    == StartJob("init_async", "loading")
seqelem_turn_on_display_async         == StartJob("turn_on_display_async", "updating")
seqelem_turn_on_display_partial_async ==
  StartJob("turn_on_display_partial_async", "updating")

\* set_ult_full, set_ult_partial and prepare_partial only write registers.
SetRegisters(e) ==
  /\ At(e) /\ SendCommand /\ Return(TRUE)
  /\ UNCHANGED <<hw_reset_phase, delayUp, idle, keys, scanned, display>>

seqelem_send_image_base ==
  /\ At("send_image_base") /\ SendCommand /\ Return(TRUE)
  /\ ram' = image' /\ base' = image'
  /\ UNCHANGED <<hw_reset_phase, delayUp, idle, keys, scanned, panel, busy, shown>>

seqelem_send_image ==
  /\ At("send_image") /\ SendCommand /\ Return(TRUE)
  /\ ram' = image'
  /\ UNCHANGED <<hw_reset_phase, delayUp, idle, keys, scanned, panel, busy, base,
                 shown>>

\* The driver's comment takes BUSY to be high in deep sleep but the code works
\* without relying on it, so the level of the pin is left open.
deep_sleep_phase_Kept == hw_reset_phase      \* mutant: no reset after deep sleep
deep_sleep_phase      == "OUTSET"

seqelem_deep_sleep_async ==
  /\ At("deep_sleep_async") /\ SendCommand /\ Return(TRUE)
  /\ hw_reset_phase' = deep_sleep_phase
  /\ delayUp' = FALSE
  /\ panel' = "asleep" /\ busy' \in BOOLEAN
  /\ UNCHANGED <<idle, keys, scanned, ram, base, shown>>

-----------------------------------------------------------------------------
(* epd_task: one call of the sequencer, then, with no sequence running and *)
(* BUSY low, the idle timer.                                               *)

idle_skip ==
  /\ \/ busy
     \/ idle_timer_phase = "EXPIRED"
     \/ idle_timer_phase = "START" /\ ~idleUp
  /\ UNCHANGED <<idle, seq_next, image_next>>

idle_start_Again ==         \* mutant: the timer is restarted by every call
  /\ ~busy /\ idle_timer_phase = "FREE"
  /\ idleUp' = FALSE
  /\ UNCHANGED <<idle_timer_phase, seq_next, image_next>>
idle_start ==
  /\ ~busy /\ idle_timer_phase = "FREE"
  /\ idle_timer_phase' = "START"
  /\ idleUp' = FALSE
  /\ UNCHANGED <<seq_next, image_next>>

idle_expire ==
  /\ ~busy /\ idle_timer_phase = "START" /\ idleUp
  /\ idle_timer_phase' = "EXPIRED"
  /\ cseq_start(SLEEP, NoImage)
  /\ UNCHANGED idleUp

IdleCheck == idle_skip \/ idle_start \/ idle_expire

\* Nothing runs and nothing is requested.
EngineIdle ==
  /\ pelem_cur = NULL /\ seq_next = NULL
  /\ IdleCheck
  /\ UNCHANGED <<pelem_cur, image, hw_reset_phase, delayUp, spinning, keys,
                 scanned, display>>

\* CSEQ_TYPE_END: no new sequence is loaded before the next call.
EngineEndClears ==          \* mutant: END also drops the pending request
  /\ pelem_cur # NULL /\ Elem = "END"
  /\ pelem_cur' = NULL
  /\ cseq_start(NULL, NoImage)
  /\ UNCHANGED <<idle, image, hw_reset_phase, delayUp, spinning, keys, scanned,
                 display>>
EngineEnd ==
  /\ pelem_cur # NULL /\ Elem = "END"
  /\ pelem_cur' = NULL
  /\ IdleCheck
  /\ UNCHANGED <<image, hw_reset_phase, delayUp, spinning, keys, scanned, display>>

epd_task ==
  \/ EngineIdle
  \/ EngineEnd
  \/ epd_send_command_spin
  \/ seqelem_dprint
  \/ seqelem_delay_init_async
  \/ seqelem_delay_wait("delay_init_wait")
  \/ seqelem_hw_reset_async
  \/ seqelem_hw_reset_wait
  \/ seqelem_busy_wait
  \/ seqelem_sw_reset_async
  \/ seqelem_init_async
  \/ SetRegisters("set_lut")
  \/ SetRegisters("prepare_partial")
  \/ seqelem_send_image_base
  \/ seqelem_send_image
  \/ seqelem_turn_on_display_async
  \/ seqelem_turn_on_display_partial_async
  \/ seqelem_deep_sleep_async
  \/ seqelem_delay_wait("deep_sleep_wait")

-----------------------------------------------------------------------------
(* danopad01.c: the mode key (keycode 0x14).  Key events are processed by  *)
(* the main loop between two calls of epd_task; the default debouncer      *)
(* reports none in the loop's first iteration.                             *)

epd_display_image_partial(img) ==
  /\ idle_timer_phase' = "FREE"
  /\ cseq_start(SHOW, img)
  /\ wanted' = img

NextImage == IF idx_img + 1 >= COUNT_IMG_LIST THEN 0 ELSE idx_img + 1

process_record_kb_press ==
  /\ scanned /\ ~spinning /\ ~keydown
  /\ keydown' = TRUE
  /\ epd_display_image_partial(SelectMode)
  /\ UNCHANGED <<pelem_cur, image, hw_reset_phase, delayUp, idleUp, spinning,
                 idx_img, scanned, display>>

process_record_kb_release ==
  /\ ~spinning /\ keydown
  /\ keydown' = FALSE
  /\ idx_img' = NextImage
  /\ epd_display_image_partial(idx_img')
  /\ UNCHANGED <<pelem_cur, image, hw_reset_phase, delayUp, idleUp, spinning,
                 scanned, display>>

KeyEvent == process_record_kb_press \/ process_record_kb_release

-----------------------------------------------------------------------------
(* The environment: the clock and the panel.                               *)

DelayElapses ==
  /\ ~delayUp /\ delayUp' = TRUE
  /\ UNCHANGED <<sequencer, hw_reset_phase, idle, spinning, keys, scanned, display>>

IdleElapses ==
  /\ idle_timer_phase = "START" /\ ~idleUp /\ idleUp' = TRUE
  /\ UNCHANGED <<sequencer, hw_reset_phase, delayUp, idle_timer_phase, spinning,
                 keys, scanned, display>>

\* The panel ends its job; held in reset it cannot.
PanelDone ==
  /\ panel \in {"resetting", "loading", "updating"}
  /\ hw_reset_phase # "LOW"
  /\ panel' = "ready" /\ busy' = FALSE
  /\ shown' = IF panel = "updating" THEN ram ELSE shown
  /\ UNCHANGED <<sequencer, hw_reset_phase, delayUp, idle, spinning, keys,
                 scanned, ram, base>>

-----------------------------------------------------------------------------
\* keyboard_post_init_kb has called epd_task_init(img_list[0]).
Init ==
  /\ pelem_cur = NULL /\ image = NoImage
  /\ seq_next = INIT /\ image_next = 0
  /\ hw_reset_phase = "OUTSET" /\ delayUp = TRUE
  /\ idle_timer_phase = "FREE" /\ idleUp = FALSE
  /\ spinning = FALSE /\ scanned = FALSE
  /\ idx_img = 0 /\ keydown = FALSE /\ wanted = 0
  /\ panel \in {"ready", "resetting"} /\ busy = (panel = "resetting")
  /\ ram = NoImage /\ base = NoImage /\ shown = NoImage

Next == \/ epd_task
        \/ KeyEvent
        \/ DelayElapses
        \/ IdleElapses
        \/ PanelDone

\* The main loop calls epd_task for ever, the clock runs, and the panel ends
\* its jobs.  Nothing obliges anybody to press or release a key.
Fairness == /\ WF_vars(epd_task)
            /\ WF_vars(DelayElapses)
            /\ WF_vars(IdleElapses)
            /\ WF_vars(PanelDone)

Spec == Init /\ [][Next]_vars /\ Fairness

-----------------------------------------------------------------------------
(* Properties.                                                             *)

Flags ==
  /\ delayUp \in BOOLEAN /\ idleUp \in BOOLEAN /\ spinning \in BOOLEAN
  /\ keydown \in BOOLEAN /\ scanned \in BOOLEAN /\ busy \in BOOLEAN

\* The type invariant: the driver's and the panel's state is well formed.
TypeOK ==
  /\ pelem_cur \in NULL .. LAST
  /\ seq_next \in {NULL, INIT, SHOW, SLEEP}
  /\ image_next \in Images \cup {NoImage}
  /\ image \in Images \cup {NoImage}
  /\ hw_reset_phase \in Phases
  /\ idle_timer_phase \in {"FREE", "START", "EXPIRED"}
  /\ Flags
  /\ idx_img \in 0 .. COUNT_IMG_LIST - 1
  /\ wanted \in Images
  /\ panel \in {"ready", "resetting", "loading", "updating", "asleep"}
  /\ ram \in Images \cup {NoImage}
  /\ base \in Images \cup {NoImage}
  /\ shown \in Images \cup {NoImage}

\* Whenever the sequencer is about to send a command the panel is awake, so
\* that epd_send_command can never spin for ever on a sleeping panel (which
\* keeps BUSY high until reset) and no command is lost in deep sleep.
AwakeWhenCommanded ==
  pelem_cur # NULL /\ Elem \in CommandElems => panel # "asleep"

\* The RST pulse is always under way or complete when seqelem_hw_reset_wait
\* runs: its "hw reset sequence error." is never printed.
NoResetSequenceError ==
  pelem_cur # NULL /\ Elem = "hw_reset_wait" => hw_reset_phase # "OUTSET"

\* The image pointer is not NULL when an image element sends 5000 bytes from
\* it, although seq_deep_sleep is started with a NULL image and requests
\* overwrite one another.
SendsRealImage ==
  pelem_cur # NULL /\ Elem \in {"send_image", "send_image_base"}
    => image # NoImage

\* A partial refresh happens only on a panel whose base image (RAM 0x26) was
\* written by seq_init, even when keys are pressed while seq_init runs.
BaseBeforePartial ==
  pelem_cur # NULL /\ Elem = "turn_on_display_partial_async"
    => base # NoImage

\* With nothing running and nothing requested, the panel shows the image that
\* was last asked for: no request is lost to another request, to the idle
\* timer or to deep sleep.
QuiescentShowsWanted ==
  pelem_cur = NULL /\ seq_next = NULL => shown = wanted

\* The idle timer's request for deep sleep never overwrites a requested image.
SleepNeverDiscardsRequest ==
  [][seq_next' = SLEEP /\ seq_next # SLEEP => seq_next = NULL]_vars

\* A refresh that was started runs to its end: nothing resets or puts to
\* sleep a panel that is updating.
RefreshNotAborted ==
  [][panel = "updating" => panel' \in {"updating", "ready"}]_vars

\* Every image asked for is eventually shown or superseded by a later request.
ImageEventuallyShown ==
  \A img \in Images : (wanted = img) ~> (shown = img \/ wanted # img)

\* Once the keys are left alone the panel eventually sleeps for good.
EventuallySleeps ==
  <>[][~KeyEvent]_vars => <>[](panel = "asleep")
=============================================================================
