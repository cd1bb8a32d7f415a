----------------------------- MODULE EpdProofs -----------------------------
(***************************************************************************)
(* Proofs about the e-paper driver, for every length of img_list.          *)
(*                                                                         *)
(* None of the safety properties of Epd is inductive.  What keeps them     *)
(* true is where in a sequence the driver stands, so the inductive         *)
(* invariant IInv says, position by position, what is known there of the   *)
(* reset phase, the panel, the idle timer and the images.                  *)
(***************************************************************************)
EXTENDS Epd, TLAPS

\* The driver stands at elements a to b of the sequence that begins at s.
InPart(s, a, b) == pelem_cur \in s + a .. s + b
InInit  == InPart(INIT, 0, 16)
InShow  == InPart(SHOW, 0, 7)
InSleep == InPart(SLEEP, 0, 4)

\* What may be requested: seq_init only at boot, deep sleep only by an expired
\* idle timer with nothing running, and an image at any time.
RequestInv ==
  /\ seq_next = INIT => /\ pelem_cur = NULL /\ ~scanned /\ panel # "asleep"
                        /\ hw_reset_phase = "OUTSET"
  /\ seq_next = SLEEP => /\ pelem_cur = NULL /\ idle_timer_phase = "EXPIRED"
                         /\ panel # "asleep"
  /\ seq_next = SHOW /\ pelem_cur # NULL => idle_timer_phase = "FREE"
  /\ seq_next # INIT \/ keydown => scanned

\* Deep sleep runs on an expired idle timer unless an image was requested since.
ExpiredInv ==
  InSleep /\ seq_next = NULL => idle_timer_phase = "EXPIRED"

\* Where the panel can be asleep, and what the driver then knows.
AsleepInv ==
  panel = "asleep" =>
    \/ /\ pelem_cur = NULL /\ hw_reset_phase = "OUTSET"
       /\ \/ seq_next = SHOW
          \/ seq_next = NULL /\ idle_timer_phase = "EXPIRED"
    \/ InPart(SLEEP, 2, 4) /\ hw_reset_phase = "OUTSET"
    \/ InPart(SHOW, 1, 1) /\ hw_reset_phase = "OUTSET"
    \/ InPart(SHOW, 2, 2) /\ hw_reset_phase = "HIGH_PRE"

\* Where the reset phase can be OUTSET.
OutsetInv ==
  hw_reset_phase = "OUTSET" =>
    \/ pelem_cur = NULL
    \/ InPart(INIT, 0, 3)
    \/ InPart(SHOW, 0, 1)
    \/ InSleep

\* BUSY is high while the panel works, low while it is ready and left open while
\* it sleeps; a refresh is under way only while the driver waits for it.
PanelInv ==
  /\ panel \in {"resetting", "loading", "updating"} => busy
  /\ panel = "updating" => InPart(INIT, 12, 12) \/ InPart(SHOW, 5, 5)
  /\ panel = "ready" => ~busy

\* The images that requests, sequences and the panel's base RAM hold.
ImageInv ==
  /\ seq_next \in {INIT, SHOW} => image_next = wanted
  /\ InInit \/ InShow => image # NoImage
  /\ \/ base # NoImage
     \/ pelem_cur = NULL /\ seq_next = INIT
     \/ InPart(INIT, 0, 10)

\* How far the image last asked for has come, unless it is still requested.
ShownInv ==
  seq_next \in {NULL, SLEEP} =>
    /\ InInit \/ InShow => image = wanted
    /\ InPart(INIT, 11, 12) \/ InPart(SHOW, 4, 5) => ram = wanted
    /\ InPart(INIT, 12, 12) \/ InPart(SHOW, 5, 5)
          => panel = "updating" \/ shown = wanted
    /\ pelem_cur = NULL \/ InSleep \/ InPart(INIT, 13, 16) \/ InPart(SHOW, 6, 7)
          => shown = wanted

IInv == /\ TypeOK
        /\ RequestInv
        /\ ExpiredInv
        /\ AsleepInv
        /\ OutsetInv
        /\ PanelInv
        /\ ImageInv
        /\ ShownInv

-----------------------------------------------------------------------------

\* The memory: which element is at which address.
LEMMA Memory ==
  ASSUME NEW p \in 1 .. LAST
  PROVE
    /\ Elements[p] = "dprint" <=> p \in {1, 16, 18, 24, 26, 29}
    /\ Elements[p] = "delay_init_async" <=> p \in {2}
    /\ Elements[p] = "delay_init_wait" <=> p \in {3}
    /\ Elements[p] = "hw_reset_async" <=> p \in {4, 19}
    /\ Elements[p] = "hw_reset_wait" <=> p \in {5, 20}
    /\ Elements[p] = "sw_reset_async" <=> p \in {6}
    /\ Elements[p] = "busy_wait" <=> p \in {7, 9, 13, 23}
    /\ Elements[p] = "init_async" <=> p \in {8}
    /\ Elements[p] = "set_lut" <=> p \in {10, 14}
    /\ Elements[p] = "send_image_base" <=> p \in {11}
    /\ Elements[p] = "turn_on_display_async" <=> p \in {12}
    /\ Elements[p] = "prepare_partial" <=> p \in {15}
    /\ Elements[p] = "END" <=> p \in {17, 25, 30}
    /\ Elements[p] = "send_image" <=> p \in {21}
    /\ Elements[p] = "turn_on_display_partial_async" <=> p \in {22}
    /\ Elements[p] = "deep_sleep_async" <=> p \in {27}
    /\ Elements[p] = "deep_sleep_wait" <=> p \in {28}
<1> USE DEF Elements, INIT, SHOW, SLEEP, LAST
<1>1. CASE p \in 1..17
  <2>1. Elements[p] = seq_init[p]
    BY <1>1
  <2> QED
    BY <2>1, <1>1 DEF seq_init
<1>2. CASE p \in 18..25
  <2>1. Elements[p] = seq_show_image_partial[p - 17] /\ p - 17 \in 1..8
    BY <1>2
  <2> QED
    BY <2>1, <1>2 DEF seq_show_image_partial
<1>3. CASE p \in 26..30
  <2>1. Elements[p] = seq_deep_sleep[p - 25] /\ p - 25 \in 1..5
    BY <1>3
  <2> QED
    BY <2>1, <1>3 DEF seq_deep_sleep
<1> QED
  BY <1>1, <1>2, <1>3

\* The element a call of the sequencer runs is one of the table.
LEMMA CurInMemory ==
  ASSUME TypeOK, pelem_cur # NULL \/ Loads
  PROVE  Cur \in 1 .. LAST
BY DEF TypeOK, Loads, Cur, NULL, INIT, SHOW, SLEEP, LAST

\* Every step keeps the flags Boolean.
LEMMA FlagsStep == Flags /\ [Next]_vars => Flags'
<1> SUFFICES ASSUME Flags, [Next]_vars PROVE Flags'
  OBVIOUS
<1> USE DEF Flags, idle, keys, display
<1>1. CASE epd_send_command_spin
  BY <1>1, Zenon DEF epd_send_command_spin
<1>2. CASE seqelem_dprint
  BY <1>2, Zenon DEF seqelem_dprint
<1>3. CASE seqelem_delay_init_async
  BY <1>3, Zenon DEF seqelem_delay_init_async
<1>4. CASE seqelem_delay_wait("delay_init_wait")
  BY <1>4, Zenon DEF seqelem_delay_wait
<1>5. CASE seqelem_hw_reset_async
  BY <1>5, Zenon DEF seqelem_hw_reset_async
<1>6. CASE hw_reset_wait_skip
  BY <1>6, Zenon DEF hw_reset_wait_skip
<1>7. CASE hw_reset_wait_delay
  BY <1>7, Zenon DEF hw_reset_wait_delay
<1>8. CASE hw_reset_wait_low
  BY <1>8, Zenon DEF hw_reset_wait_low
<1>9. CASE hw_reset_wait_high
  BY <1>9, Zenon DEF hw_reset_wait_high
<1>10. CASE hw_reset_wait_compl
  BY <1>10, Zenon DEF hw_reset_wait_compl
<1>11. CASE seqelem_busy_wait
  BY <1>11, Zenon DEF seqelem_busy_wait
<1>12. CASE seqelem_sw_reset_async
  BY <1>12, Zenon DEF seqelem_sw_reset_async, StartJob, SendCommand
<1>13. CASE seqelem_init_async
  BY <1>13, Zenon DEF seqelem_init_async, StartJob, SendCommand
<1>14. CASE SetRegisters("set_lut")
  BY <1>14, Zenon DEF SetRegisters, SendCommand
<1>15. CASE SetRegisters("prepare_partial")
  BY <1>15, Zenon DEF SetRegisters, SendCommand
<1>16. CASE seqelem_send_image_base
  BY <1>16, Zenon DEF seqelem_send_image_base, SendCommand
<1>17. CASE seqelem_send_image
  BY <1>17, Zenon DEF seqelem_send_image, SendCommand
<1>18. CASE seqelem_turn_on_display_async
  BY <1>18, Zenon DEF seqelem_turn_on_display_async, StartJob, SendCommand
<1>19. CASE seqelem_turn_on_display_partial_async
  BY <1>19, Zenon DEF seqelem_turn_on_display_partial_async, StartJob, SendCommand
<1>20. CASE seqelem_deep_sleep_async
  BY <1>20, Zenon DEF seqelem_deep_sleep_async, SendCommand
<1>21. CASE seqelem_delay_wait("deep_sleep_wait")
  BY <1>21, Zenon DEF seqelem_delay_wait
<1>22. CASE EngineIdle
  BY <1>22, Zenon DEF EngineIdle, IdleCheck, idle_skip, idle_start, idle_expire
<1>23. CASE EngineEnd
  BY <1>23, Zenon DEF EngineEnd, IdleCheck, idle_skip, idle_start, idle_expire
<1>24. CASE process_record_kb_press
  BY <1>24, Zenon DEF process_record_kb_press
<1>25. CASE process_record_kb_release
  BY <1>25, Zenon DEF process_record_kb_release
<1>26. CASE DelayElapses
  BY <1>26, Zenon DEF DelayElapses
<1>27. CASE IdleElapses
  BY <1>27, Zenon DEF IdleElapses
<1>28. CASE PanelDone
  BY <1>28, Zenon DEF PanelDone
<1>29. CASE UNCHANGED vars
  BY <1>29, ZenonT(60) DEF vars
<1> QED
  BY <1>1, <1>2, <1>3, <1>4, <1>5, <1>6, <1>7, <1>8, <1>9, <1>10, <1>11, <1>12, <1>13, <1>14, <1>15, <1>16, <1>17, <1>18, <1>19, <1>20, <1>21, <1>22, <1>23, <1>24, <1>25, <1>26, <1>27, <1>28, <1>29
     DEF Next, epd_task, KeyEvent, seqelem_hw_reset_wait

\* Every step of the driver, the keys, the clock and the panel keeps IInv.
LEMMA IInvStep == IInv /\ [Next]_vars => IInv'
<1> SUFFICES ASSUME IInv, [Next]_vars PROVE IInv'
  OBVIOUS
<1> USE CountAssumption
    DEF IInv, TypeOK, RequestInv, ExpiredInv, AsleepInv, OutsetInv, PanelInv,
        ImageInv, ShownInv, InPart, InInit, InShow, InSleep, NULL, INIT, SHOW,
        SLEEP, LAST, NoImage, Images, Phases, sequencer, idle, keys, display
<1>0. Flags'
  BY FlagsStep
<1>1. CASE epd_send_command_spin
  <2>1. (pelem_cur # NULL \/ Loads) /\ Cur \in 1 .. LAST
    BY <1>1, CurInMemory DEF epd_send_command_spin, At
  <2> QED
    BY <1>0, <1>1, <2>1, Memory DEF epd_send_command_spin, At, Return, Cur, Elem, Loads, LoadSeq, CommandElems
<1>2. CASE seqelem_dprint
  <2>1. (pelem_cur # NULL \/ Loads) /\ Cur \in 1 .. LAST
    BY <1>2, CurInMemory DEF seqelem_dprint, At
  <2>2. Cur \in {1, 16, 18, 24, 26, 29}
    BY <1>2, <2>1, Memory DEF seqelem_dprint, At, Elem
  <2>3. CASE Loads
    <3>1. /\ pelem_cur = NULL /\ seq_next \in {INIT, SHOW, SLEEP}
          /\ pelem_cur' = seq_next + 1 /\ seq_next' = NULL
          /\ image' = image_next /\ image_next' = NoImage
          /\ scanned'
          /\ UNCHANGED <<hw_reset_phase, delayUp, idle, spinning, keys, display>>
      BY <1>2, <2>3 DEF seqelem_dprint, At, Return, Cur, Loads, LoadSeq
    <3>2. CASE seq_next = INIT
      BY <1>0, <3>1, <3>2
    <3>3. CASE seq_next = SHOW
      BY <1>0, <3>1, <3>3
    <3>4. CASE seq_next = SLEEP
      BY <1>0, <3>1, <3>4
    <3> QED
      BY <3>1, <3>2, <3>3, <3>4
  <2>4. CASE ~Loads
    BY <1>0, <1>2, <2>2, <2>4 DEF seqelem_dprint, At, Return, Cur, LoadSeq
  <2> QED
    BY <2>3, <2>4
<1>3. CASE seqelem_delay_init_async
  <2>1. (pelem_cur # NULL \/ Loads) /\ Cur \in 1 .. LAST
    BY <1>3, CurInMemory DEF seqelem_delay_init_async, At
  <2> QED
    BY <1>0, <1>3, <2>1, Memory DEF seqelem_delay_init_async, At, Return, Cur, Elem, Loads, LoadSeq, CommandElems
<1>4. CASE seqelem_delay_wait("delay_init_wait")
  <2>1. (pelem_cur # NULL \/ Loads) /\ Cur \in 1 .. LAST
    BY <1>4, CurInMemory DEF seqelem_delay_wait, At
  <2> QED
    BY <1>0, <1>4, <2>1, Memory DEF seqelem_delay_wait, At, Return, Cur, Elem, Loads, LoadSeq, CommandElems
<1>5. CASE seqelem_hw_reset_async
  <2>1. (pelem_cur # NULL \/ Loads) /\ Cur \in 1 .. LAST
    BY <1>5, CurInMemory DEF seqelem_hw_reset_async, hw_reset_skipped, At
  <2> QED
    BY <1>0, <1>5, <2>1, Memory DEF seqelem_hw_reset_async, hw_reset_skipped, At, Return, Cur, Elem, Loads, LoadSeq, CommandElems
<1>6. CASE hw_reset_wait_skip
  <2>1. (pelem_cur # NULL \/ Loads) /\ Cur \in 1 .. LAST
    BY <1>6, CurInMemory DEF hw_reset_wait_skip, At
  <2> QED
    BY <1>0, <1>6, <2>1, Memory DEF hw_reset_wait_skip, At, Return, Cur, Elem, Loads, LoadSeq, CommandElems
<1>7. CASE hw_reset_wait_delay
  <2>1. (pelem_cur # NULL \/ Loads) /\ Cur \in 1 .. LAST
    BY <1>7, CurInMemory DEF hw_reset_wait_delay, At
  <2> QED
    BY <1>0, <1>7, <2>1, Memory DEF hw_reset_wait_delay, At, Return, Cur, Elem, Loads, LoadSeq, CommandElems
<1>8. CASE hw_reset_wait_low
  <2>1. (pelem_cur # NULL \/ Loads) /\ Cur \in 1 .. LAST
    BY <1>8, CurInMemory DEF hw_reset_wait_low, At
  <2> QED
    BY <1>0, <1>8, <2>1, Memory DEF hw_reset_wait_low, At, Return, Cur, Elem, Loads, LoadSeq, CommandElems
<1>9. CASE hw_reset_wait_high
  <2>1. (pelem_cur # NULL \/ Loads) /\ Cur \in 1 .. LAST
    BY <1>9, CurInMemory DEF hw_reset_wait_high, At
  <2> QED
    BY <1>0, <1>9, <2>1, Memory DEF hw_reset_wait_high, At, Return, Cur, Elem, Loads, LoadSeq, CommandElems
<1>10. CASE hw_reset_wait_compl
  <2>1. (pelem_cur # NULL \/ Loads) /\ Cur \in 1 .. LAST
    BY <1>10, CurInMemory DEF hw_reset_wait_compl, At
  <2> QED
    BY <1>0, <1>10, <2>1, Memory DEF hw_reset_wait_compl, At, Return, Cur, Elem, Loads, LoadSeq, CommandElems
<1>11. CASE seqelem_busy_wait
  <2>1. (pelem_cur # NULL \/ Loads) /\ Cur \in 1 .. LAST
    BY <1>11, CurInMemory DEF seqelem_busy_wait, At
  <2> QED
    BY <1>0, <1>11, <2>1, Memory DEF seqelem_busy_wait, At, Return, Cur, Elem, Loads, LoadSeq, CommandElems
<1>12. CASE seqelem_sw_reset_async
  <2>1. (pelem_cur # NULL \/ Loads) /\ Cur \in 1 .. LAST
    BY <1>12, CurInMemory DEF seqelem_sw_reset_async, StartJob, SendCommand, At
  <2> QED
    BY <1>0, <1>12, <2>1, Memory DEF seqelem_sw_reset_async, StartJob, SendCommand, At, Return, Cur, Elem, Loads, LoadSeq, CommandElems
<1>13. CASE seqelem_init_async
  <2>1. (pelem_cur # NULL \/ Loads) /\ Cur \in 1 .. LAST
    BY <1>13, CurInMemory DEF seqelem_init_async, StartJob, SendCommand, At
  <2> QED
    BY <1>0, <1>13, <2>1, Memory DEF seqelem_init_async, StartJob, SendCommand, At, Return, Cur, Elem, Loads, LoadSeq, CommandElems
<1>14. CASE SetRegisters("set_lut")
  <2>1. (pelem_cur # NULL \/ Loads) /\ Cur \in 1 .. LAST
    BY <1>14, CurInMemory DEF SetRegisters, SendCommand, At
  <2> QED
    BY <1>0, <1>14, <2>1, Memory DEF SetRegisters, SendCommand, At, Return, Cur, Elem, Loads, LoadSeq, CommandElems
<1>15. CASE SetRegisters("prepare_partial")
  <2>1. (pelem_cur # NULL \/ Loads) /\ Cur \in 1 .. LAST
    BY <1>15, CurInMemory DEF SetRegisters, SendCommand, At
  <2> QED
    BY <1>0, <1>15, <2>1, Memory DEF SetRegisters, SendCommand, At, Return, Cur, Elem, Loads, LoadSeq, CommandElems
<1>16. CASE seqelem_send_image_base
  <2>1. (pelem_cur # NULL \/ Loads) /\ Cur \in 1 .. LAST
    BY <1>16, CurInMemory DEF seqelem_send_image_base, SendCommand, At
  <2> QED
    BY <1>0, <1>16, <2>1, Memory DEF seqelem_send_image_base, SendCommand, At, Return, Cur, Elem, Loads, LoadSeq, CommandElems
<1>17. CASE seqelem_send_image
  <2>1. (pelem_cur # NULL \/ Loads) /\ Cur \in 1 .. LAST
    BY <1>17, CurInMemory DEF seqelem_send_image, SendCommand, At
  <2> QED
    BY <1>0, <1>17, <2>1, Memory DEF seqelem_send_image, SendCommand, At, Return, Cur, Elem, Loads, LoadSeq, CommandElems
<1>18. CASE seqelem_turn_on_display_async
  <2>1. (pelem_cur # NULL \/ Loads) /\ Cur \in 1 .. LAST
    BY <1>18, CurInMemory DEF seqelem_turn_on_display_async, StartJob, SendCommand, At
  <2> QED
    BY <1>0, <1>18, <2>1, Memory DEF seqelem_turn_on_display_async, StartJob, SendCommand, At, Return, Cur, Elem, Loads, LoadSeq, CommandElems
<1>19. CASE seqelem_turn_on_display_partial_async
  <2>1. (pelem_cur # NULL \/ Loads) /\ Cur \in 1 .. LAST
    BY <1>19, CurInMemory DEF seqelem_turn_on_display_partial_async, StartJob, SendCommand, At
  <2> QED
    BY <1>0, <1>19, <2>1, Memory DEF seqelem_turn_on_display_partial_async, StartJob, SendCommand, At, Return, Cur, Elem, Loads, LoadSeq, CommandElems
<1>20. CASE seqelem_deep_sleep_async
  <2>1. (pelem_cur # NULL \/ Loads) /\ Cur \in 1 .. LAST
    BY <1>20, CurInMemory DEF seqelem_deep_sleep_async, deep_sleep_phase, SendCommand, At
  <2> QED
    BY <1>0, <1>20, <2>1, Memory DEF seqelem_deep_sleep_async, deep_sleep_phase, SendCommand, At, Return, Cur, Elem, Loads, LoadSeq, CommandElems
<1>21. CASE seqelem_delay_wait("deep_sleep_wait")
  <2>1. (pelem_cur # NULL \/ Loads) /\ Cur \in 1 .. LAST
    BY <1>21, CurInMemory DEF seqelem_delay_wait, At
  <2> QED
    BY <1>0, <1>21, <2>1, Memory DEF seqelem_delay_wait, At, Return, Cur, Elem, Loads, LoadSeq, CommandElems
<1>22. CASE EngineIdle
  BY <1>0, <1>22, Memory DEF EngineIdle, IdleCheck, idle_skip, idle_start, idle_expire, cseq_start
<1>23. CASE EngineEnd
  BY <1>0, <1>23, Memory DEF EngineEnd, IdleCheck, idle_skip, idle_start, idle_expire, cseq_start, Cur, Elem, Loads
<1>24. CASE process_record_kb_press
  BY <1>0, <1>24, Memory DEF process_record_kb_press, epd_display_image_partial, cseq_start, SelectMode
<1>25. CASE process_record_kb_release
  <2>1. NextImage \in 0 .. COUNT_IMG_LIST - 1
    BY DEF NextImage
  <2>2. NextImage \in Images /\ NextImage # NoImage
    BY <2>1
  <2>3. /\ idx_img' = NextImage /\ wanted' = NextImage /\ image_next' = NextImage
        /\ seq_next' = SHOW /\ idle_timer_phase' = "FREE"
        /\ UNCHANGED <<pelem_cur, image, hw_reset_phase, delayUp, idleUp, spinning,
                       scanned, display>>
    BY <1>25 DEF process_record_kb_release, epd_display_image_partial, cseq_start
  <2>4. scanned
    BY <1>25 DEF process_record_kb_release
  <2> HIDE DEF Images
  <2> QED
    BY <1>0, <2>1, <2>2, <2>3, <2>4
<1>26. CASE DelayElapses
  BY <1>0, <1>26, Memory DEF DelayElapses
<1>27. CASE IdleElapses
  BY <1>0, <1>27, Memory DEF IdleElapses
<1>28. CASE PanelDone
  BY <1>0, <1>28, Memory DEF PanelDone
<1>29. CASE UNCHANGED vars
  BY <1>0, <1>29 DEF vars
<1> QED
  BY <1>1, <1>2, <1>3, <1>4, <1>5, <1>6, <1>7, <1>8, <1>9, <1>10, <1>11, <1>12, <1>13, <1>14, <1>15, <1>16, <1>17, <1>18, <1>19, <1>20, <1>21, <1>22, <1>23, <1>24, <1>25, <1>26, <1>27, <1>28, <1>29
     DEF Next, epd_task, KeyEvent, seqelem_hw_reset_wait

LEMMA IInvInit == Init => IInv
<1> SUFFICES ASSUME Init PROVE IInv
  OBVIOUS
<1>1. Flags
  BY Zenon DEF Init, Flags
<1>2. TypeOK
  BY <1>1, CountAssumption
     DEF Init, TypeOK, NULL, INIT, SHOW, SLEEP, LAST, NoImage, Images, Phases
<1>3. PanelInv
  <2>1. CASE panel = "ready"
    BY <2>1 DEF Init, PanelInv
  <2>2. CASE panel = "resetting"
    BY <2>2 DEF Init, PanelInv
  <2> QED
    BY <2>1, <2>2 DEF Init
<1> QED
  BY <1>2, <1>3
     DEF Init, IInv, RequestInv, ExpiredInv, AsleepInv, OutsetInv, ImageInv, ShownInv, InPart, InInit, InShow, InSleep, NULL, INIT, SHOW,
         SLEEP, LAST, NoImage

\* The inductive invariant holds in every reachable state.
THEOREM Invariance == Spec => []IInv
BY IInvInit, IInvStep, PTL DEF Spec

\* The driver's and the panel's state is always well formed; in particular
\* idx_img never leaves img_list and pelem_cur never runs past an END element.
THEOREM TypeCorrect == Spec => []TypeOK
<1>1. IInv => TypeOK
  BY DEF IInv
<1> QED
  BY <1>1, Invariance, PTL

\* No command is ever sent to a sleeping panel (epd_send_command cannot spin for
\* ever there), whatever level BUSY has in deep sleep.
THEOREM CommandsReachAwakePanel == Spec => []AwakeWhenCommanded
<1>1. IInv => AwakeWhenCommanded
  <2> SUFFICES ASSUME IInv, pelem_cur # NULL, Elem \in CommandElems, panel = "asleep"
               PROVE  FALSE
    BY DEF AwakeWhenCommanded
  <2>1. Cur = pelem_cur /\ pelem_cur \in 1 .. LAST
    BY DEF IInv, TypeOK, Cur, Loads, NULL, LAST
  <2>2. pelem_cur \in 28 .. 30 \cup 19 .. 20
    BY DEF IInv, AsleepInv, InPart, SHOW, SLEEP, NULL
  <2> QED
    BY <2>1, <2>2, Memory DEF Elem, CommandElems, LAST
<1> QED
  BY <1>1, Invariance, PTL

\* seqelem_hw_reset_wait never meets HW_RESET_PHASE_OUTSET.
THEOREM ResetSequenceSound == Spec => []NoResetSequenceError
<1>1. IInv => NoResetSequenceError
  <2> SUFFICES ASSUME IInv, pelem_cur # NULL, Elem = "hw_reset_wait",
                      hw_reset_phase = "OUTSET"
               PROVE  FALSE
    BY DEF NoResetSequenceError
  <2>1. Cur = pelem_cur /\ pelem_cur \in 1 .. LAST
    BY DEF IInv, TypeOK, Cur, Loads, NULL, LAST
  <2>2. pelem_cur \in 1 .. 4 \cup 18 .. 19 \cup 26 .. 30
    BY DEF IInv, OutsetInv, InPart, InSleep, INIT, SHOW, SLEEP, NULL
  <2> QED
    BY <2>1, <2>2, Memory DEF Elem, LAST
<1> QED
  BY <1>1, Invariance, PTL

\* With nothing running and nothing requested the panel shows the image that was
\* last asked for.
THEOREM NoImageLost == Spec => []QuiescentShowsWanted
<1>1. IInv => QuiescentShowsWanted
  BY DEF IInv, ShownInv, QuiescentShowsWanted
<1> QED
  BY <1>1, Invariance, PTL

\* A partial refresh happens only on a panel whose base image was written.
THEOREM PartialNeedsBase == Spec => []BaseBeforePartial
<1>1. IInv => BaseBeforePartial
  <2> SUFFICES ASSUME IInv, pelem_cur # NULL,
                      Elem = "turn_on_display_partial_async"
               PROVE  base # NoImage
    BY DEF BaseBeforePartial
  <2>1. Cur = pelem_cur /\ pelem_cur \in 1 .. LAST
    BY DEF IInv, TypeOK, Cur, Loads, NULL, LAST
  <2>2. pelem_cur = 22
    BY <2>1, Memory DEF Elem, LAST
  <2> QED
    BY <2>2 DEF IInv, ImageInv, InPart, INIT, NULL
<1> QED
  BY <1>1, Invariance, PTL

\* The idle timer's deep-sleep request never overwrites a requested image.
THEOREM RequestsSurviveIdleTimer == Spec => SleepNeverDiscardsRequest
<1>1. IInv /\ [Next]_vars
        => [seq_next' = SLEEP /\ seq_next # SLEEP => seq_next = NULL]_vars
  <2> SUFFICES ASSUME IInv, Next, seq_next' = SLEEP, seq_next # SLEEP
               PROVE  seq_next = NULL
    BY DEF vars, sequencer
  <2>1. CASE EngineIdle
    BY <2>1 DEF EngineIdle
  <2>2. CASE EngineEnd
    BY <2>2 DEF EngineEnd, IdleCheck, idle_skip, idle_start, idle_expire, IInv,
                TypeOK, RequestInv
  <2>3. CASE KeyEvent
    BY <2>3 DEF KeyEvent, process_record_kb_press, process_record_kb_release,
                epd_display_image_partial, cseq_start, SHOW, SLEEP
  <2>4. CASE DelayElapses \/ IdleElapses \/ PanelDone
    BY <2>4 DEF DelayElapses, IdleElapses, PanelDone, sequencer
  <2>5. ASSUME LoadSeq PROVE FALSE
    BY <2>5 DEF LoadSeq, Loads, NULL, SLEEP
  <2> QED
    BY <2>1, <2>2, <2>3, <2>4, <2>5
    DEF Next, epd_task, epd_send_command_spin, seqelem_dprint,
        seqelem_delay_init_async, seqelem_delay_wait, seqelem_hw_reset_async,
        seqelem_hw_reset_wait, hw_reset_wait_skip, hw_reset_wait_delay,
        hw_reset_wait_low, hw_reset_wait_high, hw_reset_wait_compl,
        seqelem_busy_wait, seqelem_sw_reset_async, seqelem_init_async, StartJob,
        SetRegisters, seqelem_send_image_base, seqelem_send_image,
        seqelem_turn_on_display_async, seqelem_turn_on_display_partial_async,
        seqelem_deep_sleep_async, At
<1> QED
  BY <1>1, Invariance, PTL DEF Spec, SleepNeverDiscardsRequest

\* No sequence sends from a NULL image, although seq_deep_sleep is started with one
\* and requests overwrite one another.
THEOREM ImagesAreReal == Spec => []SendsRealImage
<1>1. IInv => SendsRealImage
  <2> SUFFICES ASSUME IInv, pelem_cur # NULL,
                      Elem \in {"send_image", "send_image_base"}
               PROVE  image # NoImage
    BY DEF SendsRealImage
  <2>1. Cur = pelem_cur /\ pelem_cur \in 1 .. LAST
    BY DEF IInv, TypeOK, Cur, Loads, NULL, LAST
  <2>2. pelem_cur \in {11, 21}
    BY <2>1, Memory DEF Elem, LAST
  <2> QED
    BY <2>2 DEF IInv, ImageInv, InInit, InShow, InPart, INIT, SHOW
<1> QED
  BY <1>1, Invariance, PTL

\* A refresh that was started runs to its end: while the panel updates, the driver
\* stands at a busy_wait, and only the panel itself moves on.
THEOREM RefreshesComplete == Spec => RefreshNotAborted
<1>1. IInv /\ [Next]_vars => [panel = "updating" => panel' \in {"updating", "ready"}]_vars
  <2> SUFFICES ASSUME IInv, Next, panel = "updating"
               PROVE  panel' \in {"updating", "ready"}
    BY DEF vars, display
  <2>1. pelem_cur \in {13, 23}
    BY DEF IInv, PanelInv, InPart, INIT, SHOW
  <2>2. Cur = pelem_cur
    BY <2>1 DEF Cur, Loads, NULL
  <2>3. Elem = "busy_wait"
    BY <2>1, <2>2, Memory DEF Elem, LAST
  <2>4. ASSUME NEW e, At(e) PROVE e = "busy_wait"
    BY <2>3, <2>4 DEF At
  <2>5. CASE epd_task
    <3>1. EngineIdle \/ EngineEnd \/ epd_send_command_spin \/ seqelem_busy_wait
      BY <2>4, <2>5
      DEF epd_task, seqelem_dprint, seqelem_delay_init_async, seqelem_delay_wait,
          seqelem_hw_reset_async, seqelem_hw_reset_wait, hw_reset_wait_skip,
          hw_reset_wait_delay, hw_reset_wait_low, hw_reset_wait_high,
          hw_reset_wait_compl, seqelem_sw_reset_async, seqelem_init_async, StartJob,
          SetRegisters, seqelem_send_image_base, seqelem_send_image,
          seqelem_turn_on_display_async, seqelem_turn_on_display_partial_async,
          seqelem_deep_sleep_async
    <3> QED
      BY <3>1 DEF EngineIdle, EngineEnd, epd_send_command_spin, seqelem_busy_wait, display
  <2>6. CASE KeyEvent
    BY <2>6 DEF KeyEvent, process_record_kb_press, process_record_kb_release, display
  <2>7. CASE DelayElapses \/ IdleElapses \/ PanelDone
    BY <2>7 DEF DelayElapses, IdleElapses, PanelDone, display
  <2> QED
    BY <2>5, <2>6, <2>7 DEF Next
<1> QED
  BY <1>1, Invariance, PTL DEF Spec, RefreshNotAborted
=============================================================================
