------------------------------ MODULE AudioPlay -----------------------------
(***************************************************************************)
(* The playing stream of os/hal/src/audio.c: a ring of frames that one     *)
(* thread fills between audioPlyGetDataBuffer and audioPlySendDataDone,    *)
(* with the stream's mutex held, and that the DMA of i2s_lld.c plays,      *)
(* raising an interrupt after every period.  The handler moves hw_ptr up   *)
(* to the DMA and silences what was played, so that nothing is heard twice *)
(* when the writer comes late; a writer that finds the ring full sleeps,   *)
(* with the mutex, until the next interrupt or its time-out.               *)
(*                                                                         *)
(* Frames are numbers that count up; 0 is silence.                         *)
(***************************************************************************)
EXTENDS Integers, FiniteSets

CONSTANTS Boundary,  \* frames of the ring
          Period,    \* frames of a period
          Threshold, \* start_threshold
          MaxReq,    \* largest request without a time-out
          Repair,    \* REPAIR_POINT_NUM
          MaxFrame   \* bound on the frames written

VARIABLES state,  \* "READY", "PREPARE" or "RUNING"
          app_ptr, hw_ptr,
          pos,    \* where the DMA reads
          buf,    \* the ring
          irq,    \* an interrupt of the DMA is pending
          w,      \* the writer: "idle"; "armed" and about to sleep; "sleep"; "woken";
                  \* "has" frames; or has "copied" them
          frame,  \* frames asked for or given
          timed,  \* the writer's timer runs
          early,  \* history: it ran out before the writer slept
          n,      \* the last frame written
          heard,  \* the frames played, or dropped by a stop
          late,   \* history: the DMA passed what was written
          slow    \* may the DMA overtake the writer?  Never changes.

vars == <<state, app_ptr, hw_ptr, pos, buf, irq, w, frame, timed, early, n, heard, late, slow>>

Ring == 0 .. Boundary - 1

Init == /\ state = "READY" /\ app_ptr = 0 /\ hw_ptr = 0 /\ pos = 0
        /\ buf = [i \in Ring |-> 0] /\ irq = FALSE
        /\ w = "idle" /\ frame = 0 /\ timed = FALSE /\ early = FALSE
        /\ n = 0 /\ heard = {}
        /\ late = FALSE /\ slow \in BOOLEAN

-----------------------------------------------------------------------------

(* _audio_play_avail and _audio_play_inavail with the pointers at a and h    *)
Avail(a, h) == IF a >= h THEN a - h ELSE Boundary + a - h

(* Mutant: the ring may be filled to the last frame. *)
InavailFull(a, h) == Boundary - Avail(a, h)

Inavail(a, h) == Boundary - Avail(a, h) - 1

(* Mutant: what was played stays in the ring. *)
KeepSilenceNot(b, new) == b

(* _audio_keep_silence: the frames from hw_ptr to new are silenced.          *)
KeepSilence(b, new) ==
  [i \in Ring |-> IF \/ new > hw_ptr /\ hw_ptr <= i /\ i < new
                     \/ new < hw_ptr /\ (hw_ptr <= i \/ i < new)
                  THEN 0 ELSE b[i]]

(* What audio_update_hw_ptr reads                                            *)
HwPos == IF state = "RUNING" THEN pos ELSE 0

Least(a, b) == IF a < b THEN a ELSE b

(* What a request is cut down to before the ring is looked at                *)
Cut(f, inavail) == LET g == IF f > Boundary THEN inavail ELSE f
                   IN IF app_ptr + g > Boundary THEN Boundary - app_ptr ELSE g

(* audioPlyGetDataBuffer, up to the sleep: the timer is set before the ring  *)
(* is looked at.  The mutex is kept, even when nothing is given.             *)
Get(f, t) ==
  LET inavail == Inavail(app_ptr, HwPos)
      g == Cut(f, inavail)
  IN /\ w = "idle"
     /\ f <= MaxReq \/ t
     /\ n + f < MaxFrame
     /\ IF state = "READY"
          THEN w' = "has" /\ frame' = 0 /\ UNCHANGED <<hw_ptr, buf, timed, early>>
          ELSE /\ hw_ptr' = HwPos
               /\ buf' = KeepSilence(buf, HwPos)
               /\ frame' = g
               /\ w' = IF g > inavail THEN "armed" ELSE "has"
               /\ timed' = (t /\ g > inavail)
               /\ early' = FALSE
     /\ UNCHANGED <<state, app_ptr, pos, irq, n, heard, late>>

(* __audio_wait_for_interrupt: the writer goes to sleep under a lock of its  *)
(* own ...                                                                   *)
Sleep == /\ w = "armed"
         /\ w' = "sleep"
         /\ UNCHANGED <<state, app_ptr, hw_ptr, pos, buf, irq, frame, timed, early, n, heard, late>>

(* ... and, woken, stops its timer and takes what there is room for.         *)
Resume == /\ w = "woken"
          /\ w' = "has" /\ timed' = FALSE
          /\ frame' = Least(frame, Inavail(app_ptr, hw_ptr))
          /\ UNCHANGED <<state, app_ptr, hw_ptr, pos, buf, irq, early, n, heard, late>>

(* __audio_wakeup: only a writer that already sleeps is woken.               *)
Wakeup == w' = IF w = "sleep" THEN "woken" ELSE w

(* _audio_wakeup, the timer's callback                                       *)
TimedOut == /\ timed /\ timed' = FALSE
            /\ early' = (early \/ w = "armed")
            /\ Wakeup
            /\ UNCHANGED <<state, app_ptr, hw_ptr, pos, buf, irq, frame, n, heard, late>>

(* audioPlyCpyData                                                           *)
Copy == /\ w = "has"
        /\ w' = "copied"
        /\ buf' = [i \in Ring |-> IF app_ptr <= i /\ i < app_ptr + frame
                                  THEN n + 1 + i - app_ptr ELSE buf[i]]
        /\ n' = n + frame
        /\ UNCHANGED <<state, app_ptr, hw_ptr, pos, irq, frame, timed, early, heard, late>>

(* Mutant: off by one at the end of the ring. *)
WrapLate(a) == IF a > Boundary THEN a % Boundary ELSE a

Wrap(a) == IF a >= Boundary THEN a % Boundary ELSE a

(* audioPlySendDataDone: the pointer moves, the DMA is started at the        *)
(* threshold, and a ring that runs low is stretched by one frame             *)
(* (_audio_rp_swIncreasePoint; the frames before it are only smoothed).      *)
Done ==
  LET a == app_ptr + frame
      app == Wrap(a)
      b == KeepSilence(buf, HwPos)
      low == Avail(app, HwPos) < Boundary \div 3 /\ app >= Repair /\ app < Boundary - 1
  IN /\ w = "copied"
     /\ w' = "idle" /\ frame' = 0
     /\ IF state = "READY" \/ frame = 0 THEN UNCHANGED <<state, app_ptr, hw_ptr, buf, n>>
        ELSE /\ state' = IF a >= Threshold THEN "RUNING" ELSE state
             /\ hw_ptr' = HwPos
             /\ app_ptr' = IF low THEN app + 1 ELSE app
             /\ buf' = IF low THEN [b EXCEPT ![app] = n + 1] ELSE b
             /\ n' = IF low THEN n + 1 ELSE n
     /\ UNCHANGED <<pos, irq, timed, early, heard, late>>

(* The DMA plays a frame, or starts the ring over; at the end of a period it *)
(* raises its interrupt, which is served within the next one.                *)
Dma == /\ state = "RUNING"
       /\ IF pos = Boundary
            THEN pos' = 0 /\ UNCHANGED <<heard, irq, late>>
            ELSE /\ ~(irq /\ (pos + 1) % Period = 0)
                 /\ late' = (late \/ pos = app_ptr)
                 /\ slow \/ ~late'
                 /\ pos' = pos + 1
                 /\ heard' = (heard \cup {buf[pos]}) \ {0}
                 /\ irq' = (irq \/ (pos + 1) % Period = 0)
       /\ UNCHANGED <<state, app_ptr, hw_ptr, buf, w, frame, timed, early, n>>

(* Mutant: the sleeping writer is not woken. *)
IsrSleeps ==
       /\ irq /\ state = "RUNING"
       /\ irq' = FALSE
       /\ hw_ptr' = pos
       /\ buf' = KeepSilence(buf, pos)
       /\ UNCHANGED <<state, app_ptr, pos, n, heard, late, w, frame, timed, early>>

(* _i2s_play_buf_empty                                                       *)
Isr == /\ irq /\ state = "RUNING"
       /\ irq' = FALSE
       /\ hw_ptr' = pos
       /\ buf' = KeepSilence(buf, pos)
       /\ Wakeup
       /\ UNCHANGED <<state, app_ptr, pos, frame, timed, early, n, heard, late>>

(* audioPlayStart and audioPlayStop of any thread, with the mutex            *)
Start == /\ state = "READY" /\ w = "idle"
         /\ state' = "PREPARE"
         /\ app_ptr' = 0 /\ hw_ptr' = 0 /\ pos' = 0 /\ irq' = FALSE
         /\ buf' = [i \in Ring |-> 0]
         /\ heard' = 1 .. n
         /\ late' = FALSE
         /\ UNCHANGED <<w, frame, timed, early, n>>

Stop == /\ state # "READY" /\ w = "idle"
        /\ state' = "READY"
        /\ app_ptr' = 0 /\ hw_ptr' = 0 /\ pos' = 0 /\ irq' = FALSE
        /\ UNCHANGED <<buf, w, frame, timed, early, n, heard, late>>

Next == /\ \/ \E f \in 1 .. Boundary + 1, t \in BOOLEAN : Get(f, t)
           \/ Sleep \/ Resume \/ TimedOut \/ Copy \/ Done \/ Dma \/ Isr \/ Start \/ Stop
        /\ UNCHANGED slow

(* The DMA runs on its own and interrupts and timers are served.             *)
Fairness == /\ WF_vars(Dma /\ UNCHANGED slow) /\ WF_vars(Isr /\ UNCHANGED slow)
            /\ WF_vars(TimedOut /\ UNCHANGED slow)

Spec == Init /\ [][Next]_vars /\ Fairness

-----------------------------------------------------------------------------

(* The pointers stay in the ring.  hw_ptr may be at its end, app_ptr not.    *)
TypeOK == /\ app_ptr \in Ring /\ hw_ptr \in 0 .. Boundary /\ pos \in 0 .. Boundary
          /\ state \in {"READY", "PREPARE", "RUNING"}
          /\ frame \in 0 .. Boundary
          /\ buf \in [Ring -> 0 .. MaxFrame]

(* A writer that sleeps, with the mutex that every other user of the stream  *)
(* needs, is woken, if the DMA does not stop where the writer is (slow).  It *)
(* sleeps for good only before the DMA was started, when its time ran out    *)
(* between chVTSet and the sleep: _audio_wakeup then found nobody to wake.   *)
SleeperWakes == []<>(slow => w # "sleep" \/ (state = "PREPARE" /\ early))

(* Every frame is played, in order, as long as the writer is in time. *)
AllHeard == ~late => heard = 1 .. Cardinality(heard)

(* No frame is played twice, even when the writer comes late. *)
NothingTwice ==
  [][pos' = pos + 1 /\ buf[pos] # 0 => buf[pos] \notin heard]_vars

=============================================================================
