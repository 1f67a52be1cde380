----------------------------- MODULE AudioRecord ----------------------------
(***************************************************************************)
(* The recording stream of os/hal/src/audio.c: the DMA of i2s_lld.c fills  *)
(* a ring of frames, and one thread takes them out between                 *)
(* audioRecGetDataBuffer and audioRecGetDataDone while another one stops   *)
(* and starts the stream.  The reader looks at the state before it locks   *)
(* the mutex and uses the ring after it unlocked it; it sleeps for an      *)
(* interrupt with the mutex held.                                          *)
(*                                                                         *)
(* Frames are numbers that count up from the start of the stream.          *)
(***************************************************************************)
EXTENDS Integers, FiniteSets

CONSTANTS Boundary, Period, \* frames of the ring and of a period
          MaxReq,           \* largest request
          MaxFrame          \* bound on the frames recorded after a start

VARIABLES on,     \* state = AUDIO_RUNING
          app_ptr, hw_ptr,
          pos, buf, \* the DMA and the ring it writes
          m,      \* frames recorded since the start
          irq,    \* an interrupt of the DMA is pending
          r,      \* the reader: "idle"; "go": has seen the stream on; "armed" and
                  \* about to sleep; "sleep"; "woken"; or "has" frames
          frame,  \* frames asked for or given
          ptr,    \* where they are
          timed,  \* the reader's timer runs
          taken,  \* the last frame read since the start
          late,   \* history: the DMA has overtaken the reader
          world   \* "race": the stream is stopped between the reader's steps; "edge": the
                  \* DMA is seen at the end of the ring; or "plain".  Never changes.

vars == <<on, app_ptr, hw_ptr, pos, buf, m, irq, r, frame, ptr, timed, taken, late, world>>

Ring == 0 .. Boundary - 1

Init == /\ on = FALSE /\ app_ptr = 0 /\ hw_ptr = 0 /\ pos = 0
        /\ buf = [i \in Ring |-> 0] /\ m = 0 /\ irq = FALSE
        /\ r = "idle" /\ frame = 0 /\ ptr = 0 /\ timed = FALSE
        /\ taken = 0 /\ late = FALSE /\ world \in {"plain", "race", "edge"}

(* _audio_record_avail with the DMA at h                                     *)
Avail(h) == IF h >= app_ptr THEN h - app_ptr ELSE Boundary + h - app_ptr

HwPos == IF on THEN pos ELSE 0

Least(a, b) == IF a < b THEN a ELSE b

(* audioRecGetDataBuffer, up to the lock                                     *)
Check == /\ r = "idle" /\ on
         /\ r' = "go"
         /\ UNCHANGED <<on, app_ptr, hw_ptr, pos, buf, m, irq, frame, ptr, timed, taken, late>>

(* Mutant: a request may run over the end of the ring. *)
CutNot(f, avail) == IF f > Boundary THEN avail ELSE f

(* What a request is cut down to before the ring is looked at                *)
Cut(f, avail) == LET g == IF f > Boundary THEN avail ELSE f
                 IN IF app_ptr + g > Boundary THEN Boundary - app_ptr ELSE g

(* audioRecGetDataBuffer, from the lock to the unlock or up to the sleep     *)
Get(f, t) == LET avail == Avail(HwPos)
                 g == Cut(f, avail)
             IN /\ r = "go"
                /\ hw_ptr' = HwPos
                /\ frame' = g
                /\ r' = IF g > avail THEN "armed" ELSE "has"
                /\ timed' = (t /\ g > avail)
                /\ ptr' = app_ptr
                /\ UNCHANGED <<on, app_ptr, pos, buf, m, irq, taken, late>>

(* __audio_wait_for_interrupt: the reader goes to sleep under a lock of its  *)
(* own ...                                                                   *)
Sleep == /\ r = "armed"
         /\ r' = "sleep"
         /\ UNCHANGED <<on, app_ptr, hw_ptr, pos, buf, m, irq, frame, ptr, timed, taken, late>>

(* Mutant: what was asked for is given. *)
ResumeAll ==
  /\ r = "woken"
  /\ r' = "has" /\ timed' = FALSE
  /\ UNCHANGED <<on, app_ptr, hw_ptr, pos, buf, m, irq, frame, ptr, taken, late>>

(* ... and, woken, stops its timer and takes what there is.                  *)
Resume == /\ r = "woken"
          /\ r' = "has" /\ timed' = FALSE
          /\ frame' = Least(frame, Avail(hw_ptr))
          /\ UNCHANGED <<on, app_ptr, hw_ptr, pos, buf, m, irq, ptr, taken, late>>

(* __audio_wakeup: only a reader that already sleeps is woken.               *)
Wakeup == r' = IF r = "sleep" THEN "woken" ELSE r

(* _audio_wakeup, the timer's callback                                       *)
TimedOut == /\ timed /\ timed' = FALSE
            /\ Wakeup
            /\ UNCHANGED <<on, app_ptr, hw_ptr, pos, buf, m, irq, frame, ptr, taken, late>>

(* Mutant: what was given is taken for read without a look at its place. *)
DoneBlind ==
  /\ r = "has"
  /\ r' = "idle" /\ frame' = 0
  /\ taken' = IF on /\ frame > 0 THEN buf[ptr + frame - 1] ELSE taken
  /\ IF on /\ frame > 0
       THEN app_ptr' = app_ptr + frame
       ELSE UNCHANGED app_ptr
  /\ UNCHANGED <<on, hw_ptr, pos, buf, m, irq, ptr, timed, late>>

(* The reader uses the frames and gives them back, audioRecGetDataDone       *)
Done ==
  /\ r = "has"
  /\ r' = "idle" /\ frame' = 0
  /\ taken' = IF on /\ frame > 0 THEN buf[ptr + frame - 1] ELSE taken
  /\ IF on /\ frame > 0 /\ ptr = app_ptr
       THEN app_ptr' = (app_ptr + frame) % Boundary
       ELSE UNCHANGED app_ptr
  /\ UNCHANGED <<on, hw_ptr, pos, buf, m, irq, ptr, timed, late>>

(* The DMA records a frame, or starts the ring over.                         *)
Dma == /\ on
       /\ IF pos = Boundary
            THEN pos' = 0 /\ UNCHANGED <<buf, m, irq, late>>
            ELSE /\ m < MaxFrame
                 /\ ~(irq /\ (pos + 1) % Period = 0)
                 /\ buf' = [buf EXCEPT ![pos] = m + 1]
                 /\ m' = m + 1
                 /\ pos' = IF world = "edge" THEN pos + 1 ELSE (pos + 1) % Boundary
                 /\ irq' = (irq \/ (pos + 1) % Period = 0)
                 /\ late' = (late \/ (pos + 1) % Boundary = app_ptr)
       /\ UNCHANGED <<on, app_ptr, hw_ptr, r, frame, ptr, timed, taken>>

(* _i2s_record_buf_full                                                      *)
Isr == /\ irq /\ on
       /\ irq' = FALSE
       /\ hw_ptr' = pos
       /\ Wakeup
       /\ UNCHANGED <<on, app_ptr, pos, buf, m, frame, ptr, timed, taken, late>>

(* The mutex is free, and without races the reader is not in between.        *)
Locks == r \in (IF world = "race" THEN {"idle", "go", "has"} ELSE {"idle"})

(* audioRecordStart: hw_ptr and app_ptr are those of a new ring.             *)
Start == /\ Locks
         /\ on' = TRUE
         /\ app_ptr' = 0 /\ hw_ptr' = 0 /\ pos' = 0 /\ m' = 0 /\ taken' = 0
         /\ buf' = [i \in Ring |-> 0] /\ irq' = FALSE /\ late' = FALSE
         /\ UNCHANGED <<r, frame, ptr, timed>>

(* audioRecordStop                                                           *)
Stop == /\ Locks /\ on
        /\ on' = FALSE
        /\ irq' = FALSE
        /\ UNCHANGED <<app_ptr, hw_ptr, pos, buf, m, r, frame, ptr, timed, taken, late>>

Next == /\ \/ \E f \in 1 .. MaxReq, t \in BOOLEAN : Get(f, t)
           \/ Check \/ Sleep \/ Resume \/ TimedOut \/ Done \/ Dma \/ Isr \/ Start \/ Stop
        /\ UNCHANGED world

Spec == Init /\ [][Next]_vars

-----------------------------------------------------------------------------

(* The pointers stay in the ring.  hw_ptr may be at its end, app_ptr not.    *)
TypeOK == /\ app_ptr \in Ring /\ hw_ptr \in 0 .. Boundary /\ pos \in 0 .. Boundary
          /\ frame \in 0 .. Boundary /\ ptr \in Ring
          /\ r \in {"idle", "go", "armed", "sleep", "woken", "has"}

(* Every frame is read, in order, as long as the reader is in time.          *)
TakenInOrder ==
  (r = "has" /\ on /\ ~late /\ world = "plain") =>
    \A i \in 0 .. frame - 1 : ptr + i \in Ring /\ buf[ptr + i] = taken + 1 + i

(* A reader that sleeps, with the mutex that stopping the stream needs, has  *)
(* a DMA to wake it, even when the stream was stopped before it locked the   *)
(* mutex: it then takes the rest of the ring for recorded.  Only at the      *)
(* start of the ring it has but its timer, and when the time has run out     *)
(* before the sleep nothing.                                                 *)
SleeperWakes == r \in {"armed", "sleep"} => on \/ app_ptr = 0

=============================================================================
