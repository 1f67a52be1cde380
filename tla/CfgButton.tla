----------------------------- MODULE CfgButton -----------------------------
(***************************************************************************)
(* Button recognition: lib/config/system/cfg_button.c.                     *)
(*                                                                         *)
(* The edge of a press interrupts (hs_cfg_sysBnPressed), clears            *)
(* g_stBnInfo and starts a periodic timer.  Its callback (_cfg_sysBnTimer) *)
(* runs in the timer service thread: the timer interrupt posts into the    *)
(* thread's mailbox, so expiries may be pending when the timer is stopped. *)
(* Each run of the callback samples the keys, counts, and calls            *)
(* _cfg_sysBnSendEvent.                                                    *)
(*                                                                         *)
(* The callback is one step, except that its last two statements, the      *)
(* clearing of u8Pd and the stop of the timer, are steps of their own: as  *)
(* long as u8Pd is set an interrupt changes nothing.                       *)
(***************************************************************************)
EXTENDS Integers, FiniteSets, Sequences, SequencesExt

CONSTANTS Key,
          Attr,        \* g_stBnAttr: the times and the debounce number
          U16,         \* modulus of uint16_t
          MaxHold      \* bound: ticks after which held keys are let go

VARIABLES level,    \* keys held down
          info,     \* g_stBnInfo
          armed,    \* g_pstBnTimer is running
          pending,  \* its expiries in the mailbox
          pc,       \* timer service thread: "idle", or at the end of the callback
          evts,     \* the calls of _cfg_sysBnSendEvent of the last step
          seen,     \* history: what these calls have told about the press so far
          world     \* what may happen in this behaviour; never changes

vars == <<level, info, armed, pending, pc, evts, seen, world>>

(* "adc": the keys are on the ADC, bits of 0xff000000 in u32BitMap; "isr": a *)
(* press may interrupt the end of the callback; "late": the timer thread may *)
(* lag one expiry behind.                                                    *)
World == {"adc", "isr", "late"}

AdcKeys == "adc" \in world

(* Bound: timer expiries posted and not yet handled.                         *)
Backlog == IF "late" \in world THEN 2 ELSE 1

Event == {"REPEAT", "VERYLONG_PRESS", "LONG_PRESS", "PRESS_DOWN", "PRESS_RELEASE",
          "COMBINATION_KEY", "DOUBLE_CLICK", "SINGLE_CLICK"}

Zero == [cnt |-> 0, invalid |-> 0, last |-> 0, multi |-> 0, valid |-> 0, map |-> {},
         num |-> 0, sample |-> FALSE, pd |-> FALSE, vlong |-> FALSE, long |-> FALSE]

Again == 129  \* u8MultiClickCnt 0x81: pressed again after a first click

Time(n) == (n * Attr.DebounceTime) % U16

(* What _cfg_sysBnGetPressed counts; all ADC keys together count once.       *)
Count(keys) == IF AdcKeys /\ keys # {} THEN 1 ELSE Cardinality(keys)

If(b, e) == IF b THEN <<e>> ELSE <<>>

-----------------------------------------------------------------------------

(* The counters of a tick with a key down.  u8ValidCnt is only read before   *)
(* the press is accepted, and stays as it is afterwards.                     *)
Counted(i, keys) ==
  LET c == [i EXCEPT !.cnt = (@ + 1) % U16, !.invalid = 0,
                     !.valid = IF i.num = 0 THEN (@ + 1) % 256 ELSE @,
                     !.multi = IF @ = 1 THEN Again ELSE @]
  IN IF c.sample /\ ~AdcKeys
       THEN [c EXCEPT !.map = @ \cup keys,
                      !.num = IF Count(keys) > @ THEN Count(keys) ELSE @]
       ELSE c

(* Mutant: the keys of an accepted press are not recorded. *)
PressedNoMap(i, keys) ==
  LET c == Counted(i, keys)
  IN [info |-> IF c.cnt > Attr.DebounceNumber THEN [c EXCEPT !.sample = TRUE, !.num = 1] ELSE c,
      evts |-> <<>>, over |-> FALSE]

(* The branch of _cfg_sysBnTimer for a tick with a key down.                 *)
Pressed(i, keys) ==
  LET c     == Counted(i, keys)
      t     == Time(c.cnt)
      ident == c.multi = 0 /\ c.sample
      rep   == ident /\ t - c.last > Attr.Repeat
      vlong == ident /\ ~c.vlong /\ t >= Attr.VeryLong
      long  == ident /\ ~c.long /\ t >= Attr.Long
      d     == [c EXCEPT !.last = IF rep THEN t ELSE @,
                         !.vlong = @ \/ vlong, !.long = @ \/ long]
      es    == If(rep, "REPEAT") \o If(vlong, "VERYLONG_PRESS") \o If(long, "LONG_PRESS")
  IN IF d.cnt <= Attr.DebounceNumber \/ d.num # 0
       THEN [info |-> d, evts |-> es, over |-> FALSE]
     ELSE IF d.valid > (d.cnt * 7) \div 10
       THEN [info |-> [d EXCEPT !.sample = TRUE, !.num = Count(keys), !.map = keys],
             evts |-> Append(es, "PRESS_DOWN"), over |-> FALSE]
     ELSE [info |-> Zero, evts |-> es, over |-> TRUE]

(* Mutant: the length of the press is not looked at. *)
OverEventsShort(i) ==
  IF i.num # 1 THEN <<"PRESS_RELEASE", "COMBINATION_KEY">>
  ELSE IF i.multi = Again THEN <<"PRESS_RELEASE", "DOUBLE_CLICK">>
  ELSE IF Time(i.invalid) > Attr.SingleRepeat THEN <<"PRESS_RELEASE", "SINGLE_CLICK">>
  ELSE <<>>

(* The calls that end a press, if the press is over.                         *)
OverEvents(i) ==
  IF i.num # 1 THEN <<"PRESS_RELEASE", "COMBINATION_KEY">>
  ELSE IF Time(i.cnt) >= Attr.VeryLong \/ Time(i.cnt) >= Attr.Long THEN <<"PRESS_RELEASE">>
  ELSE IF i.multi = Again THEN <<"PRESS_RELEASE", "DOUBLE_CLICK">>
  ELSE IF Time(i.invalid) > Attr.SingleRepeat THEN <<"PRESS_RELEASE", "SINGLE_CLICK">>
  ELSE <<>>

(* Mutant: ticks without a key are not counted. *)
ReleasedUncounted(i) == [info |-> i, evts |-> <<>>, over |-> FALSE]

(* The branch of _cfg_sysBnTimer for a tick without a key down.              *)
Released(i) ==
  LET c     == [i EXCEPT !.cnt = (@ + 1) % U16, !.invalid = (@ + 1) % U16]
      up    == c.num > 0 /\ c.invalid >= Attr.DebounceNumber
      d     == [c EXCEPT !.multi = IF up /\ Time(c.invalid) > Attr.DoubleClick THEN 1 ELSE @]
      noise == d.cnt > Attr.DebounceNumber /\ d.num = 0 /\ d.valid < (d.cnt * 8) \div 10
  IN IF up /\ OverEvents(c) # <<>> THEN [info |-> c, evts |-> OverEvents(c), over |-> TRUE]
     ELSE IF noise THEN [info |-> Zero, evts |-> <<>>, over |-> TRUE]
     ELSE [info |-> d, evts |-> <<>>, over |-> FALSE]

-----------------------------------------------------------------------------

(* History: what the calls tell of the press.                                *)
Seen(s, e) ==
  IF e = "PRESS_DOWN" THEN [open |-> TRUE, long |-> FALSE]
  ELSE IF e = "PRESS_RELEASE" THEN [s EXCEPT !.open = FALSE]
  ELSE IF e = "LONG_PRESS" THEN [s EXCEPT !.long = TRUE]
  ELSE s

SeenAfter(s, es) == FoldLeft(Seen, s, es)

Send(es) == evts' = es /\ seen' = SeenAfter(seen, es)

Init == /\ level = {}
        /\ info = Zero
        /\ armed = FALSE
        /\ pending = 0
        /\ pc = "idle"
        /\ evts = <<>>
        /\ seen = [open |-> FALSE, long |-> FALSE]
        /\ world \in SUBSET World

(* Mutant: the timer is stopped after it was started. *)
BnPressedStops == IF info.pd THEN UNCHANGED <<info, armed>>
                  ELSE /\ info' = [Zero EXCEPT !.last = Attr.Long, !.pd = TRUE]
                       /\ armed' = FALSE

(* hs_cfg_sysBnPressed                                                       *)
BnPressed == IF info.pd THEN UNCHANGED <<info, armed>>
             ELSE /\ info' = [Zero EXCEPT !.last = Attr.Long, !.pd = TRUE]
                  /\ armed' = TRUE

(* A key goes down; its edge interrupts.                                     *)
KeyDown(k) == /\ k \notin level
              /\ "isr" \in world \/ pc = "idle"
              /\ level' = level \cup {k}
              /\ BnPressed
              /\ Send(<<>>)
              /\ UNCHANGED <<pending, pc>>

KeyUp(k) == /\ k \in level
            /\ level' = level \ {k}
            /\ Send(<<>>)
            /\ UNCHANGED <<info, armed, pending, pc>>

(* _oshal_timerCb of the periodic timer                                      *)
TimerExpires == /\ armed
                /\ pending + (IF pc = "idle" THEN 0 ELSE 1) < Backlog
                /\ pending' = pending + 1
                /\ Send(<<>>)
                /\ UNCHANGED <<level, info, armed, pc>>

(* _cfg_sysBnTimer, up to the clearing of u8Pd if the press is over          *)
BnTimer ==
  LET r == IF level # {} THEN Pressed(info, level) ELSE Released(info)
  IN /\ pc = "idle" /\ pending > 0
     /\ level = {} \/ info.cnt < MaxHold
     /\ pending' = pending - 1
     /\ info' = IF r.over THEN [r.info EXCEPT !.pd = FALSE] ELSE r.info
     /\ pc' = IF r.over THEN "stop" ELSE "idle"
     /\ Send(r.evts)
     /\ UNCHANGED <<level, armed>>

(* Mutant: the timer goes on. *)
BnTimerOverRuns == /\ pc = "stop"
                   /\ pc' = "idle"
                   /\ Send(<<>>)
                   /\ UNCHANGED <<level, info, armed, pending>>

(* The oshalTimerStop at the end of it                                       *)
BnTimerOver == /\ pc = "stop"
               /\ pc' = "idle"
               /\ armed' = FALSE
               /\ Send(<<>>)
               /\ UNCHANGED <<level, info, pending>>

Next == /\ \/ \E k \in Key : KeyDown(k) \/ KeyUp(k)
           \/ TimerExpires
           \/ BnTimer
           \/ BnTimerOver
        /\ world' = world

Spec == Init /\ [][Next]_vars

(* The timer interrupt and the timer service thread, which has the highest   *)
(* priority, run.                                                            *)
Fairness == /\ WF_vars(TimerExpires /\ world' = world)
            /\ WF_vars((BnTimer \/ BnTimerOver) /\ world' = world)

FairSpec == Spec /\ Fairness

-----------------------------------------------------------------------------

(* The press data, the timer and the keys keep to the values the code gives  *)
(* them; the mailbox never holds more expiries than its length.              *)
TypeOK ==
  /\ level \subseteq Key
  /\ info.cnt \in 0..(U16 - 1) /\ info.invalid \in 0..(U16 - 1) /\ info.last \in 0..(U16 - 1)
  /\ info.multi \in {0, 1, Again}
  /\ info.valid \in 0..255
  /\ info.map \subseteq Key
  /\ (info.num = 0) <=> (info.map = {})
  /\ {info.sample, info.pd, info.vlong, info.long} \subseteq BOOLEAN
  /\ armed \in BOOLEAN
  /\ pending \in 0..Backlog
  /\ pc \in {"idle", "stop"}
  /\ evts \in Seq(Event)
  /\ seen \in [open : BOOLEAN, long : BOOLEAN]

(* The calls of _cfg_sysBnSendEvent form brackets: a press is announced once *)
(* (PRESS_DOWN), long presses and repeats come only inside, it is released   *)
(* once, and a click or combination comes only with the release.  An expiry  *)
(* that is still in the mailbox when the timer is stopped breaks this.       *)
Bracketed ==
  [][\A n \in 1..Len(evts') :
       "late" \notin world =>
       LET open == SeenAfter(seen, SubSeq(evts', 1, n - 1)).open
       IN IF evts'[n] = "PRESS_DOWN" THEN ~open
          ELSE IF evts'[n] \in {"COMBINATION_KEY", "DOUBLE_CLICK", "SINGLE_CLICK"}
            THEN n > 1 /\ evts'[n - 1] = "PRESS_RELEASE"
          ELSE open]_vars

(* A press that was reported as a long press (u16LongPressTime) is not       *)
(* reported as a click when it ends, even if the timer thread lags (and the  *)
(* key is let go before the 16-bit time wraps, at MaxHold).                  *)
LongIsNoClick ==
  [][\A n \in 1..Len(evts') :
       evts'[n] \in {"DOUBLE_CLICK", "SINGLE_CLICK"} =>
         ~SeenAfter(seen, SubSeq(evts', 1, n - 1)).long]_vars

(* While u8Pd makes hs_cfg_sysBnPressed ignore presses, the timer that will  *)
(* clear it is running: the buttons never go dead, unless a press interrupts *)
(* the callback between the clearing of u8Pd and the stop of the timer.      *)
PressHasTimer == "isr" \notin world /\ info.pd /\ pc = "idle" => armed

(* Once all keys stay up, an announced press is released.                    *)
ReleaseComes == []<>(seen.open => level # {})

=============================================================================
