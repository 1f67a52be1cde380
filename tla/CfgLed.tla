------------------------------- MODULE CfgLed -------------------------------
(***************************************************************************)
(* LED actions: lib/config/system/cfg_led.c, over the timers of            *)
(* lib/oshal/oshal_chibi.c.                                                *)
(*                                                                         *)
(* The service thread starts an action on a LED (_cfg_sysLedAction) and a  *)
(* one-shot timer, restarted by its own callback (_cfg_sysLedSwAction),    *)
(* blinks it.  The callback runs in the timer service thread, which takes  *)
(* expired timers from a mailbox that all timers share.  Before an action  *)
(* starts, the one before it on the same LED is told to stop               *)
(* (g_u32LedEnableMap) and waited for (g_u32LedOverMap).                   *)
(***************************************************************************)
EXTENDS Integers, Sequences, FiniteSets

CONSTANTS Led,
          Action,    \* [duty, gap, rep]: time on and off (u16DutyTime and
                     \* u16PeroidTime less it, 0 or not), u8RepeatCnt
          None,
          U8,        \* modulus of uint8_t
          MailSize   \* length of g_stTmQueue, more than the number of LEDs

VARIABLES over,    \* g_u32LedOverMap
          enable,  \* g_u32LedEnableMap
          work,    \* per LED: its hs_cfg_Led_ioinfo_t, or None
          armed,   \* LEDs whose timer runs
          mail,    \* g_stTmMail
          svc,     \* the service thread in _cfg_sysLedAction
          shown,   \* history, per LED: times the action was shown
          faults   \* what goes wrong in this behaviour; never changes

vars == <<over, enable, work, armed, mail, svc, shown, faults>>

(* "race": the timer thread runs between a load and a store of the service;  *)
(* "nomem": hs_malloc fails; "full": the expiries of other timers may fill   *)
(* the mailbox, which otherwise has room for those of the LEDs.              *)
Fault == {"race", "nomem", "full"}

Others == IF "full" \in faults THEN MailSize ELSE MailSize - Cardinality(Led)

Other == "other"

Quiet == [pc |-> "idle", led |-> None, act |-> None, load |-> {}]

Init == /\ over = Led
        /\ enable = {}
        /\ work = [l \in Led |-> None]
        /\ armed = {}
        /\ mail = <<>>
        /\ svc = Quiet
        /\ shown = [l \in Led |-> 0]
        /\ faults \in SUBSET Fault

-----------------------------------------------------------------------------

(* Mutant: the action before is not waited for. *)
LedActionRuns(l, a) ==
  /\ svc = Quiet
  /\ enable' = IF l \in over THEN enable ELSE enable \ {l}
  /\ svc' = [pc |-> "load", led |-> l, act |-> a, load |-> {}]
  /\ UNCHANGED <<over, work, armed, mail, shown>>

(* _cfg_sysLedAction: an action still running is told to stop.               *)
LedAction(l, a) ==
  /\ svc = Quiet
  /\ enable' = IF l \in over THEN enable ELSE enable \ {l}
  /\ svc' = [pc |-> IF l \in over THEN "load" ELSE "wait", led |-> l, act |-> a, load |-> {}]
  /\ UNCHANGED <<over, work, armed, mail, shown>>

(* The wait for it.                                                          *)
LedWaited == /\ svc.pc = "wait"
             /\ svc.led \in over
             /\ svc' = [svc EXCEPT !.pc = "load"]
             /\ UNCHANGED <<over, enable, work, armed, mail, shown>>

(* A steady LED is done; for a blinking one, g_u32LedOverMap is loaded ...   *)
LedLoad == /\ svc.pc = "load"
           /\ svc' = IF svc.act.duty = 0 THEN Quiet
                     ELSE [svc EXCEPT !.pc = "store", !.load = over]
           /\ UNCHANGED <<over, enable, work, armed, mail, shown>>

(* ... and stored without the bit of this LED.                               *)
LedStore == /\ svc.pc = "store"
            /\ over' = (IF "race" \in faults THEN svc.load ELSE over) \ {svc.led}
            /\ svc' = [svc EXCEPT !.pc = "start"]
            /\ UNCHANGED <<enable, work, armed, mail, shown>>

(* Its memory is allocated and its timer started, or there is no memory.     *)
LedStart ==
  /\ svc.pc = "start"
  /\ svc' = Quiet
  /\ \/ /\ work' = [work EXCEPT ![svc.led] = [act |-> svc.act, cnt |-> 0]]
        /\ enable' = enable \cup {svc.led}
        /\ armed' = armed \cup {svc.led}
        /\ shown' = [shown EXCEPT ![svc.led] = 0]
     \/ "nomem" \in faults /\ UNCHANGED <<work, enable, armed, shown>>
  /\ UNCHANGED <<over, mail>>

-----------------------------------------------------------------------------

(* Mutant: the mailbox is not checked for room. *)
PostOverruns(m) == mail' = Append(mail, m)

(* chMBPostI                                                                 *)
Post(m) == mail' = IF Len(mail) < MailSize THEN Append(mail, m) ELSE mail

(* _oshal_timerCb: the result of chMBPostI is ignored.                       *)
TimerExpires(l) == /\ l \in armed
                   /\ armed' = armed \ {l}
                   /\ Post(l)
                   /\ UNCHANGED <<over, enable, work, svc, shown>>

(* Another timer of the system expires.                                      *)
OtherExpires == /\ Cardinality({n \in 1..Len(mail) : mail[n] = Other}) < Others
                /\ Post(Other)
                /\ UNCHANGED <<over, enable, work, armed, svc, shown>>

(* oshalTimerStart refuses a time of 0.                                      *)
TimerStart(l, ms) == armed' = IF ms = 0 THEN armed ELSE armed \cup {l}

(* Mutant: the action is repeated once too often. *)
EndsLate(l, cnt) ==
  l \notin enable \/ (work[l].act.rep # 0 /\ work[l].act.rep < cnt \div 2)

(* Mutant: the request to stop is not looked at. *)
EndsUnasked(l, cnt) == work[l].act.rep # 0 /\ work[l].act.rep <= cnt \div 2

(* Told to stop, or repeated as often as asked for.                          *)
Ends(l, cnt) ==
  l \notin enable \/ (work[l].act.rep # 0 /\ work[l].act.rep <= cnt \div 2)

(* Mutant: the end of the action is not recorded. *)
FinishUnmarked(l) == work' = [work EXCEPT ![l] = None] /\ UNCHANGED <<over, armed>>

(* The timer is deleted and the memory freed.                                *)
Finish(l) == /\ over' = over \cup {l}
             /\ work' = [work EXCEPT ![l] = None]
             /\ armed' = armed

(* _cfg_sysLedSwAction: off for the rest of the period at every odd count,   *)
(* the end or the next turn at every even one.  A turn is counted in shown   *)
(* until it is past the repeat count.                                        *)
SwAction(l) ==
  LET cnt  == (work[l].cnt + 1) % U8
      Goes(ms) == work' = [work EXCEPT ![l].cnt = cnt] /\ TimerStart(l, ms) /\ over' = over
  IN IF cnt % 2 = 1 THEN Goes(work[l].act.gap) /\ shown' = shown
     ELSE /\ shown' = [shown EXCEPT ![l] = IF @ > work[l].act.rep THEN @ ELSE @ + 1]
          /\ IF Ends(l, cnt) THEN Finish(l) ELSE Goes(work[l].act.duty)

(* _oshal_timerServeThd                                                      *)
TimerServe == /\ mail # <<>>
              /\ mail' = Tail(mail)
              /\ IF Head(mail) = Other THEN UNCHANGED <<over, work, armed, shown>>
                                       ELSE SwAction(Head(mail))
              /\ UNCHANGED <<enable, svc>>

Serve == LedWaited \/ LedLoad \/ LedStore \/ LedStart

Next == /\ \/ \E l \in Led, a \in Action : LedAction(l, a)
           \/ Serve
           \/ \E l \in Led : TimerExpires(l)
           \/ OtherExpires
           \/ TimerServe
        /\ faults' = faults

Spec == Init /\ [][Next]_vars

(* The threads run and time goes on.                                         *)
Fairness == /\ WF_vars(Serve /\ faults' = faults)
            /\ WF_vars(TimerServe /\ faults' = faults)
            /\ \A l \in Led : WF_vars(TimerExpires(l) /\ faults' = faults)

FairSpec == Spec /\ Fairness

-----------------------------------------------------------------------------

(* The bit maps, the LED records and the service thread keep to the values   *)
(* the code gives them; the timer mailbox never holds more than its length.  *)
TypeOK ==
  /\ over \subseteq Led /\ enable \subseteq Led /\ armed \subseteq Led
  /\ \A l \in Led : work[l] # None => work[l].act \in Action /\ work[l].cnt \in 0..(U8 - 1)
  /\ mail \in Seq(Led \cup {Other}) /\ Len(mail) <= MailSize
  /\ svc.pc \in {"idle", "wait", "load", "store", "start"}
  /\ faults \subseteq Fault

Posted(l) == \E n \in 1..Len(mail) : mail[n] = l

(* A LED that is on for its whole period: the time off is 0, which           *)
(* oshalTimerStart refuses, so that no timer ever ends the action.           *)
Stuck(l) == work[l] # None /\ work[l].act.gap = 0 /\ work[l].cnt % 2 = 1

(* If nothing goes wrong, an action that _cfg_sysLedAction would wait for    *)
(* has something that will end it: its memory, and its timer running or its  *)
(* expiry posted.  The one that has not is on for its whole period.          *)
WaitedForIsAlive ==
  faults = {} => \A l \in Led : l \notin over /\ ~(svc.pc = "start" /\ svc.led = l)
                   => work[l] # None /\ (l \in armed \/ Posted(l) \/ Stuck(l))

(* Whatever goes wrong, one timer at a time drives a LED: no action starts   *)
(* before the one before it is over, and no expiry is posted twice.          *)
OneDriver ==
  /\ svc.pc \in {"load", "store", "start"} =>
       work[svc.led] = None /\ svc.led \notin armed /\ ~Posted(svc.led)
  /\ \A l \in Led : Cardinality({n \in 1..Len(mail) : mail[n] = l})
                    + (IF l \in armed THEN 1 ELSE 0) <= 1

(* An action with a repeat count is shown no more often than that, if the    *)
(* 8-bit counter of half turns can reach the count.                          *)
RepeatHolds == \A l \in Led : work[l] # None /\ work[l].act.rep \in 1..(U8 \div 2 - 1)
                                => shown[l] < work[l].act.rep

(* If nothing goes wrong, the service thread, waiting in _cfg_sysLedAction,  *)
(* always gets on, unless the action it waits for is on for its whole period.*)
ServiceReturns == []<>(faults = {} => svc.pc # "wait" \/ Stuck(svc.led))

=============================================================================
