----------------------------- MODULE MCTimed --------------------------------
(***************************************************************************)
(* Timers and what they drive, side by side: the buttons, the LEDs, and    *)
(* the timers below them.  They have no variable in common: part says      *)
(* which one runs.                                                         *)
(***************************************************************************)
EXTENDS Integers, Sequences

CONSTANTS None, MailSize,
          Key, U16, MaxHold,
          Led, U8,
          Tm, TmMailSize

VARIABLES part,
          level, info, armed, pending, pc, evts, seen, keys,
          over, enable, work, ledArmed, mail, svc, shown, faults,
          mem, once, tmArmed, tmMail, run, acted, halted, slow

bnVars == <<level, info, armed, pending, pc, evts, seen, keys>>

ledVars == <<over, enable, work, ledArmed, mail, svc, shown, faults>>

tmVars == <<mem, once, tmArmed, tmMail, run, acted, halted, slow>>

(* The defaults of g_stBnAttr scaled down to ticks of 3 ms: a click ends     *)
(* after 4 ticks, a long press takes 10 and a very long one 14.              *)
MCAttr == [DebounceTime |-> 3, DebounceNumber |-> 2, Long |-> 30, VeryLong |-> 42,
           Repeat |-> 8, DoubleClick |-> 5, SingleRepeat |-> 11]

(* Steady; endless; as often as the 8-bit counter, here of six values, can   *)
(* tell; on for its whole period.                                            *)
MCActions == {[duty |-> 0, gap |-> 0, rep |-> 0], [duty |-> 1, gap |-> 1, rep |-> 0],
              [duty |-> 1, gap |-> 1, rep |-> 2], [duty |-> 1, gap |-> 0, rep |-> 2]}

BN == INSTANCE CfgButton WITH Attr <- MCAttr, world <- keys

LD == INSTANCE CfgLed WITH Action <- MCActions, armed <- ledArmed

TM == INSTANCE OshalTimer WITH MailSize <- TmMailSize, armed <- tmArmed, mail <- tmMail

Init ==
  /\ part \in {"button", "led", "timer"}
  /\ BN!Init /\ (part # "button" => keys = {})
  /\ LD!Init /\ (part # "led" => faults = {})
  /\ TM!Init /\ (part # "timer" => slow = FALSE)

Next ==
  \/ part = "button" /\ BN!Next /\ UNCHANGED <<part, ledVars, tmVars>>
  \/ part = "led" /\ LD!Next /\ UNCHANGED <<part, bnVars, tmVars>>
  \/ part = "timer" /\ TM!Next /\ UNCHANGED <<part, bnVars, ledVars>>

vars == <<part, bnVars, ledVars, tmVars>>

partVars == CASE part = "button" -> bnVars
              [] part = "led" -> ledVars
              [] part = "timer" -> tmVars

(* What never changes *)
rigid == <<part, keys, faults, slow>>

(* The fairness of the part that runs, from its module; as part never        *)
(* changes, that of a disjunction is that of the part's disjunct.            *)
Fairness ==
  /\ WF_partVars(/\ \/ part = "button" /\ BN!TimerExpires
                    \/ part = "led" /\ LD!Serve
                    \/ part = "timer" /\ TM!Serve
                 /\ UNCHANGED rigid)
  /\ WF_partVars(/\ \/ part = "button" /\ (BN!BnTimer \/ BN!BnTimerOver)
                    \/ part = "led" /\ LD!TimerServe
                    \/ part = "timer" /\ TM!Return
                 /\ UNCHANGED rigid)
  /\ \A l \in Led : WF_partVars(part = "led" /\ LD!TimerExpires(l) /\ UNCHANGED rigid)

Spec == Init /\ [][Next]_vars /\ Fairness

-----------------------------------------------------------------------------

(* The type invariants of the three modules: queues and mailboxes keep to     *)
(* their length, counters to their width.                                    *)
TypeOK == CASE part = "button" -> BN!TypeOK
            [] part = "led" -> LD!TypeOK
            [] part = "timer" -> TM!TypeOK

(* While presses are ignored, the timer that ends this is running.           *)
PressHasTimer == part = "button" => BN!PressHasTimer

(* Calls of _cfg_sysBnSendEvent are bracketed by PRESS_DOWN and RELEASE, and *)
(* a press reported as long is not reported as a click.                      *)
WellBracketed == BN!Bracketed /\ BN!LongIsNoClick

(* One timer at a time drives a LED; an action is shown no more often than   *)
(* its repeat count; one that _cfg_sysLedAction waits for has something to   *)
(* end it, unless it is on for its whole period.                             *)
LedsSound == part = "led" => LD!OneDriver /\ LD!RepeatHolds /\ LD!WaitedForIsAlive

(* _oshal_timerServeThd uses no timer that was deleted and calls none that   *)
(* was stopped, if no callback sleeps.                                       *)
PendingIsLive == part = "timer" => TM!PendingIsLive

(* What waits for timers gets on: once all keys stay up an announced press   *)
(* is released, the service thread leaves _cfg_sysLedAction unless it waits  *)
(* for a LED on for its whole period, and an expiry that was posted to the   *)
(* timer thread is served.                                                   *)
TimersServe == BN!ReleaseComes /\ LD!ServiceReturns /\ TM!PostedIsServed

=============================================================================
