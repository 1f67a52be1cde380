------------------------------ MODULE ChEvents ------------------------------
(***************************************************************************)
(* Event flags: os/rt/src/chevents.c, and the signals of the CMSIS layer   *)
(* (osSignalSet, osSignalClear, osSignalWait), which are the same masks.   *)
(*                                                                         *)
(* A thread has a set of pending events and may wait for one, any or all   *)
(* of a set.  Threads and interrupts signal it directly, or broadcast on a *)
(* source, whose listeners collect the flags of the broadcast and are      *)
(* signalled when they want one of them.  A woken thread runs later and    *)
(* takes its events only then.                                             *)
(***************************************************************************)
EXTENDS Integers, FiniteSets

CONSTANTS Thread,
          Event,   \* 0..n: bit numbers of an event mask
          Source,  \* the event a listener is registered with (el_events)
          Flag     \* flags of the event source

VARIABLES epending, \* p_epending
          st,       \* "run"; asleep in "wtor" or "wtand"; "ready"; "late" (timed out)
          op,       \* what the thread waits for: kind, mask, and is there a time-out?
          el,       \* per thread: its listener, registered or not, flags and wflags
          told,     \* the thread was given Source and has not read the flags since
          foreign   \* may osSignalClear be called for another thread?  Never changes.

vars == <<epending, st, op, el, told, foreign>>

Kind == {"one", "any", "all"}

NoOp == [kind |-> "any", mask |-> {}, timed |-> FALSE]

Init == /\ epending = [t \in Thread |-> {}]
        /\ st = [t \in Thread |-> "run"]
        /\ op = [t \in Thread |-> NoOp]
        /\ el = [t \in Thread |-> [on |-> FALSE, flags |-> {}, wflags |-> {}]]
        /\ told = [t \in Thread |-> FALSE]
        /\ foreign \in BOOLEAN

Lowest(m) == {e \in m : \A f \in m : e <= f}

-----------------------------------------------------------------------------

(* What a wait takes from pending events p when it returns: chEvtWaitOne     *)
(* takes the lowest, chEvtWaitAny those it waits for, and chEvtWaitAll takes *)
(* and returns its mask.                                                     *)
Taken(o, p) == CASE o.kind = "one" -> Lowest(p \cap o.mask)
                 [] o.kind = "any" -> p \cap o.mask
                 [] o.kind = "all" -> o.mask

Satisfied(o, p) == IF o.kind = "all" THEN o.mask \subseteq p ELSE p \cap o.mask # {}

Return(t, o) == /\ epending' = [epending EXCEPT ![t] = @ \ Taken(o, @)]
                /\ told' = [told EXCEPT ![t] = @ \/ Source \in Taken(o, epending[t])]
                /\ st' = [st EXCEPT ![t] = "run"]
                /\ op' = [op EXCEPT ![t] = NoOp]

(* chEvtWaitOne, chEvtWaitAny, chEvtWaitAll and their variants with a        *)
(* time-out; osSignalWait.  A listener reads its flags before it waits again *)
(* for the event it is registered with.                                      *)
Wait(t, o) ==
  /\ st[t] = "run"
  /\ told[t] => Source \notin o.mask
  /\ IF Satisfied(o, epending[t])
       THEN Return(t, o)
       ELSE /\ st' = [st EXCEPT ![t] = IF o.kind = "all" THEN "wtand" ELSE "wtor"]
            /\ op' = [op EXCEPT ![t] = o]
            /\ UNCHANGED <<epending, told>>
  /\ UNCHANGED el

(* A woken thread runs.                                                      *)
Resume(t) == st[t] = "ready" /\ Return(t, op[t]) /\ UNCHANGED el

(* wakeup of chschd.c: the time of a wait runs out ...                       *)
TimedOut(t) == /\ st[t] \in {"wtor", "wtand"} /\ op[t].timed
               /\ st' = [st EXCEPT ![t] = "late"]
               /\ UNCHANGED <<epending, op, el, told>>

(* ... and the thread returns 0 and takes nothing.                           *)
ResumeLate(t) == /\ st[t] = "late"
                 /\ st' = [st EXCEPT ![t] = "run"]
                 /\ op' = [op EXCEPT ![t] = NoOp]
                 /\ UNCHANGED <<epending, el, told>>

(* Mutant: only the new events are compared with the mask. *)
SignalAllNew(T, ev) ==
  /\ epending' = [t \in Thread |-> IF t \in T THEN epending[t] \cup ev[t] ELSE epending[t]]
  /\ st' = [t \in Thread |->
              IF t \in T /\ st[t] \in {"wtor", "wtand"} /\ Satisfied(op[t], ev[t])
                THEN "ready" ELSE st[t]]

(* Mutant: a thread that waits for all is woken by the first. *)
SignalAllAny(T, ev) ==
  /\ epending' = [t \in Thread |-> IF t \in T THEN epending[t] \cup ev[t] ELSE epending[t]]
  /\ st' = [t \in Thread |->
              IF t \in T /\ st[t] \in {"wtor", "wtand"} /\ epending'[t] \cap op[t].mask # {}
                THEN "ready" ELSE st[t]]

(* chEvtSignalI for each thread t in T, with the events ev[t]                *)
SignalAll(T, ev) ==
  /\ epending' = [t \in Thread |-> IF t \in T THEN epending[t] \cup ev[t] ELSE epending[t]]
  /\ st' = [t \in Thread |->
              IF t \in T /\ st[t] \in {"wtor", "wtand"} /\ Satisfied(op[t], epending'[t])
                THEN "ready" ELSE st[t]]

(* chEvtSignal, osSignalSet                                                  *)
Signal(t, m) == SignalAll({t}, [u \in {t} |-> m]) /\ UNCHANGED <<op, el, told>>

(* Mutant: the listener is tested before it has the new flags. *)
BroadcastBefore(fl) ==
  LET on == {t \in Thread : el[t].on}
  IN /\ el' = [t \in Thread |-> IF t \in on THEN [el[t] EXCEPT !.flags = @ \cup fl] ELSE el[t]]
     /\ SignalAll({t \in on : fl = {} \/ el[t].flags \cap el[t].wflags # {}},
                  [t \in Thread |-> {Source}])
     /\ UNCHANGED <<op, told>>

(* chEvtBroadcastFlagsI: a listener that has not read a flag it wants is     *)
(* signalled again, whatever the flags are this time.                        *)
Broadcast(fl) ==
  LET on == {t \in Thread : el[t].on}
  IN /\ el' = [t \in Thread |-> IF t \in on THEN [el[t] EXCEPT !.flags = @ \cup fl] ELSE el[t]]
     /\ SignalAll({t \in on : fl = {} \/ el'[t].flags \cap el[t].wflags # {}},
                  [t \in Thread |-> {Source}])
     /\ UNCHANGED <<op, told>>

(* chEvtRegisterMaskWithFlags, with a listener that is not registered        *)
Register(t, w) == /\ st[t] = "run" /\ ~el[t].on
                  /\ el' = [el EXCEPT ![t] = [on |-> TRUE, flags |-> {}, wflags |-> w]]
                  /\ UNCHANGED <<epending, st, op, told>>

(* chEvtUnregister                                                           *)
Unregister(t) == /\ st[t] = "run" /\ el[t].on
                 /\ el' = [el EXCEPT ![t].on = FALSE, ![t].flags = {}]
                 /\ told' = [told EXCEPT ![t] = FALSE]
                 /\ UNCHANGED <<epending, st, op>>

(* chEvtGetAndClearFlags, by the listener                                    *)
GetAndClearFlags(t) == /\ st[t] = "run" /\ el[t].on
                       /\ el' = [el EXCEPT ![t].flags = {}]
                       /\ told' = [told EXCEPT ![t] = FALSE]
                       /\ UNCHANGED <<epending, st, op>>

(* chEvtGetAndClearEvents and osSignalClear by the thread itself             *)
ClearOwn(t, m) == /\ st[t] = "run"
                  /\ epending' = [epending EXCEPT ![t] = @ \ m]
                  /\ told' = [told EXCEPT ![t] = @ \/ Source \in epending[t] \cap m]
                  /\ UNCHANGED <<st, op, el>>

(* osSignalClear for another thread, which may be waiting                    *)
ClearOther(t, m) == /\ foreign
                    /\ epending' = [epending EXCEPT ![t] = @ \ m]
                    /\ UNCHANGED <<st, op, el, told>>

(* chEvtAddEvents                                                            *)
AddEvents(t, m) == /\ st[t] = "run"
                   /\ epending' = [epending EXCEPT ![t] = @ \cup m]
                   /\ UNCHANGED <<st, op, el, told>>

Mask == SUBSET Event \ {{}}

Next == /\ \/ \E t \in Thread :
                \/ Resume(t) \/ TimedOut(t) \/ ResumeLate(t)
                \/ Unregister(t) \/ GetAndClearFlags(t)
                \/ \E w \in SUBSET Flag \ {{}} : Register(t, w)
                \/ \E m \in Mask : \/ Signal(t, m) \/ ClearOwn(t, m) \/ ClearOther(t, m)
                                   \/ AddEvents(t, m)
                                   \/ \E k \in Kind, b \in BOOLEAN :
                                        Wait(t, [kind |-> k, mask |-> m, timed |-> b])
           \/ \E fl \in SUBSET Flag : Broadcast(fl)
        /\ UNCHANGED foreign

Spec == Init /\ [][Next]_vars

-----------------------------------------------------------------------------

(* Masks, wait states and listeners are what the code can hold.              *)
TypeOK == /\ epending \in [Thread -> SUBSET Event]
          /\ st \in [Thread -> {"run", "wtor", "wtand", "ready", "late"}]
          /\ op \in [Thread -> [kind : Kind, mask : SUBSET Event, timed : BOOLEAN]]
          /\ el \in [Thread -> [on : BOOLEAN, flags : SUBSET Flag, wflags : SUBSET Flag]]
          /\ told \in [Thread -> BOOLEAN]

(* No thread sleeps while the events it waits for are pending, in whatever   *)
(* order they were signalled, broadcast and cleared.                         *)
NoSleepThrough == \A t \in Thread : st[t] \in {"wtor", "wtand"} => ~Satisfied(op[t], epending[t])

(* A thread that was woken finds its events when it runs: a wait without a   *)
(* time-out does not return 0, and a wait for all returns nothing that is    *)
(* not pending.  It takes osSignalClear by another thread to break this.     *)
WokenFindsEvents == \A t \in Thread : (st[t] = "ready" /\ ~foreign) => Satisfied(op[t], epending[t])

(* A listener that reads its flags after each event misses none: it never    *)
(* waits for its event while a flag that it wants is unread.                 *)
NoFlagMissed ==
  \A t \in Thread :
    (el[t].on /\ el[t].flags \cap el[t].wflags # {} /\ ~foreign)
       => (Source \in epending[t] \/ told[t])

=============================================================================
