-------------------------------- MODULE ChVt --------------------------------
(***************************************************************************)
(* Virtual timers: os/rt/src/chvt.c and os/rt/include/chvt.h, in tick mode *)
(* (CH_CFG_ST_TIMEDELTA is 0).                                             *)
(*                                                                         *)
(* Armed timers are in a list, each with the number of ticks between the   *)
(* timer before it and itself.  The tick interrupt decrements the first    *)
(* and fires the timers at the front that have no ticks left; it releases  *)
(* the system lock around every callback, and the callback, a thread or    *)
(* another interrupt handler may arm and disarm timers then.               *)
(***************************************************************************)
EXTENDS Integers, Sequences, FiniteSets, FiniteSetsExt

CONSTANTS Timer,
          TimeRange  \* the number of values of systime_t

VARIABLES list,    \* ch.vtlist: the armed timers and their vt_delta
          systime, \* vt_systime
          phase    \* of the tick: "out", with the system "locked", in a "callback"

vars == <<list, systime, phase>>

Time == 0..(TimeRange - 1)

MaxTime == TimeRange - 1  \* (systime_t)-1, the vt_delta of the list header

(* _vt_init                                                                  *)
Init == list = <<>> /\ systime = 0 /\ phase = "out"

-----------------------------------------------------------------------------

Armed(l, t) == \E k \in 1..Len(l) : l[k].t = t

(* Mutant: the ticks of a timer that is disarmed are not passed on. *)
DoResetDrops(l, t) == SelectSeq(l, LAMBDA e : e.t # t)

(* chVTDoResetI on the list l: the delta goes to the next timer.  The delta  *)
(* of the header is restored when the timer is the last.                     *)
DoReset(l, t) ==
  LET i == CHOOSE k \in 1..Len(l) : l[k].t = t
  IN [k \in 1..(Len(l) - 1) |->
        IF k < i THEN l[k]
        ELSE IF k = i THEN [l[k + 1] EXCEPT !.delta = (@ + l[i].delta) % TimeRange]
        ELSE l[k + 1]]

(* chVTDoSetI on the list l: the list is scanned for the place of the timer, *)
(* and the scan stops at the header at the latest.                           *)
DoSet(l, t, delay) ==
  LET rest[i \in 1..(Len(l) + 1)] ==
        IF i = 1 THEN delay ELSE (rest[i - 1] - l[i - 1].delta) % TimeRange
      i == Min({k \in 1..(Len(l) + 1) : k <= Len(l) => ~(l[k].delta < rest[k])})
  IN [k \in 1..(Len(l) + 1) |->
        IF k < i THEN l[k]
        ELSE IF k = i THEN [t |-> t, delta |-> rest[i]]
        ELSE IF k = i + 1 THEN [l[i] EXCEPT !.delta = (@ - rest[i]) % TimeRange]
        ELSE l[k - 1]]

(* chVTSet: a timer that is armed is disarmed first.                         *)
VTSet(t, delay) ==
  /\ phase # "locked"
  /\ list' = DoSet(IF Armed(list, t) THEN DoReset(list, t) ELSE list, t, delay)
  /\ UNCHANGED <<systime, phase>>

(* chVTReset                                                                 *)
VTReset(t) ==
  /\ phase # "locked" /\ Armed(list, t)
  /\ list' = DoReset(list, t)
  /\ UNCHANGED <<systime, phase>>

(* chVTDoTickI, up to its loop                                               *)
Tick ==
  /\ phase = "out" /\ phase' = "locked"
  /\ systime' = (systime + 1) % TimeRange
  /\ list' = IF list = <<>> THEN list ELSE [list EXCEPT ![1].delta = (@ - 1) % TimeRange]

Due == list # <<>> /\ list[1].delta = 0

(* One round of its loop: the callback is called with the system unlocked.   *)
Fire ==
  /\ phase = "locked" /\ Due
  /\ list' = Tail(list)
  /\ phase' = "callback"
  /\ systime' = systime

Return ==
  /\ phase = "callback" /\ phase' = "locked"
  /\ UNCHANGED <<list, systime>>

TickEnd ==
  /\ phase = "locked" /\ ~Due
  /\ phase' = "out"
  /\ UNCHANGED <<list, systime>>

Next == \/ Tick \/ Fire \/ Return \/ TickEnd
        \/ \E t \in Timer : VTReset(t) \/ \E d \in Time \ {0} : VTSet(t, d)

Spec == Init /\ [][Next]_vars

-----------------------------------------------------------------------------

(* A timer is in the list at most once; deltas and the time are of type      *)
(* systime_t.                                                                *)
TypeOK == /\ list \in Seq([t : Timer, delta : Time])
          /\ Cardinality({list[k].t : k \in 1..Len(list)}) = Len(list)
          /\ systime \in Time
          /\ phase \in {"out", "locked", "callback"}

(* The ticks that are left to the timer at place k of the list.              *)
TicksTo(k) ==
  LET sum[i \in 0..Len(list)] == IF i = 0 THEN 0 ELSE sum[i - 1] + list[i].delta
  IN sum[k]

Left == [t \in Timer |->
           IF Armed(list, t) THEN TicksTo(CHOOSE k \in 1..Len(list) : list[k].t = t) ELSE -1]

Vt == INSTANCE VtTimers WITH left <- Left, MaxDelay <- MaxTime

(* The delta list implements timers that count down independently: each      *)
(* fires exactly its delay after it was set, in the tick it is due and not   *)
(* before, whatever is armed or disarmed in between, from callbacks too.     *)
TimersIndependent == Vt!Spec

=============================================================================
