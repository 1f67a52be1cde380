------------------------------ MODULE VtTimers ------------------------------
(***************************************************************************)
(* What virtual timers promise: every timer counts down the ticks of its   *)
(* own delay and fires in the tick in which none is left, whatever is done *)
(* to the other timers.                                                    *)
(***************************************************************************)
EXTENDS Integers

CONSTANTS Timer, MaxDelay

Off == -1

VARIABLE left  \* per timer: the ticks that are left, or Off

Init == left = [t \in Timer |-> Off]

Set(t) == \E d \in 1..MaxDelay : left' = [left EXCEPT ![t] = d]

Reset(t) == left' = [left EXCEPT ![t] = Off]

(* The next tick comes when every timer that was due has fired.              *)
Tick == /\ \A t \in Timer : left[t] # 0
        /\ left' = [t \in Timer |-> IF left[t] = Off THEN Off ELSE left[t] - 1]

Fire(t) == left[t] = 0 /\ left' = [left EXCEPT ![t] = Off]

Next == Tick \/ \E t \in Timer : Set(t) \/ Reset(t) \/ Fire(t)

Spec == Init /\ [][Next]_left

=============================================================================
