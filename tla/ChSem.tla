-------------------------------- MODULE ChSem -------------------------------
(***************************************************************************)
(* Counting semaphores, os/rt/src/chsem.c.  The counter of a semaphore is  *)
(* the number of units it has, or, below zero, the number of threads that  *)
(* wait in its queue.  Every operation runs in one critical section; a     *)
(* time-out takes a thread out of the queue and gives its count back.      *)
(***************************************************************************)
EXTENDS Integers, Sequences

CONSTANTS Thread, Sem,
          MaxCnt   \* bound on the units of a semaphore

VARIABLES cnt,   \* s_cnt
          queue, \* s_queue
          msg    \* per thread: the message it was woken with, "none" while it waits

vars == <<cnt, queue, msg>>

Init == /\ cnt \in [Sem -> 0 .. MaxCnt]
        /\ queue = [s \in Sem |-> <<>>]
        /\ msg = [t \in Thread |-> "ok"]

Runs(t) == msg[t] # "none"

(* A thread takes a unit of s, or waits for one at the end of the queue.     *)
Taken(c, q, m, t, s) ==
  [cnt |-> [c EXCEPT ![s] = @ - 1],
   queue |-> IF c[s] - 1 < 0 THEN [q EXCEPT ![s] = Append(@, t)] ELSE q,
   msg |-> [m EXCEPT ![t] = IF c[s] - 1 < 0 THEN "none" ELSE "ok"]]

(* How many of n increments of a counter c leave it at zero or below: each   *)
(* of them wakes a thread.                                                   *)
Wakes(c, n) == IF c >= 0 THEN 0 ELSE IF n < -c THEN n ELSE -c

(* Semaphore s gets n units: the first threads that wait take them.          *)
Given(c, q, m, s, n) ==
  LET k == Wakes(c[s], n)
  IN [cnt |-> [c EXCEPT ![s] = @ + n],
      queue |-> [q EXCEPT ![s] = SubSeq(@, k + 1, Len(@))],
      msg |-> [t \in Thread |-> IF \E i \in 1..k : q[s][i] = t THEN "ok" ELSE m[t]]]

Becomes(x) == cnt' = x.cnt /\ queue' = x.queue /\ msg' = x.msg

(* The queue q without its ith thread                                        *)
Without(q, i) == [k \in 1..(Len(q) - 1) |-> IF k < i THEN q[k] ELSE q[k + 1]]

-----------------------------------------------------------------------------

(* chSemWaitS, chSemWaitTimeoutS with a time                                 *)
Wait(t, s) == Runs(t) /\ Becomes(Taken(cnt, queue, msg, t, s))

(* Mutant: the count of a time-out is not given back. *)
TimedOutKeeps(s, i) ==
  /\ queue' = [queue EXCEPT ![s] = Without(@, i)]
  /\ msg' = [msg EXCEPT ![queue[s][i]] = "timeout"]
  /\ UNCHANGED cnt

(* The time of the ith thread that waits is over: wakeup of chschd.c         *)
TimedOut(s, i) ==
  /\ cnt' = [cnt EXCEPT ![s] = @ + 1]
  /\ queue' = [queue EXCEPT ![s] = Without(@, i)]
  /\ msg' = [msg EXCEPT ![queue[s][i]] = "timeout"]

(* chSemSignal, chSemSignalI and chSemAddCounterI                            *)
Add(s, n) == cnt[s] + n <= MaxCnt /\ Becomes(Given(cnt, queue, msg, s, n))

(* chSemResetI: as many threads are woken, from the end of the queue, as the *)
(* counter was below zero.                                                   *)
Reset(s, n) ==
  LET q    == queue[s]
      stay == IF cnt[s] < 0 THEN Len(q) + cnt[s] ELSE Len(q)
  IN /\ cnt' = [cnt EXCEPT ![s] = n]
     /\ queue' = [queue EXCEPT ![s] = SubSeq(@, 1, stay)]
     /\ msg' = [t \in Thread |-> IF \E i \in (stay + 1)..Len(q) : q[i] = t THEN "reset" ELSE msg[t]]

(* chSemSignalWait, s and w being perhaps the same                           *)
SignalWait(t, s, w) ==
  LET y == Given(cnt, queue, msg, s, 1)
  IN Runs(t) /\ cnt[s] < MaxCnt /\ Becomes(Taken(y.cnt, y.queue, y.msg, t, w))

Next == \/ \E t \in Thread, s \in Sem : Wait(t, s)
        \/ \E s \in Sem : \E i \in 1..Len(queue[s]) : TimedOut(s, i)
        \/ \E s \in Sem : \E n \in 1 .. MaxCnt : Add(s, n)
        \/ \E s \in Sem : \E n \in 0 .. MaxCnt : Reset(s, n)
        \/ \E t \in Thread, s, w \in Sem : SignalWait(t, s, w)

Spec == Init /\ [][Next]_vars

-----------------------------------------------------------------------------

(* What the chDbgAsserts of every operation say: a semaphore has units or    *)
(* threads that wait, never both, and as many as its counter says; those in  *)
(* a queue were not woken.                                                   *)
CounterExact == \A s \in Sem : /\ (cnt[s] >= 0) <=> (queue[s] = <<>>)
                               /\ cnt[s] < 0 => Len(queue[s]) = -cnt[s]
                               /\ \A i \in 1 .. Len(queue[s]) : ~Runs(queue[s][i])

=============================================================================
