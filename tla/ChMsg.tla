------------------------------- MODULE ChMsg --------------------------------
(***************************************************************************)
(* Synchronous messages: os/rt/src/chmsg.c.  A sender queues itself at the *)
(* receiver and sleeps until its message is released; the receiver takes   *)
(* the first sender, works and releases it with an answer.  Every thread   *)
(* may send and receive, and a woken receiver runs later.                  *)
(***************************************************************************)
EXTENDS Integers, Sequences, FiniteSets

CONSTANTS Thread, None

VARIABLES queue,  \* p_msgqueue
          st,     \* "run", "wtmsg", "sndmsgq", "sndmsg", or "ready" in chMsgWait
          peer,   \* per thread: the sender it has received from and not released
          to      \* history: per sender, the receiver

vars == <<queue, st, peer, to>>

Init == /\ queue = [t \in Thread |-> <<>>]
        /\ st = [t \in Thread |-> "run"]
        /\ peer = [t \in Thread |-> None]
        /\ to = [t \in Thread |-> None]

-----------------------------------------------------------------------------

(* chMsgSend, up to its sleep                                                *)
Send(s, r) ==
  /\ st[s] = "run" /\ s # r
  /\ to' = [to EXCEPT ![s] = r]
  /\ queue' = [queue EXCEPT ![r] = Append(@, s)]
  /\ st' = [st EXCEPT ![s] = "sndmsgq", ![r] = IF @ = "wtmsg" THEN "ready" ELSE @]
  /\ UNCHANGED peer

(* Mutant: the sender stays in the queue. *)
TakeKeeps(r) ==
  LET s == Head(queue[r])
  IN /\ queue' = queue
     /\ peer' = [peer EXCEPT ![r] = s]
     /\ st' = [st EXCEPT ![r] = "run", ![s] = "sndmsg"]

(* The first sender leaves the queue.                                        *)
Take(r) ==
  LET s == Head(queue[r])
  IN /\ queue' = [queue EXCEPT ![r] = Tail(@)]
     /\ peer' = [peer EXCEPT ![r] = s]
     /\ st' = [st EXCEPT ![r] = "run", ![s] = "sndmsg"]

(* Mutant: chMsgWait sleeps although a sender is in the queue. *)
WaitAlways(r) == /\ st[r] = "run" /\ peer[r] = None
                 /\ st' = [st EXCEPT ![r] = "wtmsg"]
                 /\ UNCHANGED <<queue, peer, to>>

(* chMsgWait, up to its sleep when nobody has sent                           *)
Wait(r) ==
  /\ st[r] = "run" /\ peer[r] = None
  /\ \/ queue[r] # <<>> /\ Take(r)
     \/ queue[r] = <<>> /\ st' = [st EXCEPT ![r] = "wtmsg"] /\ UNCHANGED <<queue, peer>>
  /\ UNCHANGED to

(* ... and after it                                                          *)
WaitGoesOn(r) == st[r] = "ready" /\ Take(r) /\ UNCHANGED to

(* chMsgRelease, chMsgReleaseS: the answer goes to the sender.               *)
Release(r) == /\ st[r] = "run" /\ peer[r] # None
              /\ st' = [st EXCEPT ![peer[r]] = "run"]
              /\ to' = [to EXCEPT ![peer[r]] = None]
              /\ peer' = [peer EXCEPT ![r] = None]
              /\ UNCHANGED queue

Next == \E r \in Thread : \/ Wait(r) \/ WaitGoesOn(r) \/ Release(r)
                          \/ \E s \in Thread : Send(s, r)

Spec == Init /\ [][Next]_vars

-----------------------------------------------------------------------------

(* Queues and states are those of the code.                                  *)
TypeOK == /\ queue \in [Thread -> Seq(Thread)]
          /\ st \in [Thread -> {"run", "wtmsg", "sndmsgq", "sndmsg", "ready"}]
          /\ peer \in [Thread -> Thread \cup {None}]

(* A woken receiver finds a sender: queue_fifo_remove in chMsgWait is not    *)
(* applied to an empty queue, and nobody sleeps in chMsgWait while a sender  *)
(* is in the queue.                                                          *)
WokenFindsSender == \A r \in Thread : /\ st[r] = "ready" => queue[r] # <<>>
                                      /\ st[r] = "wtmsg" => queue[r] = <<>>

(* The places of s in the queues: a receiver and a position                  *)
Places(s) == {p \in UNION {{r} \X (1..Len(queue[r])) : r \in Thread} : queue[p[1]][p[2]] = s}

(* A sender is in one place: once in the queue of the receiver it chose, or  *)
(* held by it ("invalid state" in chMsgRelease).  So it is answered once,    *)
(* and by that receiver.                                                     *)
SenderInOnePlace ==
  \A s \in Thread :
    /\ Cardinality(Places(s)) = (IF st[s] = "sndmsgq" THEN 1 ELSE 0)
    /\ \A p \in Places(s) : p[1] = to[s]
    /\ Cardinality({r \in Thread : peer[r] = s}) = (IF st[s] = "sndmsg" THEN 1 ELSE 0)
    /\ st[s] = "sndmsg" => peer[to[s]] = s

=============================================================================
