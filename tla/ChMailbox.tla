----------------------------- MODULE ChMailbox ------------------------------
(***************************************************************************)
(* Mailboxes: os/rt/src/chmboxes.c over the semaphores of chsem.c and the  *)
(* time-outs of chschd.c (wakeup).                                         *)
(*                                                                         *)
(* A mailbox is a circular buffer with two semaphores, which count its     *)
(* free slots and its messages.  An operation takes from one, accesses the *)
(* buffer and signals the other, in one locked section when it does not    *)
(* wait.  When it waits, it goes on after it was woken, and it may be a    *)
(* while until the thread runs: any woken thread may be the next to run,   *)
(* which covers every assignment of priorities.  Waiting threads are       *)
(* served in the order in which they came (CH_CFG_USE_SEMAPHORES_PRIORITY  *)
(* is FALSE).                                                              *)
(***************************************************************************)
EXTENDS Integers, Sequences, FiniteSets

CONSTANTS Thread, Isr,  \* Isr stands for interrupt handlers
          Msg, NoMsg,
          Size,         \* number of slots
          LateReset     \* may chMBReset find a thread that is woken but has not run?

VARIABLES buf, rd, wr,  \* the buffer, mb_rdptr, mb_wrptr
          cnt, queue,   \* s_cnt and s_queue of mb_emptysem and mb_fullsem
          st,           \* per thread: "idle", in a queue ("wait"), or "woken"
          op,           \* per thread: the operation it waits in
          got           \* the message fetched last

vars == <<buf, rd, wr, cnt, queue, st, op, got>>

Caller == Thread \cup {Isr}

Op == [act : {"post", "ahead", "fetch"}, msg : Msg \cup {NoMsg}, timed : BOOLEAN]

NoOp == [act |-> "fetch", msg |-> NoMsg, timed |-> FALSE]

(* The semaphore an operation waits on, and the one it signals.              *)
Waits(o) == IF o.act = "fetch" THEN "full" ELSE "empty"

Signals(o) == IF o.act = "fetch" THEN "empty" ELSE "full"

(* chMBObjectInit                                                            *)
Init == /\ buf = [k \in 0..(Size - 1) |-> NoMsg]
        /\ rd = 0 /\ wr = 0
        /\ cnt = [empty |-> Size, full |-> 0]
        /\ queue = [empty |-> <<>>, full |-> <<>>]
        /\ st = [t \in Caller |-> "idle"]
        /\ op = [t \in Thread |-> NoOp]
        /\ got = NoMsg

-----------------------------------------------------------------------------

(* Mutant: mb_wrptr is not wrapped at mb_top. *)
WriteBackRuns(m) == /\ buf' = [buf EXCEPT ![wr] = m]
                    /\ wr' = wr + 1
                    /\ UNCHANGED <<rd, got>>

(* A message is put behind the others.                                       *)
WriteBack(m) == /\ buf' = [buf EXCEPT ![wr] = m]
                /\ wr' = (wr + 1) % Size
                /\ UNCHANGED <<rd, got>>

(* Mutant: the message is written before mb_rdptr is moved. *)
WriteAheadEarly(m) == /\ buf' = [buf EXCEPT ![rd] = m]
                      /\ rd' = (rd - 1) % Size
                      /\ UNCHANGED <<wr, got>>

(* A message is put before the others.                                       *)
WriteAhead(m) == /\ rd' = (rd - 1) % Size
                 /\ buf' = [buf EXCEPT ![rd'] = m]
                 /\ UNCHANGED <<wr, got>>

ReadFront == /\ got' = buf[rd]
             /\ rd' = (rd + 1) % Size
             /\ UNCHANGED <<buf, wr>>

Access(o) == \/ o.act = "post" /\ WriteBack(o.msg)
             \/ o.act = "ahead" /\ WriteAhead(o.msg)
             \/ o.act = "fetch" /\ ReadFront

(* Mutant: a thread is woken only when the counter becomes positive. *)
SignalStrict(s, c, z) ==
  /\ cnt' = [c EXCEPT ![s] = @ + 1]
  /\ IF c[s] + 1 < 0
       THEN /\ queue' = [queue EXCEPT ![s] = Tail(@)]
            /\ st' = [z EXCEPT ![Head(queue[s])] = "woken"]
       ELSE queue' = queue /\ st' = z

(* chSemSignalI, from counters c and thread states z                         *)
Signal(s, c, z) ==
  /\ cnt' = [c EXCEPT ![s] = @ + 1]
  /\ IF c[s] + 1 <= 0
       THEN /\ queue' = [queue EXCEPT ![s] = Tail(@)]
            /\ st' = [z EXCEPT ![Head(queue[s])] = "woken"]
       ELSE queue' = queue /\ st' = z

(* The queue q without its kth thread                                        *)
Without(q, k) == [i \in 1..(Len(q) - 1) |-> IF i < k THEN q[i] ELSE q[i + 1]]

Complete(t, o, c) == Access(o) /\ Signal(Signals(o), c, [st EXCEPT ![t] = "idle"])

(* chMBPost, chMBPostAhead, chMBFetch up to the end, or up to the wait; and  *)
(* their I-class variants, which do not wait.                                *)
Begin(t, o, mayWait) ==
  /\ st[t] = "idle"
  /\ \/ /\ cnt[Waits(o)] > 0
        /\ Complete(t, o, [cnt EXCEPT ![Waits(o)] = @ - 1])
        /\ op' = op
     \/ /\ cnt[Waits(o)] <= 0 /\ mayWait
        /\ cnt' = [cnt EXCEPT ![Waits(o)] = @ - 1]
        /\ queue' = [queue EXCEPT ![Waits(o)] = Append(@, t)]
        /\ st' = [st EXCEPT ![t] = "wait"]
        /\ op' = [op EXCEPT ![t] = o]
        /\ UNCHANGED <<buf, rd, wr, got>>

(* A thread that was woken with MSG_OK runs.                                 *)
Resume(t) ==
  /\ st[t] = "woken"
  /\ Complete(t, op[t], cnt)
  /\ op' = [op EXCEPT ![t] = NoOp]

(* Mutant: the semaphore is not given back on a time-out. *)
TimedOutKeeps(t) ==
  LET s == Waits(op[t])
  IN /\ st[t] = "wait" /\ op[t].timed
     /\ \E k \in 1..Len(queue[s]) :
          queue[s][k] = t /\ queue' = [queue EXCEPT ![s] = Without(@, k)]
     /\ st' = [st EXCEPT ![t] = "idle"]
     /\ op' = [op EXCEPT ![t] = NoOp]
     /\ UNCHANGED <<cnt, buf, rd, wr, got>>

(* wakeup: the time of a waiting thread runs out and it returns with         *)
(* MSG_TIMEOUT.  A thread that is woken already is left alone.               *)
TimedOut(t) ==
  LET s == Waits(op[t])
  IN /\ st[t] = "wait" /\ op[t].timed
     /\ cnt' = [cnt EXCEPT ![s] = @ + 1]
     /\ \E k \in 1..Len(queue[s]) :
          queue[s][k] = t /\ queue' = [queue EXCEPT ![s] = Without(@, k)]
     /\ st' = [st EXCEPT ![t] = "idle"]
     /\ op' = [op EXCEPT ![t] = NoOp]
     /\ UNCHANGED <<buf, rd, wr, got>>

(* chMBReset: the waiting threads return with MSG_RESET.                     *)
Reset ==
  /\ LateReset \/ \A t \in Thread : st[t] # "woken"
  /\ rd' = 0 /\ wr' = 0
  /\ cnt' = [empty |-> Size, full |-> 0]
  /\ queue' = [empty |-> <<>>, full |-> <<>>]
  /\ st' = [t \in Caller |-> IF st[t] = "wait" THEN "idle" ELSE st[t]]
  /\ op' = [t \in Thread |-> IF st[t] = "wait" THEN NoOp ELSE op[t]]
  /\ UNCHANGED <<buf, got>>

Call(t, mayWait) ==
  \E timed \in {b \in BOOLEAN : b => mayWait} :
    \/ \E m \in Msg, a \in {"post", "ahead"} :
         Begin(t, [act |-> a, msg |-> m, timed |-> timed], mayWait)
    \/ Begin(t, [act |-> "fetch", msg |-> NoMsg, timed |-> timed], mayWait)

Next == \/ \E t \in Thread : Call(t, TRUE) \/ Resume(t) \/ TimedOut(t)
        \/ Call(Isr, FALSE)
        \/ Reset

Spec == Init /\ [][Next]_vars

-----------------------------------------------------------------------------

(* Pointers stay in the buffer, and who waits is in the queue of its         *)
(* semaphore.                                                                *)
TypeOK == /\ buf \in [0..(Size - 1) -> Msg \cup {NoMsg}]
          /\ rd \in 0..(Size - 1) /\ wr \in 0..(Size - 1)
          /\ cnt \in [{"empty", "full"} -> -Cardinality(Thread)..Size]
          /\ queue \in [{"empty", "full"} -> Seq(Thread)]
          /\ st \in [Caller -> {"idle", "wait", "woken"}] /\ st[Isr] = "idle"
          /\ op \in [Thread -> Op]
          /\ got \in Msg \cup {NoMsg}

Woken(s) == {t \in Thread : st[t] = "woken" /\ Waits(op[t]) = s}

Available(s) == IF cnt[s] > 0 THEN cnt[s] ELSE 0

(* Every slot is free, claimed by a woken poster, holds a message, or holds  *)
(* one that a woken fetcher has claimed: nothing is counted twice and        *)
(* nothing is lost by time-outs, so the buffer can neither be overrun nor    *)
(* read when it is empty.                                                    *)
SlotsAddUp == Available("empty") + Cardinality(Woken("empty"))
                + Available("full") + Cardinality(Woken("full")) = Size

(* The assertion "inconsistent semaphore" of chsem.c, made exact: a negative *)
(* counter is the number of threads that wait.  So no thread waits for a     *)
(* message, or for a slot, that nobody has claimed.                          *)
NoLostWakeup ==
  \A s \in {"empty", "full"} :
    /\ queue[s] # <<>> => cnt[s] = -Len(queue[s])
    /\ queue[s] = <<>> => cnt[s] >= 0
    /\ \A t \in Thread : (st[t] = "wait" /\ Waits(op[t]) = s)
                           <=> \E k \in 1..Len(queue[s]) : queue[s][k] = t

Contents ==
  [k \in 1..(Available("full") + Cardinality(Woken("full"))) |-> buf[(rd + k - 1) % Size]]

Q == INSTANCE MBQueue WITH items <- Contents

(* The mailbox is a bounded queue: messages are fetched in the order in      *)
(* which they were posted, those posted ahead first, none twice, and a full  *)
(* mailbox accepts none.                                                     *)
IsQueue == Q!Spec

=============================================================================
