------------------------------ MODULE ChQueues ------------------------------
(***************************************************************************)
(* Byte queues between threads and interrupts: os/rt/src/chqueues.c (and   *)
(* its copy os/hal/src/hal_queues.c).  Threads read from an input queue    *)
(* and write to an output queue, and wait while the counter is 0; the      *)
(* interrupt side puts to the one, gets from the other, never waits, and   *)
(* wakes a thread for each byte.  The counter counts what threads wait     *)
(* for: bytes in an input queue, free places in an output queue.  A read   *)
(* or write of several bytes unlocks between any two, and a woken thread   *)
(* runs later.                                                             *)
(***************************************************************************)
EXTENDS Integers, Sequences, FiniteSets

CONSTANTS Thread, Msg, NoMsg, \* Msg: bytes
          Size,               \* of the buffer
          MaxRead             \* largest n of a call

VARIABLES dir,        \* "in" or "out"; never changes
          buf, rd, wr, counter,
          waiting,    \* q_waiting
          st,         \* "idle"; "wait"; "woken" by Q_OK; "more" bytes to move
          left, timed,\* per thread: n, and is there a time-out?
          got         \* the byte taken last

vars == <<dir, buf, rd, wr, counter, waiting, st, left, timed, got>>

Full == IF dir = "in" THEN 0 ELSE Size \* the counter after a reset

(* chIQObjectInit, chOQObjectInit                                            *)
Init == /\ dir \in {"in", "out"}
        /\ buf = [k \in 0..(Size - 1) |-> NoMsg]
        /\ rd = 0 /\ wr = 0
        /\ counter = Full
        /\ waiting = <<>>
        /\ st = [t \in Thread |-> "idle"]
        /\ left = [t \in Thread |-> 0]
        /\ timed = [t \in Thread |-> FALSE]
        /\ got = NoMsg

-----------------------------------------------------------------------------

(* Mutant: the write pointer wraps one place late. *)
PutByteLate(b) == /\ buf' = [buf EXCEPT ![wr % Size] = b]
                  /\ wr' = (wr + 1) % (Size + 1)
                  /\ UNCHANGED <<rd, got>>

(* Mutant: the pointer moves before the byte is stored. *)
PutByteAhead(b) == /\ buf' = [buf EXCEPT ![(wr + 1) % Size] = b]
                   /\ wr' = (wr + 1) % Size
                   /\ UNCHANGED <<rd, got>>

PutByte(b) == /\ buf' = [buf EXCEPT ![wr] = b]
              /\ wr' = (wr + 1) % Size
              /\ UNCHANGED <<rd, got>>

GetByte == /\ got' = buf[rd]
           /\ rd' = (rd + 1) % Size
           /\ UNCHANGED <<buf, wr>>

(* One locked section of a call that has n bytes to move: it ends in the     *)
(* wait (chThdEnqueueTimeoutS), at the preemption point after a byte, or     *)
(* with the last byte.                                                       *)
Move(t, n, b) ==
  IF counter = 0
    THEN /\ waiting' = Append(waiting, t)
         /\ st' = [st EXCEPT ![t] = "wait"]
         /\ left' = [left EXCEPT ![t] = n]
         /\ UNCHANGED <<buf, rd, wr, counter, got>>
    ELSE /\ counter' = counter - 1
         /\ IF dir = "in" THEN GetByte ELSE PutByte(b)
         /\ left' = [left EXCEPT ![t] = n - 1]
         /\ st' = [st EXCEPT ![t] = IF n = 1 THEN "idle" ELSE "more"]
         /\ UNCHANGED waiting

(* chIQGetTimeout, chIQReadTimeout, chOQPutTimeout, chOQWriteTimeout         *)
Call(t, n, b, tm) == /\ st[t] = "idle"
                     /\ timed' = [timed EXCEPT ![t] = tm]
                     /\ Move(t, n, b)

GoOn(t, b) == /\ st[t] \in {"woken", "more"}
              /\ Move(t, left[t], b)
              /\ UNCHANGED timed

Leave(T) == /\ st' = [t \in Thread |-> IF t \in T THEN "idle" ELSE st[t]]
            /\ left' = [t \in Thread |-> IF t \in T THEN 0 ELSE left[t]]

(* The time of a waiting thread runs out.                                    *)
TimedOut(t) == /\ st[t] = "wait" /\ timed[t]
               /\ waiting' = SelectSeq(waiting, LAMBDA u : u # t)
               /\ Leave({t})
               /\ UNCHANGED <<buf, rd, wr, counter, timed, got>>

(* Mutant: a thread is woken only by the first byte. *)
IsrMoveFirst(b) ==
  /\ counter < Size
  /\ counter' = counter + 1
  /\ IF dir = "in" THEN PutByte(b) ELSE GetByte
  /\ IF waiting = <<>> \/ counter > 0 THEN UNCHANGED <<waiting, st>>
     ELSE /\ waiting' = Tail(waiting)
          /\ st' = [st EXCEPT ![Head(waiting)] = "woken"]
  /\ UNCHANGED <<left, timed>>

(* chIQPutI, chOQGetI; nothing happens when the queue is full (Q_FULL), or   *)
(* empty (Q_EMPTY).                                                          *)
IsrMove(b) ==
  /\ counter < Size
  /\ counter' = counter + 1
  /\ IF dir = "in" THEN PutByte(b) ELSE GetByte
  /\ IF waiting = <<>> THEN UNCHANGED <<waiting, st>>
     ELSE /\ waiting' = Tail(waiting)
          /\ st' = [st EXCEPT ![Head(waiting)] = "woken"]
  /\ UNCHANGED <<left, timed>>

(* chIQResetI, chOQResetI: those who wait return Q_RESET.                    *)
Reset == /\ rd' = 0 /\ wr' = 0
         /\ counter' = Full
         /\ waiting' = <<>>
         /\ Leave({t \in Thread : st[t] = "wait"})
         /\ UNCHANGED <<buf, timed, got>>

Next == /\ \/ \E t \in Thread, b \in Msg :
                \/ GoOn(t, b)
                \/ \E n \in 1..MaxRead, tm \in BOOLEAN : Call(t, n, b, tm)
           \/ \E t \in Thread : TimedOut(t)
           \/ \E b \in Msg : IsrMove(b)
           \/ Reset
        /\ UNCHANGED dir

Spec == Init /\ [][Next]_vars

-----------------------------------------------------------------------------

(* Pointers stay in the buffer and the counter between 0 and its size.       *)
TypeOK == /\ buf \in [0..(Size - 1) -> Msg \cup {NoMsg}]
          /\ rd \in 0..(Size - 1) /\ wr \in 0..(Size - 1)
          /\ counter \in 0..Size
          /\ st \in [Thread -> {"idle", "wait", "woken", "more"}]
          /\ left \in [Thread -> 0..MaxRead]

Woken == {t \in Thread : st[t] = "woken"}

(* No wake-up is lost, although others may take the byte a thread was woken  *)
(* for, calls move many bytes and time-outs and resets come in between:      *)
(* while a thread waits, every byte it could have has a woken thread that    *)
(* will take it.                                                             *)
EveryByteClaimed == waiting # <<>> => Cardinality(Woken) >= counter

Bytes == [k \in 1..(IF dir = "in" THEN counter ELSE Size - counter)
            |-> buf[(rd + k - 1) % Size]]

Q == INSTANCE MBQueue WITH items <- Bytes

(* Both queues keep the order of the bytes, lose and duplicate none: a byte  *)
(* goes to the end, the first one is taken, and only chIQResetI and          *)
(* chOQResetI drop what there is.                                            *)
IsQueue ==
  Q!Init /\ [][(\E b \in Msg : Q!Put(b)) \/ Q!Take \/ (Reset /\ Q!Clear)]_<<Bytes, got>>

=============================================================================
