-------------------------- MODULE ChMailboxProofs ---------------------------
(***************************************************************************)
(* Mailboxes: what their steps keep, and that they are queues, for any     *)
(* number of threads, messages and slots.                                  *)
(***************************************************************************)
EXTENDS Integers, Sequences, FiniteSets, Counts, TLAPS

CONSTANTS Thread, Isr, Msg, NoMsg, Size

VARIABLES buf, rd, wr, cnt, queue, st, op, got

MB == INSTANCE ChMailbox WITH LateReset <- FALSE

(* What the proofs assume of the constants                                   *)
MbGiven == /\ FiniteSetFacts
           /\ IsFiniteSet(Thread) /\ Isr \notin Thread
           /\ Size \in Nat \ {0}

Sides == {"empty", "full"}

(* Counters c, queues q, states z and awaited semaphores w of the threads    *)
(* agree: a queue is as long as its counter is below zero, those in it wait  *)
(* for it, each in one place, and whoever waits is in its queue.             *)
MbQueues(c, q, z, w) ==
  /\ c \in [Sides -> Int]
  /\ q \in [Sides -> Seq(Thread)]
  /\ z \in [Thread \cup {Isr} -> {"idle", "wait", "woken"}] /\ z[Isr] = "idle"
  /\ w \in [Thread -> Sides]
  /\ \A x \in Sides : Len(q[x]) = IF c[x] < 0 THEN -c[x] ELSE 0
  /\ \A x \in Sides : \A i \in 1..Len(q[x]) : z[q[x][i]] = "wait" /\ w[q[x][i]] = x
  /\ \A x \in Sides : \A i, j \in 1..Len(q[x]) : q[x][i] = q[x][j] => i = j
  /\ \A u \in Thread : z[u] = "wait" => \E i \in 1..Len(q[w[u]]) : q[w[u]][i] = u

(* What is in a queue waits for it.                                          *)
MbPlain(c, q, z, w) ==
  /\ c \in [Sides -> Int] /\ q \in [Sides -> Seq(Thread)] /\ w \in [Thread -> Sides]
  /\ \A x \in Sides : c[x] \in Int /\ q[x] \in Seq(Thread) /\ Len(q[x]) \in Nat
  /\ \A x \in Sides : \A i \in 1..Len(q[x]) :
       q[x][i] \in Thread /\ z[q[x][i]] = "wait" /\ w[q[x][i]] = x

(* It does when the queues agree with the counters.                          *)
LEMMA MbWaiting ==
  ASSUME NEW c, NEW q, NEW z, NEW w, MbQueues(c, q, z, w)
  PROVE  MbPlain(c, q, z, w)
<1>1. /\ c \in [Sides -> Int] /\ q \in [Sides -> Seq(Thread)] /\ w \in [Thread -> Sides]
      /\ \A x \in Sides : \A i \in 1..Len(q[x]) : z[q[x][i]] = "wait" /\ w[q[x][i]] = x
  BY Zenon DEF MbQueues
<1>2. \A x \in Sides : c[x] \in Int /\ q[x] \in Seq(Thread) /\ Len(q[x]) \in Nat
  BY <1>1
<1>3. \A x \in Sides : \A i \in 1..Len(q[x]) : q[x][i] \in Thread
  BY <1>2
<1>4. QED
  BY <1>1, <1>2, <1>3, Zenon DEF MbPlain

(* Those who were woken with a slot, or a message, of x and have not run     *)
MbWoken(z, w, x) == {u \in Thread : z[u] = "woken" /\ w[u] = x}

(* The slots, or messages, of x: those that are to be had and those that     *)
(* somebody was woken for                                                    *)
Tally(c, z, w, x) == (IF c[x] > 0 THEN c[x] ELSE 0) + Cardinality(MbWoken(z, w, x))

(* The number of those who were woken is a number, and changes by one with   *)
(* one of them.                                                              *)
LEMMA WokenCount ==
  ASSUME MbGiven
  PROVE  /\ \A S \in SUBSET Thread : IsFiniteSet(S) /\ Cardinality(S) \in Nat
         /\ \A S \in SUBSET Thread : \A u \in Thread :
              u \notin S => Cardinality(S \cup {u}) = Cardinality(S) + 1
<1>1. \A S \in SUBSET Thread : IsFiniteSet(S)
  BY Zenon DEF MbGiven, FiniteSetFacts
<1>2. \A S : IsFiniteSet(S) => Cardinality(S) \in Nat
  BY Zenon DEF MbGiven, FiniteSetFacts
<1>3. \A S, u : IsFiniteSet(S) =>
        Cardinality(S \cup {u}) = IF u \in S THEN Cardinality(S) ELSE Cardinality(S) + 1
  BY Zenon DEF MbGiven, FiniteSetFacts
<1>4. QED
  BY <1>1, <1>2, <1>3, Zenon

(* A tally is a number.                                                      *)
LEMMA TallyNat ==
  ASSUME MbGiven, NEW c \in [Sides -> Int], NEW z, NEW w, NEW x \in Sides
  PROVE  Tally(c, z, w, x) \in Nat /\ Cardinality(MbWoken(z, w, x)) \in Nat
<1>1. MbWoken(z, w, x) \in SUBSET Thread
  BY Zenon DEF MbWoken
<1>2. Cardinality(MbWoken(z, w, x)) \in Nat
  BY <1>1, WokenCount, Zenon
<1>3. QED
  BY <1>2 DEF Tally

(* One more of g, for the first who waits if somebody does                   *)
MbMore(c, q, z, g, d, r, y) ==
  /\ d = [c EXCEPT ![g] = c[g] + 1]
  /\ IF c[g] + 1 <= 0
       THEN r = [q EXCEPT ![g] = Tail(q[g])] /\ y = [z EXCEPT ![Head(q[g])] = "woken"]
       ELSE r = q /\ y = z

(* chSemSignalI: the semaphore has one more, for the first who waits if      *)
(* somebody does.                                                            *)
LEMMA MbSignal ==
  ASSUME MbGiven, NEW c, NEW q, NEW z, NEW w, MbQueues(c, q, z, w), NEW g \in Sides,
         NEW d, NEW r, NEW y, MbMore(c, q, z, g, d, r, y)
  PROVE  /\ MbQueues(d, r, y, w)
         /\ \A x \in Sides : Tally(d, y, w, x) = IF x = g THEN Tally(c, z, w, x) + 1
                                                 ELSE Tally(c, z, w, x)
<1>1. /\ c \in [Sides -> Int] /\ q \in [Sides -> Seq(Thread)]
      /\ z \in [Thread \cup {Isr} -> {"idle", "wait", "woken"}] /\ z[Isr] = "idle"
      /\ w \in [Thread -> Sides]
  BY Zenon DEF MbQueues
<1>2. \A x \in Sides : Len(q[x]) = IF c[x] < 0 THEN -c[x] ELSE 0
  BY Zenon DEF MbQueues
<1>3. \A x \in Sides : \A i \in 1..Len(q[x]) : z[q[x][i]] = "wait" /\ w[q[x][i]] = x
  BY Zenon DEF MbQueues
<1>4. \A x \in Sides : \A i, j \in 1..Len(q[x]) : q[x][i] = q[x][j] => i = j
  BY Zenon DEF MbQueues
<1>5. \A u \in Thread : z[u] = "wait" => \E i \in 1..Len(q[w[u]]) : q[w[u]][i] = u
  BY Zenon DEF MbQueues
<1>6. d \in [Sides -> Int] /\ d[g] = c[g] + 1 /\ \A x \in Sides \ {g} : d[x] = c[x]
  BY <1>1, SMTT(20) DEF MbMore
<1>7. \A x \in Sides : c[x] \in Int /\ q[x] \in Seq(Thread) /\ Len(q[x]) \in Nat
  BY <1>1
<1>8. CASE c[g] + 1 > 0
  <2>1. r = q /\ y = z
    BY <1>7, <1>8 DEF MbMore
  <2>2. \A x \in Sides : Len(q[x]) = IF d[x] < 0 THEN -d[x] ELSE 0
    BY <1>2, <1>6, <1>7, <1>8
  <2>3. MbQueues(d, r, y, w)
    BY <2>1, <2>2, <1>1, <1>3, <1>4, <1>5, <1>6 DEF MbQueues
  <2>4. ASSUME NEW x \in Sides
        PROVE  Tally(d, z, w, x) = IF x = g THEN Tally(c, z, w, x) + 1 ELSE Tally(c, z, w, x)
    <3>1. Cardinality(MbWoken(z, w, x)) \in Nat
      BY <1>1, TallyNat, Zenon
    <3>2. CASE x = g
      BY <3>1, <3>2, <1>6, <1>7, <1>8 DEF Tally
    <3>3. CASE x # g
      BY <3>3, <1>6, Zenon DEF Tally
    <3>4. QED
      BY <3>2, <3>3, Zenon
  <2>5. QED
    BY <2>1, <2>3, <2>4, Zenon
<1>9. CASE c[g] + 1 <= 0
  <2>1. r = [q EXCEPT ![g] = Tail(q[g])] /\ y = [z EXCEPT ![Head(q[g])] = "woken"]
    BY <1>9, Zenon DEF MbMore
  <2>2. Len(q[g]) = -c[g] /\ Len(q[g]) > 0 /\ q[g] # <<>>
    BY <1>2, <1>7, <1>9
  <2>3. PICK a : a = Head(q[g])
    OBVIOUS
  <2>4. /\ a = q[g][1] /\ a \in Thread
        /\ Tail(q[g]) \in Seq(Thread) /\ Len(Tail(q[g])) = Len(q[g]) - 1
        /\ \A i \in 1..(Len(q[g]) - 1) : Tail(q[g])[i] = q[g][i + 1]
    BY <2>2, <2>3, <1>7
  <2>5. z[a] = "wait" /\ w[a] = g /\ a # Isr
    <3>1. 1 \in 1..Len(q[g])
      BY <2>2, <1>7
    <3>2. z[a] = "wait" /\ w[a] = g
      BY <3>1, <2>4, <1>3, Zenon
    <3>3. QED
      BY <3>2, <1>1, Zenon
  <2>6. /\ r \in [Sides -> Seq(Thread)] /\ Len(r[g]) = Len(q[g]) - 1
        /\ \A i \in 1..(Len(q[g]) - 1) : r[g][i] = q[g][i + 1]
        /\ \A x \in Sides \ {g} : r[x] = q[x]
    BY <2>1, <2>4, <1>1, Zenon
  <2>7. /\ y \in [Thread \cup {Isr} -> {"idle", "wait", "woken"}] /\ y[Isr] = "idle"
        /\ y[a] = "woken" /\ \A u \in Thread \ {a} : y[u] = z[u]
    BY <2>1, <2>3, <2>4, <2>5, <1>1, Zenon
  <2>8. \A x \in Sides : Len(r[x]) = IF d[x] < 0 THEN -d[x] ELSE 0
    <3>1. Len(r[g]) = IF d[g] < 0 THEN -d[g] ELSE 0
      BY <2>2, <2>6, <1>6, <1>7, <1>9
    <3>2. \A x \in Sides \ {g} : r[x] = q[x] /\ d[x] = c[x]
      BY <2>6, <1>6, Zenon
    <3>3. QED
      BY <3>1, <3>2, <1>2, Zenon
  <2>9. ASSUME NEW x \in Sides, NEW i \in 1..Len(r[x])
        PROVE  \E k \in 1..Len(q[x]) : /\ r[x][i] = q[x][k] /\ q[x][k] # a
                                       /\ k = IF x = g THEN i + 1 ELSE i
    <3>1. CASE x = g
      <4>1. i + 1 \in 1..Len(q[g]) /\ r[g][i] = q[g][i + 1] /\ i + 1 # 1
        BY <3>1, <2>6, <2>9, <1>7
      <4>2. q[g][i + 1] # a
        <5>1. 1 \in 1..Len(q[g])
          BY <2>2, <1>7
        <5>2. QED
          BY <5>1, <4>1, <2>4, <1>4, Zenon
      <4>3. QED
        BY <3>1, <4>1, <4>2, Zenon
    <3>2. CASE x # g
      <4>1. r[x] = q[x]
        BY <3>2, <2>6, Zenon
      <4>2. w[q[x][i]] = x
        BY <4>1, <1>3, Zenon
      <4>3. QED
        BY <3>2, <4>1, <4>2, <2>5, Zenon
    <3>3. QED
      BY <3>1, <3>2, Zenon
  <2>10. \A x \in Sides : \A i \in 1..Len(r[x]) : y[r[x][i]] = "wait" /\ w[r[x][i]] = x
    <3> SUFFICES ASSUME NEW x \in Sides, NEW i \in 1..Len(r[x])
                 PROVE  y[r[x][i]] = "wait" /\ w[r[x][i]] = x
      OBVIOUS
    <3>1. PICK k \in 1..Len(q[x]) : r[x][i] = q[x][k] /\ q[x][k] # a
      BY <2>9, Zenon
    <3>2. q[x][k] \in Thread /\ z[q[x][k]] = "wait" /\ w[q[x][k]] = x
      BY <1>3, <1>7
    <3>3. QED
      BY <3>1, <3>2, <2>7, Zenon
  <2>11. ASSUME NEW x \in Sides, NEW i \in 1..Len(r[x]), NEW j \in 1..Len(r[x]), r[x][i] = r[x][j]
         PROVE  i = j
    <3>1. PICK k \in 1..Len(q[x]) : r[x][i] = q[x][k] /\ k = IF x = g THEN i + 1 ELSE i
      BY <2>9, Zenon
    <3>2. PICK n \in 1..Len(q[x]) : r[x][j] = q[x][n] /\ n = IF x = g THEN j + 1 ELSE j
      BY <2>9, Zenon
    <3>3. q[x][k] = q[x][n]
      BY <2>11, <3>1, <3>2, Zenon
    <3>4. k = n
      BY <3>3, <1>4, Zenon
    <3>5. QED
      BY <3>1, <3>2, <3>4
  <2>12. ASSUME NEW u \in Thread, y[u] = "wait"
         PROVE  \E i \in 1..Len(r[w[u]]) : r[w[u]][i] = u
    <3>1. u # a /\ z[u] = "wait" /\ w[u] \in Sides
      BY <2>12, <2>7, <1>1, Zenon
    <3>2. PICK i \in 1..Len(q[w[u]]) : q[w[u]][i] = u
      BY <3>1, <1>5, Zenon
    <3>3. CASE w[u] = g
      <4>1. i # 1
        BY <3>1, <3>2, <3>3, <2>4, Zenon
      <4>2. i - 1 \in 1..Len(r[g]) /\ r[g][i - 1] = u
        BY <4>1, <3>2, <3>3, <2>6, <1>7
      <4>3. QED
        BY <4>2, <3>3, Zenon
    <3>4. CASE w[u] # g
      BY <3>1, <3>2, <3>4, <2>6, Zenon
    <3>5. QED
      BY <3>3, <3>4, Zenon
  <2>13. MbQueues(d, r, y, w)
    BY <2>6, <2>7, <2>8, <2>10, <2>11, <2>12, <1>1, <1>6, Zenon DEF MbQueues
  <2>14. MbWoken(y, w, g) = MbWoken(z, w, g) \cup {a} /\ a \notin MbWoken(z, w, g)
    BY <2>4, <2>5, <2>7, Zenon DEF MbWoken
  <2>15. ASSUME NEW x \in Sides \ {g} PROVE MbWoken(y, w, x) = MbWoken(z, w, x)
    BY <2>4, <2>5, <2>7, Zenon DEF MbWoken
  <2>16. Tally(d, y, w, g) = Tally(c, z, w, g) + 1
    <3>1. Cardinality(MbWoken(y, w, g)) = Cardinality(MbWoken(z, w, g)) + 1
      <4>1. MbWoken(z, w, g) \in SUBSET Thread
        BY Zenon DEF MbWoken
      <4>2. QED
        BY <4>1, <2>4, <2>14, WokenCount, Zenon
    <3>2. Cardinality(MbWoken(z, w, g)) \in Nat
      BY <1>1, TallyNat, Zenon
    <3>3. QED
      BY <3>1, <3>2, <1>6, <1>7, <1>9 DEF Tally
  <2>17. \A x \in Sides \ {g} : Tally(d, y, w, x) = Tally(c, z, w, x)
    BY <2>15, <1>6, Zenon DEF Tally
  <2>18. QED
    BY <2>13, <2>16, <2>17, Zenon
<1>10. c[g] + 1 > 0 \/ c[g] + 1 <= 0
  BY <1>7
<1>11. QED
  BY <1>8, <1>9, <1>10, Zenon

(* One less of g                                                             *)
MbTake(c, g, d) == d = [c EXCEPT ![g] = c[g] - 1]

(* A unit is taken at once.                                                  *)
LEMMA MbTaken ==
  ASSUME MbGiven, NEW c, NEW q, NEW z, NEW w, MbQueues(c, q, z, w),
         NEW g \in Sides, c[g] > 0, NEW d, MbTake(c, g, d)
  PROVE  /\ MbQueues(d, q, z, w)
         /\ \A x \in Sides : Tally(d, z, w, x) = IF x = g THEN Tally(c, z, w, x) - 1
                                                 ELSE Tally(c, z, w, x)
<1>1. c \in [Sides -> Int] /\ c[g] \in Int
  BY Zenon DEF MbQueues
<1>2. d \in [Sides -> Int] /\ d[g] = c[g] - 1 /\ \A x \in Sides \ {g} : d[x] = c[x]
  BY <1>1 DEF MbTake
<1>3. \A x \in Sides : Len(q[x]) = IF d[x] < 0 THEN -d[x] ELSE 0
  <2>1. \A x \in Sides : Len(q[x]) = IF c[x] < 0 THEN -c[x] ELSE 0
    BY Zenon DEF MbQueues
  <2>2. QED
    BY <2>1, <1>1, <1>2
<1>4. MbQueues(d, q, z, w)
  BY <1>2, <1>3, Zenon DEF MbQueues
<1>5. Tally(d, z, w, g) = Tally(c, z, w, g) - 1
  <2>1. Cardinality(MbWoken(z, w, g)) \in Nat
    BY <1>1, TallyNat, Zenon
  <2>2. QED
    BY <2>1, <1>1, <1>2 DEF Tally
<1>6. \A x \in Sides \ {g} : Tally(d, z, w, x) = Tally(c, z, w, x)
  BY <1>2, Zenon DEF Tally
<1>7. QED
  BY <1>4, <1>5, <1>6, Zenon

(* y differs from z, and v from w, at t only.                                *)
MbOnly(z, w, t, y, v) ==
  /\ y \in [Thread \cup {Isr} -> {"idle", "wait", "woken"}] /\ y[Isr] = "idle"
  /\ v \in [Thread -> Sides]
  /\ \A u \in Thread \ {t} : y[u] = z[u] /\ v[u] = w[u]

(* A thread was a, and is b.                                                 *)
MbTurns(z, y, t, a, b) == z[t] = a /\ y[t] = b

(* There is nothing of g; t waits for g.                                     *)
MbNone(c, g) == c[g] <= 0

MbAwaits(v, t, g) == v[t] = g

(* There is as much of everything as before.                                 *)
MbKept(c, z, w, d, y, v) == \A x \in Sides : Tally(d, y, v, x) = Tally(c, z, w, x)

(* There is one less of g.                                                   *)
MbGone(c, z, w, g, y, v) ==
  \A x \in Sides : Tally(c, y, v, x) = IF x = g THEN Tally(c, z, w, x) - 1
                                        ELSE Tally(c, z, w, x)

(* A woken thread runs, and is idle.                                         *)
LEMMA MbRuns ==
  ASSUME MbGiven, NEW c, NEW q, NEW z, NEW w, MbQueues(c, q, z, w), NEW t \in Thread,
         NEW y, NEW v, MbOnly(z, w, t, y, v), MbTurns(z, y, t, "woken", "idle")
  PROVE  MbQueues(c, q, y, v) /\ MbGone(c, z, w, w[t], y, v)
<1> USE DEF MbTurns
<1>1. c \in [Sides -> Int] /\ q \in [Sides -> Seq(Thread)] /\ w \in [Thread -> Sides]
  BY Zenon DEF MbQueues
<1>2. \A x \in Sides : \A i \in 1..Len(q[x]) :
        q[x][i] \in Thread /\ z[q[x][i]] = "wait" /\ w[q[x][i]] = x
  BY SMTT(20) DEF MbQueues
<1>3. \A x \in Sides : \A i \in 1..Len(q[x]) : y[q[x][i]] = "wait" /\ v[q[x][i]] = x
  BY <1>2 DEF MbOnly
<1>4. \A u \in Thread : y[u] = "wait" => \E i \in 1..Len(q[v[u]]) : q[v[u]][i] = u
  <2>1. \A u \in Thread : z[u] = "wait" => \E i \in 1..Len(q[w[u]]) : q[w[u]][i] = u
    BY Zenon DEF MbQueues
  <2>2. \A u \in Thread : y[u] = "wait" => z[u] = "wait" /\ v[u] = w[u]
    BY Zenon DEF MbOnly
  <2>3. QED
    BY <2>1, <2>2
<1>5. MbQueues(c, q, y, v)
  BY <1>3, <1>4, Zenon DEF MbQueues, MbOnly
<1>6. MbWoken(z, w, w[t]) = MbWoken(y, v, w[t]) \cup {t} /\ t \notin MbWoken(y, v, w[t])
  BY Zenon DEF MbWoken, MbOnly
<1>7. \A x \in Sides \ {w[t]} : MbWoken(y, v, x) = MbWoken(z, w, x)
  BY Zenon DEF MbWoken, MbOnly
<1>8. Tally(c, y, v, w[t]) = Tally(c, z, w, w[t]) - 1
  <2>1. Cardinality(MbWoken(z, w, w[t])) = Cardinality(MbWoken(y, v, w[t])) + 1
    <3>1. MbWoken(y, v, w[t]) \in SUBSET Thread
      BY Zenon DEF MbWoken
    <3>2. QED
      BY <3>1, <1>6, WokenCount, Zenon
  <2>2. w[t] \in Sides /\ c[w[t]] \in Int
    BY <1>1, Zenon
  <2>3. Cardinality(MbWoken(y, v, w[t])) \in Nat
    BY <1>1, <2>2, TallyNat, Zenon
  <2>4. QED
    BY <2>1, <2>2, <2>3 DEF Tally
<1>9. \A x \in Sides \ {w[t]} : Tally(c, y, v, x) = Tally(c, z, w, x)
  BY <1>7, Zenon DEF Tally
<1>10. QED
  BY <1>5, <1>8, <1>9, Zenon DEF MbGone

(* Who is not woken before or after is not counted.                          *)
LEMMA MbSameWoken ==
  ASSUME NEW z, NEW w, NEW t \in Thread, NEW y, NEW v, MbOnly(z, w, t, y, v),
         z[t] # "woken", y[t] # "woken", NEW x
  PROVE  MbWoken(y, v, x) = MbWoken(z, w, x)
  BY Zenon DEF MbWoken, MbOnly

(* One less of g, and t at the end of the queue                              *)
MbLess(c, q, g, t, d, r) ==
  d = [c EXCEPT ![g] = c[g] - 1] /\ r = [q EXCEPT ![g] = Append(q[g], t)]

(* One more of g, and the kth of its queue out of it                         *)
MbLeave(c, q, g, k, d, r) ==
  d = [c EXCEPT ![g] = c[g] + 1] /\ r = [q EXCEPT ![g] = MB!Without(q[g], k)]

(* The kth in the queue for g is t.                                          *)
MbAt(q, g, k, t) == k \in 1..Len(q[g]) /\ q[g][k] = t

(* A thread that is idle waits for g, at the end of the queue.               *)
LEMMA MbWaits ==
  ASSUME MbGiven, NEW c, NEW q, NEW z, NEW w, MbQueues(c, q, z, w), NEW t \in Thread,
         NEW g \in Sides, MbNone(c, g), NEW y, NEW v, MbOnly(z, w, t, y, v),
         MbTurns(z, y, t, "idle", "wait"), MbAwaits(v, t, g),
         NEW d, NEW r, MbLess(c, q, g, t, d, r)
  PROVE  MbQueues(d, r, y, v) /\ MbKept(c, z, w, d, y, v)
<1> USE DEF MbTurns, MbNone, MbAwaits
<1>0. /\ c \in [Sides -> Int] /\ q \in [Sides -> Seq(Thread)] /\ w \in [Thread -> Sides]
      /\ \A x \in Sides : c[x] \in Int /\ q[x] \in Seq(Thread) /\ Len(q[x]) \in Nat
      /\ \A x \in Sides : \A i \in 1..Len(q[x]) :
           q[x][i] \in Thread /\ z[q[x][i]] = "wait" /\ w[q[x][i]] = x
  <2>1. MbPlain(c, q, z, w)
    BY MbWaiting, Zenon
  <2>2. QED
    BY <2>1, Zenon DEF MbPlain
<1>1. /\ c \in [Sides -> Int] /\ q \in [Sides -> Seq(Thread)] /\ w \in [Thread -> Sides]
      /\ \A x \in Sides : c[x] \in Int /\ q[x] \in Seq(Thread) /\ Len(q[x]) \in Nat
  BY <1>0, Zenon
<1>2. \A x \in Sides : Len(q[x]) = IF c[x] < 0 THEN -c[x] ELSE 0
  BY Zenon DEF MbQueues
<1>3. \A x \in Sides : \A i \in 1..Len(q[x]) :
        q[x][i] \in Thread /\ q[x][i] # t /\ z[q[x][i]] = "wait" /\ w[q[x][i]] = x
  BY <1>0, ZenonT(30)
<1>4. d \in [Sides -> Int] /\ d[g] = c[g] - 1 /\ \A x \in Sides \ {g} : d[x] = c[x]
  BY <1>1 DEF MbLess
<1>5. /\ r \in [Sides -> Seq(Thread)] /\ r[g] = Append(q[g], t)
      /\ \A x \in Sides \ {g} : r[x] = q[x]
  BY <1>1 DEF MbLess
<1>6. /\ Len(r[g]) = Len(q[g]) + 1 /\ r[g][Len(q[g]) + 1] = t
      /\ \A i \in 1..Len(q[g]) : r[g][i] = q[g][i]
  BY <1>1, <1>5
<1>7. \A x \in Sides : Len(r[x]) = IF d[x] < 0 THEN -d[x] ELSE 0
  <2>1. Len(r[g]) = IF d[g] < 0 THEN -d[g] ELSE 0
    <3>1. c[g] \in Int /\ Len(q[g]) = IF c[g] < 0 THEN -c[g] ELSE 0
      BY <1>1, <1>2, Zenon
    <3>2. Len(r[g]) = Len(q[g]) + 1 /\ d[g] = c[g] - 1
      BY <1>4, <1>6, Zenon
    <3>3. QED
      BY <3>1, <3>2
  <2>2. QED
    BY <2>1, <1>2, <1>4, <1>5, Zenon
<1>8. ASSUME NEW x \in Sides, NEW i \in 1..Len(r[x])
      PROVE  \/ x = g /\ i = Len(q[g]) + 1 /\ r[x][i] = t
             \/ i \in 1..Len(q[x]) /\ r[x][i] = q[x][i]
  <2>1. CASE x = g
    <3>1. i = Len(q[g]) + 1 \/ i \in 1..Len(q[g])
      BY <2>1, <1>1, <1>6
    <3>2. QED
      BY <2>1, <3>1, <1>6, Zenon
  <2>2. CASE x # g
    BY <2>2, <1>5, Zenon
  <2>3. QED
    BY <2>1, <2>2, Zenon
<1>9. ASSUME NEW x \in Sides, NEW i \in 1..Len(r[x])
      PROVE  y[r[x][i]] = "wait" /\ v[r[x][i]] = x
  <2>1. CASE x = g /\ r[x][i] = t
    BY <2>1, Zenon
  <2>2. CASE i \in 1..Len(q[x]) /\ r[x][i] = q[x][i]
    <3>1. q[x][i] \in Thread \ {t} /\ z[q[x][i]] = "wait" /\ w[q[x][i]] = x
      BY <2>2, <1>3, Zenon
    <3>2. QED
      BY <2>2, <3>1, Zenon DEF MbOnly
  <2>3. QED
    BY <2>1, <2>2, <1>8, Zenon
<1>10. ASSUME NEW x \in Sides, NEW i \in 1..Len(r[x]), NEW j \in 1..Len(r[x]), r[x][i] = r[x][j]
       PROVE  i = j
  <2>1. \A k, n \in 1..Len(q[x]) : q[x][k] = q[x][n] => k = n
    BY Zenon DEF MbQueues
  <2>2. QED
    BY <2>1, <1>3, <1>8, <1>10, SMTT(20)
<1>11. ASSUME NEW u \in Thread, y[u] = "wait"
       PROVE  \E i \in 1..Len(r[v[u]]) : r[v[u]][i] = u
  <2>1. CASE u = t
    <3>1. Len(q[g]) + 1 \in 1..Len(r[g])
      BY <1>1, <1>6
    <3>2. QED
      BY <2>1, <3>1, <1>6, Zenon
  <2>2. CASE u # t
    <3>1. z[u] = "wait" /\ v[u] = w[u] /\ w[u] \in Sides
      BY <1>1, <1>11, <2>2, Zenon DEF MbOnly
    <3>2. PICK i \in 1..Len(q[w[u]]) : q[w[u]][i] = u
      BY <3>1, Zenon DEF MbQueues
    <3>3. i \in 1..Len(r[w[u]]) /\ r[w[u]][i] = u
      <4>1. CASE w[u] = g
        <5>1. i \in 1..Len(q[g]) /\ q[g][i] = u
          BY <4>1, <3>2, Zenon
        <5>2. i \in 1..Len(r[g])
          BY <5>1, <1>1, <1>6
        <5>3. r[g][i] = q[g][i]
          BY <5>1, <1>1, <1>6, Zenon
        <5>4. QED
          BY <4>1, <5>1, <5>2, <5>3, Zenon
      <4>2. CASE w[u] # g
        BY <4>2, <3>1, <3>2, <1>5, Zenon
      <4>3. QED
        BY <4>1, <4>2, Zenon
    <3>4. QED
      BY <3>1, <3>3, Zenon
  <2>3. QED
    BY <2>1, <2>2, Zenon
<1>12. MbQueues(d, r, y, v)
  BY <1>4, <1>5, <1>7, <1>9, <1>10, <1>11, Zenon DEF MbQueues, MbOnly
<1>13. ASSUME NEW x \in Sides PROVE Tally(d, y, v, x) = Tally(c, z, w, x)
  <2>1. (IF d[x] > 0 THEN d[x] ELSE 0) = (IF c[x] > 0 THEN c[x] ELSE 0)
    BY <1>1, <1>4
  <2>2. QED
    BY <2>1, MbSameWoken DEF Tally
<1>14. QED
  BY <1>12, <1>13, Zenon DEF MbKept

(* The time of a thread that waits runs out: it leaves the queue.            *)
LEMMA MbTimedOut ==
  ASSUME MbGiven, NEW c, NEW q, NEW z, NEW w, MbQueues(c, q, z, w), NEW t \in Thread,
         NEW k, MbAt(q, w[t], k, t), NEW y, NEW v, MbOnly(z, w, t, y, v),
         MbTurns(z, y, t, "wait", "idle"), NEW d, NEW r, MbLeave(c, q, w[t], k, d, r)
  PROVE  MbQueues(d, r, y, v) /\ MbKept(c, z, w, d, y, v)
<1> USE DEF MbTurns
<1>0. /\ c \in [Sides -> Int] /\ q \in [Sides -> Seq(Thread)] /\ w \in [Thread -> Sides]
      /\ \A x \in Sides : c[x] \in Int /\ q[x] \in Seq(Thread) /\ Len(q[x]) \in Nat
      /\ \A x \in Sides : \A i \in 1..Len(q[x]) :
           q[x][i] \in Thread /\ z[q[x][i]] = "wait" /\ w[q[x][i]] = x
  <2>1. MbPlain(c, q, z, w)
    BY MbWaiting, Zenon
  <2>2. QED
    BY <2>1, Zenon DEF MbPlain
<1>1. /\ c \in [Sides -> Int] /\ q \in [Sides -> Seq(Thread)] /\ w \in [Thread -> Sides]
      /\ \A x \in Sides : c[x] \in Int /\ q[x] \in Seq(Thread) /\ Len(q[x]) \in Nat
  BY <1>0, Zenon
<1>2. \A x \in Sides : Len(q[x]) = IF c[x] < 0 THEN -c[x] ELSE 0
  BY Zenon DEF MbQueues
<1>3. \A x \in Sides : \A i \in 1..Len(q[x]) :
        q[x][i] \in Thread /\ z[q[x][i]] = "wait" /\ w[q[x][i]] = x
  BY <1>0, Zenon
<1>4. PICK g \in Sides : g = w[t]
  BY <1>1, Zenon
<1>5. d \in [Sides -> Int] /\ d[g] = c[g] + 1 /\ \A x \in Sides \ {g} : d[x] = c[x]
  BY <1>1, <1>4 DEF MbLeave
<1>6. PICK p : p = MB!Without(q[g], k)
  OBVIOUS
<1>7. p = [i \in 1..(Len(q[g]) - 1) |-> IF i < k THEN q[g][i] ELSE q[g][i + 1]]
  BY <1>6, Zenon DEF MB!Without
<1>8. k \in 1..Len(q[g]) /\ q[g][k] = t /\ Len(q[g]) > 0 /\ Len(q[g]) - 1 \in Nat
  <2>1. Len(q[g]) \in Nat
    BY <1>1, Zenon
  <2>2. k \in 1..Len(q[g]) /\ q[g][k] = t
    BY <1>4, Zenon DEF MbAt
  <2>3. QED
    BY <2>1, <2>2
<1>9. \A i \in 1..(Len(q[g]) - 1) : i \in 1..Len(q[g]) /\ i + 1 \in 1..Len(q[g])
  <2>1. Len(q[g]) \in Nat
    BY <1>1, Zenon
  <2>2. QED
    BY <2>1
<1>10. p \in Seq(Thread) /\ Len(p) = Len(q[g]) - 1
  <2>1. \A i \in 1..(Len(q[g]) - 1) : (IF i < k THEN q[g][i] ELSE q[g][i + 1]) \in Thread
    BY <1>3, <1>9, Zenon
  <2>2. QED
    BY <2>1, <1>7, <1>8
<1>11. /\ r \in [Sides -> Seq(Thread)] /\ r[g] = p
       /\ \A x \in Sides \ {g} : r[x] = q[x]
  BY <1>1, <1>4, <1>6, <1>10, Zenon DEF MbLeave
<1>12. \A x \in Sides : Len(r[x]) = IF d[x] < 0 THEN -d[x] ELSE 0
  <2>1. Len(r[g]) = IF d[g] < 0 THEN -d[g] ELSE 0
    <3>1. Len(q[g]) = -c[g] /\ c[g] \in Int /\ Len(q[g]) \in Nat
      BY <1>1, <1>2, <1>8
    <3>2. Len(r[g]) = Len(q[g]) - 1 /\ d[g] = c[g] + 1
      BY <1>5, <1>10, <1>11, Zenon
    <3>3. Len(q[g]) > 0
      BY <1>8, Zenon
    <3>4. QED
      BY <3>1, <3>2, <3>3
  <2>2. QED
    BY <2>1, <1>2, <1>5, <1>11, Zenon
<1>13. \A x \in Sides : \A i, j \in 1..Len(q[x]) : q[x][i] = q[x][j] => i = j
  BY Zenon DEF MbQueues
<1>14. ASSUME NEW x \in Sides, NEW i \in 1..Len(r[x])
       PROVE  \E n \in 1..Len(q[x]) : /\ r[x][i] = q[x][n] /\ q[x][n] # t
                                      /\ n = IF x = g /\ i >= k THEN i + 1 ELSE i
  <2>1. CASE x = g
    <3>1. PICK n \in 1..Len(q[g]) : n = IF i < k THEN i ELSE i + 1
      BY <2>1, <1>9, <1>10, <1>11, Zenon
    <3>2. r[g][i] = q[g][n]
      BY <2>1, <3>1, <1>7, <1>10, <1>11, Zenon
    <3>3. n # k
      BY <3>1, <1>8, <2>1, <1>10, <1>11
    <3>4. q[g][n] # t
      BY <3>3, <1>8, <1>13, Zenon
    <3>5. n = IF i >= k THEN i + 1 ELSE i
      BY <3>1, <1>8, <2>1, <1>10, <1>11
    <3>6. QED
      BY <2>1, <3>2, <3>4, <3>5, Zenon
  <2>2. CASE x # g
    <3>1. r[x] = q[x]
      BY <2>2, <1>11, Zenon
    <3>2. w[q[x][i]] = x
      BY <3>1, <1>3, Zenon
    <3>3. QED
      BY <2>2, <3>1, <3>2, <1>4, Zenon
  <2>3. QED
    BY <2>1, <2>2, Zenon
<1>15. ASSUME NEW x \in Sides, NEW i \in 1..Len(r[x])
       PROVE  y[r[x][i]] = "wait" /\ v[r[x][i]] = x
  <2>1. PICK n \in 1..Len(q[x]) : r[x][i] = q[x][n] /\ q[x][n] # t
    BY <1>14, Zenon
  <2>2. q[x][n] \in Thread /\ z[q[x][n]] = "wait" /\ w[q[x][n]] = x
    BY <1>3, Zenon
  <2>3. QED
    BY <2>1, <2>2, Zenon DEF MbOnly
<1>16. ASSUME NEW x \in Sides, NEW i \in 1..Len(r[x]), NEW j \in 1..Len(r[x]), r[x][i] = r[x][j]
       PROVE  i = j
  <2>1. PICK n \in 1..Len(q[x]) : /\ r[x][i] = q[x][n]
                                  /\ n = IF x = g /\ i >= k THEN i + 1 ELSE i
    BY <1>14, Zenon
  <2>2. PICK m \in 1..Len(q[x]) : /\ r[x][j] = q[x][m]
                                  /\ m = IF x = g /\ j >= k THEN j + 1 ELSE j
    BY <1>14, Zenon
  <2>3. q[x][n] = q[x][m]
    BY <1>16, <2>1, <2>2, Zenon
  <2>4. n = m
    BY <2>3, <1>13, Zenon
  <2>5. i \in Int /\ j \in Int /\ k \in Int
    BY <1>8
  <2>6. QED
    BY <2>1, <2>2, <2>4, <2>5
<1>17. ASSUME NEW u \in Thread, y[u] = "wait"
       PROVE  \E i \in 1..Len(r[v[u]]) : r[v[u]][i] = u
  <2>1. u # t /\ z[u] = "wait" /\ v[u] = w[u] /\ w[u] \in Sides
    BY <1>1, <1>17, Zenon DEF MbOnly
  <2>2. PICK n \in 1..Len(q[w[u]]) : q[w[u]][n] = u
    BY <2>1, Zenon DEF MbQueues
  <2>3. CASE w[u] = g
    <3>1. n # k /\ n \in 1..Len(q[g]) /\ q[g][n] = u
      BY <2>1, <2>2, <2>3, <1>8, Zenon
    <3>2. CASE n < k
      <4>1. n \in 1..Len(p) /\ p[n] = u
        BY <3>1, <3>2, <1>1, <1>7, <1>8, <1>10
      <4>2. QED
        BY <4>1, <2>1, <2>3, <1>11, Zenon
    <3>3. CASE n > k
      <4>1. n - 1 \in 1..Len(p) /\ ~(n - 1 < k) /\ (n - 1) + 1 = n
        BY <3>1, <3>3, <1>1, <1>8, <1>10
      <4>2. p[n - 1] = u
        BY <4>1, <3>1, <1>7, <1>10, Zenon
      <4>3. QED
        BY <4>1, <4>2, <2>1, <2>3, <1>11, Zenon
    <3>4. QED
      BY <3>1, <3>2, <3>3, <1>1, <1>8
  <2>4. CASE w[u] # g
    BY <2>1, <2>2, <2>4, <1>11, Zenon
  <2>5. QED
    BY <2>3, <2>4, Zenon
<1>18. MbQueues(d, r, y, v)
  BY <1>5, <1>11, <1>12, <1>15, <1>16, <1>17, Zenon DEF MbQueues, MbOnly
<1>19. ASSUME NEW x \in Sides PROVE Tally(d, y, v, x) = Tally(c, z, w, x)
  <2>1. (IF d[x] > 0 THEN d[x] ELSE 0) = (IF c[x] > 0 THEN c[x] ELSE 0)
    <3>1. c[g] < 0
      BY <1>1, <1>2, <1>8
    <3>2. CASE x = g
      <4>1. c[g] \in Int /\ d[g] = c[g] + 1
        BY <1>1, <1>5, Zenon
      <4>2. QED
        BY <4>1, <3>1, <3>2
    <3>3. CASE x # g
      BY <3>3, <1>5, Zenon
    <3>4. QED
      BY <3>2, <3>3, Zenon
  <2>2. QED
    BY <2>1, MbSameWoken DEF Tally
<1>20. QED
  BY <1>18, <1>19, Zenon DEF MbKept

-----------------------------------------------------------------------------
(* The ring                                                                  *)

(* The place i of the ring                                                   *)
Place(i) == i % Size

(* Places are those of the buffer; once around is where it was.              *)
LEMMA Places ==
  ASSUME Size \in Nat \ {0}, NEW i \in 0..(2 * Size - 1)
  PROVE  /\ Place(i) \in 0..(Size - 1)
         /\ Place(i) = IF i < Size THEN i ELSE i - Size
<1>1. CASE i < Size
  BY <1>1 DEF Place
<1>2. CASE i >= Size
  <2>1. i = (i - Size) + Size /\ i - Size \in 0..(Size - 1)
    BY <1>2
  <2>2. ((i - Size) + Size) % Size = i - Size
    BY <2>1
  <2>3. QED
    BY <1>2, <2>1, <2>2 DEF Place
<1>3. QED
  BY <1>1, <1>2

(* One back from a                                                           *)
LEMMA PlaceBefore ==
  ASSUME Size \in Nat \ {0}, NEW a \in 0..(Size - 1)
  PROVE  (a - 1) % Size = IF a = 0 THEN Size - 1 ELSE a - 1
<1>1. CASE a = 0
  BY <1>1
<1>2. CASE a # 0
  BY <1>2
<1>3. QED
  BY <1>1, <1>2, Zenon

(* The n messages of buffer b from f on                                      *)
MbRing(b, f, n) == [k \in 1..n |-> b[Place(f + k - 1)]]

(* A place and a number of messages of a mailbox                             *)
MbSpan(f, n) == Size \in Nat \ {0} /\ f \in 0..(Size - 1) /\ n \in 0..Size

(* What the ring is, message by message                                      *)
RingOf(M, b, f, n) ==
  /\ MbRing(b, f, n) \in Seq(M) /\ Len(MbRing(b, f, n)) = n
  /\ \A k \in 1..n : /\ Place(f + k - 1) \in 0..(Size - 1)
                     /\ MbRing(b, f, n)[k] = b[Place(f + k - 1)]

(* A ring is a sequence, and its messages are in the buffer.                 *)
LEMMA RingSeq ==
  ASSUME NEW M, NEW b \in [0..(Size - 1) -> M], NEW f, NEW n, MbSpan(f, n)
  PROVE  RingOf(M, b, f, n)
<1>1. \A k \in 1..n : f + k - 1 \in 0..(2 * Size - 1)
  BY DEF MbSpan
<1>2. \A k \in 1..n : Place(f + k - 1) \in 0..(Size - 1)
  BY <1>1, Places, Zenon DEF MbSpan
<1>3. \A k \in 1..n : b[Place(f + k - 1)] \in M
  BY <1>2, Zenon
<1>4. n \in Nat
  BY DEF MbSpan
<1>5. MbRing(b, f, n) \in Seq(M) /\ Len(MbRing(b, f, n)) = n
  BY <1>3, <1>4 DEF MbRing
<1>6. \A k \in 1..n : MbRing(b, f, n)[k] = b[Place(f + k - 1)]
  BY Zenon DEF MbRing
<1>7. QED
  BY <1>2, <1>5, <1>6, Zenon DEF RingOf

(* r is q with m at its end, or at its front.                                *)
Behind(q, r, m) ==
  Len(r) = Len(q) + 1 /\ (\A k \in 1..Len(q) : r[k] = q[k]) /\ r[Len(q) + 1] = m

Ahead(q, r, m) ==
  Len(r) = Len(q) + 1 /\ (\A k \in 1..Len(q) : r[k + 1] = q[k]) /\ r[1] = m

(* A sequence with one more at its end                                       *)
LEMMA IsAppend ==
  ASSUME NEW M, NEW q \in Seq(M), NEW r \in Seq(M), NEW m \in M, Behind(q, r, m)
  PROVE  r = Append(q, m)
  BY DEF Behind

(* A sequence with one more at its front                                     *)
LEMMA IsAhead ==
  ASSUME NEW M, NEW q \in Seq(M), NEW r \in Seq(M), NEW m \in M, Ahead(q, r, m)
  PROVE  r = <<m>> \o q
<1>1. /\ <<m>> \o q \in Seq(M) /\ Len(<<m>> \o q) = Len(q) + 1 /\ Len(q) \in Nat
      /\ \A k \in 1..(Len(q) + 1) : (<<m>> \o q)[k] = IF k = 1 THEN m ELSE q[k - 1]
  OBVIOUS
<1>2. ASSUME NEW k \in 1..(Len(q) + 1) PROVE r[k] = (<<m>> \o q)[k]
  <2>1. CASE k = 1
    BY <2>1, <1>1, Zenon DEF Ahead
  <2>2. CASE k # 1
    <3>1. k - 1 \in 1..Len(q) /\ (k - 1) + 1 = k
      BY <2>2, <1>1
    <3>2. QED
      BY <2>2, <3>1, <1>1, Zenon DEF Ahead
  <2>3. QED
    BY <2>1, <2>2, Zenon
<1>3. QED
  BY <1>1, <1>2 DEF Ahead

(* Buffer b with m at place e                                                *)
MbPuts(b, e, m, d) == d = [b EXCEPT ![e] = m]

(* A message put behind the others                                           *)
LEMMA RingPut ==
  ASSUME NEW M, NEW b \in [0..(Size - 1) -> M], NEW f, NEW n, MbSpan(f, n), n < Size,
         NEW m \in M, NEW e, e = Place(f + n), NEW d, MbPuts(b, e, m, d)
  PROVE  /\ d \in [0..(Size - 1) -> M] /\ e \in 0..(Size - 1)
         /\ MbRing(d, f, n + 1) = Append(MbRing(b, f, n), m)
         /\ Place(e + 1) = Place(f + (n + 1))
<1>1. /\ Size \in Nat \ {0} /\ f \in 0..(Size - 1) /\ n \in 0..(Size - 1)
      /\ f + n \in 0..(2 * Size - 1) /\ f + (n + 1) \in 0..(2 * Size - 1)
  BY DEF MbSpan
<1>2. e \in 0..(Size - 1) /\ e = IF f + n < Size THEN f + n ELSE f + n - Size
  BY <1>1, Places
<1>3. d \in [0..(Size - 1) -> M] /\ d[e] = m /\ \A i \in 0..(Size - 1) : i # e => d[i] = b[i]
  BY <1>2, Zenon DEF MbPuts
<1>4. MbSpan(f, n + 1)
  BY <1>1 DEF MbSpan
<1>5. RingOf(M, b, f, n)
  BY RingSeq, Zenon
<1>6. RingOf(M, d, f, n + 1)
  BY <1>3, <1>4, RingSeq, Zenon
<1>7. ASSUME NEW k \in 1..n
      PROVE  MbRing(d, f, n + 1)[k] = MbRing(b, f, n)[k]
  <2>1. f + k - 1 \in 0..(2 * Size - 1) /\ k \in 1..(n + 1)
    BY <1>1
  <2>2. Place(f + k - 1) = IF f + k - 1 < Size THEN f + k - 1 ELSE f + k - 1 - Size
    BY <2>1, <1>1, Places
  <2>3. Place(f + k - 1) # e
    BY <2>2, <1>1, <1>2
  <2>4. MbRing(d, f, n + 1)[k] = d[Place(f + k - 1)]
    BY <2>1, <1>6, Zenon DEF RingOf
  <2>5. QED
    BY <2>3, <2>4, <1>3, <1>5, Zenon DEF RingOf
<1>8. MbRing(d, f, n + 1)[n + 1] = m
  <2>1. f + (n + 1) - 1 = f + n /\ n + 1 \in 1..(n + 1)
    BY <1>1
  <2>2. QED
    BY <2>1, <1>3, <1>6, Zenon DEF RingOf
<1>9. MbRing(d, f, n + 1) = Append(MbRing(b, f, n), m)
  <2>1. /\ MbRing(b, f, n) \in Seq(M) /\ Len(MbRing(b, f, n)) = n
        /\ MbRing(d, f, n + 1) \in Seq(M) /\ Len(MbRing(d, f, n + 1)) = n + 1
    BY <1>5, <1>6, Zenon DEF RingOf
  <2>2. Behind(MbRing(b, f, n), MbRing(d, f, n + 1), m)
    BY <2>1, <1>7, <1>8, Zenon DEF Behind
  <2>3. QED
    BY <2>1, <2>2, IsAppend, Zenon
<1>10. Place(e + 1) = Place(f + (n + 1))
  <2>1. e + 1 \in 0..(2 * Size - 1)
    BY <1>1, <1>2
  <2>2. Place(e + 1) = IF e + 1 < Size THEN e + 1 ELSE e + 1 - Size
    BY <2>1, <1>1, Places, SMTT(20)
  <2>3. Place(f + (n + 1)) = IF f + (n + 1) < Size THEN f + (n + 1) ELSE f + (n + 1) - Size
    BY <1>1, Places
  <2>4. QED
    BY <2>2, <2>3, <1>1, <1>2
<1>11. QED
  BY <1>2, <1>3, <1>9, <1>10, Zenon

(* The place before f                                                        *)
Before(f) == IF f = 0 THEN Size - 1 ELSE f - 1

(* Buffer d has m at e, before the n messages of b from f on.                *)
MbOneMore(M, b, f, n, m, e, d) ==
  /\ d \in [0..(Size - 1) -> M] /\ e \in 0..(Size - 1)
  /\ MbRing(d, e, n + 1) = <<m>> \o MbRing(b, f, n)
  /\ Place(e + (n + 1)) = Place(f + n)

(* A message put before the others                                           *)
LEMMA RingAhead ==
  ASSUME NEW M, NEW b \in [0..(Size - 1) -> M], NEW f, NEW n, MbSpan(f, n), n < Size,
         NEW m \in M, NEW e, e = Before(f),
         NEW d, MbPuts(b, e, m, d)
  PROVE  MbOneMore(M, b, f, n, m, e, d)
<1>1. Size \in Nat \ {0} /\ f \in 0..(Size - 1) /\ n \in 0..(Size - 1)
  BY DEF MbSpan
<1>2. e \in 0..(Size - 1)
  BY <1>1 DEF Before
<1>3. d \in [0..(Size - 1) -> M] /\ d[e] = m /\ \A i \in 0..(Size - 1) : i # e => d[i] = b[i]
  BY <1>2, Zenon DEF MbPuts
<1>4. MbSpan(e, n + 1)
  BY <1>1, <1>2 DEF MbSpan
<1>5. RingOf(M, b, f, n)
  BY RingSeq, Zenon
<1>6. RingOf(M, d, e, n + 1)
  BY <1>3, <1>4, RingSeq, Zenon
<1>7. MbRing(d, e, n + 1)[1] = m
  <2>1. e + 1 - 1 = e /\ e \in 0..(2 * Size - 1) /\ e < Size /\ 1 \in 1..(n + 1)
    BY <1>1, <1>2
  <2>2. Place(e) = e
    BY <2>1, <1>1, Places, Zenon
  <2>3. QED
    BY <2>1, <2>2, <1>3, <1>6, Zenon DEF RingOf
<1>8. ASSUME NEW k \in 0..n
      PROVE  /\ Place(e + (k + 1)) = Place(f + k)
             /\ k < n => Place(f + k) # e
  <2>1. e + (k + 1) \in 0..(2 * Size - 1) /\ f + k \in 0..(2 * Size - 1)
    BY <1>1, <1>2
  <2>2. Place(e + (k + 1)) = IF e + (k + 1) < Size THEN e + (k + 1) ELSE e + (k + 1) - Size
    BY <2>1, <1>1, <1>2, Places, SMTT(20)
  <2>3. Place(f + k) = IF f + k < Size THEN f + k ELSE f + k - Size
    BY <2>1, <1>1, Places
  <2>4. QED
    BY <2>2, <2>3, <1>1 DEF Before
<1>9. ASSUME NEW k \in 1..n
      PROVE  MbRing(d, e, n + 1)[k + 1] = MbRing(b, f, n)[k]
  <2>1. /\ k + 1 \in 1..(n + 1) /\ k - 1 \in 0..n /\ k - 1 < n
        /\ e + (k + 1) - 1 = e + ((k - 1) + 1) /\ f + k - 1 = f + (k - 1)
    BY <1>1, <1>2
  <2>2. Place(e + (k + 1) - 1) = Place(f + k - 1) /\ Place(f + k - 1) # e
    BY <2>1, <1>8, Zenon
  <2>3. MbRing(d, e, n + 1)[k + 1] = d[Place(e + (k + 1) - 1)]
    BY <2>1, <1>6, Zenon DEF RingOf
  <2>4. QED
    BY <2>2, <2>3, <1>3, <1>5, Zenon DEF RingOf
<1>10. MbRing(d, e, n + 1) = <<m>> \o MbRing(b, f, n)
  <2>1. /\ MbRing(b, f, n) \in Seq(M) /\ Len(MbRing(b, f, n)) = n
        /\ MbRing(d, e, n + 1) \in Seq(M) /\ Len(MbRing(d, e, n + 1)) = n + 1
    BY <1>5, <1>6, Zenon DEF RingOf
  <2>2. Ahead(MbRing(b, f, n), MbRing(d, e, n + 1), m)
    BY <2>1, <1>7, <1>9, Zenon DEF Ahead
  <2>3. QED
    BY <2>1, <2>2, IsAhead, Zenon
<1>11. Place(e + (n + 1)) = Place(f + n)
  <2>1. n \in 0..n
    BY <1>1
  <2>2. QED
    BY <2>1, <1>8, Zenon
<1>12. QED
  BY <1>2, <1>3, <1>10, <1>11, Zenon DEF MbOneMore

(* The first message taken                                                   *)
LEMMA RingTake ==
  ASSUME NEW M, NEW b \in [0..(Size - 1) -> M], NEW f, NEW n, MbSpan(f, n), n > 0,
         NEW e, e = Place(f + 1)
  PROVE  /\ MbRing(b, f, n) # <<>> /\ Head(MbRing(b, f, n)) = b[f]
         /\ MbRing(b, e, n - 1) = Tail(MbRing(b, f, n))
         /\ Place(e + (n - 1)) = Place(f + n) /\ e \in 0..(Size - 1)
<1>1. /\ Size \in Nat \ {0} /\ f \in 0..(Size - 1) /\ n \in 1..Size
      /\ f + 1 \in 0..(2 * Size - 1) /\ f \in 0..(2 * Size - 1) /\ f < Size
  BY DEF MbSpan
<1>2. e \in 0..(Size - 1) /\ e = IF f + 1 < Size THEN f + 1 ELSE f + 1 - Size
  BY <1>1, Places
<1>3. MbSpan(e, n - 1)
  BY <1>1, <1>2 DEF MbSpan
<1>4. RingOf(M, b, f, n)
  BY RingSeq, Zenon
<1>5. RingOf(M, b, e, n - 1)
  BY <1>3, RingSeq, Zenon
<1>6. MbRing(b, f, n) # <<>> /\ Head(MbRing(b, f, n)) = b[f]
  <2>1. f + 1 - 1 = f /\ 1 \in 1..n
    BY <1>1
  <2>2. Place(f) = f
    BY <1>1, Places, Zenon
  <2>3. QED
    BY <2>1, <2>2, <1>4 DEF RingOf
<1>7. ASSUME NEW k \in 0..(n - 1)
      PROVE  Place(e + k) = Place(f + (k + 1))
  <2>1. e + k \in 0..(2 * Size - 1) /\ f + (k + 1) \in 0..(2 * Size - 1)
    BY <1>1, <1>2
  <2>2. Place(e + k) = IF e + k < Size THEN e + k ELSE e + k - Size
    BY <2>1, <1>1, Places, SMTT(20)
  <2>3. Place(f + (k + 1)) = IF f + (k + 1) < Size THEN f + (k + 1) ELSE f + (k + 1) - Size
    BY <2>1, <1>1, Places, SMTT(20)
  <2>4. CASE f + 1 < Size
    BY <2>4, <2>2, <2>3, <1>1, <1>2
  <2>5. CASE ~(f + 1 < Size)
    <3>1. e = 0 /\ f + (k + 1) = Size + k /\ k < Size
      BY <2>5, <1>1, <1>2
    <3>2. QED
      BY <3>1, <2>2, <2>3, <1>1
  <2>6. QED
    BY <2>4, <2>5, Zenon
<1>8. ASSUME NEW k \in 1..(n - 1)
      PROVE  MbRing(b, e, n - 1)[k] = MbRing(b, f, n)[k + 1]
  <2>1. /\ k + 1 \in 1..n /\ k - 1 \in 0..(n - 1)
        /\ e + k - 1 = e + (k - 1) /\ f + (k + 1) - 1 = f + ((k - 1) + 1)
    BY <1>1, <1>2
  <2>2. Place(e + k - 1) = Place(f + (k + 1) - 1)
    BY <2>1, <1>7, Zenon
  <2>3. QED
    BY <2>1, <2>2, <1>4, <1>5, Zenon DEF RingOf
<1>9. MbRing(b, e, n - 1) = Tail(MbRing(b, f, n))
  <2>1. /\ MbRing(b, f, n) \in Seq(M) /\ Len(MbRing(b, f, n)) = n
        /\ MbRing(b, e, n - 1) \in Seq(M) /\ Len(MbRing(b, e, n - 1)) = n - 1
    BY <1>4, <1>5, Zenon DEF RingOf
  <2>2. QED
    BY <2>1, <1>1, <1>8
<1>10. Place(e + (n - 1)) = Place(f + n)
  <2>1. n - 1 \in 0..(n - 1) /\ (n - 1) + 1 = n
    BY <1>1
  <2>2. QED
    BY <2>1, <1>7, Zenon
<1>11. QED
  BY <1>2, <1>6, <1>9, <1>10, Zenon

-----------------------------------------------------------------------------
(* The mailbox                                                               *)

(* The semaphore that each thread would wait for                             *)
MbFor == [u \in Thread |-> MB!Waits(op[u])]

(* The messages there are: to be had, or with somebody woken for them        *)
MbMsgs == Tally(cnt, st, MbFor, "full")

MbBuffer ==
  /\ buf \in [0..(Size - 1) -> Msg \cup {NoMsg}] /\ got \in Msg \cup {NoMsg}
  /\ rd \in 0..(Size - 1) /\ wr \in 0..(Size - 1)

MbOp(o) == o \in MB!Op /\ (o.act # "fetch" => o.msg \in Msg)

(* What makes the mailbox sound: the queues agree with the counters, every   *)
(* slot is accounted for, and mb_wrptr is where the messages end.            *)
MbInv ==
  /\ MbBuffer
  /\ op \in [Thread -> MB!Op] /\ \A u \in Thread : MbOp(op[u])
  /\ MbQueues(cnt, queue, st, MbFor)
  /\ Tally(cnt, st, MbFor, "empty") + MbMsgs = Size
  /\ wr = Place(rd + MbMsgs)

(* The n messages there were become k: one is put or taken.                  *)
MbStep(n, k) ==
  \/ \E m \in Msg : /\ Len(MbRing(buf, rd, n)) < Size /\ got' = got
                    /\ \/ MbRing(buf', rd', k) = Append(MbRing(buf, rd, n), m)
                       \/ MbRing(buf', rd', k) = <<m>> \o MbRing(buf, rd, n)
  \/ /\ MbRing(buf, rd, n) # <<>> /\ got' = Head(MbRing(buf, rd, n))
     /\ MbRing(buf', rd', k) = Tail(MbRing(buf, rd, n))

(* There is a slot to put to, or a message to take.                          *)
MbRoom(o, n) == IF o.act = "fetch" THEN n > 0 ELSE n < Size

(* An access puts or takes a message, and the pointers stay where they       *)
(* belong.                                                                   *)
LEMMA MbAccess ==
  ASSUME MbGiven, MbBuffer, NEW o, MbOp(o), NEW n, MbSpan(rd, n), wr = Place(rd + n),
         MbRoom(o, n), MB!Access(o), NEW k, k = IF o.act = "fetch" THEN n - 1 ELSE n + 1
  PROVE  MbBuffer' /\ wr' = Place(rd' + k) /\ MbStep(n, k)
<1>1. PICK M : M = Msg \cup {NoMsg}
  BY Zenon
<1>2. /\ Size \in Nat \ {0} /\ rd \in 0..(Size - 1) /\ wr \in 0..(Size - 1) /\ n \in 0..Size
      /\ buf \in [0..(Size - 1) -> M] /\ got \in M
  BY <1>1, Zenon DEF MbBuffer, MbSpan
<1>3. RingOf(M, buf, rd, n)
  BY <1>2, RingSeq, Zenon
<1>4. CASE o.act = "post"
  <2>1. /\ buf' = [buf EXCEPT ![wr] = o.msg] /\ wr' = (wr + 1) % Size /\ rd' = rd /\ got' = got
        /\ o.msg \in Msg /\ o.msg \in M /\ n < Size /\ k = n + 1
    BY <1>1, <1>4, Zenon DEF MB!Access, MB!WriteBack, MbOp, MbRoom
  <2>2. /\ buf' \in [0..(Size - 1) -> M]
        /\ MbRing(buf', rd, n + 1) = Append(MbRing(buf, rd, n), o.msg)
        /\ Place(wr + 1) = Place(rd + (n + 1))
    <3>1. PICK m \in M : m = o.msg
      BY <2>1, Zenon
    <3>2. MbPuts(buf, wr, m, buf')
      BY <2>1, <3>1, Zenon DEF MbPuts
    <3>3. n < Size
      BY <2>1, Zenon
    <3>4. QED
      BY <3>1, <3>2, <3>3, <1>2, RingPut
  <2>3. wr + 1 \in 0..(2 * Size - 1)
    BY <1>2
  <2>4. wr' = Place(wr + 1) /\ wr' \in 0..(Size - 1)
    BY <2>1, <2>3, <1>2, Places, Zenon DEF Place
  <2>5. MbStep(n, k)
    BY <2>1, <2>2, <1>3, Zenon DEF MbStep, RingOf
  <2>6. QED
    BY <2>1, <2>2, <2>4, <2>5, <1>1, <1>2, Zenon DEF MbBuffer
<1>5. CASE o.act = "ahead"
  <2>1. /\ rd' = (rd - 1) % Size /\ buf' = [buf EXCEPT ![rd'] = o.msg] /\ wr' = wr /\ got' = got
        /\ o.msg \in Msg /\ o.msg \in M /\ n < Size /\ k = n + 1
    BY <1>1, <1>5, Zenon DEF MB!Access, MB!WriteAhead, MbOp, MbRoom
  <2>2. rd' = Before(rd)
    BY <2>1, <1>2, PlaceBefore, Zenon DEF Before
  <2>3. /\ buf' \in [0..(Size - 1) -> M] /\ rd' \in 0..(Size - 1)
        /\ MbRing(buf', rd', n + 1) = <<o.msg>> \o MbRing(buf, rd, n)
        /\ Place(rd' + (n + 1)) = Place(rd + n)
    <3>1. PICK m \in M : m = o.msg
      BY <2>1, Zenon
    <3>2. MbPuts(buf, rd', m, buf')
      BY <2>1, <3>1, Zenon DEF MbPuts
    <3>3. n < Size
      BY <2>1, Zenon
    <3>4. MbOneMore(M, buf, rd, n, m, rd', buf')
      BY <3>2, <3>3, <2>2, <1>2, RingAhead, Zenon
    <3>5. QED
      BY <3>1, <3>4, Zenon DEF MbOneMore
  <2>4. MbStep(n, k)
    BY <2>1, <2>3, <1>3, Zenon DEF MbStep, RingOf
  <2>5. QED
    BY <2>1, <2>3, <2>4, <1>1, <1>2, Zenon DEF MbBuffer
<1>6. CASE o.act = "fetch"
  <2>1. /\ got' = buf[rd] /\ rd' = (rd + 1) % Size /\ wr' = wr /\ buf' = buf
        /\ n > 0 /\ k = n - 1
    BY <1>6, Zenon DEF MB!Access, MB!ReadFront, MbRoom
  <2>2. rd' = Place(rd + 1)
    BY <2>1, Zenon DEF Place
  <2>3. /\ MbRing(buf, rd, n) # <<>> /\ Head(MbRing(buf, rd, n)) = buf[rd]
        /\ MbRing(buf, rd', n - 1) = Tail(MbRing(buf, rd, n))
        /\ Place(rd' + (n - 1)) = Place(rd + n) /\ rd' \in 0..(Size - 1)
    BY <2>1, <2>2, <1>2, RingTake, Zenon
  <2>4. MbStep(n, k)
    BY <2>1, <2>3, Zenon DEF MbStep
  <2>5. QED
    BY <2>1, <2>3, <2>4, <1>1, <1>2, Zenon DEF MbBuffer
<1>7. o.act \in {"post", "ahead", "fetch"}
  BY Zenon DEF MbOp, MB!Op
<1>8. QED
  BY <1>4, <1>5, <1>6, <1>7, Zenon

(* Of the slots and messages, o has one; with it there were n messages.      *)
MbHas(o, c, z, w, n) ==
  /\ Tally(c, z, w, "empty") + Tally(c, z, w, "full") = Size - 1
  /\ n = IF o.act = "fetch" THEN Tally(c, z, w, "full") + 1 ELSE Tally(c, z, w, "full")

(* What is so after a step, for the semaphores w that are waited for then    *)
MbThen(w) ==
  /\ MbBuffer' /\ MbQueues(cnt', queue', st', w)
  /\ Tally(cnt', st', w, "empty") + Tally(cnt', st', w, "full") = Size
  /\ wr' = Place(rd' + Tally(cnt', st', w, "full"))

(* An operation that has a slot, or a message, accesses the buffer and       *)
(* signals the other semaphore.                                              *)
LEMMA MbCompletes ==
  ASSUME MbGiven, MbBuffer, NEW o, MbOp(o), NEW c, NEW z, NEW w, MbQueues(c, queue, z, w),
         NEW n, MbHas(o, c, z, w, n), wr = Place(rd + n),
         MB!Access(o), MB!Signal(MB!Signals(o), c, z)
  PROVE  MbThen(w) /\ MbStep(n, Tally(cnt', st', w, "full"))
<1>1. c \in [Sides -> Int] /\ "empty" \in Sides /\ "full" \in Sides
  BY Zenon DEF MbQueues, Sides
<1>2. Tally(c, z, w, "empty") \in Nat /\ Tally(c, z, w, "full") \in Nat
  BY <1>1, TallyNat, Zenon
<1>3. Size \in Nat \ {0} /\ rd \in 0..(Size - 1)
  BY Zenon DEF MbGiven, MbBuffer
<1>4. MbSpan(rd, n) /\ MbRoom(o, n)
  BY <1>2, <1>3 DEF MbHas, MbSpan, MbRoom
<1>5. PICK g \in Sides : g = MB!Signals(o) /\ g = IF o.act = "fetch" THEN "empty" ELSE "full"
  BY Zenon DEF MB!Signals, Sides
<1>6. MbMore(c, queue, z, g, cnt', queue', st')
  BY <1>5, Zenon DEF MB!Signal, MbMore
<1>7. /\ MbQueues(cnt', queue', st', w)
      /\ \A x \in Sides : Tally(cnt', st', w, x) = IF x = g THEN Tally(c, z, w, x) + 1
                                                   ELSE Tally(c, z, w, x)
  BY <1>6, MbSignal
<1>8. PICK k : k = Tally(cnt', st', w, "full")
  OBVIOUS
<1>9. /\ k = IF o.act = "fetch" THEN n - 1 ELSE n + 1
      /\ Tally(cnt', st', w, "empty") + k = Size
  BY <1>1, <1>2, <1>3, <1>5, <1>7, <1>8 DEF MbHas
<1>10. MbBuffer' /\ wr' = Place(rd' + k) /\ MbStep(n, k)
  BY <1>4, <1>9, MbAccess, Zenon
<1>11. QED
  BY <1>7, <1>8, <1>9, <1>10, Zenon DEF MbThen

MbItems == MbRing(buf, rd, MbMsgs)

(* What may become of the messages                                           *)
MbGoes == \/ MbStep(MbMsgs, MbMsgs')
          \/ got' = got /\ (MbItems' = MbItems \/ MbItems' = <<>>)

(* The invariant after a step that leaves the operations in order.           *)
LEMMA MbAfter ==
  ASSUME MbThen(MbFor'), (op \in [Thread -> MB!Op] /\ \A u \in Thread : MbOp(op[u]))'
  PROVE  MbInv'
  BY Zenon DEF MbInv, MbThen, MbMsgs

(* An operation that finds a slot, or a message.                             *)
LEMMA MbAtOnce ==
  ASSUME MbGiven, MbInv, NEW t \in Thread \cup {Isr}, NEW o, MbOp(o), st[t] = "idle",
         cnt[MB!Waits(o)] > 0, op' = op,
         MB!Complete(t, o, [cnt EXCEPT ![MB!Waits(o)] = @ - 1])
  PROVE  MbInv' /\ MbGoes
<1>1. /\ MbBuffer /\ MbQueues(cnt, queue, st, MbFor)
      /\ Tally(cnt, st, MbFor, "empty") + Tally(cnt, st, MbFor, "full") = Size
      /\ wr = Place(rd + Tally(cnt, st, MbFor, "full"))
  BY Zenon DEF MbInv, MbMsgs
<1>2. PICK g \in Sides : g = MB!Waits(o) /\ g = IF o.act = "fetch" THEN "full" ELSE "empty"
  BY Zenon DEF MB!Waits, Sides
<1>3. PICK c : MbTake(cnt, g, c)
  BY Zenon DEF MbTake
<1>4. [st EXCEPT ![t] = "idle"] = st
  BY <1>1 DEF MbQueues
<1>5. MB!Access(o) /\ MB!Signal(MB!Signals(o), c, st)
  BY <1>2, <1>3, <1>4, Zenon DEF MB!Complete, MbTake
<1>6. /\ MbQueues(c, queue, st, MbFor)
      /\ \A x \in Sides : Tally(c, st, MbFor, x) = IF x = g THEN Tally(cnt, st, MbFor, x) - 1
                                                   ELSE Tally(cnt, st, MbFor, x)
  <2>1. cnt[g] > 0
    BY <1>2, Zenon
  <2>2. QED
    BY <2>1, <1>1, <1>3, MbTaken
<1>7. PICK n : n = Tally(cnt, st, MbFor, "full")
  OBVIOUS
<1>8. MbHas(o, c, st, MbFor, n)
  <2>1. cnt \in [Sides -> Int] /\ "empty" \in Sides /\ "full" \in Sides
    BY <1>1, Zenon DEF MbQueues, Sides
  <2>2. Tally(cnt, st, MbFor, "empty") \in Nat /\ Tally(cnt, st, MbFor, "full") \in Nat
    BY <2>1, TallyNat, Zenon
  <2>3. QED
    BY <2>1, <2>2, <1>1, <1>2, <1>6, <1>7 DEF MbHas
<1>9. MbFor' = MbFor
  BY Zenon DEF MbFor
<1>10. MbThen(MbFor) /\ MbStep(n, Tally(cnt', st', MbFor, "full"))
  BY <1>1, <1>5, <1>6, <1>7, <1>8, MbCompletes, Zenon
<1>11. MbInv'
  <2>1. (op \in [Thread -> MB!Op] /\ \A u \in Thread : MbOp(op[u]))'
    BY Zenon DEF MbInv
  <2>2. QED
    BY <2>1, <1>9, <1>10, MbAfter, Zenon
<1>12. MbStep(MbMsgs, MbMsgs')
  BY <1>7, <1>9, <1>10, Zenon DEF MbMsgs
<1>13. QED
  BY <1>11, <1>12, Zenon DEF MbGoes

(* What a step does that does not touch the buffer                           *)
LEMMA MbIdleStep ==
  ASSUME MbInv, UNCHANGED <<buf, rd, wr, got>>,
         (op \in [Thread -> MB!Op] /\ \A u \in Thread : MbOp(op[u]))',
         MbQueues(cnt', queue', st', MbFor'), MbKept(cnt, st, MbFor, cnt', st', MbFor')
  PROVE  MbInv' /\ MbGoes
<1>1. "empty" \in Sides /\ "full" \in Sides
  BY Zenon DEF Sides
<1>2. /\ Tally(cnt', st', MbFor', "empty") = Tally(cnt, st, MbFor, "empty")
      /\ Tally(cnt', st', MbFor', "full") = Tally(cnt, st, MbFor, "full")
  BY <1>1, Zenon DEF MbKept
<1>3. MbThen(MbFor')
  BY <1>2, Zenon DEF MbInv, MbThen, MbBuffer, MbMsgs
<1>4. MbMsgs' = MbMsgs
  BY <1>2, Zenon DEF MbMsgs
<1>5. MbItems' = MbItems
  BY <1>4, Zenon DEF MbItems
<1>6. QED
  BY <1>3, <1>5, MbAfter, Zenon DEF MbGoes

(* An operation that finds no slot, or no message, waits.                    *)
MbToWait(t, o) == /\ st[t] = "idle" /\ cnt[MB!Waits(o)] <= 0
                  /\ cnt' = [cnt EXCEPT ![MB!Waits(o)] = @ - 1]
                  /\ queue' = [queue EXCEPT ![MB!Waits(o)] = Append(@, t)]
                  /\ st' = [st EXCEPT ![t] = "wait"] /\ op' = [op EXCEPT ![t] = o]
                  /\ UNCHANGED <<buf, rd, wr, got>>

(* Its thread joins the queue of the semaphore.                              *)
LEMMA MbBeginsToWait ==
  ASSUME MbGiven, MbInv, NEW t \in Thread, NEW o, MbOp(o), MbToWait(t, o)
  PROVE  MbInv' /\ MbGoes
<1>1. /\ MbQueues(cnt, queue, st, MbFor) /\ op \in [Thread -> MB!Op]
      /\ \A u \in Thread : MbOp(op[u])
  BY Zenon DEF MbInv
<1>2. PICK g \in Sides : g = MB!Waits(o)
  BY Zenon DEF MB!Waits, Sides
<1>3. MbLess(cnt, queue, g, t, cnt', queue') /\ cnt[g] <= 0
  BY <1>2, Zenon DEF MbLess, MbToWait
<1>4. (op \in [Thread -> MB!Op] /\ \A u \in Thread : MbOp(op[u]))'
  BY <1>1, Zenon DEF MbOp, MbToWait
<1>5. /\ MbFor' \in [Thread -> Sides] /\ MbFor'[t] = g
      /\ \A u \in Thread \ {t} : MbFor'[u] = MbFor[u]
  BY <1>1, <1>2, Zenon DEF MbFor, MB!Waits, Sides, MbToWait
<1>6. MbOnly(st, MbFor, t, st', MbFor') /\ st'[t] = "wait"
  <2>1. /\ st \in [Thread \cup {Isr} -> {"idle", "wait", "woken"}]
        /\ st[Isr] = "idle" /\ t # Isr
    BY <1>1, Zenon DEF MbQueues, MbGiven
  <2>2. QED
    BY <2>1, <1>5, Zenon DEF MbOnly, MbToWait
<1>7. MbQueues(cnt', queue', st', MbFor') /\ MbKept(cnt, st, MbFor, cnt', st', MbFor')
  <2>1. MbTurns(st, st', t, "idle", "wait") /\ MbNone(cnt, g) /\ MbAwaits(MbFor', t, g)
    BY <1>3, <1>5, <1>6, Zenon DEF MbToWait, MbTurns, MbNone, MbAwaits
  <2>2. MbQueues(cnt, queue, st, MbFor) /\ MbOnly(st, MbFor, t, st', MbFor')
    BY <1>1, <1>6, Zenon
  <2>3. QED
    BY <2>1, <2>2, <1>3, MbWaits, Zenon
<1>8. UNCHANGED <<buf, rd, wr, got>>
  BY Zenon DEF MbToWait
<1>9. QED
  BY <1>4, <1>7, <1>8, MbIdleStep, Zenon

(* A thread is taken out of its operation: it is idle then.                  *)
LEMMA MbLeaves ==
  ASSUME MbGiven, MbInv, NEW t \in Thread, NEW y, y = [st EXCEPT ![t] = "idle"],
         op' = [op EXCEPT ![t] = MB!NoOp]
  PROVE  /\ (op \in [Thread -> MB!Op] /\ \A u \in Thread : MbOp(op[u]))'
         /\ MbOnly(st, MbFor, t, y, MbFor') /\ y[t] = "idle"
<1>1. /\ MbQueues(cnt, queue, st, MbFor) /\ op \in [Thread -> MB!Op]
      /\ \A u \in Thread : MbOp(op[u])
  BY Zenon DEF MbInv
<1>2. MbOp(MB!NoOp)
  BY Zenon DEF MbOp, MB!NoOp, MB!Op
<1>3. (op \in [Thread -> MB!Op] /\ \A u \in Thread : MbOp(op[u]))'
  BY <1>1, <1>2, Zenon DEF MbOp
<1>4. MbFor' \in [Thread -> Sides] /\ \A u \in Thread \ {t} : MbFor'[u] = MbFor[u]
  BY <1>1, Zenon DEF MbFor, MB!Waits, Sides
<1>5. /\ st \in [Thread \cup {Isr} -> {"idle", "wait", "woken"}]
      /\ st[Isr] = "idle" /\ t # Isr
  BY <1>1, Zenon DEF MbQueues, MbGiven
<1>6. QED
  BY <1>3, <1>4, <1>5, Zenon DEF MbOnly

(* A woken thread completes its operation.                                   *)
LEMMA MbResumes ==
  ASSUME MbGiven, MbInv, NEW t \in Thread, MB!Resume(t)
  PROVE  MbInv' /\ MbGoes
<1>1. /\ MbBuffer /\ MbQueues(cnt, queue, st, MbFor)
      /\ Tally(cnt, st, MbFor, "empty") + Tally(cnt, st, MbFor, "full") = Size
      /\ wr = Place(rd + Tally(cnt, st, MbFor, "full")) /\ MbOp(op[t])
  BY Zenon DEF MbInv, MbMsgs
<1>2. PICK y : y = [st EXCEPT ![t] = "idle"]
  BY Zenon
<1>3. /\ st[t] = "woken" /\ MB!Access(op[t]) /\ MB!Signal(MB!Signals(op[t]), cnt, y)
      /\ op' = [op EXCEPT ![t] = MB!NoOp]
  BY <1>2, Zenon DEF MB!Resume, MB!Complete
<1>4. /\ (op \in [Thread -> MB!Op] /\ \A u \in Thread : MbOp(op[u]))'
      /\ MbOnly(st, MbFor, t, y, MbFor') /\ y[t] = "idle"
  BY <1>2, <1>3, MbLeaves, Zenon
<1>5. MbFor[t] = IF op[t].act = "fetch" THEN "full" ELSE "empty"
  BY Zenon DEF MbFor, MB!Waits
<1>6. MbQueues(cnt, queue, y, MbFor') /\ MbGone(cnt, st, MbFor, MbFor[t], y, MbFor')
  <2>1. MbTurns(st, y, t, "woken", "idle") /\ MbOnly(st, MbFor, t, y, MbFor')
    BY <1>3, <1>4, Zenon DEF MbTurns
  <2>2. QED
    BY <2>1, <1>1, MbRuns, Zenon
<1>7. PICK n : n = Tally(cnt, st, MbFor, "full")
  OBVIOUS
<1>8. MbHas(op[t], cnt, y, MbFor', n)
  <2>1. cnt \in [Sides -> Int] /\ "empty" \in Sides /\ "full" \in Sides
    BY <1>1, Zenon DEF MbQueues, Sides
  <2>2. Tally(cnt, st, MbFor, "empty") \in Nat /\ Tally(cnt, st, MbFor, "full") \in Nat
    BY <2>1, TallyNat, Zenon
  <2>3. /\ Tally(cnt, y, MbFor', "empty") = IF MbFor[t] = "empty"
                                            THEN Tally(cnt, st, MbFor, "empty") - 1
                                            ELSE Tally(cnt, st, MbFor, "empty")
        /\ Tally(cnt, y, MbFor', "full") = IF MbFor[t] = "full"
                                           THEN Tally(cnt, st, MbFor, "full") - 1
                                           ELSE Tally(cnt, st, MbFor, "full")
    BY <2>1, <1>6, Zenon DEF MbGone
  <2>4. CASE op[t].act = "fetch"
    <3>1. /\ Tally(cnt, y, MbFor', "empty") = Tally(cnt, st, MbFor, "empty")
          /\ Tally(cnt, y, MbFor', "full") = Tally(cnt, st, MbFor, "full") - 1
      BY <2>3, <2>4, <1>5, Zenon
    <3>2. QED
      BY <3>1, <2>2, <2>4, <1>1, <1>7 DEF MbHas
  <2>5. CASE op[t].act # "fetch"
    <3>1. /\ Tally(cnt, y, MbFor', "empty") = Tally(cnt, st, MbFor, "empty") - 1
          /\ Tally(cnt, y, MbFor', "full") = Tally(cnt, st, MbFor, "full")
      BY <2>3, <2>5, <1>5, Zenon
    <3>2. QED
      BY <3>1, <2>2, <2>5, <1>1, <1>7 DEF MbHas
  <2>6. QED
    BY <2>4, <2>5, Zenon
<1>9. MbThen(MbFor') /\ MbStep(n, Tally(cnt', st', MbFor', "full"))
  BY <1>1, <1>3, <1>6, <1>7, <1>8, MbCompletes, Zenon
<1>10. MbInv'
  BY <1>4, <1>9, MbAfter, Zenon
<1>11. MbStep(MbMsgs, MbMsgs')
  BY <1>7, <1>9, Zenon DEF MbMsgs
<1>12. QED
  BY <1>10, <1>11, Zenon DEF MbGoes

(* A thread waits no longer.                                                 *)
LEMMA MbGivesUp ==
  ASSUME MbGiven, MbInv, NEW t \in Thread, MB!TimedOut(t)
  PROVE  MbInv' /\ MbGoes
<1>1. MbQueues(cnt, queue, st, MbFor)
  BY Zenon DEF MbInv
<1>2. PICK g : g = MB!Waits(op[t])
  OBVIOUS
<1>3. PICK k : /\ k \in 1..Len(queue[g]) /\ queue[g][k] = t
               /\ queue' = [queue EXCEPT ![g] = MB!Without(queue[g], k)]
  BY <1>2, Zenon DEF MB!TimedOut
<1>4. /\ st[t] = "wait" /\ cnt' = [cnt EXCEPT ![g] = cnt[g] + 1]
      /\ st' = [st EXCEPT ![t] = "idle"] /\ op' = [op EXCEPT ![t] = MB!NoOp]
      /\ UNCHANGED <<buf, rd, wr, got>>
  BY <1>2, Zenon DEF MB!TimedOut
<1>5. MbFor[t] = g
  BY <1>2, Zenon DEF MbFor
<1>6. MbAt(queue, MbFor[t], k, t) /\ MbLeave(cnt, queue, MbFor[t], k, cnt', queue')
  BY <1>3, <1>4, <1>5, Zenon DEF MbAt, MbLeave
<1>7. /\ (op \in [Thread -> MB!Op] /\ \A u \in Thread : MbOp(op[u]))'
      /\ MbOnly(st, MbFor, t, st', MbFor') /\ st'[t] = "idle"
  BY <1>4, MbLeaves, Zenon
<1>8. MbQueues(cnt', queue', st', MbFor') /\ MbKept(cnt, st, MbFor, cnt', st', MbFor')
  <2>1. MbTurns(st, st', t, "wait", "idle")
    BY <1>4, <1>7, Zenon DEF MbTurns
  <2>2. MbOnly(st, MbFor, t, st', MbFor')
    BY <1>7, Zenon
  <2>3. QED
    BY <2>1, <2>2, <1>1, <1>6, MbTimedOut, Zenon
<1>9. QED
  BY <1>4, <1>7, <1>8, MbIdleStep, Zenon

(* A reset: nobody was woken, so that all slots are free then.               *)
LEMMA MbResets ==
  ASSUME MbGiven, MbInv, MB!Reset
  PROVE  MbInv' /\ MbGoes
<1>1. /\ MbQueues(cnt, queue, st, MbFor) /\ MbBuffer /\ op \in [Thread -> MB!Op]
      /\ \A u \in Thread : MbOp(op[u])
  BY Zenon DEF MbInv
<1>2. st \in [Thread \cup {Isr} -> {"idle", "wait", "woken"}] /\ st[Isr] = "idle"
  BY <1>1, Zenon DEF MbQueues
<1>3. /\ st' \in [Thread \cup {Isr} -> {"idle", "wait", "woken"}]
      /\ \A u \in Thread \cup {Isr} : st'[u] = "idle"
  BY <1>2, Zenon DEF MB!Reset, MB!Caller
<1>4. /\ cnt' \in [Sides -> Int] /\ cnt'["empty"] = Size /\ cnt'["full"] = 0
      /\ queue' \in [Sides -> Seq(Thread)]
      /\ \A x \in Sides : Len(queue'[x]) = 0
  <2>1. /\ cnt' = [empty |-> Size, full |-> 0] /\ Size \in Nat
        /\ queue' = [empty |-> <<>>, full |-> <<>>]
    BY Zenon DEF MB!Reset, MbGiven
  <2>2. cnt' \in [Sides -> Int] /\ cnt'["empty"] = Size /\ cnt'["full"] = 0
    BY <2>1 DEF Sides
  <2>3. /\ queue' \in [Sides -> Seq(Thread)]
        /\ \A x \in Sides : Len(queue'[x]) = 0
    <3>1. queue'["empty"] = <<>> /\ queue'["full"] = <<>>
      BY <2>1, Zenon
    <3>2. queue' = [x \in Sides |-> queue'[x]]
      BY <2>1, Zenon DEF Sides
    <3>3. \A x \in Sides : queue'[x] = <<>>
      BY <3>1, Zenon DEF Sides
    <3>4. <<>> \in Seq(Thread) /\ Len(<<>>) = 0
      OBVIOUS
    <3>5. \A x \in Sides : queue'[x] \in Seq(Thread) /\ Len(queue'[x]) = 0
      BY <3>3, <3>4, Zenon
    <3>6. QED
      BY <3>2, <3>5, Zenon
  <2>4. QED
    BY <2>2, <2>3, Zenon
<1>5. (op \in [Thread -> MB!Op] /\ \A u \in Thread : MbOp(op[u]))'
  <2>1. MbOp(MB!NoOp)
    BY Zenon DEF MbOp, MB!NoOp, MB!Op
  <2>2. op' = [t \in Thread |-> IF st[t] = "wait" THEN MB!NoOp ELSE op[t]]
    BY Zenon DEF MB!Reset
  <2>3. QED
    BY <2>1, <2>2, <1>1, Zenon DEF MbOp
<1>6. MbFor' \in [Thread -> Sides]
  BY Zenon DEF MbFor, MB!Waits, Sides
<1>7. MbQueues(cnt', queue', st', MbFor')
  BY <1>3, <1>4, <1>6 DEF MbQueues, Sides, MbGiven
<1>8. \A x \in Sides : Tally(cnt', st', MbFor', x) = cnt'[x]
  <2>1. \A x \in Sides : MbWoken(st', MbFor', x) = {}
    BY <1>3, Zenon DEF MbWoken
  <2>2. Cardinality({}) = 0
    BY Zenon DEF MbGiven, FiniteSetFacts
  <2>3. cnt'["empty"] \in Nat /\ cnt'["full"] \in Nat
    BY <1>4 DEF MbGiven
  <2>4. QED
    BY <2>1, <2>2, <2>3 DEF Tally, Sides
<1>9. Tally(cnt', st', MbFor', "empty") = Size /\ Tally(cnt', st', MbFor', "full") = 0
  BY <1>4, <1>8, Zenon DEF Sides
<1>10. rd' = 0 /\ wr' = 0 /\ buf' = buf /\ got' = got
  BY Zenon DEF MB!Reset
<1>11. MbBuffer' /\ wr' = Place(rd' + 0)
  BY <1>1, <1>10 DEF MbBuffer, Place, MbGiven
<1>12. MbThen(MbFor')
  BY <1>7, <1>9, <1>11 DEF MbThen, MbGiven
<1>13. MbItems' = <<>>
  <2>1. MbMsgs' = 0
    BY <1>9, Zenon DEF MbMsgs
  <2>2. QED
    BY <2>1 DEF MbItems, MbRing
<1>14. QED
  BY <1>5, <1>10, <1>12, <1>13, MbAfter, Zenon DEF MbGoes

(* An operation of a thread, or of an interrupt handler, begins.             *)
LEMMA MbBegins ==
  ASSUME MbGiven, MbInv, NEW t \in Thread \cup {Isr}, NEW mayWait \in BOOLEAN,
         mayWait => t \in Thread, MB!Call(t, mayWait)
  PROVE  MbInv' /\ MbGoes
<1>1. PICK o : MbOp(o) /\ MB!Begin(t, o, mayWait)
  BY Zenon DEF MB!Call, MbOp, MB!Op
<1>2. st[t] = "idle"
  BY <1>1, Zenon DEF MB!Begin
<1>3. CASE /\ cnt[MB!Waits(o)] > 0 /\ op' = op
           /\ MB!Complete(t, o, [cnt EXCEPT ![MB!Waits(o)] = @ - 1])
  BY <1>1, <1>2, <1>3, MbAtOnce, Zenon
<1>4. CASE mayWait /\ MbToWait(t, o)
  BY <1>1, <1>4, MbBeginsToWait, Zenon
<1>5. QED
  BY <1>1, <1>3, <1>4, Zenon DEF MB!Begin, MbToWait

(* Every step keeps the mailbox sound.                                       *)
LEMMA MbNext ==
  ASSUME MbGiven, MbInv, MB!Next
  PROVE  MbInv' /\ MbGoes
<1>1. ASSUME NEW t \in Thread, MB!Call(t, TRUE)
      PROVE  MbInv' /\ MbGoes
  BY <1>1, MbBegins, Zenon
<1>2. CASE MB!Call(Isr, FALSE)
  BY <1>2, MbBegins, Zenon
<1>3. QED
  BY <1>1, <1>2, MbResumes, MbGivesUp, MbResets, Zenon DEF MB!Next

(* A mailbox is sound, and empty, at the start.                              *)
LEMMA MbStarts ==
  ASSUME MbGiven, MB!Init
  PROVE  MbInv /\ MbItems = <<>>
<1>1. /\ st \in [Thread \cup {Isr} -> {"idle", "wait", "woken"}]
      /\ \A u \in Thread \cup {Isr} : st[u] = "idle"
  BY Zenon DEF MB!Init, MB!Caller
<1>2. /\ cnt \in [Sides -> Int] /\ cnt["empty"] = Size /\ cnt["full"] = 0
      /\ queue \in [Sides -> Seq(Thread)]
      /\ \A x \in Sides : Len(queue[x]) = 0
  BY SMTT(20) DEF MB!Init, Sides, MbGiven
<1>3. op \in [Thread -> MB!Op] /\ \A u \in Thread : MbOp(op[u])
  <2>1. MbOp(MB!NoOp)
    BY Zenon DEF MbOp, MB!NoOp, MB!Op
  <2>2. op = [t \in Thread |-> MB!NoOp]
    BY Zenon DEF MB!Init
  <2>3. QED
    BY <2>1, <2>2, Zenon DEF MbOp
<1>4. MbFor \in [Thread -> Sides]
  BY Zenon DEF MbFor, MB!Waits, Sides
<1>5. MbQueues(cnt, queue, st, MbFor)
  BY <1>1, <1>2, <1>4 DEF MbQueues, Sides, MbGiven
<1>6. \A x \in Sides : Tally(cnt, st, MbFor, x) = cnt[x]
  <2>1. \A x \in Sides : MbWoken(st, MbFor, x) = {}
    BY <1>1, Zenon DEF MbWoken
  <2>2. Cardinality({}) = 0
    BY Zenon DEF MbGiven, FiniteSetFacts
  <2>3. cnt["empty"] \in Nat /\ cnt["full"] \in Nat
    BY <1>2 DEF MbGiven
  <2>4. QED
    BY <2>1, <2>2, <2>3 DEF Tally, Sides
<1>7. Tally(cnt, st, MbFor, "empty") = Size /\ MbMsgs = 0
  BY <1>2, <1>6, Zenon DEF Sides, MbMsgs
<1>8. MbBuffer /\ wr = Place(rd + 0)
  BY DEF MB!Init, MbBuffer, Place, MbGiven
<1>9. MbItems = <<>>
  BY <1>7 DEF MbItems, MbRing
<1>10. QED
  BY <1>3, <1>5, <1>7, <1>8, <1>9 DEF MbInv, MbGiven

(* A number of members is the same there and here.                           *)
LEMMA SameCard == \A S : MB!Cardinality(S) = Cardinality(S)
  BY Zenon DEF MB!Cardinality, Cardinality, MB!IsFiniteSet, IsFiniteSet

(* Every slot is accounted for, and who waits is in the queue it waits in.   *)
LEMMA MbSays ==
  ASSUME MbGiven, MbInv
  PROVE  MB!SlotsAddUp /\ MB!NoLostWakeup
<1>1. MbQueues(cnt, queue, st, MbFor)
  BY Zenon DEF MbInv
<1>2. \A u \in Thread : MbFor[u] = MB!Waits(op[u])
  BY Zenon DEF MbFor
<1>3. \A x \in Sides : Tally(cnt, st, MbFor, x) = MB!Available(x) + Cardinality(MB!Woken(x))
  <2>1. \A x : MbWoken(st, MbFor, x) = MB!Woken(x)
    BY <1>2, Zenon DEF MbWoken, MB!Woken
  <2>2. QED
    BY <2>1, Zenon DEF Tally, MB!Available
<1>4. MB!NoLostWakeup
  <2>1. \A x \in Sides : queue[x] \in Seq(Thread) /\ cnt[x] \in Int /\ Len(queue[x]) \in Nat
    BY <1>1 DEF MbQueues
  <2>2. \A x \in Sides : Len(queue[x]) = IF cnt[x] < 0 THEN -cnt[x] ELSE 0
    BY <1>1, Zenon DEF MbQueues
  <2>3. \A x \in Sides : /\ queue[x] # <<>> => cnt[x] = -Len(queue[x])
                         /\ queue[x] = <<>> => cnt[x] >= 0
    BY <2>1, <2>2
  <2>4. \A x \in Sides : \A t \in Thread :
          (st[t] = "wait" /\ MB!Waits(op[t]) = x) <=> \E k \in 1..Len(queue[x]) : queue[x][k] = t
    <3>1. \A x \in Sides : \A k \in 1..Len(queue[x]) :
            st[queue[x][k]] = "wait" /\ MbFor[queue[x][k]] = x
      BY <1>1, Zenon DEF MbQueues
    <3>2. \A t \in Thread : st[t] = "wait" =>
            \E k \in 1..Len(queue[MbFor[t]]) : queue[MbFor[t]][k] = t
      BY <1>1, Zenon DEF MbQueues
    <3>3. QED
      BY <3>1, <3>2, <1>2
  <2>5. QED
    BY <2>3, <2>4, Zenon DEF MB!NoLostWakeup, Sides
<1>5. MB!SlotsAddUp
  <2>1. /\ MB!Available("empty") \in Int /\ MB!Available("full") \in Int
    BY <1>1 DEF MbQueues, MB!Available, Sides
  <2>2. /\ Cardinality(MB!Woken("empty")) \in Int /\ Cardinality(MB!Woken("full")) \in Int
    BY WokenCount DEF MB!Woken
  <2>3. Tally(cnt, st, MbFor, "empty") + Tally(cnt, st, MbFor, "full") = Size
    BY Zenon DEF MbInv, MbMsgs
  <2>4. QED
    BY <2>1, <2>2, <2>3, <1>3, SameCard DEF MB!SlotsAddUp, Sides
<1>6. QED
  BY <1>4, <1>5, Zenon

(* The mailbox keeps its types, and a counter stays in its range.            *)
LEMMA MbTyped ==
  ASSUME MbGiven, OneEach, MbInv
  PROVE  MB!TypeOK
<1>1. MbQueues(cnt, queue, st, MbFor) /\ MbBuffer /\ op \in [Thread -> MB!Op]
  BY Zenon DEF MbInv
<1>2. cnt \in [Sides -> Int] /\ queue \in [Sides -> Seq(Thread)]
  BY <1>1, Zenon DEF MbQueues
<1>3. ASSUME NEW x \in Sides
      PROVE  cnt[x] \in -Cardinality(Thread)..Size
  <2>1. Cardinality(Thread) \in Nat
    BY Zenon DEF MbGiven, FiniteSetFacts
  <2>2. cnt[x] <= Size
    <3>1. /\ Tally(cnt, st, MbFor, "empty") \in Nat
          /\ Tally(cnt, st, MbFor, "full") \in Nat
      BY <1>2, TallyNat, Zenon DEF Sides
    <3>2. Tally(cnt, st, MbFor, "empty") + Tally(cnt, st, MbFor, "full") = Size
      BY Zenon DEF MbInv, MbMsgs
    <3>3. Size \in Nat
      BY Zenon DEF MbGiven
    <3>4. Tally(cnt, st, MbFor, x) <= Size
      BY <3>1, <3>2, <3>3 DEF Sides
    <3>5. Cardinality(MbWoken(st, MbFor, x)) \in Nat /\ cnt[x] \in Int
      BY <1>2, WokenCount, Zenon DEF MbWoken
    <3>6. QED
      BY <3>3, <3>4, <3>5 DEF Tally
  <2>3. -Cardinality(Thread) <= cnt[x]
    <3>1. PICK q \in Seq(Thread) : q = queue[x]
      BY <1>2, Zenon
    <3>2. q \in [1..Len(q) -> Thread] /\ Len(q) \in Nat
      BY <3>1
    <3>3. \A i, j \in 1..Len(q) : q[i] = q[j] => i = j
      BY <1>1, <3>1, Zenon DEF MbQueues
    <3>4. Len(q) <= Cardinality(Thread)
      BY <3>2, <3>3, Zenon DEF OneEach, MbGiven
    <3>5. cnt[x] \in Int /\ Len(q) = IF cnt[x] < 0 THEN -cnt[x] ELSE 0
      BY <1>1, <3>1, Zenon DEF MbQueues
    <3>6. QED
      BY <2>1, <3>4, <3>5
  <2>4. cnt[x] \in Int /\ Size \in Nat
    BY <1>2, Zenon DEF MbGiven
  <2>5. QED
    BY <2>1, <2>2, <2>3, <2>4
<1>4. cnt \in [Sides -> -Cardinality(Thread)..Size]
  BY <1>2, <1>3, Zenon
<1>5. st \in [Thread \cup {Isr} -> {"idle", "wait", "woken"}] /\ st[Isr] = "idle"
  BY <1>1, Zenon DEF MbQueues
<1>6. QED
  BY <1>1, <1>2, <1>4, <1>5, SameCard, Zenon DEF MB!TypeOK, MbBuffer, Sides, MB!Caller

(* What the abstract queue holds                                             *)
LEMMA MbContents ==
  ASSUME MbGiven, MbInv
  PROVE  MB!Contents = MbItems
<1>1. \A u \in Thread : MbFor[u] = MB!Waits(op[u])
  BY Zenon DEF MbFor
<1>2. MbWoken(st, MbFor, "full") = MB!Woken("full")
  BY <1>1, Zenon DEF MbWoken, MB!Woken
<1>3. MB!Available("full") + Cardinality(MB!Woken("full")) = MbMsgs
  BY <1>2, Zenon DEF MbMsgs, Tally, MB!Available
<1>4. QED
  BY <1>3, SameCard, Zenon DEF MB!Contents, MbItems, MbRing, Place

(* The same of the next state                                                *)
LEMMA MbThenContents ==
  ASSUME MbGiven, MbInv'
  PROVE  MB!Contents' = MbItems'
<1>1. \A u \in Thread : MbFor'[u] = MB!Waits(op[u])'
  BY Zenon DEF MbFor
<1>2. MbWoken(st', MbFor', "full") = MB!Woken("full")'
  BY <1>1, Zenon DEF MbWoken, MB!Woken
<1>3. (MB!Available("full") + Cardinality(MB!Woken("full")))' = MbMsgs'
  BY <1>2, Zenon DEF MbMsgs, Tally, MB!Available
<1>4. QED
  BY <1>3, SameCard, Zenon DEF MB!Contents, MbItems, MbRing, Place

(* The mailbox is a queue: its first state and its steps are those of one.   *)
LEMMA MbQueue ==
  MbGiven =>
    /\ MB!Init => MbInv /\ MB!Q!Init
    /\ MbInv /\ [MB!Next]_(MB!vars) => MbInv' /\ [MB!Q!Next]_(MB!Q!vars)
<1> SUFFICES ASSUME MbGiven
             PROVE  /\ MB!Init => MbInv /\ MB!Q!Init
                    /\ MbInv /\ [MB!Next]_(MB!vars) => MbInv' /\ [MB!Q!Next]_(MB!Q!vars)
  OBVIOUS
<1>1. ASSUME MB!Init
      PROVE  MbInv /\ MB!Q!Init
  <2>1. MbInv /\ MB!Contents = <<>>
    BY <1>1, MbStarts, MbContents, Zenon
  <2>2. got = NoMsg
    BY <1>1, Zenon DEF MB!Init
  <2>3. QED
    BY <2>1, <2>2, Zenon DEF MB!Q!Init
<1>2. ASSUME MbInv, MB!Next
      PROVE  MbInv' /\ [MB!Q!Next]_(MB!Q!vars)
  <2>1. MbInv' /\ MbGoes
    BY <1>2, MbNext, Zenon
  <2>2. MB!Contents = MbItems
    BY <1>2, MbContents, Zenon
  <2>3. MB!Contents' = MbItems'
    BY <2>1, MbThenContents, Zenon
  <2>4. QED
    BY <2>1, <2>2, <2>3, Zenon
       DEF MbGoes, MbStep, MbItems, MB!Q!Next, MB!Q!Put, MB!Q!PutAhead, MB!Q!Take, MB!Q!Clear,
           MB!Q!vars
<1>3. ASSUME MbInv, UNCHANGED MB!vars
      PROVE  MbInv' /\ UNCHANGED MB!Q!vars
  <2>1. MbInv'
    BY <1>3, Zenon DEF MbInv, MbBuffer, MbFor, MbMsgs, MB!vars
  <2>2. MB!Contents' = MB!Contents /\ got' = got
    BY <1>3, Zenon DEF MB!vars, MB!Contents, MB!Available, MB!Woken
  <2>3. QED
    BY <2>1, <2>2, Zenon DEF MB!Q!vars
<1>4. QED
  BY <1>1, <1>2, <1>3, Zenon

=============================================================================
