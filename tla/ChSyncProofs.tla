---------------------------- MODULE ChSyncProofs ----------------------------
(***************************************************************************)
(* Dynamic threads, counting semaphores and synchronous messages: what     *)
(* their steps keep, for any number of threads.                            *)
(***************************************************************************)
EXTENDS Integers, Sequences, FiniteSets, Counts, TLAPS

CONSTANTS None, Obj, Actor, Root, MaxRefs,
          Thread, Sem, MaxCnt

VARIABLES state, refs, newer, older, pc, tp, seen, at, has, early, overlap,
          semCnt, semQueue, semMsg,
          senders, msgSt, peer, to

TH == INSTANCE ChThreads

(***************************************************************************)
(*                             Dynamic threads                             *)
(***************************************************************************)

-----------------------------------------------------------------------------
(* The registry as a list                                                    *)

(* The place k of the list l of n threads; the root is before and behind it. *)
Spot(n, l, k) == IF k \in 1..n THEN l[k] ELSE Root

(* A list of different threads                                               *)
ThLine(n, l) == /\ n \in Nat /\ l \in [1..n -> Obj]
                /\ \A i, j \in 1..n : l[i] = l[j] => i = j

ThOlder(n, l, od) ==
  /\ od \in [Obj \cup {Root} -> Obj \cup {Root}]
  /\ \A k \in 0..n : od[Spot(n, l, k + 1)] = Spot(n, l, k)

(* The links nw and od go through the list, in both directions.              *)
Chain(n, l, nw, od) ==
  /\ ThLine(n, l) /\ ThOlder(n, l, od)
  /\ nw \in [Obj \cup {Root} -> Obj \cup {Root}]
  /\ \A k \in 0..n : nw[Spot(n, l, k)] = Spot(n, l, k + 1)

(* The same, but nw passes by the ith of them.                               *)
HalfChain(n, l, nw, od, i) ==
  /\ ThLine(n, l) /\ ThOlder(n, l, od) /\ i \in 1..n
  /\ nw \in [Obj \cup {Root} -> Obj \cup {Root}]
  /\ \A k \in 0..n : nw[Spot(n, l, k)] = Spot(n, l, IF k = i - 1 THEN k + 2 ELSE k + 1)

(* Different places are different threads, and none is the root.             *)
LEMMA Spots ==
  ASSUME Root \notin Obj, NEW n, NEW l, ThLine(n, l)
  PROVE  /\ \A k \in 1..n : Spot(n, l, k) = l[k] /\ l[k] \in Obj /\ l[k] # Root
         /\ Spot(n, l, 0) = Root /\ Spot(n, l, n + 1) = Root
         /\ \A j, k \in 0..n : Spot(n, l, j) = Spot(n, l, k) => j = k
         /\ \A j, k \in 1..(n + 1) : Spot(n, l, j) = Spot(n, l, k) => j = k
         /\ \A k \in 0..(n + 1) : Spot(n, l, k) \in Obj \cup {Root}
<1>1. n \in Nat /\ l \in [1..n -> Obj] /\ \A i, j \in 1..n : l[i] = l[j] => i = j
  BY Zenon DEF ThLine
<1>2. \A k \in 1..n : Spot(n, l, k) = l[k] /\ l[k] \in Obj /\ l[k] # Root
  BY <1>1 DEF Spot
<1>3. Spot(n, l, 0) = Root /\ Spot(n, l, n + 1) = Root
  BY <1>1 DEF Spot
<1>4. \A j, k \in 0..n : Spot(n, l, j) = Spot(n, l, k) => j = k
  <2> SUFFICES ASSUME NEW j \in 0..n, NEW k \in 0..n, Spot(n, l, j) = Spot(n, l, k)
               PROVE  j = k
    OBVIOUS
  <2>1. (j = 0 \/ j \in 1..n) /\ (k = 0 \/ k \in 1..n)
    BY <1>1
  <2>2. QED
    BY <2>1, <1>1, <1>2, <1>3
<1>5. \A j, k \in 1..(n + 1) : Spot(n, l, j) = Spot(n, l, k) => j = k
  <2> SUFFICES ASSUME NEW j \in 1..(n + 1), NEW k \in 1..(n + 1), Spot(n, l, j) = Spot(n, l, k)
               PROVE  j = k
    OBVIOUS
  <2>1. (j = n + 1 \/ j \in 1..n) /\ (k = n + 1 \/ k \in 1..n)
    BY <1>1
  <2>2. QED
    BY <2>1, <1>1, <1>2, <1>3
<1>6. \A k \in 0..(n + 1) : Spot(n, l, k) \in Obj \cup {Root}
  BY <1>1, Zenon DEF Spot
<1>7. QED
  BY <1>2, <1>3, <1>4, <1>5, <1>6, Zenon

(* What is newer than a thread of the list is another, or the root.          *)
LEMMA ChainNext ==
  ASSUME Root \notin Obj, NEW n, NEW l, NEW nw, NEW od, Chain(n, l, nw, od)
  PROVE  /\ nw[Root] # Root => \E i \in 1..n : l[i] = nw[Root]
         /\ \A k \in 1..n : /\ nw[l[k]] # l[k]
                            /\ nw[l[k]] # Root => \E i \in 1..n : l[i] = nw[l[k]]
<1>1. ThLine(n, l) /\ n \in Nat /\ \A k \in 0..n : nw[Spot(n, l, k)] = Spot(n, l, k + 1)
  BY Zenon DEF Chain, ThLine
<1>2. nw[Root] = Spot(n, l, 1)
  BY <1>1, Spots
<1>3. ASSUME NEW k \in 1..n
      PROVE  nw[l[k]] # l[k] /\ nw[l[k]] = Spot(n, l, k + 1)
  <2>1. Spot(n, l, k) = l[k] /\ k \in 0..n /\ k + 1 \in 1..(n + 1) /\ k \in 1..(n + 1) /\ k + 1 # k
    BY <1>1, Spots
  <2>2. QED
    BY <2>1, <1>1, Spots
<1>4. \A k : Spot(n, l, k) # Root => \E i \in 1..n : l[i] = Spot(n, l, k)
  BY Zenon DEF Spot
<1>5. QED
  BY <1>2, <1>3, <1>4

(* p is in the list.                                                         *)
ThIn(n, l, p) == \E i \in 1..n : l[i] = p

(* REG_INSERT                                                                *)
ThAdds(nw, od, o, nx, ox) == /\ nx = [nw EXCEPT ![o] = Root, ![od[Root]] = o]
                             /\ ox = [od EXCEPT ![o] = od[Root], ![Root] = o]

(* The list with o behind the others                                         *)
Longer(n, l, o) == [k \in 1..(n + 1) |-> IF k = n + 1 THEN o ELSE l[k]]

(* A thread that is inserted is the last.                                    *)
LEMMA ChainAdd ==
  ASSUME Root \notin Obj, NEW n, NEW l, NEW nw, NEW od, Chain(n, l, nw, od),
         NEW o \in Obj, ~ThIn(n, l, o), NEW nx, NEW ox, ThAdds(nw, od, o, nx, ox)
  PROVE  /\ Chain(n + 1, Longer(n, l, o), nx, ox)
         /\ \A p \in Obj : ThIn(n + 1, Longer(n, l, o), p) <=> p = o \/ ThIn(n, l, p)
<1>1. /\ ThLine(n, l) /\ n \in Nat /\ l \in [1..n -> Obj]
      /\ \A i, j \in 1..n : l[i] = l[j] => i = j
      /\ \A k \in 0..n : nw[Spot(n, l, k)] = Spot(n, l, k + 1)
      /\ \A k \in 0..n : od[Spot(n, l, k + 1)] = Spot(n, l, k)
      /\ nw \in [Obj \cup {Root} -> Obj \cup {Root}]
      /\ od \in [Obj \cup {Root} -> Obj \cup {Root}]
  BY Zenon DEF Chain, ThLine, ThOlder
<1>2. PICK r : r = Longer(n, l, o)
  OBVIOUS
<1>3. \A i \in 1..n : l[i] # o
  BY Zenon DEF ThIn
<1>4. /\ r \in [1..(n + 1) -> Obj] /\ r[n + 1] = o
      /\ \A k \in 1..n : r[k] = l[k]
  BY <1>1, <1>2 DEF Longer
<1>5. ThLine(n + 1, r)
  <2>1. \A i, j \in 1..(n + 1) : r[i] = r[j] => i = j
    <3> SUFFICES ASSUME NEW i \in 1..(n + 1), NEW j \in 1..(n + 1), r[i] = r[j]
                 PROVE  i = j
      OBVIOUS
    <3>1. (i = n + 1 \/ i \in 1..n) /\ (j = n + 1 \/ j \in 1..n)
      BY <1>1
    <3>2. QED
      BY <3>1, <1>1, <1>3, <1>4, Zenon
  <2>2. QED
    BY <2>1, <1>1, <1>4 DEF ThLine
<1>6. /\ \A k \in 0..n : Spot(n + 1, r, k) = Spot(n, l, k)
      /\ Spot(n + 1, r, n + 1) = o /\ Spot(n + 1, r, n + 2) = Root
  BY <1>1, <1>4 DEF Spot
<1>7. od[Root] = Spot(n, l, n) /\ od[Root] \in Obj \cup {Root} /\ o # Root
  BY <1>1, Spots
<1>8. \A k \in 0..n : Spot(n, l, k) # o
  BY <1>1, <1>3, <1>7, Zenon DEF Spot
<1>9. /\ nx \in [Obj \cup {Root} -> Obj \cup {Root}]
      /\ ox \in [Obj \cup {Root} -> Obj \cup {Root}]
      /\ nx[o] = Root /\ nx[Spot(n, l, n)] = o
      /\ \A p \in Obj \cup {Root} : p # o /\ p # Spot(n, l, n) => nx[p] = nw[p]
      /\ ox[o] = Spot(n, l, n) /\ ox[Root] = o
      /\ \A p \in Obj \cup {Root} : p # o /\ p # Root => ox[p] = od[p]
  <2>1. Spot(n, l, n) # o
    BY <1>1, <1>8
  <2>2. QED
    BY <2>1, <1>1, <1>7, Zenon DEF ThAdds
<1>10. ASSUME NEW k \in 0..(n + 1)
       PROVE  /\ nx[Spot(n + 1, r, k)] = Spot(n + 1, r, k + 1)
              /\ ox[Spot(n + 1, r, k + 1)] = Spot(n + 1, r, k)
  <2>1. CASE k = n + 1
    BY <2>1, <1>1, <1>6, <1>9
  <2>2. CASE k = n
    BY <2>2, <1>1, <1>6, <1>9
  <2>3. CASE k \in 0..(n - 1)
    <3>1. /\ k \in 0..n /\ k + 1 \in 0..n /\ k + 1 \in 1..n /\ n \in 0..n /\ k # n
      BY <2>3, <1>1
    <3>2. /\ Spot(n + 1, r, k) = Spot(n, l, k) /\ Spot(n + 1, r, k + 1) = Spot(n, l, k + 1)
      BY <3>1, <1>6, Zenon
    <3>3. /\ Spot(n, l, k) # o /\ Spot(n, l, k) # Spot(n, l, n) /\ Spot(n, l, k + 1) # o
          /\ Spot(n, l, k + 1) # Root /\ Spot(n, l, k + 1) \in Obj
          /\ Spot(n, l, k) \in Obj \cup {Root}
      BY <3>1, <1>1, <1>8, Spots
    <3>4. QED
      BY <3>1, <3>2, <3>3, <1>1, <1>9
  <2>4. QED
    BY <2>1, <2>2, <2>3, <1>1
<1>11. Chain(n + 1, r, nx, ox)
  BY <1>5, <1>9, <1>10, Zenon DEF Chain, ThOlder
<1>12. ASSUME NEW p \in Obj
       PROVE  ThIn(n + 1, r, p) <=> p = o \/ ThIn(n, l, p)
  <2>1. 1..(n + 1) = 1..n \cup {n + 1}
    BY <1>1
  <2>2. QED
    BY <2>1, <1>4, Zenon DEF ThIn
<1>13. QED
  BY <1>2, <1>11, <1>12, Zenon

PassesBy(nw, od, x, nx) == nx = [nw EXCEPT ![od[x]] = nw[x]]

(* The first half of REG_REMOVE passes by the thread in one direction.       *)
LEMMA ChainHalf ==
  ASSUME Root \notin Obj, NEW n, NEW l, NEW nw, NEW od, Chain(n, l, nw, od),
         NEW i \in 1..n, NEW nx, PassesBy(nw, od, l[i], nx)
  PROVE  HalfChain(n, l, nx, od, i)
<1>1. /\ ThLine(n, l) /\ n \in Nat /\ l \in [1..n -> Obj] /\ ThOlder(n, l, od)
      /\ \A k \in 0..n : nw[Spot(n, l, k)] = Spot(n, l, k + 1)
      /\ \A k \in 0..n : od[Spot(n, l, k + 1)] = Spot(n, l, k)
      /\ nw \in [Obj \cup {Root} -> Obj \cup {Root}]
  BY Zenon DEF Chain, ThLine, ThOlder
<1>2. /\ i - 1 \in 0..n /\ i \in 0..n /\ (i - 1) + 1 = i /\ Spot(n, l, i) = l[i]
  BY <1>1, Spots, SMTT(20)
<1>3. od[l[i]] = Spot(n, l, i - 1) /\ nw[l[i]] = Spot(n, l, i + 1)
  BY <1>1, <1>2, Zenon
<1>4. Spot(n, l, i - 1) \in Obj \cup {Root} /\ Spot(n, l, i + 1) \in Obj \cup {Root}
  <2>1. i - 1 \in 0..(n + 1) /\ i + 1 \in 0..(n + 1)
    BY <1>1
  <2>2. QED
    BY <2>1, <1>1, Spots, Zenon
<1>5. /\ nx \in [Obj \cup {Root} -> Obj \cup {Root}]
      /\ nx[Spot(n, l, i - 1)] = Spot(n, l, i + 1)
      /\ \A p \in Obj \cup {Root} : p # Spot(n, l, i - 1) => nx[p] = nw[p]
  BY <1>1, <1>3, <1>4, Zenon DEF PassesBy
<1>6. ASSUME NEW k \in 0..n
      PROVE  nx[Spot(n, l, k)] = Spot(n, l, IF k = i - 1 THEN k + 2 ELSE k + 1)
  <2>1. CASE k = i - 1
    <3>1. k + 2 = i + 1
      BY <2>1, <1>1
    <3>2. QED
      BY <2>1, <3>1, <1>5, Zenon
  <2>2. CASE k # i - 1
    <3>1. Spot(n, l, k) # Spot(n, l, i - 1) /\ Spot(n, l, k) \in Obj \cup {Root}
      <4>1. k \in 0..(n + 1)
        BY <1>1
      <4>2. Spot(n, l, k) \in Obj \cup {Root}
        BY <4>1, <1>1, Spots, Zenon
      <4>3. Spot(n, l, k) # Spot(n, l, i - 1)
        BY <2>2, <1>1, <1>2, Spots, Zenon
      <4>4. QED
        BY <4>2, <4>3, Zenon
    <3>2. QED
      BY <2>2, <3>1, <1>1, <1>5, Zenon
  <2>3. QED
    BY <2>1, <2>2, Zenon
<1>7. QED
  BY <1>1, <1>5, <1>6, Zenon DEF HalfChain

(* The list without its ith thread                                           *)
Shorter(n, l, i) == [k \in 1..(n - 1) |-> IF k < i THEN l[k] ELSE l[k + 1]]

TakesOut(nw, od, x, ox) == ox = [od EXCEPT ![nw[x]] = od[x]]

(* The second half of REG_REMOVE takes the thread out of the list.           *)
LEMMA ChainOut ==
  ASSUME Root \notin Obj, NEW n, NEW l, NEW nw, NEW od, NEW i, HalfChain(n, l, nw, od, i),
         NEW ox, TakesOut(nw, od, l[i], ox)
  PROVE  /\ Chain(n - 1, Shorter(n, l, i), nw, ox)
         /\ \A p \in Obj : ThIn(n - 1, Shorter(n, l, i), p) <=> p # l[i] /\ ThIn(n, l, p)
<1>1. /\ ThLine(n, l) /\ n \in Nat /\ l \in [1..n -> Obj] /\ i \in 1..n
      /\ \A j, k \in 1..n : l[j] = l[k] => j = k
      /\ \A k \in 0..n : nw[Spot(n, l, k)] = Spot(n, l, IF k = i - 1 THEN k + 2 ELSE k + 1)
      /\ \A k \in 0..n : od[Spot(n, l, k + 1)] = Spot(n, l, k)
      /\ nw \in [Obj \cup {Root} -> Obj \cup {Root}]
      /\ od \in [Obj \cup {Root} -> Obj \cup {Root}]
  BY Zenon DEF HalfChain, ThLine, ThOlder
<1>2. PICK r : r = Shorter(n, l, i)
  OBVIOUS
<1>3. /\ n - 1 \in Nat /\ r \in [1..(n - 1) -> Obj]
      /\ \A k \in 1..(n - 1) : r[k] = IF k < i THEN l[k] ELSE l[k + 1]
  <2>1. \A k \in 1..(n - 1) : k \in 1..n /\ k + 1 \in 1..n
    BY <1>1
  <2>2. QED
    BY <2>1, <1>1, <1>2 DEF Shorter
<1>4. ThLine(n - 1, r)
  <2>1. ASSUME NEW j \in 1..(n - 1), NEW k \in 1..(n - 1), r[j] = r[k]
        PROVE  j = k
    <3>1. /\ j \in 1..n /\ j + 1 \in 1..n /\ k \in 1..n /\ k + 1 \in 1..n
      BY <1>1
    <3>2. QED
      BY <2>1, <3>1, <1>1, <1>3
  <2>2. QED
    BY <2>1, <1>3, Zenon DEF ThLine
<1>5. /\ \A k \in 0..(i - 1) : Spot(n - 1, r, k) = Spot(n, l, k)
      /\ \A k \in i..n : Spot(n - 1, r, k) = Spot(n, l, k + 1)
  BY <1>1, <1>3 DEF Spot
<1>6. /\ Spot(n, l, i) = l[i] /\ i - 1 \in 0..n /\ i \in 0..n /\ (i - 1) + 1 = i /\ i # i - 1
      /\ i + 1 \in 1..(n + 1)
  BY <1>1, Spots, SMTT(20)
<1>7. nw[l[i]] = Spot(n, l, i + 1) /\ od[l[i]] = Spot(n, l, i - 1)
  BY <1>1, <1>6, Zenon
<1>8. Spot(n, l, i - 1) \in Obj \cup {Root} /\ Spot(n, l, i + 1) \in Obj \cup {Root}
  <2>1. i - 1 \in 0..(n + 1) /\ i + 1 \in 0..(n + 1)
    BY <1>1
  <2>2. QED
    BY <2>1, <1>1, Spots, Zenon
<1>9. /\ ox \in [Obj \cup {Root} -> Obj \cup {Root}]
      /\ ox[Spot(n, l, i + 1)] = Spot(n, l, i - 1)
      /\ \A p \in Obj \cup {Root} : p # Spot(n, l, i + 1) => ox[p] = od[p]
  BY <1>1, <1>7, <1>8, Zenon DEF TakesOut
<1>10. \A k \in 1..(n + 1) : k # i + 1 => ox[Spot(n, l, k)] = Spot(n, l, k - 1)
  <2> SUFFICES ASSUME NEW k \in 1..(n + 1), k # i + 1
               PROVE  ox[Spot(n, l, k)] = Spot(n, l, k - 1)
    OBVIOUS
  <2>1. Spot(n, l, k) # Spot(n, l, i + 1) /\ Spot(n, l, k) \in Obj \cup {Root}
    <3>1. k \in 0..(n + 1)
      BY <1>1
    <3>2. QED
      BY <3>1, <1>1, <1>6, Spots
  <2>2. k - 1 \in 0..n /\ (k - 1) + 1 = k
    BY <1>1
  <2>3. od[Spot(n, l, k)] = Spot(n, l, k - 1)
    BY <2>2, <1>1, Zenon
  <2>4. QED
    BY <2>1, <2>3, <1>9, Zenon
<1>11. ASSUME NEW k \in 0..(n - 1)
       PROVE  /\ nw[Spot(n - 1, r, k)] = Spot(n - 1, r, k + 1)
              /\ ox[Spot(n - 1, r, k + 1)] = Spot(n - 1, r, k)
  <2>1. CASE k < i - 1
    <3>1. /\ k \in 0..(i - 1) /\ k + 1 \in 0..(i - 1) /\ k \in 0..n /\ k + 1 \in 1..(n + 1)
          /\ k + 1 # i + 1 /\ (k + 1) - 1 = k /\ k # i - 1
      BY <2>1, <1>1
    <3>2. Spot(n - 1, r, k) = Spot(n, l, k) /\ Spot(n - 1, r, k + 1) = Spot(n, l, k + 1)
      BY <3>1, <1>5, Zenon
    <3>3. nw[Spot(n, l, k)] = Spot(n, l, k + 1)
      BY <3>1, <1>1, Zenon
    <3>4. ox[Spot(n, l, k + 1)] = Spot(n, l, k)
      BY <3>1, <1>10, Zenon
    <3>5. QED
      BY <3>2, <3>3, <3>4, Zenon
  <2>2. CASE k = i - 1
    <3>1. /\ k \in 0..(i - 1) /\ k + 1 \in i..n /\ k \in 0..n /\ k + 2 = i + 1 /\ k + 1 = i
      BY <2>2, <1>1
    <3>2. Spot(n - 1, r, k) = Spot(n, l, k) /\ Spot(n - 1, r, k + 1) = Spot(n, l, i + 1)
      BY <3>1, <1>5, Zenon
    <3>3. nw[Spot(n, l, k)] = Spot(n, l, i + 1)
      BY <2>2, <3>1, <1>1, Zenon
    <3>4. QED
      BY <2>2, <3>2, <3>3, <1>9, Zenon
  <2>3. CASE k > i - 1
    <3>1. /\ k \in i..n /\ k + 1 \in i..n /\ k + 1 \in 0..n /\ k + 2 \in 1..(n + 1)
          /\ k + 2 # i + 1 /\ (k + 2) - 1 = k + 1 /\ k + 1 # i - 1 /\ (k + 1) + 1 = k + 2
      BY <2>3, <1>1
    <3>2. Spot(n - 1, r, k) = Spot(n, l, k + 1) /\ Spot(n - 1, r, k + 1) = Spot(n, l, k + 2)
      BY <3>1, <1>5, Zenon
    <3>3. nw[Spot(n, l, k + 1)] = Spot(n, l, k + 2)
      BY <3>1, <1>1, Zenon
    <3>4. ox[Spot(n, l, k + 2)] = Spot(n, l, k + 1)
      BY <3>1, <1>10, Zenon
    <3>5. QED
      BY <3>2, <3>3, <3>4, Zenon
  <2>4. QED
    BY <2>1, <2>2, <2>3, <1>1
<1>12. Chain(n - 1, r, nw, ox)
  BY <1>1, <1>4, <1>9, <1>11, Zenon DEF Chain, ThOlder
<1>13. ASSUME NEW p \in Obj
       PROVE  ThIn(n - 1, r, p) <=> p # l[i] /\ ThIn(n, l, p)
  <2>1. ASSUME NEW k \in 1..(n - 1), r[k] = p
        PROVE  p # l[i] /\ ThIn(n, l, p)
    <3>1. k \in 1..n /\ k + 1 \in 1..n
      BY <1>1
    <3>2. QED
      BY <2>1, <3>1, <1>1, <1>3 DEF ThIn
  <2>2. ASSUME NEW k \in 1..n, l[k] = p, p # l[i]
        PROVE  \E j \in 1..(n - 1) : r[j] = p
    <3>1. CASE k < i
      <4>1. k \in 1..(n - 1)
        BY <3>1, <1>1
      <4>2. QED
        BY <2>2, <3>1, <4>1, <1>3, Zenon
    <3>2. CASE k > i
      <4>1. k - 1 \in 1..(n - 1) /\ ~(k - 1 < i) /\ (k - 1) + 1 = k
        BY <3>2, <1>1
      <4>2. QED
        BY <2>2, <4>1, <1>3, Zenon
    <3>3. QED
      BY <2>2, <3>1, <3>2, <1>1
  <2>3. QED
    BY <2>1, <2>2, Zenon DEF ThIn
<1>14. QED
  BY <1>2, <1>12, <1>13, Zenon

-----------------------------------------------------------------------------
(* The invariant                                                             *)

ThGiven == /\ FiniteSetFacts /\ IsFiniteSet(Actor)
           /\ Root \notin Obj /\ None \notin Obj

ThTypes == /\ state \in [Obj -> {"none", "run", "final", "freed"}]
           /\ refs \in [Obj -> Int]
           /\ pc \in [Actor -> {"idle", "wtexit", "woken", "test", "unlink", "unlink2", "free"}]
           /\ tp \in [Actor -> Obj \cup {None}]
           /\ seen \in [Actor -> Int]
           /\ at \in [Actor -> Obj \cup {None}]
           /\ has \in [Actor -> SUBSET Obj]
           /\ early \in SUBSET Obj

(* Created and not freed                                                     *)
Live(o) == state[o] \in {"run", "final"}

Holders(h, o) == {a \in Actor : o \in h[a]}

Walkers(w, o) == {a \in Actor : w[a] = o}

(* p_refs counts the references.                                             *)
Counted(r, h, w, o) == r[o] = Cardinality(Holders(h, o)) + Cardinality(Walkers(w, o))

ThCount == \A o \in Obj : Counted(refs, has, at, o)

(* A thread that somebody has a reference to was not freed.                  *)
ThHeld == \A a \in Actor : \A o \in Obj : o \in has[a] \/ at[a] = o => Live(o)

(* Who waits has a reference, and waits for a thread that runs.              *)
ThWait == \A a \in Actor : pc[a] \in {"wtexit", "woken"} =>
            tp[a] \in has[a] /\ (pc[a] = "wtexit" => state[tp[a]] = "run")

(* One thread at most is in the unlocked part of chThdRelease; what it has   *)
(* read there is still so.                                                   *)
ThRelease == \A a \in Actor : pc[a] \in TH!Releasing =>
               /\ tp[a] \in Obj /\ Live(tp[a])
               /\ pc[a] = "test" => seen[a] = refs[tp[a]]
               /\ pc[a] # "test" => refs[tp[a]] = 0 /\ state[tp[a]] = "final"
               /\ \A b \in Actor : pc[b] \in TH!Releasing => a = b

ThLeak == \A o \in Obj : refs[o] = 0 =>
            /\ (state[o] = "run" => o \in early)
            /\ (state[o] = "final" => \/ o \in early
                                      \/ \E a \in Actor : pc[a] \in TH!Releasing /\ tp[a] = o)

(* In the registry: until it was taken out                                   *)
Linked(o) == Live(o) /\ ~\E a \in Actor : pc[a] = "free" /\ tp[a] = o

ThRing ==
  \E n, l :
    /\ \A o \in Obj : ThIn(n, l, o) <=> Linked(o)
    /\ \/ (\A a \in Actor : pc[a] # "unlink2") /\ Chain(n, l, newer, older)
       \/ \E a \in Actor : /\ pc[a] = "unlink2"
                           /\ \E i : HalfChain(n, l, newer, older, i) /\ l[i] = tp[a]

(* What holds when the unlocked parts of releases do not overlap.            *)
ThInv == ThTypes /\ ThCount /\ ThHeld /\ ThWait /\ ThRelease /\ ThLeak /\ ThRing

(* Nobody is in the unlocked part of a release.                              *)
ThQuiet == \A b \in Actor : pc[b] \notin TH!Releasing

(* It is so when somebody else goes on.                                      *)
LEMMA Quiet ==
  ASSUME NEW a \in Actor, ~overlap, TH!Free(a), pc[a] \notin TH!Releasing
  PROVE  ThQuiet
  BY Zenon DEF TH!Free, ThQuiet

(* The number of those who have a reference                                  *)
LEMMA ActorCount ==
  ASSUME ThGiven
  PROVE  /\ \A S \in SUBSET Actor : Cardinality(S) \in Nat
         /\ \A S \in SUBSET Actor : \A a \in S : Cardinality(S) >= 1
         /\ \A S \in SUBSET Actor : \A a \in Actor \ S :
              Cardinality(S \cup {a}) = Cardinality(S) + 1
         /\ \A S \in SUBSET Actor : \A a \in S :
              Cardinality(S \ {a}) = Cardinality(S) - 1
<1>1. \A S \in SUBSET Actor : IsFiniteSet(S)
  BY Zenon DEF ThGiven, FiniteSetFacts
<1>2. \A S \in SUBSET Actor : Cardinality(S) \in Nat
  BY <1>1, Zenon DEF ThGiven, FiniteSetFacts
<1>3. \A S \in SUBSET Actor : \A a \in Actor \ S :
        Cardinality(S \cup {a}) = Cardinality(S) + 1
  BY <1>1, Zenon DEF ThGiven, FiniteSetFacts
<1>4. \A S \in SUBSET Actor : \A a \in S : Cardinality(S \ {a}) = Cardinality(S) - 1
  BY <1>1, Zenon DEF ThGiven, FiniteSetFacts
<1>5. ASSUME NEW S \in SUBSET Actor, NEW a \in S
      PROVE  Cardinality(S) >= 1
  <2>1. S \ {a} \in SUBSET Actor
    OBVIOUS
  <2>2. Cardinality(S \ {a}) \in Nat /\ Cardinality(S) \in Nat
    BY <2>1, <1>2, Zenon
  <2>3. Cardinality(S \ {a}) = Cardinality(S) - 1
    BY <1>4, Zenon
  <2>4. QED
    BY <2>2, <2>3
<1>6. QED
  BY <1>2, <1>3, <1>4, <1>5, Zenon

(* References are not less than none, and a reference counts.                *)
LEMMA RefsAre ==
  ASSUME ThGiven, ThInv, NEW o \in Obj
  PROVE  /\ refs[o] \in Nat
         /\ \A a \in Actor : o \in has[a] \/ at[a] = o => refs[o] >= 1
<1>1. refs[o] = Cardinality(Holders(has, o)) + Cardinality(Walkers(at, o))
  BY Zenon DEF ThInv, ThCount, Counted
<1>2. Holders(has, o) \in SUBSET Actor /\ Walkers(at, o) \in SUBSET Actor
  BY Zenon DEF Holders, Walkers
<1>3. Cardinality(Holders(has, o)) \in Nat /\ Cardinality(Walkers(at, o)) \in Nat
  BY <1>2, ActorCount, Zenon
<1>4. ASSUME NEW a \in Actor, o \in has[a] \/ at[a] = o
      PROVE  refs[o] >= 1
  <2>1. a \in Holders(has, o) \/ a \in Walkers(at, o)
    BY <1>4, Zenon DEF Holders, Walkers
  <2>2. Cardinality(Holders(has, o)) >= 1 \/ Cardinality(Walkers(at, o)) >= 1
    BY <2>1, <1>2, ActorCount, Zenon
  <2>3. QED
    BY <2>2, <1>1, <1>3
<1>5. QED
  BY <1>1, <1>3, <1>4

(* The registry stays as it is.                                              *)
LEMMA RingStays ==
  ASSUME ThRing, UNCHANGED <<newer, older>>,
         \A o \in Obj : Linked(o)' <=> Linked(o),
         \A a \in Actor : /\ pc'[a] = "unlink2" <=> pc[a] = "unlink2"
                          /\ pc[a] = "unlink2" => tp'[a] = tp[a]
  PROVE  ThRing'
<1>1. PICK n, l :
        /\ \A o \in Obj : ThIn(n, l, o) <=> Linked(o)
        /\ \/ (\A a \in Actor : pc[a] # "unlink2") /\ Chain(n, l, newer, older)
           \/ \E a \in Actor : /\ pc[a] = "unlink2"
                               /\ \E i : HalfChain(n, l, newer, older, i) /\ l[i] = tp[a]
  BY Zenon DEF ThRing
<1>2. \A o \in Obj : ThIn(n, l, o) <=> Linked(o)'
  BY <1>1, Zenon
<1>3. newer' = newer /\ older' = older
  OBVIOUS
<1>4. \/ (\A a \in Actor : pc'[a] # "unlink2") /\ Chain(n, l, newer', older')
      \/ \E a \in Actor : /\ pc'[a] = "unlink2"
                          /\ \E i : HalfChain(n, l, newer', older', i) /\ l[i] = tp'[a]
  BY <1>1, <1>3, Zenon
<1>5. QED
  BY <1>2, <1>4 DEF ThRing

(* A thread ends.                                                            *)
LEMMA ThExit ==
  ASSUME ThInv, NEW o \in Obj, TH!Exit(o)
  PROVE  ThInv'
<1>1. /\ state[o] = "run" /\ state' = [state EXCEPT ![o] = "final"]
      /\ pc' = [a \in Actor |-> IF pc[a] = "wtexit" /\ tp[a] = o THEN "woken" ELSE pc[a]]
      /\ UNCHANGED <<refs, newer, older, tp, seen, at, has, early>>
  BY Zenon DEF TH!Exit
<1>2. ThTypes /\ ThCount /\ ThHeld /\ ThWait /\ ThRelease /\ ThLeak /\ ThRing
  BY Zenon DEF ThInv
<1>3. ThTypes'
  BY <1>1, <1>2, Zenon DEF ThTypes
<1>4. ThCount'
  BY <1>1, <1>2, Zenon DEF ThCount, Counted
<1>5. /\ \A p \in Obj : Live(p)' <=> Live(p)
      /\ \A p \in Obj : p # o => state'[p] = state[p]
      /\ state'[o] = "final"
  BY <1>1, <1>2, Zenon DEF Live, ThTypes
<1>6. /\ \A a \in Actor : pc[a] \in TH!Releasing \/ pc'[a] \in TH!Releasing => pc'[a] = pc[a]
      /\ \A a \in Actor : pc'[a] \in {"wtexit", "woken"} <=> pc[a] \in {"wtexit", "woken"}
      /\ \A a \in Actor : pc'[a] = "wtexit" <=> pc[a] = "wtexit" /\ tp[a] # o
      /\ tp' = tp /\ refs' = refs /\ seen' = seen /\ has' = has /\ at' = at /\ early' = early
  BY <1>1, <1>2, Zenon DEF TH!Releasing, ThTypes
<1>7. ThHeld'
  BY <1>2, <1>5, <1>6, Zenon DEF ThHeld
<1>8. ThWait'
  BY <1>2, <1>5, <1>6 DEF ThWait, ThTypes
<1>9. ThRelease'
  BY <1>2, <1>5, <1>6 DEF ThRelease
<1>10. ThLeak'
  BY <1>1, <1>2, <1>5, <1>6 DEF ThLeak
<1>11. \A a \in Actor : \A x \in {"unlink2", "free"} : pc'[a] = x <=> pc[a] = x
  BY <1>6, Zenon DEF TH!Releasing
<1>12. \A p \in Obj : Linked(p)' <=> Linked(p)
  BY <1>5, <1>6, <1>11, Zenon DEF Linked
<1>13. ThRing'
  BY <1>1, <1>2, <1>11, <1>12, RingStays, Zenon
<1>14. QED
  BY <1>3, <1>4, <1>7, <1>8, <1>9, <1>10, <1>13, Zenon DEF ThInv

(* chThdRelease finds the last reference to a thread that ended, or returns. *)
LEMMA ThTest ==
  ASSUME ThGiven, ThInv, NEW a \in Actor, TH!Test(a)
  PROVE  ThInv'
<1>1. /\ pc[a] = "test" /\ UNCHANGED <<state, refs, newer, older, at, has, early>>
      /\ IF seen[a] = 0 /\ state[tp[a]] = "final"
           THEN pc' = [pc EXCEPT ![a] = "unlink"] /\ UNCHANGED <<tp, seen>>
           ELSE TH!Done(a)
  BY Zenon DEF TH!Test
<1>2. ThTypes /\ ThCount /\ ThHeld /\ ThWait /\ ThRelease /\ ThLeak /\ ThRing
  BY Zenon DEF ThInv
<1>3. ThTypes'
  BY <1>1, <1>2 DEF ThTypes, TH!Done
<1>4. ThCount'
  BY <1>1, <1>2, Zenon DEF ThCount, Counted
<1>5. /\ \A b \in Actor : b # a => pc'[b] = pc[b] /\ tp'[b] = tp[b] /\ seen'[b] = seen[b]
      /\ state' = state /\ refs' = refs /\ has' = has /\ at' = at /\ early' = early
  BY <1>1, <1>2, Zenon DEF ThTypes, TH!Done
<1>6. /\ tp[a] \in Obj /\ Live(tp[a]) /\ seen[a] = refs[tp[a]]
      /\ \A b \in Actor : b # a => pc[b] \notin TH!Releasing
  BY <1>1, <1>2, Zenon DEF ThRelease, TH!Releasing
<1>7. \/ /\ pc'[a] = "unlink" /\ tp'[a] = tp[a] /\ seen'[a] = seen[a]
         /\ refs[tp[a]] = 0 /\ state[tp[a]] = "final"
      \/ pc'[a] = "idle" /\ ~(refs[tp[a]] = 0 /\ state[tp[a]] = "final")
  BY <1>1, <1>2, <1>6, Zenon DEF ThTypes, TH!Done
<1>8. ThHeld'
  BY <1>2, <1>5, Zenon DEF ThHeld, Live
<1>9. ThWait'
  BY <1>2, <1>5, <1>7 DEF ThWait
<1>10. ThRelease'
  BY <1>5, <1>6, <1>7 DEF ThRelease, TH!Releasing, Live
<1>11. ThLeak'
  <2>1. ASSUME NEW o \in Obj, refs[o] = 0, state[o] = "final", o \notin early
        PROVE  \E b \in Actor : pc'[b] \in TH!Releasing /\ tp'[b] = o
    <3>1. PICK b \in Actor : pc[b] \in TH!Releasing /\ tp[b] = o
      BY <2>1, <1>2, Zenon DEF ThLeak
    <3>2. b = a
      BY <3>1, <1>6, Zenon
    <3>3. QED
      BY <2>1, <3>1, <3>2, <1>7, Zenon DEF TH!Releasing
  <2>2. QED
    BY <2>1, <1>2, <1>5, Zenon DEF ThLeak
<1>12. \A b \in Actor : \A x \in {"unlink2", "free"} : pc'[b] # x /\ pc[b] # x
  BY <1>1, <1>5, <1>6, <1>7, Zenon DEF TH!Releasing
<1>13. \A p \in Obj : Linked(p)' <=> Linked(p)
  BY <1>5, <1>12, Zenon DEF Linked, Live
<1>14. ThRing'
  BY <1>1, <1>2, <1>12, <1>13, RingStays, Zenon
<1>15. QED
  BY <1>3, <1>4, <1>8, <1>9, <1>10, <1>11, <1>14, Zenon DEF ThInv

(* The thread is passed by in one direction.                                 *)
LEMMA ThUnlink ==
  ASSUME ThGiven, ThInv, NEW a \in Actor, TH!Unlink(a)
  PROVE  ThInv'
<1>1. /\ pc[a] = "unlink" /\ newer' = [newer EXCEPT ![older[tp[a]]] = newer[tp[a]]]
      /\ pc' = [pc EXCEPT ![a] = "unlink2"]
      /\ UNCHANGED <<state, refs, older, tp, seen, at, has, early>>
  BY Zenon DEF TH!Unlink
<1>2. ThTypes /\ ThCount /\ ThHeld /\ ThWait /\ ThRelease /\ ThLeak /\ ThRing
  BY Zenon DEF ThInv
<1>3. /\ ThTypes' /\ pc'[a] = "unlink2" /\ \A b \in Actor : b # a => pc'[b] = pc[b]
      /\ \A b \in Actor : pc'[b] \in TH!Releasing <=> pc[b] \in TH!Releasing
  BY <1>1, <1>2, Zenon DEF ThTypes, TH!Releasing
<1>4. ThCount'
  BY <1>1, <1>2, Zenon DEF ThCount, Counted
<1>5. ThHeld'
  BY <1>1, <1>2, Zenon DEF ThHeld, Live
<1>6. ThWait'
  BY <1>1, <1>2, <1>3, Zenon DEF ThWait
<1>7. ThRelease'
  <2>1. refs[tp[a]] = 0 /\ state[tp[a]] = "final"
    BY <1>1, <1>2, Zenon DEF ThRelease, TH!Releasing
  <2>2. QED
    BY <2>1, <1>1, <1>2, <1>3 DEF ThRelease, Live
<1>8. ThLeak'
  BY <1>1, <1>2, <1>3, Zenon DEF ThLeak
<1>9. /\ tp[a] \in Obj /\ Live(tp[a])
      /\ \A b \in Actor : b # a => pc[b] \notin TH!Releasing
  BY <1>1, <1>2, Zenon DEF ThRelease, TH!Releasing
<1>10. \A b \in Actor : pc[b] # "unlink2" /\ pc[b] # "free" /\ pc'[b] # "free"
  BY <1>1, <1>3, <1>9, Zenon DEF TH!Releasing
<1>11. PICK n, l : Chain(n, l, newer, older) /\ \A o \in Obj : ThIn(n, l, o) <=> Linked(o)
  BY <1>2, <1>10, Zenon DEF ThRing
<1>12. Linked(tp[a]) /\ \A o \in Obj : Linked(o)' <=> Linked(o)
  BY <1>1, <1>9, <1>10, Zenon DEF Linked, Live
<1>13. PICK i \in 1..n : l[i] = tp[a]
  BY <1>9, <1>11, <1>12, Zenon DEF ThIn
<1>14. HalfChain(n, l, newer', older, i)
  <2>1. PassesBy(newer, older, l[i], newer') /\ Root \notin Obj
    BY <1>1, <1>13, Zenon DEF ThGiven, PassesBy
  <2>2. QED
    BY <2>1, <1>11, ChainHalf, Zenon
<1>15. ThRing'
  <2>1. \A o \in Obj : ThIn(n, l, o) <=> Linked(o)'
    BY <1>11, <1>12, Zenon
  <2>2. pc'[a] = "unlink2" /\ HalfChain(n, l, newer', older', i) /\ l[i] = tp'[a]
    BY <1>1, <1>3, <1>13, <1>14, Zenon
  <2>3. QED
    BY <2>1, <2>2, Zenon DEF ThRing
<1>16. QED
  BY <1>3, <1>4, <1>5, <1>6, <1>7, <1>8, <1>15, Zenon DEF ThInv

(* It is taken out of the registry.                                          *)
LEMMA ThUnlink2 ==
  ASSUME ThGiven, ThInv, NEW a \in Actor, TH!Unlink2(a)
  PROVE  ThInv'
<1>1. /\ pc[a] = "unlink2" /\ older' = [older EXCEPT ![newer[tp[a]]] = older[tp[a]]]
      /\ pc' = [pc EXCEPT ![a] = "free"]
      /\ UNCHANGED <<state, refs, newer, tp, seen, at, has, early>>
  BY Zenon DEF TH!Unlink2
<1>2. ThTypes /\ ThCount /\ ThHeld /\ ThWait /\ ThRelease /\ ThLeak /\ ThRing
  BY Zenon DEF ThInv
<1>3. /\ ThTypes' /\ pc'[a] = "free" /\ \A b \in Actor : b # a => pc'[b] = pc[b]
      /\ \A b \in Actor : pc'[b] \in TH!Releasing <=> pc[b] \in TH!Releasing
  BY <1>1, <1>2, Zenon DEF ThTypes, TH!Releasing
<1>4. ThCount'
  BY <1>1, <1>2, Zenon DEF ThCount, Counted
<1>5. ThHeld'
  BY <1>1, <1>2, Zenon DEF ThHeld, Live
<1>6. ThWait'
  BY <1>1, <1>2, <1>3, Zenon DEF ThWait
<1>7. ThRelease'
  <2>1. refs[tp[a]] = 0 /\ state[tp[a]] = "final"
    BY <1>1, <1>2, Zenon DEF ThRelease, TH!Releasing
  <2>2. QED
    BY <2>1, <1>1, <1>2, <1>3 DEF ThRelease, Live
<1>8. ThLeak'
  BY <1>1, <1>2, <1>3, Zenon DEF ThLeak
<1>9. /\ tp[a] \in Obj /\ Live(tp[a])
      /\ \A b \in Actor : b # a => pc[b] \notin TH!Releasing
  BY <1>1, <1>2, Zenon DEF ThRelease, TH!Releasing
<1>10. \A b \in Actor : /\ b # a => pc[b] # "unlink2" /\ pc'[b] # "free"
                        /\ pc[b] # "free" /\ pc'[b] # "unlink2"
  BY <1>1, <1>3, <1>9, Zenon DEF TH!Releasing
<1>11. PICK n, l, i : /\ HalfChain(n, l, newer, older, i) /\ l[i] = tp[a]
                      /\ \A o \in Obj : ThIn(n, l, o) <=> Linked(o)
  BY <1>1, <1>2, <1>10, Zenon DEF ThRing
<1>12. \A o \in Obj : Linked(o)' <=> o # tp[a] /\ Linked(o)
  BY <1>1, <1>3, <1>9, <1>10, Zenon DEF Linked, Live
<1>13. PICK m, r : Chain(m, r, newer, older')
                   /\ \A p \in Obj : ThIn(m, r, p) <=> p # l[i] /\ ThIn(n, l, p)
  <2>1. TakesOut(newer, older, l[i], older') /\ Root \notin Obj
    BY <1>1, <1>11, Zenon DEF ThGiven, TakesOut
  <2>2. /\ Chain(n - 1, Shorter(n, l, i), newer, older')
        /\ \A p \in Obj : ThIn(n - 1, Shorter(n, l, i), p) <=> p # l[i] /\ ThIn(n, l, p)
    BY <2>1, <1>11, ChainOut, Zenon
  <2>3. QED
    BY <2>2, Zenon
<1>14. ThRing'
  <2>1. \A o \in Obj : ThIn(m, r, o) <=> Linked(o)'
    BY <1>11, <1>12, <1>13, Zenon
  <2>2. (\A b \in Actor : pc'[b] # "unlink2") /\ Chain(m, r, newer', older')
    BY <1>1, <1>10, <1>13, Zenon
  <2>3. QED
    BY <2>1, <2>2, Zenon DEF ThRing
<1>15. QED
  BY <1>3, <1>4, <1>5, <1>6, <1>7, <1>8, <1>14, Zenon DEF ThInv

(* Its memory is given back.                                                 *)
LEMMA ThFree ==
  ASSUME ThGiven, ThInv, NEW a \in Actor, TH!FreeObj(a)
  PROVE  ThInv'
<1>1. /\ pc[a] = "free" /\ state' = [state EXCEPT ![tp[a]] = "freed"]
      /\ pc' = [pc EXCEPT ![a] = "idle"] /\ tp' = [tp EXCEPT ![a] = None]
      /\ seen' = [seen EXCEPT ![a] = 0]
      /\ UNCHANGED <<refs, newer, older, at, has, early>>
  BY Zenon DEF TH!FreeObj, TH!Done
<1>2. ThTypes /\ ThCount /\ ThHeld /\ ThWait /\ ThRelease /\ ThLeak /\ ThRing
  BY Zenon DEF ThInv
<1>3. /\ tp[a] \in Obj /\ refs[tp[a]] = 0 /\ state[tp[a]] = "final"
      /\ \A b \in Actor : b # a => pc[b] \notin TH!Releasing
  BY <1>1, <1>2, Zenon DEF ThRelease, TH!Releasing
<1>4. /\ ThTypes' /\ pc'[a] = "idle" /\ state'[tp[a]] = "freed"
      /\ \A b \in Actor : b # a => pc'[b] = pc[b] /\ tp'[b] = tp[b]
      /\ \A o \in Obj : o # tp[a] => state'[o] = state[o]
  BY <1>1, <1>2, <1>3, Zenon DEF ThTypes
<1>5. ThCount'
  BY <1>1, <1>2, Zenon DEF ThCount, Counted
<1>6. \A b \in Actor : tp[a] \notin has[b] /\ at[b] # tp[a]
  BY <1>3, RefsAre
<1>7. ThHeld'
  BY <1>1, <1>2, <1>4, <1>6 DEF ThHeld, Live
<1>8. ThWait'
  <2>1. \A b \in Actor : pc[b] \in {"wtexit", "woken"} => tp[b] # tp[a] /\ tp[b] \in Obj
    BY <1>2, <1>6, Zenon DEF ThWait, ThTypes
  <2>2. QED
    BY <2>1, <1>1, <1>2, <1>4 DEF ThWait
<1>9. \A b \in Actor : pc'[b] \notin TH!Releasing
  BY <1>3, <1>4, Zenon DEF TH!Releasing
<1>10. ThRelease'
  BY <1>9, Zenon DEF ThRelease
<1>11. ThLeak'
  <2>1. ASSUME NEW o \in Obj, refs[o] = 0, state'[o] = "final"
        PROVE  o \in early
    <3>1. o # tp[a] /\ state[o] = "final"
      BY <2>1, <1>4, Zenon
    <3>2. QED
      BY <2>1, <3>1, <1>2, <1>3, Zenon DEF ThLeak
  <2>2. ASSUME NEW o \in Obj, refs[o] = 0, state'[o] = "run"
        PROVE  o \in early
    BY <2>2, <1>2, <1>4, Zenon DEF ThLeak
  <2>3. QED
    BY <2>1, <2>2, <1>1, Zenon DEF ThLeak
<1>12. \A b \in Actor : \A x \in {"unlink2", "free"} : pc'[b] # x /\ (b # a => pc[b] # x)
  BY <1>3, <1>9, Zenon DEF TH!Releasing
<1>13. \A p \in Obj : Linked(p)' <=> Linked(p)
  BY <1>1, <1>4, <1>12 DEF Linked, Live
<1>14. ThRing'
  BY <1>1, <1>2, <1>12, <1>13, RingStays, Zenon
<1>15. QED
  BY <1>4, <1>5, <1>7, <1>8, <1>10, <1>11, <1>14, Zenon DEF ThInv

(* From h to g, a gets a reference to o; loses one; from w to v, the walk of *)
(* a goes on to n.                                                           *)
Gets(h, g, a, o) == /\ h \in [Actor -> SUBSET Obj] /\ o \notin h[a]
                    /\ g = [h EXCEPT ![a] = h[a] \cup {o}]

Loses(h, g, a, o) == /\ h \in [Actor -> SUBSET Obj] /\ o \in h[a]
                     /\ g = [h EXCEPT ![a] = h[a] \ {o}]

GoesOn(w, v, a, n) == /\ w \in [Actor -> Obj \cup {None}] /\ n # w[a]
                      /\ v = [w EXCEPT ![a] = n]

(* What becomes of the number of references                                  *)
OnlyOf(h, g, o) == \A p \in Obj : p # o => Holders(g, p) = Holders(h, p)

OneMore(h, g, o) == /\ Cardinality(Holders(g, o)) = Cardinality(Holders(h, o)) + 1
                    /\ OnlyOf(h, g, o)

OneLess(h, g, o) == /\ Cardinality(Holders(g, o)) = Cardinality(Holders(h, o)) - 1
                    /\ OnlyOf(h, g, o)

MovedOn(w, v, m, n) ==
  \A p \in Obj : Cardinality(Walkers(v, p)) =
    Cardinality(Walkers(w, p)) + (IF p = n THEN 1 ELSE IF p = m THEN -1 ELSE 0)

(* One more has a reference.                                                 *)
LEMMA HasMore ==
  ASSUME ThGiven, NEW a \in Actor, NEW o \in Obj, NEW h, NEW g, Gets(h, g, a, o)
  PROVE  OneMore(h, g, o)
<1>1. Holders(g, o) = Holders(h, o) \cup {a} /\ a \in Actor \ Holders(h, o)
  BY Zenon DEF Holders, Gets
<1>2. Holders(h, o) \in SUBSET Actor
  BY Zenon DEF Holders
<1>3. Cardinality(Holders(g, o)) = Cardinality(Holders(h, o)) + 1
  BY <1>1, <1>2, ActorCount, Zenon
<1>4. OnlyOf(h, g, o)
  BY Zenon DEF Holders, OnlyOf, Gets
<1>5. QED
  BY <1>3, <1>4, Zenon DEF OneMore

(* One less has.                                                             *)
LEMMA HasLess ==
  ASSUME ThGiven, NEW a \in Actor, NEW o \in Obj, NEW h, NEW g, Loses(h, g, a, o)
  PROVE  OneLess(h, g, o)
<1>1. Holders(g, o) = Holders(h, o) \ {a} /\ a \in Holders(h, o)
  BY Zenon DEF Holders, Loses
<1>2. Holders(h, o) \in SUBSET Actor
  BY Zenon DEF Holders
<1>3. Cardinality(Holders(g, o)) = Cardinality(Holders(h, o)) - 1
  BY <1>1, <1>2, ActorCount, Zenon
<1>4. OnlyOf(h, g, o)
  BY Zenon DEF Holders, OnlyOf, Loses
<1>5. QED
  BY <1>3, <1>4, Zenon DEF OneLess

(* A walk goes from one thread to another.                                   *)
LEMMA WalkOn ==
  ASSUME ThGiven, NEW a \in Actor, NEW n, NEW w, NEW v, GoesOn(w, v, a, n)
  PROVE  MovedOn(w, v, w[a], n)
<1> SUFFICES ASSUME NEW p \in Obj
             PROVE  Cardinality(Walkers(v, p)) =
               Cardinality(Walkers(w, p)) + (IF p = n THEN 1 ELSE IF p = w[a] THEN -1 ELSE 0)
  BY Zenon DEF MovedOn
<1>1. Walkers(w, p) \in SUBSET Actor /\ Cardinality(Walkers(w, p)) \in Nat
  BY ActorCount, Zenon DEF Walkers
<1>2. CASE p = n
  <2>1. Walkers(v, p) = Walkers(w, p) \cup {a} /\ a \in Actor \ Walkers(w, p)
    BY <1>2, Zenon DEF Walkers, GoesOn
  <2>2. QED
    BY <2>1, <1>1, <1>2, ActorCount, Zenon
<1>3. CASE p # n /\ p = w[a]
  <2>1. Walkers(v, p) = Walkers(w, p) \ {a} /\ a \in Walkers(w, p)
    BY <1>3, Zenon DEF Walkers, GoesOn
  <2>2. QED
    BY <2>1, <1>1, <1>3, ActorCount, Zenon
<1>4. CASE p # n /\ p # w[a]
  <2>1. Walkers(v, p) = Walkers(w, p)
    BY <1>4, Zenon DEF Walkers, GoesOn
  <2>2. QED
    BY <2>1, <1>1, <1>4
<1>5. QED
  BY <1>2, <1>3, <1>4, Zenon

(* Counters are numbers.                                                     *)
LEMMA CountsAre ==
  ASSUME ThGiven, NEW h, NEW w, NEW o
  PROVE  Cardinality(Holders(h, o)) \in Nat /\ Cardinality(Walkers(w, o)) \in Nat
  BY ActorCount, Zenon DEF Holders, Walkers

(* While nobody releases, the registry is a list of the threads that live.   *)
LEMMA QuietRing ==
  ASSUME ThInv, ThQuiet
  PROVE  \E n, l : Chain(n, l, newer, older) /\ \A o \in Obj : ThIn(n, l, o) <=> Live(o)
<1>1. \A a \in Actor : pc[a] # "unlink2" /\ pc[a] # "free"
  BY Zenon DEF ThQuiet, TH!Releasing
<1>2. \A o \in Obj : Linked(o) <=> Live(o)
  BY <1>1, Zenon DEF Linked
<1>3. QED
  BY <1>1, <1>2, Zenon DEF ThInv, ThRing

(* It stays one when links and states are left alone and no thread is being  *)
(* unlinked.                                                                 *)
LEMMA QuietStays ==
  ASSUME ThInv, ThQuiet, UNCHANGED <<newer, older, state>>,
         \A a \in Actor : pc'[a] # "unlink2" /\ pc'[a] # "free"
  PROVE  ThRing'
<1>1. \A a \in Actor : pc[a] # "unlink2" /\ pc[a] # "free"
  BY Zenon DEF ThQuiet, TH!Releasing
<1>2. \A p \in Obj : Linked(p)' <=> Linked(p)
  BY <1>1, Zenon DEF Linked, Live
<1>3. ThRing /\ UNCHANGED <<newer, older>>
  BY Zenon DEF ThInv
<1>4. QED
  BY <1>1, <1>2, <1>3, RingStays, Zenon

(* A thread is created.                                                      *)
LEMMA ThCreate ==
  ASSUME ThGiven, ThInv, ~overlap, NEW a \in Actor, NEW o \in Obj, TH!Create(a, o)
  PROVE  ThInv'
<1>1. /\ pc[a] = "idle" /\ TH!Free(a) /\ state[o] = "none"
      /\ state' = [state EXCEPT ![o] = "run"] /\ refs' = [refs EXCEPT ![o] = 1]
      /\ has' = [has EXCEPT ![a] = has[a] \cup {o}]
      /\ UNCHANGED <<pc, tp, seen, at, early>>
  BY Zenon DEF TH!Create
<1>2. ThTypes /\ ThCount /\ ThHeld /\ ThWait /\ ThRelease /\ ThLeak /\ ThRing
  BY Zenon DEF ThInv
<1>3. ThQuiet
  BY <1>1, Quiet, Zenon DEF TH!Releasing
<1>4. /\ ThTypes' /\ state'[o] = "run" /\ \A p \in Obj : p # o => state'[p] = state[p]
      /\ refs'[o] = 1 /\ \A p \in Obj : p # o => refs'[p] = refs[p]
  BY <1>1, <1>2 DEF ThTypes
<1>5. ~Live(o) /\ \A b \in Actor : o \notin has[b] /\ at[b] # o
  BY <1>1, <1>2, Zenon DEF ThHeld, Live
<1>6. ThCount'
  <2>1. OneMore(has, has', o)
    <3>1. Gets(has, has', a, o)
      BY <1>1, <1>2, <1>5, Zenon DEF ThTypes, Gets
    <3>2. QED
      BY <3>1, HasMore, Zenon
  <2>2. Holders(has, o) = {} /\ Walkers(at, o) = {} /\ Cardinality({}) = 0
    BY <1>5 DEF Holders, Walkers, ThGiven, FiniteSetFacts
  <2>3. Counted(refs', has', at', o)
    BY <2>1, <2>2, <1>1, <1>4 DEF Counted, OneMore
  <2>4. \A p \in Obj : p # o => Counted(refs', has', at', p)
    BY <2>1, <1>1, <1>2, <1>4, Zenon DEF Counted, ThCount, OneMore, OnlyOf
  <2>5. QED
    BY <2>3, <2>4, Zenon DEF ThCount
<1>7. ThHeld'
  BY <1>1, <1>2, <1>4 DEF ThHeld, Live, ThTypes
<1>8. ThWait'
  BY <1>1, <1>2, <1>4, <1>5 DEF ThWait, ThTypes
<1>9. ThRelease'
  BY <1>1, <1>3, Zenon DEF ThRelease, ThQuiet
<1>10. ThLeak'
  BY <1>1, <1>2, <1>4 DEF ThLeak
<1>11. ThRing'
  <2>1. PICK n, l : Chain(n, l, newer, older) /\ \A p \in Obj : ThIn(n, l, p) <=> Live(p)
    BY <1>3, QuietRing, Zenon
  <2>2. ThAdds(newer, older, o, newer', older') /\ Root \notin Obj /\ ~ThIn(n, l, o)
    BY <2>1, <1>5, Zenon DEF TH!Create, ThAdds, ThGiven
  <2>3. /\ Chain(n + 1, Longer(n, l, o), newer', older')
        /\ \A p \in Obj : ThIn(n + 1, Longer(n, l, o), p) <=> p = o \/ ThIn(n, l, p)
    BY <2>1, <2>2, ChainAdd, Zenon
  <2>4. \A b \in Actor : pc'[b] # "unlink2" /\ pc'[b] # "free"
    BY <1>1, <1>3, Zenon DEF ThQuiet, TH!Releasing
  <2>5. \A p \in Obj : Linked(p)' <=> p = o \/ Live(p)
    BY <2>4, <1>4, Zenon DEF Linked, Live
  <2>6. QED
    BY <2>1, <2>3, <2>4, <2>5, Zenon DEF ThRing
<1>12. QED
  BY <1>4, <1>6, <1>7, <1>8, <1>9, <1>10, <1>11, Zenon DEF ThInv

(* A reference is handed on.                                                 *)
LEMMA ThAddRef ==
  ASSUME ThGiven, ThInv, ~overlap, NEW a \in Actor, NEW b \in Actor, NEW o \in Obj,
         TH!AddRef(a, b, o)
  PROVE  ThInv'
<1>1. /\ pc[a] = "idle" /\ TH!Free(a) /\ o \in has[a] /\ o \notin has[b]
      /\ refs' = [refs EXCEPT ![o] = refs[o] + 1]
      /\ has' = [has EXCEPT ![b] = has[b] \cup {o}]
      /\ UNCHANGED <<state, newer, older, pc, tp, seen, at, early>>
  BY Zenon DEF TH!AddRef
<1>2. ThTypes /\ ThCount /\ ThHeld /\ ThWait /\ ThRelease /\ ThLeak /\ ThRing
  BY Zenon DEF ThInv
<1>3. ThQuiet
  BY <1>1, Quiet, Zenon DEF TH!Releasing
<1>4. /\ ThTypes' /\ refs'[o] = refs[o] + 1 /\ \A p \in Obj : p # o => refs'[p] = refs[p]
  BY <1>1, <1>2 DEF ThTypes
<1>5. ThCount'
  <2>1. OneMore(has, has', o)
    <3>1. Gets(has, has', b, o)
      BY <1>1, <1>2, Zenon DEF ThTypes, Gets
    <3>2. QED
      BY <3>1, HasMore, Zenon
  <2>2. Counted(refs', has', at', o)
    BY <2>1, <1>1, <1>2, <1>4, CountsAre DEF Counted, ThCount, OneMore
  <2>3. \A p \in Obj : p # o => Counted(refs', has', at', p)
    BY <2>1, <1>1, <1>2, <1>4, Zenon DEF Counted, ThCount, OneMore, OnlyOf
  <2>4. QED
    BY <2>2, <2>3, Zenon DEF ThCount
<1>6. ThHeld'
  BY <1>1, <1>2, Zenon DEF ThHeld, Live, ThTypes
<1>7. ThWait'
  BY <1>1, <1>2, Zenon DEF ThWait, ThTypes
<1>8. ThRelease'
  BY <1>1, <1>3, Zenon DEF ThRelease, ThQuiet
<1>9. ThLeak'
  <2>1. refs[o] \in Nat
    BY RefsAre, Zenon
  <2>2. QED
    BY <2>1, <1>1, <1>2, <1>4 DEF ThLeak
<1>10. ThRing'
  BY <1>1, <1>3, QuietStays, Zenon DEF ThQuiet, TH!Releasing
<1>11. QED
  BY <1>4, <1>5, <1>6, <1>7, <1>8, <1>9, <1>10, Zenon DEF ThInv

(* chThdWait                                                                 *)
LEMMA ThWaits ==
  ASSUME ThGiven, ThInv, ~overlap, NEW a \in Actor, NEW o \in Obj, TH!Wait(a, o)
  PROVE  ThInv'
<1>1. /\ pc[a] = "idle" /\ TH!Free(a) /\ o \in has[a]
      /\ pc' = [pc EXCEPT ![a] = IF state[o] = "final" THEN "woken" ELSE "wtexit"]
      /\ tp' = [tp EXCEPT ![a] = o]
      /\ UNCHANGED <<state, refs, newer, older, seen, at, has, early>>
  BY Zenon DEF TH!Wait
<1>2. ThTypes /\ ThCount /\ ThHeld /\ ThWait /\ ThRelease /\ ThLeak /\ ThRing
  BY Zenon DEF ThInv
<1>3. ThQuiet
  BY <1>1, Quiet, Zenon DEF TH!Releasing
<1>4. /\ ThTypes' /\ tp'[a] = o /\ \A b \in Actor : b # a => pc'[b] = pc[b] /\ tp'[b] = tp[b]
      /\ pc'[a] = IF state[o] = "final" THEN "woken" ELSE "wtexit"
  BY <1>1, <1>2, Zenon DEF ThTypes
<1>5. ThCount'
  BY <1>1, <1>2, Zenon DEF ThCount, Counted
<1>6. ThHeld'
  BY <1>1, <1>2, Zenon DEF ThHeld, Live
<1>7. ThWait'
  <2>1. Live(o)
    BY <1>1, <1>2, Zenon DEF ThHeld
  <2>2. QED
    BY <2>1, <1>1, <1>2, <1>4 DEF ThWait, Live
<1>8. \A b \in Actor : pc'[b] \notin TH!Releasing
  BY <1>3, <1>4, Zenon DEF ThQuiet, TH!Releasing
<1>9. ThRelease'
  BY <1>8, Zenon DEF ThRelease
<1>10. ThLeak'
  BY <1>1, <1>2, <1>3, Zenon DEF ThLeak, ThQuiet
<1>11. ThRing'
  BY <1>1, <1>3, <1>8, QuietStays, Zenon DEF TH!Releasing
<1>12. QED
  BY <1>4, <1>5, <1>6, <1>7, <1>9, <1>10, <1>11, Zenon DEF ThInv

(* What the locked part of chThdRelease leaves to the unlocked one           *)
ThDropped(a, o) ==
  /\ pc' = [pc EXCEPT ![a] = "test"] /\ tp' = [tp EXCEPT ![a] = o]
  /\ seen' = [seen EXCEPT ![a] = refs[o] - 1]
  /\ early' = IF refs[o] = 1 /\ state[o] = "run" THEN early \cup {o} ELSE early
  /\ refs' \in [Obj -> Int] /\ refs'[o] = refs[o] - 1
  /\ \A p \in Obj : p # o => refs'[p] = refs[p] \/ refs'[p] # 0
  /\ \A b \in Actor : b # a => has'[b] = has[b]
  /\ UNCHANGED <<state, newer, older>>

(* It keeps what is about that one.                                          *)
LEMMA ThDrops ==
  ASSUME ThInv, ThQuiet, NEW a \in Actor, NEW o \in Obj, Live(o), ThDropped(a, o),
         at' \in [Actor -> Obj \cup {None}], has' \in [Actor -> SUBSET Obj]
  PROVE  ThTypes' /\ ThWait' /\ ThRelease' /\ ThLeak' /\ ThRing'
<1>1. ThTypes /\ ThWait /\ ThLeak /\ UNCHANGED <<state, newer, older>>
  BY Zenon DEF ThInv, ThDropped
<1>2. ThTypes'
  BY <1>1, Zenon DEF ThTypes, ThDropped
<1>3. /\ pc'[a] = "test" /\ tp'[a] = o /\ seen'[a] = refs'[o]
      /\ \A b \in Actor : b # a => pc'[b] = pc[b] /\ tp'[b] = tp[b]
  BY <1>1, Zenon DEF ThTypes, ThDropped
<1>4. \A b \in Actor : b # a => pc'[b] \notin TH!Releasing
  BY <1>3, Zenon DEF ThQuiet
<1>5. ThWait'
  BY <1>1, <1>3 DEF ThWait, ThDropped
<1>6. ThRelease'
  BY <1>1, <1>3, <1>4, Zenon DEF ThRelease, Live
<1>7. ThLeak'
  <2>1. o \in Obj /\ early \subseteq early' /\ "test" \in TH!Releasing
    BY Zenon DEF ThDropped, TH!Releasing
  <2>2. ASSUME NEW p \in Obj, p # o, refs'[p] = 0
        PROVE  state'[p] \in {"run", "final"} => p \in early'
    BY <1>1, <2>1, <2>2, Zenon DEF ThLeak, ThQuiet, ThDropped
  <2>3. ASSUME refs'[o] = 0
        PROVE  state'[o] = "run" => o \in early'
    BY <1>1, <2>3 DEF ThDropped, ThTypes
  <2>4. QED
    BY <2>1, <2>2, <2>3, <1>3, Zenon DEF ThLeak
<1>8. ThRing'
  BY <1>1, <1>3, <1>4, QuietStays, Zenon DEF TH!Releasing
<1>9. QED
  BY <1>2, <1>5, <1>6, <1>7, <1>8, Zenon

(* chThdRelease by an owner                                                  *)
LEMMA ThReleases ==
  ASSUME ThGiven, ThInv, ~overlap, NEW a \in Actor, NEW o \in Obj, TH!Release(a, o)
  PROVE  ThInv'
<1>1. ThTypes /\ ThCount /\ ThHeld /\ ThWait
  BY Zenon DEF ThInv
<1>2. TH!Free(a) /\ pc[a] \notin TH!Releasing /\ o \in has[a]
  BY <1>1, Zenon DEF TH!Release, TH!Releasing, ThWait
<1>3. ThQuiet /\ Live(o)
  BY <1>1, <1>2, Quiet, Zenon DEF ThHeld
<1>4. /\ refs' = [refs EXCEPT ![o] = refs[o] - 1] /\ UNCHANGED <<state, at>>
      /\ has' = [has EXCEPT ![a] = has[a] \ {o}]
  BY Zenon DEF TH!Release, TH!Drop
<1>5. /\ ThDropped(a, o) /\ at' \in [Actor -> Obj \cup {None}]
      /\ has' \in [Actor -> SUBSET Obj]
  BY <1>1, <1>4 DEF ThDropped, ThTypes, TH!Release, TH!Drop
<1>6. ThTypes' /\ ThWait' /\ ThRelease' /\ ThLeak' /\ ThRing'
  BY <1>3, <1>5, ThDrops, Zenon
<1>7. ThHeld'
  BY <1>1, <1>4 DEF ThHeld, Live, ThTypes
<1>8. ThCount'
  <2>1. Loses(has, has', a, o)
    BY <1>1, <1>2, <1>4, Zenon DEF Loses, ThTypes
  <2>2. OneLess(has, has', o)
    BY <2>1, HasLess, Zenon
  <2>3. refs'[o] = refs[o] - 1 /\ \A p \in Obj : p # o => refs'[p] = refs[p]
    BY <1>1, <1>4, Zenon DEF ThTypes
  <2>4. Counted(refs', has', at', o)
    BY <2>2, <2>3, <1>1, <1>4, CountsAre DEF Counted, ThCount, OneLess
  <2>5. \A p \in Obj : p # o => Counted(refs', has', at', p)
    BY <2>2, <2>3, <1>1, <1>4, Zenon DEF Counted, ThCount, OneLess, OnlyOf
  <2>6. QED
    BY <2>4, <2>5, Zenon DEF ThCount
<1>9. QED
  BY <1>6, <1>7, <1>8, Zenon DEF ThInv

(* chRegFirstThread                                                          *)
LEMMA ThFirst ==
  ASSUME ThGiven, ThInv, ~overlap, NEW a \in Actor, TH!First(a)
  PROVE  ThInv'
<1> DEFINE o == newer[Root]
<1>1. /\ pc[a] = "idle" /\ TH!Free(a) /\ at[a] = None /\ o # Root
      /\ refs' = [refs EXCEPT ![o] = refs[o] + 1] /\ at' = [at EXCEPT ![a] = o]
      /\ UNCHANGED <<state, newer, older, pc, tp, seen, has, early>>
  BY Zenon DEF TH!First
<1>2. ThTypes /\ ThCount /\ ThHeld /\ ThWait /\ ThLeak
  BY Zenon DEF ThInv
<1>3. ThQuiet
  BY <1>1, Quiet, Zenon DEF TH!Releasing
<1>4. o \in Obj /\ Live(o)
  <2>1. PICK n, l : Chain(n, l, newer, older) /\ \A p \in Obj : ThIn(n, l, p) <=> Live(p)
    BY <1>3, QuietRing, Zenon
  <2>2. PICK i \in 1..n : l[i] = o
    <3>1. Root \notin Obj /\ newer[Root] # Root
      BY <1>1, Zenon DEF ThGiven
    <3>2. newer[Root] # Root => \E i \in 1..n : l[i] = newer[Root]
      BY <2>1, <3>1, ChainNext
    <3>3. QED
      BY <3>1, <3>2, Zenon
  <2>3. o \in Obj
    BY <2>1, <2>2, Zenon DEF Chain, ThLine
  <2>4. QED
    BY <2>1, <2>2, <2>3, Zenon DEF ThIn
<1> HIDE DEF o
<1>5. /\ ThTypes' /\ refs'[o] = refs[o] + 1 /\ \A p \in Obj : p # o => refs'[p] = refs[p]
  BY <1>1, <1>2, <1>4 DEF ThTypes
<1>6. ThCount'
  <2>1. o # None /\ GoesOn(at, at', a, o)
    BY <1>1, <1>2, <1>4, Zenon DEF GoesOn, ThTypes, ThGiven
  <2>2. MovedOn(at, at', at[a], o)
    BY <2>1, WalkOn, Zenon
  <2>3. ASSUME NEW p \in Obj
        PROVE  Counted(refs', has', at', p)
    <3>1. Cardinality(Walkers(at', p)) =
            Cardinality(Walkers(at, p)) + (IF p = o THEN 1 ELSE IF p = None THEN -1 ELSE 0)
      BY <2>2, <1>1, Zenon DEF MovedOn
    <3>2. p # None /\ refs'[p] = refs[p] + (IF p = o THEN 1 ELSE 0)
      BY <1>2, <1>5 DEF ThTypes, ThGiven
    <3>3. refs[p] = Cardinality(Holders(has, p)) + Cardinality(Walkers(at, p))
      BY <1>2, Zenon DEF ThCount, Counted
    <3>4. Holders(has', p) = Holders(has, p)
      BY <1>1, Zenon
    <3>5. QED
      BY <3>1, <3>2, <3>3, <3>4, CountsAre DEF Counted
  <2>4. QED
    BY <2>3, Zenon DEF ThCount
<1>7. ThHeld'
  BY <1>1, <1>2, <1>4, Zenon DEF ThHeld, Live, ThTypes
<1>8. ThWait'
  BY <1>1, <1>2, Zenon DEF ThWait
<1>9. ThRelease'
  BY <1>1, <1>3, Zenon DEF ThRelease, ThQuiet
<1>10. ThLeak'
  <2>1. refs[o] \in Nat
    BY <1>4, RefsAre, Zenon
  <2>2. QED
    BY <2>1, <1>1, <1>2, <1>5 DEF ThLeak
<1>11. ThRing'
  BY <1>1, <1>3, QuietStays, Zenon DEF ThQuiet, TH!Releasing
<1>12. QED
  BY <1>5, <1>6, <1>7, <1>8, <1>9, <1>10, <1>11, Zenon DEF ThInv

(* chRegNextThread                                                           *)
LEMMA ThNextThread ==
  ASSUME ThGiven, ThInv, ~overlap, NEW a \in Actor, TH!NextThread(a)
  PROVE  ThInv'
<1> DEFINE o == at[a]
           n == newer[o]
           m == IF n = Root THEN None ELSE n
<1>1. /\ pc[a] = "idle" /\ TH!Free(a) /\ o # None
      /\ refs' = [x \in Obj |-> IF x = o THEN refs[x] - 1
                                ELSE IF x = n THEN refs[x] + 1 ELSE refs[x]]
      /\ at' = [at EXCEPT ![a] = m] /\ UNCHANGED <<state, has>>
  BY Zenon DEF TH!NextThread
<1>2. ThTypes /\ ThCount /\ ThHeld
  BY Zenon DEF ThInv
<1>3. ThQuiet
  BY <1>1, Quiet, Zenon DEF TH!Releasing
<1>4. o \in Obj /\ Live(o)
  BY <1>1, <1>2, Zenon DEF ThHeld, ThTypes
<1>5. n # o /\ (n # Root => n \in Obj /\ Live(n))
  <2>1. PICK j, l : Chain(j, l, newer, older) /\ \A p \in Obj : ThIn(j, l, p) <=> Live(p)
    BY <1>3, QuietRing, Zenon
  <2>2. PICK k \in 1..j : l[k] = o
    BY <2>1, <1>4, Zenon DEF ThIn
  <2>3. n # o /\ (n # Root => \E i \in 1..j : l[i] = n)
    BY <2>1, <2>2, ChainNext DEF ThGiven
  <2>4. ASSUME n # Root
        PROVE  n \in Obj /\ Live(n)
    <3>1. PICK i \in 1..j : l[i] = n
      BY <2>3, <2>4, Zenon
    <3>2. n \in Obj
      BY <2>1, <3>1, Zenon DEF Chain, ThLine
    <3>3. QED
      BY <2>1, <3>1, <3>2, Zenon DEF ThIn
  <2>5. QED
    BY <2>3, <2>4, Zenon
<1>6. m \in Obj \cup {None} /\ m # o /\ (m \in Obj => Live(m)) /\ \A p \in Obj : p = n <=> p = m
  BY <1>1, <1>5, Zenon DEF ThGiven
<1>7. /\ refs'[o] = refs[o] - 1 /\ refs' \in [Obj -> Int]
      /\ \A p \in Obj : p # o => refs'[p] = IF p = m THEN refs[p] + 1 ELSE refs[p]
  BY <1>1, <1>2, <1>4, <1>6 DEF ThTypes
<1>8. ThDropped(a, o)
  <2>1. \A p \in Obj : refs[p] \in Nat
    BY RefsAre, Zenon
  <2>2. \A p \in Obj : p # o => refs'[p] = refs[p] \/ refs'[p] # 0
    BY <1>7, <2>1
  <2>3. QED
    BY <2>2, <1>7, <1>1, Zenon DEF ThDropped, TH!NextThread
<1> HIDE DEF n, m
<1>9. at' \in [Actor -> Obj \cup {None}] /\ has' \in [Actor -> SUBSET Obj]
  BY <1>1, <1>2, <1>6, Zenon DEF ThTypes
<1>10. ThTypes' /\ ThWait' /\ ThRelease' /\ ThLeak' /\ ThRing'
  BY <1>3, <1>4, <1>8, <1>9, ThDrops, Zenon
<1>11. ThHeld'
  BY <1>1, <1>2, <1>6, Zenon DEF ThHeld, Live, ThTypes
<1>12. ThCount'
  <2>1. GoesOn(at, at', a, m)
    BY <1>1, <1>2, <1>6, Zenon DEF GoesOn, ThTypes
  <2>2. MovedOn(at, at', o, m)
    BY <2>1, WalkOn, Zenon
  <2>3. ASSUME NEW p \in Obj
        PROVE  Counted(refs', has', at', p)
    <3>1. Cardinality(Walkers(at', p)) =
            Cardinality(Walkers(at, p)) + (IF p = m THEN 1 ELSE IF p = o THEN -1 ELSE 0)
      BY <2>2, Zenon DEF MovedOn
    <3>2. refs'[p] = refs[p] + (IF p = m THEN 1 ELSE IF p = o THEN -1 ELSE 0)
      BY <1>2, <1>6, <1>7 DEF ThTypes
    <3>3. refs[p] = Cardinality(Holders(has, p)) + Cardinality(Walkers(at, p))
      BY <1>2, Zenon DEF ThCount, Counted
    <3>4. Holders(has', p) = Holders(has, p)
      BY <1>1, Zenon
    <3>5. Cardinality(Holders(has, p)) \in Nat /\ Cardinality(Walkers(at, p)) \in Nat
      BY CountsAre, Zenon
    <3>6. refs'[p] = Cardinality(Holders(has, p)) + Cardinality(Walkers(at', p))
      <4> HIDE DEF o
      <4>1. CASE p = m
        BY <4>1, <3>1, <3>2, <3>3, <3>5
      <4>2. CASE p # m /\ p = o
        BY <4>2, <3>1, <3>2, <3>3, <3>5
      <4>3. CASE p # m /\ p # o
        BY <4>3, <3>1, <3>2, <3>3, <3>5
      <4>4. QED
        BY <4>1, <4>2, <4>3, Zenon
    <3>7. QED
      BY <3>6, <3>4, Zenon DEF Counted
  <2>4. QED
    BY <2>3, Zenon DEF ThCount
<1>13. QED
  BY <1>10, <1>11, <1>12, Zenon DEF ThInv

(* It holds at the beginning.                                                *)
LEMMA ThInit ==
  ASSUME ThGiven, TH!Init
  PROVE  ThInv
<1>1. /\ state = [o \in Obj |-> "none"] /\ refs = [o \in Obj |-> 0]
      /\ newer = [n \in Obj \cup {Root} |-> Root] /\ older = [n \in Obj \cup {Root} |-> Root]
      /\ pc = [a \in Actor |-> "idle"] /\ tp = [a \in Actor |-> None]
      /\ seen = [a \in Actor |-> 0] /\ at = [a \in Actor |-> None]
      /\ has = [a \in Actor |-> {}] /\ early = {}
  BY Zenon DEF TH!Init, TH!Node
<1>2. ThTypes
  BY <1>1 DEF ThTypes
<1>3. ThCount
  <2>1. \A o \in Obj : Holders(has, o) = {} /\ Walkers(at, o) = {}
    BY <1>1, Zenon DEF Holders, Walkers, ThGiven
  <2>2. Cardinality({}) = 0
    BY Zenon DEF ThGiven, FiniteSetFacts
  <2>3. \A o \in Obj : refs[o] = 0 /\ 0 = 0 + 0
    BY <1>1
  <2>4. \A o \in Obj : Counted(refs, has, at, o)
    BY <2>1, <2>2, <2>3, Zenon DEF Counted
  <2>5. QED
    BY <2>4, Zenon DEF ThCount
<1>4. ThHeld /\ ThWait /\ ThRelease /\ ThLeak
  BY <1>1, Zenon DEF ThHeld, ThWait, ThRelease, ThLeak, TH!Releasing, ThGiven
<1>5. ThRing
  <2>1. \A o \in Obj : ~Linked(o)
    BY <1>1, Zenon DEF Linked, Live
  <2>2. ThLine(0, <<>>) /\ \A o \in Obj : ~ThIn(0, <<>>, o)
    BY DEF ThLine, ThIn
  <2>3. \A k \in 0..0 : Spot(0, <<>>, k) = Root /\ Spot(0, <<>>, k + 1) = Root
    BY DEF Spot
  <2>4. Chain(0, <<>>, newer, older)
    BY <2>2, <2>3, <1>1, Zenon DEF Chain, ThOlder
  <2>5. QED
    BY <2>1, <2>2, <2>4, <1>1, Zenon DEF ThRing
<1>6. QED
  BY <1>2, <1>3, <1>4, <1>5, Zenon DEF ThInv

(* Every step keeps it when releases do not overlap.                         *)
LEMMA ThStep ==
  ASSUME ThGiven, ThInv, ~overlap, TH!Next
  PROVE  ThInv'
<1>1. CASE \E o \in Obj : TH!Exit(o)
  BY <1>1, ThExit, Zenon
<1>2. ASSUME NEW a \in Actor, TH!Test(a) \/ TH!Unlink(a) \/ TH!Unlink2(a) \/ TH!FreeObj(a)
      PROVE  ThInv'
  BY <1>2, ThTest, ThUnlink, ThUnlink2, ThFree, Zenon
<1>3. ASSUME NEW a \in Actor, TH!First(a) \/ TH!NextThread(a)
      PROVE  ThInv'
  BY <1>3, ThFirst, ThNextThread, Zenon
<1>4. ASSUME NEW a \in Actor, NEW o \in Obj,
             TH!Create(a, o) \/ TH!Wait(a, o) \/ TH!Release(a, o)
      PROVE  ThInv'
  BY <1>4, ThCreate, ThWaits, ThReleases, Zenon
<1>5. ASSUME NEW a \in Actor, NEW b \in Actor, NEW o \in Obj, TH!AddRef(a, b, o)
      PROVE  ThInv'
  BY <1>5, ThAddRef, Zenon
<1>6. QED
  BY <1>1, <1>2, <1>3, <1>4, <1>5, Zenon DEF TH!Next

(* Nor does a stuttering step break it.                                      *)
LEMMA ThStutter ==
  ASSUME ThInv, UNCHANGED TH!vars
  PROVE  ThInv'
<1>1. UNCHANGED <<state, refs, newer, older, pc, tp, seen, at, has, early>>
  BY Zenon DEF TH!vars
<1>2. ThTypes' /\ ThCount' /\ ThHeld'
  BY <1>1, Zenon DEF ThInv, ThTypes, ThCount, ThHeld, Counted, Live
<1>3. ThWait' /\ ThRelease' /\ ThLeak'
  BY <1>1, Zenon DEF ThInv, ThWait, ThRelease, ThLeak, Live
<1>4. ThRing'
  <2>1. ThRing /\ \A o \in Obj : Linked(o)' <=> Linked(o)
    BY <1>1, Zenon DEF ThInv, Linked, Live
  <2>2. QED
    BY <1>1, <2>1, RingStays, Zenon
<1>5. QED
  BY <1>2, <1>3, <1>4, Zenon DEF ThInv

(* A number of members is the same there and here.                           *)
LEMMA ThSameCard == \A S : TH!Cardinality(S) = Cardinality(S)
  BY Zenon DEF TH!Cardinality, Cardinality, TH!IsFiniteSet, IsFiniteSet

(* The registry of threads that live                                         *)
LEMMA ThRegistry ==
  ASSUME ThGiven, OneEach, IsFiniteSet(Obj), ThInv
  PROVE  TH!RegistryExact
<1> SUFFICES ASSUME ~overlap, \A a \in Actor : pc[a] \notin TH!Releasing
             PROVE  \E n \in 0..Cardinality(Obj) :
                      \E l \in [1..n -> {o \in Obj : state[o] \in {"run", "final"}}] :
                        /\ \A i, j \in 1..n : l[i] = l[j] => i = j
                        /\ \A o \in {o \in Obj : state[o] \in {"run", "final"}} :
                             \E i \in 1..n : l[i] = o
                        /\ \A k \in 0..n : /\ newer[TH!Place(n, l, k)] = TH!Place(n, l, k + 1)
                                           /\ older[TH!Place(n, l, k + 1)] = TH!Place(n, l, k)
  BY ThSameCard, Zenon DEF TH!RegistryExact
<1>1. PICK n, l : Chain(n, l, newer, older) /\ \A o \in Obj : ThIn(n, l, o) <=> Live(o)
  BY QuietRing, Zenon DEF ThQuiet
<1>2. /\ n \in Nat /\ l \in [1..n -> Obj] /\ \A i, j \in 1..n : l[i] = l[j] => i = j
      /\ \A k \in 0..n : /\ newer[Spot(n, l, k)] = Spot(n, l, k + 1)
                         /\ older[Spot(n, l, k + 1)] = Spot(n, l, k)
  BY <1>1, Zenon DEF Chain, ThLine, ThOlder
<1>3. n <= Cardinality(Obj) /\ Cardinality(Obj) \in Nat
  BY <1>2, Zenon DEF OneEach, ThGiven, FiniteSetFacts
<1>4. /\ l \in [1..n -> {o \in Obj : state[o] \in {"run", "final"}}]
      /\ \A o \in {o \in Obj : state[o] \in {"run", "final"}} : \E i \in 1..n : l[i] = o
  BY <1>1, <1>2, Zenon DEF ThIn, Live
<1>5. \A k : TH!Place(n, l, k) = Spot(n, l, k)
  BY Zenon DEF TH!Place, Spot
<1>6. n \in 0..Cardinality(Obj)
  BY <1>2, <1>3
<1>7. \A k \in 0..n : /\ newer[TH!Place(n, l, k)] = TH!Place(n, l, k + 1)
                      /\ older[TH!Place(n, l, k + 1)] = TH!Place(n, l, k)
  BY <1>2, <1>5, Zenon
<1>8. QED
  BY <1>2, <1>4, <1>6, <1>7, Zenon

(* What it says of threads and of who refers to them                         *)
LEMMA ThSays ==
  ASSUME ThGiven, ThInv
  PROVE  TH!ReferenceKeepsThread /\ TH!RefsExact /\ TH!LeakOnlyEarly /\ TH!WaitedForRuns
<1>1. TH!ReferenceKeepsThread
  <2> SUFFICES ASSUME NEW a \in Actor, NEW o \in TH!Pointers(a)
               PROVE  state[o] # "freed"
    BY Zenon DEF TH!ReferenceKeepsThread
  <2>1. ThTypes /\ ThHeld /\ ThWait /\ ThRelease
    BY Zenon DEF ThInv
  <2>2. CASE o \in has[a] \/ (o = at[a] /\ o # None)
    BY <2>1, <2>2, Zenon DEF ThTypes, ThHeld, Live
  <2>3. CASE o = tp[a] /\ pc[a] \in {"wtexit", "woken"}
    BY <2>1, <2>3, Zenon DEF ThTypes, ThHeld, ThWait, Live
  <2>4. CASE o = tp[a] /\ pc[a] \in {"unlink", "unlink2", "free"}
    BY <2>1, <2>4, Zenon DEF ThRelease, Live, TH!Releasing
  <2>5. QED
    BY <2>2, <2>3, <2>4, Zenon DEF TH!Pointers
<1>2. TH!RefsExact
  BY ThSameCard, Zenon DEF TH!RefsExact, ThInv, ThCount, Counted, Holders, Walkers
<1>3. TH!LeakOnlyEarly
  BY Zenon DEF TH!LeakOnlyEarly, ThInv, ThLeak
<1>4. TH!WaitedForRuns
  BY Zenon DEF TH!WaitedForRuns, ThInv, ThWait
<1>5. QED
  BY <1>1, <1>2, <1>3, <1>4, Zenon

SM == INSTANCE ChSem WITH cnt <- semCnt, queue <- semQueue, msg <- semMsg

MS == INSTANCE ChMsg WITH queue <- senders, st <- msgSt

(***************************************************************************)
(*                           Counting semaphores                           *)
(***************************************************************************)

(* Counters c, queues q and messages m of semaphores agree: a queue is as    *)
(* long as its counter is below zero, those in a queue were not woken, and   *)
(* nobody is in two places.                                                  *)
SemSound(c, q, m) ==
  /\ c \in [Sem -> Int]
  /\ q \in [Sem -> Seq(Thread)]
  /\ m \in [Thread -> {"none", "ok", "timeout", "reset"}]
  /\ \A x \in Sem : Len(q[x]) = IF c[x] < 0 THEN -c[x] ELSE 0
  /\ \A x \in Sem : \A i \in 1..Len(q[x]) : m[q[x][i]] = "none"
  /\ \A x, y \in Sem : \A i \in 1..Len(q[x]), j \in 1..Len(q[y]) :
       q[x][i] = q[y][j] => x = y /\ i = j

(* A thread that runs takes a unit, or waits.                                *)
LEMMA TakenSound ==
  ASSUME NEW c, NEW q, NEW m, SemSound(c, q, m),
         NEW x \in Sem, NEW t \in Thread, m[t] # "none",
         NEW d, NEW r, NEW n, [cnt |-> d, queue |-> r, msg |-> n] = SM!Taken(c, q, m, t, x)
  PROVE  SemSound(d, r, n)
<1>1. /\ c \in [Sem -> Int]
      /\ q \in [Sem -> Seq(Thread)]
      /\ m \in [Thread -> {"none", "ok", "timeout", "reset"}]
      /\ \A z \in Sem : c[z] \in Int /\ q[z] \in Seq(Thread) /\ Len(q[z]) \in Nat
  BY DEF SemSound
<1>0. \A z \in Sem : \A i \in 1..Len(q[z]) :
        q[z][i] \in Thread /\ q[z][i] # t /\ m[q[z][i]] = "none"
  BY DEF SemSound
<1>2. \A z \in Sem : Len(q[z]) = IF c[z] < 0 THEN -c[z] ELSE 0
  BY Zenon DEF SemSound
<1>3. \A z, w \in Sem : \A i \in 1..Len(q[z]), j \in 1..Len(q[w]) :
        q[z][i] = q[w][j] => z = w /\ i = j
  BY Zenon DEF SemSound
<1>4. /\ d = [c EXCEPT ![x] = c[x] - 1]
      /\ r = IF c[x] - 1 < 0 THEN [q EXCEPT ![x] = Append(q[x], t)] ELSE q
      /\ n = [m EXCEPT ![t] = IF c[x] - 1 < 0 THEN "none" ELSE "ok"]
  BY Zenon DEF SM!Taken
<1>5. /\ d \in [Sem -> Int] /\ d[x] = c[x] - 1
      /\ \A z \in Sem \ {x} : d[z] = c[z]
  BY <1>1, <1>4
<1>6. /\ n \in [Thread -> {"none", "ok", "timeout", "reset"}]
      /\ n[t] = IF c[x] - 1 < 0 THEN "none" ELSE "ok"
      /\ \A u \in Thread \ {t} : n[u] = m[u]
  BY <1>1, <1>4, Zenon
<1>7. CASE c[x] - 1 < 0
  <2>1. /\ r \in [Sem -> Seq(Thread)] /\ r[x] = Append(q[x], t)
        /\ \A z \in Sem \ {x} : r[z] = q[z]
    BY <1>1, <1>4, <1>7, SMTT(20)
  <2>2. /\ Len(r[x]) = Len(q[x]) + 1
        /\ r[x][Len(q[x]) + 1] = t
        /\ \A i \in 1..Len(q[x]) : r[x][i] = q[x][i]
    BY <2>1, <1>1
  <2>3. \A z \in Sem : Len(r[z]) = IF d[z] < 0 THEN -d[z] ELSE 0
    <3>1. Len(r[x]) = IF d[x] < 0 THEN -d[x] ELSE 0
      BY <2>2, <1>1, <1>2, <1>5, <1>7
    <3>2. QED
      BY <3>1, <2>1, <1>2, <1>5, Zenon
  <2>4. \A z \in Sem : \A i \in 1..Len(r[z]) :
          \/ z = x /\ i = Len(q[x]) + 1 /\ r[z][i] = t
          \/ i \in 1..Len(q[z]) /\ r[z][i] = q[z][i] /\ r[z][i] # t
    <3>1. \A i \in 1..Len(r[x]) : i = Len(q[x]) + 1 \/ i \in 1..Len(q[x])
      BY <2>2, <1>1, SMTT(20)
    <3>2. \A i \in 1..Len(r[x]) :
            \/ i = Len(q[x]) + 1 /\ r[x][i] = t
            \/ i \in 1..Len(q[x]) /\ r[x][i] = q[x][i] /\ r[x][i] # t
      BY <3>1, <2>2, <1>0
    <3>3. ASSUME NEW z \in Sem, z # x, NEW i \in 1..Len(r[z])
          PROVE  i \in 1..Len(q[z]) /\ r[z][i] = q[z][i] /\ r[z][i] # t
      <4>1. r[z] = q[z]
        BY <3>3, <2>1, Zenon
      <4>2. QED
        BY <4>1, <1>0, Zenon
    <3>4. QED
      BY <3>2, <3>3, Zenon
  <2>5. \A z \in Sem : \A i \in 1..Len(r[z]) : n[r[z][i]] = "none"
    <3>1. n[t] = "none"
      BY <1>6, <1>7, Zenon
    <3>2. ASSUME NEW z \in Sem, NEW i \in 1..Len(r[z])
          PROVE  n[r[z][i]] = "none"
      <4>1. CASE r[z][i] = t
        BY <4>1, <3>1, Zenon
      <4>2. CASE i \in 1..Len(q[z]) /\ r[z][i] = q[z][i] /\ r[z][i] # t
        BY <4>2, <1>0, <1>6, ZenonT(30)
      <4>3. QED
        BY <4>1, <4>2, <2>4, Zenon
    <3>3. QED
      BY <3>2, Zenon
  <2>6. \A z, w \in Sem : \A i \in 1..Len(r[z]), j \in 1..Len(r[w]) :
          r[z][i] = r[w][j] => z = w /\ i = j
    BY <2>4, <1>3
  <2>7. QED
    BY <2>1, <2>3, <2>5, <2>6, <1>5, <1>6, Zenon DEF SemSound
<1>8. CASE ~(c[x] - 1 < 0)
  <2>1. r = q
    BY <1>4, <1>8, Zenon
  <2>2. \A z \in Sem : Len(r[z]) = IF d[z] < 0 THEN -d[z] ELSE 0
    <3>1. \A z \in Sem : c[z] < 0 \/ z # x => Len(r[z]) = IF d[z] < 0 THEN -d[z] ELSE 0
      BY <2>1, <1>1, <1>2, <1>5, <1>8, SMTT(20)
    <3>2. Len(r[x]) = 0 /\ ~(d[x] < 0)
      BY <2>1, <1>1, <1>2, <1>5, <1>8, SMTT(20)
    <3>3. QED
      BY <3>1, <3>2, Zenon
  <2>3. \A z \in Sem : \A i \in 1..Len(r[z]) : n[r[z][i]] = "none"
    BY <2>1, <1>0, <1>6
  <2>4. QED
    BY <2>1, <2>2, <2>3, <1>5, <1>6 DEF SemSound
<1>9. QED
  BY <1>7, <1>8, Zenon

(* Threads leave the queue of x: those that stay are at the places f of the  *)
(* queue before, and only those that leave get a message.                    *)
Leave(c, q, m, x, d, r, n, f) ==
  /\ d \in [Sem -> Int] /\ r \in [Sem -> Seq(Thread)]
  /\ n \in [Thread -> {"none", "ok", "timeout", "reset"}]
  /\ f \in [1..Len(r[x]) -> 1..Len(q[x])]
  /\ \A z \in Sem \ {x} : d[z] = c[z] /\ r[z] = q[z]
  /\ Len(r[x]) = IF d[x] < 0 THEN -d[x] ELSE 0
  /\ \A i \in 1..Len(r[x]) : r[x][i] = q[x][f[i]]
  /\ \A i, j \in 1..Len(r[x]) : f[i] = f[j] => i = j
  /\ \A u \in Thread : \/ n[u] = m[u]
                       \/ \E i \in 1..Len(q[x]) : /\ q[x][i] = u
                                                  /\ \A j \in 1..Len(r[x]) : f[j] # i

(* What is left is sound.                                                    *)
LEMMA LeaveSound ==
  ASSUME NEW c, NEW q, NEW m, SemSound(c, q, m), NEW x \in Sem,
         NEW d, NEW r, NEW n, NEW f, Leave(c, q, m, x, d, r, n, f)
  PROVE  SemSound(d, r, n)
<1>1. \A z \in Sem : Len(q[z]) = IF c[z] < 0 THEN -c[z] ELSE 0
  BY Zenon DEF SemSound
<1>2. \A z, w \in Sem : \A i \in 1..Len(q[z]), j \in 1..Len(q[w]) :
        q[z][i] = q[w][j] => z = w /\ i = j
  BY Zenon DEF SemSound
<1>3. \A z \in Sem : \A i \in 1..Len(q[z]) : q[z][i] \in Thread /\ m[q[z][i]] = "none"
  BY DEF SemSound
<1>4. \A z \in Sem : Len(r[z]) = IF d[z] < 0 THEN -d[z] ELSE 0
  BY <1>1, Zenon DEF Leave
<1>5. \A z \in Sem \ {x} : r[z] = q[z]
  BY Zenon DEF Leave
<1>6. \A i \in 1..Len(r[x]) : f[i] \in 1..Len(q[x]) /\ r[x][i] = q[x][f[i]]
  BY Zenon DEF Leave
<1>7. \A z, w \in Sem : \A i \in 1..Len(r[z]), j \in 1..Len(r[w]) :
        r[z][i] = r[w][j] => z = w /\ i = j
  <2>1. \A i, j \in 1..Len(r[x]) : r[x][i] = r[x][j] => i = j
    <3>1. \A i, j \in 1..Len(q[x]) : q[x][i] = q[x][j] => i = j
      BY <1>2, Zenon
    <3>2. ASSUME NEW i \in 1..Len(r[x]), NEW j \in 1..Len(r[x]), r[x][i] = r[x][j]
          PROVE  f[i] = f[j]
      <4>1. f[i] \in 1..Len(q[x]) /\ r[x][i] = q[x][f[i]]
        BY <1>6, Zenon
      <4>2. f[j] \in 1..Len(q[x]) /\ r[x][j] = q[x][f[j]]
        BY <1>6, Zenon
      <4>3. QED
        BY <4>1, <4>2, <3>2, <3>1, Zenon
    <3>3. QED
      BY <3>2 DEF Leave
  <2>2. ASSUME NEW z \in Sem \ {x}, NEW i \in 1..Len(r[x]), NEW j \in 1..Len(r[z])
        PROVE  r[x][i] # r[z][j]
    <3>1. f[i] \in 1..Len(q[x]) /\ r[x][i] = q[x][f[i]]
      BY <1>6, Zenon
    <3>2. r[z] = q[z]
      BY <1>5, Zenon
    <3>3. QED
      BY <3>1, <3>2, <1>2
  <2>3. \A z, w \in Sem \ {x} : \A i \in 1..Len(r[z]), j \in 1..Len(r[w]) :
          r[z][i] = r[w][j] => z = w /\ i = j
    BY <1>2, <1>5
  <2>4. QED
    BY <2>1, <2>2, <2>3, SMTT(20)
<1>8. \A z \in Sem : \A i \in 1..Len(r[z]) : n[r[z][i]] = "none"
  <2>1. ASSUME NEW i \in 1..Len(r[x]) PROVE n[r[x][i]] = "none"
    <3>1. q[x][f[i]] \in Thread /\ m[q[x][f[i]]] = "none"
      BY <1>3, <1>6, Zenon
    <3>2. ~\E k \in 1..Len(q[x]) : q[x][k] = q[x][f[i]] /\ \A j \in 1..Len(r[x]) : f[j] # k
      BY <1>2, <1>6
    <3>3. n[q[x][f[i]]] = m[q[x][f[i]]]
      BY <3>1, <3>2, Zenon DEF Leave
    <3>4. r[x][i] = q[x][f[i]]
      BY <1>6, Zenon
    <3>5. QED
      BY <3>1, <3>3, <3>4, Zenon
  <2>2. ASSUME NEW z \in Sem \ {x}, NEW i \in 1..Len(r[z]) PROVE n[r[z][i]] = "none"
    <3>1. q[z][i] \in Thread /\ m[q[z][i]] = "none"
      BY <1>3, <1>5, Zenon
    <3>2. ~\E k \in 1..Len(q[x]) : q[x][k] = q[z][i]
      BY <1>2, <1>5, Zenon
    <3>3. QED
      BY <3>1, <3>2, <1>5, ZenonT(30) DEF Leave
  <2>3. QED
    BY <2>1, <2>2, Zenon
<1>9. QED
  BY <1>4, <1>7, <1>8, Zenon DEF SemSound, Leave

(* k units are given, and as many threads as Wakes says take them.           *)
LEMMA GivenSound ==
  ASSUME NEW c, NEW q, NEW m, SemSound(c, q, m), NEW x \in Sem, NEW k \in Nat,
         NEW d, NEW r, NEW n, [cnt |-> d, queue |-> r, msg |-> n] = SM!Given(c, q, m, x, k)
  PROVE  /\ SemSound(d, r, n)
         /\ \A t \in Thread : m[t] # "none" => n[t] # "none"
<1>1. PICK w : w = SM!Wakes(c[x], k)
  OBVIOUS
<1>2. /\ d = [c EXCEPT ![x] = c[x] + k]
      /\ r = [q EXCEPT ![x] = SubSeq(q[x], w + 1, Len(q[x]))]
      /\ n = [t \in Thread |-> IF \E i \in 1..w : q[x][i] = t THEN "ok" ELSE m[t]]
  BY <1>1, Zenon DEF SM!Given
<1>3. /\ c \in [Sem -> Int]
      /\ q \in [Sem -> Seq(Thread)]
      /\ m \in [Thread -> {"none", "ok", "timeout", "reset"}]
      /\ Len(q[x]) = IF c[x] < 0 THEN -c[x] ELSE 0
  BY Zenon DEF SemSound
<1>4. w \in 0..Len(q[x]) /\ Len(q[x]) \in Nat /\ c[x] \in Int
  BY <1>1, <1>3 DEF SM!Wakes
<1>5. PICK p : p = SubSeq(q[x], w + 1, Len(q[x]))
  BY Zenon
<1>6. /\ p \in Seq(Thread) /\ Len(p) = Len(q[x]) - w
      /\ \A i \in 1..Len(p) : p[i] = q[x][w + i]
  <2>1. \A i \in (w + 1)..Len(q[x]) : q[x][i] \in Thread
    BY <1>3, <1>4, SMTT(20)
  <2>2. QED
    BY <2>1, <1>4, <1>5
<1>7. /\ d \in [Sem -> Int] /\ d[x] = c[x] + k
      /\ \A z \in Sem \ {x} : d[z] = c[z]
  BY <1>2, <1>3, <1>4
<1>8. /\ r \in [Sem -> Seq(Thread)] /\ r[x] = p
      /\ \A z \in Sem \ {x} : r[z] = q[z]
  BY <1>2, <1>3, <1>5, <1>6, Zenon
<1>9. /\ n \in [Thread -> {"none", "ok", "timeout", "reset"}]
      /\ \A t \in Thread : n[t] = IF \E i \in 1..w : q[x][i] = t THEN "ok" ELSE m[t]
  BY <1>2, <1>3, Zenon
<1> DEFINE f == [i \in 1..Len(r[x]) |-> w + i]
<1>10. /\ f \in [1..Len(r[x]) -> 1..Len(q[x])]
       /\ \A i \in 1..Len(r[x]) : f[i] = w + i
  BY <1>4, <1>6, <1>8, SMTT(20)
<1> HIDE DEF f
<1>11. /\ \A i \in 1..Len(r[x]) : r[x][i] = q[x][f[i]]
       /\ \A i, j \in 1..Len(r[x]) : f[i] = f[j] => i = j
  <2>1. \A i \in 1..Len(r[x]) : r[x][i] = q[x][f[i]]
    BY <1>6, <1>8, <1>10
  <2>2. \A i, j \in 1..Len(r[x]) : w + i = w + j => i = j
    BY <1>4
  <2>3. QED
    BY <2>1, <2>2, <1>10, SMTT(20)
<1>12. Len(r[x]) = IF d[x] < 0 THEN -d[x] ELSE 0
  BY <1>1, <1>3, <1>4, <1>6, <1>7, <1>8, SMTT(20) DEF SM!Wakes
<1>13. \A u \in Thread : \/ n[u] = m[u]
                         \/ \E i \in 1..Len(q[x]) : /\ q[x][i] = u
                                                    /\ \A j \in 1..Len(r[x]) : f[j] # i
  <2>1. \A i \in 1..w : i \in 1..Len(q[x]) /\ \A j \in 1..Len(r[x]) : f[j] # i
    BY <1>4, <1>10
  <2>2. QED
    BY <2>1, <1>9, Zenon
<1>14. Leave(c, q, m, x, d, r, n, f)
  BY <1>7, <1>8, <1>9, <1>10, <1>11, <1>12, <1>13, Zenon DEF Leave
<1>15. SemSound(d, r, n)
  BY <1>14, LeaveSound, Zenon
<1>16. QED
  BY <1>9, <1>15, Zenon

(* A thread leaves the queue when its time is over, and its count with it.   *)
LEMMA TimedOutSound ==
  ASSUME SemSound(semCnt, semQueue, semMsg), NEW x \in Sem, NEW k \in 1..Len(semQueue[x]),
         SM!TimedOut(x, k)
  PROVE  SemSound(semCnt, semQueue, semMsg)'
<1>1. PICK q, p : q = semQueue[x] /\ p = SM!Without(q, k)
  OBVIOUS
<1>2. /\ semCnt' = [semCnt EXCEPT ![x] = semCnt[x] + 1]
      /\ semQueue' = [semQueue EXCEPT ![x] = p]
      /\ semMsg' = [semMsg EXCEPT ![q[k]] = "timeout"]
  BY <1>1, Zenon DEF SM!TimedOut
<1>3. /\ semCnt \in [Sem -> Int]
      /\ semQueue \in [Sem -> Seq(Thread)]
      /\ semMsg \in [Thread -> {"none", "ok", "timeout", "reset"}]
      /\ Len(q) = IF semCnt[x] < 0 THEN -semCnt[x] ELSE 0
  BY <1>1, Zenon DEF SemSound
<1>4. q \in Seq(Thread) /\ Len(q) \in Nat /\ k \in 1..Len(q) /\ semCnt[x] \in Int
  BY <1>1, <1>3
<1> DEFINE f == [i \in 1..(Len(q) - 1) |-> IF i < k THEN i ELSE i + 1]
<1>5. /\ f \in [1..(Len(q) - 1) -> 1..Len(q)]
      /\ \A i \in 1..(Len(q) - 1) : f[i] = IF i < k THEN i ELSE i + 1
  BY <1>4
<1> HIDE DEF f
<1>6. p = [i \in 1..(Len(q) - 1) |-> q[f[i]]]
  BY <1>1, <1>5, Zenon DEF SM!Without
<1>7. /\ p \in Seq(Thread) /\ Len(p) = Len(q) - 1
      /\ \A i \in 1..(Len(q) - 1) : p[i] = q[f[i]]
  BY <1>4, <1>5, <1>6
<1>8. /\ semCnt' \in [Sem -> Int] /\ semCnt'[x] = semCnt[x] + 1
      /\ \A z \in Sem \ {x} : semCnt'[z] = semCnt[z]
  BY <1>2, <1>3, <1>4
<1>9. /\ semQueue' \in [Sem -> Seq(Thread)] /\ semQueue'[x] = p
      /\ \A z \in Sem \ {x} : semQueue'[z] = semQueue[z]
  BY <1>2, <1>3, <1>7, Zenon
<1>10. /\ semMsg' \in [Thread -> {"none", "ok", "timeout", "reset"}]
       /\ \A t \in Thread \ {q[k]} : semMsg'[t] = semMsg[t]
  BY <1>2, <1>3, <1>4, Zenon
<1>11. Len(p) = IF semCnt'[x] < 0 THEN -semCnt'[x] ELSE 0
  BY <1>3, <1>4, <1>7, <1>8, SMTT(20)
<1>12. \A i, j \in 1..(Len(q) - 1) : f[i] # k /\ (f[i] = f[j] => i = j)
  BY <1>4, <1>5
<1>13. Leave(semCnt, semQueue, semMsg, x, semCnt', semQueue', semMsg', f)
  <2>1. \A u \in Thread : \/ semMsg'[u] = semMsg[u]
                          \/ \E i \in 1..Len(q) : /\ q[i] = u
                                                  /\ \A j \in 1..Len(p) : f[j] # i
    BY <1>4, <1>7, <1>10, <1>12, Zenon
  <2>2. 1..Len(p) = 1..(Len(q) - 1)
    BY <1>7, Zenon
  <2>3. f \in [1..Len(p) -> 1..Len(q)]
    BY <1>5, <2>2, Zenon
  <2>4. /\ \A i \in 1..Len(p) : p[i] = q[f[i]]
        /\ \A i, j \in 1..Len(p) : f[i] = f[j] => i = j
    BY <1>7, <1>12, <2>2, Zenon
  <2>5. \A z \in Sem \ {x} : semCnt'[z] = semCnt[z] /\ semQueue'[z] = semQueue[z]
    BY <1>8, <1>9, Zenon
  <2>6. semQueue[x] = q /\ semQueue'[x] = p
    BY <1>1, <1>9, Zenon
  <2>7. QED
    <3>1. f \in [1..Len(semQueue'[x]) -> 1..Len(semQueue[x])]
      BY <2>3, <2>6
    <3>2. Len(semQueue'[x]) = IF semCnt'[x] < 0 THEN -semCnt'[x] ELSE 0
      BY <1>11, <2>6, SMTT(20)
    <3>3. /\ \A i \in 1..Len(semQueue'[x]) : semQueue'[x][i] = semQueue[x][f[i]]
          /\ \A i, j \in 1..Len(semQueue'[x]) : f[i] = f[j] => i = j
      BY <2>4, <2>6, SMTT(20)
    <3>4. \A u \in Thread : \/ semMsg'[u] = semMsg[u]
                            \/ \E i \in 1..Len(semQueue[x]) :
                                 /\ semQueue[x][i] = u
                                 /\ \A j \in 1..Len(semQueue'[x]) : f[j] # i
      BY <2>1, <2>6, SMTT(20)
    <3>5. QED
      BY <1>8, <1>9, <1>10, <2>5, <3>1, <3>2, <3>3, <3>4, Zenon DEF Leave
<1>14. QED
  BY <1>13, LeaveSound, Zenon

(* A reset wakes all that wait.                                              *)
LEMMA ResetSound ==
  ASSUME SemSound(semCnt, semQueue, semMsg), NEW x \in Sem, NEW k \in Nat, SM!Reset(x, k)
  PROVE  SemSound(semCnt, semQueue, semMsg)'
<1>1. PICK q : q = semQueue[x]
  OBVIOUS
<1>2. /\ semCnt \in [Sem -> Int]
      /\ semQueue \in [Sem -> Seq(Thread)]
      /\ semMsg \in [Thread -> {"none", "ok", "timeout", "reset"}]
      /\ Len(q) = IF semCnt[x] < 0 THEN -semCnt[x] ELSE 0
  BY <1>1, Zenon DEF SemSound
<1>3. q \in Seq(Thread) /\ Len(q) \in Nat /\ semCnt[x] \in Int
  BY <1>1, <1>2
<1>4. (IF semCnt[x] < 0 THEN Len(q) + semCnt[x] ELSE Len(q)) = 0
  BY <1>2, <1>3
<1>5. /\ semCnt' = [semCnt EXCEPT ![x] = k]
      /\ semQueue' = [semQueue EXCEPT ![x] = SubSeq(q, 1, 0)]
      /\ semMsg' = [t \in Thread |-> IF \E i \in (0 + 1)..Len(q) : q[i] = t
                                       THEN "reset" ELSE semMsg[t]]
  BY <1>1, <1>4, Zenon DEF SM!Reset
<1>6. SubSeq(q, 1, 0) = <<>>
  BY <1>3
<1>7. /\ semCnt' \in [Sem -> Int] /\ semCnt'[x] = k
      /\ \A z \in Sem \ {x} : semCnt'[z] = semCnt[z]
  BY <1>2, <1>5
<1>8. /\ semQueue' \in [Sem -> Seq(Thread)] /\ Len(semQueue'[x]) = 0
      /\ \A z \in Sem \ {x} : semQueue'[z] = semQueue[z]
  BY <1>2, <1>5, <1>6
<1>9. /\ semMsg' \in [Thread -> {"none", "ok", "timeout", "reset"}]
      /\ \A t \in Thread : semMsg'[t] = semMsg[t] \/ \E i \in 1..Len(q) : q[i] = t
  <2>1. (0 + 1)..Len(q) = 1..Len(q)
    BY <1>3
  <2>2. semMsg' = [t \in Thread |-> IF \E i \in 1..Len(q) : q[i] = t
                                     THEN "reset" ELSE semMsg[t]]
    BY <2>1, <1>5, Zenon
  <2>3. semMsg' \in [Thread -> {"none", "ok", "timeout", "reset"}]
    BY <2>2, <1>2, Zenon
  <2>4. \A t \in Thread : semMsg'[t] = semMsg[t] \/ \E i \in 1..Len(q) : q[i] = t
    BY <2>2, Zenon
  <2>5. QED
    BY <2>3, <2>4, Zenon
<1> DEFINE f == [i \in 1..0 |-> i]
<1>10. Leave(semCnt, semQueue, semMsg, x, semCnt', semQueue', semMsg', f)
  <2>1. 1..0 = {} /\ f \in [1..0 -> 1..Len(q)]
    OBVIOUS
  <2> HIDE DEF f
  <2>2. 1..Len(semQueue'[x]) = {} /\ f \in [1..Len(semQueue'[x]) -> 1..Len(semQueue[x])]
    BY <2>1, <1>1, <1>8, SMTT(20)
  <2>3. Len(semQueue'[x]) = IF semCnt'[x] < 0 THEN -semCnt'[x] ELSE 0
    BY <1>7, <1>8, SMTT(20)
  <2>4. \A u \in Thread : \/ semMsg'[u] = semMsg[u]
                          \/ \E i \in 1..Len(semQueue[x]) :
                               /\ semQueue[x][i] = u
                               /\ \A j \in 1..Len(semQueue'[x]) : f[j] # i
    BY <2>2, <1>1, <1>9, SMTT(20)
  <2>5. \A i \in 1..Len(semQueue'[x]) : FALSE
    BY <2>2, Zenon
  <2>6. QED
    BY <2>2, <2>3, <2>4, <2>5, <1>7, <1>8, <1>9, Zenon DEF Leave
<1>11. QED
  BY <1>10, LeaveSound, Zenon

-----------------------------------------------------------------------------

(* A step of the semaphores keeps them sound.                                *)
LEMMA SemStep ==
  ASSUME MaxCnt \in Nat, SemSound(semCnt, semQueue, semMsg), SM!Next
  PROVE  SemSound(semCnt, semQueue, semMsg)'
<1>1. ASSUME NEW t \in Thread, NEW x \in Sem, SM!Wait(t, x)
      PROVE  SemSound(semCnt, semQueue, semMsg)'
  <2>1. /\ semMsg[t] # "none"
        /\ [cnt |-> semCnt', queue |-> semQueue', msg |-> semMsg']
             = SM!Taken(semCnt, semQueue, semMsg, t, x)
    BY <1>1, Zenon DEF SM!Wait, SM!Runs, SM!Becomes, SM!Taken
  <2>2. QED
    BY <2>1, TakenSound, Zenon
<1>2. ASSUME NEW x \in Sem, NEW k \in Nat, SM!Add(x, k)
      PROVE  SemSound(semCnt, semQueue, semMsg)'
  <2>1. [cnt |-> semCnt', queue |-> semQueue', msg |-> semMsg']
          = SM!Given(semCnt, semQueue, semMsg, x, k)
    BY <1>2, Zenon DEF SM!Add, SM!Becomes, SM!Given
  <2>2. QED
    BY <2>1, GivenSound, Zenon
<1>3. ASSUME NEW t \in Thread, NEW x \in Sem, NEW w \in Sem, SM!SignalWait(t, x, w)
      PROVE  SemSound(semCnt, semQueue, semMsg)'
  <2>1. PICK y : y = SM!Given(semCnt, semQueue, semMsg, x, 1)
    OBVIOUS
  <2>2. [cnt |-> y.cnt, queue |-> y.queue, msg |-> y.msg]
          = SM!Given(semCnt, semQueue, semMsg, x, 1)
    BY <2>1, Zenon DEF SM!Given
  <2>3. /\ semMsg[t] # "none"
        /\ [cnt |-> semCnt', queue |-> semQueue', msg |-> semMsg']
             = SM!Taken(y.cnt, y.queue, y.msg, t, w)
    BY <1>3, <2>1, ZenonT(30) DEF SM!SignalWait, SM!Runs, SM!Becomes, SM!Taken
  <2>4. SemSound(y.cnt, y.queue, y.msg) /\ y.msg[t] # "none"
    BY <2>2, <2>3, GivenSound
  <2>5. QED
    BY <2>3, <2>4, TakenSound, Zenon
<1>4. QED
  BY <1>1, <1>2, <1>3, TimedOutSound, ResetSound, SMTT(20) DEF SM!Next

SemInv == SemSound(semCnt, semQueue, semMsg)

(* Semaphores are sound at the start and stay so, and then a semaphore has   *)
(* units or waiting threads, as many as its counter says.                    *)
LEMMA SemHolds ==
  ASSUME MaxCnt \in Nat
  PROVE  /\ SM!Init => SemInv
         /\ SemInv /\ [SM!Next]_SM!vars => SemInv'
         /\ SemInv => SM!CounterExact
<1>1. ASSUME SM!Init PROVE SemInv
  <2>1. /\ semCnt \in [Sem -> Int] /\ \A x \in Sem : semCnt[x] >= 0
        /\ semQueue \in [Sem -> Seq(Thread)]
        /\ \A x \in Sem : Len(semQueue[x]) = 0
        /\ semMsg \in [Thread -> {"none", "ok", "timeout", "reset"}]
    BY <1>1 DEF SM!Init
  <2>2. QED
    BY <2>1 DEF SemInv, SemSound
<1>2. ASSUME SemInv, SM!Next PROVE SemInv'
  BY <1>2, SemStep, Zenon DEF SemInv
<1>3. ASSUME SemInv, UNCHANGED SM!vars PROVE SemInv'
  BY <1>3, Zenon DEF SemInv, SM!vars
<1>4. ASSUME SemInv PROVE SM!CounterExact
  <2>1. \A x \in Sem : /\ semCnt[x] \in Int /\ semQueue[x] \in Seq(Thread)
                       /\ Len(semQueue[x]) = IF semCnt[x] < 0 THEN -semCnt[x] ELSE 0
    BY <1>4, Zenon DEF SemInv, SemSound
  <2>2. \A x \in Sem : \A i \in 1..Len(semQueue[x]) : semMsg[semQueue[x][i]] = "none"
    BY <1>4, Zenon DEF SemInv, SemSound
  <2>3. \A x \in Sem : (semQueue[x] = <<>>) <=> Len(semQueue[x]) = 0
    BY <2>1
  <2>4. QED
    BY <2>1, <2>2, <2>3, SMTT(20) DEF SM!CounterExact, SM!Runs
<1>5. QED
  BY <1>1, <1>2, <1>3, <1>4, Zenon

(***************************************************************************)
(*                          Synchronous messages                           *)
(***************************************************************************)

MsgTyped == /\ senders \in [Thread -> Seq(Thread)]
            /\ msgSt \in [Thread -> {"run", "wtmsg", "sndmsgq", "sndmsg", "ready"}]
            /\ peer \in [Thread -> Thread \cup {None}]
            /\ to \in [Thread -> Thread \cup {None}]

(* Who is in a queue sends to the receiver it belongs to, and is there once; *)
(* and who sends is in that queue.                                           *)
Queued == /\ \A r \in Thread : \A i \in 1..Len(senders[r]) :
               msgSt[senders[r][i]] = "sndmsgq" /\ to[senders[r][i]] = r
          /\ \A r \in Thread : \A i, j \in 1..Len(senders[r]) :
               senders[r][i] = senders[r][j] => i = j
          /\ \A a \in Thread : msgSt[a] = "sndmsgq" =>
               to[a] \in Thread /\ \E i \in 1..Len(senders[to[a]]) : senders[to[a]][i] = a

(* Who was received from is held by the receiver it sent to.                 *)
Held == /\ \A r \in Thread : peer[r] # None => msgSt[peer[r]] = "sndmsg" /\ to[peer[r]] = r
        /\ \A a \in Thread : msgSt[a] = "sndmsg" => to[a] \in Thread /\ peer[to[a]] = a

(* Who is in chMsgWait holds nobody; asleep, nobody sends to it, woken,      *)
(* somebody does.                                                            *)
Receiving == \A r \in Thread :
  /\ msgSt[r] \in {"wtmsg", "ready"} => peer[r] = None
  /\ msgSt[r] = "ready" => Len(senders[r]) > 0
  /\ msgSt[r] = "wtmsg" => Len(senders[r]) = 0

MsgInv == MsgTyped /\ Queued /\ Held /\ Receiving

(* chMsgSend                                                                 *)
LEMMA SendStep ==
  ASSUME MsgInv, NEW a \in Thread, NEW r \in Thread, MS!Send(a, r)
  PROVE  MsgInv'
<1>1. MsgTyped /\ Queued /\ Held /\ Receiving
  BY Zenon DEF MsgInv
<1>2. /\ msgSt[a] = "run" /\ a # r
      /\ to' = [to EXCEPT ![a] = r]
      /\ senders' = [senders EXCEPT ![r] = Append(senders[r], a)]
      /\ msgSt' = [msgSt EXCEPT ![a] = "sndmsgq",
                                ![r] = IF msgSt[r] = "wtmsg" THEN "ready" ELSE msgSt[r]]
      /\ peer' = peer
  BY Zenon DEF MS!Send
<1>3. /\ to' \in [Thread -> Thread \cup {None}] /\ to'[a] = r
      /\ \A t \in Thread \ {a} : to'[t] = to[t]
  BY <1>1, <1>2, Zenon DEF MsgTyped
<1>4. /\ senders' \in [Thread -> Seq(Thread)] /\ senders'[r] = Append(senders[r], a)
      /\ \A t \in Thread \ {r} : senders'[t] = senders[t]
      /\ senders[r] \in Seq(Thread) /\ Len(senders[r]) \in Nat
  BY <1>1, <1>2, SMTT(20) DEF MsgTyped
<1>5. /\ Len(senders'[r]) = Len(senders[r]) + 1
      /\ senders'[r][Len(senders[r]) + 1] = a
      /\ \A i \in 1..Len(senders[r]) : senders'[r][i] = senders[r][i]
  BY <1>4
<1>6. /\ msgSt' \in [Thread -> {"run", "wtmsg", "sndmsgq", "sndmsg", "ready"}]
      /\ msgSt'[a] = "sndmsgq"
      /\ msgSt'[r] = IF msgSt[r] = "wtmsg" THEN "ready" ELSE msgSt[r]
      /\ \A t \in Thread \ {a, r} : msgSt'[t] = msgSt[t]
  BY <1>1, <1>2, Zenon DEF MsgTyped
<1>7. \A t \in Thread : /\ msgSt[t] \in {"sndmsgq", "sndmsg"} => msgSt'[t] = msgSt[t] /\ t # a
                        /\ msgSt'[t] = "sndmsg" => msgSt[t] = "sndmsg"
                        /\ msgSt'[t] = "sndmsgq" => msgSt[t] = "sndmsgq" \/ t = a
  BY <1>2, <1>6, Zenon
<1>8. MsgTyped'
  BY <1>1, <1>2, <1>3, <1>4, <1>6, ZenonT(30) DEF MsgTyped
<1>9. \A t \in Thread : \A i \in 1..Len(senders[t]) :
        senders[t][i] \in Thread /\ senders[t][i] # a
  BY <1>1, <1>2 DEF MsgTyped, Queued
<1>10. \A t \in Thread : \A i \in 1..Len(senders'[t]) :
         \/ t = r /\ i = Len(senders[r]) + 1 /\ senders'[t][i] = a
         \/ i \in 1..Len(senders[t]) /\ senders'[t][i] = senders[t][i]
  <2>1. \A i \in 1..Len(senders'[r]) : i = Len(senders[r]) + 1 \/ i \in 1..Len(senders[r])
    BY <1>4, <1>5
  <2>2. QED
    BY <2>1, <1>4, <1>5, Zenon
<1>11. Queued'
  <2>1. ASSUME NEW t \in Thread, NEW i \in 1..Len(senders'[t])
        PROVE  msgSt'[senders'[t][i]] = "sndmsgq" /\ to'[senders'[t][i]] = t
    <3>1. CASE t = r /\ senders'[t][i] = a
      BY <3>1, <1>3, <1>6, Zenon
    <3>2. CASE i \in 1..Len(senders[t]) /\ senders'[t][i] = senders[t][i]
      <4>1. msgSt[senders[t][i]] = "sndmsgq" /\ to[senders[t][i]] = t
        BY <3>2, <1>1, Zenon DEF Queued
      <4>2. senders[t][i] \in Thread /\ senders[t][i] # a
        BY <3>2, <1>9, Zenon
      <4>3. QED
        BY <4>1, <4>2, <3>2, <1>3, <1>7, Zenon
    <3>3. QED
      BY <3>1, <3>2, <1>10, Zenon
  <2>2. \A t \in Thread : \A i, j \in 1..Len(senders'[t]) :
          senders'[t][i] = senders'[t][j] => i = j
    BY <1>1, <1>9, <1>10, SMTT(20) DEF Queued
  <2>3. ASSUME NEW t \in Thread, msgSt'[t] = "sndmsgq"
        PROVE  to'[t] \in Thread /\ \E i \in 1..Len(senders'[to'[t]]) : senders'[to'[t]][i] = t
    <3>1. CASE t = a
      BY <3>1, <1>3, <1>4, <1>5
    <3>2. CASE t # a
      <4>1. to'[t] = to[t] /\ to[t] \in Thread
        BY <2>3, <3>2, <1>1, <1>3, <1>7, Zenon DEF Queued
      <4>2. PICK i \in 1..Len(senders[to[t]]) : senders[to[t]][i] = t
        BY <2>3, <3>2, <1>1, <1>7, Zenon DEF Queued
      <4>3. i \in 1..Len(senders'[to[t]]) /\ senders'[to[t]][i] = t
        <5>1. CASE to[t] = r
          BY <5>1, <4>2, <1>4, <1>5, SMTT(20)
        <5>2. CASE to[t] # r
          BY <5>2, <4>1, <4>2, <1>4, Zenon
        <5>3. QED
          BY <5>1, <5>2, Zenon
      <4>4. QED
        BY <4>1, <4>3, Zenon
    <3>3. QED
      BY <3>1, <3>2, Zenon
  <2>4. QED
    BY <2>1, <2>2, <2>3, Zenon DEF Queued
<1>12. Held'
  <2>1. ASSUME NEW t \in Thread, peer'[t] # None
        PROVE  msgSt'[peer'[t]] = "sndmsg" /\ to'[peer'[t]] = t
    <3>1. peer[t] \in Thread /\ msgSt[peer[t]] = "sndmsg" /\ to[peer[t]] = t
      BY <2>1, <1>1, <1>2 DEF Held, MsgTyped
    <3>2. QED
      BY <3>1, <1>2, <1>3, <1>7, Zenon
  <2>2. ASSUME NEW t \in Thread, msgSt'[t] = "sndmsg"
        PROVE  to'[t] \in Thread /\ peer'[to'[t]] = t
    <3>1. t # a /\ msgSt[t] = "sndmsg"
      BY <2>2, <1>3, <1>7
    <3>2. to[t] \in Thread /\ peer[to[t]] = t
      BY <3>1, <1>1, Zenon DEF Held
    <3>3. QED
      BY <3>1, <3>2, <1>2, <1>3, <1>7, Zenon
  <2>3. QED
    BY <2>1, <2>2, Zenon DEF Held
<1>13. Receiving'
  <2>1. ASSUME NEW t \in Thread \ {a, r}
        PROVE  msgSt'[t] = msgSt[t] /\ peer'[t] = peer[t] /\ senders'[t] = senders[t]
    BY <1>2, <1>4, <1>6, ZenonT(30)
  <2>2. /\ msgSt'[r] \in {"wtmsg", "ready"} => peer'[r] = None
        /\ msgSt'[r] # "wtmsg" /\ Len(senders'[r]) > 0
    BY <1>1, <1>2, <1>4, <1>5, <1>6, SMTT(20) DEF Receiving
  <2>3. QED
    BY <2>1, <2>2, <1>1, <1>6, Zenon DEF Receiving
<1>14. QED
  BY <1>8, <1>11, <1>12, <1>13, Zenon DEF MsgInv

(* The receiver takes the first sender, at once or when it has slept.        *)
LEMMA TakeStep ==
  ASSUME MsgInv, NEW r \in Thread, None \notin Thread, msgSt[r] \in {"run", "ready"}, peer[r] = None,
         Len(senders[r]) > 0, MS!Take(r), to' = to
  PROVE  MsgInv'
<1>1. MsgTyped /\ Queued /\ Held /\ Receiving
  BY Zenon DEF MsgInv
<1>2. PICK a : a = Head(senders[r])
  OBVIOUS
<1>3. /\ senders' = [senders EXCEPT ![r] = Tail(senders[r])]
      /\ peer' = [peer EXCEPT ![r] = a]
      /\ msgSt' = [msgSt EXCEPT ![r] = "run", ![a] = "sndmsg"]
  BY <1>2, Zenon DEF MS!Take
<1>4. senders[r] \in Seq(Thread) /\ Len(senders[r]) \in Nat /\ senders[r] # <<>>
  BY <1>1 DEF MsgTyped
<1>5. /\ a = senders[r][1] /\ a \in Thread
      /\ Tail(senders[r]) \in Seq(Thread) /\ Len(Tail(senders[r])) = Len(senders[r]) - 1
      /\ \A i \in 1..(Len(senders[r]) - 1) : Tail(senders[r])[i] = senders[r][i + 1]
  BY <1>2, <1>4, SMTT(20)
<1>6. msgSt[a] = "sndmsgq" /\ to[a] = r /\ a # r
  BY <1>1, <1>4, <1>5 DEF Queued
<1>7. /\ senders' \in [Thread -> Seq(Thread)]
      /\ Len(senders'[r]) = Len(senders[r]) - 1
      /\ \A i \in 1..(Len(senders[r]) - 1) : senders'[r][i] = senders[r][i + 1]
      /\ \A t \in Thread \ {r} : senders'[t] = senders[t]
  BY <1>1, <1>3, <1>5, Zenon DEF MsgTyped
<1>8. /\ peer' \in [Thread -> Thread \cup {None}] /\ peer'[r] = a
      /\ \A t \in Thread \ {r} : peer'[t] = peer[t]
  BY <1>1, <1>3, <1>5, Zenon DEF MsgTyped
<1>9. /\ msgSt' \in [Thread -> {"run", "wtmsg", "sndmsgq", "sndmsg", "ready"}]
      /\ msgSt'[r] = "run" /\ msgSt'[a] = "sndmsg"
      /\ \A t \in Thread \ {a, r} : msgSt'[t] = msgSt[t]
  BY <1>1, <1>3, <1>5, <1>6, Zenon DEF MsgTyped
<1>10. \A t \in Thread : \A i \in 1..Len(senders[t]) : senders[t][i] = a => t = r /\ i = 1
  BY <1>1, <1>4, <1>5, <1>6 DEF Queued
<1>11. \A t \in Thread : \A i \in 1..Len(senders'[t]) :
         \E k \in 1..Len(senders[t]) : /\ senders'[t][i] = senders[t][k]
                                       /\ k = IF t = r THEN i + 1 ELSE i
  <2>1. ASSUME NEW i \in 1..Len(senders'[r])
        PROVE  i + 1 \in 1..Len(senders[r]) /\ senders'[r][i] = senders[r][i + 1]
    <3>1. i \in 1..(Len(senders[r]) - 1)
      BY <1>7, Zenon
    <3>2. i + 1 \in 1..Len(senders[r])
      BY <3>1, <1>4
    <3>3. QED
      BY <3>1, <3>2, <1>7, Zenon
  <2>2. QED
    BY <2>1, <1>7, Zenon
<1>12. Queued'
  <2>1. ASSUME NEW t \in Thread, NEW i \in 1..Len(senders'[t])
        PROVE  msgSt'[senders'[t][i]] = "sndmsgq" /\ to'[senders'[t][i]] = t
    <3>1. PICK k \in 1..Len(senders[t]) : /\ senders'[t][i] = senders[t][k]
                                          /\ k = IF t = r THEN i + 1 ELSE i
      BY <1>11, Zenon
    <3>2. msgSt[senders[t][k]] = "sndmsgq" /\ to[senders[t][k]] = t /\ senders[t][k] \in Thread
      BY <1>1, SMTT(20) DEF Queued, MsgTyped
    <3>3. senders[t][k] # a
      <4>1. ~(t = r /\ k = 1)
        BY <3>1, <1>7, <1>4
      <4>2. QED
        BY <4>1, <1>10, Zenon
    <3>4. senders[t][k] # r
      BY <3>2, Zenon
    <3>5. QED
      BY <3>1, <3>2, <3>3, <3>4, <1>9, Zenon
  <2>2. ASSUME NEW t \in Thread, NEW i \in 1..Len(senders'[t]), NEW j \in 1..Len(senders'[t]),
               senders'[t][i] = senders'[t][j]
        PROVE  i = j
    <3>1. PICK k \in 1..Len(senders[t]) : /\ senders'[t][i] = senders[t][k]
                                          /\ k = IF t = r THEN i + 1 ELSE i
      BY <1>11, Zenon
    <3>2. PICK n \in 1..Len(senders[t]) : /\ senders'[t][j] = senders[t][n]
                                          /\ n = IF t = r THEN j + 1 ELSE j
      BY <1>11, Zenon
    <3>3. k = n
      <4>1. senders[t][k] = senders[t][n]
        BY <2>2, <3>1, <3>2, Zenon
      <4>2. QED
        BY <4>1, <1>1, Zenon DEF Queued
    <3>4. QED
      BY <3>1, <3>2, <3>3
  <2>3. ASSUME NEW t \in Thread, msgSt'[t] = "sndmsgq"
        PROVE  to'[t] \in Thread /\ \E i \in 1..Len(senders'[to'[t]]) : senders'[to'[t]][i] = t
    <3>1. msgSt[t] = "sndmsgq" /\ t # a /\ to'[t] = to[t]
      BY <2>3, <1>9, Zenon
    <3>2. to[t] \in Thread
      BY <3>1, <1>1, Zenon DEF Queued
    <3>3. PICK i \in 1..Len(senders[to[t]]) : senders[to[t]][i] = t
      BY <3>1, <1>1, Zenon DEF Queued
    <3>4. CASE to[t] = r
      <4>1. i # 1
        BY <3>1, <3>3, <3>4, <1>5, Zenon
      <4>2. i - 1 \in 1..Len(senders'[r]) /\ senders'[r][i - 1] = t
        <5>1. i \in 1..Len(senders[r]) /\ senders[r][i] = t
          BY <3>3, <3>4, Zenon
        <5>2. i - 1 \in 1..(Len(senders[r]) - 1) /\ (i - 1) + 1 = i
          BY <5>1, <4>1, <1>4
        <5>3. QED
          BY <5>1, <5>2, <1>7, Zenon
      <4>3. QED
        BY <4>2, <3>1, <3>2, <3>4, Zenon
    <3>5. CASE to[t] # r
      BY <3>1, <3>2, <3>3, <3>5, <1>7, Zenon
    <3>6. QED
      BY <3>4, <3>5, Zenon
  <2>4. QED
    BY <2>1, <2>2, <2>3, Zenon DEF Queued
<1>13. Held'
  <2>1. ASSUME NEW t \in Thread, peer'[t] # None
        PROVE  msgSt'[peer'[t]] = "sndmsg" /\ to'[peer'[t]] = t
    <3>1. CASE t = r
      BY <3>1, <1>6, <1>8, <1>9, Zenon
    <3>2. CASE t # r
      <4>1. peer[t] \in Thread /\ msgSt[peer[t]] = "sndmsg" /\ to[peer[t]] = t /\ peer'[t] = peer[t]
        BY <2>1, <3>2, <1>1, <1>8 DEF Held, MsgTyped
      <4>2. peer[t] # r /\ peer[t] # a
        BY <4>1, <1>6, Zenon
      <4>3. QED
        BY <4>1, <4>2, <1>9, Zenon
    <3>3. QED
      BY <3>1, <3>2, Zenon
  <2>2. ASSUME NEW t \in Thread, msgSt'[t] = "sndmsg"
        PROVE  to'[t] \in Thread /\ peer'[to'[t]] = t
    <3>1. CASE t = a
      BY <3>1, <1>6, <1>8, Zenon
    <3>2. CASE t # a
      <4>1. msgSt[t] = "sndmsg"
        BY <2>2, <3>2, <1>9, Zenon
      <4>2. to[t] \in Thread /\ peer[to[t]] = t
        BY <4>1, <1>1, Zenon DEF Held
      <4>3. to[t] # r
        BY <4>2, Zenon
      <4>4. QED
        BY <4>2, <4>3, <1>8, Zenon
    <3>3. QED
      BY <3>1, <3>2, Zenon
  <2>3. QED
    BY <2>1, <2>2, Zenon DEF Held
<1>14. Receiving'
  BY <1>1, <1>7, <1>8, <1>9, Zenon DEF Receiving
<1>15. QED
  BY <1>1, <1>7, <1>8, <1>9, <1>12, <1>13, <1>14, Zenon DEF MsgInv, MsgTyped

(* The queues stay right when they are left alone, and so is where each of    *)
(* their members waits.                                                      *)
LEMMA QueuedKept ==
  ASSUME Queued, senders' = senders,
         \A t \in Thread : \A i \in 1..Len(senders[t]) :
           msgSt'[senders[t][i]] = "sndmsgq" /\ to'[senders[t][i]] = t,
         \A t \in Thread : msgSt'[t] = "sndmsgq" => msgSt[t] = "sndmsgq" /\ to'[t] = to[t]
  PROVE  Queued'
<1>1. \A t \in Thread : \A i \in 1..Len(senders'[t]) :
        msgSt'[senders'[t][i]] = "sndmsgq" /\ to'[senders'[t][i]] = t
  BY Zenon
<1>2. \A t \in Thread : \A i, j \in 1..Len(senders'[t]) :
        senders'[t][i] = senders'[t][j] => i = j
  BY Zenon DEF Queued
<1>3. ASSUME NEW t \in Thread, msgSt'[t] = "sndmsgq"
      PROVE  to'[t] \in Thread /\ \E i \in 1..Len(senders'[to'[t]]) : senders'[to'[t]][i] = t
  <2>1. msgSt[t] = "sndmsgq" /\ to'[t] = to[t]
    BY <1>3, Zenon
  <2>2. to[t] \in Thread /\ \E i \in 1..Len(senders[to[t]]) : senders[to[t]][i] = t
    BY <2>1, Zenon DEF Queued
  <2>3. QED
    BY <2>1, <2>2, Zenon
<1>4. QED
  BY <1>1, <1>2, <1>3, Zenon DEF Queued

(* The receiver goes to sleep, or releases the sender it holds.              *)
LEMMA SleepStep ==
  ASSUME MsgInv, NEW r \in Thread, msgSt[r] = "run", peer[r] = None, senders[r] = <<>>,
         msgSt' = [msgSt EXCEPT ![r] = "wtmsg"], UNCHANGED <<senders, peer, to>>
  PROVE  MsgInv'
<1>1. MsgTyped /\ Queued /\ Held /\ Receiving
  BY Zenon DEF MsgInv
<1>2. /\ msgSt' \in [Thread -> {"run", "wtmsg", "sndmsgq", "sndmsg", "ready"}]
      /\ msgSt'[r] = "wtmsg" /\ \A t \in Thread \ {r} : msgSt'[t] = msgSt[t]
      /\ Len(senders[r]) = 0
  BY <1>1, Zenon DEF MsgTyped
<1>3. \A t \in Thread : /\ msgSt'[t] = "sndmsgq" <=> msgSt[t] = "sndmsgq"
                        /\ msgSt'[t] = "sndmsg" <=> msgSt[t] = "sndmsg"
  BY <1>2, Zenon
<1>4. MsgTyped'
  BY <1>1, <1>2, Zenon DEF MsgTyped
<1>5. Queued'
  <2>1. \A t \in Thread : \A i \in 1..Len(senders[t]) :
          /\ senders[t][i] \in Thread
          /\ msgSt[senders[t][i]] = "sndmsgq" /\ to[senders[t][i]] = t
    BY <1>1 DEF Queued, MsgTyped
  <2>2. \A t \in Thread : \A i \in 1..Len(senders[t]) : msgSt'[senders[t][i]] = "sndmsgq"
    BY <2>1, <1>3, Zenon
  <2>3. senders' = senders /\ to' = to
    BY Zenon
  <2>4. \A t \in Thread : \A i \in 1..Len(senders[t]) :
          msgSt'[senders[t][i]] = "sndmsgq" /\ to'[senders[t][i]] = t
    <3> SUFFICES ASSUME NEW t \in Thread, NEW i \in 1..Len(senders[t])
                 PROVE  msgSt'[senders[t][i]] = "sndmsgq" /\ to'[senders[t][i]] = t
      BY Zenon
    <3>1. msgSt'[senders[t][i]] = "sndmsgq" /\ to[senders[t][i]] = t
      BY <2>1, <2>2, Zenon
    <3>2. QED
      BY <3>1, <2>3
  <2>5. \A t \in Thread : msgSt'[t] = "sndmsgq" => msgSt[t] = "sndmsgq" /\ to'[t] = to[t]
    BY <1>3, <2>3, Zenon
  <2>6. QED
    BY <2>3, <2>4, <2>5, <1>1, QueuedKept, Zenon
<1>6. Held'
  <2>1. \A t \in Thread : peer[t] # None => msgSt'[peer[t]] = "sndmsg" /\ to[peer[t]] = t
    <3>1. \A t \in Thread : peer[t] # None => peer[t] \in Thread
      BY <1>1, Zenon DEF MsgTyped
    <3>2. QED
      BY <3>1, <1>1, <1>3, Zenon DEF Held
  <2>2. QED
    BY <2>1, <1>1, <1>3 DEF Held
<1>7. Receiving'
  BY <1>1, <1>2, Zenon DEF Receiving
<1>8. QED
  BY <1>4, <1>5, <1>6, <1>7, Zenon DEF MsgInv

(* chMsgRelease                                                              *)
LEMMA ReleaseStep ==
  ASSUME MsgInv, NEW r \in Thread, MS!Release(r)
  PROVE  MsgInv'
<1>1. MsgTyped /\ Queued /\ Held /\ Receiving
  BY Zenon DEF MsgInv
<1>2. PICK a : a = peer[r]
  OBVIOUS
<1>3. /\ a # None /\ msgSt[r] = "run"
      /\ msgSt' = [msgSt EXCEPT ![a] = "run"]
      /\ to' = [to EXCEPT ![a] = None]
      /\ peer' = [peer EXCEPT ![r] = None]
      /\ senders' = senders
  BY <1>2, Zenon DEF MS!Release
<1>4. a \in Thread /\ msgSt[a] = "sndmsg" /\ to[a] = r
  BY <1>1, <1>2, <1>3 DEF MsgTyped, Held
<1>5. /\ msgSt' \in [Thread -> {"run", "wtmsg", "sndmsgq", "sndmsg", "ready"}]
      /\ msgSt'[a] = "run" /\ \A t \in Thread \ {a} : msgSt'[t] = msgSt[t]
  BY <1>1, <1>3, <1>4, Zenon DEF MsgTyped
<1>6. /\ to' \in [Thread -> Thread \cup {None}]
      /\ to'[a] = None /\ \A t \in Thread \ {a} : to'[t] = to[t]
  BY <1>1, <1>3, <1>4, Zenon DEF MsgTyped
<1>7. /\ peer' \in [Thread -> Thread \cup {None}]
      /\ peer'[r] = None /\ \A t \in Thread \ {r} : peer'[t] = peer[t]
  BY <1>1, <1>3, Zenon DEF MsgTyped
<1>8. MsgTyped'
  BY <1>1, <1>3, <1>5, <1>6, <1>7, Zenon DEF MsgTyped
<1>9. Queued'
  <2>1. \A t \in Thread : \A i \in 1..Len(senders[t]) :
          /\ senders[t][i] \in Thread /\ senders[t][i] # a
          /\ msgSt[senders[t][i]] = "sndmsgq" /\ to[senders[t][i]] = t
    BY <1>1, <1>4, SMTT(20) DEF Queued, MsgTyped
  <2>2. \A t \in Thread : \A i \in 1..Len(senders[t]) :
          msgSt'[senders[t][i]] = "sndmsgq" /\ to'[senders[t][i]] = t
    BY <2>1, <1>5, <1>6
  <2>3. \A t \in Thread : msgSt'[t] = "sndmsgq" => msgSt[t] = "sndmsgq" /\ to'[t] = to[t]
    BY <1>5, <1>6, Zenon
  <2>4. QED
    BY <2>2, <2>3, <1>1, <1>3, QueuedKept, Zenon
<1>10. Held'
  <2>1. ASSUME NEW t \in Thread, peer'[t] # None
        PROVE  msgSt'[peer'[t]] = "sndmsg" /\ to'[peer'[t]] = t
    <3>1. t # r /\ peer'[t] = peer[t]
      BY <2>1, <1>7, Zenon
    <3>2. peer[t] \in Thread /\ msgSt[peer[t]] = "sndmsg" /\ to[peer[t]] = t
      BY <2>1, <3>1, <1>1 DEF Held, MsgTyped
    <3>3. peer[t] # a
      BY <3>1, <3>2, <1>4, Zenon
    <3>4. QED
      BY <3>1, <3>2, <3>3, <1>5, <1>6, Zenon
  <2>2. ASSUME NEW t \in Thread, msgSt'[t] = "sndmsg"
        PROVE  to'[t] \in Thread /\ peer'[to'[t]] = t
    <3>1. t # a /\ msgSt[t] = "sndmsg" /\ to'[t] = to[t]
      BY <2>2, <1>5, <1>6, Zenon
    <3>2. to[t] \in Thread /\ peer[to[t]] = t
      BY <3>1, <1>1, Zenon DEF Held
    <3>3. to[t] # r
      BY <3>1, <3>2, <1>2, Zenon
    <3>4. QED
      BY <3>1, <3>2, <3>3, <1>7, Zenon
  <2>3. QED
    BY <2>1, <2>2, Zenon DEF Held
<1>11. Receiving'
  BY <1>1, <1>3, <1>5, <1>7, Zenon DEF Receiving
<1>12. QED
  BY <1>8, <1>9, <1>10, <1>11, Zenon DEF MsgInv

(* Cardinality, as ChMsg sees it                                             *)
LEMMA MsgCardinality == \A S : MS!Cardinality(S) = Cardinality(S)
  BY Zenon DEF MS!Cardinality, Cardinality

(* The smallest sets                                                         *)
LEMMA CardSmall ==
  ASSUME FiniteSetFacts
  PROVE  Cardinality({}) = 0 /\ \A x : Cardinality({x}) = 1
<1>1. IsFiniteSet({}) /\ Cardinality({}) = 0
  BY Zenon DEF FiniteSetFacts
<1>2. \A S, x : IsFiniteSet(S) =>
        Cardinality(S \cup {x}) = IF x \in S THEN Cardinality(S) ELSE Cardinality(S) + 1
  BY Zenon DEF FiniteSetFacts
<1>3. ASSUME NEW x PROVE Cardinality({x}) = 1
  <2>1. x \notin {} /\ {} \cup {x} = {x}
    OBVIOUS
  <2>2. Cardinality({} \cup {x}) = 0 + 1
    BY <1>1, <1>2, <2>1, Zenon
  <2>3. QED
    BY <2>1, <2>2
<1>4. QED
  BY <1>1, <1>3, Zenon

(* The invariant of synchronous messages holds at the start and is kept, and *)
(* says what the runs check.                                                 *)
LEMMA MsgHolds ==
  ASSUME None \notin Thread, FiniteSetFacts
  PROVE  /\ MS!Init => MsgInv
         /\ MsgInv /\ [MS!Next]_MS!vars => MsgInv'
         /\ MsgInv => MS!TypeOK /\ MS!SenderInOnePlace /\ MS!WokenFindsSender
<1>1. ASSUME MS!Init PROVE MsgInv
  <2>1. /\ senders \in [Thread -> Seq(Thread)] /\ \A t \in Thread : Len(senders[t]) = 0
        /\ msgSt \in [Thread -> {"run", "wtmsg", "sndmsgq", "sndmsg", "ready"}]
        /\ peer \in [Thread -> Thread \cup {None}] /\ to \in [Thread -> Thread \cup {None}]
        /\ \A t \in Thread : msgSt[t] = "run" /\ peer[t] = None
    BY <1>1 DEF MS!Init
  <2>2. QED
    BY <2>1 DEF MsgInv, MsgTyped, Queued, Held, Receiving
<1>2. ASSUME MsgInv, MS!Next PROVE MsgInv'
  <2>1. ASSUME NEW r \in Thread, MS!Wait(r) PROVE MsgInv'
    <3>1. senders[r] \in Seq(Thread)
      BY <1>2, Zenon DEF MsgInv, MsgTyped
    <3>2. CASE senders[r] # <<>>
      <4>1. Len(senders[r]) > 0
        BY <3>1, <3>2
      <4>2. QED
        BY <4>1, <3>2, <2>1, <1>2, TakeStep, Zenon DEF MS!Wait
    <3>3. CASE senders[r] = <<>>
      BY <3>3, <2>1, <1>2, SleepStep, Zenon DEF MS!Wait
    <3>4. QED
      BY <3>2, <3>3, Zenon
  <2>2. ASSUME NEW r \in Thread, MS!WaitGoesOn(r) PROVE MsgInv'
    <3>1. msgSt[r] = "ready" /\ MS!Take(r) /\ to' = to
      BY <2>2, Zenon DEF MS!WaitGoesOn
    <3>2. peer[r] = None /\ Len(senders[r]) > 0
      BY <3>1, <1>2, Zenon DEF MsgInv, Receiving
    <3>3. QED
      BY <3>1, <3>2, <1>2, TakeStep, Zenon
  <2>3. QED
    BY <2>1, <2>2, <1>2, ReleaseStep, SendStep, Zenon DEF MS!Next
<1>3. ASSUME MsgInv, UNCHANGED MS!vars PROVE MsgInv'
  BY <1>3 DEF MS!vars, MsgInv, MsgTyped, Queued, Held, Receiving
<1>4. ASSUME MsgInv PROVE MS!WokenFindsSender
  BY <1>4 DEF MsgInv, MsgTyped, Receiving, MS!WokenFindsSender
<1>5. ASSUME MsgInv, NEW a \in Thread
      PROVE  /\ Cardinality(MS!Places(a)) = (IF msgSt[a] = "sndmsgq" THEN 1 ELSE 0)
             /\ \A p \in MS!Places(a) : p[1] = to[a]
  <2>1. \A p \in MS!Places(a) : /\ p = <<p[1], p[2]>> /\ p[1] \in Thread
                                /\ p[2] \in 1..Len(senders[p[1]]) /\ senders[p[1]][p[2]] = a
    BY DEF MS!Places
  <2>2. \A p \in MS!Places(a) : p[1] = to[a] /\ msgSt[a] = "sndmsgq"
    BY <2>1, <1>5 DEF MsgInv, Queued
  <2>3. CASE msgSt[a] = "sndmsgq"
    <3>1. to[a] \in Thread
      BY <2>3, <1>5, Zenon DEF MsgInv, Queued
    <3>2. PICK i \in 1..Len(senders[to[a]]) : senders[to[a]][i] = a
      BY <2>3, <1>5, Zenon DEF MsgInv, Queued
    <3>3. <<to[a], i>> \in MS!Places(a)
      BY <3>1, <3>2 DEF MS!Places
    <3>4. \A p \in MS!Places(a) : p = <<to[a], i>>
      <4>1. \A p \in MS!Places(a) : p[2] = i
        BY <2>1, <2>2, <3>1, <3>2, <1>5 DEF MsgInv, Queued
      <4>2. QED
        BY <4>1, <2>1, <2>2, Zenon
    <3>5. MS!Places(a) = {<<to[a], i>>}
      BY <3>3, <3>4, Zenon
    <3>6. QED
      BY <3>5, <2>2, <2>3, CardSmall, Zenon
  <2>4. CASE msgSt[a] # "sndmsgq"
    <3>1. MS!Places(a) = {}
      BY <2>2, <2>4, Zenon
    <3>2. QED
      BY <3>1, <2>4, CardSmall, Zenon
  <2>5. QED
    BY <2>3, <2>4, Zenon
<1>6. ASSUME MsgInv, NEW a \in Thread
      PROVE  /\ Cardinality({r \in Thread : peer[r] = a}) = (IF msgSt[a] = "sndmsg" THEN 1 ELSE 0)
             /\ msgSt[a] = "sndmsg" => peer[to[a]] = a
  <2>1. \A r \in Thread : peer[r] = a => msgSt[a] = "sndmsg" /\ to[a] = r
    BY <1>6 DEF MsgInv, Held
  <2>2. CASE msgSt[a] = "sndmsg"
    <3>1. to[a] \in Thread /\ peer[to[a]] = a
      BY <1>6, <2>2, Zenon DEF MsgInv, Held
    <3>2. {r \in Thread : peer[r] = a} = {to[a]}
      BY <2>1, <3>1, Zenon
    <3>3. QED
      BY <3>1, <3>2, <2>2, CardSmall, Zenon
  <2>3. CASE msgSt[a] # "sndmsg"
    <3>1. {r \in Thread : peer[r] = a} = {}
      BY <2>1, <2>3, Zenon
    <3>2. QED
      BY <3>1, <2>3, CardSmall, Zenon
  <2>4. QED
    BY <2>2, <2>3, Zenon
<1>7. ASSUME MsgInv PROVE MS!TypeOK /\ MS!SenderInOnePlace /\ MS!WokenFindsSender
  <2>1. MS!SenderInOnePlace
    BY <1>5, <1>6, <1>7, MsgCardinality, Zenon DEF MS!SenderInOnePlace
  <2>2. MS!TypeOK
    BY <1>7, Zenon DEF MsgInv, MsgTyped, MS!TypeOK
  <2>3. QED
    BY <2>1, <2>2, <1>4, <1>7, Zenon
<1>8. QED
  BY <1>1, <1>2, <1>3, <1>7, Zenon

=============================================================================
