---------------------------- MODULE CfgSysProofs ----------------------------
(***************************************************************************)
(* Proofs about the system messages, for any number of threads and length  *)
(* of the queue.                                                           *)
(***************************************************************************)
EXTENDS CfgSys, Counts, TLAPS

(* Threads are finitely many.  The bound on the sends keeps the count of fast *)
(* events, which grows with each, from wrapping around.                      *)
SysConstants ==
  /\ IsFiniteSet(Thread)
  /\ QueueSize \in Nat /\ MaxSends \in Nat /\ U32 \in Nat
  /\ MaxSends < U32

(* What the lemmas assume                                                    *)
Given == SysConstants /\ FiniteSetFacts

-----------------------------------------------------------------------------

(* A set with an element more, and with one less                             *)
LEMMA CardAdd ==
  ASSUME Given, NEW S, NEW x, IsFiniteSet(S)
  PROVE  /\ IsFiniteSet(S \cup {x}) /\ Cardinality(S) \in Nat
         /\ Cardinality(S \cup {x}) = IF x \in S THEN Cardinality(S) ELSE Cardinality(S) + 1
  BY Zenon DEF Given, FiniteSetFacts

LEMMA CardRemove ==
  ASSUME Given, NEW S, NEW x, IsFiniteSet(S)
  PROVE  /\ IsFiniteSet(S \ {x}) /\ Cardinality(S) \in Nat
         /\ Cardinality(S \ {x}) = IF x \in S THEN Cardinality(S) - 1 ELSE Cardinality(S)
  BY Zenon DEF Given, FiniteSetFacts

(* A part of a finite set                                                    *)
LEMMA CardSubset ==
  ASSUME Given, NEW S, IsFiniteSet(S), NEW T \in SUBSET S
  PROVE  /\ IsFiniteSet(T) /\ Cardinality(T) \in Nat
         /\ Cardinality(T) <= Cardinality(S)
  BY DEF Given, FiniteSetFacts

(* A set without elements has none; one with a single element has one.       *)
LEMMA CardSmall ==
  ASSUME Given
  PROVE  /\ IsFiniteSet({}) /\ Cardinality({}) = 0
         /\ \A x : IsFiniteSet({x}) /\ Cardinality({x}) = 1
<1>1. IsFiniteSet({}) /\ Cardinality({}) = 0
  BY DEF Given, FiniteSetFacts
<1>2. ASSUME NEW x PROVE IsFiniteSet({x}) /\ Cardinality({x}) = 1
  <2>1. {} \cup {x} = {x} /\ x \notin {}
    OBVIOUS
  <2>2. IsFiniteSet({} \cup {x}) /\ Cardinality({} \cup {x}) = 0 + 1
    BY <1>1, <2>1, CardAdd
  <2>3. QED
    BY <2>1, <2>2
<1>3. QED
  BY <1>1, <1>2, Zenon

-----------------------------------------------------------------------------

(* The places of a sequence that hold a member of P                          *)
Places(q, P) == {n \in 1..Len(q) : q[n] \in P}

(* They are finitely many.                                                   *)
LEMMA PlacesFinite ==
  ASSUME Given, NEW S, NEW q \in Seq(S), NEW P
  PROVE  /\ IsFiniteSet(Places(q, P))
         /\ Cardinality(Places(q, P)) \in Nat
<1>1. Len(q) \in Nat
  OBVIOUS
<1>2. IsFiniteSet(1..Len(q))
  BY <1>1 DEF Given, FiniteSetFacts
<1>3. Places(q, P) \in SUBSET (1..Len(q))
  BY DEF Places
<1>4. QED
  BY <1>2, <1>3, CardSubset

(* Appending a member of P adds a place, appending another element does not.  *)
LEMMA PlacesAppend ==
  ASSUME Given, NEW S, NEW q \in Seq(S), NEW e \in S, NEW P
  PROVE  Cardinality(Places(Append(q, e), P))
           = Cardinality(Places(q, P)) + (IF e \in P THEN 1 ELSE 0)
<1> DEFINE k == Len(q) + 1
<1>1. /\ Len(Append(q, e)) = k /\ k \in Nat
      /\ \A n \in 1..Len(q) : Append(q, e)[n] = q[n]
      /\ Append(q, e)[k] = e
  OBVIOUS
<1>2. k \notin Places(q, P)
  BY DEF Places
<1>3. CASE e \in P
  <2>1. Places(Append(q, e), P) = Places(q, P) \cup {k}
    BY <1>1, <1>3 DEF Places
  <2>2. QED
    BY <2>1, <1>2, <1>3, PlacesFinite, CardAdd, Zenon
<1>4. CASE e \notin P
  <2>1. Places(Append(q, e), P) = Places(q, P)
    BY <1>1, <1>4 DEF Places
  <2>2. QED
    BY <2>1, <1>4, PlacesFinite
<1>5. QED
  BY <1>3, <1>4

(* Taking the head off takes its place off.                                  *)
LEMMA PlacesTail ==
  ASSUME Given, NEW S, NEW q \in Seq(S), q # <<>>, NEW P
  PROVE  Cardinality(Places(q, P))
           = Cardinality(Places(Tail(q), P)) + (IF Head(q) \in P THEN 1 ELSE 0)
<1> DEFINE T == Places(Tail(q), P)
           U == Places(q, P) \ {1}
<1>1. /\ Tail(q) \in Seq(S) /\ Len(Tail(q)) = Len(q) - 1 /\ Len(q) \in Nat \ {0}
      /\ \A n \in 1..Len(Tail(q)) : Tail(q)[n] = q[n + 1]
      /\ Head(q) = q[1]
  OBVIOUS
<1>2. U = {n + 1 : n \in T}
  <2>1. \A u \in U : u - 1 \in T /\ u = (u - 1) + 1
    BY <1>1 DEF Places
  <2>2. \A n \in T : n + 1 \in U
    BY <1>1 DEF Places
  <2>3. QED
    BY <2>1, <2>2
<1>3. Cardinality(U) = Cardinality(T)
  <2>1. IsFiniteSet(T)
    BY <1>1, PlacesFinite, Zenon
  <2>2. T \in SUBSET Nat
    BY <1>1 DEF Places
  <2>3. QED
    BY <1>2, <2>1, <2>2, Zenon DEF Given, FiniteSetFacts
<1>4. Cardinality(U) = IF 1 \in Places(q, P) THEN Cardinality(Places(q, P)) - 1
                       ELSE Cardinality(Places(q, P))
  BY PlacesFinite, CardRemove, Zenon
<1>5. 1 \in Places(q, P) <=> Head(q) \in P
  BY <1>1 DEF Places
<1>6. QED
  BY <1>3, <1>4, <1>5, PlacesFinite

SendState == [pc : {"idle", "count", "put"}, msg : Msg \cup {NoMsg}, load : Nat]

(* The variables of the system service have their types, and what is being   *)
(* sent or served is a message that was begun.                               *)
SysTyped ==
  /\ queue \in Seq(Msg) /\ Len(queue) <= QueueSize
  /\ fast \in 0..(U32 - 1)
  /\ snd \in [Sender -> SendState]
  /\ svc \in [pc : {"get", "free", "strip", "oper"}, msg : Msg \cup {NoMsg}, load : Nat]
  /\ sends \in 0..MaxSends
  /\ heap \subseteq 1..sends

(* A message is with one sender, at one place of the queue, or served; only  *)
(* a fast one is counted, or has its mask taken off.                         *)
Sending(t) == snd[t].pc # "idle"

OneHolder ==
  /\ \A t \in Sender : Sending(t) => snd[t].msg \in Msg /\ snd[t].msg.id <= sends
  /\ \A i \in 1..Len(queue) : queue[i].id <= sends
  /\ svc.pc # "get" => svc.msg \in Msg
  /\ \A t, u \in Sender : Sending(t) /\ Sending(u) /\ t # u => snd[t].msg.id # snd[u].msg.id
  /\ \A t \in Sender : Sending(t) =>
       \A i \in 1..Len(queue) : snd[t].msg.id # queue[i].id
  /\ \A i, j \in 1..Len(queue) : i # j => queue[i].id # queue[j].id
  /\ svc.pc = "free" => /\ svc.msg.id <= sends
                        /\ \A t \in Sender : Sending(t) => snd[t].msg.id # svc.msg.id
                        /\ \A i \in 1..Len(queue) : queue[i].id # svc.msg.id

Kinds ==
  /\ \A t \in Sender : snd[t].pc = "count" => snd[t].msg.kind = "fast"
  /\ svc.pc = "strip" => svc.msg.kind = "fast"

Calm == world \cap {"preempt", "button"} = {}

Counting == {t \in Sender : snd[t].pc = "count"}

(* The count covers the fast messages under way, and leaves room for those   *)
(* about to be counted.                                                      *)
Counted ==
  Calm => /\ Underway <= fast
          /\ fast + Cardinality(Counting) <= sends
          /\ EventUnmasked

SysInv == SysTyped /\ OneHolder /\ Kinds /\ HeapBalanced /\ Counted

-----------------------------------------------------------------------------

FastMsg == {m \in Msg : m.kind = "fast"}

Puts == {t \in Sender : snd[t].pc = "put" /\ snd[t].msg.kind = "fast"}

Serving == IF svc.pc \in {"free", "strip"} /\ svc.msg.kind = "fast" THEN 1 ELSE 0

(* The fast messages under way, counted by who has them                      *)
LEMMA Sums ==
  Given /\ SysTyped =>
              /\ IsFiniteSet(Puts) /\ Cardinality(Puts) \in Nat
              /\ IsFiniteSet(Counting) /\ Cardinality(Counting) \in Nat
              /\ Cardinality(Places(queue, FastMsg)) \in Nat
              /\ Serving \in 0..1
              /\ Underway = Cardinality(Puts) + Cardinality(Places(queue, FastMsg)) + Serving
<1> SUFFICES ASSUME Given, SysTyped
             PROVE  /\ IsFiniteSet(Puts) /\ Cardinality(Puts) \in Nat
                    /\ IsFiniteSet(Counting) /\ Cardinality(Counting) \in Nat
                    /\ Cardinality(Places(queue, FastMsg)) \in Nat
                    /\ Serving \in 0..1
                    /\ Underway = Cardinality(Puts) + Cardinality(Places(queue, FastMsg)) + Serving
  OBVIOUS
<1>1. queue \in Seq(Msg)
  BY DEF SysTyped
<1>2. IsFiniteSet(Sender)
  BY CardAdd DEF Given, SysConstants, Sender
<1>3. Puts \in SUBSET Sender /\ Counting \in SUBSET Sender
  BY DEF Puts, Counting
<1>4. IsFiniteSet(Puts) /\ IsFiniteSet(Counting)
  BY <1>2, <1>3, CardSubset
<1>5. Cardinality(Puts) \in Nat /\ Cardinality(Counting) \in Nat
  BY <1>2, <1>3, CardSubset
<1>6. Cardinality(Places(queue, FastMsg)) \in Nat
  BY <1>1, PlacesFinite
<1>7. {n \in DOMAIN queue : queue[n].kind = "fast"} = Places(queue, FastMsg)
  BY <1>1 DEF Places, FastMsg
<1>8. Underway = Cardinality(Puts) + Cardinality(Places(queue, FastMsg)) + Serving
  BY <1>7, Zenon DEF Underway, Puts, Serving
<1>9. QED
  BY <1>4, <1>5, <1>6, <1>8 DEF Serving

(* The same of the state after a step                                        *)
LEMMA SumsNext ==
  Given /\ SysTyped' =>
               /\ IsFiniteSet(Puts') /\ Cardinality(Puts') \in Nat
               /\ IsFiniteSet(Counting') /\ Cardinality(Counting') \in Nat
               /\ Cardinality(Places(queue', FastMsg)) \in Nat
               /\ Serving' \in 0..1
               /\ Underway' = Cardinality(Puts') + Cardinality(Places(queue', FastMsg)) + Serving'
<1>1. (Given /\ SysTyped =>
                   /\ IsFiniteSet(Puts) /\ Cardinality(Puts) \in Nat
                   /\ IsFiniteSet(Counting) /\ Cardinality(Counting) \in Nat
                   /\ Cardinality(Places(queue, FastMsg)) \in Nat
                   /\ Serving \in 0..1
                   /\ Underway = Cardinality(Puts) + Cardinality(Places(queue, FastMsg)) + Serving)'
  BY Sums, PTL
<1>2. FastMsg' = FastMsg
  BY DEF FastMsg, Msg
<1>3. QED
  BY <1>1, <1>2

(* A sender goes from one state to another.                                  *)
LEMMA SndUpdate ==
  ASSUME Given, SysTyped, NEW t \in Sender, NEW r \in SendState, snd' = [snd EXCEPT ![t] = r]
  PROVE  /\ snd' \in [Sender -> SendState] /\ snd'[t] = r
         /\ \A u \in Sender : u # t => snd'[u] = snd[u]
         /\ Cardinality(Puts') = Cardinality(Puts)
              + (IF r.pc = "put" /\ r.msg.kind = "fast" THEN 1 ELSE 0)
              - (IF snd[t].pc = "put" /\ snd[t].msg.kind = "fast" THEN 1 ELSE 0)
         /\ Cardinality(Counting') = Cardinality(Counting)
              + (IF r.pc = "count" THEN 1 ELSE 0) - (IF snd[t].pc = "count" THEN 1 ELSE 0)
<1>1. /\ snd' \in [Sender -> SendState] /\ snd'[t] = r
      /\ \A u \in Sender : u # t => snd'[u] = snd[u]
  BY DEF SysTyped
<1>2. IsFiniteSet(Puts) /\ IsFiniteSet(Counting)
      /\ Cardinality(Puts) \in Nat /\ Cardinality(Counting) \in Nat
  BY Sums
<1>3. Puts' = IF r.pc = "put" /\ r.msg.kind = "fast" THEN Puts \cup {t} ELSE Puts \ {t}
  BY <1>1 DEF Puts
<1>4. Counting' = IF r.pc = "count" THEN Counting \cup {t} ELSE Counting \ {t}
  BY <1>1 DEF Counting
<1>5. /\ t \in Puts <=> snd[t].pc = "put" /\ snd[t].msg.kind = "fast"
      /\ t \in Counting <=> snd[t].pc = "count"
  BY DEF Puts, Counting
<1>6. /\ Cardinality(Puts \cup {t}) = IF t \in Puts THEN Cardinality(Puts) ELSE Cardinality(Puts) + 1
      /\ Cardinality(Puts \ {t}) = IF t \in Puts THEN Cardinality(Puts) - 1 ELSE Cardinality(Puts)
  BY <1>2, CardAdd, CardRemove, Zenon
<1>7. /\ Cardinality(Counting \cup {t})
           = IF t \in Counting THEN Cardinality(Counting) ELSE Cardinality(Counting) + 1
      /\ Cardinality(Counting \ {t})
           = IF t \in Counting THEN Cardinality(Counting) - 1 ELSE Cardinality(Counting)
  BY <1>2, CardAdd, CardRemove, Zenon
<1>8. Cardinality(Puts') = Cardinality(Puts)
              + (IF r.pc = "put" /\ r.msg.kind = "fast" THEN 1 ELSE 0)
              - (IF snd[t].pc = "put" /\ snd[t].msg.kind = "fast" THEN 1 ELSE 0)
  BY <1>2, <1>3, <1>5, <1>6
<1>9. Cardinality(Counting') = Cardinality(Counting)
              + (IF r.pc = "count" THEN 1 ELSE 0) - (IF snd[t].pc = "count" THEN 1 ELSE 0)
  BY <1>2, <1>4, <1>5, <1>7
<1>10. QED
  BY <1>1, <1>8, <1>9

(* Who has message x                                                         *)
Holds(x) == \/ \E t \in Sender : Sending(t) /\ snd[t].msg.id = x
            \/ \E i \in 1..Len(queue) : queue[i].id = x
            \/ svc.pc = "free" /\ svc.msg.id = x

(* The heap is balanced when the messages allocated are those someone has.   *)
LEMMA HeapHolds ==
  /\ HeapBalanced <=> ("shell" \notin world => \A x : x \in heap <=> Holds(x))
  /\ HeapBalanced' <=> ("shell" \notin world' => \A x : x \in heap' <=> Holds(x)')
<1>1. HeapBalanced <=> ("shell" \notin world => \A x : x \in heap <=> Holds(x))
  BY DEF HeapBalanced, Holds, Sending
<1>2. (HeapBalanced <=> ("shell" \notin world => \A x : x \in heap <=> Holds(x)))'
  BY <1>1, PTL
<1>3. QED
  BY <1>1, <1>2

(* The numbers of the messages that someone has are numbers of sends.        *)
LEMMA Numbers ==
  ASSUME SysTyped, OneHolder
  PROVE  /\ \A u \in Sender : Sending(u) =>
              snd[u].msg \in Msg /\ snd[u].msg.id \in Nat /\ snd[u].msg.id <= sends
         /\ \A i \in 1..Len(queue) :
              queue[i] \in Msg /\ queue[i].id \in Nat /\ queue[i].id <= sends
         /\ svc.pc = "free" => svc.msg \in Msg /\ svc.msg.id \in Nat /\ svc.msg.id <= sends
<1>1. \A m \in Msg : m.id \in Nat
  BY DEF Msg
<1>2. \A i \in 1..Len(queue) : queue[i] \in Msg
  BY DEF SysTyped
<1>3. QED
  BY <1>1, <1>2 DEF OneHolder

Spare == fast - Underway

(* What CountExact allows a step                                             *)
CountStep ==
  Calm => \/ Spare' = Spare
          \/ Spare' > Spare /\ svc' = svc /\ (Len(queue) = QueueSize \/ queue' = <<>>)

(* A message is allocated: its number is new.                                *)
LEMMA SendAllocStep ==
  ASSUME Given, SysInv, NEW t \in Sender, NEW kind \in {"fast", "plain", "none"},
         SendAlloc(t, kind), world' = world
  PROVE  SysInv' /\ CountStep
<1>0. SysTyped /\ OneHolder /\ Kinds /\ HeapBalanced /\ Counted
  BY DEF SysInv
<1>1. PICK m : m = [id |-> sends + 1, kind |-> kind]
  BY Zenon
<1>2. PICK r : r = [pc |-> IF kind = "fast" THEN "count" ELSE "put", msg |-> m, load |-> fast]
  BY Zenon
<1>3. /\ snd[t].pc = "idle" /\ sends < MaxSends /\ sends' = sends + 1
      /\ heap' = heap \cup {sends + 1} /\ snd' = [snd EXCEPT ![t] = r]
      /\ UNCHANGED <<queue, fast, svc>>
  BY <1>1, <1>2 DEF SendAlloc
<1>4. sends \in 0..MaxSends /\ fast \in 0..(U32 - 1) /\ MaxSends \in Nat /\ U32 \in Nat
  BY <1>0 DEF Given, SysConstants, SysTyped
<1>5. /\ m \in Msg /\ m.id = sends + 1 /\ m.kind = kind
      /\ r \in SendState /\ r.msg = m /\ (r.pc = "count" <=> kind = "fast") /\ r.pc # "idle"
      /\ r.pc \in {"count", "put"}
  BY <1>1, <1>2, <1>3, <1>4 DEF Msg, SendState
<1>6. /\ snd' \in [Sender -> SendState] /\ snd'[t] = r
      /\ \A u \in Sender : u # t => snd'[u] = snd[u]
      /\ Cardinality(Puts') = Cardinality(Puts)
           + (IF r.pc = "put" /\ r.msg.kind = "fast" THEN 1 ELSE 0)
           - (IF snd[t].pc = "put" /\ snd[t].msg.kind = "fast" THEN 1 ELSE 0)
      /\ Cardinality(Counting') = Cardinality(Counting)
           + (IF r.pc = "count" THEN 1 ELSE 0) - (IF snd[t].pc = "count" THEN 1 ELSE 0)
  BY <1>0, <1>3, <1>5, SndUpdate, Zenon
<1>7. SysTyped'
  BY <1>0, <1>3, <1>4, <1>6 DEF SysTyped
<1>8. OneHolder'
  <2>1. \A u \in Sender : Sending(u)' <=> u = t \/ Sending(u)
    BY <1>5, <1>6 DEF Sending
  <2>2. /\ \A u \in Sender : Sending(u) =>
             snd[u].msg \in Msg /\ snd[u].msg.id \in Nat /\ snd[u].msg.id <= sends
        /\ \A i \in 1..Len(queue) :
             queue[i] \in Msg /\ queue[i].id \in Nat /\ queue[i].id <= sends
        /\ svc.pc = "free" => svc.msg \in Msg /\ svc.msg.id \in Nat /\ svc.msg.id <= sends
    BY <1>0, Numbers
  <2>5. \A u \in Sender : Sending(u)' => snd'[u].msg \in Msg /\ snd'[u].msg.id <= sends'
    BY <1>3, <1>4, <1>5, <1>6, <2>1, <2>2
  <2>6. \A u, v \in Sender : Sending(u)' /\ Sending(v)' /\ u # v => snd'[u].msg.id # snd'[v].msg.id
    <3> SUFFICES ASSUME NEW u \in Sender, NEW v \in Sender, Sending(u)', Sending(v)', u # v
                 PROVE  snd'[u].msg.id # snd'[v].msg.id
      OBVIOUS
    <3>1. CASE u = t
      BY <3>1, <1>4, <1>5, <1>6, <2>1, <2>2
    <3>2. CASE v = t
      BY <3>2, <1>4, <1>5, <1>6, <2>1, <2>2
    <3>3. CASE u # t /\ v # t
      BY <3>3, <1>0, <1>6, <2>1 DEF OneHolder
    <3>4. QED
      BY <3>1, <3>2, <3>3
  <2>7. \A u \in Sender : Sending(u)' => \A i \in 1..Len(queue') : snd'[u].msg.id # queue'[i].id
    <3> SUFFICES ASSUME NEW u \in Sender, Sending(u)', NEW i \in 1..Len(queue)
                 PROVE  snd'[u].msg.id # queue[i].id
      BY <1>3
    <3>1. CASE u = t
      BY <3>1, <1>4, <1>5, <1>6, <2>2
    <3>2. CASE u # t
      BY <3>2, <1>0, <1>6, <2>1 DEF OneHolder
    <3>3. QED
      BY <3>1, <3>2
  <2>8. svc.pc = "free" => \A u \in Sender : Sending(u)' => snd'[u].msg.id # svc.msg.id
    <3> SUFFICES ASSUME svc.pc = "free", NEW u \in Sender, Sending(u)'
                 PROVE  snd'[u].msg.id # svc.msg.id
      OBVIOUS
    <3>1. CASE u = t
      BY <3>1, <1>4, <1>5, <1>6, <2>2
    <3>2. CASE u # t
      BY <3>2, <1>0, <1>6, <2>1 DEF OneHolder
    <3>3. QED
      BY <3>1, <3>2
  <2>9. /\ \A i \in 1..Len(queue') : queue'[i].id <= sends'
        /\ svc'.pc # "get" => svc'.msg \in Msg
        /\ \A i, j \in 1..Len(queue') : i # j => queue'[i].id # queue'[j].id
        /\ svc'.pc = "free" => /\ svc'.msg.id <= sends'
                               /\ \A i \in 1..Len(queue') : queue'[i].id # svc'.msg.id
    <3>1. \A i \in 1..Len(queue) : queue[i].id <= sends + 1
      BY <1>4, <2>2
    <3>2. svc.pc = "free" => svc.msg.id <= sends + 1
      BY <1>4, <2>2
    <3>3. QED
      BY <1>0, <1>3, <3>1, <3>2 DEF OneHolder
  <2>10. QED
    BY <1>3, <2>5, <2>6, <2>7, <2>8, <2>9 DEF OneHolder
<1>9. Kinds'
  BY <1>0, <1>3, <1>5, <1>6 DEF Kinds
<1>10. HeapBalanced'
  <2> SUFFICES ASSUME "shell" \notin world, NEW x
               PROVE  x \in heap' <=> Holds(x)'
    BY HeapHolds
  <2>1. x \in heap <=> Holds(x)
    BY <1>0, HeapHolds
  <2>2. Holds(x)' <=> Holds(x) \/ x = sends + 1
    BY <1>3, <1>5, <1>6 DEF Holds, Sending
  <2>3. QED
    BY <1>3, <2>1, <2>2
<1>11. Spare' = Spare /\ Counted'
  <2>1. Cardinality(Puts') = Cardinality(Puts)
    BY <1>0, <1>3, <1>5, <1>6, Sums
  <2>2. Cardinality(Counting') <= Cardinality(Counting) + 1
    BY <1>0, <1>3, <1>5, <1>6, Sums
  <2>3. Underway' = Underway
    BY <1>0, <1>3, <1>7, <2>1, Sums, SumsNext DEF Serving
  <2>4. Underway \in Nat /\ Cardinality(Counting) \in Nat /\ Cardinality(Counting') \in Nat
    BY <1>0, <1>7, Sums, SumsNext
  <2>5. QED
    BY <1>0, <1>3, <1>4, <2>2, <2>3, <2>4 DEF Spare, Counted, Calm, EventUnmasked
<1>12. QED
  BY <1>7, <1>8, <1>9, <1>10, <1>11 DEF SysInv, CountStep

(* The count goes up by the message about to be posted.                      *)
LEMMA SendCountStep ==
  ASSUME Given, SysInv, NEW t \in Sender, SendCount(t), world' = world
  PROVE  SysInv' /\ CountStep
<1>0. SysTyped /\ OneHolder /\ Kinds /\ HeapBalanced /\ Counted
  BY DEF SysInv
<1>1. PICK r : r = [snd[t] EXCEPT !.pc = "put"]
  BY Zenon
<1>2. /\ snd[t].pc = "count" /\ snd[t] \in SendState /\ snd[t].msg.kind = "fast"
      /\ r \in SendState /\ r.pc = "put" /\ r.msg = snd[t].msg
      /\ snd' = [snd EXCEPT ![t] = r] /\ UNCHANGED <<queue, svc, heap, sends>>
  BY <1>0, <1>1 DEF SendCount, SysTyped, SendState, Kinds
<1>3. /\ sends \in 0..MaxSends /\ fast \in 0..(U32 - 1) /\ MaxSends \in Nat /\ U32 \in Nat
      /\ MaxSends < U32 /\ snd[t].load \in Nat
  BY <1>0, <1>2 DEF Given, SysConstants, SysTyped, SendState
<1>4. /\ snd' \in [Sender -> SendState] /\ snd'[t] = r
      /\ \A u \in Sender : u # t => snd'[u] = snd[u]
      /\ Cardinality(Puts') = Cardinality(Puts)
           + (IF r.pc = "put" /\ r.msg.kind = "fast" THEN 1 ELSE 0)
           - (IF snd[t].pc = "put" /\ snd[t].msg.kind = "fast" THEN 1 ELSE 0)
      /\ Cardinality(Counting') = Cardinality(Counting)
           + (IF r.pc = "count" THEN 1 ELSE 0) - (IF snd[t].pc = "count" THEN 1 ELSE 0)
  BY <1>0, <1>2, SndUpdate, Zenon
<1>5. fast' \in 0..(U32 - 1)
  BY <1>3 DEF SendCount
<1>6. SysTyped'
  BY <1>0, <1>2, <1>4, <1>5 DEF SysTyped
<1>7. \A u \in Sender : (Sending(u)' <=> Sending(u)) /\ snd'[u].msg = snd[u].msg
  BY <1>2, <1>4 DEF Sending
<1>8. OneHolder'
  BY <1>0, <1>2, <1>7 DEF OneHolder
<1>9. Kinds'
  BY <1>0, <1>2, <1>4 DEF Kinds
<1>10. HeapBalanced'
  <2>1. \A x : Holds(x)' <=> Holds(x)
    BY <1>2, <1>7 DEF Holds
  <2>2. QED
    BY <1>0, <1>2, <2>1, HeapHolds
<1>11. CASE Calm
  <2>1. /\ Cardinality(Puts') = Cardinality(Puts) + 1
        /\ Cardinality(Counting') = Cardinality(Counting) - 1
        /\ Cardinality(Puts) \in Nat /\ Cardinality(Counting) \in Nat /\ Cardinality(Counting') \in Nat
    BY <1>0, <1>2, <1>4, <1>6, Sums, SumsNext
  <2>2. fast + Cardinality(Counting) <= sends /\ Underway <= fast
    BY <1>0, <1>11 DEF Counted
  <2>3. fast + 1 \in 0..(U32 - 1)
    BY <1>3, <2>1, <2>2
  <2>4. fast' = (fast + 1) % U32
    BY <1>11 DEF SendCount, Calm
  <2>5. fast' = fast + 1
    BY <2>3, <2>4, <1>3
  <2>6. Underway' = Underway + 1 /\ Underway \in Nat
    BY <1>0, <1>2, <1>6, <2>1, Sums, SumsNext DEF Serving
  <2>7. Counted' /\ Spare' = Spare
    BY <1>0, <1>2, <1>3, <2>1, <2>2, <2>5, <2>6 DEF Spare, Counted, Calm, EventUnmasked
  <2>8. QED
    BY <1>6, <1>8, <1>9, <1>10, <2>7 DEF SysInv, CountStep
<1>12. CASE ~Calm
  BY <1>6, <1>8, <1>9, <1>10, <1>12 DEF SysInv, CountStep, Counted, Calm
<1>13. QED
  BY <1>11, <1>12

(* The message is posted, or freed again; in both cases its sender loses it. *)
LEMMA SendPutStep ==
  ASSUME Given, SysInv, NEW t \in Sender, SendPut(t), world' = world
  PROVE  SysInv' /\ CountStep
<1>0. SysTyped /\ OneHolder /\ Kinds /\ HeapBalanced /\ Counted
  BY DEF SysInv
<1>1. PICK r : r = [pc |-> "idle", msg |-> NoMsg, load |-> 0]
  BY Zenon
<1>2. PICK m : m = snd[t].msg
  OBVIOUS
<1>3. /\ snd[t].pc = "put" /\ snd' = [snd EXCEPT ![t] = r] /\ UNCHANGED <<fast, svc, sends>>
      /\ IF Len(queue) < QueueSize
           THEN queue' = Append(queue, m) /\ heap' = heap
           ELSE queue' = queue /\ heap' = heap \ {m.id}
  BY <1>1, <1>2 DEF SendPut, Idle
<1>4. r \in SendState /\ r.pc = "idle"
  BY <1>1 DEF SendState
<1>5. /\ snd' \in [Sender -> SendState] /\ snd'[t] = r
      /\ \A u \in Sender : u # t => snd'[u] = snd[u]
      /\ Cardinality(Puts') = Cardinality(Puts)
           + (IF r.pc = "put" /\ r.msg.kind = "fast" THEN 1 ELSE 0)
           - (IF snd[t].pc = "put" /\ snd[t].msg.kind = "fast" THEN 1 ELSE 0)
      /\ Cardinality(Counting') = Cardinality(Counting)
           + (IF r.pc = "count" THEN 1 ELSE 0) - (IF snd[t].pc = "count" THEN 1 ELSE 0)
  BY <1>0, <1>3, <1>4, SndUpdate, Zenon
<1>6. /\ Cardinality(Puts') = Cardinality(Puts) - (IF m.kind = "fast" THEN 1 ELSE 0)
      /\ Cardinality(Counting') = Cardinality(Counting)
      /\ Cardinality(Puts) \in Nat /\ Cardinality(Counting) \in Nat
  BY <1>0, <1>2, <1>3, <1>4, <1>5, Sums
<1>7. \A u \in Sender :
        (Sending(u)' <=> u # t /\ Sending(u)) /\ (Sending(u)' => snd'[u].msg = snd[u].msg)
  BY <1>4, <1>5 DEF Sending
<1>8. Sending(t) /\ m \in Msg /\ m.id <= sends
  BY <1>0, <1>2, <1>3 DEF Sending, OneHolder
<1>9. /\ queue \in Seq(Msg) /\ Len(queue) \in Nat /\ Len(queue) <= QueueSize /\ QueueSize \in Nat
      /\ fast \in 0..(U32 - 1) /\ sends \in 0..MaxSends /\ U32 \in Nat /\ MaxSends \in Nat
  BY <1>0 DEF Given, SysConstants, SysTyped
<1>10. Kinds'
  BY <1>0, <1>3, <1>4, <1>5 DEF Kinds
<1>11. CASE Len(queue) < QueueSize
  <2>1. /\ queue' = Append(queue, m) /\ heap' = heap
        /\ queue' \in Seq(Msg) /\ Len(queue') = Len(queue) + 1
        /\ \A i \in 1..Len(queue) : queue'[i] = queue[i]
        /\ queue'[Len(queue) + 1] = m
    BY <1>3, <1>8, <1>9, <1>11, SMTT(20)
  <2>2. SysTyped'
    BY <1>0, <1>3, <1>5, <1>9, <1>11, <2>1 DEF SysTyped
  <2>3. \A i \in 1..Len(queue') : (i \in 1..Len(queue) /\ queue'[i] = queue[i])
                                  \/ (i = Len(queue) + 1 /\ queue'[i] = m)
    BY <1>9, <2>1
  <2>4. OneHolder'
    <3>1. \A u \in Sender : Sending(u)' => \A i \in 1..Len(queue') : snd'[u].msg.id # queue'[i].id
      BY <1>0, <1>2, <1>7, <1>8, <2>3 DEF OneHolder
    <3>2. \A i, j \in 1..Len(queue') : i # j => queue'[i].id # queue'[j].id
      BY <1>0, <1>2, <1>8, <2>3 DEF OneHolder
    <3>3. \A i \in 1..Len(queue') : queue'[i].id <= sends
      BY <1>0, <1>8, <2>3 DEF OneHolder
    <3>4. svc.pc = "free" => \A i \in 1..Len(queue') : queue'[i].id # svc.msg.id
      BY <1>0, <1>2, <1>8, <2>3 DEF OneHolder
    <3>5. QED
      BY <1>0, <1>3, <1>7, <3>1, <3>2, <3>3, <3>4, SMTT(20) DEF OneHolder
  <2>5. HeapBalanced'
    <3>1. ASSUME NEW x PROVE Holds(x)' <=> Holds(x)
      <4>1. (\E i \in 1..Len(queue') : queue'[i].id = x)
              <=> (\E i \in 1..Len(queue) : queue[i].id = x) \/ m.id = x
        BY <1>9, <2>1, <2>3
      <4>2. (\E u \in Sender : Sending(u) /\ snd[u].msg.id = x)
              <=> (\E u \in Sender : Sending(u)' /\ snd'[u].msg.id = x) \/ m.id = x
        BY <1>2, <1>7, <1>8
      <4>3. QED
        BY <1>3, <4>1, <4>2 DEF Holds
    <3>2. QED
      BY <1>0, <2>1, <3>1, HeapHolds
  <2>6. m \in FastMsg <=> m.kind = "fast"
    BY <1>8 DEF FastMsg
  <2>7. Cardinality(Places(queue', FastMsg))
          = Cardinality(Places(queue, FastMsg)) + (IF m.kind = "fast" THEN 1 ELSE 0)
    BY <1>8, <1>9, <2>1, <2>6, PlacesAppend
  <2>8. Underway' = Underway /\ Underway \in Nat
    BY <1>0, <1>3, <1>6, <2>2, <2>7, Sums, SumsNext, SMTT(20) DEF Serving
  <2>9. Counted' /\ Spare' = Spare
    BY <1>0, <1>3, <1>6, <1>9, <2>8 DEF Spare, Counted, Calm, EventUnmasked
  <2>10. QED
    BY <1>10, <2>2, <2>4, <2>5, <2>9 DEF SysInv, CountStep
<1>12. CASE ~(Len(queue) < QueueSize)
  <2>1. queue' = queue /\ heap' = heap \ {m.id} /\ Len(queue) = QueueSize
    BY <1>3, <1>9, <1>12
  <2>2. SysTyped'
    BY <1>0, <1>3, <1>5, <2>1, Zenon DEF SysTyped
  <2>3. OneHolder'
    <3>1. queue' = queue /\ svc' = svc /\ sends' = sends
      BY <1>3, <2>1, Zenon
    <3>2. \A u \in Sender : Sending(u)' => Sending(u) /\ snd'[u].msg = snd[u].msg
      BY <1>7, Zenon
    <3>3. /\ \A u \in Sender : Sending(u)' => snd'[u].msg \in Msg /\ snd'[u].msg.id <= sends'
          /\ \A u, v \in Sender : Sending(u)' /\ Sending(v)' /\ u # v
               => snd'[u].msg.id # snd'[v].msg.id
      BY <1>0, <3>1, <3>2, Zenon DEF OneHolder
    <3>4. /\ \A u \in Sender : Sending(u)' =>
               \A i \in 1..Len(queue') : snd'[u].msg.id # queue'[i].id
          /\ svc'.pc = "free" => \A u \in Sender : Sending(u)' => snd'[u].msg.id # svc'.msg.id
      BY <1>0, <3>1, <3>2, Zenon DEF OneHolder
    <3>5. QED
      BY <1>0, <3>1, <3>3, <3>4, ZenonT(30) DEF OneHolder
  <2>4. HeapBalanced'
    <3>1. ASSUME NEW x PROVE Holds(x)' <=> Holds(x) /\ x # m.id
      <4>1. /\ \A i \in 1..Len(queue) : queue[i].id # m.id
            /\ svc.pc = "free" => svc.msg.id # m.id
            /\ \A u \in Sender : u # t /\ Sending(u) => snd[u].msg.id # m.id
        BY <1>0, <1>2, <1>8, Zenon DEF OneHolder
      <4>2. QED
        BY <1>2, <1>3, <1>7, <2>1, <4>1 DEF Holds
    <3>2. QED
      BY <1>0, <2>1, <3>1, HeapHolds
  <2>5. /\ Underway' = Underway - (IF m.kind = "fast" THEN 1 ELSE 0)
        /\ Underway \in Nat
    <3>1. /\ Underway = Cardinality(Puts) + Cardinality(Places(queue, FastMsg)) + Serving
          /\ Cardinality(Places(queue, FastMsg)) \in Nat /\ Serving \in 0..1
      BY <1>0, Sums, Zenon
    <3>2. /\ Underway' = Cardinality(Puts') + Cardinality(Places(queue', FastMsg)) + Serving'
          /\ Places(queue', FastMsg) = Places(queue, FastMsg) /\ Serving' = Serving
      BY <1>3, <2>1, <2>2, SumsNext, Zenon DEF Serving
    <3>3. QED
      BY <3>1, <3>2, <1>6
  <2>6. Counted' /\ (Spare' = Spare \/ Spare' > Spare)
    BY <1>0, <1>3, <1>6, <1>9, <2>5 DEF Spare, Counted, Calm, EventUnmasked
  <2>7. QED
    BY <1>3, <1>10, <2>1, <2>2, <2>3, <2>4, <2>6 DEF SysInv, CountStep
<1>13. QED
  BY <1>11, <1>12

(* The senders, when they do not move                                        *)
LEMMA SndSame ==
  ASSUME snd' = snd
  PROVE  /\ \A u \in Sender : (Sending(u)' <=> Sending(u)) /\ snd'[u] = snd[u]
         /\ Puts' = Puts /\ Counting' = Counting
BY DEF Sending, Puts, Counting

(* The service takes the message at the head of the queue.                   *)
LEMMA GetStep ==
  ASSUME Given, SysInv, Get, world' = world
  PROVE  SysInv' /\ CountStep
<1>0. SysTyped /\ OneHolder /\ Kinds /\ HeapBalanced /\ Counted
  BY DEF SysInv
<1>1. /\ svc.pc = "get" /\ queue # <<>> /\ queue' = Tail(queue)
      /\ svc' = [pc |-> "free", msg |-> Head(queue), load |-> 0]
      /\ UNCHANGED <<fast, snd, heap, sends>>
  BY DEF Get
<1>2. /\ queue \in Seq(Msg) /\ Len(queue) \in Nat /\ Len(queue) <= QueueSize /\ QueueSize \in Nat
      /\ fast \in 0..(U32 - 1) /\ sends \in 0..MaxSends /\ U32 \in Nat /\ MaxSends \in Nat
  BY <1>0 DEF Given, SysConstants, SysTyped
<1>3. /\ queue' \in Seq(Msg) /\ Len(queue') = Len(queue) - 1
      /\ Head(queue) = queue[1] /\ Head(queue) \in Msg /\ 1 \in 1..Len(queue)
      /\ \A i \in 1..Len(queue') : queue'[i] = queue[i + 1] /\ i + 1 \in 1..Len(queue) /\ i + 1 # 1
  BY <1>1, <1>2
<1>4. /\ svc'.pc = "free" /\ svc'.msg = queue[1]
      /\ svc' \in [pc : {"get", "free", "strip", "oper"}, msg : Msg \cup {NoMsg}, load : Nat]
  BY <1>1, <1>3
<1>5. SysTyped'
  <2>1. Len(queue') <= QueueSize
    BY <1>2, <1>3
  <2>2. QED
    BY <1>0, <1>1, <1>3, <1>4, <2>1 DEF SysTyped
<1>6. /\ \A u \in Sender : (Sending(u)' <=> Sending(u)) /\ snd'[u] = snd[u]
      /\ Puts' = Puts /\ Counting' = Counting
  BY <1>1, SndSame
<1>7. OneHolder'
  <2>1. \A u \in Sender : Sending(u)' => \A i \in 1..Len(queue') : snd'[u].msg.id # queue'[i].id
    BY <1>0, <1>3, <1>6, SMTT(20) DEF OneHolder
  <2>2. \A i, j \in 1..Len(queue') : i # j => queue'[i].id # queue'[j].id
    <3> SUFFICES ASSUME NEW i \in 1..Len(queue'), NEW j \in 1..Len(queue'), i # j
                 PROVE  queue[i + 1].id # queue[j + 1].id
      BY <1>3
    <3>1. i + 1 # j + 1 /\ i + 1 \in 1..Len(queue) /\ j + 1 \in 1..Len(queue)
      BY <1>3
    <3>2. QED
      BY <1>0, <3>1 DEF OneHolder
  <2>3. \A i \in 1..Len(queue') : queue'[i].id <= sends /\ queue'[i].id # queue[1].id
    BY <1>0, <1>3, SMTT(20) DEF OneHolder
  <2>4. \A u \in Sender : Sending(u)' => snd'[u].msg.id # queue[1].id
    BY <1>0, <1>3, <1>6 DEF OneHolder
  <2>5. \A u \in Sender : Sending(u)' => snd'[u].msg \in Msg /\ snd'[u].msg.id <= sends
    BY <1>0, <1>6 DEF OneHolder
  <2>6. \A t, u \in Sender : Sending(t)' /\ Sending(u)' /\ t # u => snd'[t].msg.id # snd'[u].msg.id
    BY <1>0, <1>6 DEF OneHolder
  <2>7. queue[1].id <= sends
    BY <1>0, <1>3 DEF OneHolder
  <2>8. QED
    BY <1>1, <1>3, <1>4, <2>1, <2>2, <2>3, <2>4, <2>5, <2>6, <2>7, SMTT(20) DEF OneHolder
<1>8. Kinds'
  BY <1>0, <1>4, <1>6 DEF Kinds
<1>9. HeapBalanced'
  <2>1. ASSUME NEW x PROVE Holds(x)' <=> Holds(x)
    <3>1. (\E i \in 1..Len(queue) : queue[i].id = x)
            <=> (\E i \in 1..Len(queue') : queue'[i].id = x) \/ queue[1].id = x
      <4>1. ASSUME NEW i \in 1..Len(queue), queue[i].id = x, i # 1
            PROVE  \E j \in 1..Len(queue') : queue'[j].id = x
        <5>1. i - 1 \in 1..Len(queue') /\ (i - 1) + 1 = i
          BY <1>2, <1>3, <4>1
        <5>2. QED
          BY <1>3, <4>1, <5>1, Zenon
      <4>2. QED
        BY <1>3, <4>1
    <3>2. QED
      BY <1>1, <1>4, <1>6, <3>1 DEF Holds
  <2>2. QED
    BY <1>0, <1>1, <2>1, HeapHolds
<1>10. Cardinality(Places(queue, FastMsg))
         = Cardinality(Places(queue', FastMsg)) + (IF queue[1].kind = "fast" THEN 1 ELSE 0)
  <2>1. Head(queue) \in FastMsg <=> queue[1].kind = "fast"
    BY <1>3 DEF FastMsg
  <2>2. QED
    BY <1>1, <1>2, <2>1, PlacesTail
<1>11. Serving = 0 /\ Serving' = IF queue[1].kind = "fast" THEN 1 ELSE 0
  BY <1>1, <1>4 DEF Serving
<1>12. Underway' = Underway /\ Underway \in Nat
  BY <1>0, <1>5, <1>6, <1>10, <1>11, Sums, SumsNext
<1>13. Counted' /\ Spare' = Spare
  BY <1>0, <1>1, <1>4, <1>6, <1>12 DEF Spare, Counted, Calm, EventUnmasked
<1>14. QED
  BY <1>5, <1>7, <1>8, <1>9, <1>13 DEF SysInv, CountStep

(* The service frees the message; a fast one that was counted finds the      *)
(* count above 0.                                                            *)
LEMMA DoFreeStep ==
  ASSUME Given, SysInv, DoFree, world' = world
  PROVE  SysInv' /\ CountStep
<1>0. SysTyped /\ OneHolder /\ Kinds /\ HeapBalanced /\ Counted
  BY DEF SysInv
<1>1. PICK p : p = IF svc.msg.kind = "none" THEN "get"
                   ELSE IF svc.msg.kind = "fast" /\ fast > 0 THEN "strip" ELSE "oper"
  OBVIOUS
<1>2. /\ svc.pc = "free" /\ heap' = heap \ {svc.msg.id}
      /\ svc' = [svc EXCEPT !.load = fast, !.pc = p]
      /\ UNCHANGED <<queue, fast, snd, sends>>
  BY <1>1 DEF DoFree
<1>3. /\ fast \in 0..(U32 - 1) /\ U32 \in Nat /\ svc.msg \in Msg
      /\ svc \in [pc : {"get", "free", "strip", "oper"}, msg : Msg \cup {NoMsg}, load : Nat]
  BY <1>0, <1>2 DEF Given, SysConstants, SysTyped, OneHolder
<1>4. svc.msg.kind \in {"fast", "plain", "none"}
  BY <1>3 DEF Msg
<1>5. /\ svc'.pc = p /\ svc'.msg = svc.msg /\ p \in {"get", "strip", "oper"}
      /\ svc' \in [pc : {"get", "free", "strip", "oper"}, msg : Msg \cup {NoMsg}, load : Nat]
  <2>1. p \in {"get", "strip", "oper"} /\ fast \in Nat
    BY <1>1, <1>3
  <2>2. svc' = [pc |-> p, msg |-> svc.msg, load |-> fast]
    BY <1>2, <1>3, Zenon
  <2>3. QED
    BY <1>3, <2>1, <2>2
<1>6. SysTyped'
  BY <1>0, <1>2, <1>5 DEF SysTyped
<1>7. /\ \A u \in Sender : (Sending(u)' <=> Sending(u)) /\ snd'[u] = snd[u]
      /\ Puts' = Puts /\ Counting' = Counting
  BY <1>2, SndSame
<1>8. OneHolder'
  BY <1>0, <1>2, <1>3, <1>5, <1>7 DEF OneHolder
<1>9. Kinds'
  BY <1>0, <1>1, <1>5, <1>7 DEF Kinds
<1>10. HeapBalanced'
  <2>1. \A x : Holds(x)' <=> Holds(x) /\ x # svc.msg.id
    BY <1>0, <1>2, <1>5, <1>7 DEF Holds, OneHolder
  <2>2. QED
    BY <1>0, <1>2, <2>1, HeapHolds
<1>11. CASE Calm
  <2>1. Underway <= fast /\ fast + Cardinality(Counting) <= sends
    BY <1>0, <1>11 DEF Counted
  <2>2. svc.msg.kind = "fast" => Serving = 1
    BY <1>2 DEF Serving
  <2>3. svc.msg.kind = "fast" => fast > 0
    BY <1>0, <1>3, <2>1, <2>2, Sums
  <2>4. Serving' = Serving /\ EventUnmasked'
    BY <1>1, <1>2, <1>4, <1>5, <2>3 DEF Serving, EventUnmasked
  <2>5. Underway' = Underway
    BY <1>0, <1>2, <1>6, <1>7, <2>4, Sums, SumsNext
  <2>6. Counted' /\ Spare' = Spare
    BY <1>2, <1>7, <2>1, <2>4, <2>5 DEF Spare, Counted, Calm
  <2>7. QED
    BY <1>6, <1>8, <1>9, <1>10, <2>6 DEF SysInv, CountStep
<1>12. CASE ~Calm
  BY <1>6, <1>8, <1>9, <1>10, <1>12 DEF SysInv, CountStep, Counted, Calm
<1>13. QED
  BY <1>11, <1>12

(* The mask is taken off and the count goes down.                            *)
LEMMA DoStripStep ==
  ASSUME Given, SysInv, DoStrip, world' = world
  PROVE  SysInv' /\ CountStep
<1>0. SysTyped /\ OneHolder /\ Kinds /\ HeapBalanced /\ Counted
  BY DEF SysInv
<1>1. /\ svc.pc = "strip" /\ svc' = [svc EXCEPT !.pc = "oper", !.msg.kind = "plain"]
      /\ UNCHANGED <<queue, snd, heap, sends>>
  BY DEF DoStrip
<1>2. /\ fast \in 0..(U32 - 1) /\ U32 \in Nat /\ U32 > 0
      /\ svc \in [pc : {"get", "free", "strip", "oper"}, msg : Msg \cup {NoMsg}, load : Nat]
      /\ svc.msg \in Msg /\ svc.msg.kind = "fast"
  BY <1>0, <1>1 DEF Given, SysConstants, SysTyped, OneHolder, Kinds
<1>3. /\ svc'.pc = "oper" /\ svc'.msg \in Msg /\ svc'.msg.kind = "plain"
      /\ svc' \in [pc : {"get", "free", "strip", "oper"}, msg : Msg \cup {NoMsg}, load : Nat]
  BY <1>1, <1>2, Zenon DEF Msg
<1>4. fast' \in 0..(U32 - 1)
  BY <1>2 DEF DoStrip
<1>5. SysTyped'
  BY <1>0, <1>1, <1>3, <1>4 DEF SysTyped
<1>6. /\ \A u \in Sender : (Sending(u)' <=> Sending(u)) /\ snd'[u] = snd[u]
      /\ Puts' = Puts /\ Counting' = Counting
  BY <1>1, SndSame
<1>7. OneHolder' /\ Kinds'
  BY <1>0, <1>1, <1>3, <1>6 DEF OneHolder, Kinds
<1>8. HeapBalanced'
  <2>1. \A x : Holds(x)' <=> Holds(x)
    BY <1>1, <1>3, <1>6 DEF Holds
  <2>2. QED
    BY <1>0, <1>1, <2>1, HeapHolds
<1>9. CASE Calm
  <2>1. Underway <= fast /\ fast + Cardinality(Counting) <= sends
    BY <1>0, <1>9 DEF Counted
  <2>2. Serving = 1 /\ Serving' = 0
    BY <1>1, <1>2, <1>3 DEF Serving
  <2>3. Underway' = Underway - 1 /\ Underway \in Nat \ {0} /\ Cardinality(Counting) \in Nat
    BY <1>0, <1>1, <1>5, <1>6, <2>2, Sums, SumsNext
  <2>4. fast' = (fast - 1) % U32
    BY <1>9 DEF DoStrip, Calm
  <2>5. fast - 1 \in 0..(U32 - 1)
    BY <1>2, <2>1, <2>3
  <2>6. fast' = fast - 1
    BY <1>2, <2>4, <2>5
  <2>7. sends \in Nat
    BY <1>0 DEF Given, SysConstants, SysTyped
  <2>8. Counted' /\ Spare' = Spare
    BY <1>1, <1>2, <1>3, <1>6, <2>1, <2>3, <2>6, <2>7, SMTT(20) DEF Spare, Counted, Calm, EventUnmasked
  <2>9. QED
    BY <1>5, <1>7, <1>8, <2>8 DEF SysInv, CountStep
<1>10. CASE ~Calm
  BY <1>5, <1>7, <1>8, <1>10 DEF SysInv, CountStep, Counted, Calm
<1>11. QED
  BY <1>9, <1>10

(* The handler returns.                                                      *)
LEMMA DoReturnStep ==
  ASSUME Given, SysInv, DoReturn, world' = world
  PROVE  SysInv' /\ CountStep
<1>0. SysTyped /\ OneHolder /\ Kinds /\ HeapBalanced /\ Counted
  BY DEF SysInv
<1>1. /\ svc.pc = "oper" /\ svc' = [pc |-> "get", msg |-> NoMsg, load |-> 0]
      /\ UNCHANGED <<queue, fast, snd, heap, sends>>
  BY DEF DoReturn
<1>2. SysTyped'
  BY <1>0, <1>1 DEF SysTyped
<1>3. /\ \A u \in Sender : (Sending(u)' <=> Sending(u)) /\ snd'[u] = snd[u]
      /\ Puts' = Puts /\ Counting' = Counting
  BY <1>1, SndSame, SMTT(20)
<1>4. OneHolder' /\ Kinds'
  BY <1>0, <1>1, <1>3 DEF OneHolder, Kinds
<1>5. HeapBalanced'
  <2>1. \A x : Holds(x)' <=> Holds(x)
    BY <1>1, <1>3 DEF Holds
  <2>2. QED
    BY <1>0, <1>1, <2>1, HeapHolds
<1>6. Serving' = Serving
  BY <1>1 DEF Serving
<1>7. Underway' = Underway
  BY <1>0, <1>1, <1>2, <1>3, <1>6, Sums, SumsNext
<1>8. Counted' /\ Spare' = Spare
  BY <1>0, <1>1, <1>3, <1>7 DEF Spare, Counted, Calm, EventUnmasked
<1>9. QED
  BY <1>2, <1>4, <1>5, <1>8 DEF SysInv, CountStep

(* A button is released, or the shell clears the queue.                      *)
LEMMA OtherSteps ==
  ASSUME Given, SysInv, ButtonRelease \/ ClearMsg, world' = world
  PROVE  SysInv' /\ CountStep
<1>0. SysTyped /\ OneHolder /\ Kinds /\ HeapBalanced /\ Counted
  BY DEF SysInv
<1>1. UNCHANGED <<snd, svc, heap, sends>>
  BY DEF ButtonRelease, ClearMsg
<1>2. /\ \A u \in Sender : (Sending(u)' <=> Sending(u)) /\ snd'[u] = snd[u]
      /\ Puts' = Puts /\ Counting' = Counting
  BY <1>1, SndSame
<1>3. CASE ButtonRelease
  <2>1. fast' = 0 /\ queue' = queue /\ ~Calm
    BY <1>3 DEF ButtonRelease, Calm
  <2>2. SysTyped'
    BY <1>0, <1>1, <2>1, SMTT(20) DEF Given, SysConstants, SysTyped
  <2>3. OneHolder' /\ Kinds'
    BY <1>0, <1>1, <1>2, <2>1 DEF OneHolder, Kinds
  <2>4. \A x : Holds(x)' <=> Holds(x)
    BY <1>1, <1>2, <2>1 DEF Holds
  <2>5. HeapBalanced'
    BY <1>0, <1>1, <2>4, HeapHolds
  <2>6. QED
    BY <2>1, <2>2, <2>3, <2>5 DEF SysInv, CountStep, Counted, Calm
<1>4. CASE ClearMsg
  <2>1. queue' = <<>> /\ fast' = fast /\ "shell" \in world
    BY <1>4 DEF ClearMsg
  <2>2. Len(queue') = 0 /\ queue' \in Seq(Msg)
    BY <2>1
  <2>3. SysTyped'
    BY <1>0, <1>1, <2>1, <2>2, SMTT(20) DEF Given, SysConstants, SysTyped
  <2>4. OneHolder' /\ Kinds'
    BY <1>0, <1>1, <1>2, <2>2 DEF OneHolder, Kinds
  <2>5. HeapBalanced'
    BY <2>1 DEF HeapBalanced
  <2>6. Cardinality(Places(queue', FastMsg)) = 0
    <3>1. Places(queue', FastMsg) = {}
      BY <2>2 DEF Places
    <3>2. QED
      BY <3>1, CardSmall
  <2>7. Serving' = Serving
    BY <1>1, SMTT(20) DEF Serving
  <2>8. Underway' = Underway - Cardinality(Places(queue, FastMsg))
    BY <1>0, <1>2, <2>3, <2>6, <2>7, Sums, SumsNext
  <2>9. Underway \in Nat /\ Cardinality(Places(queue, FastMsg)) \in Nat /\ fast \in Nat
    BY <1>0, Sums DEF Given, SysConstants, SysTyped
  <2>10. Spare' = Spare \/ Spare' > Spare
    BY <2>1, <2>8, <2>9 DEF Spare
  <2>11. Counted'
    BY <1>0, <1>1, <1>2, <2>1, <2>8, <2>9 DEF Counted, Calm, EventUnmasked
  <2>12. QED
    BY <1>1, <2>1, <2>3, <2>4, <2>5, <2>10, <2>11 DEF SysInv, CountStep
<1>5. QED
  BY <1>3, <1>4

(* Nothing is sent at first.                                                 *)
LEMMA SysInit == Given /\ Init => SysInv
<1> SUFFICES ASSUME Given, Init PROVE SysInv
  OBVIOUS
<1>1. /\ Len(queue) = 0 /\ queue \in Seq(Msg) /\ fast = 0 /\ sends = 0 /\ heap = {}
      /\ snd = [t \in Sender |-> [pc |-> "idle", msg |-> NoMsg, load |-> 0]]
      /\ svc = [pc |-> "get", msg |-> NoMsg, load |-> 0]
  BY DEF Init
<1>2. SysTyped
  BY <1>1 DEF Given, SysConstants, SysTyped, SendState
<1>3. \A t \in Sender : snd[t].pc = "idle" /\ ~Sending(t)
  BY <1>1, SMTT(20) DEF Sending
<1>4. OneHolder /\ Kinds
  BY <1>1, <1>3 DEF OneHolder, Kinds
<1>5. HeapBalanced
  <2>1. \A x : ~Holds(x)
    BY <1>1, <1>3 DEF Holds
  <2>2. QED
    BY <1>1, <2>1, HeapHolds
<1>6. Counted
  <2>1. Puts = {} /\ Counting = {} /\ Places(queue, FastMsg) = {} /\ Serving = 0
    BY <1>1, <1>3 DEF Puts, Counting, Places, Serving
  <2>2. Cardinality({}) = 0
    BY CardSmall
  <2>3. Underway = 0
    BY <1>2, <2>1, <2>2, Sums
  <2>4. QED
    BY <1>1, <2>1, <2>2, <2>3 DEF Counted, EventUnmasked
<1>7. QED
  BY <1>2, <1>4, <1>5, <1>6 DEF SysInv

(* Every step of CfgSys keeps the invariant, and the count exact.            *)
LEMMA SysStep == Given /\ SysInv /\ Next => SysInv' /\ CountStep
<1> SUFFICES ASSUME Given, SysInv, Next PROVE SysInv' /\ CountStep
  OBVIOUS
<1>1. world' = world
  BY DEF Next
<1>2. CASE \E t \in Sender : Send(t) \/ \E kind \in {"fast", "plain", "none"} : SendAlloc(t, kind)
  BY <1>1, <1>2, SendAllocStep, SendCountStep, SendPutStep DEF Send
<1>3. CASE Serve
  BY <1>1, <1>3, GetStep, DoFreeStep, DoStripStep, DoReturnStep DEF Serve
<1>4. CASE ButtonRelease \/ ClearMsg
  BY <1>1, <1>4, OtherSteps, SMTT(20)
<1>5. QED
  BY <1>2, <1>3, <1>4 DEF Next

(* The part that does not run keeps its state.                               *)
LEMMA SysStutter == SysInv /\ UNCHANGED vars => SysInv'
<1> SUFFICES ASSUME SysInv, UNCHANGED vars PROVE SysInv'
  OBVIOUS
<1>1. UNCHANGED <<queue, fast, snd, svc, heap, sends, world>>
  BY DEF vars
<1>2. \A t \in Sender : Sending(t)' <=> Sending(t)
  BY <1>1 DEF Sending
<1>3. Underway' = Underway /\ Counting' = Counting
  BY <1>1 DEF Underway, Counting
<1>4. QED
  BY <1>1, <1>2, <1>3
  DEF SysInv, SysTyped, OneHolder, Kinds, Counted, Calm, HeapBalanced, EventUnmasked

-----------------------------------------------------------------------------

(* The invariant is inductive, and gives what CfgSys promises.               *)
LEMMA SysInductive ==
  ASSUME Given
  PROVE  /\ Init => SysInv
         /\ SysInv /\ [Next]_vars => SysInv'
         /\ SysInv => TypeOK /\ FastUnmasked /\ HeapBalanced
<1>1. Init => SysInv
  BY SysInit
<1>2. SysInv /\ [Next]_vars => SysInv'
  BY SysStep, SysStutter
<1>3. ASSUME SysInv PROVE TypeOK /\ FastUnmasked /\ HeapBalanced
  <2>1. SysTyped
    BY <1>3 DEF SysInv
  <2>2. heap \subseteq 1..MaxSends
    BY <2>1 DEF SysTyped, Given, SysConstants
  <2>3. TypeOK
    BY <2>1, <2>2 DEF SysTyped, SendState, TypeOK
  <2>4. QED
    BY <1>3, <2>3 DEF SysInv, Counted, Calm, FastUnmasked
<1>4. QED
  BY <1>1, <1>2, <1>3

(* What a step does to the count of fast events                              *)
LEMMA SysCounts ==
  ASSUME Given, SysInv, Next
  PROVE  LET more == (fast - Underway)' - (fast - Underway)
         IN world \cap {"preempt", "button"} = {} =>
              \/ more = 0
              \/ more > 0 /\ svc' = svc /\ (Len(queue) = QueueSize \/ queue' = <<>>)
<1>2. SysInv /\ SysInv' /\ CountStep
  BY SysStep
<1>3. SysTyped /\ SysTyped' /\ fast \in Nat /\ fast' \in Nat
  BY <1>2 DEF Given, SysConstants, SysInv, SysTyped
<1>4. Underway \in Nat /\ Underway' \in Nat
  BY <1>3, Sums, SumsNext
<1>5. fast - Underway \in Int /\ (fast - Underway)' \in Int
  BY <1>3, <1>4
<1>6. Calm => \/ (fast - Underway)' = fast - Underway
              \/ /\ (fast - Underway)' > fast - Underway
                 /\ svc' = svc /\ (Len(queue) = QueueSize \/ queue' = <<>>)
  BY <1>2 DEF CountStep, Spare
<1>7. QED
  BY <1>5, <1>6 DEF Calm

=============================================================================
