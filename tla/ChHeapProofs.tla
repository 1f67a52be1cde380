---------------------------- MODULE ChHeapProofs ----------------------------
(***************************************************************************)
(* Proofs about ChHeap, for any number of threads, sizes and core memory.  *)
(***************************************************************************)
EXTENDS ChHeap, SequenceTheorems, TLAPS

(* A function on 1..n is a sequence of length n.                            *)
LEMMA FunctionIsSeq ==
  ASSUME NEW S, NEW n \in Nat, NEW f \in [1..n -> S]
  PROVE  f \in Seq(S) /\ Len(f) = n
  <1>1. f \in Seq(S)
    BY SeqDef
  <1>2. Len(f) \in Nat /\ DOMAIN f = 1..Len(f) /\ DOMAIN f = 1..n
    BY <1>1, LenProperties
  <1> QED BY <1>1, <1>2, SMT

(* Cutting an element out of a sequence leaves the others in their order.   *)
LEMMA CutFacts ==
  ASSUME NEW S, NEW s \in Seq(S), NEW i \in 1..Len(s)
  PROVE  /\ Cut(s, i) \in Seq(S)
         /\ Len(Cut(s, i)) = Len(s) - 1
         /\ \A k \in 1..(Len(s) - 1) : Cut(s, i)[k] = IF k < i THEN s[k] ELSE s[k + 1]
  <1>1. Len(s) - 1 \in Nat /\ s \in [1..Len(s) -> S]
    BY LenProperties
  <1>2. Cut(s, i) \in [1..(Len(s) - 1) -> S]
    BY <1>1 DEF Cut
  <1> QED BY <1>1, <1>2, FunctionIsSeq DEF Cut

(* The sequence z is s with what lies between l and r replaced by b.         *)
Spliced(z, S, s, l, r, b) ==
  /\ z \in Seq(S)
  /\ Len(z) = l + 1 + Len(s) - (r - 1)
  /\ \A k \in 1..l : z[k] = s[k]
  /\ z[l + 1] = b
  /\ \A k \in (l + 2)..Len(z) : z[k] = s[k - l - 1 + r - 1]

(* Replacing what lies between two positions of a sequence by one element.  *)
LEMMA SpliceFacts ==
  ASSUME NEW S, NEW s \in Seq(S), NEW b \in S,
         NEW l \in 0..Len(s), NEW r \in (l + 1)..(Len(s) + 1)
  PROVE  Spliced(Splice(s, l, r, b), S, s, l, r, b)
  <1>0. Len(s) \in Nat /\ s \in [1..Len(s) -> S]
    BY LenProperties
  <1> DEFINE n == l + 1 + Len(s) - (r - 1)
  <1>1. n \in Nat /\ l + 1 \in 1..n /\ n >= l + 1
    BY <1>0
  <1>2. Splice(s, l, r, b) \in [1..n -> S]
    BY <1>0, <1>1, SMTT(30) DEF Splice
  <1>3. Splice(s, l, r, b) \in Seq(S) /\ Len(Splice(s, l, r, b)) = n
    BY <1>1, <1>2, FunctionIsSeq, SMTT(30)
  <1> QED BY <1>0, <1>1, <1>3 DEF Splice, Spliced

-----------------------------------------------------------------------------
(* Neither property is inductive without the others: whether a freed block   *)
(* can be merged depends on where the blocks in use are.                     *)
Inv == TypeOK /\ FreeListSound /\ NoOverlap /\ NothingLost

(* The heap is empty at first.                                               *)
LEMMA InitInv == Init => Inv
  <1> SUFFICES ASSUME Init PROVE Inv
    OBVIOUS
  <1>1. list = <<>> /\ Len(list) = 0 /\ list \in Seq(Block)
    BY DEF Init
  <1>2. TypeOK
    BY <1>1, SizesNatural DEF Init, TypeOK
  <1>3. FreeListSound /\ NoOverlap /\ NothingLost
    BY <1>1 DEF Init, FreeListSound, NoOverlap, NothingLost
  <1> QED BY <1>2, <1>3 DEF Inv

(* The arithmetic of blocks.                                                 *)
LEMMA BlockFacts ==
  ASSUME NEW b \in Block
  PROVE  /\ b.at \in Nat /\ b.size \in Nat /\ Limit(b) \in Nat
         /\ Limit(b) = b.at + Hdr + b.size
         /\ b.at < Limit(b)
  BY HdrPositive DEF Block, Limit

(* A free block taken whole.                                                 *)
LEMMA TakeWhole ==
  ASSUME Inv, NEW i \in 1..Len(list), list' = Cut(list, i),
         used' = used \cup {list[i]}, core' = core,
         want' \in [Thread -> Request \cup {None}]
  PROVE  Inv'
  <1>1. /\ list \in Seq(Block) /\ used \subseteq Block /\ core \in 0..CoreSize
        /\ Len(list) \in Nat /\ \A k \in 1..Len(list) : list[k] \in Block
    BY LenProperties DEF Inv, TypeOK
  <1>2. /\ list' \in Seq(Block) /\ Len(list') = Len(list) - 1
        /\ \A k \in 1..Len(list') : list'[k] = IF k < i THEN list[k] ELSE list[k + 1]
    BY <1>1, CutFacts, Zenon
  <1>3. TypeOK'
    BY <1>1, <1>2 DEF Inv, TypeOK
  <1>4. FreeListSound'
    <2> SUFFICES ASSUME NEW j \in 1..Len(list'), NEW k \in 1..Len(list'), j < k
                 PROVE  Limit(list'[j]) < list'[k].at
      BY DEF FreeListSound, Limit
    <2> DEFINE jj == IF j < i THEN j ELSE j + 1
               kk == IF k < i THEN k ELSE k + 1
    <2>1. jj \in 1..Len(list) /\ kk \in 1..Len(list) /\ jj < kk
      BY <1>1, <1>2
    <2>2. list'[j] = list[jj] /\ list'[k] = list[kk]
      BY <1>2
    <2> HIDE DEF jj, kk
    <2> QED BY <2>1, <2>2 DEF Inv, FreeListSound
  <1>5. \A k \in 1..Len(list) : k # i => Apart(list[i], list[k])
    BY <1>1, BlockFacts, SMTT(20) DEF Inv, FreeListSound, Apart
  <1>6. NoOverlap'
    <2>1. \A a, b \in used' : a # b => Apart(a, b)
      BY <1>1 DEF Inv, NoOverlap, Apart
    <2>2. \A k \in 1..Len(list') : \E j \in 1..Len(list) : j # i /\ list'[k] = list[j]
      BY <1>1, <1>2
    <2>3. \A a \in used' : Limit(a) <= core' /\ \A k \in 1..Len(list') : Apart(a, list'[k])
      BY <1>1, <1>5, <2>2 DEF Inv, NoOverlap
    <2>4. \A k \in 1..Len(list') : Limit(list'[k]) <= core'
      BY <1>1, <2>2 DEF Inv, NoOverlap
    <2>5. \A a, b : Apart(a, b)' <=> Apart(a, b)
      BY DEF Apart, Limit
    <2>6. \A a : Limit(a)' = Limit(a)
      BY DEF Limit
    <2> QED BY <2>1, <2>3, <2>4, <2>5, <2>6 DEF NoOverlap, Apart, Limit
  <1>7. NothingLost'
    <2> SUFFICES ASSUME NEW x \in 0..(core - 1)
                 PROVE  \/ \E b \in used' : b.at <= x /\ x < Limit(b)
                        \/ \E k \in 1..Len(list') : list'[k].at <= x /\ x < Limit(list'[k])
      BY DEF NothingLost, Limit
    <2>1. CASE \E b \in used : b.at <= x /\ x < Limit(b)
      BY <2>1
    <2>2. ASSUME NEW k \in 1..Len(list), list[k].at <= x, x < Limit(list[k])
          PROVE  \/ \E b \in used' : b.at <= x /\ x < Limit(b)
                 \/ \E j \in 1..Len(list') : list'[j].at <= x /\ x < Limit(list'[j])
      <3>1. CASE k = i
        BY <2>2, <3>1
      <3>2. CASE k < i
        <4>1. k \in 1..Len(list')
          BY <1>1, <1>2, <3>2
        <4>2. list'[k] = list[k]
          BY <1>2, <3>2, <4>1
        <4> QED BY <2>2, <4>1, <4>2
      <3>3. CASE k > i
        <4>1. k - 1 \in 1..Len(list') /\ list'[k - 1] = list[k]
          BY <1>1, <1>2, <3>3
        <4> QED BY <2>2, <4>1
      <3> QED BY <1>1, <3>1, <3>2, <3>3
    <2> QED BY <2>1, <2>2 DEF Inv, NothingLost
  <1> QED BY <1>3, <1>4, <1>6, <1>7 DEF Inv

(* The first part of a free block taken, the rest left in its place.         *)
LEMMA TakePart ==
  ASSUME Inv, NEW i \in 1..Len(list), NEW n \in Nat, list[i].size >= n + Hdr,
         NEW a, a = [at |-> list[i].at, size |-> n],
         NEW f, f = [at |-> list[i].at + Hdr + n, size |-> list[i].size - Hdr - n],
         list' = [list EXCEPT ![i] = f], used' = used \cup {a}, core' = core,
         want' \in [Thread -> Request \cup {None}]
  PROVE  Inv'
  <1>1. /\ list \in Seq(Block) /\ used \subseteq Block /\ core \in 0..CoreSize
        /\ Len(list) \in Nat /\ \A k \in 1..Len(list) : list[k] \in Block
    BY LenProperties DEF Inv, TypeOK
  <1>2. /\ a \in Block /\ f \in Block /\ f.at = Limit(a) /\ a.at = list[i].at
        /\ Limit(f) = Limit(list[i])
    <2>1. list[i].at \in Nat /\ list[i].size \in Nat /\ list[i].size - Hdr - n \in Nat
      BY <1>1, HdrPositive, SMTT(30) DEF Block
    <2>2. a \in Block /\ f \in Block
      BY <2>1, HdrPositive, SMTT(30) DEF Block
    <2>3. a.at = list[i].at /\ a.size = n /\ f.at = list[i].at + Hdr + n
          /\ f.size = list[i].size - Hdr - n
      OBVIOUS
    <2>4. Limit(a) = list[i].at + Hdr + n /\ Limit(f) = f.at + Hdr + f.size
          /\ Limit(list[i]) = list[i].at + Hdr + list[i].size
      BY <2>3 DEF Limit
    <2>5. Limit(f) = Limit(list[i])
      <3> HIDE DEF Limit
      <3> QED BY <2>1, <2>3, <2>4, HdrPositive, SMTT(30)
    <2> QED BY <2>2, <2>3, <2>4, <2>5
  <1>3. /\ list' \in Seq(Block) /\ Len(list') = Len(list) /\ list'[i] = f
        /\ \A k \in 1..Len(list) : k # i => list'[k] = list[k]
    BY <1>1, <1>2
  <1> HIDE DEF Block, Limit
  <1>4. TypeOK'
    BY <1>1, <1>2, <1>3 DEF Inv, TypeOK
  <1>5. /\ \A k \in 1..Len(list) : k < i => Limit(list[k]) < list[i].at
        /\ \A k \in 1..Len(list) : k > i => Limit(list[i]) < list[k].at
    BY DEF Inv, FreeListSound
  <1>6. FreeListSound'
    <2> SUFFICES ASSUME NEW j \in 1..Len(list), NEW k \in 1..Len(list), j < k
                 PROVE  Limit(list'[j]) < list'[k].at
      BY <1>3 DEF FreeListSound, Limit
    <2>1. CASE j = i
      BY <1>2, <1>3, <1>5, <2>1
    <2>2. CASE k = i
      <3>1. list'[j] = list[j] /\ Limit(list[j]) < list[i].at
        BY <1>1, <1>3, <1>5, <2>2
      <3>2. list[i].at < f.at
        BY <1>1, <1>2, BlockFacts, Zenon
      <3> QED BY <1>1, <1>2, <1>3, <2>2, <3>1, <3>2, BlockFacts, SMTT(20)
    <2>3. CASE j # i /\ k # i
      BY <1>3, <2>3 DEF Inv, FreeListSound
    <2> QED BY <2>1, <2>2, <2>3
  <1>7. NoOverlap'
    <2>1. \A c \in used : Apart(c, a) /\ Apart(a, c) /\ Apart(c, f) /\ Limit(c) <= core
      <3> SUFFICES ASSUME NEW c \in used
                   PROVE  Apart(c, a) /\ Apart(a, c) /\ Apart(c, f) /\ Limit(c) <= core
        OBVIOUS
      <3>1. c \in Block /\ Apart(c, list[i]) /\ Limit(c) <= core
        BY <1>1 DEF Inv, NoOverlap
      <3> QED BY <1>1, <1>2, <3>1, BlockFacts, SMTT(30) DEF Apart
    <2>2. Limit(a) <= core /\ Limit(f) <= core /\ Apart(a, f)
      BY <1>1, <1>2, BlockFacts, SMTT(20) DEF Inv, NoOverlap, Apart
    <2>3. \A k \in 1..Len(list) : k # i => Apart(a, list[k]) /\ Limit(list[k]) <= core
      <3> SUFFICES ASSUME NEW k \in 1..Len(list), k # i
                   PROVE  Apart(a, list[k]) /\ Limit(list[k]) <= core
        OBVIOUS
      <3>1. Limit(list[k]) <= core
        BY DEF Inv, NoOverlap
      <3>2. CASE k < i
        <4>1. Limit(list[k]) < list[i].at
          BY <1>5, <3>2
        <4>2. Limit(list[k]) <= a.at
          BY <1>1, <1>2, <4>1, BlockFacts, SMTT(30)
        <4> QED BY <3>1, <4>2 DEF Apart
      <3>3. CASE k > i
        <4>1. Limit(a) < Limit(list[i]) /\ Limit(list[i]) < list[k].at
          BY <1>2, <1>5, <3>3, BlockFacts
        <4> QED BY <1>1, <1>2, <3>1, <4>1, BlockFacts, SMTT(30) DEF Apart
      <3> QED BY <3>2, <3>3
    <2>4. \A c, d \in used' : c # d => Apart(c, d)
      BY <2>1 DEF Inv, NoOverlap
    <2>5. \A k \in 1..Len(list') : list'[k] = f \/ \E j \in 1..Len(list) : j # i /\ list'[k] = list[j]
      BY <1>3
    <2>6. \A c \in used' : Limit(c) <= core /\ \A k \in 1..Len(list') : Apart(c, list'[k])
      BY <2>1, <2>2, <2>3, <2>5 DEF Inv, NoOverlap
    <2>7. \A k \in 1..Len(list') : Limit(list'[k]) <= core
      BY <2>2, <2>3, <2>5
    <2> QED BY <2>4, <2>6, <2>7 DEF NoOverlap, Apart, Limit
  <1>8. NothingLost'
    <2> SUFFICES ASSUME NEW x \in 0..(core - 1)
                 PROVE  \/ \E b \in used' : b.at <= x /\ x < Limit(b)
                        \/ \E k \in 1..Len(list') : list'[k].at <= x /\ x < Limit(list'[k])
      BY DEF NothingLost, Limit
    <2>1. CASE \E b \in used : b.at <= x /\ x < Limit(b)
      BY <2>1
    <2>2. ASSUME NEW k \in 1..Len(list), list[k].at <= x, x < Limit(list[k])
          PROVE  \/ \E b \in used' : b.at <= x /\ x < Limit(b)
                 \/ \E j \in 1..Len(list') : list'[j].at <= x /\ x < Limit(list'[j])
      <3>1. CASE k # i
        BY <1>3, <2>2, <3>1
      <3>2. CASE k = i
        <4>1. CASE x < Limit(a)
          BY <1>2, <2>2, <3>2, <4>1
        <4>2. CASE ~(x < Limit(a))
          <5>1. f.at <= x /\ x < Limit(f)
            BY <1>1, <1>2, <2>2, <3>2, <4>2, BlockFacts, SMTT(30)
          <5> QED BY <1>3, <5>1
        <4> QED BY <4>1, <4>2
      <3> QED BY <3>1, <3>2
    <2> QED BY <2>1, <2>2, SMTT(20) DEF Inv, NothingLost
  <1> QED BY <1>4, <1>6, <1>7, <1>8 DEF Inv

(* A block taken from the core.                                              *)
LEMMA TakeCore ==
  ASSUME Inv, NEW n \in Request, CoreSize - core >= n + Hdr,
         NEW a, a = [at |-> core, size |-> n],
         used' = used \cup {a}, core' = core + Hdr + n, list' = list,
         want' \in [Thread -> Request \cup {None}]
  PROVE  Inv'
  <1>1. /\ list \in Seq(Block) /\ used \subseteq Block /\ core \in 0..CoreSize
        /\ Len(list) \in Nat /\ \A k \in 1..Len(list) : list[k] \in Block
    BY LenProperties DEF Inv, TypeOK
  <1>2. a \in Block /\ a.at = core /\ Limit(a) = core' /\ core' \in 0..CoreSize
    BY <1>1, HdrPositive, SizesNatural DEF Block, Limit
  <1>3. TypeOK'
    BY <1>1, <1>2 DEF Inv, TypeOK
  <1>4. FreeListSound'
    BY DEF Inv, FreeListSound, Limit
  <1>5. core < core'
    BY <1>1, <1>2, BlockFacts
  <1>6. \A c \in used : Limit(c) <= core' /\ Apart(c, a) /\ Apart(a, c)
    BY <1>1, <1>2, <1>5, BlockFacts DEF Inv, NoOverlap, Apart
  <1>7. \A k \in 1..Len(list) : Limit(list[k]) <= core' /\ Apart(a, list[k])
    BY <1>1, <1>2, <1>5, BlockFacts DEF Inv, NoOverlap, Apart
  <1>8. NoOverlap'
    BY <1>2, <1>6, <1>7, BlockFacts DEF Inv, NoOverlap, Apart, Limit
  <1>9. NothingLost'
    <2> SUFFICES ASSUME NEW x \in 0..(core' - 1)
                 PROVE  \/ \E b \in used' : b.at <= x /\ x < Limit(b)
                        \/ \E k \in 1..Len(list) : list[k].at <= x /\ x < Limit(list[k])
      BY DEF NothingLost, Limit
    <2>1. CASE x < core
      BY <1>1, <2>1 DEF Inv, NothingLost
    <2>2. CASE ~(x < core)
      BY <1>1, <1>2, <2>2
    <2> QED BY <2>1, <2>2
  <1> QED BY <1>3, <1>4, <1>8, <1>9 DEF Inv

(* What the place and the extent of a merged block must satisfy.             *)
Merged(b, l, r, m) ==
  /\ l \in 0..Len(list) /\ r \in (l + 1)..(Len(list) + 1) /\ m \in Block
  /\ list' = Splice(list, l, r, m)
  /\ \A k \in 1..l : Limit(list[k]) < m.at
  /\ \A k \in r..Len(list) : Limit(m) < list[k].at
  /\ \A c \in used : c # b => Apart(c, m)
  /\ Limit(m) <= core
  /\ m.at <= b.at /\ Limit(b) <= Limit(m)
  /\ \A k \in (l + 1)..(r - 1) : m.at <= list[k].at /\ Limit(list[k]) <= Limit(m)

(* Merge puts the freed block, with the neighbours it meets, in its place.   *)
LEMMA MergeFacts ==
  ASSUME Inv, NEW b \in used, NEW i \in 0..Len(list), After(i, b), list' = Merge(i, b)
  PROVE  \E l, r, m : Merged(b, l, r, m)
  <1> DEFINE next == i < Len(list) /\ Limit(b) = list[i + 1].at
             prev == i > 0 /\ Limit(list[i]) = b.at
             size == b.size + (IF next THEN list[i + 1].size + Hdr ELSE 0)
             l == IF prev THEN i - 1 ELSE i
             r == IF next THEN i + 2 ELSE i + 1
             m == IF prev THEN [at |-> list[i].at, size |-> list[i].size + size + Hdr]
                          ELSE [at |-> b.at, size |-> size]
  <1>1. /\ list \in Seq(Block) /\ b \in Block /\ used \subseteq Block /\ core \in 0..CoreSize
        /\ Len(list) \in Nat /\ \A k \in 1..Len(list) : list[k] \in Block
    BY LenProperties DEF Inv, TypeOK
  <1>2. list' = Splice(list, l, r, m)
    BY DEF Merge
  <1>3. l \in 0..Len(list) /\ r \in (l + 1)..(Len(list) + 1)
    BY <1>1
  <1>4. \A j, k \in 1..Len(list) : j < k => Limit(list[j]) < list[k].at
    BY DEF Inv, FreeListSound
  <1>5. ASSUME NEW k \in 1..i PROVE Limit(list[k]) <= b.at
    <2>1. i \in 1..Len(list) /\ k \in 1..Len(list) /\ list[i].at < b.at
      BY <1>1 DEF After
    <2>2. list[k].at < b.at
      BY <1>1, <1>4, <2>1, BlockFacts, SMTT(30)
    <2>3. Apart(b, list[k])
      BY <2>1 DEF Inv, NoOverlap
    <2> QED BY <1>1, <2>1, <2>2, <2>3, BlockFacts, SMTT(30) DEF Apart
  <1>6. ASSUME NEW k \in (i + 1)..Len(list) PROVE Limit(b) <= list[k].at
    <2>1. i + 1 \in 1..Len(list) /\ k \in 1..Len(list) /\ b.at < list[i + 1].at
      BY <1>1 DEF After
    <2>2. b.at < list[k].at
      <3>1. CASE k = i + 1
        BY <2>1, <3>1
      <3>2. CASE i + 1 < k
        <4>1. Limit(list[i + 1]) < list[k].at
          BY <1>4, <2>1, <3>2
        <4>2. list[i + 1] \in Block /\ list[k] \in Block
          BY <1>1, <2>1
        <4>3. list[i + 1].at < Limit(list[i + 1]) /\ list[i + 1].at \in Nat
              /\ Limit(list[i + 1]) \in Nat /\ list[k].at \in Nat /\ b.at \in Nat
          BY <1>1, <4>2, BlockFacts, SMTT(20)
        <4> HIDE DEF Limit
        <4> QED BY <2>1, <4>1, <4>3, SMTT(20)
      <3> QED BY <1>1, <3>1, <3>2
    <2>3. Apart(b, list[k])
      BY <2>1 DEF Inv, NoOverlap
    <2> QED BY <1>1, <2>1, <2>2, <2>3, BlockFacts, SMTT(30) DEF Apart
  <1>7. next => i + 1 \in 1..Len(list) /\ list[i + 1] \in Block
    BY <1>1
  <1>8. prev => i \in 1..Len(list) /\ list[i] \in Block
    BY <1>1
  <1>9. m \in Block /\ m.at = (IF prev THEN list[i].at ELSE b.at)
        /\ Limit(m) = (IF next THEN Limit(list[i + 1]) ELSE Limit(b))
    <2>1. size \in Nat
      BY <1>1, <1>7, HdrPositive, BlockFacts, SMTT(30)
    <2>2. b.at + Hdr + size = (IF next THEN Limit(list[i + 1]) ELSE Limit(b))
      <3>1. CASE next
        <4>1. size = b.size + list[i + 1].size + Hdr
          BY <1>1, <1>7, <3>1, HdrPositive, BlockFacts, SMTT(30)
        <4>2. b.at + Hdr + b.size = list[i + 1].at
          BY <1>1, <3>1, BlockFacts
        <4>3. Limit(list[i + 1]) = list[i + 1].at + Hdr + list[i + 1].size
          BY <1>7, <3>1, BlockFacts
        <4> HIDE DEF size, next
        <4>4. /\ b.at \in Nat /\ b.size \in Nat /\ Hdr \in Nat
              /\ list[i + 1].at \in Nat /\ list[i + 1].size \in Nat
          BY <1>1, <1>7, <3>1, HdrPositive, BlockFacts
        <4>5. b.at + Hdr + size = (b.at + Hdr + b.size) + Hdr + list[i + 1].size
          BY <4>1, <4>4, SMTT(30)
        <4>6. b.at + Hdr + size = Limit(list[i + 1])
          BY <4>2, <4>3, <4>5
        <4> QED BY <3>1, <4>6
      <3>2. CASE ~next
        BY <1>1, <3>2, BlockFacts
      <3> QED BY <3>1, <3>2
    <2> HIDE DEF size, next
    <2>3. CASE prev
      <3>1. m = [at |-> list[i].at, size |-> list[i].size + size + Hdr]
        BY <2>3
      <3>2. list[i].at \in Nat /\ list[i].size \in Nat
            /\ list[i].at + Hdr + list[i].size = b.at
        BY <1>8, <2>3, BlockFacts
      <3> HIDE DEF m
      <3>3. m \in Block /\ m.at = list[i].at /\ m.size = list[i].size + size + Hdr
        BY <2>1, <3>1, <3>2, HdrPositive, SMTT(20) DEF Block
      <3>4. Limit(m) = list[i].at + Hdr + (list[i].size + size + Hdr)
        BY <3>3 DEF Limit
      <3>5. Limit(m) = b.at + Hdr + size
        BY <2>1, <3>2, <3>4, HdrPositive, SMTT(30)
      <3> QED BY <2>2, <2>3, <3>3, <3>5
    <2>4. CASE ~prev
      <3>1. m = [at |-> b.at, size |-> size]
        BY <2>4
      <3> HIDE DEF m
      <3>2. m \in Block /\ m.at = b.at /\ m.size = size
        BY <1>1, <2>1, <3>1, BlockFacts DEF Block
      <3> QED BY <2>2, <2>4, <3>2 DEF Limit
    <2> QED BY <2>3, <2>4
  <1> HIDE DEF m
  <1>10. ASSUME NEW k \in 1..l PROVE Limit(list[k]) < m.at
    <2>1. CASE prev
      <3>1. k \in 1..Len(list) /\ i \in 1..Len(list) /\ k < i
        BY <1>1, <1>8, <2>1
      <3> QED BY <1>4, <1>9, <2>1, <3>1
    <2>2. CASE ~prev
      <3>1. k \in 1..i /\ k \in 1..Len(list) /\ i \in 1..Len(list) /\ i > 0 /\ m.at = b.at
        BY <1>1, <1>9, <2>2
      <3>2. CASE k = i
        BY <1>1, <1>5, <2>2, <3>1, <3>2, BlockFacts
      <3>3. CASE k < i
        <4>1. Limit(list[k]) < list[i].at /\ list[i].at < b.at
          BY <1>4, <3>1, <3>3 DEF After
        <4> QED BY <1>1, <3>1, <4>1, BlockFacts, SMTT(30)
      <3> QED BY <3>1, <3>2, <3>3
    <2> QED BY <2>1, <2>2
  <1>11. ASSUME NEW k \in r..Len(list) PROVE Limit(m) < list[k].at
    <2>1. CASE next
      <3>1. k \in 1..Len(list) /\ i + 1 \in 1..Len(list) /\ i + 1 < k
        BY <1>1, <1>7, <2>1
      <3> QED BY <1>4, <1>9, <2>1, <3>1
    <2>2. CASE ~next
      <3>1. k \in (i + 1)..Len(list) /\ k \in 1..Len(list) /\ i + 1 \in 1..Len(list) /\ i < Len(list)
            /\ Limit(m) = Limit(b)
        BY <1>1, <1>9, <2>2
      <3>2. CASE k = i + 1
        BY <1>1, <1>6, <2>2, <3>1, <3>2, BlockFacts
      <3>3. CASE i + 1 < k
        <4>1. Limit(b) <= list[i + 1].at /\ Limit(list[i + 1]) < list[k].at
          BY <1>4, <1>6, <3>1, <3>3
        <4> QED BY <1>1, <3>1, <4>1, BlockFacts, SMTT(30)
      <3> QED BY <3>1, <3>2, <3>3
    <2> QED BY <2>1, <2>2
  <1>12. ASSUME NEW c \in used, c # b PROVE Apart(c, m)
    <2>1. c \in Block /\ Apart(c, b) /\ \A k \in 1..Len(list) : Apart(c, list[k])
      BY <1>1, <1>12 DEF Inv, NoOverlap
    <2>2. next => Limit(b) = list[i + 1].at /\ Apart(c, list[i + 1])
      BY <1>7, <2>1
    <2>3. prev => Limit(list[i]) = b.at /\ Apart(c, list[i])
      BY <1>8, <2>1
    <2> HIDE DEF next, prev
    <2> QED BY <1>1, <1>7, <1>8, <1>9, <2>1, <2>2, <2>3, BlockFacts, SMTT(30) DEF Apart
  <1>13. Limit(m) <= core /\ m.at <= b.at /\ Limit(b) <= Limit(m)
    <2>1. Limit(b) <= core /\ \A k \in 1..Len(list) : Limit(list[k]) <= core
      BY DEF Inv, NoOverlap
    <2> QED BY <1>1, <1>7, <1>8, <1>9, <2>1, BlockFacts, SMTT(30)
  <1>14. ASSUME NEW k \in (l + 1)..(r - 1)
         PROVE  m.at <= list[k].at /\ Limit(list[k]) <= Limit(m)
    <2>1. (prev /\ k = i) \/ (next /\ k = i + 1)
      BY <1>1
    <2> QED BY <1>1, <1>7, <1>8, <1>9, <1>13, <2>1, BlockFacts, SMTT(20)
  <1> HIDE DEF l, r
  <1>15. Merged(b, l, r, m)
    BY <1>2, <1>3, <1>9, <1>10, <1>11, <1>12, <1>13, <1>14 DEF Merged
  <1> QED BY <1>15

(* Freeing a block keeps the invariant.                                      *)
LEMMA Freed ==
  ASSUME Inv, NEW b \in used, HeapFree(b)
  PROVE  Inv'
  <1>1. /\ list \in Seq(Block) /\ b \in Block /\ used \subseteq Block /\ core \in 0..CoreSize
        /\ Len(list) \in Nat /\ \A k \in 1..Len(list) : list[k] \in Block
    BY LenProperties DEF Inv, TypeOK
  <1>2. used' = used \ {b} /\ core' = core /\ want' = want
    BY DEF HeapFree
  <1>3. \E l, r, m : Merged(b, l, r, m)
    BY MergeFacts DEF HeapFree
  <1>4. PICK l, r, m : Merged(b, l, r, m)
    BY <1>3
  <1>5. /\ l \in 0..Len(list) /\ r \in (l + 1)..(Len(list) + 1) /\ m \in Block
        /\ list' = Splice(list, l, r, m)
    BY <1>4 DEF Merged
  <1>6. /\ list' \in Seq(Block)
        /\ Len(list') = l + 1 + Len(list) - (r - 1)
        /\ \A k \in 1..l : list'[k] = list[k]
        /\ list'[l + 1] = m
        /\ \A k \in (l + 2)..Len(list') : list'[k] = list[k - l - 1 + r - 1]
    <2>1. Spliced(Splice(list, l, r, m), Block, list, l, r, m)
      BY <1>1, <1>5, SpliceFacts
    <2>2. Spliced(list', Block, list, l, r, m)
      BY <1>5, <2>1
    <2> QED BY <2>2 DEF Spliced
  <1>7. TypeOK'
    BY <1>1, <1>2, <1>6 DEF Inv, TypeOK
  <1>8. \A k \in 1..l : k \in 1..Len(list) /\ Limit(list[k]) < m.at
    BY <1>1, <1>4, <1>5 DEF Merged
  <1>9. \A k \in r..Len(list) : k \in 1..Len(list) /\ Limit(m) < list[k].at
    BY <1>1, <1>4, <1>5 DEF Merged
  <1>10. \A k \in (l + 2)..Len(list') :
           k - l - 1 + r - 1 \in r..Len(list) /\ k - l - 1 + r - 1 \in 1..Len(list)
    BY <1>1, <1>5, <1>6, SMTT(30)
  <1>11. \A k \in 1..Len(list') : k \in 1..l \/ k = l + 1 \/ k \in (l + 2)..Len(list')
    BY <1>1, <1>5, <1>6
  <1>12. FreeListSound'
    <2> SUFFICES ASSUME NEW j \in 1..Len(list'), NEW k \in 1..Len(list'), j < k
                 PROVE  Limit(list'[j]) < list'[k].at
      BY DEF FreeListSound, Limit
    <2>1. CASE j \in 1..l /\ k \in 1..l
      BY <1>6, <1>8, <2>1 DEF Inv, FreeListSound
    <2>2. CASE j \in 1..l /\ k = l + 1
      BY <1>6, <1>8, <2>2
    <2>3. CASE j \in 1..l /\ k \in (l + 2)..Len(list')
      <3>1. Limit(list[j]) < m.at /\ Limit(m) < list[k - l - 1 + r - 1].at
        BY <1>8, <1>9, <1>10, <2>3
      <3>2. list[j] \in Block /\ list[k - l - 1 + r - 1] \in Block
        BY <1>1, <1>8, <1>10, <2>3
      <3>3. Limit(list[j]) < list[k - l - 1 + r - 1].at
        BY <1>5, <3>1, <3>2, BlockFacts, SMTT(30)
      <3> QED BY <1>6, <2>3, <3>3
    <2>4. CASE j = l + 1 /\ k \in (l + 2)..Len(list')
      BY <1>6, <1>9, <1>10, <2>4
    <2>5. CASE j \in (l + 2)..Len(list') /\ k \in (l + 2)..Len(list')
      <3> DEFINE jj == j - l - 1 + r - 1
                 kk == k - l - 1 + r - 1
      <3>1. jj \in 1..Len(list) /\ kk \in 1..Len(list)
        BY <1>10, <2>5
      <3>2. jj < kk
        BY <1>1, <1>5, <2>5
      <3>3. list'[j] = list[jj] /\ list'[k] = list[kk]
        BY <1>6, <2>5
      <3> HIDE DEF jj, kk
      <3> QED BY <3>1, <3>2, <3>3 DEF Inv, FreeListSound
    <2> QED BY <1>1, <1>5, <1>6, <1>11, <2>1, <2>2, <2>3, <2>4, <2>5, SMTT(30)
  <1>13. \A k \in 1..Len(list') : list'[k] = m \/ \E j \in 1..Len(list) : list'[k] = list[j]
    BY <1>6, <1>8, <1>10, <1>11
  <1>14. NoOverlap'
    <2>1. \A c, d \in used' : c # d => Apart(c, d)
      BY <1>2 DEF Inv, NoOverlap
    <2>2. \A c \in used' : Apart(c, m)
      BY <1>2, <1>4 DEF Merged
    <2>3. \A c \in used' : Limit(c) <= core /\ \A k \in 1..Len(list') : Apart(c, list'[k])
      BY <1>2, <1>13, <2>2 DEF Inv, NoOverlap
    <2>4. \A k \in 1..Len(list') : Limit(list'[k]) <= core
      BY <1>4, <1>13 DEF Inv, NoOverlap, Merged
    <2> QED BY <1>2, <2>1, <2>3, <2>4 DEF NoOverlap, Apart, Limit
  <1>15. NothingLost'
    <2> SUFFICES ASSUME NEW x \in 0..(core - 1)
                 PROVE  \/ \E c \in used' : c.at <= x /\ x < Limit(c)
                        \/ \E k \in 1..Len(list') : list'[k].at <= x /\ x < Limit(list'[k])
      BY <1>2 DEF NothingLost, Limit
    <2>1. l + 1 \in 1..Len(list') /\ list'[l + 1] = m
      BY <1>1, <1>5, <1>6
    <2>2. ASSUME NEW y \in Block, y.at <= x, x < Limit(y), m.at <= y.at, Limit(y) <= Limit(m)
          PROVE  m.at <= x /\ x < Limit(m)
      BY <1>1, <1>5, <2>2, BlockFacts, SMTT(30)
    <2>3. ASSUME NEW c \in used, c.at <= x, x < Limit(c)
          PROVE  \/ \E d \in used' : d.at <= x /\ x < Limit(d)
                 \/ \E k \in 1..Len(list') : list'[k].at <= x /\ x < Limit(list'[k])
      <3>1. CASE c # b
        BY <1>2, <2>3, <3>1
      <3>2. CASE c = b
        <4>1. m.at <= b.at /\ Limit(b) <= Limit(m)
          BY <1>4 DEF Merged
        <4> QED BY <1>1, <2>1, <2>2, <2>3, <3>2, <4>1
      <3> QED BY <3>1, <3>2
    <2>4. ASSUME NEW j \in 1..Len(list), list[j].at <= x, x < Limit(list[j])
          PROVE  \E k \in 1..Len(list') : list'[k].at <= x /\ x < Limit(list'[k])
      <3>1. CASE j \in 1..l
        <4>1. j \in 1..Len(list') /\ list'[j] = list[j]
          BY <1>1, <1>5, <1>6, <3>1, SMTT(20)
        <4> QED BY <2>4, <4>1
      <3>2. CASE j \in (l + 1)..(r - 1)
        <4>1. m.at <= list[j].at /\ Limit(list[j]) <= Limit(m)
          BY <1>4, <3>2 DEF Merged
        <4> QED BY <1>1, <2>1, <2>2, <2>4, <4>1
      <3>3. CASE j \in r..Len(list)
        <4> DEFINE k == j + l + 2 - r
        <4>1. k \in 1..Len(list') /\ k \in (l + 2)..Len(list') /\ k - l - 1 + r - 1 = j
          BY <1>1, <1>5, <1>6, <3>3
        <4> HIDE DEF k
        <4>2. list'[k] = list[j]
          BY <1>6, <4>1
        <4> QED BY <2>4, <4>1, <4>2
      <3> QED BY <1>1, <1>5, <3>1, <3>2, <3>3
    <2> QED BY <2>3, <2>4 DEF Inv, NothingLost
  <1> QED BY <1>7, <1>12, <1>14, <1>15 DEF Inv

-----------------------------------------------------------------------------
(* Every step of a thread in the heap keeps the invariant.                   *)
LEMMA NextInv == Inv /\ [Next]_vars => Inv'
  <1> SUFFICES ASSUME Inv, [Next]_vars PROVE Inv'
    OBVIOUS
  <1>0. want \in [Thread -> Request \cup {None}] /\ list \in Seq(Block)
    BY DEF Inv, TypeOK
  <1>1. CASE UNCHANGED vars
    BY <1>1, Zenon DEF vars, Inv, TypeOK, FreeListSound, NoOverlap, NothingLost, Apart, Limit
  <1>2. ASSUME NEW t \in Thread, CoreAlloc(t) PROVE Inv'
    <2>1. want[t] \in Request /\ want' \in [Thread -> Request \cup {None}] /\ list' = list
      BY <1>0, <1>2 DEF CoreAlloc
    <2>2. CASE CoreSize - core < want[t] + Hdr
      BY <1>2, <2>1, <2>2
         DEF CoreAlloc, Inv, TypeOK, FreeListSound, NoOverlap, NothingLost, Apart, Limit
    <2>3. CASE ~(CoreSize - core < want[t] + Hdr)
      <3>1. CoreSize - core >= want[t] + Hdr
        <4>1. core \in Int /\ CoreSize \in Int
          BY SizesNatural DEF Inv, TypeOK
        <4>2. want[t] \in Nat
          BY <2>1, SizesNatural, Zenon
        <4> QED BY <2>3, <4>1, <4>2, HdrPositive
      <3> QED BY <1>2, <2>1, <2>3, <3>1, TakeCore, Zenon DEF CoreAlloc
    <2> QED BY <2>2, <2>3
  <1>3. ASSUME NEW t \in Thread, NEW n \in Request, HeapAlloc(t, n) PROVE Inv'
    <2>1. want' \in [Thread -> Request \cup {None}] /\ core' = core /\ n \in Nat
      BY <1>0, <1>3, SizesNatural DEF HeapAlloc
    <2>2. CASE UNCHANGED <<list, used>>
      BY <2>1, <2>2 DEF Inv, TypeOK, FreeListSound, NoOverlap, NothingLost, Apart, Limit
    <2>3. ASSUME NEW i \in 1..Len(list), TakeFirst(i, n) PROVE Inv'
      <3>1. list[i].size \in Nat
        <4>1. list[i] \in Block
          BY <1>0, LenProperties
        <4> QED BY <4>1, BlockFacts
      <3>2. CASE list[i].size < n + Hdr
        BY <2>1, <2>3, <3>2, TakeWhole DEF TakeFirst
      <3>3. CASE ~(list[i].size < n + Hdr)
        <4>1. list[i].size >= n + Hdr
          BY <2>1, <3>1, <3>3, HdrPositive
        <4> QED BY <2>1, <2>3, <3>3, <4>1, TakePart, Zenon DEF TakeFirst
      <3> QED BY <3>2, <3>3
    <2> QED BY <1>3, <2>2, <2>3 DEF HeapAlloc
  <1> QED BY <1>1, <1>2, <1>3, Freed DEF Next

(* For any number of threads, any sizes and any core memory, the heap of     *)
(* chheap.c never hands out memory twice, keeps its free list in order and   *)
(* merged, and loses no memory.                                              *)
THEOREM HeapSafe == Spec => [](TypeOK /\ HeapSound)
  <1>1. Inv => TypeOK /\ HeapSound
    BY DEF Inv, HeapSound
  <1> QED BY <1>1, InitInv, NextInv, PTL DEF Spec

=============================================================================
