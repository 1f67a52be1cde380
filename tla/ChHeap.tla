------------------------------- MODULE ChHeap -------------------------------
(***************************************************************************)
(* The general heap behind hs_malloc and hs_free: os/rt/src/chheap.c, with *)
(* its provider chCoreAlloc of os/rt/src/chmemcore.c.                      *)
(*                                                                         *)
(* A block is a header followed by size units of memory.  Free blocks are  *)
(* in a list; an allocation takes the first that is large enough and       *)
(* splits off what is left, and a block that is freed goes to its place in *)
(* the list and is merged with the blocks around it.  The list is searched *)
(* and changed with the mutex of the heap held.  When no free block is     *)
(* large enough, the mutex is released and memory is taken from the core,  *)
(* which only grows.  Sizes and addresses are in units of the alignment.   *)
(***************************************************************************)
EXTENDS Integers, Sequences

CONSTANTS Thread,
          Hdr,      \* size of a heap_header
          CoreSize, \* size of the core memory
          Request,  \* the sizes that are asked for
          None

ASSUME HdrPositive == Hdr \in Nat \ {0}

ASSUME SizesNatural == CoreSize \in Nat /\ Request \subseteq Nat /\ None \notin Request

VARIABLES list,  \* the free blocks, in list order
          used,  \* the blocks handed out
          core,  \* nextmem
          want   \* per thread: the size chHeapAlloc asks the core for

vars == <<list, used, core, want>>

Block == [at : Nat, size : Nat]

Limit(b) == b.at + Hdr + b.size

Init == /\ list = <<>>
        /\ used = {}
        /\ core = 0
        /\ want = [t \in Thread |-> None]

(* The sequence s with what is after its first l and before r replaced by b. *)
Splice(s, l, r, b) ==
  [k \in 1..(l + 1 + Len(s) - (r - 1)) |->
     IF k <= l THEN s[k] ELSE IF k = l + 1 THEN b ELSE s[k - l - 1 + r - 1]]

Cut(s, i) == [k \in 1..(Len(s) - 1) |-> IF k < i THEN s[k] ELSE s[k + 1]]

-----------------------------------------------------------------------------

Fits(i, n) == list[i].size >= n

FirstFit(i, n) == Fits(i, n) /\ \A k \in 1..(i - 1) : ~Fits(k, n)

(* Mutant: the fragment overlaps the last unit of the block handed out. *)
TakeFirstShort(i, n) ==
  LET b == list[i]
  IN IF b.size < n + Hdr
       THEN list' = Cut(list, i) /\ used' = used \cup {b}
       ELSE /\ list' = [list EXCEPT ![i] = [at |-> Limit(b) - (b.size - n) - 1,
                                            size |-> b.size - n - Hdr + 1]]
            /\ used' = used \cup {[at |-> b.at, size |-> n]}

(* The free block i becomes the block handed out: whole when what is left    *)
(* has no room for a header, its first part otherwise.                       *)
TakeFirst(i, n) ==
  LET b == list[i]
  IN IF b.size < n + Hdr
       THEN list' = Cut(list, i) /\ used' = used \cup {b}
       ELSE /\ list' = [list EXCEPT ![i] = [at |-> b.at + Hdr + n, size |-> b.size - Hdr - n]]
            /\ used' = used \cup {[at |-> b.at, size |-> n]}

(* chHeapAlloc, with the mutex held.                                         *)
HeapAlloc(t, n) ==
  /\ want[t] = None
  /\ \/ /\ \E i \in 1..Len(list) : FirstFit(i, n) /\ TakeFirst(i, n)
        /\ want' = want
     \/ /\ \A i \in 1..Len(list) : ~Fits(i, n)
        /\ want' = [want EXCEPT ![t] = n]
        /\ UNCHANGED <<list, used>>
  /\ core' = core

(* Mutant: the header is left out of the size that must remain. *)
CoreAllocBare(t) ==
  /\ want[t] # None
  /\ IF CoreSize - core < want[t]
       THEN UNCHANGED <<core, used>>
       ELSE /\ core' = core + Hdr + want[t]
            /\ used' = used \cup {[at |-> core, size |-> want[t]]}
  /\ want' = [want EXCEPT ![t] = None]
  /\ list' = list

(* chHeapAlloc goes on without the mutex: chCoreAlloc, which may have no     *)
(* memory left.                                                              *)
CoreAlloc(t) ==
  /\ want[t] # None
  /\ IF CoreSize - core < want[t] + Hdr
       THEN UNCHANGED <<core, used>>
       ELSE /\ core' = core + Hdr + want[t]
            /\ used' = used \cup {[at |-> core, size |-> want[t]]}
  /\ want' = [want EXCEPT ![t] = None]
  /\ list' = list

(* Where chHeapFree inserts: behind the first i blocks.                      *)
After(i, b) == /\ i > 0 => list[i].at < b.at
               /\ i < Len(list) => b.at < list[i + 1].at

(* Mutant: the block is not merged with the one before it. *)
MergeNextOnly(i, b) ==
  LET next == i < Len(list) /\ Limit(b) = list[i + 1].at
      size == b.size + (IF next THEN list[i + 1].size + Hdr ELSE 0)
  IN Splice(list, i, IF next THEN i + 2 ELSE i + 1, [at |-> b.at, size |-> size])

(* Mutant: the header of the block merged into the one before is lost. *)
MergeDropsHeader(i, b) ==
  LET next == i < Len(list) /\ Limit(b) = list[i + 1].at
      prev == i > 0 /\ Limit(list[i]) = b.at
      size == b.size + (IF next THEN list[i + 1].size + Hdr ELSE 0)
      r    == IF next THEN i + 2 ELSE i + 1
  IN IF prev
       THEN Splice(list, i - 1, r, [at |-> list[i].at, size |-> list[i].size + size])
       ELSE Splice(list, i, r, [at |-> b.at, size |-> size])

(* The block is merged with the next one and with the one before it, if they *)
(* meet.                                                                     *)
Merge(i, b) ==
  LET next == i < Len(list) /\ Limit(b) = list[i + 1].at
      prev == i > 0 /\ Limit(list[i]) = b.at
      size == b.size + (IF next THEN list[i + 1].size + Hdr ELSE 0)
      r    == IF next THEN i + 2 ELSE i + 1
  IN IF prev
       THEN Splice(list, i - 1, r, [at |-> list[i].at, size |-> list[i].size + size + Hdr])
       ELSE Splice(list, i, r, [at |-> b.at, size |-> size])

(* chHeapFree                                                                *)
HeapFree(b) ==
  /\ \E i \in 0..Len(list) : /\ After(i, b)
                             /\ \A k \in 0..(i - 1) : ~After(k, b)
                             /\ list' = Merge(i, b)
  /\ used' = used \ {b}
  /\ UNCHANGED <<core, want>>

Next == \/ \E t \in Thread : CoreAlloc(t) \/ \E n \in Request : HeapAlloc(t, n)
        \/ \E b \in used : HeapFree(b)

Spec == Init /\ [][Next]_vars

-----------------------------------------------------------------------------

(* The free list, the blocks handed out and the pending requests are well    *)
(* formed, and all memory is below nextmem.                                  *)
TypeOK == /\ list \in Seq(Block)
          /\ used \subseteq Block
          /\ core \in 0..CoreSize
          /\ want \in [Thread -> Request \cup {None}]

(* The free list is in address order and free blocks neither overlap nor     *)
(* meet: chHeapFree leaves no two neighbours unmerged, and its search for    *)
(* the place of a block ends.                                                *)
FreeListSound ==
  \A i, j \in 1..Len(list) : i < j => Limit(list[i]) < list[j].at

Apart(a, b) == Limit(a) <= b.at \/ Limit(b) <= a.at

(* chHeapAlloc never hands out memory that is in use or free: headers        *)
(* included, no two blocks overlap, and none reaches past nextmem.  So the   *)
(* assertion "within free block" of chHeapFree holds.                        *)
NoOverlap ==
  /\ \A a, b \in used : a # b => Apart(a, b)
  /\ \A a \in used : Limit(a) <= core /\ \A i \in 1..Len(list) : Apart(a, list[i])
  /\ \A i \in 1..Len(list) : Limit(list[i]) <= core

(* No memory is lost: whatever the core gave is in a free block or in one    *)
(* that is handed out, so that freeing everything leaves one free block.     *)
NothingLost ==
  \A x \in 0..(core - 1) :
    \/ \E b \in used : b.at <= x /\ x < Limit(b)
    \/ \E i \in 1..Len(list) : list[i].at <= x /\ x < Limit(list[i])

(* What chHeapAlloc and chHeapFree keep for each other: the free list is     *)
(* sorted and merged, no two blocks overlap and no memory is lost.           *)
HeapSound == FreeListSound /\ NoOverlap /\ NothingLost

=============================================================================
