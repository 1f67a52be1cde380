------------------------------ MODULE CfgItem ------------------------------
(***************************************************************************)
(* Configuration items over the cache: lib/config/cfg_main.c.              *)
(*                                                                         *)
(* An item is a header (u32Tag, the byte sum of the data, and u32Len)      *)
(* followed by its data.  hs_cfg_getDataByIndex refuses an item whose tag  *)
(* does not match its data; hs_cfg_setDataByIndex writes data, recomputes  *)
(* the tag from what it reads back and writes the header.  All of this     *)
(* happens with the semaphore held (hs_cfg_lock), except that a set reads  *)
(* the header before it takes the semaphore.                               *)
(***************************************************************************)
EXTENDS CfgCache, FiniteSets

CONSTANTS Thread,
          Layouts,    \* how items may lie in the configuration area
          FetchOnce,  \* __CFG_FETCH_ONCE, in cells
          MaxOff,     \* bound: offsets a set is tried at
          MaxAllocs   \* bound: allocations of one set that succeed

VARIABLES layout, \* per item: address of the header, length, attribute; never changes
          call,   \* per thread: the set it has begun, with the length it read
          want,   \* history, per item: the data its sets left, Torn after a
                  \* set that failed
          kept    \* history, per item: want when it was last written back

vars == <<flash, list, layout, call, want, kept>>

HeaderLen == 2

DataAddr(i) == layout[i].addr + HeaderLen

Bit == {0, 1}

None == [item |-> "none"]

Torn == <<>>

RECURSIVE Sum(_)
Sum(s) == IF s = <<>> THEN 0 ELSE Head(s) + Sum(Tail(s))

-----------------------------------------------------------------------------

RECURSIVE SumFrom(_, _, _)

(* The byte sum of len cells, read in chunks of FetchOnce.                   *)
SumFrom(l, addr, len) ==
  LET n == IF len > FetchOnce THEN FetchOnce ELSE len
  IN IF len = 0 THEN 0 ELSE Sum(CacheRead(l, addr, n)) + SumFrom(l, addr + n, len - n)

(* _cfg_chkData                                                              *)
ChkData(l, hdr, addr) == hdr[1] = SumFrom(l, addr, hdr[2])

(* hs_cfg_getPartDataByIndex of n cells from off; hs_cfg_getDataByIndex      *)
(* reads from 0.                                                             *)
GetData(i, off, n) ==
  LET hdr == CacheRead(list, layout[i].addr, HeaderLen)
  IN IF ~ChkData(list, hdr, DataAddr(i))
       THEN [res |-> "error"]
       ELSE [res |-> "ok", data |-> CacheRead(list, DataAddr(i) + off, n)]

-----------------------------------------------------------------------------

Init ==
  /\ layout \in Layouts
  /\ flash = [a \in Addr |-> IF \E i \in DOMAIN layout : a = layout[i].addr + 1
                              THEN layout[CHOOSE i \in DOMAIN layout : a = layout[i].addr + 1].len
                              ELSE 0]
  /\ list = <<>>
  /\ call = [t \in Thread |-> None]
  /\ want = [i \in DOMAIN layout |-> [k \in 1..layout[i].len |-> 0]]
  /\ kept = want

(* hs_cfg_setDataByIndex up to the lock: the attribute, the header and the   *)
(* length are checked; a set that fails a check returns with nothing done.   *)
(* Of the header only the length is used later: _cfg_setChkData overwrites   *)
(* the tag.  Which of the offsets and data that fit are set shows once the   *)
(* lock is held.                                                             *)
BeginSet(t, i) ==
  LET hdr == CacheRead(list, layout[i].addr, HeaderLen)
  IN /\ call[t] = None
     /\ ~layout[i].readOnly
     /\ hdr[2] > 0
     /\ call' = [call EXCEPT ![t] = [item |-> i, len |-> hdr[2]]]
     /\ UNCHANGED <<flash, list, want, kept>>

(* What a set of buf at off makes of the data of item i, if it has data to   *)
(* start from.                                                               *)
Patched(i, off, buf) ==
  LET old == CacheRead(list, DataAddr(i), layout[i].len)
  IN [k \in DOMAIN old |-> IF k - off \in DOMAIN buf THEN buf[k - off] ELSE old[k]]

(* One or two cells, not more than n.                                        *)
Buffers(n) == UNION {[1..k -> Bit] : k \in {1, 2} \cap 1..n}

(* Mutant: the tag is computed before the data is written.                  *)
LockedSetStaleTag(t, allocs) ==
  /\ call[t] # None
  /\ \E off \in 0..MaxOff : \E buf \in Buffers(call[t].len - off) :
       LET i   == call[t].item
           hdr == <<SumFrom(list, DataAddr(i), call[t].len), call[t].len>>
           w1  == CacheWrite(list, DataAddr(i) + off, buf, allocs)
       IN /\ list' = CacheWrite(w1.list, layout[i].addr, hdr, allocs).list
          /\ want' = [want EXCEPT ![i] = Patched(i, off, buf)]
  /\ call' = [call EXCEPT ![t] = None]
  /\ UNCHANGED <<flash, kept>>

(* The rest of it, with the lock held.  Memory is allocated for cached       *)
(* blocks of the data, for the buffer of _cfg_setChkData, and for a cached   *)
(* block of the header; after that many, an allocation fails and the set     *)
(* returns with the item half changed.                                       *)
LockedSet(t, allocs) ==
  /\ call[t] # None
  /\ \E off \in 0..MaxOff : \E buf \in Buffers(call[t].len - off) :
       LET i    == call[t].item
           w1   == CacheWrite(list, DataAddr(i) + off, buf, allocs)
           left == allocs - (Len(w1.list) - Len(list))
           bad  == w1.buf # <<>> \/ left = 0
           hdr  == <<SumFrom(w1.list, DataAddr(i), call[t].len), call[t].len>>
           w2   == CacheWrite(w1.list, layout[i].addr, hdr, left - 1)
       IN /\ list' = IF bad THEN w1.list ELSE w2.list
          /\ want' = [want EXCEPT ![i] = IF bad \/ w2.buf # <<>> THEN Torn ELSE Patched(i, off, buf)]
  /\ call' = [call EXCEPT ![t] = None]
  /\ UNCHANGED <<flash, kept>>

(* hs_cfg_flush                                                              *)
Flush ==
  /\ FlushOne \/ FlushAll
  /\ LET gone == {list[k].phy : k \in 1..(Len(list) - Len(list'))}
     IN kept' = [i \in DOMAIN layout |-> IF BlockBase(layout[i].addr) \in gone
                                  THEN want[i] ELSE kept[i]]
  /\ UNCHANGED <<call, want>>

(* Loss of power: the threads start over with what was written back.         *)
Reboot == /\ PowerLoss
          /\ call' = [t \in Thread |-> None]
          /\ want' = kept
          /\ kept' = kept

Next ==
  /\ \/ \E t \in Thread, i \in DOMAIN layout : BeginSet(t, i)
     \/ \E t \in Thread, allocs \in 0..MaxAllocs : LockedSet(t, allocs)
     \/ Flush
     \/ Reboot
  /\ layout' = layout

Spec == Init /\ [][Next]_vars

-----------------------------------------------------------------------------

(* After a hs_cfg_setDataByIndex that returned HS_CFG_OK, and until one that *)
(* fails, hs_cfg_getDataByIndex accepts the item and returns what the sets   *)
(* left in it, whatever was flushed meanwhile and whatever failed before.    *)
(* After a loss of power it returns what was flushed.                        *)
SetThenGet ==
  \A i \in DOMAIN layout : want[i] # Torn =>
     GetData(i, 0, layout[i].len) = [res |-> "ok", data |-> want[i]]

=============================================================================
