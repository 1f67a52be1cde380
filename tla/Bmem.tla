-------------------------------- MODULE Bmem --------------------------------
(***************************************************************************)
(* The bus memory behind hs_malloc(.., __MT_DMA) and hs_free:              *)
(* os/rt/ports/AndesNx/cmsis_os/bmem.c, reached through lib/mem.           *)
(*                                                                         *)
(* The memory is cut in units, with one bit of a map per unit.  A block is *)
(* a run of units and starts with a header that records its address and    *)
(* its number of units.  Both operations run with the system locked.  The  *)
(* size is an uint32_t in hs_malloc and an uint16_t from lib_bmem_alloc    *)
(* on.                                                                     *)
(***************************************************************************)
EXTENDS Integers, FiniteSets, FiniteSetsExt

CONSTANTS Units,    \* BMEM_BITSIZE
          Unit,     \* BMEM_UNIT
          Hdr,      \* size of a hs_bmem_t
          Narrow,   \* the number of values of the uint16_t size
          Request   \* the sizes hs_malloc is asked for

VARIABLES map,    \* g_u32BMemMap: the units whose bit is set
          blocks  \* the blocks handed out: first unit, units, size asked for

vars == <<map, blocks>>

UnitIds == 0..(Units - 1)

BlockUnits(b) == b.start..(b.start + b.cnt - 1)

Init == map = {} /\ blocks = {}

-----------------------------------------------------------------------------

NoRun == -1

(* Mutant: a unit that is in use does not end the run. *)
ScanRuns(cnt) ==
  LET free == {u \in UnitIds : u \notin map}
  IN IF Cardinality(free) < cnt THEN NoRun ELSE Min(free)

(* The loop of _bmem_alloc: u16Start and u16Idle after each unit, up to the  *)
(* one that completes the run.  A unit in use leaves u16Idle as it is.       *)
Scan(cnt) ==
  LET s[i \in -1..(Units - 1)] ==
        IF i = -1 THEN [start |-> NoRun, idle |-> 0]
        ELSE LET p == s[i - 1]
             IN IF p.idle >= cnt THEN p
                ELSE IF i \in map THEN [p EXCEPT !.start = NoRun]
                ELSE IF p.start = NoRun THEN [start |-> i, idle |-> 1]
                ELSE [p EXCEPT !.idle = @ + 1]
      end == s[Units - 1]
  IN IF end.start = NoRun \/ end.idle < cnt THEN NoRun ELSE end.start

(* Mutant: the header is not counted. *)
CountBare(size) == (size + Unit - 1) \div Unit

Count(size) == (Hdr + size + Unit - 1) \div Unit

(* hs_malloc(n, __MT_DMA)                                                    *)
Malloc(n) ==
  LET size  == n % Narrow
      cnt   == Count(size)
      start == IF size >= Units * Unit THEN NoRun ELSE Scan(cnt)
      b     == [start |-> start, cnt |-> cnt, size |-> n]
  IN IF start = NoRun
       THEN UNCHANGED <<map, blocks>>
       ELSE map' = map \cup BlockUnits(b) /\ blocks' = blocks \cup {b}

(* Mutant: the bit of the last unit stays set. *)
FreeLeaks(b) == /\ map' = map \ (b.start..(b.start + b.cnt - 2))
                /\ blocks' = blocks \ {b}

(* hs_free of a block whose header is intact                                 *)
Free(b) == /\ map' = map \ BlockUnits(b)
           /\ blocks' = blocks \ {b}

Next == (\E n \in Request : Malloc(n)) \/ (\E b \in blocks : Free(b))

Spec == Init /\ [][Next]_vars

-----------------------------------------------------------------------------

(* The map has bits for the units, and a block is a run of them.             *)
TypeOK == /\ map \subseteq UnitIds
          /\ blocks \subseteq [start : UnitIds, cnt : 1..Units, size : Request]

(* A bit of the map is set for exactly the units of the blocks handed out,   *)
(* and no two blocks share a unit: _bmem_alloc takes no unit twice and       *)
(* _bmem_free gives back all of them.                                        *)
MapExact == /\ map = UNION {BlockUnits(b) : b \in blocks}
            /\ \A b, c \in blocks : b # c => BlockUnits(b) \cap BlockUnits(c) = {}

(* A block has room for its header and for what hs_malloc was asked for, if  *)
(* that is a size lib_bmem_alloc can be passed.                              *)
BlockLargeEnough == \A b \in blocks : b.size < Narrow => Hdr + b.size <= b.cnt * Unit

(* One pass over the map finds the first run of free units there is, if      *)
(* there is one, although u16Idle is stale while u16Start is 0xffff.         *)
ScanIsFirstFit ==
  \A cnt \in 1..Units :
    LET runs == {s \in UnitIds : /\ s + cnt <= Units
                                 /\ \A u \in s..(s + cnt - 1) : u \notin map}
    IN Scan(cnt) = IF runs = {} THEN NoRun ELSE Min(runs)

=============================================================================
