----------------------------- MODULE CfgCache -----------------------------
(***************************************************************************)
(* The write-back cache of the configuration flash, byte by byte.          *)
(*                                                                         *)
(* lib/config/base/cfg_cachemem.c serves reads and writes of any offset    *)
(* and length from a list of cached blocks: each pass walks the list once  *)
(* from its head, copies what it hits and moves the offset on; what is     *)
(* left at the end of the list is taken from the flash (read) or cached in *)
(* a new block at the tail (write), and another pass follows.  A block is  *)
(* written back whole; CfgBackupWrite shows that this step is atomic.      *)
(***************************************************************************)
EXTENDS Integers, Sequences

CONSTANTS NBlocks,    \* blocks of the configuration area
          BlockSize   \* CFG_CACHEBK_SIZE, in cells

VARIABLES flash,  \* the configuration area on the serial flash
          list    \* g_pstCacheMem: u32PhyAddr and u8VtCache, head first

Addr == 0..(NBlocks * BlockSize - 1)

Offsets == 0..(BlockSize - 1)

BlockBase(a) == (a \div BlockSize) * BlockSize

(* Bytes of [off, off + len) up to the end of the block that holds off.      *)
LenInBlock(off, len) ==
  IF BlockBase(off) + BlockSize < off + len THEN BlockBase(off) + BlockSize - off ELSE len

(* hs_cfg_halRead of n cells, and of one block.                              *)
HalRead(off, n) == [k \in 1..n |-> flash[off + k - 1]]

HalBlock(phy) == [k \in Offsets |-> flash[phy + k]]

-----------------------------------------------------------------------------

(* How much of [off, off + len) the node holds from off on.                  *)
SearchHit(node, off, len) ==
  IF node.phy <= off /\ off <= node.phy + BlockSize
    THEN IF off + len <= node.phy + BlockSize THEN len ELSE node.phy + BlockSize - off
    ELSE 0

(* The first n cells of buf copied into a cached block at offset off.        *)
CopyIn(node, off, buf, n) ==
  [node EXCEPT !.vt = [k \in Offsets |->
     IF node.phy + k \in off..(off + n - 1) THEN buf[node.phy + k - off + 1] ELSE @[k]]]

Rest(buf, n) == SubSeq(buf, n + 1, Len(buf))

(* A block brought into the cache.                                           *)
NewNode(phy) == [phy |-> phy, vt |-> HalBlock(phy)]

RECURSIVE WriteFrom(_, _, _)

(* _cfg_cachemem_write at node i of the list: a hit is copied in and the     *)
(* walk goes on; past the end a block is added for what is left, and the     *)
(* walk starts over.  The (allocs+1)-th allocation of a block fails.         *)
WriteFrom(i, w, allocs) ==
  IF i <= Len(w.list)
    THEN LET n == SearchHit(w.list[i], w.off, Len(w.buf))
         IN WriteFrom(i + 1,
              IF n = 0 THEN w
              ELSE [list |-> [w.list EXCEPT ![i] = CopyIn(@, w.off, w.buf, n)],
                    off |-> w.off + n, buf |-> Rest(w.buf, n)],
              allocs)
  ELSE IF w.buf = <<>> \/ allocs = 0 THEN w
  ELSE LET n    == LenInBlock(w.off, Len(w.buf))
           node == CopyIn(NewNode(BlockBase(w.off)), w.off, w.buf, n)
           q    == [list |-> Append(w.list, node), off |-> w.off + n, buf |-> Rest(w.buf, n)]
       IN IF q.buf = <<>> THEN q ELSE WriteFrom(1, q, allocs - 1)

CacheWrite(l, off, buf, allocs) == WriteFrom(1, [list |-> l, off |-> off, buf |-> buf], allocs)

RECURSIVE ReadFrom(_, _, _)

(* hs_cfg_readS at node i of the list l; past the end the block comes from   *)
(* the flash.                                                                *)
ReadFrom(l, i, r) ==
  IF i <= Len(l)
    THEN LET n == SearchHit(l[i], r.off, r.len)
         IN ReadFrom(l, i + 1,
              [got |-> r.got \o [k \in 1..n |-> l[i].vt[r.off + k - 1 - l[i].phy]],
               off |-> r.off + n, len |-> r.len - n])
  ELSE IF r.len = 0 THEN r.got
  ELSE LET n == LenInBlock(r.off, r.len)
       IN ReadFrom(l, 1, [got |-> r.got \o HalRead(r.off, n),
                          off |-> r.off + n, len |-> r.len - n])

(* hs_cfg_readS                                                              *)
CacheRead(l, off, len) ==
  IF l = <<>> THEN HalRead(off, len) ELSE ReadFrom(l, 1, [got |-> <<>>, off |-> off, len |-> len])

-----------------------------------------------------------------------------

(* Block write-back of the first n nodes: a later one overwrites an earlier. *)
Stored(n) ==
  [a \in Addr |->
     LET held == {i \in 1..n : a - list[i].phy \in Offsets}
         last == CHOOSE i \in held : \A j \in held : j <= i
     IN IF held = {} THEN flash[a] ELSE list[last].vt[a - list[last].phy]]

(* _cfg_cachemem_cleanunit                                                   *)
FlushOne == /\ list # <<>>
            /\ flash' = Stored(1)
            /\ list' = Tail(list)

(* _cfg_cachemem_cleanall                                                    *)
FlushAll == /\ list # <<>>
            /\ flash' = Stored(Len(list))
            /\ list' = <<>>

(* Loss of power takes the cache with it.                                    *)
PowerLoss == /\ flash' = flash
             /\ list' = <<>>

=============================================================================
