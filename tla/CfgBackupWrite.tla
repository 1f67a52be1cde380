------------------------- MODULE CfgBackupWrite -------------------------
(***************************************************************************)
(* Crash-safe write-back of the configuration flash.                       *)
(*                                                                         *)
(* lib/config/base/cfg_cachemem.c keeps dirty 4K blocks of the             *)
(* configuration area in a linked list of RAM copies (g_pstCacheMem) and   *)
(* writes a block back through a two-sector backup area: the copy goes to  *)
(* the backup data sector, a checksummed record naming the block goes to   *)
(* the backup info sector, and only then is the block itself erased and    *)
(* programmed.  _cfg_cachemem_restore repeats an interrupted write at boot *)
(* or after a failed flush.                                                *)
(*                                                                         *)
(* Block contents are opaque here; CfgCache models the bytes.  Every       *)
(* operation holds the semaphore g_pstSemId from beginning to end, so at   *)
(* most one is in progress: pc is the next step of the one that is, and    *)
(* "idle" when the semaphore is free.  Power may be lost at any step.      *)
(***************************************************************************)
EXTENDS Naturals, Sequences

CONSTANTS Block,      \* the 4K blocks of the configuration area
          Content,    \* what one block can hold
          Info, Data, \* the two sectors of the backup area
          Blank,      \* an erased sector
          Junk,       \* a zeroed, half-erased or half-programmed sector
          NoBkw,      \* restore holds no backup record
          HeapReuse   \* may another thread reuse a list node the moment it
                      \* is freed?

ASSUME AreasDiffer == Info \notin Block /\ Data \notin Block /\ Info # Data

ASSUME ValuesDiffer == /\ Block \cap Content = {}
                       /\ {Blank, Junk} \cap (Block \cup Content) = {}
                       /\ Blank # Junk
                       /\ NoBkw \notin [addr : Block, data : Content \cup {Blank, Junk}]

ASSUME HeapReuseType == HeapReuse \in BOOLEAN

VARIABLES nor,     \* the flash: the blocks and the two backup sectors
          list,    \* u32PhyAddr of the nodes of g_pstCacheMem, head first
          vt,      \* u8VtCache of the node that caches a block
          pc,      \* the next step of the operation holding g_pstSemId
          type,    \* the flush type the running hs_cfg_flush was given
          bkw,     \* stBkwInfo and pu8BackPtr of the running restore
          ret,     \* what the last hs_cfg_flush returned, "none" since a write
          health,  \* "pending": the last restore failed; "lost": a flush
                   \* was started while it was pending
          latest   \* history: what the last write to each block left in it

vars == <<nor, list, vt, pc, type, bkw, ret, health, latest>>

Cached == {list[i] : i \in 1..Len(list)}

Blockwr == {"eraseInfo", "eraseData", "writeData", "writeInfo",
            "eraseTarget", "writeTarget", "zeroInfo", "unlink"}

Restore == {"check", "rsErase", "rsWrite", "rsClear", "rsZero"}

Held == Content \cup {Blank, Junk}

-----------------------------------------------------------------------------
(* The serial flash: an erase blanks a sector, programming a sector that is *)
(* not blank leaves a mixture, programming zeros always ends in zeros.      *)

Erased(a) == [nor EXCEPT ![a] = Blank]

Programmed(a, v) == [nor EXCEPT ![a] = IF nor[a] = Blank THEN v ELSE Junk]

Zeroed(a) == [nor EXCEPT ![a] = Junk]

(* What the next boot makes of block b: the backup when a valid record names *)
(* it, the block itself otherwise.                                           *)
Stable(b) == IF nor[Info] = b THEN nor[Data] ELSE nor[b]

(* hs_cfg_read of a whole block.                                            *)
ReadOf(b) == IF b \in Cached THEN vt[b] ELSE nor[b]

-----------------------------------------------------------------------------

Init ==
  /\ nor \in [Block \cup {Info, Data} -> Held]
  /\ \A b \in Block : nor[b] \in Content
  /\ nor[Info] = Blank /\ nor[Data] = Blank
  /\ list = <<>>
  /\ vt \in [Block -> {Junk}]
  /\ pc = "check"
  /\ type = "one"
  /\ bkw = NoBkw
  /\ ret = "none"
  /\ health = "ok"
  /\ latest = [b \in Block |-> nor[b]]

(* Mutant: a block already cached is appended again. *)
WriteAppendsAlways(b, c) ==
  /\ pc = "idle"
  /\ list' = Append(list, b)
  /\ Len(list) < 3
  /\ vt' = [vt EXCEPT ![b] = c]
  /\ latest' = [latest EXCEPT ![b] = c]
  /\ ret' = "none"
  /\ UNCHANGED <<nor, pc, type, bkw, health>>

(* hs_cfg_write of bytes within block b that turns its content into c.  A    *)
(* block not yet cached is first read from the flash and appended; bytes     *)
(* added to a damaged block leave it damaged.  A failed allocation changes   *)
(* nothing.                                                                  *)
Write(b, c) ==
  LET v == IF ReadOf(b) \in Content THEN c ELSE Junk
  IN /\ pc = "idle"
     /\ list' = IF b \in Cached THEN list ELSE Append(list, b)
     /\ vt' = [vt EXCEPT ![b] = v]
     /\ latest' = [latest EXCEPT ![b] = v]
     /\ ret' = "none"
     /\ UNCHANGED <<nor, pc, type, bkw, health>>

(* hs_cfg_flush takes the semaphore; an empty list is flushed already.       *)
Flush(t) ==
  /\ pc = "idle"
  /\ IF list = <<>>
       THEN /\ ret' = "ok"
            /\ UNCHANGED <<pc, health>>
       ELSE /\ pc' = "eraseInfo"
            /\ ret' = "none"
            /\ health' = IF health = "ok" THEN "ok" ELSE "lost"
  /\ type' = t
  /\ UNCHANGED <<nor, list, vt, bkw, latest>>

-----------------------------------------------------------------------------
(* _cfg_cachemem_blockwr of the head of the list.  A flash write fails       *)
(* before it touches the flash when hs_cfg_halWrite gets no buffer; the      *)
(* flush then goes on to restore.                                            *)

Step(from, to, flash) ==
  /\ pc = from
  /\ pc' = to
  /\ nor' = flash
  /\ UNCHANGED <<list, vt, type, bkw, ret, health, latest>>

WriteFails ==
  /\ pc \in {"writeData", "writeInfo", "writeTarget", "zeroInfo"}
  /\ pc' = "check"
  /\ ret' = "error"
  /\ UNCHANGED <<nor, list, vt, type, bkw, health, latest>>

(* Mutant: the info sector is not erased before it is programmed. *)
BwEraseInfoSkipped == Step("eraseInfo", "eraseData", nor)

BwEraseInfo == Step("eraseInfo", "eraseData", Erased(Info))

BwEraseData == Step("eraseData", "writeData", Erased(Data))

(* Mutant: the data is that of the last node, not of the one written back. *)
BwWriteDataLast ==
  Step("writeData", "writeInfo", Programmed(Data, vt[list[Len(list)]]))

BwWriteData ==
  Step("writeData", "writeInfo", Programmed(Data, vt[Head(list)]))

BwWriteInfo == Step("writeInfo", "eraseTarget", Programmed(Info, Head(list)))

BwEraseTarget == Step("eraseTarget", "writeTarget", Erased(Head(list)))

BwWriteTarget ==
  Step("writeTarget", "zeroInfo", Programmed(Head(list), vt[Head(list)]))

BwZeroInfo == Step("zeroInfo", "unlink", Zeroed(Info))

(* Mutant: a flush of everything stops after the first block. *)
UnlinkStops ==
  /\ pc = "unlink"
  /\ list' = Tail(list)
  /\ pc' = "idle" /\ ret' = "ok"
  /\ UNCHANGED <<nor, vt, type, bkw, health, latest>>

(* The rest of _cfg_cachemem_cleanunit frees the node and then reads its     *)
(* successor from it.  An allocation by another thread in between may have   *)
(* zeroed the node, and the list ends there.  _cfg_cachemem_cleanall goes    *)
(* on with the next block.                                                   *)
Unlink ==
  /\ pc = "unlink"
  /\ list' \in {Tail(list)} \cup (IF HeapReuse THEN {<<>>} ELSE {})
  /\ IF type = "all" /\ list' # <<>>
       THEN pc' = "eraseInfo" /\ ret' = ret
       ELSE pc' = "idle" /\ ret' = "ok"
  /\ UNCHANGED <<nor, vt, type, bkw, health, latest>>

-----------------------------------------------------------------------------
(* _cfg_cachemem_restore, at boot and after a failed flush.                  *)

RestoreReturns(ok) ==
  /\ pc' = "idle"
  /\ bkw' = NoBkw
  /\ health' = IF health = "lost" THEN "lost" ELSE IF ok THEN "ok" ELSE "pending"
  /\ UNCHANGED <<list, vt, type, ret, latest>>

(* Mutant: restore never recognises the backup record. *)
RsCheckIgnores ==
  /\ pc = "check"
  /\ RestoreReturns(TRUE)
  /\ nor' = nor

RsCheck ==
  /\ pc = "check"
  /\ IF nor[Info] \in Block
       THEN /\ pc' = "rsErase"
            /\ bkw' = [addr |-> nor[Info], data |-> nor[Data]]
            /\ UNCHANGED <<list, vt, type, ret, health, latest>>
       ELSE RestoreReturns(TRUE)
  /\ nor' = nor

RsErase == Step("rsErase", "rsWrite", Erased(bkw.addr))

RsWrite == Step("rsWrite", "rsClear", Programmed(bkw.addr, bkw.data))

RsClear == Step("rsClear", "rsZero", Erased(Info))

RsZero ==
  /\ pc = "rsZero"
  /\ nor' = Zeroed(Info)
  /\ RestoreReturns(TRUE)

(* Mutant: a restore that fails is tried again. *)
RsFailsRetries ==
  /\ pc \in {"rsWrite", "rsZero"}
  /\ pc' = "check"
  /\ bkw' = NoBkw
  /\ UNCHANGED <<nor, list, vt, type, ret, health, latest>>

(* No buffer for the backup, or for one of the two flash writes.             *)
RsFails ==
  /\ \/ pc = "check" /\ nor[Info] \in Block
     \/ pc \in {"rsWrite", "rsZero"}
  /\ nor' = nor
  /\ RestoreReturns(FALSE)

-----------------------------------------------------------------------------
(* Loss of power: the sector being erased or programmed is left damaged, RAM *)
(* is gone, and hs_cfg_Init runs restore at the next boot.                   *)

InProgress ==
  CASE pc \in {"eraseInfo", "writeInfo", "zeroInfo", "rsClear", "rsZero"} -> {Info}
    [] pc \in {"eraseData", "writeData"} -> {Data}
    [] pc \in {"eraseTarget", "writeTarget"} -> {Head(list)}
    [] pc \in {"rsErase", "rsWrite"} -> {bkw.addr}
    [] OTHER -> {}

PowerLoss ==
  /\ nor' \in {nor} \cup {[nor EXCEPT ![a] = Junk] : a \in InProgress}
  /\ list' = <<>>
  /\ vt' = [b \in Block |-> Junk]
  /\ pc' = "check"
  /\ type' = "one"
  /\ bkw' = NoBkw
  /\ ret' = "none"
  /\ health' = health
  /\ latest' = [b \in Block |-> Stable(b)']

-----------------------------------------------------------------------------

FlushStep == \/ BwEraseInfo \/ BwEraseData \/ BwWriteData \/ BwWriteInfo
             \/ BwEraseTarget \/ BwWriteTarget \/ BwZeroInfo \/ Unlink
             \/ WriteFails

RestoreStep == RsCheck \/ RsErase \/ RsWrite \/ RsClear \/ RsZero \/ RsFails

Next == \/ \E b \in Block, c \in Content : Write(b, c)
        \/ \E t \in {"one", "all"} : Flush(t)
        \/ FlushStep
        \/ RestoreStep
        \/ PowerLoss

Spec == Init /\ [][Next]_vars

(* The thread that holds the semaphore keeps running: nothing in these steps *)
(* waits for another thread.  Power is lost only finitely often.             *)
FairSpec == /\ Spec
            /\ WF_vars(FlushStep \/ RestoreStep)
            /\ <>[][~PowerLoss]_vars

-----------------------------------------------------------------------------

(* Every variable keeps to the values the code gives it; the list has no     *)
(* block twice and is not empty while its head is being written back.        *)
TypeOK ==
  /\ nor \in [Block \cup {Info, Data} -> Block \cup Held]
  /\ nor[Info] \in Block \cup {Blank, Junk}
  /\ \A a \in Block \cup {Data} : nor[a] \in Held
  /\ list \in Seq(Block)
  /\ \A i, j \in 1..Len(list) : list[i] = list[j] => i = j
  /\ vt \in [Block -> Content \cup {Junk}]
  /\ pc \in {"idle"} \cup Blockwr \cup Restore
  /\ pc \in Blockwr => list # <<>>
  /\ type \in {"one", "all"}
  /\ bkw \in [addr : Block, data : Held] \cup {NoBkw}
  /\ bkw = NoBkw <=> pc \notin Restore \ {"check"}
  /\ ret \in {"none", "ok", "error"}
  /\ health \in {"ok", "pending", "lost"}
  /\ latest \in [Block -> Held]

(* Whatever step power fails at, the next boot can rebuild every block of    *)
(* the configuration whole, as long as no hs_cfg_flush was started after a   *)
(* restore that had failed.                                                  *)
Recoverable == health # "lost" => \A b \in Block : Stable(b) \in Content

(* Whenever the semaphore is free and the last restore did not fail,         *)
(* hs_cfg_read returns what the last hs_cfg_write left, never a block that a *)
(* write-back has erased or only half written.                               *)
ReadsLatest ==
  pc = "idle" /\ health = "ok" => \A b \in Block : ReadOf(b) = latest[b]

(* When hs_cfg_flush(FLUSH_TYPE_ALL) has returned HS_CFG_OK, everything      *)
(* written before it survives a loss of power.                               *)
FlushAllDurable ==
  pc = "idle" /\ ret = "ok" /\ type = "all" /\ health # "lost"
     => \A b \in Block : Stable(b) = latest[b]

(* The cache is coherent: reads return what was written last, before and     *)
(* after write-backs, and a flush of everything that succeeded is durable.   *)
Coherent == ReadsLatest /\ FlushAllDurable

(* The write-back protocol implements the store: a block becomes stable in   *)
(* one step, when its backup record is complete, and no other step, failed   *)
(* write or loss of power changes what is stable.                            *)
Store == INSTANCE CfgStore WITH view <- latest,
                                stable <- [b \in Block |-> Stable(b)],
                                status <- health

(* CfgBackupWrite implements CfgStore under this mapping.                    *)
ImplementsStore == Store!Spec

(* The semaphore is always released again: a flush and the restore after it  *)
(* end, whatever writes fail on the way.                                     *)
SemReleased == []<>(pc = "idle")

=============================================================================
