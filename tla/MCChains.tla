------------------------------ MODULE MCChains ------------------------------
(***************************************************************************)
(* What is found by following a chain, side by side: the clusters of a     *)
(* file on a disk, and the cached blocks under the configuration's items.  *)
(* They have no variable in common: part says which one runs.              *)
(***************************************************************************)
EXTENDS FatFs, TLC

CONSTANTS Thread, NBlocks, BlockSize, FetchOnce, MaxOff, MaxAllocs

VARIABLES part,
          flash, list, layout, set, want, kept

itemVars == <<flash, list, layout, set, want, kept>>

(* A file of two clusters and one of one, on a disk of three.                *)
MCMaxSize == [n \in Name |-> IF n = "a" THEN 2 ELSE 1]

(* One item, in one block; or two items in the first block, one of them      *)
(* read-only, and one in the second.                                         *)
MCInside == {[a |-> [addr |-> 0, len |-> 2, readOnly |-> FALSE]],
             [a |-> [addr |-> 0, len |-> 1, readOnly |-> FALSE],
              b |-> [addr |-> 3, len |-> 1, readOnly |-> TRUE],
              c |-> [addr |-> 6, len |-> 1, readOnly |-> FALSE]]}

IT == INSTANCE CfgItem WITH Layouts <- MCInside, call <- set

ChainsInit ==
  /\ part \in {"fat", "item"}
  /\ Init /\ (part # "fat" => v.info)
  /\ IT!Init /\ (part # "item" => DOMAIN layout = {"a"})

ChainsNext ==
  \/ part = "fat" /\ Next /\ UNCHANGED <<part, itemVars>>
  \/ part = "item" /\ IT!Next /\ UNCHANGED <<part, vars>>

ChainsSpec == ChainsInit /\ [][ChainsNext]_<<part, vars, itemVars>>

Symmetry == Permutations(Thread)

-----------------------------------------------------------------------------

(* The type invariant of the file system: among others, a sector differs     *)
(* from the disk only in the window.                                         *)
ChainsTypeOK == part = "fat" => TypeOK

(* Whenever power or card goes, what is on the disk is a sound file system   *)
(* and files hold their own data, f_truncate excepted; without a crash no    *)
(* cluster is lost and free_clust is right.                                  *)
VolumeSound == part = "fat" => DiskSound /\ DataSafe /\ NoneLost

(* What hs_cfg_setDataByIndex has set is what hs_cfg_getDataByIndex returns, *)
(* after flushes and restarts too.                                           *)
SetThenGet == part = "item" => IT!SetThenGet

=============================================================================
