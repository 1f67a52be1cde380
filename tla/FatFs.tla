------------------------------- MODULE FatFs --------------------------------
(***************************************************************************)
(* The file system of SD cards and USB disks, lib/fatfs/src/ff.c, on a     *)
(* volume from which power or card may go at any disk access.  The volume  *)
(* is FAT32 with FSINFO, or FAT16; a FAT16 volume has less room, and is    *)
(* mounted again after its first crash.                                    *)
(*                                                                         *)
(* Files are counted in clusters, and a write fills one cluster.  There is *)
(* one directory sector, the FAT has two, and one window (fs->win) holds   *)
(* the sector in use; what it holds reaches the disk when the window moves *)
(* or is flushed.  Calls exclude each other (ENTER_FF), so a call is one   *)
(* action; its disk accesses are logged, and a crash keeps some of them.   *)
(***************************************************************************)
EXTENDS Integers, Sequences, FiniteSets, SequencesExt

CONSTANTS Name,     \* the files; each has a slot in the directory
          NFat,     \* n_fatent: clusters are 2 .. NFat - 1
          Split,    \* the first cluster in the second sector of the FAT
          MaxSize,  \* per file: bound on its size
          NotOpen

Cluster == 2 .. NFat - 1
Eoc == 1000  \* a FAT entry that ends a chain, 0x0FFFFFFF
Unknown == -1     \* free_clust: 0xFFFFFFFF

VARIABLES v,        \* the mounted volume: FATFS and what the disk holds
          fil,      \* per file: its FIL, or NotOpen
          life      \* history: "new"; "crashed" once; or "broken" by a crash,
                    \* and not used any more

vars == <<v, fil, life>>

(* On a FAT16 volume the first cluster is of a file that no call is about.   *)
Foreign(info) == IF info THEN {} ELSE {2}

(* disk.data: which file, and which part of it, a cluster was written for;   *)
(* disk.cut: the files cut whose entry on the disk does not say so yet.      *)
NoData == <<>>
NoFile == [sclust |-> 0, size |-> -1]
Empty(info) ==
  [fat |-> [c \in Cluster |-> IF c \in Foreign(info) THEN Eoc ELSE 0],
   dir |-> [n \in Name |-> NoFile], data |-> [c \in Cluster |-> NoData], cut |-> {}]

(* find_volume: what it loads from a disk.  Without FSINFO nothing is known  *)
(* of the free clusters.  The window holds some other sector.                *)
Mounted(d, info) ==
  [disk |-> d, fat |-> d.fat, dir |-> d.dir, cut |-> {}, info |-> info,
   free |-> IF info THEN NFat - 2 ELSE Unknown, last |-> IF info THEN 2 ELSE Unknown,
   fsi |-> FALSE, win |-> "info", wflag |-> FALSE, log |-> <<>>]

Init == /\ \E info \in BOOLEAN : v = Mounted(Empty(info), info)
        /\ fil = [n \in Name |-> NotOpen]
        /\ life = "new"

-----------------------------------------------------------------------------
(* Operators on a volume s                                                   *)

Sector(c) == IF c < Split THEN "fat1" ELSE "fat2"

DiskWrite(s, d) == [s EXCEPT !.disk = d, !.log = Append(@, d)]

(* Mutant: a window that was changed is forgotten. *)
SyncWindowNot(s) == [s EXCEPT !.wflag = FALSE]

(* sync_window; the copies of the FAT are left out.                          *)
SyncWindow(s) ==
  IF ~s.wflag THEN s
  ELSE [DiskWrite(s, IF s.win = "dir" THEN [s.disk EXCEPT !.dir = s.dir, !.cut = s.cut]
                     ELSE [s.disk EXCEPT !.fat =
                             [c \in Cluster |-> IF Sector(c) = s.win THEN s.fat[c] ELSE @[c]]])
          EXCEPT !.wflag = FALSE]

(* move_window                                                               *)
MoveWindow(s, w) == IF w = s.win THEN s ELSE [SyncWindow(s) EXCEPT !.win = w]

(* sync_fs: FSINFO is written through the window.                            *)
SyncFs(s) ==
  LET t == SyncWindow(s)
  IN IF t.fsi THEN [DiskWrite(t, t.disk) EXCEPT !.fsi = FALSE, !.win = "info"] ELSE t

(* put_fat; get_fat moves the window as well.                                *)
GetFat(s, c) == MoveWindow(s, Sector(c))
PutFat(s, c, val) == [MoveWindow(s, Sector(c)) EXCEPT !.fat[c] = val, !.wflag = TRUE]

(* get_fat of the clusters cs, one after the other                           *)
RECURSIVE GetFats(_, _)
GetFats(s, cs) == IF cs = <<>> THEN s ELSE GetFats(GetFat(s, Head(cs)), Tail(cs))

RECURSIVE Chain(_, _)
Chain(fat, c) == IF c \notin Cluster \/ fat[c] = 0 THEN <<>> ELSE <<c>> \o Chain(fat, fat[c])

(* Mutant: the free clusters are not counted. *)
CountUncounted(s, n) == s

Count(s, n) == IF s.free = Unknown THEN s ELSE [s EXCEPT !.free = @ + n, !.fsi = TRUE]

(* remove_chain                                                              *)
RECURSIVE RemoveChain(_, _)
RemoveChain(s, c) ==
  IF c \notin Cluster \/ s.fat[c] = 0 THEN s
  ELSE RemoveChain(Count(PutFat(GetFat(s, c), c, 0), 1), s.fat[c])

(* create_chain, as the volume and the new cluster: 0 for a full disk.       *)
(* Clusters are tried from the one after scl, around to scl.                 *)
CreateChain(s, c) ==
  LET scl == IF c # 0 THEN c ELSE IF s.last \notin Cluster \cup {1} THEN 1 ELSE s.last
      order == [i \in 1 .. NFat - 2 |-> ((scl - 2 + i) % (NFat - 2)) + 2]
      free == {i \in DOMAIN order : s.fat[order[i]] = 0}
      n == IF free = {} THEN NFat - 2 ELSE CHOOSE i \in free : \A j \in free : i <= j
      ncl == order[n]
      t == GetFats(IF c = 0 THEN s ELSE GetFat(s, c), SubSeq(order, 1, n))
      u == PutFat(t, ncl, Eoc)
      w == IF c = 0 THEN u ELSE PutFat(u, c, ncl)
  IN IF c # 0 /\ s.fat[c] # Eoc THEN [v |-> GetFat(s, c), c |-> s.fat[c]]
     ELSE IF free = {} THEN [v |-> t, c |-> 0]
     ELSE [v |-> Count([w EXCEPT !.last = ncl], -1), c |-> ncl]

-----------------------------------------------------------------------------
(* The calls                                                                 *)

SetDir(s, n, e) == [MoveWindow(s, "dir") EXCEPT !.dir[n] = e, !.wflag = TRUE, !.cut = @ \ {n}]

(* Mutant: the chain goes before the directory entry that leads to it. *)
TruncatedFirst(s, n) ==
  LET cl == s.dir[n].sclust
      t == RemoveChain(MoveWindow(s, "dir"), cl)
  IN SetDir([t EXCEPT !.last = IF cl # 0 THEN cl - 1 ELSE @], n, [sclust |-> 0, size |-> 0])

(* f_open with FA_CREATE_ALWAYS of a file that there is                      *)
Truncated(s, n) ==
  LET cl == s.dir[n].sclust
      t == SetDir(s, n, [sclust |-> 0, size |-> 0])
  IN IF cl = 0 THEN t
     ELSE MoveWindow([RemoveChain(t, cl) EXCEPT !.last = cl - 1], "dir")

Opened(s, n) == [sclust |-> s.dir[n].sclust, clust |-> 0, fptr |-> 0, size |-> s.dir[n].size,
                 written |-> FALSE]

(* What no call can tell apart is forgotten: the data of free clusters, and  *)
(* which sector an unchanged window holds.                                   *)
Tidy(d, fat) == [d EXCEPT !.data = [c \in Cluster |-> IF fat[c] = 0 /\ d.fat[c] = 0 THEN NoData ELSE @[c]]]

(* A call makes the volume s and the files f; or power or card goes after    *)
(* some of its disk accesses, and the volume is mounted again.               *)
Becomes(s, f) ==
  /\ life # "broken"
  /\ \/ /\ v' = [s EXCEPT !.log = <<>>, !.disk = Tidy(@, s.fat),
                           !.win = IF s.wflag THEN @ ELSE "info"]
        /\ fil' = f /\ UNCHANGED life
     \/ \E i \in DOMAIN s.log : /\ v' = Mounted(Tidy(s.log[i], s.log[i].fat), v.info)
                               /\ fil' = [n \in Name |-> NotOpen]
                               /\ life' = IF v.info \/ life # "new" \/ s.log[i].cut # {}
                                            THEN "broken" ELSE "crashed"

(* f_open to write; dir_register makes an entry for a new file.              *)
Open(n, create) ==
  /\ fil[n] = NotOpen
  /\ create \/ v.dir[n] # NoFile
  /\ LET s == IF ~create THEN MoveWindow(v, "dir")
              ELSE IF v.dir[n] = NoFile THEN SetDir(v, n, [sclust |-> 0, size |-> 0])
              ELSE Truncated(v, n)
     IN Becomes(s, [fil EXCEPT ![n] = [Opened(s, n) EXCEPT !.written = create]])

(* Mutant: rewriting does not follow the chain. *)
ClusterKept(s, f) ==
  IF f.fptr = 0 /\ f.sclust # 0 THEN [v |-> s, c |-> f.sclust]
  ELSE IF f.fptr # 0 /\ s.fat[f.clust] # Eoc THEN [v |-> s, c |-> f.clust]
  ELSE CreateChain(s, f.clust)

(* f_write: the cluster to write to                                          *)
WriteCluster(s, f) ==
  IF f.fptr = 0 THEN IF f.sclust # 0 THEN [v |-> s, c |-> f.sclust] ELSE CreateChain(s, 0)
  ELSE CreateChain(s, f.clust)

(* f_write of one cluster                                                    *)
Write(n) ==
  /\ fil[n] # NotOpen /\ fil[n].fptr < MaxSize[n]
  /\ LET f == fil[n]
         r == WriteCluster(v, f)
         fptr == f.fptr + 1
     IN IF r.c = 0
          THEN Becomes(r.v, [fil EXCEPT ![n].written = TRUE])
          ELSE Becomes(DiskWrite(r.v, [r.v.disk EXCEPT !.data[r.c] = <<n, f.fptr>>]),
                       [fil EXCEPT ![n] =
                         [sclust |-> IF f.sclust = 0 THEN r.c ELSE f.sclust, clust |-> r.c, fptr |-> fptr,
                          size |-> IF fptr > f.size THEN fptr ELSE f.size, written |-> TRUE]])

(* f_lseek to the end of part k of the file, from where it is if that is     *)
(* ahead, from the start if not; at its start no call looks at clust.  A     *)
(* seek behind the end, which makes the file longer, is left out.            *)
Seek(n, k) ==
  /\ fil[n] # NotOpen /\ k # fil[n].fptr /\ k <= fil[n].size
  /\ LET chain == Chain(v.fat, fil[n].sclust)
         from == IF fil[n].fptr \in 1 .. k THEN fil[n].fptr ELSE 1
     IN Becomes(GetFats(v, SubSeq(chain, from, k - 1)),
                [fil EXCEPT ![n].fptr = k, ![n].clust = IF k = 0 THEN 0 ELSE chain[k]])

(* f_sync                                                                    *)
Synced(s, n) ==
  IF fil[n].written THEN SyncFs(SetDir(s, n, [sclust |-> fil[n].sclust, size |-> fil[n].size])) ELSE s

Sync(n) == fil[n] # NotOpen /\ Becomes(Synced(v, n), [fil EXCEPT ![n].written = FALSE])

Close(n) == fil[n] # NotOpen /\ Becomes(Synced(v, n), [fil EXCEPT ![n] = NotOpen])

(* f_truncate at the file pointer                                            *)
Truncate(n) ==
  /\ fil[n] # NotOpen /\ fil[n].size > fil[n].fptr
  /\ LET f == fil[n]
         s == [v EXCEPT !.cut = @ \cup {n}, !.disk.cut = @ \cup {n}]
     IN IF f.fptr = 0
          THEN Becomes(RemoveChain(s, f.sclust),
                       [fil EXCEPT ![n] = [@ EXCEPT !.sclust = 0, !.size = 0, !.written = TRUE]])
          ELSE Becomes(IF v.fat[f.clust] = Eoc THEN GetFat(s, f.clust)
                       ELSE RemoveChain(PutFat(s, f.clust, Eoc), v.fat[f.clust]),
                       [fil EXCEPT ![n] = [@ EXCEPT !.size = f.fptr, !.written = TRUE]])

(* f_unlink of a file that is not open                                       *)
Unlink(n) ==
  /\ fil[n] = NotOpen /\ v.dir[n] # NoFile
  /\ Becomes(SyncFs(RemoveChain(SetDir(v, n, NoFile), v.dir[n].sclust)), fil)

Next == \E n \in Name : \/ \E create \in BOOLEAN : Open(n, create)
                        \/ \E k \in 0 .. MaxSize[n] : Seek(n, k)
                        \/ Write(n) \/ Sync(n) \/ Close(n) \/ Truncate(n) \/ Unlink(n)

Spec == Init /\ [][Next]_vars

-----------------------------------------------------------------------------

(* Entries of the FAT are clusters, ends or free; only the window's sector   *)
(* differs from the disk, and only when it is marked as changed.             *)
TypeOK == /\ v.fat \in [Cluster -> Cluster \cup {0, Eoc}]
          /\ v.win # "dir" \/ ~v.wflag => v.dir = v.disk.dir
          /\ \A c \in Cluster : v.fat[c] # v.disk.fat[c] => v.wflag /\ v.win = Sector(c)

Sound(fat, dir, names) ==
  \A n \in names : dir[n] # NoFile =>
    /\ Len(Chain(fat, dir[n].sclust)) >= dir[n].size
    /\ \A m \in names \ {n} : dir[m] # NoFile =>
         ToSet(Chain(fat, dir[n].sclust)) \cap ToSet(Chain(fat, dir[m].sclust)) = {}

(* Whenever power or card goes, what is on the disk is a sound file system:  *)
(* every file's chain is as long as its size says and no cluster is in two   *)
(* files.  Only f_truncate breaks this, until the file is synchronised.      *)
DiskSound == Sound(v.disk.fat, v.disk.dir, Name \ v.disk.cut)

(* A file on the disk holds what was written to it, never what was written   *)
(* to another one, as long as it was not written beyond its size on disk.    *)
DataSafe == \A n \in Name \ v.disk.cut : v.disk.dir[n] # NoFile =>
              \A k \in 1 .. v.disk.dir[n].size :
                v.disk.data[Chain(v.disk.fat, v.disk.dir[n].sclust)[k]] = <<n, k - 1>>

(* Without a crash, the clusters in use are those of the files, so that none *)
(* is lost, and free_clust, which f_getfree returns unread, is right.        *)
NoneLost == life = "new" =>
  LET start(n) == IF fil[n] # NotOpen THEN fil[n].sclust
                  ELSE IF v.dir[n] # NoFile THEN v.dir[n].sclust ELSE 0
  IN /\ {c \in Cluster : v.fat[c] # 0}
          = Foreign(v.info) \cup UNION {ToSet(Chain(v.fat, start(n))) : n \in Name}
     /\ v.info => v.free = Cardinality({c \in Cluster : v.fat[c] = 0})

=============================================================================
