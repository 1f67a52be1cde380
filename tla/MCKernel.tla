------------------------------ MODULE MCKernel ------------------------------
(***************************************************************************)
(* The services of the kernel side by side: the heap, the DMA memory, the  *)
(* virtual timers, mutexes with the scheduler, events and I/O queues.      *)
(* They have no variable in common, so a property of one holds in every    *)
(* interleaving if it holds while the others rest: part says which runs.   *)
(***************************************************************************)
EXTENDS ChHeap, TLC

CONSTANTS Units, Unit, BmHdr, Narrow, BmRequest,
          Timer, TimeRange,
          MtxThread, Idle, Mutex, Cond, MaxPrio, Asleep,
          EvThread, Event, Source, Flag,
          QThread, Byte, NoByte, QSize, MaxRead

VARIABLES part,
          map, blocks,
          vtlist, systime, phase,
          prio, real, cur, ready, at, queue, owner, held, back,
          epending, evSt, op, el, told, foreign,
          dir, buf, rd, wr, counter, waiting, st, left, timed, got

bmVars == <<map, blocks>>

vtVars == <<vtlist, systime, phase>>

mxVars == <<prio, real, cur, ready, at, queue, owner, held, back>>

evVars == <<epending, evSt, op, el, told, foreign>>

qVars == <<dir, buf, rd, wr, counter, waiting, st, left, timed, got>>

BM == INSTANCE Bmem WITH Hdr <- BmHdr, Request <- BmRequest

VT == INSTANCE ChVt WITH list <- vtlist

MX == INSTANCE ChMtx WITH Thread <- MtxThread, InOrder <- TRUE, LowersOwning <- FALSE

EV == INSTANCE ChEvents WITH Thread <- EvThread, st <- evSt

IO == INSTANCE ChQueues WITH Thread <- QThread, Msg <- Byte, NoMsg <- NoByte, Size <- QSize

KernelInit ==
  /\ part \in {"heap", "bmem", "vt", "mtx", "events", "queues"}
  /\ Init /\ BM!Init /\ VT!Init
  /\ MX!Init /\ (part # "mtx" => \A t \in MtxThread : real[t] = 1)
  /\ EV!Init /\ (part # "events" => ~foreign)
  /\ IO!Init /\ (part # "queues" => dir = "in")

KernelNext ==
  \/ part = "heap" /\ Next /\ UNCHANGED <<part, bmVars, vtVars, mxVars, evVars, qVars>>
  \/ part = "bmem" /\ BM!Next /\ UNCHANGED <<part, vars, vtVars, mxVars, evVars, qVars>>
  \/ part = "vt" /\ VT!Next /\ UNCHANGED <<part, vars, bmVars, mxVars, evVars, qVars>>
  \/ part = "mtx" /\ MX!Next /\ UNCHANGED <<part, vars, bmVars, vtVars, evVars, qVars>>
  \/ part = "events" /\ EV!Next /\ UNCHANGED <<part, vars, bmVars, vtVars, mxVars, qVars>>
  \/ part = "queues" /\ IO!Next /\ UNCHANGED <<part, vars, bmVars, vtVars, mxVars, evVars>>

KernelSpec ==
  KernelInit /\ [][KernelNext]_<<part, vars, bmVars, vtVars, mxVars, evVars, qVars>>

Symmetry == Permutations(MtxThread)

-----------------------------------------------------------------------------

(* The type invariants of the modules: the data of chheap.c, bmem.c, chvt.c, *)
(* chmtx.c, chschd.c, chevents.c, and chqueues.c stay well formed.           *)
KernelTypeOK == CASE part = "heap" -> TypeOK
                  [] part = "bmem" -> BM!TypeOK
                  [] part = "vt" -> VT!TypeOK
                  [] part = "mtx" -> MX!TypeOK
                  [] part = "events" -> EV!TypeOK
                  [] part = "queues" -> IO!TypeOK

(* _bmem_alloc takes no unit twice and _bmem_free gives back all of them;    *)
(* a block has room for its header and for what hs_malloc was asked for; and *)
(* the one pass of _bmem_alloc finds the first run of free units there is.   *)
BmemSound == part = "bmem" => BM!MapExact /\ BM!BlockLargeEnough /\ BM!ScanIsFirstFit

(* The delta list of chvt.c implements timers that count down independently, *)
(* whatever is armed and disarmed, from callbacks too.                       *)
TimersIndependent == VT!TimersIndependent

(* A mutex has the one owner that has it in its list, and threads wait only  *)
(* for mutexes that are owned (the assertions of chMtxLockS).  Threads that  *)
(* lock in one order never wait for each other in a circle, condition waits  *)
(* of chcond.c included.                                                     *)
LocksSound == part = "mtx" => MX!OwnersAgree /\ MX!NoCircularWait

(* A priority is exactly the highest of a thread's own and of those that     *)
(* wait for its mutexes; the ready list and all queues stay in the order of  *)
(* priorities although chMtxLockS changes those of threads in them; and the  *)
(* running thread has the highest of those that can run, although            *)
(* chSchWakeupS does not look at the ready list.                             *)
PrioritiesSound == part = "mtx" => MX!PrioExact /\ MX!QueuesSorted /\ MX!RunsHighest

(* No wake-up is lost or vain.  No thread sleeps in chEvtWaitAny, -All or    *)
(* -One while its events are pending, one that was woken finds them, but for *)
(* osSignalClear, and a listener that reads its flags after each event       *)
(* misses none.  While a thread waits in chIQGetTimeout or chOQPutTimeout,   *)
(* every byte or place has a woken thread that will take it.                 *)
WakeupsKept ==
  /\ part = "events" => EV!NoSleepThrough /\ EV!WokenFindsEvents /\ EV!NoFlagMissed
  /\ part = "queues" => IO!EveryByteClaimed

(* The I/O queues keep the order of the bytes, lose none and duplicate none. *)
KeepsOrder == IO!IsQueue

=============================================================================
