----------------------------- MODULE MCThreads ------------------------------
(***************************************************************************)
(* Threads that wait for each other or hold on to each other, side by      *)
(* side: the kernel's mailboxes, synchronous messages and semaphores, the  *)
(* reference counts and the registry of dynamic threads, the listeners of  *)
(* the system service, and the users of the audio device.  They have no    *)
(* variable in common: part says which one runs.                           *)
(***************************************************************************)
EXTENDS Integers, Sequences, FiniteSets, TLC

CONSTANTS Thread, None,
          Isr, Msg, NoMsg, Size,
          Sem, MaxCnt,
          Obj, Actor, Root, MaxRefs,
          Message, Fn, Nil, Worlds,
          Player, BtThread, ToneThread, MaxStack

(* The bound on the units of a semaphore is a number.                        *)
ASSUME SemConstants == MaxCnt \in Nat

(* None is not a thread.                                                     *)
ASSUME MsgConstants == None \notin Thread

(* There are finitely many threads, an interrupt handler is none of them,    *)
(* and a mailbox has slots.                                                  *)
ASSUME MailboxConstants ==
  IsFiniteSet(Thread) /\ Isr \notin Thread /\ Size \in Nat \ {0}

(* There are finitely many dynamic threads and threads that hold references, *)
(* and neither the ready list nor None is a dynamic thread.                  *)
ASSUME ThreadConstants ==
  IsFiniteSet(Actor) /\ IsFiniteSet(Obj) /\ Root \notin Obj /\ None \notin Obj

VARIABLES part,
          buf, rd, wr, cnt, queue, st, op, got,
          senders, msgSt, peer, to,
          semCnt, semQueue, semMsg,
          state, refs, newer, older, pc, tp, seen, at, has, early, overlap,
          head, node, used, call, svc, reg, must, called, world,
          s, uPc, uTo, next, vain, races, faults

mbVars == <<buf, rd, wr, cnt, queue, st, op, got>>

msgVars == <<senders, msgSt, peer, to>>

semVars == <<semCnt, semQueue, semMsg>>

thdVars == <<state, refs, newer, older, pc, tp, seen, at, has, early, overlap>>

listenVars == <<head, node, used, call, svc, reg, must, called, world>>

auVars == <<s, uPc, uTo, next, vain, races, faults>>

MB == INSTANCE ChMailbox WITH LateReset <- FALSE

MS == INSTANCE ChMsg WITH queue <- senders, st <- msgSt

SM == INSTANCE ChSem WITH cnt <- semCnt, queue <- semQueue, msg <- semMsg

TH == INSTANCE ChThreads

(* The nodes of its list are three as well.                                  *)
SL == INSTANCE CfgSysListen WITH Thread <- Actor, Node <- Thread

AU == INSTANCE AudioUsers WITH Thread <- Player, pc <- uPc, to <- uTo

ThreadsInit ==
  /\ part \in {"mailbox", "msg", "sem", "threads", "listen", "users"}
  /\ MB!Init
  /\ MS!Init
  /\ SM!Init /\ (part # "sem" => \A x \in Sem : semCnt[x] = 0)
  /\ TH!Init /\ (part # "threads" => ~overlap)
  /\ SL!Init /\ (part # "listen" => world = {"self"})
  /\ AU!Init /\ (part # "users" => ~races /\ ~faults)

ThreadsNext ==
  \/ /\ part = "mailbox" /\ MB!Next
     /\ UNCHANGED <<part, msgVars, semVars, thdVars, listenVars, auVars>>
  \/ /\ part = "msg" /\ MS!Next
     /\ UNCHANGED <<part, mbVars, semVars, thdVars, listenVars, auVars>>
  \/ /\ part = "sem" /\ SM!Next
     /\ UNCHANGED <<part, mbVars, msgVars, thdVars, listenVars, auVars>>
  \/ /\ part = "threads" /\ TH!Next
     /\ UNCHANGED <<part, mbVars, msgVars, semVars, listenVars, auVars>>
  \/ /\ part = "listen" /\ SL!Next
     /\ UNCHANGED <<part, mbVars, msgVars, semVars, thdVars, auVars>>
  \/ /\ part = "users" /\ AU!Next
     /\ UNCHANGED <<part, mbVars, msgVars, semVars, thdVars, listenVars>>

ThreadsSpec ==
  ThreadsInit /\ [][ThreadsNext]_<<part, mbVars, msgVars, semVars, thdVars, listenVars, auVars>>

Symmetry == Permutations(Thread) \cup Permutations(Obj) \cup Permutations(Actor)

-----------------------------------------------------------------------------

(* The type invariants: among others, the pointers of a mailbox stay in its  *)
(* buffer, a semaphore of it counts no more than its slots, and links of the *)
(* registry are threads.                                                     *)
ThreadsTypeOK == CASE part = "mailbox" -> MB!TypeOK
                   [] part = "msg" -> MS!TypeOK
                   [] part = "threads" -> TH!TypeOK
                   [] part = "users" -> AU!TypeOK
                   [] OTHER -> TRUE

(* The slots of a mailbox add up, none counted twice or lost, and nobody     *)
(* waits for a message, or for a slot, that nobody has claimed.              *)
MailboxSound == part = "mailbox" => MB!SlotsAddUp /\ MB!NoLostWakeup

(* A mailbox is a bounded queue.                                             *)
IsQueue == MB!IsQueue

(* A sender of chMsgSend is in one queue, or held by the receiver it chose,  *)
(* and a woken receiver of chMsgWait finds a sender.                         *)
SendersSound == part = "msg" => MS!SenderInOnePlace /\ MS!WokenFindsSender

(* A semaphore has units or waiting threads, as many as its counter says.    *)
CounterExact == part = "sem" => SM!CounterExact

(* The memory of a thread is not given back while somebody has a reference,  *)
(* if releases do not overlap.                                               *)
ReferenceKeepsThreadAlone == part = "threads" => TH!ReferenceKeepsThreadAlone

(* p_refs counts exactly the references that are held; the registry is a     *)
(* cycle through exactly the threads that were not freed; memory is left     *)
(* behind only when the last reference was dropped while the thread ran; and *)
(* nobody waits in chThdWait for a thread that has ended.                    *)
ThreadsSound == part = "threads" =>
  TH!RefsExact /\ TH!RegistryExact /\ TH!LeakOnlyEarly /\ TH!WaitedForRuns

(* The list of listeners is what was registered, and a walk calls every      *)
(* listener that was there before it and was not cancelled.                  *)
ListenersServed == part = "listen" => SL!ListIntact /\ SL!ListenersCalled

(* If no thread runs between a test of its flags and the lock: a music       *)
(* player that has started is heard, not blocked for good; the user that has *)
(* the device is on top of the stack of events; and whoever was stopped by a *)
(* tone or a call is on it, to be resumed.                                   *)
UsersAgree == part = "users" => AU!MusicSoundsAlone /\ AU!OwnerOnTop /\ AU!NobodyForgotten

=============================================================================
