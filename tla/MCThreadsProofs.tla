--------------------------- MODULE MCThreadsProofs --------------------------
(***************************************************************************)
(* What ChSyncProofs and ChMailboxProofs show of the kernel's primitives   *)
(* holds of MCThreads.                                                     *)
(***************************************************************************)
EXTENDS MCThreads, Counts, TLAPS

LOCAL CO == INSTANCE Counting

(* What the lemmas assume of finite sets                                     *)
LEMMA Facts == FiniteSetFacts
<1>1. CO!FiniteSetFacts
  BY CO!FiniteSetFactsHold, SMTT(20)
<1>2. QED
  BY <1>1, Zenon
     DEF FiniteSetFacts, CO!FiniteSetFacts, IsFiniteSet, CO!IsFiniteSet,
         Cardinality, CO!Cardinality

(* What they assume of sequences                                             *)
LEMMA OneEachFact == OneEach
<1>1. CO!OneEach
  BY CO!OneEachHolds
<1>2. QED
  BY <1>1, ZenonT(30)
     DEF OneEach, CO!OneEach, IsFiniteSet, CO!IsFiniteSet, Cardinality, CO!Cardinality

(* The component that runs is chosen for good.                               *)
LEMMA PartStays ==
  [ThreadsNext]_<<part, mbVars, msgVars, semVars, thdVars, listenVars, auVars>>
    => part' = part
  BY SMTT(20) DEF ThreadsNext

-----------------------------------------------------------------------------
(* Semaphores, messages and dynamic threads                                  *)

LOCAL SP == INSTANCE ChSyncProofs

(* What is assumed of finite sets is the same in both modules.               *)
LEMMA SameFacts == FiniteSetFacts = SP!FiniteSetFacts
  BY Zenon
     DEF FiniteSetFacts, SP!FiniteSetFacts, IsFiniteSet, SP!IsFiniteSet,
         Cardinality, SP!Cardinality

(* Messages are here what they are there.                                    *)
LEMMA SameMsg ==
  /\ MS!Init <=> SP!MS!Init
  /\ MS!Next <=> SP!MS!Next
  /\ MS!TypeOK <=> SP!MS!TypeOK
  /\ MS!SenderInOnePlace <=> SP!MS!SenderInOnePlace
  /\ MS!WokenFindsSender <=> SP!MS!WokenFindsSender
<1>1. MS!Init <=> SP!MS!Init
  BY ZenonT(30) DEF MS!Init, SP!MS!Init
<1>2. MS!Next <=> SP!MS!Next
  BY ZenonT(30) DEF MS!Next, SP!MS!Next, MS!Send, SP!MS!Send, MS!Take, SP!MS!Take,
         MS!Wait, SP!MS!Wait, MS!WaitGoesOn, SP!MS!WaitGoesOn, MS!Release, SP!MS!Release
<1>3. MS!TypeOK <=> SP!MS!TypeOK
  BY ZenonT(30) DEF MS!TypeOK, SP!MS!TypeOK
<1>4. MS!SenderInOnePlace <=> SP!MS!SenderInOnePlace
  BY ZenonT(30)
     DEF MS!SenderInOnePlace, SP!MS!SenderInOnePlace, MS!Places, SP!MS!Places,
         MS!Cardinality, SP!MS!Cardinality
<1>5. MS!WokenFindsSender <=> SP!MS!WokenFindsSender
  BY Zenon DEF MS!WokenFindsSender, SP!MS!WokenFindsSender
<1>6. QED
  BY <1>1, <1>2, <1>3, <1>4, <1>5, SMTT(20)

(* Semaphores are here what they are there.                                  *)
LEMMA SameSem ==
  /\ SM!Init <=> SP!SM!Init
  /\ SM!Next <=> SP!SM!Next
  /\ SM!CounterExact <=> SP!SM!CounterExact
<1>1. SM!Init <=> SP!SM!Init
  BY ZenonT(30) DEF SM!Init, SP!SM!Init
<1>2. SM!Next <=> SP!SM!Next
  BY ZenonT(30) DEF SM!Next, SP!SM!Next, SM!Wait, SP!SM!Wait, SM!Runs, SP!SM!Runs,
         SM!Becomes, SP!SM!Becomes, SM!Taken, SP!SM!Taken, SM!Given, SP!SM!Given,
         SM!Wakes, SP!SM!Wakes, SM!Without, SP!SM!Without, SM!TimedOut, SP!SM!TimedOut,
         SM!Add, SP!SM!Add, SM!Reset, SP!SM!Reset, SM!SignalWait, SP!SM!SignalWait
<1>3. SM!CounterExact <=> SP!SM!CounterExact
  BY Zenon DEF SM!CounterExact, SP!SM!CounterExact, SM!Runs, SP!SM!Runs
<1>4. QED
  BY <1>1, <1>2, <1>3, SMTT(20)

SemPart == part = "sem" => SP!SemInv

(* Semaphores are sound at the start, and stay so.                           *)
LEMMA SemHolds ==
  /\ ThreadsInit => SemPart
  /\ SemPart /\ [ThreadsNext]_<<part, mbVars, msgVars, semVars, thdVars, listenVars, auVars>>
       => SemPart'
  /\ SemPart => CounterExact
<1>1. /\ SM!Init => SP!SemInv
      /\ SP!SemInv /\ (SM!Next \/ UNCHANGED semVars) => SP!SemInv'
      /\ SP!SemInv => SM!CounterExact
  BY SemConstants, SameSem, SP!SemHolds, SMTT(20) DEF SP!SM!vars, semVars
<1>2. ThreadsInit => SemPart
  BY <1>1, SMTT(20) DEF ThreadsInit, SemPart
<1>3. ASSUME [ThreadsNext]_<<part, mbVars, msgVars, semVars, thdVars, listenVars, auVars>>,
             part = "sem"
      PROVE  SM!Next \/ UNCHANGED semVars
  BY <1>3, SMTT(20) DEF ThreadsNext
<1>4. QED
  BY <1>1, <1>2, <1>3, PartStays, SMTT(20) DEF SemPart, CounterExact

MsgPart == part = "msg" => SP!MsgInv

(* Synchronous messages are sound at the start, and stay so.                 *)
LEMMA MsgHolds ==
  FiniteSetFacts =>
    /\ ThreadsInit => MsgPart
    /\ MsgPart /\ [ThreadsNext]_<<part, mbVars, msgVars, semVars, thdVars, listenVars, auVars>>
         => MsgPart'
    /\ MsgPart => SendersSound /\ (part = "msg" => MS!TypeOK)
<1> SUFFICES ASSUME FiniteSetFacts
             PROVE  /\ ThreadsInit => MsgPart
                    /\ MsgPart /\ [ThreadsNext]_<<part, mbVars, msgVars, semVars, thdVars,
                                                  listenVars, auVars>> => MsgPart'
                    /\ MsgPart => SendersSound /\ (part = "msg" => MS!TypeOK)
  BY SMTT(20)
<1>1. /\ MS!Init => SP!MsgInv
      /\ SP!MsgInv /\ (MS!Next \/ UNCHANGED msgVars) => SP!MsgInv'
      /\ SP!MsgInv => MS!TypeOK /\ MS!SenderInOnePlace /\ MS!WokenFindsSender
  BY MsgConstants, SameFacts, SameMsg, SP!MsgHolds, SMTT(20) DEF SP!MS!vars, msgVars
<1>2. ThreadsInit => MsgPart
  BY <1>1, SMTT(20) DEF ThreadsInit, MsgPart
<1>3. ASSUME [ThreadsNext]_<<part, mbVars, msgVars, semVars, thdVars, listenVars, auVars>>,
             part = "msg"
      PROVE  MS!Next \/ UNCHANGED msgVars
  BY <1>3, SMTT(20) DEF ThreadsNext
<1>4. QED
  BY <1>1, <1>2, <1>3, PartStays, SMTT(20) DEF MsgPart, SendersSound

(* What is assumed of dynamic threads is so.                                 *)
LEMMA ThreadsGiven ==
  /\ FiniteSetFacts => SP!ThGiven
  /\ OneEach => SP!OneEach
  /\ SP!IsFiniteSet(Obj)
<1>1. OneEach = SP!OneEach
  BY ZenonT(30)
     DEF OneEach, SP!OneEach, IsFiniteSet, SP!IsFiniteSet, Cardinality, SP!Cardinality
<1>2. /\ IsFiniteSet(Actor) = SP!IsFiniteSet(Actor)
      /\ IsFiniteSet(Obj) = SP!IsFiniteSet(Obj)
  BY Zenon DEF IsFiniteSet, SP!IsFiniteSet
<1>3. QED
  BY <1>1, <1>2, SameFacts, ThreadConstants, Zenon DEF SP!ThGiven

(* Dynamic threads are here what they are there.                             *)
LEMMA SameThreads ==
  /\ TH!Init <=> SP!TH!Init
  /\ TH!Next <=> SP!TH!Next
  /\ TH!ReferenceKeepsThread <=> SP!TH!ReferenceKeepsThread
  /\ TH!RefsExact <=> SP!TH!RefsExact
  /\ TH!RegistryExact <=> SP!TH!RegistryExact
  /\ TH!LeakOnlyEarly <=> SP!TH!LeakOnlyEarly
  /\ TH!WaitedForRuns <=> SP!TH!WaitedForRuns
<1>1. TH!Init <=> SP!TH!Init
  BY Zenon DEF TH!Init, SP!TH!Init, TH!Node, SP!TH!Node
<1>2. TH!Next <=> SP!TH!Next
  BY ZenonT(30)
     DEF TH!Next, SP!TH!Next, TH!Exit, SP!TH!Exit, TH!Test, SP!TH!Test, TH!Done, SP!TH!Done,
         TH!Unlink, SP!TH!Unlink, TH!Unlink2, SP!TH!Unlink2, TH!FreeObj, SP!TH!FreeObj,
         TH!First, SP!TH!First, TH!NextThread, SP!TH!NextThread, TH!Create, SP!TH!Create,
         TH!Wait, SP!TH!Wait, TH!Release, SP!TH!Release, TH!Drop, SP!TH!Drop,
         TH!AddRef, SP!TH!AddRef, TH!Free, SP!TH!Free, TH!Releasing, SP!TH!Releasing
<1>3. TH!ReferenceKeepsThread <=> SP!TH!ReferenceKeepsThread
  BY Zenon
     DEF TH!ReferenceKeepsThread, SP!TH!ReferenceKeepsThread, TH!Pointers, SP!TH!Pointers
<1>4. TH!RefsExact <=> SP!TH!RefsExact
  BY Zenon DEF TH!RefsExact, SP!TH!RefsExact, TH!Cardinality, SP!TH!Cardinality
<1>5. TH!RegistryExact <=> SP!TH!RegistryExact
  BY Zenon
     DEF TH!RegistryExact, SP!TH!RegistryExact, TH!Releasing, SP!TH!Releasing,
         TH!Place, SP!TH!Place, TH!Cardinality, SP!TH!Cardinality
<1>6. /\ TH!LeakOnlyEarly <=> SP!TH!LeakOnlyEarly
      /\ TH!WaitedForRuns <=> SP!TH!WaitedForRuns
  BY Zenon
     DEF TH!LeakOnlyEarly, SP!TH!LeakOnlyEarly, TH!WaitedForRuns, SP!TH!WaitedForRuns,
         TH!Releasing, SP!TH!Releasing
<1>7. QED
  BY <1>1, <1>2, <1>3, <1>4, <1>5, <1>6, ZenonT(30)

ThreadsPart == part = "threads" /\ ~overlap => SP!ThInv

(* Dynamic threads are sound at the start, and stay so while releases do not *)
(* overlap.                                                                  *)
LEMMA ThreadsHold ==
  FiniteSetFacts /\ OneEach =>
    /\ ThreadsInit => ThreadsPart
    /\ ThreadsPart /\ [ThreadsNext]_<<part, mbVars, msgVars, semVars, thdVars, listenVars, auVars>>
         => ThreadsPart'
    /\ ThreadsPart => ReferenceKeepsThreadAlone /\ (~overlap => ThreadsSound)
<1> SUFFICES ASSUME FiniteSetFacts, OneEach
             PROVE  /\ ThreadsInit => ThreadsPart
                    /\ ThreadsPart
                         /\ [ThreadsNext]_<<part, mbVars, msgVars, semVars, thdVars, listenVars,
                                            auVars>> => ThreadsPart'
                    /\ ThreadsPart => ReferenceKeepsThreadAlone /\ (~overlap => ThreadsSound)
  BY ZenonT(30)
<1>1. SP!ThGiven /\ SP!OneEach /\ SP!IsFiniteSet(Obj)
  BY ThreadsGiven, ZenonT(30)
<1>2. /\ TH!Init => SP!ThInv
      /\ SP!ThInv /\ ~overlap /\ TH!Next => SP!ThInv'
      /\ SP!ThInv /\ UNCHANGED thdVars => SP!ThInv'
  BY <1>1, SameThreads, SP!ThInit, SP!ThStep, SP!ThStutter, ZenonT(30) DEF SP!TH!vars, thdVars
<1>3. SP!ThInv => /\ TH!ReferenceKeepsThread /\ TH!RefsExact /\ TH!RegistryExact
                  /\ TH!LeakOnlyEarly /\ TH!WaitedForRuns
  BY <1>1, SameThreads, SP!ThSays, SP!ThRegistry, ZenonT(30)
<1>4. ThreadsInit => ThreadsPart
  BY <1>2, ZenonT(30) DEF ThreadsInit, ThreadsPart
<1>5. ASSUME [ThreadsNext]_<<part, mbVars, msgVars, semVars, thdVars, listenVars, auVars>>,
             part = "threads"
      PROVE  (TH!Next \/ UNCHANGED thdVars) /\ overlap' = overlap
  BY <1>5, SMTT(20) DEF ThreadsNext, TH!Next, thdVars
<1>6. ThreadsPart /\ [ThreadsNext]_<<part, mbVars, msgVars, semVars, thdVars, listenVars, auVars>>
        => ThreadsPart'
  BY <1>2, <1>5, PartStays, Zenon DEF ThreadsPart
<1>7. ThreadsPart => ReferenceKeepsThreadAlone /\ (~overlap => ThreadsSound)
  BY <1>3, Zenon
     DEF ThreadsPart, ReferenceKeepsThreadAlone, TH!ReferenceKeepsThreadAlone, ThreadsSound
<1>8. QED
  BY <1>4, <1>6, <1>7, Zenon

(* For any threads and semaphores: a semaphore has units or threads that     *)
(* wait, never both, as many as its counter says, and those in its queue     *)
(* were not woken.                                                           *)
THEOREM SemaphoresCount == ThreadsSpec => []CounterExact
  BY SemHolds, PTL DEF ThreadsSpec

(* For any number of threads: a sender is in one place, once in the queue of *)
(* the receiver it chose or held by it, so that it is answered once and by   *)
(* that receiver; a woken receiver finds a sender, and none sleeps while a   *)
(* sender is in its queue.                                                   *)
THEOREM SendersAreSound == ThreadsSpec => []SendersSound
  BY MsgHolds, Facts, PTL DEF ThreadsSpec

(* For any number of dynamic threads and of threads that refer to them:      *)
(* unless the unlocked parts of two calls of chThdRelease overlap, memory is *)
(* not given back as long as somebody has a reference to it, walks over it   *)
(* in the registry, waits for its thread in chThdWait, or is about to free   *)
(* it.                                                                       *)
THEOREM ReferencesKeepThreads == ThreadsSpec => []ReferenceKeepsThreadAlone
  BY ThreadsHold, Facts, OneEachFact, PTL DEF ThreadsSpec

(* Then also p_refs is the number of references that are held, the registry  *)
(* is a cycle, the same in both directions, through exactly the threads that *)
(* were not freed, memory is left behind only when the last reference was    *)
(* dropped while the thread ran, and nobody waits for a thread that has      *)
(* ended.                                                                    *)
THEOREM RegistryIsSound == ThreadsSpec => [](~overlap => ThreadsSound)
  BY ThreadsHold, Facts, OneEachFact, PTL DEF ThreadsSpec

-----------------------------------------------------------------------------
(* Mailboxes                                                                 *)

LOCAL MP == INSTANCE ChMailboxProofs

(* What is assumed of the mailbox is so.                                     *)
LEMMA MailboxGiven ==
  /\ FiniteSetFacts => MP!MbGiven
  /\ OneEach => MP!OneEach
<1>1. FiniteSetFacts = MP!FiniteSetFacts
  BY Zenon
     DEF FiniteSetFacts, MP!FiniteSetFacts, IsFiniteSet, MP!IsFiniteSet,
         Cardinality, MP!Cardinality
<1>2. IsFiniteSet(Thread) = MP!IsFiniteSet(Thread)
  BY ZenonT(30) DEF IsFiniteSet, MP!IsFiniteSet
<1>3. OneEach = MP!OneEach
  BY Zenon
     DEF OneEach, MP!OneEach, IsFiniteSet, MP!IsFiniteSet, Cardinality, MP!Cardinality
<1>4. QED
  BY <1>1, <1>2, <1>3, MailboxConstants, ZenonT(30) DEF MP!MbGiven

(* Mailboxes are here what they are there.                                   *)
LEMMA SameMailbox ==
  /\ MB!Init <=> MP!MB!Init
  /\ MB!Next <=> MP!MB!Next
  /\ MB!TypeOK <=> MP!MB!TypeOK
  /\ MB!SlotsAddUp <=> MP!MB!SlotsAddUp
  /\ MB!NoLostWakeup <=> MP!MB!NoLostWakeup
  /\ MB!Q!Init <=> MP!MB!Q!Init
  /\ [MB!Q!Next]_(MB!Q!vars) <=> [MP!MB!Q!Next]_(MP!MB!Q!vars)
<1>1. MB!Init <=> MP!MB!Init
  BY ZenonT(30) DEF MB!Init, MP!MB!Init, MB!Caller, MP!MB!Caller, MB!NoOp, MP!MB!NoOp
<1>2. MB!Next <=> MP!MB!Next
  BY ZenonT(30)
     DEF MB!Next, MP!MB!Next, MB!Call, MP!MB!Call, MB!Begin, MP!MB!Begin,
         MB!Complete, MP!MB!Complete, MB!Access, MP!MB!Access, MB!Signal, MP!MB!Signal,
         MB!WriteBack, MP!MB!WriteBack, MB!WriteAhead, MP!MB!WriteAhead,
         MB!ReadFront, MP!MB!ReadFront, MB!Waits, MP!MB!Waits, MB!Signals, MP!MB!Signals,
         MB!Resume, MP!MB!Resume, MB!TimedOut, MP!MB!TimedOut, MB!Without, MP!MB!Without,
         MB!Reset, MP!MB!Reset, MB!Caller, MP!MB!Caller, MB!NoOp, MP!MB!NoOp
<1>3. MB!TypeOK <=> MP!MB!TypeOK
  BY ZenonT(30)
     DEF MB!TypeOK, MP!MB!TypeOK, MB!Op, MP!MB!Op, MB!Caller, MP!MB!Caller,
         MB!Cardinality, MP!MB!Cardinality
<1>4. MB!SlotsAddUp <=> MP!MB!SlotsAddUp
  BY ZenonT(30)
     DEF MB!SlotsAddUp, MP!MB!SlotsAddUp, MB!Available, MP!MB!Available,
         MB!Woken, MP!MB!Woken, MB!Waits, MP!MB!Waits, MB!Cardinality, MP!MB!Cardinality
<1>5. MB!NoLostWakeup <=> MP!MB!NoLostWakeup
  BY ZenonT(30) DEF MB!NoLostWakeup, MP!MB!NoLostWakeup, MB!Waits, MP!MB!Waits
<1>6. /\ MB!Q!Init <=> MP!MB!Q!Init
      /\ [MB!Q!Next]_(MB!Q!vars) <=> [MP!MB!Q!Next]_(MP!MB!Q!vars)
  <2>1. /\ MB!Contents = MP!MB!Contents
        /\ MB!Contents' = MP!MB!Contents'
    BY ZenonT(30)
       DEF MB!Contents, MP!MB!Contents, MB!Available, MP!MB!Available,
           MB!Woken, MP!MB!Woken, MB!Waits, MP!MB!Waits, MB!Cardinality, MP!MB!Cardinality
  <2>2. QED
    BY <2>1, ZenonT(30)
       DEF MB!Q!Init, MP!MB!Q!Init, MB!Q!Next, MP!MB!Q!Next, MB!Q!vars, MP!MB!Q!vars,
           MB!Q!Put, MP!MB!Q!Put, MB!Q!PutAhead, MP!MB!Q!PutAhead, MB!Q!Take, MP!MB!Q!Take,
           MB!Q!Clear, MP!MB!Q!Clear
<1>7. QED
  BY <1>1, <1>2, <1>3, <1>4, <1>5, <1>6, SMTT(20)

MailboxPart == part = "mailbox" => MP!MbInv

(* A mailbox is sound at the start and stays so, and is a queue all along;   *)
(* while another component runs it is left as it is.                         *)
LEMMA MailboxHolds ==
  FiniteSetFacts /\ OneEach =>
    /\ ThreadsInit => MailboxPart /\ MB!Q!Init
    /\ MailboxPart
         /\ [ThreadsNext]_<<part, mbVars, msgVars, semVars, thdVars, listenVars, auVars>>
         => MailboxPart' /\ [MB!Q!Next]_(MB!Q!vars)
    /\ MailboxPart => MailboxSound /\ (part = "mailbox" => MB!TypeOK)
<1> SUFFICES ASSUME FiniteSetFacts, OneEach
             PROVE  /\ ThreadsInit => MailboxPart /\ MB!Q!Init
                    /\ MailboxPart
                         /\ [ThreadsNext]_<<part, mbVars, msgVars, semVars, thdVars, listenVars,
                                            auVars>>
                         => MailboxPart' /\ [MB!Q!Next]_(MB!Q!vars)
                    /\ MailboxPart => MailboxSound /\ (part = "mailbox" => MB!TypeOK)
  BY SMTT(20)
<1>1. /\ MB!Init => MP!MbInv /\ MB!Q!Init
      /\ MP!MbInv /\ (MB!Next \/ UNCHANGED mbVars) => MP!MbInv' /\ [MB!Q!Next]_(MB!Q!vars)
  BY MailboxGiven, SameMailbox, MP!MbQueue, SMTT(20) DEF MP!MB!vars, mbVars
<1>2. MP!MbInv => MB!TypeOK /\ MB!SlotsAddUp /\ MB!NoLostWakeup
  BY MailboxGiven, SameMailbox, MP!MbTyped, MP!MbSays, SMTT(20)
<1>3. ThreadsInit => MailboxPart /\ MB!Q!Init
  BY <1>1, SMTT(20) DEF ThreadsInit, MailboxPart
<1>4. ASSUME [ThreadsNext]_<<part, mbVars, msgVars, semVars, thdVars, listenVars, auVars>>
      PROVE  IF part = "mailbox" THEN MB!Next \/ UNCHANGED mbVars ELSE UNCHANGED mbVars
  BY <1>4, SMTT(20) DEF ThreadsNext
<1>5. UNCHANGED mbVars => UNCHANGED MB!Q!vars
  BY SMTT(20) DEF mbVars, MB!Q!vars, MB!Contents, MB!Available, MB!Woken, MB!Waits
<1>6. QED
  BY <1>1, <1>2, <1>3, <1>4, <1>5, PartStays, SMTT(20) DEF MailboxPart, MailboxSound

(* For any number of threads and slots: every slot of a mailbox is free,     *)
(* claimed by a woken poster, holds a message, or holds one that a woken     *)
(* fetcher has claimed, so that the buffer is neither overrun nor read when  *)
(* it is empty; and whoever waits is in the queue of the semaphore that its  *)
(* counter says it waits for.                                                *)
THEOREM MailboxIsSound == ThreadsSpec => []MailboxSound
  BY MailboxHolds, Facts, OneEachFact, PTL DEF ThreadsSpec

(* For any number of threads, messages and slots: a mailbox is a bounded     *)
(* queue.  Messages are fetched in the order in which they were posted,      *)
(* those posted ahead first, none twice and none lost but by a reset, and a  *)
(* full mailbox accepts none.                                                *)
THEOREM MailboxIsQueue == ThreadsSpec => IsQueue
  BY MailboxHolds, Facts, OneEachFact, PTL
     DEF ThreadsSpec, IsQueue, MB!IsQueue, MB!Q!Spec

=============================================================================
