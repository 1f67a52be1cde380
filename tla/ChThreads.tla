----------------------------- MODULE ChThreads ------------------------------
(***************************************************************************)
(* The life of dynamic threads: os/rt/src/chdynamic.c, chregistry.c, the   *)
(* creation, the end and chThdWait of chthreads.c, and osThreadTerminate   *)
(* of the CMSIS layer.                                                     *)
(*                                                                         *)
(* A thread object is freed by whoever drops its last reference after the  *)
(* thread ended.  References are held by the creator, by those it passes   *)
(* one to (chThdAddRef) and by a walk over the registry, a doubly linked   *)
(* list that is rooted in the ready list.  chThdRelease takes a reference  *)
(* off under the kernel lock, but decides, unlinks and frees outside of    *)
(* it, and another thread may run in between.                              *)
(***************************************************************************)
EXTENDS Integers, FiniteSets

CONSTANTS Obj,     \* dynamic thread objects
          Actor,   \* the threads that hold references and walk the registry
          Root,    \* ch.rlist
          None,
          MaxRefs  \* bound on the references to one object

VARIABLES state,    \* per object: "none", "run", "final" or "freed"
          refs,     \* p_refs
          newer, older, \* p_newer and p_older, r_newer and r_older
          pc,       \* per actor: "idle"; in chThdWait; in chThdRelease
          tp,       \* per actor: the thread it waits for or releases
          seen,     \* per actor: the local refs of chThdRelease
          at,       \* per actor: the thread its registry walk is at
          has,      \* history: per actor, the objects it was given references to
          early,    \* history: objects that lost the last reference while they ran
          overlap   \* may others run in the unlocked part of chThdRelease?
                    \* Never changes.

vars == <<state, refs, newer, older, pc, tp, seen, at, has, early, overlap>>

Node == Obj \cup {Root}

Releasing == {"test", "unlink", "unlink2", "free"}

Init == /\ state = [o \in Obj |-> "none"]
        /\ refs = [o \in Obj |-> 0]
        /\ newer = [n \in Node |-> Root]
        /\ older = [n \in Node |-> Root]
        /\ pc = [a \in Actor |-> "idle"]
        /\ tp = [a \in Actor |-> None]
        /\ seen = [a \in Actor |-> 0]
        /\ at = [a \in Actor |-> None]
        /\ has = [a \in Actor |-> {}]
        /\ early = {}
        /\ overlap \in BOOLEAN

(* Whether a may go on: outside of overlap, nobody else is in the unlocked   *)
(* part of a release.                                                        *)
Free(a) == overlap \/ \A b \in Actor \ {a} : pc[b] \notin Releasing

-----------------------------------------------------------------------------

(* chThdCreateFromHeap, chThdCreateFromMemoryPool: one reference, and the    *)
(* newest place of the registry (REG_INSERT).                                *)
Create(a, o) ==
  /\ pc[a] = "idle" /\ Free(a)
  /\ state[o] = "none"
  /\ state' = [state EXCEPT ![o] = "run"]
  /\ refs' = [refs EXCEPT ![o] = 1]
  /\ newer' = [newer EXCEPT ![o] = Root, ![older[Root]] = o]
  /\ older' = [older EXCEPT ![o] = older[Root], ![Root] = o]
  /\ has' = [has EXCEPT ![a] = @ \cup {o}]
  /\ UNCHANGED <<pc, tp, seen, at, early>>

(* chThdAddRef: a hands a reference to b.                                    *)
AddRef(a, b, o) ==
  /\ pc[a] = "idle" /\ Free(a)
  /\ o \in has[a] /\ o \notin has[b]
  /\ refs[o] < MaxRefs
  /\ refs' = [refs EXCEPT ![o] = @ + 1]
  /\ has' = [has EXCEPT ![b] = @ \cup {o}]
  /\ UNCHANGED <<state, newer, older, pc, tp, seen, at, early>>

(* chThdExitS: those who wait for the thread are woken; a dynamic thread     *)
(* stays in the registry.                                                    *)
Exit(o) ==
  /\ state[o] = "run"
  /\ state' = [state EXCEPT ![o] = "final"]
  /\ pc' = [a \in Actor |-> IF pc[a] = "wtexit" /\ tp[a] = o THEN "woken" ELSE pc[a]]
  /\ UNCHANGED <<refs, newer, older, tp, seen, at, has, early>>

(* Mutant: chThdWait does not look at the state of the thread. *)
WaitAlways(a, o) ==
  /\ pc[a] = "idle" /\ Free(a)
  /\ o \in has[a]
  /\ pc' = [pc EXCEPT ![a] = "wtexit"]
  /\ tp' = [tp EXCEPT ![a] = o]
  /\ UNCHANGED <<state, refs, newer, older, seen, at, has, early>>

(* chThdWait, up to the wait for the end of the thread; osThreadTerminate of *)
(* another thread, which asks it to end first.                               *)
Wait(a, o) ==
  /\ pc[a] = "idle" /\ Free(a)
  /\ o \in has[a]
  /\ pc' = [pc EXCEPT ![a] = IF state[o] = "final" THEN "woken" ELSE "wtexit"]
  /\ tp' = [tp EXCEPT ![a] = o]
  /\ UNCHANGED <<state, refs, newer, older, seen, at, has, early>>

(* Mutant: the count is read before it is taken down. *)
DropStale(a, o) ==
  /\ refs' = [refs EXCEPT ![o] = @ - 1]
  /\ seen' = [seen EXCEPT ![a] = refs[o]]
  /\ tp' = [tp EXCEPT ![a] = o]
  /\ pc' = [pc EXCEPT ![a] = "test"]
  /\ early' = IF refs[o] = 1 /\ state[o] = "run" THEN early \cup {o} ELSE early

(* The locked part of chThdRelease                                           *)
Drop(a, o) ==
  /\ refs' = [refs EXCEPT ![o] = @ - 1]
  /\ seen' = [seen EXCEPT ![a] = refs[o] - 1]
  /\ tp' = [tp EXCEPT ![a] = o]
  /\ pc' = [pc EXCEPT ![a] = "test"]
  /\ early' = IF refs[o] = 1 /\ state[o] = "run" THEN early \cup {o} ELSE early

(* chThdRelease by an owner of a reference, by itself or at the end of       *)
(* chThdWait                                                                 *)
Release(a, o) ==
  /\ Free(a)
  /\ \/ pc[a] = "idle" /\ o \in has[a]
     \/ pc[a] = "woken" /\ o = tp[a]
  /\ Drop(a, o)
  /\ has' = [has EXCEPT ![a] = @ \ {o}]
  /\ UNCHANGED <<state, newer, older, at>>

Done(a) == /\ pc' = [pc EXCEPT ![a] = "idle"]
           /\ tp' = [tp EXCEPT ![a] = None]
           /\ seen' = [seen EXCEPT ![a] = 0]

(* Mutant: the memory goes back while one reference is left. *)
TestOne(a) ==
  /\ pc[a] = "test"
  /\ IF seen[a] <= 1 /\ state[tp[a]] = "final"
       THEN pc' = [pc EXCEPT ![a] = "unlink"] /\ UNCHANGED <<tp, seen>>
       ELSE Done(a)
  /\ UNCHANGED <<state, refs, newer, older, at, has, early>>

(* The last reference to a thread that ended?                                *)
Test(a) ==
  /\ pc[a] = "test"
  /\ IF seen[a] = 0 /\ state[tp[a]] = "final"
       THEN pc' = [pc EXCEPT ![a] = "unlink"] /\ UNCHANGED <<tp, seen>>
       ELSE Done(a)
  /\ UNCHANGED <<state, refs, newer, older, at, has, early>>

(* REG_REMOVE, statement by statement                                        *)
Unlink(a) ==
  /\ pc[a] = "unlink"
  /\ newer' = [newer EXCEPT ![older[tp[a]]] = newer[tp[a]]]
  /\ pc' = [pc EXCEPT ![a] = "unlink2"]
  /\ UNCHANGED <<state, refs, older, tp, seen, at, has, early>>

(* Mutant: the second link is not set. *)
Unlink2Skip(a) ==
  /\ pc[a] = "unlink2"
  /\ pc' = [pc EXCEPT ![a] = "free"]
  /\ UNCHANGED <<state, refs, newer, older, tp, seen, at, has, early>>

Unlink2(a) ==
  /\ pc[a] = "unlink2"
  /\ older' = [older EXCEPT ![newer[tp[a]]] = older[tp[a]]]
  /\ pc' = [pc EXCEPT ![a] = "free"]
  /\ UNCHANGED <<state, refs, newer, tp, seen, at, has, early>>

(* chHeapFree, chPoolFree                                                    *)
FreeObj(a) ==
  /\ pc[a] = "free"
  /\ state' = [state EXCEPT ![tp[a]] = "freed"]
  /\ Done(a)
  /\ UNCHANGED <<refs, newer, older, at, has, early>>

(* chRegFirstThread, and chRegNextThread from a static thread such as main,  *)
(* which has no memory to give back                                          *)
First(a) ==
  LET o == newer[Root]
  IN /\ pc[a] = "idle" /\ at[a] = None /\ Free(a)
     /\ o # Root /\ refs[o] < MaxRefs
     /\ refs' = [refs EXCEPT ![o] = @ + 1]
     /\ at' = [at EXCEPT ![a] = o]
     /\ UNCHANGED <<state, newer, older, pc, tp, seen, has, early>>

(* Mutant: the walk leaves the thread before it holds the next. *)
NextThreadLoose(a) ==
  LET o == at[a]
      n == newer[o]
  IN /\ pc[a] = "idle" /\ o # None /\ Free(a)
     /\ Drop(a, o)
     /\ at' = [at EXCEPT ![a] = IF n = Root THEN None ELSE n]
     /\ UNCHANGED <<state, newer, older, has>>

(* chRegNextThread: a reference to the next thread, then chThdRelease of the *)
(* one before it.  Its two locked parts are one step: in between, the walk   *)
(* has a reference to both.                                                  *)
NextThread(a) ==
  LET o == at[a]
      n == newer[o]
  IN /\ pc[a] = "idle" /\ o # None /\ Free(a)
     /\ n # Root => refs[n] < MaxRefs
     /\ refs' = [x \in Obj |-> IF x = o THEN refs[x] - 1
                               ELSE IF x = n THEN refs[x] + 1 ELSE refs[x]]
     /\ seen' = [seen EXCEPT ![a] = refs[o] - 1]
     /\ tp' = [tp EXCEPT ![a] = o]
     /\ pc' = [pc EXCEPT ![a] = "test"]
     /\ early' = IF refs[o] = 1 /\ state[o] = "run" THEN early \cup {o} ELSE early
     /\ at' = [at EXCEPT ![a] = IF n = Root THEN None ELSE n]
     /\ UNCHANGED <<state, newer, older, has>>

Next == /\ \/ \E o \in Obj : Exit(o)
           \/ \E a \in Actor :
                \/ Test(a) \/ Unlink(a) \/ Unlink2(a) \/ FreeObj(a)
                \/ First(a) \/ NextThread(a)
                \/ \E o \in Obj : Create(a, o) \/ Wait(a, o) \/ Release(a, o)
                \/ \E o \in Obj, b \in Actor \ {a} : AddRef(a, b, o)
        /\ UNCHANGED overlap

Spec == Init /\ [][Next]_vars

-----------------------------------------------------------------------------

(* The state of the life cycle is well formed.                               *)
TypeOK == /\ state \in [Obj -> {"none", "run", "final", "freed"}]
          /\ refs \in [Obj -> -1..MaxRefs]
          /\ newer \in [Node -> Node] /\ older \in [Node -> Node]
          /\ pc \in [Actor -> {"idle", "wtexit", "woken"} \cup Releasing]
          /\ tp \in [Actor -> Obj \cup {None}]
          /\ at \in [Actor -> Obj \cup {None}]
          /\ has \in [Actor -> SUBSET Obj]
          /\ early \in SUBSET Obj /\ overlap \in BOOLEAN

(* What an actor's pointers are good for: its references, the thread its     *)
(* walk is at, the one it waits for and the one it is about to free.         *)
Pointers(a) == has[a] \cup ({at[a]} \ {None})
                 \cup (IF pc[a] \in {"wtexit", "woken", "unlink", "unlink2", "free"}
                         THEN {tp[a]} ELSE {})

(* chRegFirstThread adds a reference "in order to make sure its status is    *)
(* not lost", and so do chThdAddRef and the creation: as long as somebody    *)
(* has a reference, or is about to free a thread, its memory is not given    *)
(* back by somebody else.                                                    *)
ReferenceKeepsThread == \A a \in Actor : \A o \in Pointers(a) : state[o] # "freed"

(* It is so when releases do not overlap.                                    *)
ReferenceKeepsThreadAlone == overlap \/ ReferenceKeepsThread

(* The references counted are those that are held: by owners and by walks.   *)
RefsExact ==
  \A o \in Obj : state[o] \in {"run", "final"} =>
    refs[o] = Cardinality({a \in Actor : o \in has[a]})
                + Cardinality({a \in Actor : at[a] = o})

(* The kth of the n threads l; the root is before and behind them.           *)
Place(n, l, k) == IF k \in 1..n THEN l[k] ELSE Root

(* When nobody is changing it, the registry is a cycle through the root and  *)
(* the threads that were created and not freed, each once and the same in    *)
(* both directions, although the links are changed without the lock.         *)
RegistryExact ==
  (~overlap /\ \A a \in Actor : pc[a] \notin Releasing) =>
    LET live == {o \in Obj : state[o] \in {"run", "final"}}
    IN \E n \in 0..Cardinality(Obj) : \E l \in [1..n -> live] :
         /\ \A i, j \in 1..n : l[i] = l[j] => i = j
         /\ \A o \in live : \E i \in 1..n : l[i] = o
         /\ \A k \in 0..n : /\ newer[Place(n, l, k)] = Place(n, l, k + 1)
                            /\ older[Place(n, l, k + 1)] = Place(n, l, k)

(* The note of osThreadTerminate, "no memory will be recovered", is about    *)
(* the only leak: memory is left behind only when the last reference was     *)
(* dropped while the thread ran.                                             *)
LeakOnlyEarly ==
  \A o \in Obj : (state[o] = "final" /\ refs[o] = 0
                    /\ \A a \in Actor : ~(pc[a] \in Releasing /\ tp[a] = o)) => o \in early

(* Nobody waits for the end of a thread that has ended.                      *)
WaitedForRuns == \A a \in Actor : pc[a] = "wtexit" => state[tp[a]] = "run"

=============================================================================
