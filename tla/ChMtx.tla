-------------------------------- MODULE ChMtx -------------------------------
(***************************************************************************)
(* Mutexes with priority inheritance and condition variables, and the      *)
(* scheduler they act on: os/rt/src/chmtx.c, chcond.c, chschd.c and        *)
(* chThdSetPriority of chthreads.c.                                        *)
(*                                                                         *)
(* One thread runs.  Those that can run are in the ready list, those that  *)
(* wait in the queue of a mutex or of a condition variable, all in the     *)
(* order of their priorities.  A thread that waits for a mutex lends its   *)
(* priority to the owner, to the owner of the mutex that owner waits for,  *)
(* and so on.  Other reasons to wait (a sleep, a semaphore) are one state, *)
(* from which an interrupt handler wakes a thread.                         *)
(***************************************************************************)
EXTENDS Integers, Sequences, FiniteSets, FiniteSetsExt, SequencesExt

CONSTANTS Thread, Idle,   \* the threads, and the idle thread
          Mutex, Cond,    \* mutexes are numbers, the order in which InOrder locks them
          MaxPrio,
          None, Asleep,
          InOrder,        \* do threads lock mutexes in ascending order only?
          LowersOwning    \* do threads lower their priority while they own a mutex?

VARIABLES prio, real,     \* p_prio, p_realprio
          cur, ready,     \* currp and the ready list
          at,             \* what a thread waits for, None if it can run
          queue,          \* of mutexes and condition variables
          owner, held,    \* m_owner, and p_mtxlist (the mutex locked last is first)
          back            \* the mutex chCondWait locks again when the thread runs

vars == <<prio, real, cur, ready, at, queue, owner, held, back>>

All == Thread \cup {Idle}

(* Every thread sleeps, with any priority.                                   *)
Init == /\ real \in {f \in [All -> 0..MaxPrio] : \A t \in All : f[t] = 0 <=> t = Idle}
        /\ prio = real
        /\ cur = Idle /\ ready = <<>>
        /\ at = [t \in All |-> IF t = Idle THEN None ELSE Asleep]
        /\ queue = [o \in Mutex \cup Cond |-> <<>>]
        /\ owner = [m \in Mutex |-> None]
        /\ held = [t \in All |-> <<>>]
        /\ back = [t \in All |-> None]

-----------------------------------------------------------------------------
(* Queues and the scheduler                                                  *)

Put(s, i, t) == SubSeq(s, 1, i) \o <<t>> \o SubSeq(s, i + 1, Len(s))

Members(s) == {s[k] : k \in 1..Len(s)}

Without(s, t) == SelectSeq(s, LAMBDA u : u # t)

(* Mutant: queue_insert instead of queue_prio_insert. *)
BehindAll(s, t, p) == Append(s, t)

(* queue_prio_insert, chSchReadyI: behind the threads of its priority        *)
Behind(s, t, p) == Put(s, Cardinality({k \in 1..Len(s) : \A j \in 1..k : p[s[j]] >= p[t]}), t)

Ahead(s, t, p) == Put(s, Cardinality({k \in 1..Len(s) : \A j \in 1..k : p[s[j]] > p[t]}), t)

(* chSchGoSleepS: the first of the ready list r runs.                        *)
GoSleep(r) == cur' = Head(r) /\ ready' = Tail(r)

(* Mutant: the comparison is the wrong way round. *)
WakeupLow(r, t, p) ==
  IF p[t] >= p[cur] THEN cur' = cur /\ ready' = Behind(r, t, p)
                    ELSE cur' = t /\ ready' = Behind(r, cur, p)

(* chSchWakeupS                                                              *)
Wakeup(r, t, p) ==
  IF p[t] <= p[cur] THEN cur' = cur /\ ready' = Behind(r, t, p)
                    ELSE cur' = t /\ ready' = Behind(r, cur, p)

(* chSchRescheduleS                                                          *)
Reschedule(r, p) ==
  IF r # <<>> /\ p[Head(r)] > p[cur]
    THEN cur' = Head(r) /\ ready' = Ahead(Tail(r), cur, p)
    ELSE cur' = cur /\ ready' = r

(* The threads ts become ready, one after the other.                         *)
AllBehind(r, ts, p) == FoldLeft(LAMBDA s, t : Behind(s, t, p), r, ts)

-----------------------------------------------------------------------------
(* Mutexes                                                                   *)

(* Mutant: only the owner of the mutex inherits. *)
BoostedOne(m, p) == {t \in {owner[m]} : prio[t] < p}

(* The threads that get priority p when a thread that has it waits for m.    *)
Boosted(m, p) ==
  LET up[k \in Nat] ==
        IF k = 0 THEN owner[m]
        ELSE LET t == up[k - 1]
             IN IF t = None \/ prio[t] >= p \/ at[t] \notin Mutex THEN None ELSE owner[at[t]]
  IN {t \in {up[k] : k \in 0..Cardinality(Thread)} \ {None} : prio[t] < p}

(* The sequence s with the threads of B, if any are in it, inserted again.   *)
Requeued(s, B, p) ==
  LET in == B \cap Members(s)
  IN IF in = {} THEN s
     ELSE LET t == CHOOSE t \in in : TRUE IN Behind(Without(s, t), t, p)

(* chMtxLockS by the running thread                                          *)
LockS(t, m) ==
  IF owner[m] = None
    THEN /\ owner' = [owner EXCEPT ![m] = t]
         /\ held' = [held EXCEPT ![t] = <<m>> \o @]
         /\ UNCHANGED <<prio, cur, ready, at, queue>>
    ELSE LET B == Boosted(m, prio[t])
             p == [u \in All |-> IF u \in B THEN prio[t] ELSE prio[u]]
             q == [o \in Mutex \cup Cond |-> Requeued(queue[o], B, p)]
         IN /\ prio' = p
            /\ queue' = [q EXCEPT ![m] = Behind(@, t, p)]
            /\ at' = [at EXCEPT ![t] = m]
            /\ GoSleep(Requeued(ready, B, p))
            /\ UNCHANGED <<owner, held>>

Runs(t) == cur = t /\ t # Idle /\ back[t] = None

MtxLock(t, m) ==
  /\ Runs(t) /\ owner[m] # t
  /\ InOrder => \A k \in 1..Len(held[t]) : held[t][k] < m
  /\ LockS(t, m)
  /\ UNCHANGED <<real, back>>

(* The priority a thread is left with when the mutexes ms remain.            *)
PrioFor(t, ms) ==
  Max({real[t]} \cup {prio[Head(queue[ms[k]])] : k \in {j \in 1..Len(ms) : queue[ms[j]] # <<>>}})

(* Mutant: the new owner does not get the mutex in its list. *)
ReleaseUnlisted(t, m) ==
  LET w == IF queue[m] = <<>> THEN None ELSE Head(queue[m])
  IN /\ owner' = [owner EXCEPT ![m] = w]
     /\ held' = [held EXCEPT ![t] = Tail(@)]
     /\ prio' = IF w = None THEN prio ELSE [prio EXCEPT ![t] = PrioFor(t, Tail(held[t]))]

(* The mutex locked last goes to the first thread that waits for it.         *)
Release(t, m) ==
  IF queue[m] = <<>>
    THEN /\ owner' = [owner EXCEPT ![m] = None]
         /\ held' = [held EXCEPT ![t] = Tail(@)]
         /\ prio' = prio
    ELSE LET w == Head(queue[m])
         IN /\ owner' = [owner EXCEPT ![m] = w]
            /\ held' = [held EXCEPT ![t] = Tail(@), ![w] = <<m>> \o @]
            /\ prio' = [prio EXCEPT ![t] = PrioFor(t, Tail(held[t]))]

(* What is left of the queue of a mutex when it is released.                 *)
Rest(m) == IF queue[m] = <<>> THEN <<>> ELSE Tail(queue[m])

MtxUnlock(t) ==
  /\ Runs(t) /\ held[t] # <<>>
  /\ LET m == Head(held[t])
     IN /\ Release(t, m)
        /\ queue' = [queue EXCEPT ![m] = Rest(m)]
        /\ IF queue[m] = <<>>
             THEN UNCHANGED <<cur, ready, at>>
             ELSE /\ at' = [at EXCEPT ![Head(queue[m])] = None]
                  /\ Wakeup(ready, Head(queue[m]), prio')
  /\ UNCHANGED <<real, back>>

MtxUnlockAll(t) ==
  LET ms      == held[t]
      waited  == SelectSeq(ms, LAMBDA m : queue[m] # <<>>)
      heads   == [k \in 1..Len(waited) |-> Head(queue[waited[k]])]
      isHead(u) == \E k \in 1..Len(heads) : heads[k] = u
  IN /\ Runs(t) /\ ms # <<>>
     /\ owner' = [m \in Mutex |-> IF m \notin Members(ms) THEN owner[m]
                                  ELSE IF queue[m] = <<>> THEN None ELSE Head(queue[m])]
     /\ held' = [u \in All |->
                   IF u = t THEN <<>>
                   ELSE IF isHead(u) THEN <<waited[CHOOSE k \in 1..Len(heads) : heads[k] = u]>> \o held[u]
                   ELSE held[u]]
     /\ queue' = [o \in Mutex \cup Cond |->
                    IF o \in Members(ms) THEN Rest(o) ELSE queue[o]]
     /\ at' = [u \in All |-> IF isHead(u) THEN None ELSE at[u]]
     /\ prio' = [prio EXCEPT ![t] = real[t]]
     /\ Reschedule(AllBehind(ready, heads, prio), prio')
     /\ UNCHANGED <<real, back>>

-----------------------------------------------------------------------------
(* Condition variables                                                       *)

(* Mutant: the mutex locked first is released, not the one locked last. *)
CondWaitFirst(t, c) ==
  /\ Runs(t) /\ held[t] # <<>>
  /\ LET m == Last(held[t])
         w == queue[m] # <<>>
     IN /\ owner' = [owner EXCEPT ![m] = IF w THEN Head(queue[m]) ELSE None]
        /\ held' = [u \in All |-> IF u = t THEN Front(held[t])
                                 ELSE IF owner'[m] = u THEN <<m>> \o held[u] ELSE held[u]]
        /\ prio' = IF w THEN [prio EXCEPT ![t] = PrioFor(t, Front(held[t]))] ELSE prio
        /\ queue' = [queue EXCEPT ![m] = Rest(m), ![c] = Behind(@, t, prio')]
        /\ at' = [u \in All |-> IF u = t THEN c ELSE IF w /\ u = Head(queue[m]) THEN None ELSE at[u]]
        /\ GoSleep(IF w THEN Behind(ready, Head(queue[m]), prio') ELSE ready)
        /\ back' = [back EXCEPT ![t] = m]
  /\ UNCHANGED real

(* chCondWait, chCondWaitTimeout: the mutex locked last is released.         *)
CondWait(t, c) ==
  /\ Runs(t) /\ held[t] # <<>>
  /\ LET m == Head(held[t])
         w == queue[m] # <<>>
     IN /\ Release(t, m)
        /\ queue' = [queue EXCEPT ![m] = Rest(m), ![c] = Behind(@, t, prio')]
        /\ at' = [u \in All |-> IF u = t THEN c ELSE IF w /\ u = Head(queue[m]) THEN None ELSE at[u]]
        /\ GoSleep(IF w THEN Behind(ready, Head(queue[m]), prio') ELSE ready)
        /\ back' = [back EXCEPT ![t] = m]
  /\ UNCHANGED real

CondSignal(t, c) ==
  /\ Runs(t) /\ queue[c] # <<>>
  /\ queue' = [queue EXCEPT ![c] = Tail(@)]
  /\ at' = [at EXCEPT ![Head(queue[c])] = None]
  /\ Wakeup(ready, Head(queue[c]), prio)
  /\ UNCHANGED <<prio, real, owner, held, back>>

CondBroadcast(t, c) ==
  /\ Runs(t) /\ queue[c] # <<>>
  /\ queue' = [queue EXCEPT ![c] = <<>>]
  /\ at' = [u \in All |-> IF at[u] = c THEN None ELSE at[u]]
  /\ Reschedule(AllBehind(ready, queue[c], prio), prio)
  /\ UNCHANGED <<prio, real, owner, held, back>>

(* The thread runs again in chCondWait, with the system still locked.        *)
CondRelock(t) ==
  /\ cur = t /\ back[t] # None
  /\ LockS(t, back[t])
  /\ back' = [back EXCEPT ![t] = None]
  /\ real' = real

-----------------------------------------------------------------------------
(* Interrupt handlers, sleeping, priorities                                  *)

Unlocked == back[cur] = None

(* wakeup: the time of a chCondWaitTimeout runs out; it does not lock again. *)
CondTimeout(t) ==
  /\ Unlocked /\ at[t] \in Cond
  /\ queue' = [queue EXCEPT ![at[t]] = Without(@, t)]
  /\ at' = [at EXCEPT ![t] = None]
  /\ back' = [back EXCEPT ![t] = None]
  /\ Reschedule(Behind(ready, t, prio), prio)
  /\ UNCHANGED <<prio, real, owner, held>>

Sleep(t) ==
  /\ Runs(t)
  /\ at' = [at EXCEPT ![t] = Asleep]
  /\ GoSleep(ready)
  /\ UNCHANGED <<prio, real, queue, owner, held, back>>

Wake(t) ==
  /\ Unlocked /\ at[t] = Asleep
  /\ at' = [at EXCEPT ![t] = None]
  /\ Reschedule(Behind(ready, t, prio), prio)
  /\ UNCHANGED <<prio, real, queue, owner, held, back>>

(* chThdSetPriority                                                          *)
SetPriority(t, p) ==
  /\ Runs(t)
  /\ LowersOwning \/ held[t] = <<>> \/ p >= real[t]
  /\ real' = [real EXCEPT ![t] = p]
  /\ prio' = IF prio[t] = real[t] \/ p > prio[t] THEN [prio EXCEPT ![t] = p] ELSE prio
  /\ Reschedule(ready, prio')
  /\ UNCHANGED <<at, queue, owner, held, back>>

Next == \E t \in Thread :
          \/ \E m \in Mutex : MtxLock(t, m)
          \/ MtxUnlock(t) \/ MtxUnlockAll(t)
          \/ \E c \in Cond : CondWait(t, c) \/ CondSignal(t, c) \/ CondBroadcast(t, c)
          \/ CondRelock(t) \/ CondTimeout(t)
          \/ Sleep(t) \/ Wake(t)
          \/ \E p \in 1..MaxPrio : SetPriority(t, p)

Spec == Init /\ [][Next]_vars

-----------------------------------------------------------------------------

(* Every thread that can run is the running one or in the ready list, and    *)
(* every other is in the queue of what it waits for, once.                   *)
TypeOK == /\ prio \in [All -> 0..MaxPrio] /\ real \in [All -> 0..MaxPrio]
          /\ at \in [All -> Mutex \cup Cond \cup {None, Asleep}]
          /\ Members(ready) \cup {cur} = {t \in All : at[t] = None}
          /\ Cardinality(Members(ready) \ {cur}) = Len(ready)
          /\ \A o \in Mutex \cup Cond : /\ Members(queue[o]) = {t \in All : at[t] = o}
                                        /\ Cardinality(Members(queue[o])) = Len(queue[o])
          /\ back \in [All -> Mutex \cup {None}]

(* A mutex is owned by the one thread that has it in its list, and threads   *)
(* wait only for mutexes that are owned (the assertions "not owner" and "not *)
(* owned" of chMtxLockS hold when a thread that waited runs again).          *)
OwnersAgree ==
  \A m \in Mutex :
    /\ \A t \in All : owner[m] = t <=> m \in Members(held[t])
    /\ owner[m] = None => queue[m] = <<>>
    /\ queue[m] # <<>> => \A k \in 1..Len(queue[m]) : queue[m][k] # owner[m]

(* The running thread has the highest priority of those that can run, after  *)
(* every operation, although chSchWakeupS does not look at the ready list.   *)
RunsHighest == \A t \in Members(ready) : prio[t] <= prio[cur]

(* The ready list and all queues are in the order of priorities, although    *)
(* priorities change while threads are in them.                              *)
Sorted(s) == \A j, k \in 1..Len(s) : j < k => prio[s[j]] >= prio[s[k]]

QueuesSorted == Sorted(ready) /\ \A o \in Mutex \cup Cond : Sorted(queue[o])

(* The priority of a thread is the highest of its own and of those of the    *)
(* threads that wait for its mutexes: what it inherits reaches all owners up *)
(* the chain, and it is given back when the mutex is released.               *)
PrioExact ==
  \A t \in All : prio[t] = Max({real[t]} \cup {prio[u] : u \in {v \in All : at[v] \in Members(held[t])}})

(* No threads wait for each other in a circle (the comment of chmtx.c says   *)
(* that unlocking in reverse order ensures that deadlocks are not possible;  *)
(* locking in one order does).                                               *)
NoCircularWait ==
  \A t \in Thread :
    LET up[k \in Nat] ==
          IF k = 0 THEN t
          ELSE IF up[k - 1] # None /\ at[up[k - 1]] \in Mutex THEN owner[at[up[k - 1]]] ELSE None
    IN \A k \in 1..Cardinality(Thread) : up[k] # t

=============================================================================
