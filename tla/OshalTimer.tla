----------------------------- MODULE OshalTimer -----------------------------
(***************************************************************************)
(* Timers of the OS abstraction: lib/oshal/oshal_chibi.c.  An interrupt    *)
(* posts each expiry to a mailbox of a few places, and one thread, the one *)
(* with the highest priority, calls the functions of the timers.  A timer  *)
(* is stopped and deleted without a look at the mailbox.  This is sound    *)
(* only because no other thread runs before the timer thread has emptied   *)
(* it, and a callback that sleeps (slow) takes that away.                  *)
(***************************************************************************)
EXTENDS Integers, Sequences

CONSTANTS Tm, None,
          MailSize  \* places of g_stTmQueue

VARIABLES mem,    \* per timer: "none", "live" or "freed"
          once,   \* osTimerOnce, or osTimerPeriodic
          armed,  \* its virtual timer is armed
          mail,   \* g_stTmMail
          run,    \* the timer whose function runs
          acted,  \* that function has changed its timer
          halted, \* history: a thread stopped or deleted it and did not start it again
          slow    \* may a function sleep?  Never changes.

vars == <<mem, once, armed, mail, run, acted, halted, slow>>

Pending == {mail[k] : k \in 1..Len(mail)}

Init == /\ mem = [t \in Tm |-> "none"]
        /\ once = [t \in Tm |-> FALSE]
        /\ armed = [t \in Tm |-> FALSE]
        /\ mail = <<>> /\ run = None /\ acted = FALSE
        /\ halted = [t \in Tm |-> FALSE]
        /\ slow \in BOOLEAN

(* Other threads run while the timer thread waits: for mail, or in a         *)
(* callback.                                                                 *)
ThreadsRun == slow \/ (mail = <<>> /\ run = None)

-----------------------------------------------------------------------------

(* oshalTimerCreate *)
Create(t, o) == /\ ThreadsRun /\ mem[t] = "none"
                /\ mem' = [mem EXCEPT ![t] = "live"]
                /\ once' = [once EXCEPT ![t] = o]
                /\ UNCHANGED <<armed, mail, run, acted, halted>>

(* oshalTimerStart *)
Start(t) == /\ ThreadsRun /\ mem[t] = "live"
            /\ armed' = [armed EXCEPT ![t] = TRUE]
            /\ halted' = [halted EXCEPT ![t] = FALSE]
            /\ UNCHANGED <<mem, once, mail, run, acted>>

(* Mutant: only a timer that fires once is disarmed. *)
StopOnce(t) == /\ ThreadsRun /\ mem[t] = "live"
               /\ armed' = [armed EXCEPT ![t] = @ /\ ~once[t]]
               /\ halted' = [halted EXCEPT ![t] = TRUE]
               /\ UNCHANGED <<mem, once, mail, run, acted>>

(* oshalTimerStop *)
Stop(t) == /\ ThreadsRun /\ mem[t] = "live"
           /\ armed' = [armed EXCEPT ![t] = FALSE]
           /\ halted' = [halted EXCEPT ![t] = TRUE]
           /\ UNCHANGED <<mem, once, mail, run, acted>>

(* Mutant: the timer is freed while it is armed. *)
DeleteArmed(t) == /\ ThreadsRun /\ mem[t] = "live"
                  /\ mem' = [mem EXCEPT ![t] = "freed"]
                  /\ halted' = [halted EXCEPT ![t] = TRUE]
                  /\ UNCHANGED <<once, armed, mail, run, acted>>

(* oshalTimerDelete: it is stopped and freed, and nothing can expire in      *)
(* between.                                                                  *)
Delete(t) == /\ ThreadsRun /\ mem[t] = "live"
             /\ armed' = [armed EXCEPT ![t] = FALSE]
             /\ mem' = [mem EXCEPT ![t] = "freed"]
             /\ halted' = [halted EXCEPT ![t] = TRUE]
             /\ UNCHANGED <<once, mail, run, acted>>

(* What the function of a timer does to it, once per call: it starts it      *)
(* again, stops it, or deletes it if it fires once (_cfg_sysLedSwAction).    *)
CallbackActs ==
  /\ run # None /\ ~acted /\ mem[run] = "live"
  /\ acted' = TRUE
  /\ \/ armed' = [armed EXCEPT ![run] = TRUE] /\ UNCHANGED mem
     \/ armed' = [armed EXCEPT ![run] = FALSE] /\ UNCHANGED mem
     \/ /\ once[run]
        /\ armed' = [armed EXCEPT ![run] = FALSE]
        /\ mem' = [mem EXCEPT ![run] = "freed"]
  /\ UNCHANGED <<once, mail, run, halted>>

(* Mutant: the newest expiry is served first. *)
ExpireAhead(t) == /\ armed[t]
                  /\ mail' = IF Len(mail) < MailSize THEN <<t>> \o mail ELSE mail
                  /\ armed' = [armed EXCEPT ![t] = ~once[t]]
                  /\ UNCHANGED <<mem, once, run, acted, halted>>

(* Mutant: the mailbox is not checked for room. *)
ExpireOverruns(t) == /\ armed[t]
                     /\ mail' = Append(mail, t)
                     /\ armed' = [armed EXCEPT ![t] = ~once[t]]
                     /\ UNCHANGED <<mem, once, run, acted, halted>>

(* _oshal_timerCb: the post fails when the mailbox is full, and nobody looks *)
(* at its result.                                                            *)
Expire(t) == /\ armed[t]
             /\ mail' = IF Len(mail) < MailSize THEN Append(mail, t) ELSE mail
             /\ armed' = [armed EXCEPT ![t] = ~once[t]]
             /\ UNCHANGED <<mem, once, run, acted, halted>>

(* _oshal_timerServeThd fetches a timer and calls its function ...           *)
Serve == /\ run = None /\ mail # <<>>
         /\ run' = Head(mail)
         /\ mail' = Tail(mail)
         /\ UNCHANGED <<mem, once, armed, acted, halted>>

(* ... which returns.                                                        *)
Return == /\ run # None
          /\ run' = None /\ acted' = FALSE
          /\ UNCHANGED <<mem, once, armed, mail, halted>>

Next == /\ \/ \E t \in Tm : \/ Start(t) \/ Stop(t) \/ Delete(t) \/ Expire(t)
                            \/ \E o \in BOOLEAN : Create(t, o)
           \/ CallbackActs \/ Serve \/ Return
        /\ UNCHANGED slow

Fairness == WF_vars(Serve /\ UNCHANGED slow) /\ WF_vars(Return /\ UNCHANGED slow)

Spec == Init /\ [][Next]_vars /\ Fairness

-----------------------------------------------------------------------------

(* Timers, mailbox and the running function are what the code can hold.      *)
TypeOK == /\ mem \in [Tm -> {"none", "live", "freed"}]
          /\ armed \in [Tm -> BOOLEAN] /\ once \in [Tm -> BOOLEAN]
          /\ Pending \subseteq Tm /\ Len(mail) <= MailSize
          /\ run \in Tm \cup {None}

(* The timer thread uses no timer after it was freed, and calls no function  *)
(* of a timer that a thread has stopped, if no function sleeps: expiries in  *)
(* the mailbox are of live timers that were not stopped since.               *)
PendingIsLive == slow \/ \A t \in Pending : mem[t] = "live" /\ ~halted[t]

(* An expiry that was posted is served, whatever else expires, if functions  *)
(* return.                                                                   *)
PostedIsServed == \A t \in Tm : []<>(t \in Pending => run = t)

=============================================================================
