------------------------------- MODULE PppFsm -------------------------------
(***************************************************************************)
(* The negotiation of a PPP link: two machines of                          *)
(* lib/lwip/src/netif/ppp/fsm.c, as LCP uses them, joined by a line that   *)
(* keeps the order of packets and may lose some.                           *)
(*                                                                         *)
(* The options of LCP are one option with a value: 0 leaves it out.  Each  *)
(* end asks for the value it wants, gives in to a Nak or not, and leaves   *)
(* the option out after a Reject; the other end allows some values.        *)
(***************************************************************************)
EXTENDS Integers, Sequences

CONSTANTS MaxConf,   \* FSM_DEFMAXCONFREQS
          MaxTerm,   \* FSM_DEFMAXTERMREQS
          MaxNak,    \* FSM_DEFMAXNAKLOOPS
          IdMod,     \* ids are a byte: 256
          Rejects,   \* may an end reject the protocol of the other?
          MaxNet,    \* bound on the packets under way to an end
          MaxEvents, \* bound on starts, closes, hang-ups and rejects of the protocol
          MaxFaults    \* bound on packets lost and time-outs too early

VARIABLES f,      \* per end: the machine, see Init
          net,    \* per end: the packets under way to it
          events, faults,
          allow,  \* the values an end allows
          silent  \* OPT_SILENT; the last two never change

vars == <<f, net, events, faults, allow, silent>>
rigid == <<allow, silent>>

End == {"a", "b"}
Other(e) == IF e = "a" THEN "b" ELSE "a"
Want == 1
Negotiating == {"REQSENT", "ACKRCVD", "ACKSENT"}
Timed == Negotiating \cup {"CLOSING", "STOPPING"}
States == Timed \cup {"INITIAL", "STARTING", "CLOSED", "STOPPED", "OPENED"}

(* fsm_init and lcp_init.  up, tack and out are not of the code: the upper   *)
(* layers were told up last; a Terminate-Ack came in OPENED; what is sent.   *)
Init ==
  /\ f = [e \in End |-> [state |-> "INITIAL", id |-> 0, reqid |-> 0, seen |-> FALSE,
                         retr |-> 0, nak |-> 0, timer |-> FALSE, go |-> 0, ho |-> 0,
                         up |-> FALSE, tack |-> FALSE, out |-> <<>>]]
  /\ net = [e \in End |-> <<>>]
  /\ events = 0 /\ faults = 0
  /\ allow \in {[a |-> A, b |-> {1}] : A \in {{}, {1}, {2}}}
  /\ silent \in {[a |-> FALSE, b |-> y] : y \in BOOLEAN}
  /\ silent["b"] => allow["a"] = {2}

-----------------------------------------------------------------------------
(* The parts of the machine, as functions of its record x                    *)

To(x, s) == [x EXCEPT !.state = s]
Timer(x, b) == [x EXCEPT !.timer = b]
Up(x) == [x EXCEPT !.up = TRUE]
Down(x) == [x EXCEPT !.up = FALSE]
Inc(i) == (i + 1) % IdMod

(* fsm_sdata                                                                 *)
Sdata(x, code, id, ci) == [x EXCEPT !.out = Append(@, [code |-> code, id |-> id, ci |-> ci])]

(* fsm_sconfreq                                                              *)
Sconfreq(x, retransmit) ==
  LET y == IF x.state \in Negotiating THEN x ELSE [x EXCEPT !.go = Want, !.nak = 0]
      z == IF retransmit THEN y ELSE [y EXCEPT !.retr = MaxConf, !.id = Inc(@), !.reqid = Inc(x.id)]
  IN Sdata([z EXCEPT !.seen = FALSE, !.retr = @ - 1, !.timer = TRUE], "CONFREQ", z.reqid, z.go)

Termreq(x, n) ==
  Sdata([x EXCEPT !.id = Inc(@), !.reqid = Inc(x.id), !.retr = n - 1, !.timer = TRUE],
        "TERMREQ", Inc(x.id), 0)

(* fsm_lowerup, fsm_open: OPT_RESTART is never set.                          *)
Lowerup(x, e) == CASE x.state = "INITIAL" -> To(x, "CLOSED")
                   [] x.state = "STARTING" -> IF silent[e] THEN To(x, "STOPPED")
                                              ELSE To(Sconfreq(x, FALSE), "REQSENT")
                   [] OTHER -> x

Open(x, e) == CASE x.state = "INITIAL" -> To(x, "STARTING")
                [] x.state = "CLOSED" -> IF silent[e] THEN To(x, "STOPPED")
                                         ELSE To(Sconfreq(x, FALSE), "REQSENT")
                [] OTHER -> x

(* fsm_lowerdown                                                             *)
Lowerdown(x) == CASE x.state = "CLOSED" -> To(x, "INITIAL")
                  [] x.state = "STOPPED" -> To(x, "STARTING")
                  [] x.state = "CLOSING" -> To(Timer(x, FALSE), "INITIAL")
                  [] x.state = "OPENED" -> To(Down(x), "STARTING")
                  [] x.state \in Negotiating \cup {"STOPPING"} -> To(Timer(x, FALSE), "STARTING")
                  [] OTHER -> x

(* lcp_close and fsm_close                                                   *)
Close(x) == CASE x.state = "STARTING" -> To(x, "INITIAL")
              [] x.state = "STOPPED" -> To(x, "CLOSED")
              [] x.state = "STOPPING" -> To(x, "CLOSING")
              [] x.state \in Negotiating -> To(Termreq(x, MaxTerm), "CLOSING")
              [] x.state = "OPENED" -> To(Termreq(Down(x), MaxTerm), "CLOSING")
              [] OTHER -> x

(* fsm_protreject                                                            *)
Protreject(x) == CASE x.state = "CLOSING" -> To(Timer(x, FALSE), "CLOSED")
                   [] x.state \in Negotiating \cup {"STOPPING"} -> To(Timer(x, FALSE), "STOPPED")
                   [] x.state = "OPENED" -> To(Termreq(Down(x), MaxTerm), "STOPPING")
                   [] OTHER -> x

(* fsm_timeout, the timer being over                                         *)
Timeout(x) ==
  CASE x.state \in {"CLOSING", "STOPPING"} ->
         IF x.retr <= 0 THEN To(x, IF x.state = "CLOSING" THEN "CLOSED" ELSE "STOPPED")
                        ELSE Termreq(x, x.retr)
    [] x.state \in Negotiating ->
         IF x.retr <= 0 THEN To(x, "STOPPED")
         ELSE LET y == Sconfreq(x, TRUE) IN IF x.state = "ACKRCVD" THEN To(y, "REQSENT") ELSE y
    [] OTHER -> x

-----------------------------------------------------------------------------
(* Packets that come in                                                      *)

(* lcp_reqci: the answer to a request, and its value                         *)
ReqCi(e, ci, reject) ==
  IF ci = 0 \/ ci \in allow[e] THEN [code |-> "CONFACK", ci |-> ci]
  ELSE IF reject \/ allow[e] = {} THEN [code |-> "CONFREJ", ci |-> ci]
  ELSE [code |-> "CONFNAK", ci |-> CHOOSE v \in allow[e] : TRUE]

(* Mutant: one round too many. *)
RefusesLate(x) == x.nak > MaxNak

Refuses(x) == x.nak >= MaxNak

(* Mutant: the rounds are not counted. *)
NakLoopsNot(x, code) == x.nak

NakLoops(x, code) == IF code = "CONFNAK" THEN x.nak + 1 ELSE x.nak

(* Mutant: a request in OPENED is answered and nothing is negotiated anew. *)
RconfreqStays(x, e, m) ==
  LET y == CASE x.state = "STOPPED" -> To(Sconfreq(x, FALSE), "REQSENT")
             [] OTHER -> x
      r == ReqCi(e, m.ci, Refuses(y))
      z == Sdata(y, r.code, m.id, r.ci)
  IN CASE x.state = "CLOSED" -> Sdata(x, "TERMACK", m.id, 0)
       [] x.state \in {"CLOSING", "STOPPING"} -> x
       [] x.state = "OPENED" -> z
       [] OTHER ->
            IF r.code = "CONFACK"
              THEN [(IF y.state = "ACKRCVD" THEN To(Up(Timer(z, FALSE)), "OPENED")
                                            ELSE To(z, "ACKSENT")) EXCEPT !.nak = 0, !.ho = m.ci]
              ELSE [(IF y.state = "ACKRCVD" THEN z ELSE To(z, "REQSENT"))
                      EXCEPT !.nak = NakLoops(y, r.code)]

(* fsm_rconfreq                                                              *)
Rconfreq(x, e, m) ==
  LET y == CASE x.state = "OPENED" -> Sconfreq(Down(x), FALSE)
             [] x.state = "STOPPED" -> To(Sconfreq(x, FALSE), "REQSENT")
             [] OTHER -> x
      r == ReqCi(e, m.ci, Refuses(y))
      z == Sdata(y, r.code, m.id, r.ci)
  IN CASE x.state = "CLOSED" -> Sdata(x, "TERMACK", m.id, 0)
       [] x.state \in {"CLOSING", "STOPPING"} -> x
       [] OTHER ->
            IF r.code = "CONFACK"
              THEN [(IF y.state = "ACKRCVD" THEN To(Up(Timer(z, FALSE)), "OPENED")
                                            ELSE To(z, "ACKSENT")) EXCEPT !.nak = 0, !.ho = m.ci]
              ELSE [(IF y.state = "ACKRCVD" THEN z ELSE To(z, "REQSENT"))
                      EXCEPT !.nak = NakLoops(y, r.code)]

Expected(x, m) == m.id = x.reqid /\ ~x.seen

(* fsm_rconfack; lcp_ackci wants the values that were asked for.             *)
Rconfack(x, m) ==
  LET y == [x EXCEPT !.seen = TRUE]
  IN IF ~Expected(x, m) \/ m.ci # x.go THEN x
     ELSE CASE x.state \in {"CLOSED", "STOPPED"} -> Sdata(y, "TERMACK", m.id, 0)
            [] x.state = "REQSENT" -> To([y EXCEPT !.retr = MaxConf], "ACKRCVD")
            [] x.state = "ACKRCVD" -> To(Sconfreq(Timer(y, FALSE), FALSE), "REQSENT")
            [] x.state = "ACKSENT" -> Up(To([y EXCEPT !.retr = MaxConf, !.timer = FALSE], "OPENED"))
            [] x.state = "OPENED" -> To(Sconfreq(Down(y), FALSE), "REQSENT")
            [] OTHER -> y

(* fsm_rconfnakrej with lcp_nakci and lcp_rejci: an option that was not      *)
(* asked for makes the packet bad; in OPENED nothing is changed.  Whether    *)
(* the end takes the value of a Nak depends on the option.                   *)
Rconfnakrej(x, takes, m) ==
  LET new == IF m.code = "CONFREJ" THEN 0 ELSE IF takes THEN m.ci ELSE x.go
      y == [x EXCEPT !.seen = TRUE, !.go = IF x.state = "OPENED" THEN @ ELSE new]
  IN IF ~Expected(x, m) \/ x.go = 0 \/ (m.code = "CONFREJ" /\ m.ci # x.go) THEN x
     ELSE CASE x.state \in {"CLOSED", "STOPPED"} -> Sdata(y, "TERMACK", m.id, 0)
            [] x.state \in {"REQSENT", "ACKSENT"} -> Sconfreq(Timer(y, FALSE), FALSE)
            [] x.state = "ACKRCVD" -> To(Sconfreq(Timer(y, FALSE), FALSE), "REQSENT")
            [] x.state = "OPENED" -> To(Sconfreq(Down(y), FALSE), "REQSENT")
            [] OTHER -> y

(* Mutant: the upper layers are not told. *)
RtermreqQuiet(x, m) ==
  LET y == CASE x.state \in {"ACKRCVD", "ACKSENT"} -> To(x, "REQSENT")
             [] x.state = "OPENED" -> To([x EXCEPT !.retr = 0, !.timer = TRUE], "STOPPING")
             [] OTHER -> x
  IN Sdata(y, "TERMACK", m.id, 0)

(* fsm_rtermreq                                                              *)
Rtermreq(x, m) ==
  LET y == CASE x.state \in {"ACKRCVD", "ACKSENT"} -> To(x, "REQSENT")
             [] x.state = "OPENED" -> To([Down(x) EXCEPT !.retr = 0, !.timer = TRUE], "STOPPING")
             [] OTHER -> x
  IN Sdata(y, "TERMACK", m.id, 0)

(* Mutant: the timer goes on. *)
RtermackTimed(x) == CASE x.state = "CLOSING" -> To(x, "CLOSED")
                      [] x.state = "STOPPING" -> To(x, "STOPPED")
                      [] x.state = "ACKRCVD" -> To(x, "REQSENT")
                      [] x.state = "OPENED" -> [Sconfreq(Down(x), FALSE) EXCEPT !.tack = TRUE]
                      [] OTHER -> x

(* fsm_rtermack: it does not leave OPENED.                                   *)
Rtermack(x) == CASE x.state = "CLOSING" -> To(Timer(x, FALSE), "CLOSED")
                 [] x.state = "STOPPING" -> To(Timer(x, FALSE), "STOPPED")
                 [] x.state = "ACKRCVD" -> To(x, "REQSENT")
                 [] x.state = "OPENED" -> [Sconfreq(Down(x), FALSE) EXCEPT !.tack = TRUE]
                 [] OTHER -> x

(* fsm_input                                                                 *)
Input(x, e, takes, m) ==
  IF x.state \in {"INITIAL", "STARTING"} THEN x
  ELSE CASE m.code = "CONFREQ" -> Rconfreq(x, e, m)
         [] m.code = "CONFACK" -> Rconfack(x, m)
         [] m.code \in {"CONFNAK", "CONFREJ"} -> Rconfnakrej(x, takes, m)
         [] m.code = "TERMREQ" -> Rtermreq(x, m)
         [] m.code = "TERMACK" -> Rtermack(x)

-----------------------------------------------------------------------------

(* End e becomes x, having taken the first n packets of its line.            *)
Becomes(e, x, n) ==
  LET o == Other(e)
      all == net[o] \o x.out
  IN /\ f' = [f EXCEPT ![e] = [x EXCEPT !.out = <<>>,
                                        !.tack = @ /\ (x.state = "OPENED"
                                                         \/ (x.timer /\ x.state \notin Timed))]]
     /\ net' = [net EXCEPT ![o] = SubSeq(all, 1, IF Len(all) > MaxNet THEN MaxNet ELSE Len(all)),
                           ![e] = SubSeq(@, n + 1, Len(@))]
     /\ UNCHANGED rigid

Event(e, x) == events < MaxEvents /\ events' = events + 1 /\ Becomes(e, x, 0) /\ UNCHANGED faults

(* pppStart, pppStop, pppHup, lcp_protrej                                    *)
Start(e) == f[e].state \in {"INITIAL", "STARTING", "CLOSED"} /\ Event(e, Open(Lowerup(f[e], e), e))
Stop(e) == Event(e, Close(f[e]))
Hup(e) == Event(e, Lowerdown(f[e]))
Protrej(e) == Rejects /\ Event(e, Protreject(f[e]))

Receive(e) == /\ net[e] # <<>>
              /\ \E takes \in BOOLEAN : Becomes(e, Input(f[e], e, takes, Head(net[e])), 1)
              /\ UNCHANGED <<events, faults>>

Expire(e) == /\ f[e].timer
             /\ IF \A o \in End : net[o] = <<>> THEN UNCHANGED faults
                ELSE faults < MaxFaults /\ faults' = faults + 1
             /\ Becomes(e, Timeout(Timer(f[e], FALSE)), 0)
             /\ UNCHANGED events

Lose(e) == /\ net[e] # <<>> /\ faults < MaxFaults
           /\ faults' = faults + 1
           /\ net' = [net EXCEPT ![e] = Tail(@)]
           /\ UNCHANGED <<f, events, rigid>>

Next == \E e \in End : \/ Start(e) \/ Stop(e) \/ Hup(e) \/ Protrej(e)
                       \/ Receive(e) \/ Expire(e) \/ Lose(e)

(* The line delivers what it does not lose.  The timer of an end expires     *)
(* whatever the other end makes of the line meanwhile.                       *)
Fairness == \A e \in End : WF_vars(Receive(e)) /\ SF_vars(Expire(e))

Spec == Init /\ [][Next]_vars /\ Fairness

-----------------------------------------------------------------------------

(* The machines' counters and states are what the code can hold.             *)
TypeOK == \A e \in End : /\ f[e].state \in States
                         /\ f[e].retr \in 0 .. MaxConf /\ f[e].nak \in 0 .. MaxNak
                         /\ f[e].go \in 0 .. 2 /\ f[e].ho \in 0 .. 2

(* "Called when fsm reaches LS_OPENED state", "Called when fsm leaves        *)
(* LS_OPENED state" (fsm.h): the upper layers were told up last exactly when *)
(* the machine is in OPENED.                                                 *)
UpExact == \A e \in End : f[e].up <=> f[e].state = "OPENED"

(* The same but for a Terminate-Ack that comes in OPENED.                    *)
UpExactElse == \A e \in End : f[e].tack \/ (f[e].up <=> f[e].state = "OPENED")

(* The retransmission timer runs exactly while something is awaited, so that *)
(* no end waits for good for an answer that was lost.                        *)
TimerExact == \A e \in End : f[e].tack \/ (f[e].timer <=> f[e].state \in Timed)

(* When both ends have come up and nothing is under way, each uses what the  *)
(* other one has acknowledged.                                               *)
Agree == ((\A e \in End : f[e].state = "OPENED" /\ net[e] = <<>>) =>
            \A e \in End : f[e].go = f[Other(e)].ho)

(* Once nobody opens, closes or hangs up any more, negotiation ends, with    *)
(* the link up or an end out of retransmissions.                             *)
ComesUp == []<>(events = MaxEvents => \A e \in End : f[e].state \notin Negotiating)

=============================================================================
