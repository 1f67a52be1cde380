----------------------------- MODULE MCDevices ------------------------------
(***************************************************************************)
(* Sound and the serial link side by side: the play and record streams of  *)
(* the audio device, the music player and PPP.  They have no variable in   *)
(* common: part says which one runs.                                       *)
(***************************************************************************)
EXTENDS Integers, Sequences

CONSTANTS Boundary, Period, Threshold, MaxPlay, Repair, MaxFrame,
          RecBoundary, RecPeriod, MaxRecord, MaxRecorded,
          Size,
          MaxConf, MaxTerm, MaxNak, IdMod, Rejects, MaxNet, MaxEvents, MaxFaults

VARIABLES part,
          state, app_ptr, hw_ptr, pos, buf, irq, w, frame, timed, early, n,
          heard, late, slow,
          on, r_app_ptr, r_hw_ptr, r_pos, r_buf, m, r_irq, r, r_frame, ptr,
          r_timed, taken, r_late, world,
          status, msgs, sig, t, todo, c, cm, armed, tm, tput, missed,
          f, net, events, faults, allow, silent

apVars == <<state, app_ptr, hw_ptr, pos, buf, irq, w, frame, timed, early,
            n, heard, late, slow>>

arVars == <<on, r_app_ptr, r_hw_ptr, r_pos, r_buf, m, r_irq, r, r_frame,
            ptr, r_timed, taken, r_late, world>>

muVars == <<status, msgs, sig, t, todo, c, cm, armed, tm, tput, missed>>

ppVars == <<f, net, events, faults, allow, silent>>

AP == INSTANCE AudioPlay WITH MaxReq <- MaxPlay

AR == INSTANCE AudioRecord WITH Boundary <- RecBoundary,
                                Period <- RecPeriod, MaxReq <- MaxRecord,
                                MaxFrame <- MaxRecorded,
                                app_ptr <- r_app_ptr, hw_ptr <- r_hw_ptr,
                                pos <- r_pos, buf <- r_buf, irq <- r_irq,
                                frame <- r_frame, timed <- r_timed,
                                late <- r_late

MU == INSTANCE Music WITH queue <- msgs, lost <- missed

PP == INSTANCE PppFsm

Init ==
  /\ part \in {"play", "record", "music", "ppp"}
  /\ AP!Init /\ (part # "play" => ~slow)
  /\ AR!Init /\ (part # "record" => world = "plain")
  /\ MU!Init
  /\ PP!Init /\ (part # "ppp" => allow["a"] = {2} /\ silent["b"])

Next ==
  \/ part = "play" /\ AP!Next /\ UNCHANGED <<part, arVars, muVars, ppVars>>
  \/ part = "record" /\ AR!Next /\ UNCHANGED <<part, apVars, muVars, ppVars>>
  \/ part = "music" /\ MU!Next /\ UNCHANGED <<part, apVars, arVars, ppVars>>
  \/ part = "ppp" /\ PP!Next /\ UNCHANGED <<part, apVars, arVars, muVars>>

vars == <<part, apVars, arVars, muVars, ppVars>>

partVars == CASE part = "play" -> apVars
              [] part = "music" -> muVars
              [] part = "ppp" -> ppVars
              [] OTHER -> part

(* The fairness of the part that runs, from its module; as part never        *)
(* changes, that of a disjunction is that of the part's disjunct.            *)
Fairness ==
  /\ WF_partVars(/\ \/ part = "play" /\ AP!Dma
                    \/ part = "music" /\ MU!ThreadStep
                    \/ part = "ppp" /\ PP!Receive("a")
                 /\ UNCHANGED <<part, slow>>)
  /\ WF_partVars(/\ \/ part = "play" /\ AP!Isr
                    \/ part = "music" /\ MU!TimerStep
                    \/ part = "ppp" /\ PP!Receive("b")
                 /\ UNCHANGED <<part, slow>>)
  /\ WF_partVars(part = "play" /\ AP!TimedOut /\ UNCHANGED <<part, slow>>)
  /\ SF_partVars(/\ \/ part = "music" /\ MU!ClientStep
                    \/ part = "ppp" /\ PP!Expire("a")
                 /\ UNCHANGED part)
  /\ SF_partVars(/\ \/ part = "music" /\ MU!Ends
                    \/ part = "ppp" /\ PP!Expire("b")
                 /\ UNCHANGED part)

Spec == Init /\ [][Next]_vars /\ Fairness

-----------------------------------------------------------------------------

(* The type invariants of the four modules: pointers stay in their rings,     *)
(* queues keep to their length and counters to their width.                  *)
TypeOK == CASE part = "play" -> AP!TypeOK
            [] part = "record" -> AR!TypeOK
            [] part = "music" -> MU!TypeOK
            [] part = "ppp" -> PP!TypeOK

(* What a writer in time put in the ring is played, each frame of it; a      *)
(* reader in time gets the recorded frames in order, none skipped or         *)
(* repeated, and one that sleeps has a DMA that will wake it, but at the     *)
(* start of the ring of a stopped stream.                                    *)
StreamsSound == /\ part = "play" => AP!AllHeard
                /\ part = "record" => AR!TakenInOrder /\ AR!SleeperWakes

(* No frame is played twice, even when the DMA has overtaken the writer.     *)
NothingTwice == AP!NothingTwice

(* The music thread does not sleep over a command, and is not taken for      *)
(* playing when it sleeps.                                                   *)
MusicAwake == part = "music" => MU!NoCommandSlept /\ MU!PlayingPlays

(* The upper layers are told up exactly in OPENED, but for a Terminate-Ack;  *)
(* the retransmission timer runs exactly while an answer is awaited; ends    *)
(* that are up use the options the other one acknowledged.                   *)
LinkExact == part = "ppp" => PP!UpExactElse /\ PP!TimerExact /\ PP!Agree

(* What waits comes to an end: a writer asleep with the stream's mutex is    *)
(* woken, unless its time-out came before its sleep and the DMA was not yet  *)
(* started; hs_music_destroy ends once it has left its   *)
(* loop, but for the known hangs; negotiation ends once nobody interferes.   *)
WaitsEnd == AP!SleeperWakes /\ MU!DestroyEnds /\ PP!ComesUp

=============================================================================
