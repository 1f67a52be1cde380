------------------------------- MODULE Music --------------------------------
(***************************************************************************)
(* The music player, lib/player/asrc/music.c: the thread _music_thread     *)
(* that decodes and takes commands from a message queue, the client (the   *)
(* message service) that puts commands there and wakes the thread with a   *)
(* signal, and the timer that loads the next file a second after it was    *)
(* asked for.  A thread that has nothing to play clears its signal and     *)
(* waits for it.  The thread and the timer put commands into the queue,    *)
(* too, and every put waits for room.                                      *)
(***************************************************************************)
EXTENDS Integers, Sequences, SequencesExt

CONSTANT Size \* PLAYER_MSG_SIZE

VARIABLES status, \* eStatus
          queue,  \* pstMsgId
          sig,    \* PLAYER_SIGNAL_WAIT is set
          t,      \* the thread, see TypeOK
          todo,   \* what the thread still has to put
          c, cm,  \* the client, and the command it puts
          armed,  \* pstTimer is running
          tm,     \* the timer's callback: "idle", "load" or "put"
          tput,   \* what it still has to put
          lost    \* history: the signal was set after the thread found no command and
                  \* before it cleared the signal

tvars == <<t, todo>>
cvars == <<c, cm>>
mvars == <<armed, tm, tput>>
vars == <<status, queue, sig, lost, tvars, cvars, mvars>>

Init == /\ status = "STOPED" /\ queue = <<>> /\ sig = FALSE
        /\ t = "loop" /\ todo = <<>>
        /\ c = "idle" /\ cm = "STOP"
        /\ armed = FALSE /\ tm = "idle" /\ tput = <<>>
        /\ lost = FALSE

-----------------------------------------------------------------------------

Room == Len(queue) < Size
Putting == {"next", "none", "fail"}

(* oshalSignalSet, if b                                                      *)
SignalSet(b) == sig' = (sig \/ b) /\ lost' = (lost \/ (b /\ t = "out"))

(* Mutant: the status alone ends the thread. *)
TerminatedByStatus == status = "TERMINATE"

Terminated == status = "TERMINATE" \/ (queue # <<>> /\ Head(queue) = "OVER")

(* _music_thread gets a message, or none: what it then compares with         *)
(* PLAY_OVER was never written, and may be equal.  A command that loads      *)
(* (NEXT, PREV) puts STOP into the queue itself.                             *)
Get ==
  /\ t = "loop"
  /\ IF Terminated
       THEN t' = "over" /\ UNCHANGED <<status, todo>>
     ELSE IF queue = <<>>
       THEN /\ t' \in {IF status = "STOPED" THEN "out" ELSE "run", "over"}
            /\ UNCHANGED <<status, todo>>
     ELSE CASE Head(queue) = "PAUSE" -> t' = "out" /\ status' = "PAUSE" /\ UNCHANGED todo
            [] Head(queue) = "START" -> /\ t' = IF status = "PAUSE" THEN "start" ELSE "load"
                                        /\ UNCHANGED <<status, todo>>
            [] Head(queue) = "NEXT" -> t' = "next" /\ todo' = <<"STOP">> /\ UNCHANGED status
            [] Head(queue) = "STOP" -> status' = "STOPED" /\ UNCHANGED <<t, todo>>
            [] OTHER -> UNCHANGED <<status, t, todo>>
  /\ queue' = IF queue = <<>> THEN queue ELSE Tail(queue)
  /\ UNCHANGED <<sig, lost, cvars, mvars>>

(* oshalSignalClear, then oshalSignalWait                                    *)
Clear == /\ t = "out"
         /\ t' = "wait" /\ sig' = FALSE
         /\ UNCHANGED <<status, queue, lost, todo, cvars, mvars>>

Wake == /\ t = "wait" /\ sig
        /\ t' = "loop" /\ sig' = FALSE /\ lost' = FALSE
        /\ UNCHANGED <<status, queue, todo, cvars, mvars>>

(* hs_adec_run: the file goes on, or the disk is gone; or the file ends and  *)
(* the next one is asked for.                                                *)
Run == /\ t = "run"
       /\ t' = "loop"
       /\ status' \in {status, "STOPED"}
       /\ UNCHANGED <<queue, sig, lost, todo, cvars, mvars>>

Ends == /\ t = "run"
        /\ t' = "next" /\ todo' = <<"STOP">>
        /\ UNCHANGED <<status, queue, sig, lost, cvars, mvars>>

(* _music_load of the thread: there is no file; or it pauses, if it had a    *)
(* decoder, changes it, and fails or not.                                    *)
Load == /\ t = "load"
        /\ \/ t' = "none" /\ todo' = <<"STOP">> /\ UNCHANGED status
           \/ t' = "start" /\ UNCHANGED todo /\ status' \in {status, "PAUSE"}
           \/ t' = "fail" /\ todo' = <<"STOP", "NEXT">> /\ status' \in {status, "PAUSE"}
        /\ UNCHANGED <<queue, sig, lost, cvars, mvars>>

(* The end of PLAY_START: an output that plays is stopped, with the status,  *)
(* before it is started.                                                     *)
Stops == /\ t = "start" /\ status = "PLAYING"
         /\ t' = "again" /\ status' = "STOPED"
         /\ UNCHANGED <<queue, sig, lost, todo, cvars, mvars>>

Plays == /\ t = "again" \/ (t = "start" /\ status # "PLAYING")
         /\ t' = "loop" /\ status' = "PLAYING"
         /\ UNCHANGED <<queue, sig, lost, todo, cvars, mvars>>

(* Mutant: a full queue is not looked at. *)
ThreadPutForce ==
  /\ t \in Putting
  /\ queue' = Append(queue, Head(todo))
  /\ todo' = Tail(todo)
  /\ IF Len(todo) > 1 THEN UNCHANGED <<t, armed, sig, lost>>
     ELSE IF t = "next" THEN t' = "loop" /\ armed' = TRUE /\ UNCHANGED <<sig, lost>>
     ELSE t' = "start" /\ SignalSet(t = "fail" /\ status # "PLAYING") /\ UNCHANGED armed
  /\ UNCHANGED <<status, cvars, tm, tput>>

(* The thread puts into its own queue; after NEXT, it starts the timer.      *)
ThreadPut ==
  /\ t \in Putting /\ Room
  /\ queue' = Append(queue, Head(todo))
  /\ todo' = Tail(todo)
  /\ IF Len(todo) > 1 THEN UNCHANGED <<t, armed, sig, lost>>
     ELSE IF t = "next" THEN t' = "loop" /\ armed' = TRUE /\ UNCHANGED <<sig, lost>>
     ELSE t' = "start" /\ SignalSet(t = "fail" /\ status # "PLAYING") /\ UNCHANGED armed
  /\ UNCHANGED <<status, cvars, tm, tput>>

-----------------------------------------------------------------------------

(* hs_music_start, hs_music_stop, hs_music_next and hs_music_prev            *)
Command(m) ==
  /\ c = "idle"
  /\ c' = "put"
  /\ cm' = IF m = "START" /\ status = "PLAYING" THEN "PAUSE" ELSE m
  /\ UNCHANGED <<status, queue, sig, lost, tvars, mvars>>

(* _music_memOut, when the file's disk was removed and there is another      *)
MemOut == /\ c = "idle"
          /\ c' = "put" /\ cm' = "START" /\ status' = "STOPED"
          /\ UNCHANGED <<queue, sig, lost, tvars, mvars>>

(* hs_music_destroy, up to its loop that waits while the thread plays        *)
Destroy == /\ c = "idle"
           /\ status' = "TERMINATE"
           /\ c' = "term" /\ cm' = "OVER"
           /\ UNCHANGED <<queue, sig, lost, tvars, mvars>>

Ending == /\ c = "term" /\ status # "PLAYING"
          /\ c' = "put"
          /\ UNCHANGED <<status, queue, sig, lost, tvars, cm, mvars>>

(* oshalMessagePut, which waits for room                                     *)
ClientPut == /\ c = "put" /\ Room
             /\ queue' = Append(queue, cm)
             /\ c' = IF cm \in {"STOP", "PAUSE"} THEN "idle" ELSE "sig"
             /\ UNCHANGED <<status, sig, lost, tvars, cm, mvars>>

(* Mutant: the thread is woken only out of a pause. *)
SignalPaused ==
  /\ c = "sig"
  /\ SignalSet(status = "PAUSE")
  /\ c' = IF cm = "OVER" THEN "join" ELSE "idle"
  /\ armed' = (armed /\ cm # "OVER")
  /\ UNCHANGED <<status, queue, tvars, cm, tm, tput>>

(* The thread is woken if it does not play, and always by hs_music_destroy,  *)
(* which then deletes the timer.                                             *)
Signal == /\ c = "sig"
          /\ SignalSet(status # "PLAYING" \/ cm = "OVER")
          /\ c' = IF cm = "OVER" THEN "join" ELSE "idle"
          /\ armed' = (armed /\ cm # "OVER")
          /\ UNCHANGED <<status, queue, tvars, cm, tm, tput>>

(* oshalThreadTerminate waits for the thread; then everything is freed.      *)
Join == /\ c = "join" /\ t = "over"
        /\ c' = "gone"
        /\ UNCHANGED <<status, queue, sig, lost, tvars, cm, mvars>>

-----------------------------------------------------------------------------

(* _music_loadDec runs in the timers' thread.                                *)
Expire == /\ armed /\ tm = "idle"
          /\ armed' = FALSE /\ tm' = "load"
          /\ status' \in {status, "PAUSE"}
          /\ UNCHANGED <<queue, sig, lost, tvars, cvars, tput>>

(* Mutant: the thread is not woken. *)
LoadedQuiet ==
  /\ tm = "load"
  /\ \/ tm' = "idle" /\ status' = "PLAYING" /\ UNCHANGED tput
     \/ tm' = "put" /\ tput' = <<"STOP", "NEXT">> /\ UNCHANGED status
  /\ UNCHANGED <<queue, sig, lost, tvars, cvars, armed>>

Loaded == /\ tm = "load"
          /\ \/ /\ tm' = "idle" /\ UNCHANGED tput
                /\ status' = "PLAYING" /\ SignalSet(status # "PLAYING")
             \/ /\ tm' = "put" /\ tput' = <<"STOP", "NEXT">>
                /\ UNCHANGED <<status, sig, lost>>
          /\ UNCHANGED <<queue, tvars, cvars, armed>>

TimerPut == /\ tm = "put" /\ Room
            /\ queue' = Append(queue, Head(tput))
            /\ tput' = Tail(tput)
            /\ IF Len(tput) > 1 THEN UNCHANGED <<tm, sig, lost>>
               ELSE tm' = "idle" /\ SignalSet(status # "PLAYING")
            /\ UNCHANGED <<status, tvars, cvars, armed>>

ThreadStep == Get \/ Clear \/ Wake \/ Run \/ Ends \/ Load \/ Stops \/ Plays \/ ThreadPut
ClientStep == Ending \/ ClientPut \/ Signal \/ Join
TimerStep == Expire \/ Loaded \/ TimerPut

Next == \/ ThreadStep \/ ClientStep \/ TimerStep
        \/ \E m \in {"START", "STOP", "NEXT"} : Command(m)
        \/ MemOut \/ Destroy

(* The threads run on, and every file has an end.                            *)
Fairness == WF_vars(ThreadStep) /\ SF_vars(ClientStep) /\ WF_vars(TimerStep) /\ SF_vars(Ends)

Spec == Init /\ [][Next]_vars /\ Fairness

-----------------------------------------------------------------------------

TypeOK == /\ status \in {"STOPED", "PLAYING", "PAUSE", "TERMINATE"}
          /\ queue \in Seq({"START", "STOP", "PAUSE", "NEXT", "OVER"}) /\ Len(queue) <= Size
          /\ t \in {"loop", "out", "wait", "run", "load", "start", "again", "over"} \cup Putting
          /\ c \in {"idle", "term", "put", "sig", "join", "gone"}
          /\ tm \in {"idle", "load", "put"}

Quiet == c \in {"idle", "join", "gone"} /\ tm = "idle" /\ ~lost

(* A stopped thread that waits for its signal has no command left to serve   *)
(* but STOP and PAUSE, which need no service then.  In a pause it may have:  *)
(* commands that were behind the PAUSE, or that saw the thread playing.      *)
NoCommandSlept == (t = "wait" /\ ~sig /\ Quiet /\ status = "STOPED")
                     => \A i \in 1 .. Len(queue) : queue[i] \in {"STOP", "PAUSE"}

(* A thread that waits for its signal is not taken for playing: the commands *)
(* would not wake it.                                                        *)
PlayingPlays == (t = "wait" /\ ~sig /\ Quiet) => status # "PLAYING"

(* The ways in which the thread may never come to see PLAY_OVER: it lost its *)
(* signal; a PAUSE was ahead of PLAY_OVER and somebody had set another       *)
(* status over TERMINATE; the queue is full and the thread, which alone      *)
(* empties it, sleeps, has ended or waits for room itself.                   *)
Hangs == \/ lost
         \/ t = "wait" /\ status = "PAUSE"
         \/ ~Room /\ t \in {"wait", "over"} \cup Putting

(* hs_music_destroy, which waits for the thread, comes to its end once it    *)
(* has left its loop.  (The loop need not end: the timer may set PLAYING     *)
(* over TERMINATE when the thread is over.)                                  *)
DestroyEnds == []<>(cm = "OVER" /\ c \in {"put", "sig", "join"} => Hangs)

=============================================================================
