----------------------------- MODULE AudioUsers -----------------------------
(***************************************************************************)
(* Who plays: audioPlayStart and audioPlayStop of os/hal/src/audio.c with  *)
(* their three users, the player's output (lib/player/ao/ao.c), the        *)
(* Bluetooth host (App_AudioStart and App_AudioStop of                     *)
(* lib/bt/src/app_fsm.c) and the tones (lib/config/tone/cfg_audio.c).      *)
(*                                                                         *)
(* The device has one playing user.  A user that starts takes the device   *)
(* from the one that has it, which is told STOPPED and kept in a stack of  *)
(* events; when the new user stops, the one below it is told RESUME and    *)
(* starts again.  Start, stop and the callbacks run under a mutex, but     *)
(* users test their own flags before they lock it, and RESUME is called    *)
(* after it was unlocked.                                                  *)
(***************************************************************************)
EXTENDS Integers, Sequences, FiniteSets

CONSTANTS Thread,   \* the threads that call; the host and the tones have one each
          BtThread, ToneThread, None,
          MaxStack  \* bound on the stack of events

VARIABLES s,    \* the device and the flags of the users, see Init
          pc,   \* per thread: "idle"; "ao" and "bt": has tested, will start;
                \* "stop": will call audioPlayStop; "resume": has a RESUME to call
          to,   \* per thread: the user to be resumed
          next, \* per thread: what follows audioPlayStop: "idle" or "bt"
          vain, \* history: the last RESUME went to a host that had closed
          races,  \* may others run between a test of flags and the locked part?
          faults  \* may a start find no memory?  Both never change.

vars == <<s, pc, to, next, vain, races, faults>>

Users == {"ao", "bt", "tone"}

Init == /\ s = [on |-> FALSE,      \* state >= AUDIO_PREPARE
                prompt |-> FALSE,  \* prompt_dis
                ev |-> <<>>,       \* tx_event
                isStart |-> FALSE, isBlock |-> FALSE, \* of hs_ao_t
                start |-> FALSE,   \* app_fsm_audio_start
                local |-> FALSE,   \* app_fsm_play_local_close
                remote |-> FALSE,  \* app_fsm_play_remote_close
                tone |-> FALSE]    \* g_u8PlyRunning
        /\ pc = [t \in Thread |-> "idle"]
        /\ to = [t \in Thread |-> None]
        /\ next = [t \in Thread |-> "idle"]
        /\ vain = FALSE
        /\ races \in BOOLEAN /\ faults \in BOOLEAN

(* t may begin something: without races, nobody is in between two parts.     *)
Ready(t) == pc[t] = "idle" /\ (races \/ \A u \in Thread : pc[u] = "idle")

-----------------------------------------------------------------------------

(* The callbacks with AUDIO_EVENT_STOPPED                                    *)
Stopped(x, u) == CASE u = "ao" -> [x EXCEPT !.isBlock = TRUE, !.isStart = FALSE]
                   [] u = "bt" -> [x EXCEPT !.local = TRUE]
                   [] u = "tone" -> [x EXCEPT !.tone = FALSE]

(* A tone that plays is not interrupted.                                     *)
Refuses(x) == x.on /\ x.prompt

(* Mutant: the user that loses the device is not told. *)
PlayStartSilent(x, u, ok) ==
  IF Refuses(x) THEN x
  ELSE IF ok THEN [x EXCEPT !.on = TRUE, !.prompt = (u = "tone"), !.ev = <<u>> \o @]
             ELSE [x EXCEPT !.on = FALSE]

(* Mutant: the event is not kept. *)
PlayStartForgets(x, u, ok) ==
  LET y == IF x.on THEN [Stopped(x, Head(x.ev)) EXCEPT !.on = FALSE] ELSE x
  IN IF Refuses(x) THEN x
     ELSE IF ok THEN [y EXCEPT !.on = TRUE, !.prompt = (u = "tone"), !.ev = <<u>>]
                ELSE y

(* audioPlayStart, and audioPlayPromptDisable after it for a tone            *)
PlayStart(x, u, ok) ==
  LET y == IF x.on THEN [Stopped(x, Head(x.ev)) EXCEPT !.on = FALSE] ELSE x
  IN IF Refuses(x) THEN x
     ELSE IF ok THEN [y EXCEPT !.on = TRUE, !.prompt = (u = "tone"), !.ev = <<u>> \o @]
                ELSE y

Starts(x, ok) == ok /\ ~Refuses(x)

(* Mutant: the player stays blocked. *)
AoStartBlocked(x, ok) ==
  LET y == PlayStart(x, "ao", ok)
  IN IF Starts(x, ok) THEN [y EXCEPT !.isStart = TRUE] ELSE y

(* The locked part of hs_ao_start                                            *)
AoStart(x, ok) ==
  LET y == PlayStart([x EXCEPT !.isBlock = FALSE], "ao", ok)
  IN IF Starts(x, ok) THEN [y EXCEPT !.isStart = TRUE] ELSE y

(* The locked part of App_AudioStart                                         *)
BtStart(x, ok) ==
  LET y == PlayStart(x, "bt", ok)
  IN IF Starts(x, ok) THEN [y EXCEPT !.start = TRUE, !.remote = FALSE, !.local = FALSE]
                      ELSE [y EXCEPT !.start = FALSE, !.local = FALSE]

(* App_AudioPlayCb with AUDIO_EVENT_RESUME                                   *)
BtResume(x, ok) ==
  LET y == PlayStart(x, "bt", ok)
  IN IF x.remote THEN [x EXCEPT !.remote = FALSE, !.local = FALSE]
     ELSE IF Starts(x, ok) THEN [y EXCEPT !.start = TRUE, !.local = FALSE]
                           ELSE [y EXCEPT !.start = FALSE, !.local = FALSE]

-----------------------------------------------------------------------------

Goes(t, p) == pc' = [pc EXCEPT ![t] = p]

(* hs_ao_start of the player and of hs_ao_fetchData, up to the lock          *)
AoPlay(t) == /\ Ready(t) /\ t \notin {BtThread, ToneThread}
             /\ ~s.isStart
             /\ Goes(t, "ao")
             /\ UNCHANGED <<s, to, next, vain>>

(* hs_ao_stop, up to audioPlayStop                                           *)
AoStop(t) == /\ Ready(t) /\ t \notin {BtThread, ToneThread}
             /\ s.isStart
             /\ s' = [s EXCEPT !.isStart = FALSE]
             /\ Goes(t, "stop")
             /\ UNCHANGED <<to, next, vain>>

(* App_AudioStart, up to the lock: nothing is started while another user     *)
(* plays, a stream of the same kind goes on, and another is stopped first.   *)
BtPlay(same) ==
  /\ Ready(BtThread)
  /\ IF s.local THEN s' = [s EXCEPT !.start = TRUE, !.remote = FALSE] /\ UNCHANGED <<pc, next>>
     ELSE IF s.start /\ same THEN UNCHANGED <<s, pc, next>>
     ELSE IF s.start THEN Goes(BtThread, "stop") /\ next' = [next EXCEPT ![BtThread] = "bt"] /\ UNCHANGED s
     ELSE Goes(BtThread, "bt") /\ UNCHANGED <<s, next>>
  /\ UNCHANGED <<to, vain>>

(* App_AudioStop, up to audioPlayStop                                        *)
BtStop ==
  /\ Ready(BtThread) /\ s.start
  /\ s' = [s EXCEPT !.start = FALSE, !.remote = @ \/ s.local]
  /\ IF s.local THEN UNCHANGED pc ELSE Goes(BtThread, "stop")
  /\ UNCHANGED <<to, next, vain>>

(* hs_cfg_toneAudioStart                                                     *)
ToneStart(ok) ==
  /\ Ready(ToneThread) /\ ~s.tone
  /\ Len(s.ev) < MaxStack
  /\ s' = [PlayStart(s, "tone", ok) EXCEPT !.tone = Starts(s, ok)]
  /\ UNCHANGED <<pc, to, next>>
  /\ vain' = FALSE

(* hs_cfg_toneAudioStop, up to audioPlayStop                                 *)
ToneStop ==
  /\ Ready(ToneThread) /\ s.tone
  /\ s' = [s EXCEPT !.tone = FALSE]
  /\ Goes(ToneThread, "stop")
  /\ UNCHANGED <<to, next, vain>>

(* The locked parts of the starts                                            *)
Started(t, ok) ==
  /\ pc[t] \in {"ao", "bt"}
  /\ Len(s.ev) < MaxStack
  /\ s' = IF pc[t] = "ao" THEN AoStart(s, ok) ELSE BtStart(s, ok)
  /\ Goes(t, next[t])
  /\ next' = [next EXCEPT ![t] = "idle"]
  /\ vain' = FALSE
  /\ UNCHANGED to

(* Mutant: the device is left on. *)
PlayStopOn(t) ==
  /\ pc[t] = "stop"
  /\ s' = [s EXCEPT !.ev = SubSeq(@, 3, Len(@))]
  /\ IF Len(s.ev) > 1
       THEN to' = [to EXCEPT ![t] = s.ev[2]] /\ Goes(t, "resume") /\ UNCHANGED next
       ELSE UNCHANGED to /\ Goes(t, next[t]) /\ next' = [next EXCEPT ![t] = "idle"]
  /\ UNCHANGED vain

(* audioPlayStop up to its unlock: the top of the stack is dropped, and the  *)
(* event below it is taken out to be called.                                 *)
PlayStop(t) ==
  /\ pc[t] = "stop"
  /\ s' = [s EXCEPT !.on = FALSE, !.ev = SubSeq(@, 3, Len(@))]
  /\ IF Len(s.ev) > 1
       THEN to' = [to EXCEPT ![t] = s.ev[2]] /\ Goes(t, "resume") /\ UNCHANGED next
       ELSE UNCHANGED to /\ Goes(t, next[t]) /\ next' = [next EXCEPT ![t] = "idle"]
  /\ UNCHANGED vain

(* The callback with AUDIO_EVENT_RESUME; that of the player tests isStart    *)
(* and then locks, that of the tones does nothing.                           *)
Resume(t, ok) ==
  /\ pc[t] = "resume"
  /\ Len(s.ev) < MaxStack
  /\ to' = [to EXCEPT ![t] = None]
  /\ IF to[t] = "ao" /\ ~s.isStart
       THEN Goes(t, "ao") /\ UNCHANGED <<s, next>>
       ELSE /\ s' = IF to[t] = "bt" THEN BtResume(s, ok) ELSE s
            /\ Goes(t, next[t])
            /\ next' = [next EXCEPT ![t] = "idle"]
  /\ vain' = (to[t] = "bt" /\ s.remote)

Ok == IF faults THEN BOOLEAN ELSE {TRUE}

Next == /\ \/ \E t \in Thread : AoPlay(t) \/ AoStop(t) \/ PlayStop(t)
           \/ \E t \in Thread, ok \in Ok : Started(t, ok) \/ Resume(t, ok)
           \/ \E same \in BOOLEAN : BtPlay(same)
           \/ \E ok \in Ok : ToneStart(ok)
           \/ BtStop \/ ToneStop
        /\ UNCHANGED <<races, faults>>

Spec == Init /\ [][Next]_vars

-----------------------------------------------------------------------------

(* The device, the stack and the flags are what the code can hold.           *)
TypeOK == /\ s.ev \in Seq(Users) /\ Len(s.ev) <= MaxStack
          /\ s.on => s.ev # <<>>
          /\ pc \in [Thread -> {"idle", "ao", "bt", "stop", "resume"}]
          /\ to \in [Thread -> Users \cup {None}]

Quiet == \A t \in Thread : pc[t] = "idle"

(* hs_ao_fetchData waits while isBlock is set, for the RESUME that clears    *)
(* it: a player that was started again is not blocked any more.              *)
MusicSounds == ~(s.isStart /\ s.isBlock)

(* The same when nobody runs between a test of flags and the locked part.    *)
MusicSoundsAlone == races \/ MusicSounds

(* The users' flags agree with the device: the one that takes itself for the *)
(* playing one is on top of the stack, so that its stop ends its own playing. *)
OwnerOnTop ==
  (Quiet /\ ~races) =>
    /\ s.isStart => s.on /\ Head(s.ev) = "ao"
    /\ (s.start /\ ~s.local) => s.on /\ Head(s.ev) = "bt"
    /\ s.tone => s.on /\ Head(s.ev) = "tone"

(* A user that waits for a RESUME has an event left in the stack below the   *)
(* one that plays, and when nobody plays nobody waits, unless the RESUME     *)
(* went to a host that had closed: App_AudioPlayCb does not pass it on.      *)
NobodyForgotten ==
  (Quiet /\ ~races /\ ~faults) =>
    /\ s.isBlock => \E i \in 1 .. Len(s.ev) : s.ev[i] = "ao"
    /\ s.local => \E i \in 1 .. Len(s.ev) : s.ev[i] = "bt"
    /\ ~s.on => (s.isBlock => vain) /\ ~s.local

=============================================================================
