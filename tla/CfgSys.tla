------------------------------- MODULE CfgSys -------------------------------
(***************************************************************************)
(* The system message service: lib/config/system/cfg_sys.c.                *)
(*                                                                         *)
(* hs_cfg_sysSendMsg allocates a message and posts its address into a      *)
(* mailbox; the service thread takes one at a time, frees it and runs the  *)
(* handler the event tables give for it, which may send messages itself.   *)
(* A message with FAST_EVENT_MASK is counted in g_u32FastEvent before it   *)
(* is posted; the service takes the mask off and counts down, and shows    *)
(* the event on LEDs and with a tone only while no fast one is underway.   *)
(* The release of a button sets the count to 0.                            *)
(*                                                                         *)
(* g_u32FastEvent is a plain variable that several threads increment:      *)
(* another thread may run between its load and its store.                  *)
(***************************************************************************)
EXTENDS Integers, Sequences, FiniteSets

CONSTANTS Thread,     \* the threads that send, besides the service
          QueueSize,  \* MESSAGE_QUEUE_CNT
          Worlds,     \* sets of what may happen besides sends: "preempt", a
                      \* thread is interrupted in changing the count; "button",
                      \* a button is released (hs_cfg_setFastEvent(0)); "shell",
                      \* the shell calls hs_cfg_sysClearMsg
          U32,        \* modulus of uint32_t
          MaxSends    \* bound: sends begun

Service == "service"

Sender == Thread \cup {Service}

VARIABLES queue,   \* g_pstMess: the messages posted
          fast,    \* g_u32FastEvent
          snd,     \* per sender: its hs_cfg_sysSendMsg
          svc,     \* the service thread and the message it works on
          heap,    \* the messages allocated
          sends,   \* sends begun so far; numbers the messages
          world    \* what may happen in this behaviour; never changes

vars == <<queue, fast, snd, svc, heap, sends, world>>

NoMsg == [id |-> 0, kind |-> "none"]

(* kind: an event with or without the mask, or HS_CFG_EVENT_NONE.            *)
Msg == [id : 1..MaxSends, kind : {"fast", "plain", "none"}]

Init == /\ queue = <<>>
        /\ fast = 0
        /\ snd = [t \in Sender |-> [pc |-> "idle", msg |-> NoMsg, load |-> 0]]
        /\ svc = [pc |-> "get", msg |-> NoMsg, load |-> 0]
        /\ heap = {}
        /\ sends = 0
        /\ world \in Worlds

-----------------------------------------------------------------------------

(* hs_cfg_sysSendMsg: the message is allocated, and the count of fast ones   *)
(* loaded.  A send that finds no memory changes nothing.                     *)
SendAlloc(t, kind) ==
  LET m == [id |-> sends + 1, kind |-> kind]
  IN /\ snd[t].pc = "idle"
     /\ t = Service => svc.pc = "oper"
     /\ sends < MaxSends
     /\ sends' = sends + 1
     /\ heap' = heap \cup {m.id}
     /\ snd' = [snd EXCEPT ![t] = [pc |-> IF kind = "fast" THEN "count" ELSE "put",
                                   msg |-> m, load |-> fast]]
     /\ UNCHANGED <<queue, fast, svc>>

(* g_u32FastEvent += 1                                                       *)
SendCount(t) ==
  /\ snd[t].pc = "count"
  /\ fast' = ((IF "preempt" \in world THEN snd[t].load ELSE fast) + 1) % U32
  /\ snd' = [snd EXCEPT ![t].pc = "put"]
  /\ UNCHANGED <<queue, svc, heap, sends>>

Idle(t) == [snd EXCEPT ![t] = [pc |-> "idle", msg |-> NoMsg, load |-> 0]]

(* Mutant: a message that finds the queue full is not freed. *)
SendPutLeaks(t) ==
  /\ snd[t].pc = "put"
  /\ queue' = IF Len(queue) < QueueSize THEN Append(queue, snd[t].msg) ELSE queue
  /\ snd' = Idle(t)
  /\ UNCHANGED <<fast, svc, heap, sends>>

(* Mutant: the send waits for room instead of giving up. *)
SendPutWaits(t) ==
  /\ snd[t].pc = "put"
  /\ Len(queue) < QueueSize
  /\ queue' = Append(queue, snd[t].msg)
  /\ snd' = Idle(t)
  /\ UNCHANGED <<fast, svc, heap, sends>>

(* Mutant: the queue is not checked for room. *)
SendPutOverruns(t) ==
  /\ snd[t].pc = "put"
  /\ queue' = Append(queue, snd[t].msg)
  /\ snd' = Idle(t)
  /\ UNCHANGED <<fast, svc, heap, sends>>

(* oshalMessagePut with no timeout; a message that finds the queue full is   *)
(* freed again.                                                              *)
SendPut(t) ==
  /\ snd[t].pc = "put"
  /\ IF Len(queue) < QueueSize
       THEN queue' = Append(queue, snd[t].msg) /\ heap' = heap
       ELSE queue' = queue /\ heap' = heap \ {snd[t].msg.id}
  /\ snd' = Idle(t)
  /\ UNCHANGED <<fast, svc, sends>>

-----------------------------------------------------------------------------

(* _cfg_sysServiceThread takes a message.                                    *)
Get == /\ svc.pc = "get"
       /\ queue # <<>>
       /\ queue' = Tail(queue)
       /\ svc' = [pc |-> "free", msg |-> Head(queue), load |-> 0]
       /\ UNCHANGED <<fast, snd, heap, sends>>

(* Mutant: the last fast message under way keeps its mask. *)
DoFreeFew ==
  /\ svc.pc = "free"
  /\ heap' = heap \ {svc.msg.id}
  /\ svc' = [svc EXCEPT !.load = fast,
                        !.pc = IF svc.msg.kind = "none" THEN "get"
                               ELSE IF svc.msg.kind = "fast" /\ fast > 1 THEN "strip"
                               ELSE "oper"]
  /\ UNCHANGED <<queue, fast, snd, sends>>

(* _cfg_sysDoMessage copies the message and frees it, and loads the count.   *)
DoFree ==
  /\ svc.pc = "free"
  /\ heap' = heap \ {svc.msg.id}
  /\ svc' = [svc EXCEPT !.load = fast,
                        !.pc = IF svc.msg.kind = "none" THEN "get"
                               ELSE IF svc.msg.kind = "fast" /\ fast > 0 THEN "strip"
                               ELSE "oper"]
  /\ UNCHANGED <<queue, fast, snd, sends>>

(* Mutant: the mask is taken off and the count kept. *)
DoStripForgets ==
  /\ svc.pc = "strip"
  /\ svc' = [svc EXCEPT !.pc = "oper", !.msg.kind = "plain"]
  /\ UNCHANGED <<queue, fast, snd, heap, sends>>

(* The mask is taken off and the count goes down; the table is searched and  *)
(* the handler called.                                                       *)
DoStrip ==
  /\ svc.pc = "strip"
  /\ fast' = ((IF "preempt" \in world THEN svc.load ELSE fast) - 1) % U32
  /\ svc' = [svc EXCEPT !.pc = "oper", !.msg.kind = "plain"]
  /\ UNCHANGED <<queue, snd, heap, sends>>

(* The handler, and the listeners, return; LED and tone are shown if no fast *)
(* event is underway.                                                        *)
DoReturn ==
  /\ svc.pc = "oper"
  /\ snd[Service].pc = "idle"
  /\ svc' = [pc |-> "get", msg |-> NoMsg, load |-> 0]
  /\ UNCHANGED <<queue, fast, snd, heap, sends>>

(* _cfg_sysBnSendEvent of BN_TYPE_PRESS_RELEASE sets the count.              *)
ButtonRelease == /\ "button" \in world
                 /\ fast # 0
                 /\ fast' = 0
                 /\ UNCHANGED <<queue, snd, svc, heap, sends>>

(* hs_cfg_sysClearMsg: the messages posted are dropped, not freed.           *)
ClearMsg == /\ "shell" \in world
            /\ queue # <<>>
            /\ queue' = <<>>
            /\ UNCHANGED <<fast, snd, svc, heap, sends>>

Send(t) == SendCount(t) \/ SendPut(t)

Serve == Get \/ DoFree \/ DoStrip \/ DoReturn

Next == /\ \/ \E t \in Sender : Send(t) \/ \E kind \in {"fast", "plain", "none"} : SendAlloc(t, kind)
           \/ Serve
           \/ ButtonRelease
           \/ ClearMsg
        /\ world' = world

Spec == Init /\ [][Next]_vars

(* Threads run, and handlers return.                                         *)
Fairness == /\ WF_vars(Serve /\ world' = world)
            /\ \A t \in Sender : WF_vars(Send(t) /\ world' = world)

FairSpec == Spec /\ Fairness

-----------------------------------------------------------------------------

(* Messages, senders and the service keep to the values the code gives them; *)
(* the queue never outgrows its length.                                      *)
TypeOK ==
  /\ queue \in Seq(Msg) /\ Len(queue) <= QueueSize
  /\ fast \in 0..(U32 - 1)
  /\ \A t \in Sender : snd[t].pc \in {"idle", "count", "put"} /\ snd[t].msg \in Msg \cup {NoMsg}
  /\ svc.pc \in {"get", "free", "strip", "oper"} /\ svc.msg \in Msg \cup {NoMsg}
  /\ heap \subseteq 1..MaxSends
  /\ sends \in 0..MaxSends

(* The handler tables and the listeners are searched for the event itself,   *)
(* never for an event with FAST_EVENT_MASK, which none of them has.          *)
EventUnmasked == svc.pc = "oper" => svc.msg.kind = "plain"

(* This is so as long as no button is released and changes of the count are  *)
(* not interrupted: the count is never below the fast messages still to be   *)
(* taken.                                                                    *)
FastUnmasked == world \cap {"preempt", "button"} = {} => EventUnmasked

(* The fast messages counted that the service has not taken yet              *)
Underway == Cardinality({t \in Sender : snd[t].pc = "put" /\ snd[t].msg.kind = "fast"})
            + Cardinality({n \in DOMAIN queue : queue[n].kind = "fast"})
            + (IF svc.pc \in {"free", "strip"} /\ svc.msg.kind = "fast" THEN 1 ELSE 0)

(* The count is that of the fast messages under way and of those lost, which *)
(* hide LEDs and tones until a button is released: a message is lost only    *)
(* when it finds the queue full or is cleared, and none is counted down      *)
(* twice.                                                                    *)
CountExact ==
  [][world \cap {"preempt", "button"} = {} =>
       LET more == (fast - Underway)' - (fast - Underway)
       IN more = 0 \/ (more > 0 /\ svc' = svc /\ (Len(queue) = QueueSize \/ queue' = <<>>))]_vars

(* Memory: the messages allocated are those a sender has not posted yet,     *)
(* those posted, and the one the service has not freed yet.  Only            *)
(* hs_cfg_sysClearMsg loses some.                                            *)
HeapBalanced ==
  "shell" \notin world =>
  heap = {snd[t].msg.id : t \in {u \in Sender : snd[u].pc # "idle"}}
         \cup {queue[n].id : n \in 1..Len(queue)}
         \cup (IF svc.pc = "free" THEN {svc.msg.id} ELSE {})

(* A full queue never makes the service wait for itself: it always comes     *)
(* back for the next message, even when handlers send.                       *)
ServiceReturns == []<>(svc.pc = "get")

=============================================================================
