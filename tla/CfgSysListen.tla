---------------------------- MODULE CfgSysListen ----------------------------
(***************************************************************************)
(* The listeners of the system message service: hs_cfg_sysListenMsg,       *)
(* hs_cfg_sysCancelListenMsg and _cfg_sysDoEvent of                        *)
(* lib/config/system/cfg_sys.c.                                            *)
(*                                                                         *)
(* The listeners form a linked list guarded by g_pstMsgMutex, but each     *)
(* function reads the head of the list before it takes the mutex, and the  *)
(* service thread releases it around each callback.  What happens with the *)
(* mutex held is one step.  Memory of a freed node keeps its content until *)
(* the allocator hands it out again.                                       *)
(***************************************************************************)
EXTENDS Integers, Sequences, FiniteSets

CONSTANTS Thread,       \* the threads that listen and cancel
          Message,
          Fn,           \* the event functions
          Node,         \* memory for hs_cfg_sys_reg_t
          Nil,
          Worlds        \* sets of what may happen: "overlap", a thread begins
                        \* while another is under way; "listen", a thread listens,
                        \* and nodes are allocated, while listeners are called;
                        \* "cancel", a thread cancels meanwhile; "self", a callback
                        \* cancels itself (as in lib/drvhal/drvhal.c)

VARIABLES head,   \* g_pstEventOper
          node,   \* content of the nodes
          used,   \* the nodes allocated
          call,   \* per thread: the function it is in, and the head it read
          svc,    \* _cfg_sysDoEvent in the service thread
          reg,    \* history: what is listened for
          must,   \* history: what the walk has to call
          called, \* history: what it has called
          world   \* what may happen in this behaviour; never changes

vars == <<head, node, used, call, svc, reg, must, called, world>>

Idle == [op |-> "idle"]

Quiet == [pc |-> "idle", msg |-> Nil, ptr |-> Nil]

Init == /\ head = Nil
        /\ node = [n \in Node |-> [msg |-> Nil, fn |-> Nil, next |-> Nil]]
        /\ used = {}
        /\ call = [t \in Thread |-> Idle]
        /\ svc = Quiet
        /\ reg = {}
        /\ must = {}
        /\ called = {}
        /\ world \in Worlds

(* l is what a walk from p visits: it follows the links from node to node,   *)
(* to the end of the list or to a node that it has already visited.          *)
IsChain(mem, p, l) ==
  IF p = Nil THEN l = <<>>
  ELSE /\ l # <<>> /\ l[1] = p
       /\ \A k \in 1..(Len(l) - 1) : mem[l[k]].next = l[k + 1]
       /\ mem[l[Len(l)]].next \in {Nil} \cup {l[k] : k \in 1..Len(l)}
       /\ \A j, k \in 1..Len(l) : l[j] = l[k] => j = k

Paths == UNION {[1..n -> Node] : n \in 0..Cardinality(Node)}

(* The nodes from p on; a cycle is followed once.                            *)
Chain(mem, p) == CHOOSE l \in Paths : IsChain(mem, p, l)

From(p) == Chain(node, p)

Matches(n, m, f) == node[n].msg = m /\ node[n].fn = f

(* Positions on the chain from p with a listener for m and f.                *)
Hits(p, m, f) ==
  LET l == From(p) IN {k \in 1..Len(l) : Matches(l[k], m, f)}

-----------------------------------------------------------------------------

Free(t) == /\ call[t] = Idle
           /\ "overlap" \in world \/ \A u \in Thread : call[u] = Idle

(* hs_cfg_sysListenMsg reads the head.                                       *)
ListenRead(t, m, f) ==
  /\ Free(t)
  /\ "listen" \in world \/ svc = Quiet
  /\ call' = [call EXCEPT ![t] = [op |-> "listen", msg |-> m, fn |-> f, ptr |-> head]]
  /\ UNCHANGED <<head, node, used, svc, reg, must, called>>

Return(t) == call' = [call EXCEPT ![t] = Idle]

(* _cfg_sysNewEvent into the node n.                                         *)
NewEvent(n, m, f) == [node EXCEPT ![n] = [msg |-> m, fn |-> f, next |-> Nil]]

(* The node n linked behind the last one reached from p.  Writing through    *)
(* the NULL pointer that an empty list gave links it nowhere.                *)
Linked(mem, p, n) ==
  LET e == Chain(mem, p)
  IN IF e = <<>> THEN mem ELSE [mem EXCEPT ![e[Len(e)]].next = n]

(* The rest of it, with the mutex, into the free node n.                     *)
Listen(t, n) ==
  LET c   == call[t]
      mem == NewEvent(n, c.msg, c.fn)
  IN /\ c.op = "listen"
     /\ "listen" \in world \/ svc = Quiet
     /\ Hits(head, c.msg, c.fn) = {}
     /\ n \notin used
     /\ used' = used \cup {n}
     /\ IF head = Nil THEN head' = n /\ node' = mem
                      ELSE head' = head /\ node' = Linked(mem, c.ptr, n)
     /\ reg' = reg \cup {<<c.msg, c.fn>>}
     /\ Return(t)
     /\ UNCHANGED <<svc, must, called>>

(* It is already there, or there is no memory.                               *)
ListenNothing(t) ==
  LET c == call[t]
  IN /\ c.op = "listen"
     /\ Hits(head, c.msg, c.fn) # {} \/ used = Node
     /\ Return(t)
     /\ UNCHANGED <<head, node, used, svc, reg, must, called>>

(* hs_cfg_sysCancelListenMsg reads the head.                                 *)
CancelRead(t, m, f) ==
  /\ Free(t)
  /\ "cancel" \in world \/ svc = Quiet
  /\ call' = [call EXCEPT ![t] = [op |-> "cancel", msg |-> m, fn |-> f, ptr |-> head]]
  /\ UNCHANGED <<head, node, used, svc, reg, must, called>>

(* Mutant: the head of the list is not moved when its node is freed. *)
UnlinkKeepsHead(p, m, f) ==
  IF Hits(p, m, f) = {} THEN UNCHANGED <<head, node, used>>
  ELSE LET e == From(p)
           k == CHOOSE k \in Hits(p, m, f) : \A j \in Hits(p, m, f) : k <= j
       IN /\ head' = head
          /\ node' = IF k = 1 THEN node ELSE [node EXCEPT ![e[k - 1]].next = node[e[k]].next]
          /\ used' = used \ {e[k]}

(* The first listener for m and f from p on is unlinked and freed.           *)
Unlink(p, m, f) ==
  IF Hits(p, m, f) = {} THEN UNCHANGED <<head, node, used>>
  ELSE LET e == From(p)
           k == CHOOSE k \in Hits(p, m, f) : \A j \in Hits(p, m, f) : k <= j
       IN /\ head' = IF k = 1 THEN node[e[k]].next ELSE head
          /\ node' = IF k = 1 THEN node ELSE [node EXCEPT ![e[k - 1]].next = node[e[k]].next]
          /\ used' = used \ {e[k]}

(* The rest of it, with the mutex.                                           *)
Cancel(t) ==
  LET c == call[t]
  IN /\ c.op = "cancel"
     /\ "cancel" \in world \/ svc = Quiet
     /\ Unlink(c.ptr, c.msg, c.fn)
     /\ reg' = reg \ {<<c.msg, c.fn>>}
     /\ must' = must \ {<<c.msg, c.fn>>}
     /\ Return(t)
     /\ UNCHANGED <<svc, called>>

-----------------------------------------------------------------------------

(* _cfg_sysDoEvent reads the head.                                           *)
DoEvent(m) ==
  /\ svc = Quiet
  /\ "cancel" \in world \/ \A t \in Thread : call[t].op # "cancel"
  /\ "listen" \in world \/ \A t \in Thread : call[t].op # "listen"
  /\ svc' = [pc |-> "look", msg |-> m, ptr |-> head]
  /\ must' = {r \in reg : r[1] = m}
  /\ called' = {}
  /\ UNCHANGED <<head, node, used, call, reg>>

(* Mutant: the walk ends with the first listener. *)
LookStops ==
  /\ svc.pc = "look"
  /\ svc' = IF svc.ptr = Nil \/ called # {} THEN [svc EXCEPT !.pc = "done"]
            ELSE [svc EXCEPT !.pc = IF node[svc.ptr].msg = svc.msg THEN "call" ELSE "next"]
  /\ UNCHANGED <<head, node, used, call, reg, must, called>>

(* One turn of the loop, with the mutex.                                     *)
Look ==
  /\ svc.pc = "look"
  /\ svc' = IF svc.ptr = Nil THEN [svc EXCEPT !.pc = "done"]
            ELSE [svc EXCEPT !.pc = IF node[svc.ptr].msg = svc.msg THEN "call" ELSE "next"]
  /\ UNCHANGED <<head, node, used, call, reg, must, called>>

(* The mutex is released and the event function called.                      *)
CallBack ==
  LET f == node[svc.ptr].fn
  IN /\ svc.pc = "call"
     /\ called' = called \cup {<<svc.msg, f>>}
     /\ svc' = [svc EXCEPT !.pc = "next"]
     /\ \/ UNCHANGED <<head, node, used, reg, must>>
        \/ /\ "self" \in world
           /\ Unlink(head, svc.msg, f)
           /\ reg' = reg \ {<<svc.msg, f>>}
           /\ must' = must \ {<<svc.msg, f>>}
     /\ UNCHANGED call

(* With the mutex again, on to the next node.                                *)
Step == /\ svc.pc = "next"
        /\ svc' = [svc EXCEPT !.pc = "look", !.ptr = node[svc.ptr].next]
        /\ UNCHANGED <<head, node, used, call, reg, must, called>>

Done == /\ svc.pc = "done"
        /\ svc' = Quiet
        /\ must' = {} /\ called' = {}
        /\ UNCHANGED <<head, node, used, call, reg>>

Next ==
  /\ \/ \E t \in Thread : \/ \E m \in Message, f \in Fn : ListenRead(t, m, f) \/ CancelRead(t, m, f)
                          \/ \E n \in Node : Listen(t, n)
                          \/ ListenNothing(t)
                          \/ Cancel(t)
     \/ \E m \in Message : DoEvent(m)
     \/ Look \/ CallBack \/ Step \/ Done
  /\ world' = world

Spec == Init /\ [][Next]_vars

-----------------------------------------------------------------------------

(* A hs_cfg_sysListenMsg that returned HS_CFG_OK has its listener on the     *)
(* list, once, until it is cancelled, and the list holds nothing else and no *)
(* freed node.                                                               *)
ListIntact ==
  LET l == From(head)
  IN /\ reg = {<<node[l[k]].msg, node[l[k]].fn>> : k \in 1..Len(l)}
     /\ \A j, k \in 1..Len(l) : node[l[j]].msg = node[l[k]].msg /\ node[l[j]].fn = node[l[k]].fn
                                => j = k
     /\ used = {l[k] : k \in 1..Len(l)}

(* When a message has happened, every event function listening for it, from  *)
(* before the walk and not cancelled meanwhile, has been called.             *)
ListenersCalled == svc.pc = "done" => must \subseteq called

=============================================================================
