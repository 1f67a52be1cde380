------------------------------ MODULE MBQueue -------------------------------
(***************************************************************************)
(* What a mailbox promises: a queue of at most Size messages to which a    *)
(* message is added at the end or, with high priority, at the front, from  *)
(* which the first is taken, and which a reset empties.                    *)
(***************************************************************************)
EXTENDS Naturals, Sequences

CONSTANTS Msg, Size, NoMsg

VARIABLES items, \* the messages, oldest first
          got    \* the message taken last

vars == <<items, got>>

Init == items = <<>> /\ got = NoMsg

Put(m) == Len(items) < Size /\ items' = Append(items, m) /\ UNCHANGED got

PutAhead(m) == Len(items) < Size /\ items' = <<m>> \o items /\ UNCHANGED got

Take == items # <<>> /\ got' = Head(items) /\ items' = Tail(items)

Clear == items' = <<>> /\ UNCHANGED got

Next == (\E m \in Msg : Put(m) \/ PutAhead(m)) \/ Take \/ Clear

Spec == Init /\ [][Next]_vars

=============================================================================
