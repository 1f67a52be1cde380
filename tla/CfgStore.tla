----------------------------- MODULE CfgStore -----------------------------
(***************************************************************************)
(* What the configuration store promises its users: a write-back memory of *)
(* blocks.  A write is visible at once; it becomes stable one whole block  *)
(* at a time; a loss of power takes the store back to the stable contents. *)
(*                                                                         *)
(* status tells how far the promise holds.  A restore that fails suspends  *)
(* it ("pending": what is stable stays stable, but reads may show a        *)
(* damaged block) until a later restore succeeds.  A write-back started    *)
(* meanwhile gives it up ("lost").                                         *)
(***************************************************************************)
CONSTANTS Block, Content, Junk

VARIABLES view,    \* what a read of each block returns
          stable,  \* what a read returns after a loss of power
          status

Init == /\ view = stable
        /\ \A b \in Block : stable[b] \in Content
        /\ status = "ok"

Write(b, c) == /\ status = "ok"
               /\ view' = [view EXCEPT ![b] = c]
               /\ UNCHANGED <<stable, status>>

WriteDamaged(b, c) == /\ status = "pending"
                      /\ view' = [view EXCEPT ![b] = c]
                      /\ UNCHANGED <<stable, status>>

Commit(b) == /\ status = "ok"
             /\ stable' = [stable EXCEPT ![b] = view[b]]
             /\ UNCHANGED <<view, status>>

PowerLoss == /\ status # "lost"
             /\ view' = stable
             /\ UNCHANGED <<stable, status>>

RestoreFails == /\ status = "ok"
                /\ status' = "pending"
                /\ UNCHANGED <<view, stable>>

Recover == /\ status = "pending"
           /\ view = stable
           /\ status' = "ok"
           /\ UNCHANGED <<view, stable>>

GiveUp == status' = "lost"

Next == \/ \E b \in Block, c \in Content : Write(b, c)
        \/ \E b \in Block, c \in Content \cup {Junk} : WriteDamaged(b, c)
        \/ \E b \in Block : Commit(b)
        \/ PowerLoss \/ RestoreFails \/ Recover \/ GiveUp

Spec == Init /\ [][Next]_<<view, stable, status>>

=============================================================================
