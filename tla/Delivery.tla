------------------------------ MODULE Delivery ------------------------------
(***************************************************************************)
(* What the way of a chat message promises to those who wrote it, with     *)
(* nothing of queues, channels and processes: a message is taken once, and *)
(* is then handled, once, or known to be lost.  Where the record of what   *)
(* was taken is not durable it may be forgotten as a whole.                *)
(*                                                                         *)
(* Module Chat, with its readers, consumers, listeners and tasks, is shown *)
(* to implement this where one process handles what it reads.              *)
(***************************************************************************)
EXTENDS Naturals

CONSTANT Messages

VARIABLES
    durable,    \* whether the record outlives a process
    status,     \* of a message, as far as the record goes back
    handled,    \* history: how often a message was handled
    lost        \* history: messages that were taken and not handled

deliveryVars == <<durable, status, handled, lost>>

UnderWay == {m \in Messages : status[m] = "underway"}

DeliveryInit ==
    /\ durable \in BOOLEAN
    /\ status = [m \in Messages |-> "new"]
    /\ handled = [m \in Messages |-> 0]
    /\ lost = {}

Take(m) ==
    /\ status[m] = "new"
    /\ status' = [status EXCEPT ![m] = "underway"]
    /\ UNCHANGED <<durable, handled, lost>>

Finish(m) ==
    /\ status[m] = "underway"
    /\ status' = [status EXCEPT ![m] = "over"]
    /\ handled' = [handled EXCEPT ![m] = @ + 1]
    /\ UNCHANGED <<durable, lost>>

(* What is under way is cut off, one message or all that a process has.    *)
Lose(S) ==
    /\ S \subseteq UnderWay
    /\ status' = [m \in Messages |-> IF m \in S THEN "over" ELSE status[m]]
    /\ lost' = lost \cup S
    /\ UNCHANGED <<durable, handled>>

Forget ==
    /\ ~durable
    /\ status' = [m \in Messages |-> "new"]
    /\ lost' = lost \cup UnderWay
    /\ UNCHANGED <<durable, handled>>

DeliveryNext ==
    \/ \E m \in Messages : Take(m) \/ Finish(m)
    \/ \E S \in SUBSET Messages : Lose(S)
    \/ Forget

DeliverySpec == DeliveryInit /\ [][DeliveryNext]_deliveryVars
=============================================================================
