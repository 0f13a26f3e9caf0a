--------------------------- MODULE EventDelivery ---------------------------
(***************************************************************************)
(* What the outbox promises its publishers: a published event stays        *)
(* pending until either every subscriber has completed for it (delivered)  *)
(* or the dispatcher gives it up (failed), and a settled event never       *)
(* changes again.  A subscriber may complete any number of times, so       *)
(* completions are a set and not a count: at-least-once delivery.          *)
(*                                                                         *)
(* Abstract specification; Outbox implements it.                           *)
(***************************************************************************)
EXTENDS Naturals

CONSTANTS
    Events,        \* the domain events that may be published
    HandlerCount   \* HandlerCount[e]: subscribers registered for e's type

VARIABLES
    status,        \* status[e]: "unpublished", "pending", "delivered", "failed"
    handled        \* handled[e]: positions of the subscribers that completed

vars == <<status, handled>>

Subscribers(e) == 1 .. HandlerCount[e]

Init ==
    /\ status = [e \in Events |-> "unpublished"]
    /\ handled = [e \in Events |-> {}]

Publish(e) ==
    /\ status[e] = "unpublished"
    /\ status' = [status EXCEPT ![e] = "pending"]
    /\ UNCHANGED handled

Complete(e, i) ==
    /\ status[e] = "pending"
    /\ handled' = [handled EXCEPT ![e] = @ \cup {i}]
    /\ UNCHANGED status

Deliver(e) ==
    /\ status[e] = "pending"
    /\ handled[e] = Subscribers(e)
    /\ status' = [status EXCEPT ![e] = "delivered"]
    /\ UNCHANGED handled

GiveUp(e) ==
    /\ status[e] = "pending"
    /\ status' = [status EXCEPT ![e] = "failed"]
    /\ UNCHANGED handled

Next ==
    \E e \in Events :
        \/ Publish(e)
        \/ \E i \in Subscribers(e) : Complete(e, i)
        \/ Deliver(e)
        \/ GiveUp(e)

Spec == Init /\ [][Next]_vars
=============================================================================
