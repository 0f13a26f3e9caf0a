----------------------------- MODULE MCOutbox -----------------------------
(***************************************************************************)
(* Instances of Outbox for TLC: an event with two subscribers, one with    *)
(* one, and one that nobody subscribes to.                                 *)
(***************************************************************************)
EXTENDS Outbox, TLC

CONSTANTS e1, e2, e3

MCHandlerCount == e1 :> 2 @@ e2 :> 1 @@ e3 :> 0
MCHandlerCount2 == e1 :> 2 @@ e2 :> 1
=============================================================================
