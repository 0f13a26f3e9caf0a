--------------------- MODULE MCNotificationDelivery ---------------------
(***************************************************************************)
(* Instances of NotificationDelivery: a mail, an inbox entry, and a push   *)
(* to a user without a device.                                             *)
(***************************************************************************)
EXTENDS NotificationDelivery, TLC

CONSTANTS mail, inbox, push

MCChannel == mail :> "email" @@ inbox :> "inapp" @@ push :> "push"
MCPriority == mail :> "normal" @@ inbox :> "low" @@ push :> "high"
MCDeliverable == {mail, inbox} \cap Deliveries
MCChannelTwo == mail :> "email" @@ push :> "push"
MCPriorityTwo == mail :> "normal" @@ push :> "high"
MCWorkerSymmetry == Permutations(Workers)
=============================================================================
