-------------------------- MODULE SnapshotDelivery --------------------------
(***************************************************************************)
(* What transport.Client promises its caller, without attempts, timeouts   *)
(* or a wire: snapshots are sent one at a time and in order; one that is   *)
(* rejected locally never reaches the backend; one reported as sent is     *)
(* stored there; one reported as failed may be stored too, even after the  *)
(* failure was reported; and every Send comes to an end.                   *)
(***************************************************************************)
EXTENDS Integers

CONSTANT Snapshots      \* 1 .. n, in the order they are sent

VARIABLES
    stage,      \* what the caller knows of each snapshot
    stored      \* the snapshots the backend holds

deliveryVars == <<stage, stored>>

Stages == {"pending", "sending", "sent", "failed", "rejected"}

DeliveryInit ==
    /\ stage = [s \in Snapshots |-> "pending"]
    /\ stored = {}

\* s is the next snapshot and no other is being sent.
IsNext(s) ==
    /\ stage[s] = "pending"
    /\ \A t \in Snapshots :
          /\ stage[t] # "sending"
          /\ t < s => stage[t] # "pending"

Begin(s) ==
    /\ IsNext(s)
    /\ stage' = [stage EXCEPT ![s] = "sending"]
    /\ UNCHANGED stored

Reject(s) ==
    /\ IsNext(s)
    /\ stage' = [stage EXCEPT ![s] = "rejected"]
    /\ UNCHANGED stored

Store(s) ==
    /\ stage[s] \in {"sending", "sent", "failed"}
    /\ stored' = stored \cup {s}
    /\ UNCHANGED stage

Finish(s) ==
    /\ stage[s] = "sending"
    /\ \E result \in {"sent", "failed"} :
          /\ result = "sent" => s \in stored
          /\ stage' = [stage EXCEPT ![s] = result]
    /\ UNCHANGED stored

DeliveryNext == \E s \in Snapshots : Begin(s) \/ Reject(s) \/ Store(s) \/ Finish(s)

DeliverySafety == DeliveryInit /\ [][DeliveryNext]_deliveryVars

DeliverySpec == DeliverySafety /\ WF_deliveryVars(\E s \in Snapshots : Finish(s))
=============================================================================
