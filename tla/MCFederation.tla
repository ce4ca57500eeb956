---------------------------- MODULE MCFederation ----------------------------
(***************************************************************************)
(* What two paired Homes do with each other, for TLC: the relocation of a  *)
(* project, one federated delivery, and placed runs (two of one project,   *)
(* the second with two observations).  A behaviour is of one of them,      *)
(* chosen at the start; the fairness is the relocation's.                  *)
(***************************************************************************)
EXTENDS ProjectHandoff, FederatedDelivery, CoDrive, TLC

CONSTANTS r1, r2
VARIABLE part

Observations == (r1 :> 1) @@ (r2 :> 2)

MCInit ==
  /\ part \in {"handoff", "delivery", "codrive"}
  /\ Init /\ DeliveryInit /\ DriveInit
  /\ part # "handoff" => preauth
  /\ part # "codrive" => allow

MCNext ==
  \/ part = "handoff" /\ Next /\ UNCHANGED <<part, deliveryVars, driveVars>>
  \/ part = "delivery" /\ DeliveryNext /\ UNCHANGED <<part, vars, driveVars>>
  \/ part = "codrive" /\ DriveNext /\ UNCHANGED <<part, vars, deliveryVars>>

MCSpec == MCInit /\ [][MCNext]_<<part, vars, deliveryVars, driveVars>>
MCFairSpec == MCSpec /\ Fairness
=============================================================================
