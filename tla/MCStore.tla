------------------------------ MODULE MCStore ------------------------------
(***************************************************************************)
(* The store's other protocols for TLC: fold checkpoints, record batches,  *)
(* command dispatch behind its fence, and the idempotency guard of the     *)
(* HTTP routes.  A behaviour is of one of them, chosen at the start.       *)
(*                                                                         *)
(* Two releases whose reducers disagree on every event; the lifecycle      *)
(* distinguishes the order of its events.  One governed snapshot, and one  *)
(* of two facts.                                                           *)
(***************************************************************************)
EXTENDS FoldCheckpoint, RecordAdmission, DispatchFence, HttpGuard, TLC

CONSTANTS n1, n2, org
VARIABLE part

MCBuilds == 1..2
MCEvents == 1..2
MCState == 0..6
MCEvolve == [b \in MCBuilds |-> [x \in MCState \X MCEvents |-> (2 * x[1] + b + x[2]) % 7]]
MCFacts ==
  [n \in RecordSnaps |-> [s \in Scopes |->
     IF n = n1 THEN (IF s = org THEN 1 ELSE 0) ELSE 1]]
Symmetry == Permutations(RecordKeys) \union Permutations(Threads)

Frozen(p) == part = p /\ UNCHANGED part

MCInit ==
  /\ part \in {"fold", "records", "fence", "guard"}
  /\ Init /\ RecordInit /\ FenceInit /\ GuardInit
  /\ part # "fold" => build = 1
  /\ part # "guard" => \A c \in DOMAIN guardRow : guardRow[c] = GuardNone

MCNext ==
  \/ Frozen("fold") /\ Next /\ UNCHANGED <<recordVars, fenceVars, guardVars>>
  \/ Frozen("records") /\ RecordNext /\ UNCHANGED <<vars, fenceVars, guardVars>>
  \/ Frozen("fence") /\ FenceNext /\ UNCHANGED <<vars, recordVars, guardVars>>
  \/ Frozen("guard") /\ GuardNext /\ UNCHANGED <<vars, recordVars, fenceVars>>
  \/ part \in {"fence", "guard"} /\ UNCHANGED <<part, vars, recordVars, fenceVars, guardVars>>

MCSpec == MCInit /\ [][MCNext]_<<part, vars, recordVars, fenceVars, guardVars>>
=============================================================================
