----------------------------- MODULE MCManaged -----------------------------
(***************************************************************************)
(* The managed services for TLC: one machine and its money, the calls paid *)
(* from a managed allowance, and the membership fence around the remote    *)
(* authority, driven by the console's and by provisioning (SCIM) requests. *)
(* A behaviour is of one of the three, chosen at the start.                *)
(***************************************************************************)
EXTENDS ManagedExecution, ManagedCredits, MembershipFence, TLC

VARIABLE part

Symmetry ==
  Permutations(Chats) \union Permutations(Members) \union Permutations(Console)

MCInit ==
  /\ part \in {"machine", "credits", "standing"}
  /\ Init /\ CreditInit /\ StandingInit
  /\ part \in {"machine", "credits"} => \A m \in Members : status[m] = "active"

\* The last command finds at most one member concerned and two requests under way.
Touched == {m \in Members : status[m] # "none" \/ \E q \in Requests : m \in req[q].targets}
InFlight == {q \in Requests : req[q].at # "idle"}
StandingSlice ==
  planned' = MaxCommands => Cardinality(Touched') <= 1 /\ Cardinality(InFlight') <= 2

MCNext ==
  \/ part = "machine" /\ Next /\ UNCHANGED <<part, creditVars, standingVars>>
  \/ part = "credits" /\ CreditNext /\ UNCHANGED <<part, vars, standingVars>>
  \/ part = "standing" /\ StandingNext /\ StandingSlice /\ UNCHANGED <<part, vars, creditVars>>

MCSpec == MCInit /\ [][MCNext]_<<part, vars, creditVars, standingVars>>
=============================================================================
