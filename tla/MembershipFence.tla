-------------------------- MODULE MembershipFence --------------------------
(***************************************************************************)
(* Changing a member's standing in a hosted organization: SCIM             *)
(* (commit_scim_membership) and reviewed Administration commands           *)
(* (execute_staged_member_review) stage every change around a remote       *)
(* authority, src/crates/app/src/membership_fence.rs.                      *)
(*                                                                         *)
(*   plan under the lock, begin every denial or observe every activation   *)
(*   remotely, commit to the Store at the planned head with a receipt,     *)
(*   complete every denial or admit every activation remotely.             *)
(*                                                                         *)
(* The workbench lock is not held over a remote call.  A request may die   *)
(* at any point; recovery replays the receipts.  The remote authority and  *)
(* recovery are not in the repository: they are modelled from the fence's  *)
(* contract.  A membership record is its status.                           *)
(***************************************************************************)
EXTENDS Naturals, FiniteSets

CONSTANTS
  Members,
  Scim,         \* SCIM requests that can be in flight at once
  Console,      \* Administration reviews that can be in flight at once
  MaxCommands   \* bound on commands planned

ASSUME FenceAssumption == Scim \intersect Console = {} /\ MaxCommands \in Nat

Requests == Scim \union Console

VARIABLES
  status,     \* the Store's membership projection
  head,       \* record head of the organization's scope
  receipts,   \* standing receipts committed with their commands
  remote,     \* the remote authority: standing, pending operation and revision
  req,        \* requests in flight
  planned,    \* commands planned so far
  loose       \* history: members opened on an observation no receipt holds

standingVars == <<status, head, receipts, remote, req, planned, loose>>

Statuses == {"none", "active", "out"}
Afters == {"active", "out"}
NoOperation == <<"none">>

\* A request: its command key, its transitions, what it prepared and observed.
StandingIdle == [at |-> "idle", key |-> NoOperation, targets |-> {}, after |-> "active",
         head |-> 0, left |-> {}, seen |-> {}]

StandingInit ==
  /\ status \in [Members -> {"none", "active"}]
  /\ head = 0 /\ receipts = {}
  /\ remote = [m \in Members |->
       [standing |-> IF status[m] = "active" THEN "open" ELSE "closed",
        op |-> NoOperation, rev |-> 0]]
  /\ req = [q \in Requests |-> StandingIdle]
  /\ planned = 0 /\ loose = {}

(* ---- planning, under the lock ---- *)

Planned(q, key, targets, after) ==
  /\ req[q].at = "idle" /\ planned < MaxCommands
  /\ planned' = planned + 1
  /\ req' = [req EXCEPT ![q] = [at |-> "preparing", key |-> key, targets |-> targets,
       after |-> after, head |-> head, left |-> targets, seen |-> {}]]
  /\ UNCHANGED <<status, head, receipts, remote, loose>>

\* The key is a digest of the record before and the record after.
ScimKey(m, after) == <<"scim", m, status[m], after>>

PlanScim(q, m, after) == Planned(q, ScimKey(m, after), {m}, after)

\* Every review has a key of its own.  Closing the organization denies every
\* member its history names.
PlanConsole(q, m, after) == Planned(q, <<"review", planned>>, {m}, after)

PlanClosure(q) ==
  /\ \E m \in Members : status[m] # "none"
  /\ Planned(q, <<"review", planned>>, {m \in Members : status[m] # "none"}, "out")

(* ---- the remote authority (external) ---- *)

BeginDenial(m, op) ==
  /\ remote' = [remote EXCEPT ![m] = [standing |-> "pending", op |-> op, rev |-> @.rev + 1]]
  /\ loose' = loose \ {m}

Unchanged(m, rev) == remote[m].rev = rev

AdmitIfUnchanged(m, rev) ==
  /\ remote' = [remote EXCEPT ![m] = [standing |-> "open", op |-> NoOperation, rev |-> rev + 1]]
  /\ loose' = IF \E r \in receipts : <<m, rev>> \in r.seen THEN loose \ {m} ELSE loose \union {m}

Matching(m, op) == remote[m].standing # "open" /\ remote[m].op = op

CompleteDenial(m, op) ==
  remote' = [remote EXCEPT ![m].standing = "closed"] /\ UNCHANGED loose

(* ---- preparing, one member after another, without the lock ---- *)

Ready(r, left) == [r EXCEPT !.left = left, !.at = IF left = {} THEN "prepared" ELSE "preparing"]

BeginDeny(q, m) ==
  /\ req[q].at = "preparing" /\ req[q].after = "out" /\ m \in req[q].left
  /\ BeginDenial(m, req[q].key)
  /\ req' = [req EXCEPT ![q] = Ready(@, @.left \ {m})]
  /\ UNCHANGED <<status, head, receipts, planned>>

Observe(q, m) ==
  /\ req[q].at = "preparing" /\ req[q].after = "active" /\ m \in req[q].left
  /\ req' = [req EXCEPT ![q] =
       [Ready(req[q], req[q].left \ {m}) EXCEPT !.seen = @ \union {<<m, remote[m].rev>>}]]
  /\ UNCHANGED <<status, head, receipts, remote, planned, loose>>

(* ---- committing, under the lock ---- *)

Replayed(q) == \E r \in receipts : r.key = req[q].key

\* Mutant: the Store commits at whatever head it has.
AtHead_Any(q) == req[q].head <= head

AtHead(q) == req[q].head = head

ReceiptsOf(q) ==
  {[key |-> req[q].key, member |-> m, after |-> req[q].after,
    seen |-> {s \in req[q].seen : s[1] = m}] : m \in req[q].targets}

\* The facts and their receipts, at the head the command was planned at.
Commit(q) ==
  /\ req[q].at = "prepared" /\ ~Replayed(q) /\ AtHead(q)
  /\ status' = [m \in Members |-> IF m \in req[q].targets THEN req[q].after ELSE status[m]]
  /\ head' = head + 1
  /\ receipts' = receipts \union ReceiptsOf(q)
  /\ req' = [req EXCEPT ![q].at = "finishing", ![q].left = req[q].targets]
  /\ UNCHANGED <<remote, planned, loose>>

\* A key that has its receipt is a replay, at any head: the Store changes
\* nothing and SCIM goes on to the remote half with what it observed itself.
ReplayScim(q) ==
  /\ q \in Scim /\ req[q].at = "prepared" /\ Replayed(q)
  /\ req' = [req EXCEPT ![q].at = "finishing", ![q].left = req[q].targets]
  /\ UNCHANGED <<status, head, receipts, remote, planned, loose>>

\* The head moved: the command is refused and what it prepared stays.
Refused(q) ==
  /\ req[q].at = "prepared" /\ ~Replayed(q) /\ ~AtHead(q)
  /\ req' = [req EXCEPT ![q] = StandingIdle]
  /\ UNCHANGED <<status, head, receipts, remote, planned, loose>>

(* ---- finishing, one member after another, without the lock ---- *)

\* SCIM writes its sync record into the organization's scope at the end.
Finished(q, m) ==
  IF req[q].left = {m}
  THEN /\ req' = [req EXCEPT ![q] = StandingIdle]
       /\ head' = IF q \in Scim THEN head + 1 ELSE head
  ELSE req' = [req EXCEPT ![q].left = @ \ {m}] /\ UNCHANGED head

FinishDeny(q, m) ==
  /\ req[q].at = "finishing" /\ req[q].after = "out" /\ m \in req[q].left
  /\ Matching(m, req[q].key) /\ CompleteDenial(m, req[q].key)
  /\ Finished(q, m)
  /\ UNCHANGED <<status, receipts, planned>>

FinishAdmit(q, m) ==
  /\ req[q].at = "finishing" /\ req[q].after = "active" /\ m \in req[q].left
  /\ \E s \in req[q].seen : s[1] = m /\ Unchanged(m, s[2]) /\ AdmitIfUnchanged(m, s[2])
  /\ Finished(q, m)
  /\ UNCHANGED <<status, receipts, planned>>

\* A refused, lost or uncertain remote answer, a dropped future or a crash: the
\* request stops where it is ("awaits recovery" after its commit).
Stop(q) ==
  /\ req[q].at # "idle"
  /\ req' = [req EXCEPT ![q] = StandingIdle]
  /\ UNCHANGED <<status, head, receipts, remote, planned, loose>>

\* Recovery (external): a committed receipt finishes what it names.
Recover(r) ==
  /\ r \in receipts
  /\ \/ r.after = "out" /\ remote[r.member].standing = "pending"
        /\ Matching(r.member, r.key) /\ CompleteDenial(r.member, r.key)
     \/ \E s \in r.seen : Unchanged(r.member, s[2]) /\ AdmitIfUnchanged(r.member, s[2])
  /\ UNCHANGED <<status, head, receipts, req, planned>>

StandingNext ==
  \/ \E q \in Scim, m \in Members, a \in Afters : PlanScim(q, m, a)
  \/ \E q \in Console, m \in Members, a \in Afters : PlanConsole(q, m, a)
  \/ \E q \in Console : PlanClosure(q)
  \/ \E q \in Requests, m \in Members :
       BeginDeny(q, m) \/ Observe(q, m) \/ FinishDeny(q, m) \/ FinishAdmit(q, m)
  \/ \E q \in Requests : Commit(q) \/ ReplayScim(q) \/ Refused(q) \/ Stop(q)
  \/ \E r \in receipts : Recover(r)

StandingSpec == StandingInit /\ [][StandingNext]_standingVars

(* ---- properties ---- *)

\* Every variable has its type.
StandingTypeOK ==
  /\ status \in [Members -> Statuses]
  /\ head \in Nat /\ planned \in 0..MaxCommands /\ loose \subseteq Members
  /\ \A r \in receipts : r.member \in Members /\ r.after \in Afters
  /\ \A m \in Members : /\ remote[m].standing \in {"open", "pending", "closed"}
                        /\ remote[m].rev \in Nat
  /\ \A q \in Requests : /\ req[q].at \in {"idle", "preparing", "prepared", "finishing"}
                         /\ req[q].targets \subseteq Members
                         /\ req[q].left \subseteq req[q].targets

\* The fence: a member the Store has taken out has no open standing at the
\* remote authority, whatever requests overlap, die or are recovered late
\* ("Recovery cannot take a fresh observation that could reopen a newer denial").
\* The exception is a replayed SCIM activation: the Store changes nothing, and
\* the route admits an observation of its own that no receipt holds.
OutIsFenced ==
  \A m \in Members : status[m] = "out" /\ remote[m].standing = "open" => m \in loose

\* A command that goes on to its remote half has changed the Store: what it
\* tells the remote authority and the caller is what the Store says.
Applies(q) ==
  req[q].at = "prepared" /\ req'[q].at = "finishing" =>
    \A m \in req[q].targets : status'[m] = req[q].after

\* The console's commands carry the caller's key: each one that finishes has
\* made its change, although provisioning requests change the same members.
CommitApplies == [][\A q \in Console : Applies(q)]_standingVars

\* Store and remote authority agree about who is out, and a finished command
\* is one that changed the Store (execute_staged_member_review).
StandingSafe == [](StandingTypeOK /\ OutIsFenced) /\ CommitApplies

\* "a later distinct transition gets a new command key" (commit_scim_membership):
\* so does every provisioning command that finishes.
ScimCommitApplies == [][\A q \in Scim : Applies(q)]_standingVars
=============================================================================
