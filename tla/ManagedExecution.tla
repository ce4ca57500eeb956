-------------------------- MODULE ManagedExecution --------------------------
(***************************************************************************)
(* The managed-Machine execution lifecycle of one command,                 *)
(* src/crates/core/src/managed_machine_execution.rs, with the workers it   *)
(* fences.  Home admits commands to the reducer; a worker holds one epoch  *)
(* and reports by messages that may be late, repeated or out of order.     *)
(* Home may give a worker up for lost while it is still running, so        *)
(* several workers can be alive and reporting at once.                     *)
(*                                                                         *)
(* A request is its profile and whether the profile has the capabilities   *)
(* it requires; identities, bounds and evidence texts are well formed.     *)
(***************************************************************************)
EXTENDS Naturals

CONSTANTS
  Amounts,    \* positive amounts of money reserved or billed
  MaxEpoch    \* bound on worker epochs

ASSUME ExecutionAssumption == Amounts \subseteq Nat \ {0} /\ MaxEpoch \in Nat

VARIABLES
  exec,      \* ManagedExecutionState
  workers,   \* epochs whose worker was granted and may be running
  mail,      \* every report a worker has sent: never lost, never used up
  lost,      \* epochs Home gave up
  heard      \* epoch of every admitted report: the observations, then the end

vars == <<exec, workers, mail, lost, heard>>

Profiles == {"durable_workflow", "isolated_workspace", "dedicated_compute"}
Phases == {"init", "prepared", "acknowledged", "running", "retryable",
           "completed", "failed", "canceled", "suspended"}
Terminal == {"completed", "failed", "canceled"}
Epochs == 1..MaxEpoch
NoEpoch == 0
NotSet == [set |-> FALSE, nanos |-> 0]
Set(n) == [set |-> TRUE, nanos |-> n]
Money == [set : BOOLEAN, nanos : Amounts \union {0}]

Init ==
  /\ exec = [phase |-> "init", profile |-> "durable_workflow", fits |-> FALSE,
             reserved |-> NotSet, active |-> NoEpoch, last |-> NoEpoch,
             usage |-> NotSet, settlement |-> NotSet, open |-> FALSE, suspended |-> FALSE]
  /\ workers = {} /\ mail = {} /\ lost = {} /\ heard = {}

(* ---- commands of the Home ---- *)

Prepare(profile, fits) ==
  /\ exec.phase = "init"
  /\ exec' = [exec EXCEPT !.phase = "prepared", !.profile = profile, !.fits = fits]
  /\ UNCHANGED <<workers, mail, lost, heard>>

AuthorizeWorkspace(n) ==
  /\ exec.phase = "prepared" /\ exec.profile = "isolated_workspace"
  /\ ~exec.reserved.set
  /\ exec' = [exec EXCEPT !.reserved = Set(n), !.open = TRUE]
  /\ UNCHANGED <<workers, mail, lost, heard>>

Acknowledgeable ==
  /\ exec.phase = "prepared" /\ exec.profile # "dedicated_compute" /\ exec.fits
  /\ exec.profile = "isolated_workspace" => exec.reserved.set

Acknowledge ==
  /\ Acknowledgeable
  /\ exec' = [exec EXCEPT !.phase = "acknowledged"]
  /\ UNCHANGED <<workers, mail, lost, heard>>

\* grant_is_exact beyond the epoch: a grant that names anything else is refused.
GrantIsExact == exec.fits /\ exec.profile # "dedicated_compute"

Granted(e) ==
  /\ exec' = [exec EXCEPT !.phase = "running", !.active = e, !.last = e]
  /\ workers' = workers \union {e}
  /\ UNCHANGED <<mail, lost, heard>>

Start(e) ==
  /\ exec.phase = "acknowledged" /\ ~exec.suspended /\ GrantIsExact
  /\ e = 1 /\ exec.last = NoEpoch /\ exec.active = NoEpoch
  /\ Granted(e)

RetryEpoch_Same(e) == e = exec.last
RetryEpoch(e) == e = exec.last + 1

Retry(e) ==
  /\ exec.phase = "retryable" /\ ~exec.suspended /\ GrantIsExact
  /\ RetryEpoch(e) /\ exec.active = NoEpoch
  /\ Granted(e)

Current(e) == exec.phase = "running" /\ exec.active = e

\* Home stops hearing from the active worker, running or not.
WorkerLost(e) ==
  /\ Current(e)
  /\ exec' = [exec EXCEPT !.phase = "retryable", !.active = NoEpoch]
  /\ lost' = lost \union {e}
  /\ UNCHANGED <<workers, mail, heard>>

Settle_Asked(n) ==
  /\ exec.phase = "completed" /\ ~exec.settlement.set
  /\ exec.profile = "durable_workflow" => n = 0
  /\ exec.reserved.set => n <= exec.reserved.nanos
  /\ exec' = [exec EXCEPT !.settlement = Set(n), !.open = FALSE]
  /\ UNCHANGED <<workers, mail, lost, heard>>
Settle(n) ==
  /\ exec.phase = "completed" /\ ~exec.settlement.set
  /\ n = exec.usage.nanos
  /\ exec.profile = "durable_workflow" => n = 0
  /\ exec.reserved.set => n <= exec.reserved.nanos
  /\ exec' = [exec EXCEPT !.settlement = Set(n), !.open = FALSE]
  /\ UNCHANGED <<workers, mail, lost, heard>>

Cancel ==
  /\ exec.phase \in {"prepared", "acknowledged", "running", "retryable"}
  /\ exec' = [exec EXCEPT !.phase = "canceled", !.active = NoEpoch, !.open = FALSE]
  /\ UNCHANGED <<workers, mail, lost, heard>>

AfterSuspend(phase) == IF phase \in Terminal THEN phase ELSE "suspended"
Suspend ==
  /\ exec.phase # "init" /\ ~exec.suspended
  /\ exec' = [exec EXCEPT !.suspended = TRUE, !.active = NoEpoch, !.open = FALSE,
                          !.phase = AfterSuspend(exec.phase)]
  /\ UNCHANGED <<workers, mail, lost, heard>>

(* ---- the workers, and what Home makes of their reports ---- *)

Reports == [kind : {"observation", "fail"}, epoch : Epochs, nanos : {0}]
           \union [kind : {"complete"}, epoch : Epochs, nanos : Amounts \union {0}]

Report(r) ==
  /\ r.epoch \in workers /\ mail' = mail \union {r}
  /\ UNCHANGED <<exec, workers, lost, heard>>

RecordObservation_Running(r) ==
  /\ r \in mail /\ r.kind = "observation" /\ exec.phase = "running"
  /\ heard' = heard \union {r.epoch}
  /\ UNCHANGED <<exec, workers, mail, lost>>
RecordObservation(r) ==
  /\ r \in mail /\ r.kind = "observation" /\ Current(r.epoch)
  /\ heard' = heard \union {r.epoch}
  /\ UNCHANGED <<exec, workers, mail, lost>>

\* Included workflows bill nothing, workspaces at most what was reserved.
Billable(n) ==
  /\ exec.profile = "durable_workflow" => n = 0
  /\ exec.profile = "isolated_workspace" => exec.reserved.set /\ n <= exec.reserved.nanos
  /\ exec.profile # "dedicated_compute"

Complete(r) ==
  /\ r \in mail /\ r.kind = "complete" /\ Current(r.epoch) /\ Billable(r.nanos)
  /\ exec' = [exec EXCEPT !.phase = "completed", !.active = NoEpoch, !.usage = Set(r.nanos)]
  /\ heard' = heard \union {r.epoch}
  /\ UNCHANGED <<workers, mail, lost>>

Fail(r) ==
  /\ r \in mail /\ r.kind = "fail" /\ Current(r.epoch)
  /\ exec' = [exec EXCEPT !.phase = "failed", !.active = NoEpoch, !.open = FALSE]
  /\ heard' = heard \union {r.epoch}
  /\ UNCHANGED <<workers, mail, lost>>

Next ==
  \/ \E profile \in Profiles, fits \in BOOLEAN : Prepare(profile, fits)
  \/ \E n \in Amounts : AuthorizeWorkspace(n)
  \/ Acknowledge \/ Cancel \/ Suspend
  \/ \E e \in Epochs : Start(e) \/ Retry(e) \/ WorkerLost(e)
  \/ \E n \in Amounts \union {0} : Settle(n)
  \/ \E r \in Reports : Report(r) \/ RecordObservation(r) \/ Complete(r) \/ Fail(r)

Spec == Init /\ [][Next]_vars

(* ---- properties ---- *)

\* Every field has its type.
TypeOK ==
  /\ exec \in [phase : Phases, profile : Profiles, fits : BOOLEAN, reserved : Money,
               active : Epochs \union {NoEpoch}, last : Epochs \union {NoEpoch},
               usage : Money, settlement : Money, open : BOOLEAN, suspended : BOOLEAN]
  /\ workers \subseteq Epochs /\ mail \subseteq Reports
  /\ lost \subseteq Epochs /\ heard \subseteq Epochs

\* decide: a worker that was given up, or overtaken by a newer epoch, changes
\* nothing any more: whatever its reports say and whenever they arrive, no
\* observation, end or bill of it is admitted.
Fenced ==
  [][/\ \A e \in lost : e \in heard' => e \in heard
     /\ exec'.usage # exec.usage => exec.active \notin lost /\ exec.active = exec.last
     /\ exec'.phase = "failed" /\ exec.phase # "failed" => exec.active \notin lost]_vars

\* decide, Retry: at most one worker has authority, and it is the newest one:
\* every other granted worker was given up.
OneAuthority ==
  /\ exec.phase = "running" <=> exec.active # NoEpoch
  /\ exec.active # NoEpoch => exec.active = exec.last /\ exec.active \notin lost
  /\ workers = 1..exec.last
  /\ exec.phase \in {"running", "completed", "failed"} => workers \ lost = {exec.last}

\* decide, Settle: whatever ended before it, a settled command charges what its
\* admitted worker billed and no more than was reserved for it; only a reserved
\* workspace is ever charged.
ChargeCovered ==
  exec.settlement.set =>
    /\ exec.usage.set /\ exec.settlement.nanos = exec.usage.nanos
    /\ exec.settlement.nanos > 0 =>
         /\ exec.profile = "isolated_workspace" /\ exec.reserved.set
         /\ exec.settlement.nanos <= exec.reserved.nanos

\* evolve: no reservation outlives the command: one that can charge nothing any
\* more, or whose Machine is suspended, has released it.
ReservationReleased ==
  exec.open =>
    /\ ~exec.suspended /\ ~exec.settlement.set
    /\ exec.phase \in {"prepared", "acknowledged", "running", "retryable", "completed"}
=============================================================================
