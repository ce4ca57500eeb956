--------------------------- MODULE TargetSettlement ---------------------------
(***************************************************************************)
(* Settling a declaration's members against their targets                  *)
(* (crates/core/src/target_settlement.rs, the two reducers, and            *)
(* crates/app/src/target_settlement.rs, the shell that drives them).       *)
(*                                                                         *)
(* A declaration has a coordinator scope; every target has a lane scope    *)
(* that admits one member at a time. The shell runs one operation under    *)
(* the workbench lock; an operation is a sequence of separately durable    *)
(* `admit_materialized` calls, each under a key of its own, with the       *)
(* target's effect between two of them. A crash may fall anywhere.         *)
(* Expiry before effects has no caller and is left out; compensation names *)
(* its repairs by member.                                                  *)
(***************************************************************************)
EXTENDS Integers, Sequences, SequencesExt, FiniteSets, TLC

CONSTANTS
  Decls,       \* declarations
  MembersOf,   \* MembersOf[d]: the members of d, in order
  TargetOf,    \* TargetOf[m]: the member's target
  Targets,
  Proposals,   \* members whose act is Propose
  Cumulative,  \* <<n, m>>: m's promoted cut descends from n's
  Panel,       \* requests come only from the workstream panel's buttons
  MaxTargetEdits,    \* bound: edits of the targets by others
  MaxAttempts, \* bound: attempts of one member
  MaxCrashes,  \* bound: crashes
  None

Members == UNION {Range(MembersOf[d]) : d \in Decls}
DeclOf(m) == CHOOSE d \in Decls : m \in Range(MembersOf[d])

ASSUME SettlementAssumption ==
  /\ \A d \in Decls : /\ MembersOf[d] \in Seq(Members) /\ MembersOf[d] # <<>>
                       /\ IsInjective(MembersOf[d])
  /\ \A d, e \in Decls : d # e => Range(MembersOf[d]) \cap Range(MembersOf[e]) = {}
  /\ None \notin Members
  /\ None \notin ({"failed"} \X {"basis", "conflict", "query"}) \cup ({"succeeded"} \X Nat)
  /\ \A m \in Members : TargetOf[m] \in Targets
  /\ Proposals \subseteq Members
  /\ MaxTargetEdits \in Nat /\ MaxAttempts \in Nat /\ MaxCrashes \in Nat

VARIABLES
  st,       \* the folds: coordinators, their members, lanes
  keys,     \* table commands of these scopes, receipts included
  expected, \* expected_basis of the declared members
  main,     \* main[t]: who advanced the target, a revision per entry
  known,    \* known[t]: current_basis of the library's target record
  op,       \* the operation holding the workbench
  targetEdits, crashes

settlementVars == <<st, keys, expected, main, known, op, targetEdits, crashes>>

Phases == {"undeclared", "declared", "preflighting", "ready", "applying", "completed",
           "partially_applied", "reconciliation_required", "refused", "cancelled",
           "compensated", "abandoned_partial"}
Terminal == {"completed", "refused", "cancelled", "compensated", "abandoned_partial"}
MemberPhases == {"pending", "passed", "started", "succeeded", "failed", "unknown",
                 "cancelled", "superseded"}
SettlementIdle == [kind |-> "idle"]

SettlementTypeOK ==
  /\ st.co \in [Decls -> [phase : Phases, started : Nat]]
  /\ st.mem \in [Members -> [phase : MemberPhases, attempts : Nat, seq : Nat,
                             receipt : {None} \cup ({"failed"} \X {"basis", "conflict", "query"})
                                             \cup ({"succeeded"} \X Nat),
                             queried : SUBSET Nat]]
  /\ st.lane \in [Targets -> [queue : Seq([m : Members, attempt : Nat, seq : Nat,
                                           phase : {"queued", "granted", "unknown"}]),
                              resolved : SUBSET (Members \X Nat), last : Nat]]
  /\ \A k \in DOMAIN keys : keys[k].status \in {"processing", "applied", "rejected"}
  /\ expected \in [Members -> Nat] /\ known \in [Targets -> Nat]
  /\ main \in [Targets -> Seq(Members \cup {None})]
  /\ targetEdits \in Nat /\ crashes \in Nat

SettlementInit ==
  /\ st = [co |-> [d \in Decls |-> [phase |-> "undeclared", started |-> 0]],
           mem |-> [m \in Members |-> [phase |-> "pending", attempts |-> 0, seq |-> 0,
                                       receipt |-> None, queried |-> {}]],
           lane |-> [t \in Targets |-> [queue |-> <<>>, resolved |-> {}, last |-> 0]]]
  /\ keys = <<>>
  /\ expected = [m \in Members |-> 0]
  /\ main = [t \in Targets |-> <<>>] /\ known = [t \in Targets |-> 0]
  /\ op = SettlementIdle /\ targetEdits = 0 /\ crashes = 0

-----------------------------------------------------------------------------
(* The coordinator's reducer: guards and the folds they lead to *)

Own(d) == Range(MembersOf[d])
Phase(m) == st.mem[m].phase
Lane(m) == st.lane[TargetOf[m]]

SetPhase(s, d, p) == [s EXCEPT !.co[d].phase = p]

(* projected_phase *)
Projected(s, d) ==
  LET In(P) == {m \in Own(d) : s.mem[m].phase \in P}
      active == In({"pending", "passed", "started"}) # {}
      lost == In({"failed", "cancelled", "superseded"}) # {}
      won == In({"succeeded"}) # {}
  IN CASE In({"unknown"}) # {} -> "reconciliation_required"
       [] In({"unknown"}) = {} /\ ~active /\ ~lost -> "completed"
       [] In({"unknown"}) = {} /\ ~active /\ lost /\ won -> "partially_applied"
       [] OTHER -> "applying"

(* A member change and the CoordinatorPhaseChanged that follows it. *)
Changed(s, m, new) ==
  LET t == [s EXCEPT !.mem[m] = new] IN SetPhase(t, DeclOf(m), Projected(t, DeclOf(m)))

CanRecordPreflight(m) == st.co[DeclOf(m)].phase = "preflighting" /\ Phase(m) = "pending"

RecordPreflight(m, admitted) ==
  LET d == DeclOf(m)
      s == [st EXCEPT !.mem[m].phase = "passed"]
  IN IF ~admitted THEN SetPhase(st, d, "refused")
     ELSE IF \A n \in Own(d) : s.mem[n].phase = "passed" THEN SetPhase(s, d, "ready") ELSE s

(* MemberStarted and MemberRetryStarted *)
Started(m, seq) ==
  SetPhase([st EXCEPT !.mem[m] = [phase |-> "started", attempts |-> st.mem[m].attempts + 1,
                                  seq |-> seq, receipt |-> None, queried |-> st.mem[m].queried],
                      !.co[DeclOf(m)].started = @ + 1],
           DeclOf(m), "applying")

(* Mutant: a start is admitted whatever the coordinator's phase is. *)
CanStart_AnyPhase(m) == Phase(m) = "passed"
CanStart(m) == st.co[DeclOf(m)].phase \in {"ready", "applying"} /\ Phase(m) = "passed"

CanRetry(m, seq) == Phase(m) = "failed" /\ seq > st.mem[m].seq

CanRecordReceipt(m, from) ==
  /\ Phase(m) = from /\ st.mem[m].receipt = None
  /\ from = "unknown" => st.mem[m].queried # {}
RecordReceipt(m, receipt) ==
  Changed(st, m, [st.mem[m] EXCEPT !.phase = receipt[1], !.receipt = receipt])

RecordUnknown(m) ==
  SetPhase([st EXCEPT !.mem[m].phase = "unknown"], DeclOf(m), "reconciliation_required")

CanQuery(m) == Phase(m) = "unknown" /\ st.mem[m].attempts \notin st.mem[m].queried

Unstarted(d) == {m \in Own(d) : Phase(m) \in {"pending", "passed"}}

CancelBefore(d) ==
  st.co[d].phase \in {"declared", "preflighting", "ready"} /\ st.co[d].started = 0
CancelAfter(d) ==
  st.co[d].phase \notin Terminal /\ st.co[d].started # 0 /\ Unstarted(d) # {}

CancelledFold(d) ==
  IF st.co[d].started = 0 THEN SetPhase(st, d, "cancelled")
  ELSE LET s == [st EXCEPT !.mem = [m \in Members |->
                   IF m \in Unstarted(d) THEN [st.mem[m] EXCEPT !.phase = "cancelled"] ELSE st.mem[m]]]
       IN SetPhase(s, d, Projected(s, d))

CanAbandon(d) ==
  /\ st.co[d].phase \in {"applying", "partially_applied", "reconciliation_required"}
  /\ st.co[d].started # 0

-----------------------------------------------------------------------------
(* The lane's reducer *)

Entry(m, attempt) == [m |-> m, attempt |-> attempt, seq |-> 0, phase |-> "queued"]
Index(m, attempt) ==
  SelectInSeq(Lane(m).queue, LAMBDA e : e.m = m /\ e.attempt = attempt)
Queued(m, attempt, phase) ==
  Index(m, attempt) # 0 /\ Lane(m).queue[Index(m, attempt)].phase = phase
AtHead(m, attempt, phase) == Queued(m, attempt, phase) /\ Index(m, attempt) = 1

CanEnqueue(m, attempt) ==
  Index(m, attempt) = 0 /\ <<m, attempt>> \notin Lane(m).resolved
Enqueue(m, attempt) ==
  [st EXCEPT !.lane[TargetOf[m]].queue = Append(@, Entry(m, attempt))]

CanGrant(m, attempt) == AtHead(m, attempt, "queued")
Grant(m, attempt) ==
  LET seq == Lane(m).last + 1
  IN [st EXCEPT !.lane[TargetOf[m]].last = seq,
                !.lane[TargetOf[m]].queue[Index(m, attempt)] =
                  [m |-> m, attempt |-> attempt, seq |-> seq, phase |-> "granted"]]
Resolve(m, attempt) ==
  [st EXCEPT !.lane[TargetOf[m]].queue = RemoveAt(@, Index(m, attempt)),
             !.lane[TargetOf[m]].resolved = @ \cup {<<m, attempt>>}]
MarkUnknown(m, attempt) ==
  [st EXCEPT !.lane[TargetOf[m]].queue[Index(m, attempt)].phase = "unknown"]

-----------------------------------------------------------------------------
(* admit_materialized: one durable step of an operation *)

Fresh(k) == k \notin DOMAIN keys

Replays(k, cmd) == ~Fresh(k) /\ keys[k] = [cmd |-> cmd, status |-> "applied"]

Row(k, cmd, status) ==
  keys' = [j \in DOMAIN keys \cup {k} |->
             IF j = k THEN [cmd |-> cmd, status |-> status] ELSE keys[j]]

(* The command is admitted, answered as before, refused (another command   *)
(* under the key, or an unfinished or refused one), or interrupted between *)
(* its claim and its transaction.                                          *)
Admit(k, cmd, admissible, fold, next) ==
  /\ \/ /\ Fresh(k) /\ admissible
        /\ Row(k, cmd, "applied") /\ st' = fold /\ op' = next
        /\ UNCHANGED crashes
     \/ /\ Replays(k, cmd)
        /\ op' = next /\ UNCHANGED <<st, keys, crashes>>
     \/ /\ Fresh(k) /\ ~admissible
        /\ Row(k, cmd, "rejected") /\ op' = SettlementIdle
        /\ UNCHANGED <<st, crashes>>
     \/ /\ ~Fresh(k) /\ ~Replays(k, cmd)
        /\ op' = SettlementIdle /\ UNCHANGED <<st, keys, crashes>>
     \/ /\ Fresh(k) /\ crashes < MaxCrashes
        /\ Row(k, cmd, "processing") /\ op' = SettlementIdle
        /\ crashes' = crashes + 1
        /\ UNCHANGED st
  /\ UNCHANGED targetEdits

(* The panel shows a member's buttons only in these phases (external:      *)
(* web/packages/workbench-ui/src/FacetBrowser.tsx); the API takes any.     *)
Offered(m, phases) == Panel => Phase(m) \in phases

Targets_ == <<expected, main, known>>
Begin(o) ==
  op = SettlementIdle /\ op' = o /\ UNCHANGED <<st, keys, Targets_, targetEdits, crashes>>
At(kind, step) == op.kind = kind /\ op.step = step
OnTo(step) == [op EXCEPT !.step = step]

-----------------------------------------------------------------------------
(* create_target_settlement and preflight_target_settlement *)

Declare(d) ==
  /\ op = SettlementIdle
  /\ expected' = [m \in Members |-> IF m \in Own(d) /\ Fresh(<<"declare", d>>)
                                    THEN known[TargetOf[m]] ELSE expected[m]]
  /\ Admit(<<"declare", d>>, None, st.co[d].phase = "undeclared", SetPhase(st, d, "declared"),
           [kind |-> "preflight", d |-> d, i |-> 1, step |-> "preflight"])
  /\ UNCHANGED <<main, known>>

BeginPreflight(d) ==
  /\ At("preflight", "preflight") /\ op.d = d
  /\ st.co[d].phase = "declared"
  /\ Admit(<<"begin-preflight", d>>, None, TRUE, SetPhase(st, d, "preflighting"), op)
  /\ UNCHANGED Targets_

PreflightMember(d) ==
  LET i == SelectInSeq(MembersOf[d], LAMBDA m : Phase(m) = "pending")
      m == MembersOf[d][i]
      admitted == known[TargetOf[m]] = expected[m]
      fold == RecordPreflight(m, admitted)
  IN /\ At("preflight", "preflight") /\ op.d = d
     /\ st.co[d].phase = "preflighting" /\ i # 0
     /\ Admit(<<"preflight", m>>, known[TargetOf[m]], CanRecordPreflight(m), fold,
              IF fold.co[d].phase = "refused" THEN SettlementIdle ELSE op)
     /\ UNCHANGED Targets_

EnqueueMember(d) ==
  LET m == MembersOf[d][op.i]
  IN /\ At("preflight", "preflight") /\ op.d = d
     /\ st.co[d].phase = "ready"
     /\ Admit(<<"enqueue", m>>, None, CanEnqueue(m, 1), Enqueue(m, 1),
              IF op.i = Len(MembersOf[d]) THEN SettlementIdle ELSE [op EXCEPT !.i = @ + 1])
     /\ UNCHANGED Targets_

(* Any later phase is answered as it is. *)
PreflightDone(d) ==
  /\ At("preflight", "preflight") /\ op.d = d
  /\ st.co[d].phase \notin {"declared", "preflighting", "ready"}
  /\ op' = SettlementIdle /\ UNCHANGED <<st, keys, Targets_, targetEdits, crashes>>

-----------------------------------------------------------------------------
(* execute_settlement_member and retry_settlement_member_effect *)

Declared(m) == st.co[DeclOf(m)].phase # "undeclared"

Execute(m) ==
  /\ Declared(m) /\ Phase(m) \notin {"succeeded", "failed"} /\ Offered(m, {"passed"})
  /\ st.mem[m].attempts < MaxAttempts
  /\ Begin([kind |-> "member", m |-> m, attempt |-> st.mem[m].attempts + 1, step |-> "grant"])

GrantMember(m) ==
  /\ At("member", "grant") /\ op.m = m
  /\ Admit(<<"grant", m>>, op.attempt, CanGrant(m, op.attempt), Grant(m, op.attempt),
           OnTo("start"))
  /\ UNCHANGED Targets_

Permit(m) == Lane(m).queue[Index(m, op.attempt)].seq

NoPermit(m) ==
  /\ op.kind = "member" /\ op.step \in {"start", "retry"} /\ op.m = m
  /\ ~Queued(m, op.attempt, "granted") /\ ~Queued(m, op.attempt, "unknown")
  /\ op' = SettlementIdle /\ UNCHANGED <<st, keys, Targets_, targetEdits, crashes>>

StartMember(m) ==
  /\ At("member", "start") /\ op.m = m /\ Index(m, op.attempt) # 0
  /\ Permit(m) # 0
  /\ Admit(<<"start", m>>, Permit(m), CanStart(m), Started(m, Permit(m)), OnTo("effect"))
  /\ UNCHANGED Targets_

Retry(m) ==
  /\ Declared(m) /\ Phase(m) # "succeeded" /\ Offered(m, {"failed"})
  /\ st.mem[m].attempts < MaxAttempts
  /\ Begin([kind |-> "member", m |-> m, attempt |-> st.mem[m].attempts + 1, step |-> "enqueue"])

EnqueueRetry(m) ==
  /\ At("member", "enqueue") /\ op.m = m
  /\ Admit(<<"enqueue-retry", m, op.attempt>>, None, CanEnqueue(m, op.attempt),
           Enqueue(m, op.attempt), OnTo("grant-retry"))
  /\ UNCHANGED Targets_

GrantRetry(m) ==
  /\ At("member", "grant-retry") /\ op.m = m
  /\ Admit(<<"grant-retry", m, op.attempt>>, None, CanGrant(m, op.attempt),
           Grant(m, op.attempt), OnTo("retry"))
  /\ UNCHANGED Targets_

RetryMember(m) ==
  /\ At("member", "retry") /\ op.m = m /\ Index(m, op.attempt) # 0
  /\ Permit(m) # 0
  /\ Admit(<<"retry", m, op.attempt>>, Permit(m), CanRetry(m, Permit(m)),
           Started(m, Permit(m)), OnTo("effect"))
  /\ UNCHANGED Targets_

BasisHolds(m) == Len(main[TargetOf[m]]) = expected[m]

Result(step, receipt) ==
  op' = [kind |-> "member", m |-> op.m, attempt |-> op.attempt, step |-> step,
         receipt |-> receipt]

(* execute_prepared_target_effect: another writer may come between the     *)
(* comparison and the merge.                                               *)
Effect(m) ==
  LET t == TargetOf[m]
  IN /\ At("member", "effect") /\ op.m = m
     /\ IF m \in Proposals
        THEN Result("receipt", <<"succeeded", expected[m]>>) /\ UNCHANGED <<main, targetEdits>>
        ELSE \/ /\ ~BasisHolds(m)
                /\ Result("receipt", <<"failed", "basis">>) /\ UNCHANGED <<main, targetEdits>>
             \/ /\ BasisHolds(m)
                /\ Result("receipt", <<"failed", "conflict">>) /\ UNCHANGED <<main, targetEdits>>
             \/ /\ BasisHolds(m)
                /\ \E raced \in {<<>>, <<None>>} :
                     /\ targetEdits + Len(raced) <= MaxTargetEdits
                     /\ targetEdits' = targetEdits + Len(raced)
                     /\ \/ /\ main' = [main EXCEPT ![t] = @ \o raced \o <<m>>]
                           /\ \/ Result("record", <<"succeeded", Len(main[t]) + Len(raced) + 1>>)
                              \/ Result("unknown", None)
                        \/ /\ main' = [main EXCEPT ![t] = @ \o raced]
                           /\ Result("unknown", None)
     /\ UNCHANGED <<st, keys, expected, known, crashes>>

(* write_work_target_record after a success *)
RecordTarget(m) ==
  /\ At("member", "record") /\ op.m = m
  /\ known' = [known EXCEPT ![TargetOf[m]] = op.receipt[2]]
  /\ op' = OnTo("receipt")
  /\ UNCHANGED <<st, keys, expected, main, targetEdits, crashes>>

(* record_settlement_receipt: the coordinator, then the lane *)
RecordSettlementReceipt(m) ==
  /\ At("member", "receipt") /\ op.m = m
  /\ Admit(<<"receipt", m, op.receipt>>, None, CanRecordReceipt(m, "started"),
           RecordReceipt(m, op.receipt), OnTo("resolve"))
  /\ UNCHANGED Targets_

ResolveLane(m) ==
  LET attempt == st.mem[m].attempts
  IN /\ At("member", "resolve") /\ op.m = m
     /\ Admit(<<"resolve", m, op.receipt>>, attempt, AtHead(m, attempt, "granted"),
              Resolve(m, attempt), SettlementIdle)
     /\ UNCHANGED Targets_

(* record_settlement_unknown *)
RecordSettlementUnknown(m) ==
  /\ At("member", "unknown") /\ op.m = m
  /\ Admit(<<"unknown", m>>, None, Phase(m) = "started", RecordUnknown(m), OnTo("lane-unknown"))
  /\ UNCHANGED Targets_

LaneUnknown(m) ==
  LET attempt == st.mem[m].attempts
  IN /\ At("member", "lane-unknown") /\ op.m = m
     /\ Admit(<<"lane-unknown", m>>, attempt, AtHead(m, attempt, "granted"),
              MarkUnknown(m, attempt), SettlementIdle)
     /\ UNCHANGED Targets_

-----------------------------------------------------------------------------
(* query_settlement_member *)

Query(m) ==
  /\ Declared(m) /\ Phase(m) \notin {"succeeded", "failed"} /\ Offered(m, {"unknown"})
  /\ Begin([kind |-> "query", m |-> m, step |-> "request"])

RequestQuery(m) ==
  /\ At("query", "request") /\ op.m = m
  /\ Admit(<<"query", m, st.mem[m].attempts>>, None, CanQuery(m),
           [st EXCEPT !.mem[m].queried = @ \cup {st.mem[m].attempts}], OnTo("observe"))
  /\ UNCHANGED Targets_

(* Mutant: an unchanged result is enough to call it a failure. *)
QueryAnswer_NotLast(m) ==
  LET t == main[TargetOf[m]]
  IN IF t # <<>> /\ Last(t) = m THEN <<"succeeded", Len(t)>> ELSE <<"failed", "query">>

(* current_target_files: the candidate's files, or the expected revision. *)
QueryAnswer(m) ==
  LET t == main[TargetOf[m]]
  IN CASE t # <<>> /\ Last(t) = m -> <<"succeeded", Len(t)>>
       [] Len(t) = expected[m] -> <<"failed", "query">>
       [] OTHER -> None

Observe(m) ==
  /\ At("query", "observe") /\ op.m = m
  /\ op' = IF QueryAnswer(m) = None THEN SettlementIdle
           ELSE [kind |-> "query", m |-> m, step |-> "receipt", receipt |-> QueryAnswer(m)]
  /\ UNCHANGED <<st, keys, Targets_, targetEdits, crashes>>

RecordQueryReceipt(m) ==
  /\ At("query", "receipt") /\ op.m = m
  /\ Admit(<<"query-receipt", m, op.receipt>>, None, CanRecordReceipt(m, "unknown"),
           RecordReceipt(m, op.receipt), OnTo("reconcile"))
  /\ UNCHANGED Targets_

Reconcile(m) ==
  LET attempt == st.mem[m].attempts
  IN /\ At("query", "reconcile") /\ op.m = m
     /\ Admit(<<"reconcile", m, op.receipt>>, attempt, AtHead(m, attempt, "unknown"),
              Resolve(m, attempt), SettlementIdle)
     /\ UNCHANGED Targets_

-----------------------------------------------------------------------------
(* cancel, supersede, abandon, compensate *)

Cancel(d) ==
  /\ CancelBefore(d) \/ CancelAfter(d)
  /\ Begin([kind |-> "cancel", d |-> d, step |-> "lanes"])

CancelTargets(d) == {m \in Unstarted(d) : Queued(m, 1, "queued")}

CancelQueued(d, m) ==
  /\ At("cancel", "lanes") /\ op.d = d /\ m \in CancelTargets(d)
  /\ Admit(<<"cancel-queued", m>>, None, TRUE, Resolve(m, 1), op)
  /\ UNCHANGED Targets_

CancelCoordinator(d) ==
  /\ At("cancel", "lanes") /\ op.d = d /\ CancelTargets(d) = {}
  /\ Admit(<<"cancel", d>>, st.co[d].started = 0, CancelBefore(d) \/ CancelAfter(d),
           CancelledFold(d), SettlementIdle)
  /\ UNCHANGED Targets_

Supersede(n, m) ==
  /\ <<n, m>> \in Cumulative /\ TargetOf[n] = TargetOf[m] /\ DeclOf(n) # DeclOf(m)
  /\ Declared(n) /\ Phase(m) = "passed"
  /\ Queued(n, 1, "queued") /\ Index(m, 1) # 0
  /\ Phase(n) \in {"pending", "passed"}
  /\ Begin([kind |-> "supersede", n |-> n, m |-> m, step |-> "lane"])

SupersedeLane(n, m) ==
  /\ At("supersede", "lane") /\ op.n = n /\ op.m = m
  /\ Admit(<<"supersede-queued", n, m>>, None, Queued(n, 1, "queued") /\ Index(m, 1) # 0,
           Resolve(n, 1), OnTo("coordinator"))
  /\ UNCHANGED Targets_

SupersedeMember(n, m) ==
  /\ At("supersede", "coordinator") /\ op.n = n /\ op.m = m
  /\ Admit(<<"supersede", n>>, m, Phase(n) \in {"pending", "passed"},
           Changed(st, n, [st.mem[n] EXCEPT !.phase = "superseded"]), SettlementIdle)
  /\ UNCHANGED Targets_

Abandon(d) ==
  /\ op = SettlementIdle
  /\ Panel => st.co[d].phase \in {"partially_applied", "reconciliation_required"}
  /\ Admit(<<"abandon", d>>, None, CanAbandon(d), SetPhase(st, d, "abandoned_partial"), SettlementIdle)
  /\ UNCHANGED Targets_

Successes(d) == {m \in Own(d) : Phase(m) = "succeeded"}

(* A later successful effect on the same target, from the original's result. *)
Repairs(n, m) ==
  /\ DeclOf(n) # DeclOf(m) /\ TargetOf[n] = TargetOf[m] /\ n \notin Proposals
  /\ Phase(n) = "succeeded" /\ expected[n] = st.mem[m].receipt[2]
  /\ st.mem[n].seq > st.mem[m].seq

Compensate(d) ==
  /\ op = SettlementIdle
  /\ \E links \in [Successes(d) -> Members] :
       /\ \A m \in Successes(d) : Repairs(links[m], m)
       /\ Admit(<<"compensate", d, links>>, None,
                /\ st.co[d].phase = "partially_applied" /\ Successes(d) # {}
                /\ IsInjective(links),
                SetPhase(st, d, "compensated"), SettlementIdle)
  /\ UNCHANGED Targets_

-----------------------------------------------------------------------------
(* Others *)

(* Another writer advances a target, and the library learns of it. *)
Edit(t) ==
  /\ targetEdits < MaxTargetEdits
  /\ targetEdits' = targetEdits + 1
  /\ main' = [main EXCEPT ![t] = Append(@, None)]
  /\ known' \in {known, [known EXCEPT ![t] = Len(main'[t])]}
  /\ UNCHANGED <<st, keys, expected, op, crashes>>

SettlementCrash ==
  /\ op # SettlementIdle /\ crashes < MaxCrashes
  /\ op' = SettlementIdle /\ crashes' = crashes + 1
  /\ UNCHANGED <<st, keys, Targets_, targetEdits>>

SettlementNext ==
  \/ \E d \in Decls :
       \/ Declare(d) \/ BeginPreflight(d) \/ PreflightMember(d) \/ EnqueueMember(d)
       \/ PreflightDone(d)
       \/ Cancel(d) \/ CancelCoordinator(d) \/ (\E m \in Members : CancelQueued(d, m))
       \/ Abandon(d) \/ Compensate(d)
  \/ \E m \in Members :
       \/ Execute(m) \/ GrantMember(m) \/ StartMember(m) \/ NoPermit(m)
       \/ Retry(m) \/ EnqueueRetry(m) \/ GrantRetry(m) \/ RetryMember(m)
       \/ Effect(m) \/ RecordTarget(m)
       \/ RecordSettlementReceipt(m) \/ ResolveLane(m)
       \/ RecordSettlementUnknown(m) \/ LaneUnknown(m)
       \/ Query(m) \/ RequestQuery(m) \/ Observe(m) \/ RecordQueryReceipt(m) \/ Reconcile(m)
  \/ \E n, m \in Members : Supersede(n, m) \/ SupersedeLane(n, m) \/ SupersedeMember(n, m)
  \/ \E t \in Targets : Edit(t)
  \/ SettlementCrash

SettlementSpec == SettlementInit /\ [][SettlementNext]_settlementVars

-----------------------------------------------------------------------------
(* Properties *)

(* A member whose effect may be under way (started, or of unknown outcome) *)
(* heads its target's lane with a grant for this very attempt, so no two   *)
(* settlements work on a target at once, across crashes between the lane's *)
(* and the coordinator's appends.                                          *)
InFlightHoldsLane ==
  \A m \in Members : Phase(m) \in {"started", "unknown"} =>
    LET a == st.mem[m].attempts
    IN AtHead(m, a, "granted") \/ (Phase(m) = "unknown" /\ AtHead(m, a, "unknown"))

(* A recorded outcome is what happened in the target: a failed member left *)
(* no change there, a succeeded one exactly one, whatever was executed     *)
(* again, retried, queried late or interrupted.                            *)
ReceiptsTrue ==
  \A m \in Members \ Proposals :
    LET n == Cardinality({i \in DOMAIN main[TargetOf[m]] : main[TargetOf[m]][i] = m})
    IN /\ Phase(m) = "failed" => n = 0
       /\ Phase(m) = "succeeded" => n = 1
       /\ n <= 1

(* No effect starts before every member of its declaration passed its      *)
(* preflight, and none at all in a refused or cancelled declaration.       *)
PreflightFirst ==
  \A d \in Decls :
    st.co[d].started # 0 =>
      /\ \A m \in Own(d) : Phase(m) # "pending"
      /\ st.co[d].phase \notin {"refused", "cancelled"}

(* A declaration reported complete has every member's success, and stays   *)
(* complete; a refused or cancelled one stays closed.                      *)
ClosedStays ==
  [][\A d \in Decls :
       /\ st.co[d].phase \in {"completed", "refused", "cancelled"} =>
            st'.co[d].phase = st.co[d].phase
       /\ st'.co[d].phase = "completed" => \A m \in Own(d) : st'.mem[m].phase = "succeeded"]_settlementVars

(* A compensated declaration has, for every change it made, a later change *)
(* of the target that was prepared on exactly that change's revision.      *)
Repaired ==
  \A d \in Decls : st.co[d].phase = "compensated" =>
    \A m \in Successes(d) \ Proposals :
      LET At_(x) == SelectInSeq(main[TargetOf[m]], LAMBDA y : y = x)
      IN \E n \in Members \ Own(d) :
           TargetOf[n] = TargetOf[m] /\ At_(n) > At_(m) /\ expected[n] = At_(m)

(* A declaration's effects are accounted for: begun only when all members  *)
(* may, under their target's lane, receipted as they happened, and         *)
(* repaired on what they really produced.                                  *)
SettlementSafe ==
  /\ SettlementTypeOK /\ PreflightFirst /\ InFlightHoldsLane /\ ReceiptsTrue
  /\ Repaired
=============================================================================
