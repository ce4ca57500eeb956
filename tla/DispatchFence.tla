---------------------------- MODULE DispatchFence ----------------------------
(***************************************************************************)
(* Work under a captured authority (crates/store/src/command_dispatch.rs,  *)
(* record_admission*.rs).                                                  *)
(*                                                                         *)
(* A thread reads its standing in one snapshot and keeps the heads it saw  *)
(* (`read_for_dispatch`), a deadline and a process guard. Later it opens   *)
(* the product writer: the heads are compared under the write lock, and    *)
(* the handle it gets holds that lock until it commits or is dropped. The  *)
(* authority can change only through the same lock; the guard and the      *)
(* clock change at any moment, so the handle looks at them at every        *)
(* boundary and latches the first refusal. Under a handle a pending        *)
(* command records its startup phases and finally its paired result, does  *)
(* native work in another system, or publishes an outbox intent.           *)
(***************************************************************************)
EXTENDS Naturals, Sequences, FiniteSets

CONSTANTS
  Threads,     \* connections with a request each
  FenceKeys,        \* caller keys
  Phases,      \* startup phases of a claimed command
  TaskPhase,   \* the phase with a companion record in another scope
  MaxAuthority,\* bound: events of the authority scope
  MaxNow,      \* bound: clock
  MaxWork,     \* bound: events of the work scope
  MaxFlips,    \* bound: changes of the process guard
  FenceNone

ASSUME FenceAssumption ==
  /\ TaskPhase \in Phases
  /\ MaxAuthority \in Nat /\ MaxNow \in Nat /\ MaxWork \in Nat /\ MaxFlips \in Nat

VARIABLES
  head,       \* MAX(position) of the authority scope
  granted,    \* what the authority scope folds to: may the caller act
  standing,   \* the process guard (an atomic flag)
  flips,      \* changes of the guard so far
  now,        \* clock
  writer,     \* thread holding the IMMEDIATE transaction, or None
  th,         \* th[t]: the request thread t is serving
  fenceWork,       \* events of the work scope
  links,      \* events of the companion scopes
  fenceRow,        \* table commands: which path and status, or None
  fenceReceipt,    \* table command_receipts of the commands
  phase,      \* phase[k][p]: marker, receipt and row of a phase, or None
  pair,       \* table command_pair_results: marker position, or None
  native,     \* history: effects in other systems
  reads,      \* history: native reads confirmed to their caller
  delivered   \* history: outbox intents handed to the runtime

authority == <<head, granted>>
fenceTables == <<fenceWork, links, fenceRow, fenceReceipt, phase, pair>>
fenceVars == <<authority, standing, flips, now, writer, th, fenceTables, native, reads, delivered>>

FenceIdle == [pc |-> "idle"]
FenceServing == [pc : {"based", "held", "reading"}, key : FenceKeys, head : Nat,
            deadline : Nat, ended : BOOLEAN, refused : BOOLEAN, saw : BOOLEAN]

(* `granted` and `refused` of an entry are history: the authority's fold   *)
(* when it was written, and whether its handle had been refused before.    *)
FenceEntries == [key : FenceKeys \cup {FenceNone},
            what : Phases \cup {"first", "second", "marker", "intent", "other"},
            granted : BOOLEAN, refused : BOOLEAN]
FenceRows == [path : {"claim", "dispatch"}, status : {"processing", "applied", "rejected"}]

(* Absence is told apart from every thread, key, position and row, and an   *)
(* event of a phase from the events of a result.                            *)
ASSUME FenceNoneAssumption ==
  /\ FenceNone \notin Threads /\ FenceNone \notin FenceKeys
  /\ FenceNone \notin Nat /\ FenceNone \notin FenceRows
  /\ Phases \cap {"first", "second", "marker", "intent", "other"} = {}

FenceTypeOK ==
  /\ head \in Nat /\ granted \in BOOLEAN
  /\ standing \in BOOLEAN /\ flips \in Nat /\ now \in Nat
  /\ writer \in Threads \cup {FenceNone}
  /\ th \in [Threads -> {FenceIdle} \cup FenceServing]
  /\ fenceWork \in Seq(FenceEntries)
  /\ links \in Seq([key : FenceKeys, user : Nat])
  /\ fenceRow \in [FenceKeys -> FenceRows \cup {FenceNone}]
  /\ fenceReceipt \in [FenceKeys -> Nat \cup {FenceNone}]
  /\ phase \in [FenceKeys -> [Phases -> Nat \cup {FenceNone}]]
  /\ pair \in [FenceKeys -> Nat \cup {FenceNone}]
  /\ native \subseteq [key : FenceKeys, granted : BOOLEAN, refused : BOOLEAN]
  /\ reads \subseteq BOOLEAN
  /\ delivered \subseteq FenceKeys

FenceInit ==
  /\ head = 0 /\ granted = TRUE
  /\ standing = TRUE /\ flips = 0 /\ now = 0
  /\ writer = FenceNone
  /\ th = [t \in Threads |-> FenceIdle]
  /\ fenceWork = <<>> /\ links = <<>>
  /\ fenceRow = [k \in FenceKeys |-> FenceNone]
  /\ fenceReceipt = [k \in FenceKeys |-> FenceNone]
  /\ phase = [k \in FenceKeys |-> [p \in Phases |-> FenceNone]]
  /\ pair = [k \in FenceKeys |-> FenceNone]
  /\ native = {} /\ reads = {} /\ delivered = {}

-----------------------------------------------------------------------------
(* Checks *)

CheckValidity(t) == now < th[t].deadline /\ standing

CheckDispatchBasis(t) == CheckValidity(t) /\ th[t].head = head

(* check_latched_validity: an ended handle stays ended. *)
CheckLatched(t) == ~th[t].ended /\ CheckValidity(t)

(* Mutant: the refusal is not remembered by the handle. *)
Latch_Forgets(t) ==
  th' = [th EXCEPT ![t].refused = TRUE]

(* A refused check ends the handle for every later use. *)
Latch(t) ==
  th' = [th EXCEPT ![t].ended = TRUE, ![t].refused = TRUE]

(* Mutant: the mutable status alone decides. *)
PendingCommandMatches_Status(k) ==
  fenceRow[k] # FenceNone /\ fenceRow[k].path = "claim"
    /\ fenceRow[k].status \in {"processing", "applied"}

(* pending_command_matches: claimed, processing, and without a receipt. *)
PendingCommandMatches(k) ==
  fenceRow[k] = [path |-> "claim", status |-> "processing"] /\ fenceReceipt[k] = FenceNone

Held(t) == writer = t /\ th[t].pc = "held"
Release(t) == writer' = FenceNone /\ th' = [th EXCEPT ![t] = FenceIdle]

Entry(t, what) ==
  [key |-> th[t].key, what |-> what, granted |-> granted, refused |-> th[t].refused]

Quiet == UNCHANGED <<authority, standing, flips, now, native, reads, delivered>>

-----------------------------------------------------------------------------
(* A request *)

(* read_for_dispatch, and the application refusing an unauthorised caller. *)
ReadForDispatch(t, k) ==
  /\ th[t] = FenceIdle
  /\ granted /\ standing
  /\ th' = [th EXCEPT ![t] =
       [pc |-> "based", key |-> k, head |-> head, deadline |-> now + 1,
        ended |-> FALSE, refused |-> FALSE, saw |-> TRUE]]
  /\ UNCHANGED <<writer, fenceTables>> /\ Quiet

ClaimedRow == [path |-> "claim", status |-> "processing"]

(* claim_command_against: one transaction of its own. *)
ClaimCommandAgainst(t) ==
  LET k == th[t].key
  IN /\ th[t].pc = "based" /\ writer = FenceNone
     /\ CheckDispatchBasis(t)
     /\ fenceRow[k] = FenceNone
     /\ fenceRow' = [fenceRow EXCEPT ![k] = ClaimedRow]
     /\ UNCHANGED <<writer, th, fenceWork, links, fenceReceipt, phase, pair>> /\ Quiet

(* with_dispatch_record_admission: the handle, or a refusal. *)
OpenWriter(t) ==
  /\ th[t].pc = "based" /\ writer = FenceNone
  /\ \/ /\ CheckDispatchBasis(t)
        /\ writer' = t
        /\ th' = [th EXCEPT ![t].pc = "held"]
     \/ /\ ~CheckDispatchBasis(t)
        /\ th' = [th EXCEPT ![t] = FenceIdle]
        /\ UNCHANGED writer
  /\ UNCHANGED fenceTables /\ Quiet

(* require_pending_claim, the require_..._prefix readers and                *)
(* read_retained_events: a refusal ends the handle, nothing is written.    *)
RequirePending(t) ==
  /\ Held(t)
  /\ ~(CheckLatched(t) /\ PendingCommandMatches(th[t].key))
  /\ Latch(t)
  /\ UNCHANGED <<writer, fenceTables>> /\ Quiet

(* with_native_check: bounded native work, the check before each effect,   *)
(* after the pending intent was required.                                  *)
NativeEffect(t) ==
  /\ Held(t)
  /\ CheckLatched(t)
  /\ PendingCommandMatches(th[t].key)
  /\ native' = native \cup
       {[key |-> th[t].key, granted |-> granted, refused |-> th[t].refused]}
  /\ UNCHANGED <<authority, standing, flips, now, writer, th, fenceTables, reads, delivered>>

(* commit_claimed_lifecycle_prefix, and its task-input sibling: the parent *)
(* stays pending, a recorded phase answers its original positions.         *)
CommitPhase(t, p) ==
  LET k == th[t].key
  IN /\ Held(t) /\ CheckLatched(t) /\ PendingCommandMatches(k)
     /\ \/ /\ phase[k][p] = FenceNone
           /\ Len(fenceWork) < MaxWork
           /\ fenceWork' = Append(fenceWork, Entry(t, p))
           /\ phase' = [phase EXCEPT ![k][p] = Len(fenceWork) + 1]
           /\ links' = IF p = TaskPhase
                       THEN Append(links, [key |-> k, user |-> Len(fenceWork) + 1])
                       ELSE links
        \/ /\ phase[k][p] # FenceNone
           /\ UNCHANGED <<fenceWork, phase, links>>
     /\ Release(t)
     /\ UNCHANGED <<fenceRow, fenceReceipt, pair>> /\ Quiet

(* commit_recorded_claimed_lifecycle_pair: both typed batches, the marker, *)
(* its binding and the receipt; a committed retry appends nothing.         *)
CommitPair(t) ==
  LET k == th[t].key
  IN /\ Held(t) /\ CheckLatched(t)
     /\ \/ /\ PendingCommandMatches(k)
           /\ Len(fenceWork) + 3 <= MaxWork
           /\ fenceWork' = fenceWork \o <<Entry(t, "first"), Entry(t, "second"), Entry(t, "marker")>>
           /\ fenceReceipt' = [fenceReceipt EXCEPT ![k] = Len(fenceWork) + 1]
           /\ pair' = [pair EXCEPT ![k] = Len(fenceWork) + 3]
        \/ /\ fenceRow[k] # FenceNone /\ fenceRow[k].path = "claim" /\ fenceReceipt[k] # FenceNone
           /\ UNCHANGED <<fenceWork, fenceReceipt, pair>>
     /\ fenceRow' = [fenceRow EXCEPT ![k].status = "applied"]
     /\ Release(t)
     /\ UNCHANGED <<links, phase>> /\ Quiet

(* commit_dispatch: the row is inserted and applied in one transaction     *)
(* with the event and the intent; a claim of another shell is refused.     *)
CommitDispatch(t) ==
  LET k == th[t].key
  IN /\ Held(t) /\ CheckLatched(t)
     /\ \/ /\ fenceRow[k] = FenceNone
           /\ Len(fenceWork) + 2 <= MaxWork
           /\ fenceWork' = fenceWork \o <<Entry(t, "first"), Entry(t, "intent")>>
           /\ fenceReceipt' = [fenceReceipt EXCEPT ![k] = Len(fenceWork) + 1]
           /\ fenceRow' = [fenceRow EXCEPT ![k] = [path |-> "dispatch", status |-> "applied"]]
        \/ /\ fenceRow[k] = [path |-> "dispatch", status |-> "applied"]
           /\ fenceReceipt[k] # FenceNone
           /\ UNCHANGED <<fenceWork, fenceReceipt, fenceRow>>
     /\ Release(t)
     /\ UNCHANGED <<links, phase, pair>> /\ Quiet

(* Any refusal of the above, a rejected decision, a publisher that fails:  *)
(* the handle is dropped and its transaction rolls back.                   *)
Drop(t) ==
  /\ Held(t)
  /\ Release(t)
  /\ UNCHANGED fenceTables /\ Quiet

GiveUp(t) ==
  /\ th[t].pc \in {"based", "reading"}
  /\ th' = [th EXCEPT ![t] = FenceIdle]
  /\ UNCHANGED <<writer, fenceTables>> /\ Quiet

(* A native read without the lock, then confirm_dispatch_basis. *)
NativeRead(t) ==
  /\ th[t].pc = "based"
  /\ th' = [th EXCEPT ![t].pc = "reading", ![t].saw = granted]
  /\ UNCHANGED <<writer, fenceTables>> /\ Quiet

ConfirmDispatchBasis(t) ==
  /\ th[t].pc = "reading"
  /\ CheckDispatchBasis(t)
  /\ reads' = reads \cup {th[t].saw}
  /\ th' = [th EXCEPT ![t] = FenceIdle]
  /\ UNCHANGED <<authority, standing, flips, now, writer, fenceTables, native, delivered>>

-----------------------------------------------------------------------------
(* Everything else *)

(* committed_dispatch: a receipt, the original row and one intent. *)
Deliverable(k) ==
  /\ fenceReceipt[k] # FenceNone
  /\ fenceRow[k] # FenceNone /\ fenceRow[k].path = "dispatch"
  /\ Cardinality({i \in 1..Len(fenceWork) :
                    fenceWork[i].key = k /\ fenceWork[i].what = "intent"}) = 1

Deliver(k) ==
  /\ Deliverable(k)
  /\ delivered' = delivered \cup {k}
  /\ UNCHANGED <<authority, standing, flips, now, writer, th, fenceTables, native, reads>>

AuthorityWritable == writer = FenceNone

(* An administrator's event in the authority scope, another connection. *)
ChangeAuthority ==
  /\ AuthorityWritable
  /\ head < MaxAuthority
  /\ head' = head + 1
  /\ granted' \in BOOLEAN
  /\ UNCHANGED <<standing, flips, now, writer, th, fenceTables, native, reads, delivered>>

(* Another command's event in the work scope. *)
OtherAppend ==
  /\ writer = FenceNone
  /\ Len(fenceWork) < MaxWork
  /\ fenceWork' = Append(fenceWork,
       [key |-> FenceNone, what |-> "other", granted |-> TRUE, refused |-> FALSE])
  /\ UNCHANGED <<writer, th, links, fenceRow, fenceReceipt, phase, pair>> /\ Quiet

CanFail(k) ==
  fenceRow[k] # FenceNone /\ fenceRow[k].status = "processing" /\ fenceReceipt[k] = FenceNone

(* set_unreceipted_command_failure *)
FailCommand(k) ==
  /\ writer = FenceNone
  /\ CanFail(k)
  /\ fenceRow' = [fenceRow EXCEPT ![k].status = "rejected"]
  /\ UNCHANGED <<writer, th, fenceWork, links, fenceReceipt, phase, pair>> /\ Quiet

FlipStanding ==
  /\ flips < MaxFlips
  /\ flips' = flips + 1
  /\ standing' = ~standing
  /\ UNCHANGED <<authority, now, writer, th, fenceTables, native, reads, delivered>>

Tick ==
  /\ now < MaxNow
  /\ now' = now + 1
  /\ UNCHANGED <<authority, standing, flips, writer, th, fenceTables, native, reads, delivered>>

(* The process dies: handles roll back, rows and receipts stay. *)
FenceCrash ==
  /\ \E t \in Threads : th[t] # FenceIdle
  /\ th' = [t \in Threads |-> FenceIdle]
  /\ writer' = FenceNone
  /\ UNCHANGED fenceTables /\ Quiet

FenceNext ==
  \/ \E t \in Threads, k \in FenceKeys : ReadForDispatch(t, k)
  \/ \E t \in Threads :
       \/ ClaimCommandAgainst(t) \/ OpenWriter(t) \/ RequirePending(t)
       \/ NativeEffect(t) \/ CommitPair(t) \/ CommitDispatch(t)
       \/ Drop(t) \/ GiveUp(t) \/ NativeRead(t) \/ ConfirmDispatchBasis(t)
  \/ \E t \in Threads, p \in Phases : CommitPhase(t, p)
  \/ \E k \in FenceKeys : Deliver(k) \/ FailCommand(k)
  \/ ChangeAuthority \/ OtherAppend \/ FlipStanding \/ Tick \/ FenceCrash

FenceSpec == FenceInit /\ [][FenceNext]_fenceVars

-----------------------------------------------------------------------------
(* Properties *)

(* Nothing is written and no native effect happens unless the authority    *)
(* scope grants it at that very moment, although it was read before the    *)
(* lock was taken.                                                         *)
Authorized ==
  /\ \A i \in 1..Len(fenceWork) : fenceWork[i].granted
  /\ \A e \in native : e.granted

(* A handle that has been refused once never writes or acts again, even    *)
(* when the process flag is repaired in the meantime.                      *)
RefusalEnds ==
  /\ \A i \in 1..Len(fenceWork) : ~fenceWork[i].refused
  /\ \A e \in native : ~e.refused

(* A native read confirmed to its caller was made while the caller was     *)
(* authorised, although no lock was held (confirm_dispatch_basis).         *)
ConfirmedReads == FALSE \notin reads

(* The handle of open_writer: authority, deadline and guard hold for every *)
(* effect and every confirmed read, and one refusal ends it.               *)
WorkAuthorized == FenceTypeOK /\ Authorized /\ RefusalEnds /\ ConfirmedReads

At(k, what) == {i \in 1..Len(fenceWork) : fenceWork[i].key = k /\ fenceWork[i].what = what}

(* What require_recorded_lifecycle_prefix relies on: a phase is in the     *)
(* log once, where its marker says, and before its command's result, and   *)
(* the task phase has the one companion that names its position.           *)
PhasesPrecedeResult ==
  \A k \in FenceKeys : \A p \in Phases :
    /\ At(k, p) = IF phase[k][p] = FenceNone THEN {} ELSE {phase[k][p]}
    /\ \A i \in At(k, p), j \in At(k, "first") : i < j
    /\ p = TaskPhase =>
         {links[i].user : i \in {j \in 1..Len(links) : links[j].key = k}} = At(k, p)

(* A command has one result, under its receipt, with its marker bound; a   *)
(* command recorded as failed has none and never gets one.                 *)
OneResult ==
  \A k \in FenceKeys :
    /\ At(k, "first") = IF fenceReceipt[k] = FenceNone THEN {} ELSE {fenceReceipt[k]}
    /\ At(k, "marker") = IF pair[k] = FenceNone THEN {} ELSE {pair[k]}
    /\ fenceRow[k] # FenceNone /\ fenceRow[k].status = "rejected" => fenceReceipt[k] = FenceNone

(* The runtime is handed only intents whose product command committed.     *)
DeliveredCommitted ==
  \A k \in delivered : fenceReceipt[k] # FenceNone /\ At(k, "intent") # {}

(* A command's records in order: phases, one result, then its delivery.    *)
ResultsExact == PhasesPrecedeResult /\ OneResult /\ DeliveredCommitted
=============================================================================
