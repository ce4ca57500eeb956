------------------------------ MODULE Admission ------------------------------
(***************************************************************************)
(* The store's keyed command admission (crates/store/src/lib.rs,           *)
(* request_admission.rs): the application shell `admit_materialized`,      *)
(* which spans four SQLite transactions on one connection, its one-        *)
(* transaction sibling `admit_request`, `admit_with_key` called on its     *)
(* own, the unkeyed `admit`, and what an interruption leaves behind.       *)
(*                                                                         *)
(* A worker is one call in flight on one connection (`Store::sibling`);    *)
(* every SQLite transaction is one step, because each takes the write      *)
(* lock up front (`TransactionBehavior::Immediate`) or is one statement.   *)
(* A lifecycle event is represented by the state it evolves to, so the     *)
(* fold of a scope is the last entry of its log.                           *)
(***************************************************************************)
EXTENDS Naturals, Sequences

CONSTANTS
  Scopes,               \* scope ids
  Keys,                 \* caller idempotency keys
  Commands,             \* lifecycle commands
  Intents,              \* caller intents of `admit_request`
  Workers,              \* calls that may be in flight at once
  LState, L0,           \* the lifecycle's states and its default
  Decide,               \* Decide[<<st, c>>]: the events c emits in st
  Full,                 \* PRAGMA synchronous = FULL (else NORMAL)
  ReconcileAtStartup,   \* does opening the store run `reconcile_commands`
  DirectCalls,          \* may callers use `admit_with_key` without a claim
  StatementErrors,      \* may a statement outside the admission fail
  MaxUnkeyed,           \* bound: unkeyed admissions
  MaxFaults,            \* bound: crashes, power losses and failed statements
  None                  \* absent row, receipt or author

Ids == Scopes \X Keys

ASSUME LifecycleAssumption ==
  /\ L0 \in LState
  /\ Decide \in [LState \X Commands -> [ok : BOOLEAN, events : Seq(LState)]]

ASSUME ModeAssumption ==
  /\ Full \in BOOLEAN
  /\ ReconcileAtStartup \in BOOLEAN
  /\ DirectCalls \in BOOLEAN
  /\ StatementErrors \in BOOLEAN
  /\ MaxUnkeyed \in Nat
  /\ MaxFaults \in Nat

ASSUME NoneAssumption ==
  /\ None \notin Ids
  /\ None \notin Nat
  /\ None \notin Commands
  /\ None \notin [api : {"materialized", "request"}, intent : Commands \cup Intents]
  /\ \A r \in {"received", "processing", "applied", "rejected", "expired"} :
        None # r

VARIABLES
  log,        \* table events: log[s], oldest first
  status,     \* table commands: status[id], None when there is no row
  snapshot,   \* table commands: the first caller input under id
  receipts,   \* table command_receipts: applied_at, None when absent
  disk,       \* what survives a power loss
  call,       \* call[w]: the call worker w is executing
  up,         \* is the process running
  unkeyed,    \* unkeyed admissions so far (bounded by MaxUnkeyed)
  faults,     \* faults so far (bounded by MaxFaults)
  acked,      \* history: <<id, intent>> answered as admitted
  refused     \* history: identities whose caller was told to use a new key

tables == <<log, status, snapshot, receipts>>
vars == <<tables, disk, call, up, unkeyed, faults, acked, refused>>

Statuses == {"received", "processing", "applied", "rejected", "expired"}
Unsettled == {"received", "processing"}
Snapshots == [api : {"materialized", "request"}, intent : Commands \cup Intents]

(* `by` and `base` are history: the identity whose admission wrote the     *)
(* entry (None when unkeyed) and the position its batch began at.          *)
Entries == [state : LState, by : Ids \cup {None}, base : Nat]

Idle == [pc |-> "idle"]
InFlight(pcs, outcomes) ==
  [pc : pcs, id : Ids, cmd : Commands, claimed : BOOLEAN, seen : Statuses,
   outcome : outcomes]
Calls ==
  {Idle} \cup InFlight({"check", "repair", "admit"}, {""})
    \cup InFlight({"finish"}, {"applied", "rejected", "expired"})

TypeOK ==
  /\ log \in [Scopes -> Seq(Entries)]
  /\ status \in [Ids -> Statuses \cup {None}]
  /\ snapshot \in [Ids -> Snapshots \cup {None}]
  /\ receipts \in [Ids -> Nat \cup {None}]
  /\ disk \in [log : [Scopes -> Seq(Entries)],
               status : [Ids -> Statuses \cup {None}],
               snapshot : [Ids -> Snapshots \cup {None}],
               receipts : [Ids -> Nat \cup {None}]]
  /\ call \in [Workers -> Calls]
  /\ up \in BOOLEAN
  /\ unkeyed \in Nat
  /\ faults \in Nat
  /\ acked \subseteq (Ids \X (Commands \cup Intents))
  /\ refused \subseteq Ids

Db == [log |-> log, status |-> status, snapshot |-> snapshot, receipts |-> receipts]

Init ==
  /\ log = [s \in Scopes |-> <<>>]
  /\ status = [id \in Ids |-> None]
  /\ snapshot = [id \in Ids |-> None]
  /\ receipts = [id \in Ids |-> None]
  /\ disk = Db
  /\ call = [w \in Workers |-> Idle]
  /\ up = TRUE
  /\ unkeyed = 0
  /\ faults = 0
  /\ acked = {}
  /\ refused = {}

-----------------------------------------------------------------------------
(* Statements and transactions *)

(* A commit reaches the disk at once only under synchronous = FULL. *)
Commit == disk' = IF Full THEN Db' ELSE disk

(* `fold`: the scope's current lifecycle state. *)
Fold(s) == IF log[s] = <<>> THEN L0 ELSE log[s][Len(log[s])].state

ReceiptSeen(id) == receipts[id] # None

(* Mutant: the admission leaves no receipt. *)
WriteReceipt_Skipped(id) == UNCHANGED receipts

(* The receipt records the position the batch began at. *)
WriteReceipt(id) == receipts' = [receipts EXCEPT ![id] = Len(log[id[1]])]

(* The rows of one append loop: consecutive positions from `base` on. *)
Batch(s, events, by) ==
  [i \in 1..Len(events) |-> [state |-> events[i], by |-> by, base |-> Len(log[s])]]

(* Mutant: positions from MAX(position) on, overwriting the last event. *)
AppendEvents_Overlap(s, events, by) ==
  log' = [log EXCEPT ![s] = SubSeq(@, 1, Len(@) - 1) \o Batch(s, events, by)]

(* The append loop shared by `admit`, `admit_with_key` and `commit_request`: *)
(* the events take the positions from MAX(position) + 1 on.                *)
AppendEvents(s, events, by) ==
  log' = [log EXCEPT ![s] = @ \o Batch(s, events, by)]

SetCommandStatus(id, st) == status' = [status EXCEPT ![id] = st]

Fault == faults < MaxFaults /\ faults' = faults + 1

Return(w) == call' = [call EXCEPT ![w] = Idle]

-----------------------------------------------------------------------------
(* admit_materialized(scope, key, command) *)

(* The conditional update `WHERE status = 'received'`. *)
Claimable(st) == st = "received"

SameInput(first, mine) == first = mine

(* `claim_command`: INSERT OR IGNORE keeps the first snapshot; a row still *)
(* `received` under this very snapshot becomes `processing`, claimed by    *)
(* this call.                                                              *)
Claim(w, id, c) ==
  LET mine    == [api |-> "materialized", intent |-> c]
      first   == IF status[id] = None THEN mine ELSE snapshot[id]
      found   == IF status[id] = None THEN "received" ELSE status[id]
      claimed == first = mine /\ Claimable(found)
      now     == IF claimed THEN "processing" ELSE found
  IN /\ up /\ call[w].pc = "idle"
     /\ SetCommandStatus(id, now)
     /\ snapshot' = [snapshot EXCEPT ![id] = first]
     \* "idempotency key reused with different command" returns here
     /\ call' = [call EXCEPT ![w] =
          IF ~SameInput(first, mine) THEN Idle
          ELSE [pc |-> "check", id |-> id, cmd |-> c, claimed |-> claimed,
                seen |-> now, outcome |-> ""]]
     /\ UNCHANGED <<log, receipts, up, unkeyed, faults, acked, refused>>
     /\ Commit

(* Mutant: "submit with a new key" while the command is still processing. *)
NewKeyAdvised_Early(st) == st \in {"rejected", "expired", "processing"}

(* The refusals that end with "submit with a new key". *)
NewKeyAdvised(st) == st \in {"rejected", "expired"}

(* The receipt probe: a statement of its own, after the claim committed.   *)
(* Without a receipt a call that did not claim the row answers from the    *)
(* status the claim read.                                                  *)
CheckReceipt(w) ==
  /\ up /\ call[w].pc = "check"
  /\ \/ /\ ReceiptSeen(call[w].id)
        /\ call' = [call EXCEPT ![w].pc = "repair"]
        /\ UNCHANGED refused
     \/ /\ ~ReceiptSeen(call[w].id) /\ call[w].claimed
        /\ call' = [call EXCEPT ![w].pc = "admit"]
        /\ UNCHANGED refused
     \/ /\ ~ReceiptSeen(call[w].id) /\ ~call[w].claimed
        /\ Return(w)
        /\ refused' = IF NewKeyAdvised(call[w].seen)
                        THEN refused \cup {call[w].id} ELSE refused
  /\ UNCHANGED <<tables, disk, up, unkeyed, faults, acked>>

(* Mutant: a replay writes back the status its claim read. *)
Repair_Seen(w) ==
  /\ up /\ call[w].pc = "repair"
  /\ SetCommandStatus(call[w].id, call[w].seen)
  /\ acked' = acked \cup {<<call[w].id, call[w].cmd>>}
  /\ Return(w)
  /\ UNCHANGED <<log, snapshot, receipts, up, unkeyed, faults, refused>>
  /\ Commit

(* A replay: repair a status the interrupted first call never wrote. *)
Repair(w) ==
  /\ up /\ call[w].pc = "repair"
  /\ SetCommandStatus(call[w].id, "applied")
  /\ acked' = acked \cup {<<call[w].id, call[w].cmd>>}
  /\ Return(w)
  /\ UNCHANGED <<log, snapshot, receipts, up, unkeyed, faults, refused>>
  /\ Commit

(* `admit_with_key`: receipt check, fold, decide, append and receipt in    *)
(* one transaction; a rejection writes nothing.                            *)
AdmitWithKey(w) ==
  LET id == call[w].id
      s  == id[1]
      d  == Decide[<<Fold(s), call[w].cmd>>]
  IN /\ up /\ call[w].pc = "admit"
     /\ \/ /\ ReceiptSeen(id)
           /\ call' = [call EXCEPT ![w].pc = "finish", ![w].outcome = "applied"]
           /\ UNCHANGED <<log, receipts>>
        \/ /\ ~ReceiptSeen(id) /\ ~d.ok
           /\ call' = [call EXCEPT ![w].pc = "finish", ![w].outcome = "rejected"]
           /\ UNCHANGED <<log, receipts>>
        \/ /\ ~ReceiptSeen(id) /\ d.ok
           /\ AppendEvents(s, d.events, id)
           /\ WriteReceipt(id)
           /\ call' = [call EXCEPT ![w].pc = "finish", ![w].outcome = "applied"]
     /\ UNCHANGED <<status, snapshot, up, unkeyed, faults, acked, refused>>
     /\ Commit

(* A database, codec or serialization error rolls the transaction back. *)
AdmitWithKeyFails(w) ==
  /\ up /\ call[w].pc = "admit"
  /\ Fault
  /\ call' = [call EXCEPT ![w].pc = "finish", ![w].outcome = "expired"]
  /\ UNCHANGED <<tables, disk, up, unkeyed, acked, refused>>

FinalStatus(c) == c.outcome

(* The final status update and the answer: Ok, the rejection, or the error. *)
Finish(w) ==
  /\ up /\ call[w].pc = "finish"
  /\ SetCommandStatus(call[w].id, FinalStatus(call[w]))
  /\ acked' = IF call[w].outcome = "applied"
                THEN acked \cup {<<call[w].id, call[w].cmd>>} ELSE acked
  /\ Return(w)
  /\ UNCHANGED <<log, snapshot, receipts, up, unkeyed, faults, refused>>
  /\ Commit

(* A statement of the shell fails outside the admission transaction (the   *)
(* probe, the replay's fold or update, the last update): the caller gets   *)
(* an error and the row stays as it is.                                    *)
StatementFails(w) ==
  /\ up /\ call[w].pc \in {"check", "repair", "finish"}
  /\ StatementErrors /\ Fault
  /\ Return(w)
  /\ UNCHANGED <<tables, disk, up, unkeyed, acked, refused>>
-----------------------------------------------------------------------------
(* The single-transaction entry points *)

(* `admit`: no key, no receipt, no row. *)
AdmitUnkeyed(s, c) ==
  LET d == Decide[<<Fold(s), c>>]
  IN /\ up /\ d.ok
     /\ unkeyed < MaxUnkeyed
     /\ unkeyed' = unkeyed + 1
     /\ AppendEvents(s, d.events, None)
     /\ UNCHANGED <<status, snapshot, receipts, call, up, faults, acked, refused>>
     /\ Commit

(* `admit_with_key` by a caller that claims nothing.  Its answer is not    *)
(* recorded: `acked` is about the shells that bind a caller's input.       *)
AdmitDirect(id, c) ==
  LET s == id[1]
      d == Decide[<<Fold(s), c>>]
  IN /\ up /\ DirectCalls /\ ~ReceiptSeen(id) /\ d.ok
     /\ AppendEvents(s, d.events, id)
     /\ WriteReceipt(id)
     /\ UNCHANGED <<status, snapshot, call, up, unkeyed, faults, acked, refused>>
     /\ Commit

(* `admit_request`, first use of the key: the intent r is bound, the server *)
(* materializes the command c afresh (None when materialization refuses),  *)
(* and row, events and receipt commit together.  A rejection commits only  *)
(* the row.                                                                *)
RequestFresh(id, r, c) ==
  LET s == id[1]
      d == IF c = None THEN [ok |-> FALSE, events |-> <<>>]
                       ELSE Decide[<<Fold(s), c>>]
  IN /\ up /\ status[id] = None /\ ~ReceiptSeen(id)
     /\ snapshot' = [snapshot EXCEPT ![id] = [api |-> "request", intent |-> r]]
     /\ \/ /\ d.ok
           /\ SetCommandStatus(id, "applied")
           /\ AppendEvents(s, d.events, id)
           /\ WriteReceipt(id)
           /\ acked' = acked \cup {<<id, r>>}
           /\ UNCHANGED refused
        \/ /\ ~d.ok
           /\ SetCommandStatus(id, "rejected")
           /\ UNCHANGED <<log, receipts, acked, refused>>
     /\ UNCHANGED <<call, up, unkeyed, faults>>
     /\ Commit

(* `admit_request` on a key already bound: a completed request of the same *)
(* intent is replayed, anything else of that intent is refused for good,   *)
(* another intent or another API's row is refused without advice.          *)
RequestAgain(id, r) ==
  /\ up /\ snapshot[id] = [api |-> "request", intent |-> r]
  /\ \/ /\ ReceiptSeen(id) /\ status[id] = "applied"
        /\ acked' = acked \cup {<<id, r>>}
        /\ UNCHANGED refused
     \/ /\ ~(ReceiptSeen(id) /\ status[id] = "applied")
        /\ refused' = refused \cup {id}
        /\ UNCHANGED acked
  /\ UNCHANGED <<tables, disk, call, up, unkeyed, faults>>
-----------------------------------------------------------------------------
(* Interruption and recovery *)

(* The process dies; committed transactions stay, calls in flight do not. *)
Crash ==
  /\ up /\ Fault
  /\ up' = FALSE
  /\ call' = [w \in Workers |-> Idle]
  /\ UNCHANGED <<tables, disk, unkeyed, acked, refused>>

(* The machine dies: the database is what had reached the disk. *)
PowerLoss ==
  /\ up /\ Fault
  /\ up' = FALSE
  /\ call' = [w \in Workers |-> Idle]
  /\ log' = disk.log
  /\ status' = disk.status
  /\ snapshot' = disk.snapshot
  /\ receipts' = disk.receipts
  /\ UNCHANGED <<disk, unkeyed, acked, refused>>

(* SQLite syncs the write-ahead log at a checkpoint. *)
Sync ==
  /\ disk # Db
  /\ disk' = Db
  /\ UNCHANGED <<tables, call, up, unkeyed, faults, acked, refused>>

(* Mutant: recovery forgets the rows a call had already claimed. *)
Interrupted_ReceivedOnly(st) == st = "received"

(* `WHERE status IN ('received', 'processing')`. *)
Interrupted(st) == st \in {"received", "processing"}

(* `reconcile_commands`: rows an interruption left unsettled become        *)
(* `applied` when their receipt committed and `expired` when it did not.   *)
ReconcileCommands ==
  status' = [id \in Ids |->
               IF Interrupted(status[id])
                 THEN IF ReceiptSeen(id) THEN "applied" ELSE "expired"
                 ELSE status[id]]

(* Opening the store again. *)
Restart ==
  /\ ~up
  /\ up' = TRUE
  /\ IF ReconcileAtStartup THEN ReconcileCommands ELSE UNCHANGED status
  /\ UNCHANGED <<log, snapshot, receipts, call, unkeyed, faults, acked, refused>>
  /\ Commit
-----------------------------------------------------------------------------
WorkerStep(w) ==
  \/ CheckReceipt(w) \/ Repair(w) \/ AdmitWithKey(w) \/ Finish(w)

Next ==
  \/ \E w \in Workers, id \in Ids, c \in Commands : Claim(w, id, c)
  \/ \E w \in Workers :
       CheckReceipt(w) \/ Repair(w) \/ AdmitWithKey(w) \/ AdmitWithKeyFails(w)
         \/ Finish(w) \/ StatementFails(w)
  \/ \E id \in Ids, c \in Commands : AdmitDirect(id, c)
  \/ \E id \in Ids, r \in Intents : RequestAgain(id, r)
  \/ \E s \in Scopes, c \in Commands : AdmitUnkeyed(s, c)
  \/ \E id \in Ids, r \in Intents, c \in Commands \cup {None} : RequestFresh(id, r, c)
  \/ Crash \/ PowerLoss \/ Sync \/ Restart

Spec == Init /\ [][Next]_vars

(* A running call executes its next statement, and a stopped desk is       *)
(* started again; callers, faults and checkpoints owe nothing.             *)
Fairness == (\A w \in Workers : WF_vars(WorkerStep(w))) /\ WF_vars(Restart)

FairSpec == Spec /\ Fairness

-----------------------------------------------------------------------------
(* Correctness *)

(* One batch per identity in a log and its receipt table. *)
OneBatch(l, r) ==
  \A s \in Scopes : \A i \in 1..Len(l[s]) :
    l[s][i].by # None =>
      /\ l[s][i].by \in {s} \X Keys
      /\ r[l[s][i].by] = l[s][i].base
      /\ l[s][i].base < i
      /\ \A j \in (l[s][i].base + 1)..i : l[s][j].by = l[s][i].by

(* INV-19, AT_MOST_ONCE: whatever is retried, raced or interrupted, the    *)
(* events of one (scope, key) are one contiguous batch, in that scope,     *)
(* starting where the receipt `applied_at` of `admit_with_key` and         *)
(* `commit_request` says; a power loss never keeps one without the other.  *)
EffectsOnce == OneBatch(log, receipts)

(* A row `applied` has its receipt, so the refusal "applied command is     *)
(* missing its durable receipt" of `admit_materialized` is never answered. *)
AppliedHasReceipt ==
  \A id \in Ids : status[id] = "applied" => receipts[id] # None

Claims(w, id) == call[w].pc # "idle" /\ call[w].id = id /\ call[w].claimed

(* `claim_command`: "separate store connections cannot both run the same   *)
(* caller key", and a row being executed is not yet settled as a failure.  *)
ClaimExclusive ==
  \A id \in Ids : \A w \in Workers :
    Claims(w, id) =>
      /\ status[id] \in {"processing", "applied"}
      /\ \A v \in Workers : Claims(v, id) => v = w

(* A caller answered Ok by `admit_materialized` or `admit_request` named   *)
(* the input that was admitted: its receipt stands, and the key is bound   *)
(* to that very input (under synchronous = FULL, through every crash).     *)
AckTruth ==
  \A a \in acked :
    /\ receipts[a[1]] # None
    /\ snapshot[a[1]] # None /\ snapshot[a[1]].intent = a[2]

(* A caller told to submit with a new key may do so: the refused identity  *)
(* never takes effect, neither before nor after the answer.                *)
RefusalFinal == \A id \in refused : receipts[id] = None

(* What the shells tell their callers is so, and the row that later        *)
(* answers are given from has what it claims to have.                      *)
AnswersTrue == AckTruth /\ RefusalFinal /\ AppliedHasReceipt

(* No late status update of a slower call (`set_command_status` is         *)
(* unconditional) takes back a row another call settled as applied.        *)
AppliedSticks ==
  [][\A id \in Ids : status[id] = "applied" => status'[id] = "applied"]_vars

(* Rows and claims: one executor of a key, whose outcome is not taken      *)
(* back by the calls that came beside it (`claim_command`,                 *)
(* `set_command_status`).                                                  *)
ClaimsStand == []ClaimExclusive /\ AppliedSticks

(* Every claimed command is settled, as applied, rejected or expired,      *)
(* through crashes and power losses ("Startup recovery for commands        *)
(* interrupted in `received`/`processing`").                               *)
Settles ==
  \A id \in Ids : (status[id] \in Unsettled) ~> (status[id] \notin Unsettled)

(* The store implements the at-most-once log. *)
Hist(l) == [s \in Scopes |-> [i \in 1..Len(l[s]) |-> l[s][i].state]]
Applied(r) == {id \in Ids : r[id] # None}

Abs == INSTANCE AtMostOnceLog WITH
         history <- Hist(log),
         applied <- Applied(receipts),
         safe <- [history |-> Hist(disk.log), applied |-> Applied(disk.receipts)]

(* Every step of the tables is a step of the abstract log or a stutter:    *)
(* a key's batch and its receipt appear together, at the end of its scope, *)
(* and a power loss moves both to one earlier state.                       *)
ImplementsAtMostOnce == Abs!Spec
=============================================================================
