--------------------------- MODULE RecordAdmission ---------------------------
(***************************************************************************)
(* Record facts under a caller key (crates/store/src/lib.rs:               *)
(* admit_record_facts_internal and its callers, append_record,             *)
(* append_chained_record; record_admission.rs: commit_staged).             *)
(*                                                                         *)
(* One command scope. A request names its key, the exact snapshot the key  *)
(* binds, additional identities it claims with the key, and perhaps the    *)
(* head it planned against: the caller reads the head, releases every lock *)
(* for a remote authority, and submits later, perhaps several times. Any   *)
(* head the scope ever had may therefore arrive with a request at any      *)
(* time. Every submission is one IMMEDIATE transaction, hence one step; a  *)
(* refusal rolls back and changes nothing.                                 *)
(* Other shells use the same tables: `claim_command` leaves a row          *)
(* `processing`, `commit_claimed` finishes it.                             *)
(***************************************************************************)
EXTENDS Naturals, Sequences, FiniteSets

CONSTANTS
  Scopes,      \* event scopes
  Chain,       \* the scope of the hash-chained audit records
  RecordKeys,        \* caller keys of the command scope
  RecordSnaps,       \* exact command snapshots
  Facts,       \* Facts[n][s]: how many facts command n appends to scope s
  Governed,    \* snapshots whose command also appends a chained record
  MaxClaims,   \* bound: additional identities of a request (16 in the code)
  MaxEvents,   \* bound: events of a scope
  RecordNone

ASSUME RecordAssumption ==
  /\ Chain \in Scopes
  /\ Facts \in [RecordSnaps -> [Scopes -> Nat]]
  /\ Governed \subseteq RecordSnaps
  /\ MaxClaims \in Nat
  /\ MaxEvents \in Nat

VARIABLES
  log,       \* table events: log[s], oldest first
  recordRow,       \* table commands: owner, snapshot and status of a key, or None
  recordReceipt,   \* table command_receipts: applied_at of a key, or None
  factset,   \* tables record_command_fact_sets and _refs, or None
  committed, \* history: requests that appended their facts, and their basis
  told,      \* history: requests answered Ok
  wronged    \* history: was an admitted request refused on its retry

recordTables == <<log, recordRow, recordReceipt, factset>>
history == <<committed, told, wronged>>
recordVars == <<recordTables, history>>

RecordStatuses == {"received", "processing", "applied", "rejected", "expired"}

(* `by` is the key whose command appended the entry; `prev` of a chained   *)
(* record is the record its hash was taken of, 0 when it is the first.     *)
RecordEntries == [by : RecordKeys \cup {RecordNone}, kind : {"fact", "link"}, prev : Nat]
RecordRows == [owner : RecordKeys, snap : RecordSnaps, status : RecordStatuses]

ClaimSets(k) ==
  {C \in SUBSET ((RecordKeys \ {k}) \X RecordSnaps) :
     /\ Cardinality(C) <= MaxClaims
     /\ \A x, y \in C : x[1] = y[1] => x = y}

RecordRequests ==
  UNION {[key : {k}, snap : RecordSnaps, claims : ClaimSets(k)] : k \in RecordKeys}
Bases == {RecordNone} \cup [scope : Scopes, head : Nat]

ASSUME RecordNoneAssumption ==
  RecordNone \notin RecordKeys \cup Nat \cup RecordRows \cup [scope : Scopes, head : Nat]

RecordTypeOK ==
  /\ log \in [Scopes -> Seq(RecordEntries)]
  /\ recordRow \in [RecordKeys -> RecordRows \cup {RecordNone}]
  /\ recordReceipt \in [RecordKeys -> Nat \cup {RecordNone}]
  /\ factset \in [RecordKeys -> {RecordNone} \cup SUBSET (Scopes \X Nat)]
  /\ committed \subseteq [req : RecordRequests, basis : Bases]
  /\ told \subseteq RecordRequests
  /\ wronged \in BOOLEAN

RecordInit ==
  /\ log = [s \in Scopes |-> <<>>]
  /\ recordRow = [k \in RecordKeys |-> RecordNone]
  /\ recordReceipt = [k \in RecordKeys |-> RecordNone]
  /\ factset = [k \in RecordKeys |-> RecordNone]
  /\ committed = {}
  /\ told = {}
  /\ wronged = FALSE

-----------------------------------------------------------------------------
(* The statements of a transaction *)

Head_(s) == Len(log[s])

(* tx_chain_head: the last chained record visible to this transaction. *)
ChainHead(l) ==
  IF \E i \in 1..Len(l) : l[i].kind = "link"
  THEN CHOOSE i \in 1..Len(l) :
         l[i].kind = "link" /\ \A j \in (i + 1)..Len(l) : l[j].kind # "link"
  ELSE 0

LinkTo(l) == ChainHead(l)

Link(l, by) == Append(l, [by |-> by, kind |-> "link", prev |-> LinkTo(l)])

FactRows(n, s, by) ==
  [i \in 1..Facts[n][s] |-> [by |-> by, kind |-> "fact", prev |-> 0]]

(* append_facts, then the chained record if the command is governed. *)
Appended(n, by, chained) ==
  LET withFacts == [s \in Scopes |-> log[s] \o FactRows(n, s, by)]
  IN IF chained THEN [withFacts EXCEPT ![Chain] = Link(@, by)] ELSE withFacts

Fits(after) == \A s \in Scopes : Len(after[s]) <= MaxEvents

(* record_command_fact_refs: every position the command was assigned. *)
FactRefs(n, chained) ==
  (UNION {{<<s, Head_(s) + i>> : i \in 1..Facts[n][s]} : s \in Scopes})
    \cup (IF chained THEN {<<Chain, Head_(Chain) + Facts[n][Chain] + 1>>} ELSE {})

(* `positions.first()`: where the first fact went. *)
AppliedAt(n, chained) ==
  IF \E s \in Scopes : Facts[n][s] > 0
  THEN Head_(CHOOSE s \in Scopes : Facts[n][s] > 0) + 1
  ELSE IF chained THEN Head_(Chain) + 1 ELSE 0

ClaimRow(q, c) == [owner |-> q.key, snap |-> c[2], status |-> "applied"]

(* The key already binds another command. *)
Conflicts(q) ==
  /\ recordRow[q.key] # RecordNone
  /\ (recordRow[q.key].snap # q.snap \/ recordRow[q.key].owner # q.key)

(* A claim that a retry finds must be this request's own, and receipted. *)
ClaimHeld(q, c) ==
  /\ recordRow[c[1]] # RecordNone
  /\ recordRow[c[1]].owner = q.key
  /\ recordRow[c[1]].snap = c[2]
  /\ recordReceipt[c[1]] # RecordNone

(* Mutant: an identity in use may be claimed once more. *)
ClaimsFree_Unchecked(q) == TRUE
ClaimsFree(q) == \A c \in q.claims : recordRow[c[1]] = RecordNone

Replays(q) == ~Conflicts(q) /\ recordReceipt[q.key] # RecordNone

(* Mutant: the head is compared with a later one allowed. *)
BasisHolds_Later(basis) == basis # RecordNone => Head_(basis.scope) >= basis.head
BasisHolds(basis) == basis # RecordNone => Head_(basis.scope) = basis.head

ReplayAllowed(q, basis) == TRUE

Admissible(q, basis) ==
  /\ recordRow[q.key] # RecordNone => recordRow[q.key].status = "received" /\ ~Conflicts(q)
  /\ recordReceipt[q.key] = RecordNone
  /\ ClaimsFree(q)
  /\ BasisHolds(basis)

-----------------------------------------------------------------------------
(* Requests *)

(* record_scope_head: the heads a caller may have planned against by now. *)
Planned == {RecordNone} \cup UNION {[scope : {s}, head : 0..Head_(s)] : s \in Scopes}

(* The first admission: facts, chained record, fact map, receipt, row and  *)
(* every claim in one transaction.                                         *)
AdmitFresh(q, basis) ==
  LET chained == q.snap \in Governed
      after == Appended(q.snap, q.key, chained)
      at == AppliedAt(q.snap, chained)
      owned == {q.key} \cup {x[1] : x \in q.claims}
  IN /\ Admissible(q, basis)
     /\ Fits(after)
     /\ log' = after
     /\ recordRow' = [k \in RecordKeys |->
          IF k = q.key THEN [owner |-> k, snap |-> q.snap, status |-> "applied"]
          ELSE IF k \in owned THEN ClaimRow(q, CHOOSE x \in q.claims : x[1] = k)
          ELSE recordRow[k]]
     /\ recordReceipt' = [k \in RecordKeys |-> IF k \in owned THEN at ELSE recordReceipt[k]]
     /\ factset' = [factset EXCEPT ![q.key] = FactRefs(q.snap, chained)]
     /\ committed' = committed \cup {[req |-> q, basis |-> basis]}
     /\ told' = told \cup {q}
     /\ UNCHANGED wronged

(* A retry finds the receipt and its own claims: nothing is appended. *)
Replayable(q, basis) ==
  /\ Replays(q)
  /\ \A x \in q.claims : ClaimHeld(q, x)
  /\ ReplayAllowed(q, basis)

AdmitReplay(q, basis) ==
  /\ Replayable(q, basis)
  /\ recordRow' = [recordRow EXCEPT ![q.key] =
       [owner |-> q.key, snap |-> q.snap, status |-> "applied"]]
  /\ told' = told \cup {q}
  /\ UNCHANGED <<log, recordReceipt, factset, committed, wronged>>

AdmitRefused(q, basis) ==
  /\ ~Admissible(q, basis)
  /\ ~Replayable(q, basis)
  /\ wronged' = (wronged \/ \E d \in committed : d.req = q)
  /\ UNCHANGED <<recordTables, committed, told>>

-----------------------------------------------------------------------------
(* Other writers of the same tables *)

(* append_record and its siblings, and append_chained_record. *)
AppendPlainRecord(s) ==
  /\ Len(log[s]) < MaxEvents
  /\ log' = [log EXCEPT ![s] = Append(@, [by |-> RecordNone, kind |-> "fact", prev |-> 0])]
  /\ UNCHANGED <<recordRow, recordReceipt, factset, history>>

AppendChainedRecord ==
  /\ Len(log[Chain]) < MaxEvents
  /\ log' = [log EXCEPT ![Chain] = Link(@, RecordNone)]
  /\ UNCHANGED <<recordRow, recordReceipt, factset, history>>

(* claim_command of another shell on a key of this scope. *)
ClaimCommand(k, n) ==
  /\ recordRow[k] = RecordNone
  /\ recordRow' = [recordRow EXCEPT ![k] = [owner |-> k, snap |-> n, status |-> "processing"]]
  /\ UNCHANGED <<log, recordReceipt, factset, history>>

(* commit_claimed: that shell finishes; no fact map is kept for it. *)
RecordCommitClaimed(k) ==
  /\ recordRow[k] # RecordNone
  /\ recordRow[k].status = "processing"
  /\ LET after == Appended(recordRow[k].snap, k, FALSE)
     IN Fits(after) /\ log' = after
  /\ recordReceipt' = [recordReceipt EXCEPT ![k] = AppliedAt(recordRow[k].snap, FALSE)]
  /\ recordRow' = [recordRow EXCEPT ![k].status = "applied"]
  /\ UNCHANGED <<factset, history>>

(* set_unreceipted_command_failure *)
FailClaimed(k) ==
  /\ recordRow[k] # RecordNone
  /\ recordRow[k].status = "processing"
  /\ recordReceipt[k] = RecordNone
  /\ recordRow' = [recordRow EXCEPT ![k].status = "rejected"]
  /\ UNCHANGED <<log, recordReceipt, factset, history>>

RecordNext ==
  \/ \E q \in RecordRequests, basis \in Planned :
       AdmitFresh(q, basis) \/ AdmitReplay(q, basis) \/ AdmitRefused(q, basis)
  \/ \E s \in Scopes : AppendPlainRecord(s)
  \/ AppendChainedRecord
  \/ \E k \in RecordKeys : RecordCommitClaimed(k) \/ FailClaimed(k)
  \/ \E k \in RecordKeys, n \in RecordSnaps : ClaimCommand(k, n)

RecordSpec == RecordInit /\ [][RecordNext]_recordVars

-----------------------------------------------------------------------------
(* Properties *)

By(k) ==
  {e \in Scopes \X (1..MaxEvents) : e[2] <= Len(log[e[1]]) /\ log[e[1]][e[2]].by = k}

(* An Ok answer of admit_record_facts is true: the facts of the snapshot   *)
(* it bound are in the log exactly once, whether this call or an earlier   *)
(* one under the key appended them.                                        *)
AnswerTrue ==
  \A q \in told : \A s \in Scopes :
    Cardinality({i \in 1..Len(log[s]) :
      log[s][i].by = q.key /\ log[s][i].kind = "fact"}) = Facts[q.snap][s]

(* committed_record_facts returns exactly what the command appended, its   *)
(* chained record included, and never a fact of another command.           *)
ProvenanceExact == \A k \in RecordKeys : factset[k] # RecordNone => factset[k] = By(k)

(* The audit chain does not fork: each chained record links to the one     *)
(* just before it, whichever writers raced (SECAUD-2).                     *)
ChainLinear ==
  \A i \in 1..Len(log[Chain]) :
    log[Chain][i].kind = "link" =>
      log[Chain][i].prev = ChainHead(SubSeq(log[Chain], 1, i - 1))

(* A command staged against a head landed directly on it: nothing came     *)
(* between what its caller reviewed and its first fact in that scope.      *)
StagedOnBasis ==
  \A d \in committed : d.basis # RecordNone /\ Facts[d.req.snap][d.basis.scope] > 0 =>
    /\ d.basis.head < Len(log[d.basis.scope])
    /\ log[d.basis.scope][d.basis.head + 1].by = d.req.key

(* An additional identity belongs to the one request that claimed it: it   *)
(* never has effects of its own, and no other request is told Ok with it.  *)
ClaimsExclusive ==
  \A q \in told : \A x \in q.claims :
    /\ By(x[1]) = {}
    /\ \A p \in told :
         /\ p.key # x[1]
         /\ (\E y \in p.claims : y[1] = x[1]) => p.key = q.key

(* The exact retry of an admitted request is never refused, although the   *)
(* admission itself moved the head the request was staged against.         *)
RetryReplays == ~wronged

(* What admit_record_facts answers, and what it later says a key           *)
(* committed and claimed, is what the log has.                             *)
FactsExact ==
  RecordTypeOK /\ AnswerTrue /\ ProvenanceExact /\ ClaimsExclusive /\ RetryReplays

(* Where facts land: the chain is one, and nothing came between a staged   *)
(* command and the head it was reviewed at.                                *)
OrderKept == ChainLinear /\ StagedOnBasis
=============================================================================
