------------------------------ MODULE HttpGuard ------------------------------
(***************************************************************************)
(* The HTTP command guard (crates/app/src/command_idempotency.rs: guard)   *)
(* around handlers whose effects no transaction covers.                    *)
(*                                                                         *)
(* A request is claimed in one IMMEDIATE transaction, its handler runs,    *)
(* and the guard writes the answer's class over the claimed row. A handler *)
(* moves its work to a blocking thread: a client that goes away drops the  *)
(* request and what the guard would have written, never the work. The      *)
(* handlers of office requests commit their own receipt, and do so only    *)
(* while the row they were given still waits (verify_pending).             *)
(*                                                                         *)
(* One caller and one route. A row is found by its coordinate: the plain   *)
(* one, or for office staff the hashed one, and earlier builds left rows   *)
(* of office staff under the plain path with either key.                   *)
(***************************************************************************)
EXTENDS Naturals, FiniteSets

CONSTANTS
  GuardRequests,    \* requests that arrive, retries included
  GuardKeys,        \* caller keys
  Staff,       \* the keys office staff send
  Bodies,      \* request bodies, told apart by their digest
  GuardNone

ASSUME GuardAssumption == Staff \subseteq GuardKeys

VARIABLES
  guardRow,      \* table commands: body and status of a coordinate, or None
  guardReceipt,  \* coordinates with a row in command_receipts
  req,      \* Waiting, or the request under way
  guardWork,     \* blocking threads of the handlers: Waiting, running or done
  runs,     \* history: effects of a key, the ones of earlier builds included
  lost      \* history: keys whose row was abandoned by a drop, crash or error

guardVars == <<guardRow, guardReceipt, req, guardWork, runs, lost>>

Formats == {"plain", "interim", "office"}
Coords == Formats \X GuardKeys
GuardStatuses == {"processing", "applied", "rejected", "expired"}
GuardRows == [body : Bodies, status : GuardStatuses]
GuardIdle == [pc |-> "idle"]
Gone == [pc |-> "gone"]
GuardServing ==
  [pc : {"handling", "answered"}, at : Coords, body : Bodies,
   class : {"success", "client_error", "server_error"}]
Jobs == [at : Coords, state : {"running", "done", "refused"}]

(* No row and no job are told apart from every row and every job. *)
ASSUME GuardNoneAssumption == GuardNone \notin GuardRows /\ GuardNone \notin Jobs

GuardTypeOK ==
  /\ guardRow \in [Coords -> GuardRows \cup {GuardNone}]
  /\ guardReceipt \subseteq Coords
  /\ req \in [GuardRequests -> {GuardIdle, Gone} \cup GuardServing]
  /\ guardWork \in [GuardRequests -> Jobs \cup {GuardNone}]
  /\ runs \in [GuardKeys -> Nat]
  /\ lost \subseteq GuardKeys

(* What an earlier build may have left for an office key. *)
Left == {[f \in {"plain", "interim"} |-> GuardNone]} \cup
  {[f \in {"plain", "interim"} |-> IF f = g THEN r ELSE GuardNone] :
     g \in {"plain", "interim"},
     r \in [body : Bodies, status : {"processing", "applied"}]}

GuardInit ==
  \E old \in [Staff -> Left] :
    /\ guardRow = [c \in Coords |->
         IF c[2] \in Staff /\ c[1] # "office" THEN old[c[2]][c[1]] ELSE GuardNone]
    /\ runs = [k \in GuardKeys |->
         IF k \in Staff /\ \E f \in {"plain", "interim"} : old[k][f] # GuardNone THEN 1 ELSE 0]
    /\ lost = {k \in Staff : \E f \in {"plain", "interim"} : old[k][f] # GuardNone}
    /\ guardReceipt = {}
    /\ req = [q \in GuardRequests |-> GuardIdle]
    /\ guardWork = [q \in GuardRequests |-> GuardNone]

-----------------------------------------------------------------------------
(* The claim *)

Coord(k) == IF k \in Staff THEN <<"office", k>> ELSE <<"plain", k>>

(* Mutant: a format change starts recorded work again. *)
Excluded_None(k) == FALSE

(* claim_command_excluding: office staff are refused over an older row. *)
Excluded(k) ==
  k \in Staff /\ (guardRow[<<"plain", k>>] # GuardNone \/ guardRow[<<"interim", k>>] # GuardNone)

(* claim_command: the row is inserted `received` and taken in the same     *)
(* transaction, so only a key without a row is ever claimed.               *)
Claimable(k, b) == guardRow[Coord(k)] = GuardNone

(* caller_idempotency_key, to_bytes and the store's own failure: the       *)
(* request is answered before anything is recorded.                        *)
Refuse(q) ==
  /\ req[q] = GuardIdle
  /\ req' = [req EXCEPT ![q] = Gone]
  /\ UNCHANGED <<guardRow, guardReceipt, guardWork, runs, lost>>

(* A conflict answers with the stored status, or names the changed input.  *)
Conflict(q, k, b) ==
  /\ req[q] = GuardIdle
  /\ Excluded(k) \/ ~Claimable(k, b)
  /\ req' = [req EXCEPT ![q] = Gone]
  /\ UNCHANGED <<guardRow, guardReceipt, guardWork, runs, lost>>

Claim(q, k, b) ==
  /\ req[q] = GuardIdle
  /\ ~Excluded(k)
  /\ Claimable(k, b)
  /\ guardRow' = [guardRow EXCEPT ![Coord(k)] = [body |-> b, status |-> "processing"]]
  /\ req' = [req EXCEPT ![q] =
       [pc |-> "handling", at |-> Coord(k), body |-> b, class |-> "success"]]
  /\ guardWork' = [guardWork EXCEPT ![q] = [at |-> Coord(k), state |-> "running"]]
  /\ UNCHANGED <<guardReceipt, runs, lost>>

-----------------------------------------------------------------------------
(* The handler *)

Running(q) == guardWork[q] # GuardNone /\ guardWork[q].state = "running"

(* An effect outside the store: files, processes, records of other keys.   *)
Effect(q) ==
  /\ Running(q)
  /\ guardWork[q].at[2] \notin Staff
  /\ runs' = [runs EXCEPT ![guardWork[q].at[2]] = @ + 1]
  /\ guardWork' = [guardWork EXCEPT ![q].state = "done"]
  /\ UNCHANGED <<guardRow, guardReceipt, req, lost>>

(* Mutant: the handler trusts the claim it was given. *)
VerifyPending_Given(c) == guardRow[c] # GuardNone /\ c \notin guardReceipt
VerifyPending(c) ==
  guardRow[c] # GuardNone /\ guardRow[c].status = "processing" /\ c \notin guardReceipt

(* commit_claimed of an office handler: the facts, the receipt and the row *)
(* in one transaction. The tools of a turn hold copies of the claim, which *)
(* outlive the answer: any of them may try, at any time.                   *)
GuardCommitClaimed(q) ==
  /\ guardWork[q] # GuardNone
  /\ guardWork[q].at[2] \in Staff
  /\ VerifyPending(guardWork[q].at)
  /\ guardReceipt' = guardReceipt \cup {guardWork[q].at}
  /\ guardRow' = [guardRow EXCEPT ![guardWork[q].at].status = "applied"]
  /\ runs' = [runs EXCEPT ![guardWork[q].at[2]] = @ + 1]
  /\ guardWork' = [guardWork EXCEPT ![q].state = "done"]
  /\ UNCHANGED <<req, lost>>

(* Refused by its own checks, or panicked, before it does anything. *)
HandlerRefuses(q) ==
  /\ Running(q)
  /\ guardWork' = [guardWork EXCEPT ![q].state = "refused"]
  /\ UNCHANGED <<guardRow, guardReceipt, req, runs, lost>>

(* The join ends: a handler whose work was done may still answer a failure *)
(* (its delivery lost authority), never a success for work it refused.     *)
GuardAnswer(q, class) ==
  /\ req[q].pc = "handling"
  /\ ~Running(q)
  /\ class = "success" => guardWork[q].state = "done"
  /\ req' = [req EXCEPT ![q].pc = "answered", ![q].class = class]
  /\ UNCHANGED <<guardRow, guardReceipt, guardWork, runs, lost>>

-----------------------------------------------------------------------------
(* What the guard writes afterwards *)

CommandStatus(class) ==
  CASE class = "success" -> "applied"
    [] class = "client_error" -> "rejected"
    [] class = "server_error" -> "expired"

(* set_command_status writes over anything; set_unreceipted_command_failure *)
(* only over an unfinished row without a receipt.                           *)
Recorded(c, s) ==
  s = "applied" \/ (guardRow[c].status = "processing" /\ c \notin guardReceipt)

GuardRecord(q) ==
  LET c == req[q].at
      s == CommandStatus(req[q].class)
  IN /\ req[q].pc = "answered"
     /\ guardRow' = IF Recorded(c, s) THEN [guardRow EXCEPT ![c].status = s] ELSE guardRow
     /\ req' = [req EXCEPT ![q] = Gone]
     /\ UNCHANGED <<guardReceipt, guardWork, runs, lost>>

(* `let _ =`: a store that fails here leaves the row as it is. *)
RecordFails(q) ==
  /\ req[q].pc = "answered"
  /\ lost' = lost \cup {req[q].at[2]}
  /\ req' = [req EXCEPT ![q] = Gone]
  /\ UNCHANGED <<guardRow, guardReceipt, guardWork, runs>>

(* The connection ends while the handler is awaited: its work goes on. *)
DropRequest(q) ==
  /\ req[q].pc = "handling"
  /\ lost' = lost \cup {req[q].at[2]}
  /\ req' = [req EXCEPT ![q] = Gone]
  /\ UNCHANGED <<guardRow, guardReceipt, guardWork, runs>>

Live(q) == req[q].pc \in {"handling", "answered"}

(* The process ends: requests under way and blocking threads with it. *)
GuardCrash ==
  /\ \E q \in GuardRequests : Live(q) \/ Running(q)
  /\ lost' = lost \cup {req[q].at[2] : q \in {p \in GuardRequests : Live(p)}}
  /\ req' = [q \in GuardRequests |-> IF Live(q) THEN Gone ELSE req[q]]
  /\ guardWork' = [q \in GuardRequests |-> GuardNone]
  /\ UNCHANGED <<guardRow, guardReceipt, runs>>

GuardNext ==
  \/ \E q \in GuardRequests :
       \/ Refuse(q)
       \/ \E k \in GuardKeys, b \in Bodies : Conflict(q, k, b) \/ Claim(q, k, b)
       \/ Effect(q) \/ GuardCommitClaimed(q) \/ HandlerRefuses(q)
       \/ \E class \in {"success", "client_error", "server_error"} : GuardAnswer(q, class)
       \/ GuardRecord(q) \/ RecordFails(q) \/ DropRequest(q)
  \/ GuardCrash

GuardSpec == GuardInit /\ [][GuardNext]_guardVars

-----------------------------------------------------------------------------
(* Properties *)

(* "Run a key once, and refuse an uncertain replay rather than risk        *)
(* applying it twice" (command_idempotency.rs:6): whatever is retried, with *)
(* drops, crashes and work that outlives its request, the effects of a key  *)
(* happen once, the ones an earlier build recorded in its own format        *)
(* included.                                                               *)
RunOnce == \A k \in GuardKeys : runs[k] <= 1

(* "A refused response cannot rewrite that durable outcome": a row that     *)
(* says rejected or expired never stands beside a committed receipt, though *)
(* the answer was a failure or the work outlived its request.               *)
FailureHasNoReceipt ==
  \A c \in Coords :
    c \in guardReceipt => guardRow[c].status \notin {"rejected", "expired"}

(* A replay told `applied` is told the truth: the effects of the key        *)
(* happened.                                                               *)
AppliedHappened ==
  \A k \in GuardKeys :
    (guardRow[Coord(k)] # GuardNone /\ guardRow[Coord(k)].status = "applied") => runs[k] = 1

(* A row left `processing` belongs to a request under way, or something     *)
(* ended the request: a drop, a crash or a failed write. Otherwise every    *)
(* claimed key is settled by the answer to its claim.                       *)
ProcessingAccounted ==
  \A k \in GuardKeys :
    (guardRow[Coord(k)] # GuardNone /\ guardRow[Coord(k)].status = "processing") =>
      k \in lost \/ \E q \in GuardRequests : Live(q) /\ req[q].at = Coord(k)

(* What a row once said of its outcome it says for ever, so two replays of  *)
(* a key are never told two outcomes.                                       *)
OutcomeStays ==
  [][\A c \in Coords :
       (guardRow[c] # GuardNone /\ guardRow[c].status # "processing") =>
         guardRow'[c] = guardRow[c]]_guardVars

(* The guard's row tells the outcome of its key, once, through drops,      *)
(* crashes and handlers that commit their own receipt.                     *)
OutcomesTrue ==
  /\ [](GuardTypeOK /\ FailureHasNoReceipt /\ AppliedHappened /\ ProcessingAccounted)
  /\ OutcomeStays
=============================================================================
