--------------------------- MODULE ManagedCredits ---------------------------
(***************************************************************************)
(* Credits for managed work-chat turns: src/crates/app/src/                *)
(* work_chat_funding.rs over the allowance ledger of managed_inference.rs, *)
(* as the engine drives them for a choice answer's continuation turn       *)
(* (engagement_routes.rs), the turn that is retried under one command id.  *)
(*                                                                         *)
(* Every provider call of a turn is held on the ledger, then sent; the     *)
(* turn's usage settles its calls one by one.  Each write is its own       *)
(* transaction under the workbench lock, so a crash can fall between any   *)
(* two.  The meter's list of held calls is memory of one attempt.          *)
(*                                                                         *)
(* A chat answers one card, so the chat names the command.  An attempt of  *)
(* its turn is the transcript entry it appends; a call is that entry and   *)
(* the runtime's ordinal.  The model runtime, funding evidence, grants and *)
(* reconciliation are outside the repository.                              *)
(***************************************************************************)
EXTENDS Naturals, Sequences, FiniteSets, Functions

CONSTANTS
  Chats,
  NoChat,
  Calls,        \* provider calls one turn makes
  Hold,         \* credits held for one call
  Costs,        \* what a finished turn may cost
  Grants,       \* credit grants that may arrive
  MaxEntries,   \* bound on attempts
  MaxPlans,     \* bound on funding references
  MaxReleases   \* bound on reconciled calls

ASSUME CreditsAssumption ==
  /\ NoChat \notin Chats
  /\ {Calls, Hold, MaxEntries, MaxReleases} \subseteq Nat /\ MaxPlans \in Nat \ {0}
  /\ Costs \subseteq Nat /\ Grants \subseteq Nat

VARIABLES
  plan,       \* the current funding evidence: whether it is live, its reference
  granted,    \* credit grants on the ledger
  ledger,     \* reservations of the allowance ledger, by call
  recs,       \* calls with a reservation, a cost and a settlement record
  entries,    \* user entries of the transcripts, by the chat that ran them
  running,    \* chats whose run lifecycle is in phase Running
  card,       \* durable status of each chat's continuation
  answered,   \* the runtime's own record: calls of the command it has answers to
  sent,       \* calls that went to the provider
  turn,       \* live attempts and their meters
  lock        \* the attempt inside the workbench lock

durable == <<plan, granted, ledger, recs, entries, running, card, answered, sent>>
creditVars == <<durable, turn, lock>>

CallIds == (1..MaxEntries) \X (1..Calls)
CreditIdle == [at |-> "idle", entry |-> 0, ref |-> 0, held |-> <<>>, cost |-> 0, next |-> 0]
NoCall == [status |-> "none", ref |-> 0, drawn |-> 0]

CreditInit ==
  /\ plan = [live |-> TRUE, ref |-> 1]
  /\ granted = {}
  /\ ledger = [i \in CallIds |-> NoCall]
  /\ recs = [reserve |-> {}, cost |-> {}, settle |-> {}]
  /\ entries = <<>> /\ running = {}
  /\ card = [c \in Chats |-> "answered"]
  /\ answered = [c \in Chats |-> 0]
  /\ sent = {}
  /\ turn = [c \in Chats |-> CreditIdle] /\ lock = NoChat

(* ---- the ledger ---- *)

HasStatus(s) == {i \in CallIds : ledger[i].status = s}
Drawn(ids) == SumFunctionOnSet([i \in CallIds |-> ledger[i].drawn], ids)
drawn_nanos_usd == Drawn(CallIds)
held_nanos_usd == Hold * Cardinality(HasStatus("open"))
granted_nanos_usd == SumFunctionOnSet([g \in Grants |-> g], granted)

SaturatingSub(a, b) == IF a > b THEN a - b ELSE 0
available_nanos_usd_Settled == SaturatingSub(granted_nanos_usd, drawn_nanos_usd)
available_nanos_usd ==
  SaturatingSub(SaturatingSub(granted_nanos_usd, drawn_nanos_usd), held_nanos_usd)

Reserved(i, ref) == ledger' = [ledger EXCEPT ![i] = [status |-> "open", ref |-> ref, drawn |-> 0]]
Settled(i, drawn) == ledger' = [ledger EXCEPT ![i].status = "settled", ![i].drawn = drawn]

(* ---- an attempt ---- *)

Free(c) == lock \in {NoChat, c}
\* The attempt moves on; `hold` says whether it is still inside the lock.
Goes(c, to, hold) ==
  /\ turn' = [turn EXCEPT ![c].at = to]
  /\ lock' = IF hold THEN c ELSE IF lock = c THEN NoChat ELSE lock

\* CompleteRun or FailRun, admitted before anything is settled.
RunEnds(c) ==
  /\ running' = running \ {c}
  /\ UNCHANGED <<plan, granted, ledger, recs, entries, card, answered, sent>>

(***************************************************************************)
(* The answer is posted, or posted again while the continuation is         *)
(* pending.  The in-memory claim refuses a second live attempt.  An        *)
(* unfunded attempt fails its precheck: it appends its entry and the route *)
(* records the failed turn as completed, unless the last attempt died      *)
(* Running, whose run cannot be retried: that precheck errs.               *)
(***************************************************************************)
Retryable(c) == card[c] \in {"answered", "pending"} /\ turn[c].at = "idle"

Begin(c) ==
  /\ Retryable(c) /\ Free(c) /\ plan.live /\ Len(entries) < MaxEntries
  /\ entries' = Append(entries, c) /\ running' = running \union {c}
  /\ turn' = [turn EXCEPT ![c] =
       [CreditIdle EXCEPT !.at = "run", !.entry = Len(entries) + 1, !.ref = plan.ref]]
  /\ UNCHANGED <<plan, granted, ledger, recs, card, answered, sent, lock>>

Unfunded(c) ==
  /\ Retryable(c) /\ Free(c) /\ ~plan.live
  /\ \/ /\ c \notin running /\ Len(entries) < MaxEntries
        /\ entries' = Append(entries, c)
        /\ card' = [card EXCEPT ![c] = "completed"]
     \/ /\ c \in running
        /\ card' = [card EXCEPT ![c] = "pending"]
        /\ UNCHANGED entries
  /\ UNCHANGED <<plan, granted, ledger, recs, running, answered, sent, turn, lock>>

\* The call the runtime prepares next: the first it has no answer to.
Prepared(c) == <<turn[c].entry, answered[c] + 1>>

Admissible(c) ==
  /\ plan.live /\ plan.ref = turn[c].ref
  /\ ledger[Prepared(c)].status = "none"
  /\ Hold <= available_nanos_usd

ReserveCall(c) ==
  /\ turn[c].at = "run" /\ answered[c] < Calls /\ Free(c)
  /\ Admissible(c)
  /\ Reserved(Prepared(c), plan.ref)
  /\ Goes(c, "reserved", TRUE)
  /\ UNCHANGED <<plan, granted, recs, entries, running, card, answered, sent>>

\* A refused call is not sent; the runtime ends the attempt.
RefuseCall(c) ==
  /\ turn[c].at = "run" /\ answered[c] < Calls /\ Free(c)
  /\ ~Admissible(c)
  /\ \E to \in {"failed", "failed run"} : Goes(c, to, FALSE)
  /\ RunEnds(c)

RecordReservation(c) ==
  /\ turn[c].at = "reserved"
  /\ recs' = [recs EXCEPT !.reserve = @ \union {Prepared(c)}]
  /\ turn' = [turn EXCEPT ![c].at = "send", ![c].held = Append(@, Prepared(c))]
  /\ lock' = NoChat
  /\ UNCHANGED <<plan, granted, ledger, entries, running, card, answered, sent>>

Send(c) ==
  /\ turn[c].at = "send"
  /\ sent' = sent \union {Prepared(c)}
  /\ Goes(c, "wait", FALSE)
  /\ UNCHANGED <<plan, granted, ledger, recs, entries, running, card, answered>>

(* ---- the model runtime: external ---- *)

Answered(c) ==
  /\ turn[c].at = "wait"
  /\ answered' = [answered EXCEPT ![c] = @ + 1]
  /\ Goes(c, "run", FALSE)
  /\ UNCHANGED <<plan, granted, ledger, recs, entries, running, card, sent>>

TransportDied(c) == turn[c].at = "wait" /\ Goes(c, "failed", FALSE) /\ RunEnds(c)

\* The last answer ends the turn.  Its usage, when reported, is of the whole command.
Ended(c) ==
  /\ turn[c].at = "run" /\ answered[c] = Calls
  /\ \/ Goes(c, "completed", FALSE)
     \/ \E cost \in Costs :
          /\ turn' = [turn EXCEPT ![c].at = "usage", ![c].cost = cost]
          /\ UNCHANGED lock
  /\ RunEnds(c)

(* ---- settlement ---- *)

\* An attempt that held nothing has nothing to settle: the turn errs.
NothingHeld(c) ==
  /\ turn[c].at = "usage" /\ turn[c].held = <<>>
  /\ Goes(c, "failed", FALSE) /\ UNCHANGED durable

\* append_funded_usage counts tokens, which refuse nothing: the rows are left out.
AppendUsage(c) ==
  /\ turn[c].at = "usage" /\ turn[c].held # <<>> /\ Free(c)
  /\ turn' = [turn EXCEPT ![c].at = "settle", ![c].next = 1]
  /\ lock' = c
  /\ UNCHANGED durable

Least(a, b) == IF a < b THEN a ELSE b

\* allocate: every call up to its hold, the last whatever remains.
Allocated(c, n) ==
  LET remaining == SaturatingSub(turn[c].cost, (n - 1) * Hold)
  IN  IF n = Len(turn[c].held) THEN remaining ELSE Least(Hold, remaining)

SettleLedger(c) ==
  LET i == turn[c].held[turn[c].next]
  IN  /\ turn[c].at = "settle" /\ ledger[i].status = "open"
      /\ Settled(i, Allocated(c, turn[c].next))
      /\ Goes(c, "cost", TRUE)
      /\ UNCHANGED <<plan, granted, recs, entries, running, card, answered, sent>>

\* A call reconciled meanwhile is not settleable: the settlement stops there.
SettleRejected(c) ==
  /\ turn[c].at = "settle" /\ ledger[turn[c].held[turn[c].next]].status # "open"
  /\ Goes(c, "failed", FALSE) /\ UNCHANGED durable

RecordCost(c) ==
  /\ turn[c].at = "cost"
  /\ recs' = [recs EXCEPT !.cost = @ \union {turn[c].held[turn[c].next]}]
  /\ Goes(c, "settlement", TRUE)
  /\ UNCHANGED <<plan, granted, ledger, entries, running, card, answered, sent>>

RecordSettlement(c) ==
  LET last == turn[c].next = Len(turn[c].held)
  IN  /\ turn[c].at = "settlement"
      /\ recs' = [recs EXCEPT !.settle = @ \union {turn[c].held[turn[c].next]}]
      /\ turn' = [turn EXCEPT ![c].at = IF last THEN "completed" ELSE "settle",
                              ![c].next = @ + 1]
      /\ lock' = IF last THEN NoChat ELSE c
      /\ UNCHANGED <<plan, granted, ledger, entries, running, card, answered, sent>>

\* record_continuation: an attempt that returned a result, a failed run
\* included, completes the card; one that erred leaves it pending.
RecordContinuation(c) ==
  /\ turn[c].at \in {"completed", "failed run", "failed"} /\ Free(c)
  /\ card' = [card EXCEPT ![c] = IF turn[c].at = "failed" THEN "pending" ELSE "completed"]
  /\ turn' = [turn EXCEPT ![c] = CreditIdle] /\ UNCHANGED lock
  /\ UNCHANGED <<plan, granted, ledger, recs, entries, running, answered, sent>>

(* ---- outside ---- *)

Crash ==
  /\ \E c \in Chats : turn[c] # CreditIdle
  /\ turn' = [c \in Chats |-> CreditIdle] /\ lock' = NoChat
  /\ UNCHANGED durable

PlanChanges ==
  /\ lock = NoChat
  /\ \/ plan.live /\ plan' = [plan EXCEPT !.live = FALSE]
     \/ ~plan.live /\ plan' = [plan EXCEPT !.live = TRUE]
     \/ plan.ref < MaxPlans /\ plan' = [live |-> TRUE, ref |-> plan.ref + 1]
  /\ UNCHANGED <<granted, ledger, recs, entries, running, card, answered, sent, turn, lock>>

Grant(g) ==
  /\ lock = NoChat /\ g \notin granted
  /\ granted' = granted \union {g}
  /\ UNCHANGED <<plan, ledger, recs, entries, running, card, answered, sent, turn, lock>>

\* A person reconciles a call whose outcome stayed unknown.
Release(i) ==
  /\ lock = NoChat /\ ledger[i].status = "open"
  /\ Cardinality(HasStatus("released")) < MaxReleases
  /\ ledger' = [ledger EXCEPT ![i].status = "released"]
  /\ UNCHANGED <<plan, granted, recs, entries, running, card, answered, sent, turn, lock>>

CreditNext ==
  \/ \E c \in Chats :
       \/ Begin(c) \/ Unfunded(c)
       \/ ReserveCall(c) \/ RefuseCall(c) \/ RecordReservation(c) \/ Send(c)
       \/ Answered(c) \/ TransportDied(c) \/ Ended(c)
       \/ NothingHeld(c) \/ AppendUsage(c) \/ SettleLedger(c) \/ SettleRejected(c)
       \/ RecordCost(c) \/ RecordSettlement(c) \/ RecordContinuation(c)
  \/ Crash \/ PlanChanges
  \/ \E g \in Grants : Grant(g)
  \/ \E i \in CallIds : Release(i)

CreditSpec == CreditInit /\ [][CreditNext]_creditVars

(* ---- properties ---- *)

\* Every piece of state has its shape, and only the attempt named by the lock
\* is inside one of the sections with_store protects.
CreditTypeOK ==
  /\ plan \in [live : BOOLEAN, ref : 1..MaxPlans]
  /\ granted \subseteq Grants
  /\ ledger \in [CallIds -> [status : {"none", "open", "settled", "released"},
                             ref : 0..MaxPlans, drawn : Nat]]
  /\ recs \in [reserve : SUBSET CallIds, cost : SUBSET CallIds, settle : SUBSET CallIds]
  /\ entries \in Seq(Chats) /\ Len(entries) <= MaxEntries
  /\ running \subseteq Chats
  /\ card \in [Chats -> {"answered", "pending", "completed"}]
  /\ answered \in [Chats -> 0..Calls] /\ sent \subseteq CallIds
  /\ lock \in Chats \union {NoChat}
  /\ \A c \in Chats :
       turn[c].at \in {"reserved", "settle", "cost", "settlement"} <=> lock = c

\* available_nanos_usd, reserve_call: whatever crashes, retries and other chats
\* do, what is drawn and held exceeds what was granted only by what settled
\* calls cost beyond their own hold.
SpendBounded ==
  LET overshoot == SumFunctionOnSet([i \in CallIds |-> SaturatingSub(ledger[i].drawn, Hold)],
                                    HasStatus("settled"))
  IN  drawn_nanos_usd + held_nanos_usd <= granted_nanos_usd + overshoot

\* admit_metered_call: a call that went to the provider has its credits held,
\* drawn or reconciled by a person; no crash leaves a sent call unaccounted.
SentIsAccounted == \A i \in sent : ledger[i].status # "none"

\* settle_calls, allocate: while an attempt settles, its calls have drawn no
\* more than the turn's cost, whatever was reconciled meanwhile, and once the
\* last of them is drawn they have drawn exactly it, over or under the holds.
DrawsOneCost ==
  \A c \in Chats :
    LET mine == {turn[c].held[n] : n \in 1..Len(turn[c].held)}
    IN  turn[c].at \in {"settle", "cost", "settlement"} =>
          /\ Drawn(mine) <= turn[c].cost
          /\ mine \subseteq HasStatus("settled") => Drawn(mine) = turn[c].cost

\* settle_calls, reserve_bounded_turn: the billing records never run ahead of
\* the ledger: a settlement record has its cost record, which has its drawn
\* call, and a reservation record has its reservation.
RecordsFollowLedger ==
  /\ recs.settle \subseteq recs.cost
  /\ recs.cost \subseteq HasStatus("settled")
  /\ recs.reserve \subseteq (CallIds \ HasStatus("none"))

\* reserve_call: a plan that was suspended or replaced while a turn runs funds
\* none of the calls that follow.
FundedWhenHeld ==
  [][\A i \in CallIds :
       ledger[i].status = "none" /\ ledger'[i].status = "open" =>
         /\ plan.live /\ ledger'[i].ref = plan.ref
         /\ \E c \in Chats : turn[c].ref = plan.ref /\ turn[c].entry = i[1]]_creditVars

\* The account's money: held before it is sent, drawn once and recorded after,
\* from the plan that stands (reserve_call, settle_calls).
CreditSafe ==
  /\ [](CreditTypeOK /\ SpendBounded /\ SentIsAccounted /\ DrawsOneCost
         /\ RecordsFollowLedger)
  /\ FundedWhenHeld
=============================================================================
