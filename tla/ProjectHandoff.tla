--------------------------- MODULE ProjectHandoff ---------------------------
(***************************************************************************)
(* Relocating one project from the Home that owns it (the origin) to a     *)
(* paired Home (the target), over a relay that may lose either direction   *)
(* of an exchange: src/crates/app/src/federation.rs with the reducer of    *)
(* src/crates/core/src/handoff.rs.                                         *)
(*                                                                         *)
(* The origin keeps the folded handoff phase and its outgoing record; the  *)
(* target keeps the folded incoming record and, once it has committed the  *)
(* offer, the project.  A message takes one parked leg of the target's     *)
(* receiver loops; each loop admits its frame before it parks again, so    *)
(* with one loop the origin's messages are served one after another.       *)
(* Pairing the same peer again starts a further loop on the same token,    *)
(* and then a frame may sit in one leg while another leg serves.           *)
(*                                                                         *)
(* Verification of identities, the copied log and content are data here:   *)
(* verifying an offer or committing it succeeds or fails by choice.        *)
(***************************************************************************)
EXTENDS Naturals, Sequences, FiniteSets

CONSTANTS
  Legs,       \* receiver loops the target runs for this origin
  MaxFaults,  \* bound on lost frames, broken connections and crashes
  Torn,       \* whether the origin may crash between two appends of a handler
  Again       \* whether relocate may be called while a relocation is in flight

ASSUME HandoffAssumption ==
  /\ IsFiniteSet(Legs) /\ Legs # {}
  /\ MaxFaults \in Nat
  /\ Torn \in BOOLEAN /\ Again \in BOOLEAN

VARIABLES
  origin,    \* [phase, out]: folded handoff phase and outgoing record
  relocate,  \* the relocate call: idle, captured, waiting, or its verdict
  sending,   \* the offer is in SENDING_OFFERS (this process only)
  sweep,     \* the reconcile of the receiver loop: idle, waiting, or an answer
  cancel,    \* the abort route: idle, waiting, or its verdict
  inc,       \* latest outcome of the incoming offer at the target
  held,      \* the target's library has the project and names this Home
  preauth,   \* the target auto-accepts offers of this origin
  leg,       \* what each leg of the target holds
  pushes,    \* consent outcomes on their way to the origin
  faults     \* faults so far

originVars == <<origin, relocate, sending, sweep, cancel>>
targetVars == <<inc, held, preauth, leg, pushes>>
vars == <<origin, relocate, sending, sweep, cancel, inc, held, preauth, leg,
          pushes, faults>>

Phases == {"Draft", "Offered", "LogSynced", "Committed", "Aborted"}
Outcomes == {"none", "pending", "declined", "cancelled", "failed", "committed"}
Kinds == {"offer", "status", "cancelled"}

Parked == [kind |-> "parked", live |-> FALSE]

(* ---- the origin's appends, each one transaction ---- *)

\* SyncLog: refused unless offered; every caller ignores the refusal.
SyncLog(o) == IF o.phase = "Offered" THEN [o EXCEPT !.phase = "LogSynced"] ELSE o

\* commit_handoff_and_rebind: the phase and both Home bindings in one transaction.
CommitHandoff(o) == IF o.phase = "LogSynced" THEN [o EXCEPT !.phase = "Committed"] ELSE o

\* abort_handoff: refused unless in flight.
AbortHandoff(o) ==
  IF o.phase \in {"Offered", "LogSynced"} THEN [o EXCEPT !.phase = "Aborted"] ELSE o

\* record_outgoing_handoff("resolved").
Resolved(o) == [o EXCEPT !.out = "resolved"]

\* An append that follows only when the step before it changed the phase.
IfChanged(o, p, q) == IF o = p THEN p ELSE q

\* What a handler that learns the peer committed appends, in order: the
\* relocate call resolves its outgoing record first, ...
RelocateReleases(o) ==
  LET r == Resolved(o) IN <<r, SyncLog(r), CommitHandoff(SyncLog(r))>>

\* ... the Committed push and the reconcile resolve it last, if they committed.
Releases(o) ==
  LET s == SyncLog(o)
      c == CommitHandoff(s)
  IN <<s, c, IfChanged(s, c, Resolved(c))>>

\* The relocate call that was refused resolves, then aborts.
RelocateAborts(o) == <<Resolved(o), AbortHandoff(Resolved(o))>>

\* A Declined push and a confirmed cancellation abort, then resolve.
Aborts(o) ==
  LET a == AbortHandoff(o) IN <<a, IfChanged(o, a, Resolved(a))>>

\* The reconcile that finds the offer did not stand: the abort's result is ignored.
CancelsOffer(o) == LET a == AbortHandoff(o) IN <<a, Resolved(a)>>

\* Everything of the origin's process that does not survive it.
OriginForgets ==
  /\ relocate' = "idle" /\ sending' = FALSE /\ sweep' = "idle" /\ cancel' = "idle"
  /\ leg' = [l \in Legs |-> [leg[l] EXCEPT !.live = FALSE]]

\* A handler runs its appends; a torn one crashes after the first few of them.
Completes(path) == origin' = path[Len(path)]
Tears(path) ==
  /\ Torn /\ faults < MaxFaults /\ faults' = faults + 1
  /\ \E n \in 1..(Len(path) - 1) : origin' = path[n]
  /\ OriginForgets

(* ---- initial state ---- *)

Init ==
  /\ origin = [phase |-> "Draft", out |-> "none"]
  /\ relocate = "idle" /\ sending = FALSE /\ sweep = "idle" /\ cancel = "idle"
  /\ inc = "none" /\ held = FALSE /\ preauth \in BOOLEAN
  /\ leg = [l \in Legs |-> Parked]
  /\ pushes = {}
  /\ faults = 0

(* ---- the origin's relocate call: drive_relocate ---- *)

\* Mark the offer in flight, then the offer and its outgoing record together.
CaptureOffer ==
  /\ relocate = "idle" /\ origin.phase = "Draft"
  /\ relocate' = "captured" /\ sending' = TRUE
  /\ origin' = [phase |-> "Offered", out |-> "open"]
  /\ UNCHANGED <<sweep, cancel, faults>> /\ UNCHANGED targetVars

\* A second call marks the same pair, is refused by the reducer and drops its
\* mark, which removes the pair from the set.
RelocateAgain ==
  /\ Again /\ relocate \in {"captured", "waiting"} /\ origin.phase # "Draft"
  /\ sending' = FALSE
  /\ UNCHANGED <<origin, relocate, sweep, cancel, faults>> /\ UNCHANGED targetVars

\* send_handoff: a frame takes one parked leg.
Send(kind) ==
  \E l \in Legs :
    /\ leg[l].kind = "parked"
    /\ leg' = [leg EXCEPT ![l] = [kind |-> kind, live |-> TRUE]]

SendOffer ==
  /\ relocate = "captured"
  /\ Send("offer")
  /\ relocate' = "waiting"
  /\ UNCHANGED <<origin, sending, sweep, cancel, inc, held, preauth, pushes, faults>>

\* The end of the call drops its in-flight mark, whatever the answer was.
RelocateEnds == relocate' = "idle" /\ sending' = FALSE

\* Mutant: a peer that only keeps the offer is taken to have committed it.
RelocateCommitted_Pending ==
  /\ relocate \in {"committed", "pending"}
  /\ \/ Completes(RelocateReleases(origin)) /\ RelocateEnds
        /\ UNCHANGED <<sweep, cancel, leg, faults>>
     \/ Tears(RelocateReleases(origin))
  /\ UNCHANGED <<inc, held, preauth, pushes>>

RelocateCommitted ==
  /\ relocate = "committed"
  /\ \/ Completes(RelocateReleases(origin)) /\ RelocateEnds
        /\ UNCHANGED <<sweep, cancel, leg, faults>>
     \/ Tears(RelocateReleases(origin))
  /\ UNCHANGED <<inc, held, preauth, pushes>>

RelocateRefused ==
  /\ relocate \in {"refused", "broke"}
  /\ \/ Completes(RelocateAborts(origin)) /\ RelocateEnds
        /\ UNCHANGED <<sweep, cancel, leg, faults>>
     \/ Tears(RelocateAborts(origin))
  /\ UNCHANGED <<inc, held, preauth, pushes>>

\* A pending offer stays offered; a transport failure appends "in_doubt",
\* which both folds of the outgoing record read as the open offer.
RelocateWaits ==
  /\ relocate \in {"pending", "lost"}
  /\ origin' = IF relocate = "lost" THEN [origin EXCEPT !.out = "open"] ELSE origin
  /\ RelocateEnds
  /\ UNCHANGED <<sweep, cancel, faults>> /\ UNCHANGED targetVars

(* ---- the target: admit_handoff ---- *)

\* The answer reaches the call that waits for it, if its connection still stands.
Answers(l, call, answer) == IF leg[l].live THEN answer ELSE call
Frees(l) == leg' = [leg EXCEPT ![l] = Parked]

\* verify_handoff refuses, or the pending offer could not be retained.
RefuseOffer(l) ==
  /\ leg[l].kind = "offer"
  /\ \E verdict \in {"refused", "broke"} : relocate' = Answers(l, relocate, verdict)
  /\ Frees(l)
  /\ UNCHANGED <<origin, sending, sweep, cancel, inc, held, preauth, pushes, faults>>

\* Consent given up front: the receiving commit succeeds ...
AdmitOffer(l) ==
  /\ leg[l].kind = "offer" /\ preauth
  /\ held' = TRUE /\ inc' = "committed"
  /\ relocate' = Answers(l, relocate, "committed")
  /\ Frees(l)
  /\ UNCHANGED <<origin, sending, sweep, cancel, preauth, pushes, faults>>

\* ... or fails, and the failure is the outcome the origin may ask for.
FailOffer(l) ==
  /\ leg[l].kind = "offer" /\ preauth /\ ~held
  /\ inc' = "failed"
  /\ \E verdict \in {"refused", "broke"} : relocate' = Answers(l, relocate, verdict)
  /\ Frees(l)
  /\ UNCHANGED <<origin, sending, sweep, cancel, held, preauth, pushes, faults>>

\* No consent yet: the offer waits with its bytes.
RetainOffer(l) ==
  /\ leg[l].kind = "offer" /\ ~preauth
  /\ inc' = "pending"
  /\ relocate' = Answers(l, relocate, "pending")
  /\ Frees(l)
  /\ UNCHANGED <<origin, sending, sweep, cancel, held, preauth, pushes, faults>>

\* Whether this Home has the project, else what became of the offer here.
StatusVerdict == IF held THEN "holds" ELSE inc

AnswerStatus(l) ==
  /\ leg[l].kind = "status"
  /\ sweep' = IF leg[l].live THEN StatusVerdict ELSE sweep
  /\ Frees(l)
  /\ UNCHANGED <<origin, relocate, sending, cancel, inc, held, preauth, pushes, faults>>

AnswerCancelled(l) ==
  /\ leg[l].kind = "cancelled"
  /\ inc' = IF inc = "pending" THEN "cancelled" ELSE inc
  /\ cancel' = Answers(l, cancel, IF inc = "pending" THEN "yes" ELSE "no")
  /\ Frees(l)
  /\ UNCHANGED <<origin, relocate, sending, sweep, held, preauth, pushes, faults>>

\* The person at the target accepts or declines, and the origin is told once.
Accept ==
  /\ inc = "pending" /\ ~held
  /\ inc' = "committed" /\ held' = TRUE
  /\ pushes' = pushes \union {"committed"}
  /\ UNCHANGED originVars /\ UNCHANGED <<preauth, leg, faults>>

Decline ==
  /\ inc = "pending"
  /\ inc' = "declined"
  /\ pushes' = pushes \union {"declined"}
  /\ UNCHANGED originVars /\ UNCHANGED <<held, preauth, leg, faults>>

SetPreauth ==
  /\ preauth' = ~preauth
  /\ UNCHANGED originVars /\ UNCHANGED <<inc, held, leg, pushes, faults>>

(* ---- the origin's receiver loop: pushes and the reconcile ---- *)

ReceiveCommitted ==
  /\ "committed" \in pushes /\ sweep = "idle"
  /\ pushes' = pushes \ {"committed"}
  /\ \/ Completes(Releases(origin)) /\ UNCHANGED <<relocate, sending, sweep, cancel, leg, faults>>
     \/ Tears(Releases(origin))
  /\ UNCHANGED <<inc, held, preauth>>

ReceiveDeclined ==
  /\ "declined" \in pushes /\ sweep = "idle"
  /\ pushes' = pushes \ {"declined"}
  /\ \/ Completes(Aborts(origin)) /\ UNCHANGED <<relocate, sending, sweep, cancel, leg, faults>>
     \/ Tears(Aborts(origin))
  /\ UNCHANGED <<inc, held, preauth>>

\* The questions: every open outgoing offer this process is not sending.
Questioned == origin.out = "open" /\ ~sending

AskStatus ==
  /\ sweep = "idle" /\ Questioned
  /\ Send("status")
  /\ sweep' = "waiting"
  /\ UNCHANGED <<origin, relocate, sending, cancel, inc, held, preauth, pushes, faults>>

\* Mutants: an undecided offer reads as a no; a positive answer is not acted on.
ResolveFromStatus_Undecided(v) ==
  IF v = "holds" THEN "release" ELSE IF v = "committed" THEN "unsettled" ELSE "cancel"
ResolveFromStatus_NoRelease(v) ==
  IF v \in {"none", "declined", "cancelled", "failed"} THEN "cancel" ELSE "unsettled"

\* resolve_from_status: the two answers that settle it, and every other.
ResolveFromStatus(v) ==
  CASE v = "holds" -> "release"
    [] v \in {"none", "declined", "cancelled", "failed"} -> "cancel"
    [] OTHER -> "unsettled"

SweepHeard == sweep \notin {"idle", "waiting", "lost"}

SweepReleases ==
  /\ SweepHeard /\ ResolveFromStatus(sweep) = "release"
  /\ \/ Completes(Releases(origin)) /\ sweep' = "idle"
        /\ UNCHANGED <<relocate, sending, cancel, leg, faults>>
     \/ Tears(Releases(origin))
  /\ UNCHANGED <<inc, held, preauth, pushes>>

SweepCancels ==
  /\ SweepHeard /\ ResolveFromStatus(sweep) = "cancel"
  /\ \/ Completes(CancelsOffer(origin)) /\ sweep' = "idle"
        /\ UNCHANGED <<relocate, sending, cancel, leg, faults>>
     \/ Tears(CancelsOffer(origin))
  /\ UNCHANGED <<inc, held, preauth, pushes>>

\* An answer that does not settle it, and no answer, leave it in doubt.
SweepLeaves ==
  /\ \/ sweep = "lost"
     \/ SweepHeard /\ ResolveFromStatus(sweep) = "unsettled"
  /\ sweep' = "idle"
  /\ UNCHANGED <<origin, relocate, sending, cancel, faults>> /\ UNCHANGED targetVars

(* ---- the abort route: post_handoff_abort ---- *)

\* No open outgoing record: the abort is local.
AbortLocally ==
  /\ cancel = "idle" /\ origin.out # "open"
  /\ AbortHandoff(origin) # origin
  /\ origin' = AbortHandoff(origin)
  /\ UNCHANGED <<relocate, sending, sweep, cancel, faults>> /\ UNCHANGED targetVars

\* Otherwise the target must first give the pending offer up.
AskCancel ==
  /\ cancel = "idle" /\ origin.out = "open"
  /\ Send("cancelled")
  /\ cancel' = "waiting"
  /\ UNCHANGED <<origin, relocate, sending, sweep, inc, held, preauth, pushes, faults>>

CancelConfirmed ==
  /\ cancel = "yes"
  /\ \/ Completes(Aborts(origin)) /\ cancel' = "idle"
        /\ UNCHANGED <<relocate, sending, sweep, leg, faults>>
     \/ Tears(Aborts(origin))
  /\ UNCHANGED <<inc, held, preauth, pushes>>

CancelRefused ==
  /\ cancel \in {"no", "lost"}
  /\ cancel' = "idle"
  /\ UNCHANGED <<origin, relocate, sending, sweep, faults>> /\ UNCHANGED targetVars

(* ---- faults ---- *)

\* What a caller whose connection through leg l breaks sees.
CallsLost(L) ==
  LET lost(kind) == \E l \in L : leg[l].live /\ leg[l].kind = kind IN
  /\ relocate' = IF lost("offer") THEN "lost" ELSE relocate
  /\ sweep' = IF lost("status") THEN "lost" ELSE sweep
  /\ cancel' = IF lost("cancelled") THEN "lost" ELSE cancel

Fault == faults < MaxFaults /\ faults' = faults + 1

\* The frame is lost with the connection, or has already reached the target.
LoseFrame(l) ==
  /\ Fault /\ leg[l].kind # "parked"
  /\ CallsLost({l})
  /\ Frees(l)
  /\ UNCHANGED <<origin, sending, inc, held, preauth, pushes>>

LoseAnswer(l) ==
  /\ Fault /\ leg[l].live
  /\ CallsLost({l})
  /\ leg' = [leg EXCEPT ![l].live = FALSE]
  /\ UNCHANGED <<origin, sending, inc, held, preauth, pushes>>

\* The offer could not be sent at all.
SendFails ==
  /\ Fault /\ relocate = "captured"
  /\ relocate' = "lost"
  /\ UNCHANGED <<origin, sending, sweep, cancel>> /\ UNCHANGED targetVars

LosePush ==
  /\ Fault
  /\ \E p \in pushes : pushes' = pushes \ {p}
  /\ UNCHANGED originVars /\ UNCHANGED <<inc, held, preauth, leg>>

OriginCrashes ==
  /\ Fault
  /\ OriginForgets
  /\ UNCHANGED <<origin, inc, held, preauth, pushes>>

TargetCrashes ==
  /\ Fault
  /\ CallsLost(Legs)
  /\ leg' = [l \in Legs |-> Parked] /\ pushes' = {}
  /\ UNCHANGED <<origin, sending, inc, held, preauth>>

Receive(l) ==
  \/ RefuseOffer(l) \/ AdmitOffer(l) \/ FailOffer(l) \/ RetainOffer(l)
  \/ AnswerStatus(l) \/ AnswerCancelled(l)

RelocateAnswered == RelocateCommitted \/ RelocateRefused \/ RelocateWaits
SweepAnswered == SweepReleases \/ SweepCancels \/ SweepLeaves

Next ==
  \/ CaptureOffer \/ RelocateAgain \/ SendOffer \/ RelocateAnswered
  \/ Accept \/ Decline \/ SetPreauth
  \/ ReceiveCommitted \/ ReceiveDeclined
  \/ AskStatus \/ SweepAnswered
  \/ AbortLocally \/ AskCancel \/ CancelConfirmed \/ CancelRefused
  \/ SendFails \/ LosePush \/ OriginCrashes \/ TargetCrashes
  \/ \E l \in Legs : Receive(l) \/ LoseFrame(l) \/ LoseAnswer(l)

Spec == Init /\ [][Next]_vars

(* The receiver loops run for as long as the pairing stands and reconcile  *)
(* on every round; a parked leg is retaken by later frames, so asking is   *)
(* strongly fair.  The offer's own call runs to its end.  People need not  *)
(* act, and faults need not happen.                                        *)
Fairness ==
  /\ WF_vars(SendOffer) /\ WF_vars(RelocateAnswered)
  /\ WF_vars(CancelConfirmed) /\ WF_vars(CancelRefused)
  /\ SF_vars(AskStatus) /\ WF_vars(SweepAnswered)
  /\ \A l \in Legs : WF_vars(Receive(l))

FairSpec == Spec /\ Fairness

(* ---- properties ---- *)

\* Every variable has its type.
TypeOK ==
  /\ origin \in [phase : Phases, out : {"none", "open", "resolved"}]
  /\ relocate \in {"idle", "captured", "waiting", "committed", "pending", "refused",
                   "broke", "lost"}
  /\ sending \in BOOLEAN
  /\ sweep \in {"idle", "waiting", "lost", "holds"} \union Outcomes
  /\ cancel \in {"idle", "waiting", "yes", "no", "lost"}
  /\ inc \in Outcomes /\ held \in BOOLEAN /\ preauth \in BOOLEAN
  /\ leg \in [Legs -> [kind : Kinds \union {"parked"}, live : BOOLEAN]]
  /\ pushes \subseteq {"committed", "declined"}
  /\ faults \in 0..MaxFaults

\* A rolled-back relocation and a target that holds the project never meet:
\* "so a stale consent cannot later promote the target after the origin has
\* rolled back" (post_handoff_abort), whatever was lost on the way.
NoSplitHome == ~(origin.phase = "Aborted" /\ held)

\* The origin gives the project up only to a target that holds it, so the
\* project always has a Home (EXACTLY_ONE_HOME's "never zero").
ReleasedHeld == origin.phase = "Committed" => held

\* While the target holds the project and the origin has not released it, the
\* question is still on record, so the reconcile will ask (drive_relocate).
QuestionKept == held /\ origin.phase # "Committed" => origin.out = "open"

\* The reconcile never asks about an offer whose own call has not sent it yet
\* (OfferInFlight).
Uninspected == relocate = "captured" => sweep = "idle"

\* Whatever is lost or crashes, a project that was rolled back is not held,
\* and one that is held will be asked for (drive_relocate, the reconcile).
OneHome == TypeOK /\ NoSplitHome /\ QuestionKept /\ Uninspected

\* The origin releases every project its target holds, although the notice
\* of it may be lost: the reconcile asks until it hears.
ReleaseFollows == held ~> origin.phase = "Committed"

\* A relocation the target turned down, or gave up, is rolled back.
RefusalFollows == inc \in {"declined", "cancelled", "failed"} ~> origin.phase = "Aborted"

\* The origin follows what the target decided (resolve_handoffs_in_doubt).
Follows == ReleaseFollows /\ RefusalFollows

\* The relocation is one decision: moved and then released, or kept.
Move == INSTANCE AtomicMove WITH
  decision <- IF held THEN "moved" ELSE IF origin.phase = "Aborted" THEN "kept" ELSE "open",
  released <- origin.phase = "Committed"

Decided == Move!Spec
=============================================================================
