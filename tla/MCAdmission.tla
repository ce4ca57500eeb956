----------------------------- MODULE MCAdmission -----------------------------
(***************************************************************************)
(* Admission over the review lifecycle, whose consent emits two events     *)
(* when it completes the required set.                                     *)
(***************************************************************************)
EXTENDS Admission, ReviewLifecycle, TLC

CONSTANT Ops     \* the kinds of review commands callers send

MCCommands == {c \in ReviewCommand :
                 c.op \in Ops /\ (c.op = "Propose" => c.required = Authorities)}
Symmetry == Permutations(Workers) \cup Permutations(Keys)
MCLState == ReviewState
MCL0 == ReviewDefault
MCDecide == [x \in ReviewState \X MCCommands |-> ReviewOutcome(x[1], x[2])]

(* The lifecycle admitted is the review lifecycle, whichever of its        *)
(* commands callers send.                                                  *)
ASSUME ReviewAssumption ==
  /\ LState = ReviewState /\ L0 = ReviewDefault
  /\ Commands \subseteq ReviewCommand
  /\ \A st \in ReviewState, c \in Commands : Decide[<<st, c>>] = ReviewOutcome(st, c)

(* SAFE_RELEASE (INV-16) of review.rs, through the store: an output is     *)
(* released only in the state the consents cleared, with every required    *)
(* consent standing, however the commands raced or were retried.           *)
SafeRelease ==
  \A s \in Scopes : \A i \in 1..Len(log[s]) :
    log[s][i].state.phase = "Released" =>
      /\ log[s][i].state.required = log[s][i].state.consented
      /\ i > 1 /\ log[s][i - 1].state.phase = "Cleared"
=============================================================================
