--------------------------- MODULE ReviewLifecycle ---------------------------
(***************************************************************************)
(* The output review reducer (crates/core/src/review.rs): `decide` and     *)
(* `evolve`, both pure.  An authority is an element of Authorities.        *)
(***************************************************************************)
EXTENDS Naturals, Sequences

CONSTANT Authorities

ReviewPhase == {"Init", "Proposed", "Cleared", "Released", "Withheld"}
ReviewState == [phase : ReviewPhase, required : SUBSET Authorities,
                consented : SUBSET Authorities]
ReviewDefault == [phase |-> "Init", required |-> {}, consented |-> {}]

ReviewCommand ==
  [op : {"Propose"}, required : SUBSET Authorities]
    \cup [op : {"Consent", "Reject", "Revoke"}, by : Authorities]
    \cup [op : {"Release", "Cancel"}]

Accept(events) == [ok |-> TRUE, events |-> events]
Reject == [ok |-> FALSE, events |-> <<>>]
When(cond, events) == IF cond THEN Accept(events) ELSE Reject

Reviewable(st) == st.phase \in {"Proposed", "Cleared"}

DecideConsent(st, a) ==
  LET after == st.consented \cup {a}
  IN When(st.phase = "Proposed" /\ a \in st.required /\ a \notin st.consented,
          <<[ev |-> "Consented", by |-> a]>>
            \o IF after = st.required THEN <<[ev |-> "Cleared"]>> ELSE <<>>)

ReviewDecide(st, c) ==
  CASE c.op = "Propose" -> When(st.phase = "Init",
                                <<[ev |-> "Proposed", required |-> c.required]>>)
    [] c.op = "Consent" -> DecideConsent(st, c.by)
    [] c.op = "Reject"  -> When(Reviewable(st) /\ c.by \in st.required,
                                <<[ev |-> "Rejected"]>>)
    [] c.op = "Revoke"  -> When(Reviewable(st) /\ c.by \in st.consented,
                                <<[ev |-> "ConsentRevoked", by |-> c.by]>>)
    [] c.op = "Release" -> When(st.phase = "Cleared", <<[ev |-> "Released"]>>)
    [] c.op = "Cancel"  -> When(Reviewable(st), <<[ev |-> "Withheld"]>>)

(* Mutant: a withdrawn consent leaves the proposal cleared. *)
RevokeConsent_StaysCleared(st, a) == [st EXCEPT !.consented = @ \ {a}]

(* A withdrawn consent reopens the proposal. *)
RevokeConsent(st, a) == [st EXCEPT !.consented = @ \ {a}, !.phase = "Proposed"]

ReviewEvolve(st, e) ==
  CASE e.ev = "Proposed"  -> [phase |-> "Proposed", required |-> e.required,
                              consented |-> {}]
    [] e.ev = "Consented" -> [st EXCEPT !.consented = @ \cup {e.by}]
    [] e.ev = "Cleared"   -> [st EXCEPT !.phase = "Cleared"]
    [] e.ev = "ConsentRevoked" -> RevokeConsent(st, e.by)
    [] e.ev = "Released"  -> [st EXCEPT !.phase = "Released"]
    [] e.ev \in {"Rejected", "Withheld"} -> [st EXCEPT !.phase = "Withheld"]

(* The decision with every event replaced by the state it evolves to, the  *)
(* way the append loop of the store folds `new_state`.                     *)
ReviewOutcome(st, c) ==
  LET d == ReviewDecide(st, c)
      s[i \in 0..Len(d.events)] ==
        IF i = 0 THEN st ELSE ReviewEvolve(s[i - 1], d.events[i])
  IN [ok |-> d.ok, events |-> [i \in 1..Len(d.events) |-> s[i]]]
=============================================================================
