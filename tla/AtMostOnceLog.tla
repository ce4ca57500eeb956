---------------------------- MODULE AtMostOnceLog ----------------------------
(***************************************************************************)
(* What the store promises a caller of its keyed admissions (`INV-6`,      *)
(* `INV-19`): a per-scope log that only grows, in which every              *)
(* (scope, key) identity has at most one batch.  A machine that loses      *)
(* power may fall back to the last state it made safe, log and applied     *)
(* identities together, never to one without the other.                    *)
(***************************************************************************)
EXTENDS Naturals, Sequences

CONSTANTS
  Scopes,     \* scope ids
  Ids,        \* (scope, key) pairs: one caller command each
  LState      \* lifecycle states; an event is the state it evolves to

VARIABLES
  history,    \* history[s]: the admitted events of scope s, oldest first
  applied,    \* identities whose batch has been admitted
  safe        \* the state a power loss returns to

vars == <<history, applied, safe>>

Now == [history |-> history, applied |-> applied]

Init ==
  /\ history = [s \in Scopes |-> <<>>]
  /\ applied = {}
  /\ safe = Now

(* Only scope s grows, and only at its end. *)
Grow(s) ==
  /\ history' \in [Scopes -> Seq(LState)]
  /\ \A t \in Scopes \ {s} : history'[t] = history[t]
  /\ Len(history[s]) <= Len(history'[s])
  /\ \A i \in 1..Len(history[s]) : history'[s][i] = history[s][i]

(* A keyed command takes effect: once, at the end of its scope's log. *)
Apply(id) ==
  /\ id \notin applied
  /\ Grow(id[1])
  /\ applied' = applied \cup {id}

(* A command without a key takes effect. *)
Extend(s) ==
  /\ Grow(s)
  /\ UNCHANGED applied

Lose ==
  /\ history' = safe.history
  /\ applied' = safe.applied
  /\ UNCHANGED safe

Harden ==
  /\ safe' = Now
  /\ UNCHANGED <<history, applied>>

Next ==
  \/ /\ \/ \E id \in Ids : Apply(id)
        \/ \E s \in Scopes : Extend(s)
     /\ safe' \in {safe, Now'}
  \/ Lose
  \/ Harden

Spec == Init /\ [][Next]_vars
=============================================================================
