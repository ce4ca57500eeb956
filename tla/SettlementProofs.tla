-------------------------- MODULE SettlementProofs --------------------------
(***************************************************************************)
(* Proofs about TargetSettlement, for any declarations, members, targets   *)
(* and bounds, as long as requests come from the panel's buttons.          *)
(*                                                                         *)
(* What SettlementSafe says is not inductive. A receipt is true because    *)
(* the operation that carries it still knows what it saw (OpInv), because  *)
(* a member stands in its target's history at most once and after the      *)
(* revision it expected (MainInv), and because an attempt whose outcome    *)
(* reached one scope and not the other keeps the head of its lane, so no   *)
(* later attempt can start beside it (KeyInv).                             *)
(***************************************************************************)
EXTENDS TargetSettlement, FiniteSetTheorems, SequenceTheorems, WellFoundedInduction, TLAPS

Outcomes ==
  {None} \cup ({"failed"} \X {"basis", "conflict", "query"}) \cup ({"succeeded"} \X Nat)
MemberRecords ==
  [phase : MemberPhases, attempts : Nat, seq : Nat, receipt : Outcomes, queried : SUBSET Nat]
LaneEntries ==
  [m : Members, attempt : Nat, seq : Nat, phase : {"queued", "granted", "unknown"}]
LaneRecords == [queue : Seq(LaneEntries), resolved : SUBSET (Members \X Nat), last : Nat]
SettlementStates ==
  [co : [Decls -> [phase : Phases, started : Nat]],
   mem : [Members -> MemberRecords], lane : [Targets -> LaneRecords]]

\* An operation, with what it carries at each step.
Asking == {"grant", "start", "enqueue", "grant-retry", "retry"}
Acting == {"record", "receipt", "unknown"}
Preflights == [kind : {"preflight"}, d : Decls, i : Nat, step : {"preflight"}]
Attempts ==
  [kind : {"member"}, m : Members, attempt : Nat, step : Asking \cup {"effect"}]
Effected ==
  [kind : {"member"}, m : Members, attempt : Nat,
   step : Acting \cup {"resolve", "lane-unknown"}, receipt : Outcomes]
Queries == [kind : {"query"}, m : Members, step : {"request", "observe"}]
Answered ==
  [kind : {"query"}, m : Members, step : {"receipt", "reconcile"}, receipt : Outcomes]
Cancels == [kind : {"cancel"}, d : Decls, step : {"lanes"}]
Supersedes == [kind : {"supersede"}, n : Members, m : Members, step : {"lane", "coordinator"}]
Operations ==
  {SettlementIdle} \cup Preflights \cup Attempts \cup Effected \cup Queries \cup Answered
    \cup Cancels \cup Supersedes

SettlementTypes ==
  /\ st \in SettlementStates
  /\ \A k \in DOMAIN keys : keys[k].status \in {"processing", "applied", "rejected"}
  /\ expected \in [Members -> Nat] /\ known \in [Targets -> Nat]
  /\ main \in [Targets -> Seq(Members \cup {None})]
  /\ targetEdits \in Nat /\ crashes \in Nat
  /\ op \in Operations

\* Phases a declaration is in before its members may start, or for good.
Early == {"undeclared", "declared", "preflighting", "refused", "cancelled"}

\* Member m waits in its lane for the grant of its first attempt.
Waits(m) ==
  \E i \in DOMAIN Lane(m).queue :
    /\ Lane(m).queue[i].m = m /\ Lane(m).queue[i].attempt = 1
    /\ Lane(m).queue[i].phase = "queued"

\* What a declaration's phase says of its members.
DeclOK(d) ==
  /\ st.co[d].phase \in Early \cup {"ready"} => st.co[d].started = 0
  /\ st.co[d].started = 0 =>
       \A m \in Own(d) : Phase(m) \in {"pending", "passed", "superseded"}
  /\ st.co[d].phase \notin Early => \A m \in Own(d) : Phase(m) # "pending"
  /\ st.co[d].phase = "undeclared" => \A m \in Own(d) : Phase(m) = "pending"
  /\ st.co[d].phase = "completed" => \A m \in Own(d) : Phase(m) = "succeeded"
  /\ st.co[d].phase \in Early => \A m \in Own(d) : Phase(m) \in {"pending", "passed"} => ~Waits(m)
  /\ Fresh(<<"declare", d>>) => st.co[d].phase = "undeclared"
DeclInv == \A d \in Decls : DeclOK(d)

\* A lane holds an attempt once; only its head is granted.
LaneOK(q, mem) ==
  /\ \A i, j \in DOMAIN q : q[i].m = q[j].m /\ q[i].attempt = q[j].attempt => i = j
  /\ \A i \in DOMAIN q :
       /\ q[i].phase # "queued" => i = 1
       /\ q[i].phase = "queued" => q[i].seq = 0
       /\ q[i].phase = "unknown" => q[i].attempt <= mem[q[i].m].attempts
LaneInv == \A t \in Targets : LaneOK(st.lane[t].queue, st.mem)

\* Member m's current attempt heads its lane in one of these phases.
Heads(m, phases) ==
  /\ Lane(m).queue # <<>>
  /\ Lane(m).queue[1].m = m
  /\ Lane(m).queue[1].attempt = st.mem[m].attempts
  /\ Lane(m).queue[1].phase \in phases
Held == {"granted", "unknown"}

FlightOf(m) ==
  /\ Phase(m) = "started" => Heads(m, {"granted"})
  /\ Phase(m) = "unknown" => Heads(m, Held)
FlightInv == \A m \in Members : FlightOf(m)

Settled(m) == Phase(m) \in {"failed", "succeeded"}
Applied(k) == k \in DOMAIN keys /\ keys[k].status = "applied"

\* An outcome recorded with the coordinator whose lane was never told.
OwedResolve(m, r) == Applied(<<"receipt", m, r>>) /\ Fresh(<<"resolve", m, r>>)
OwedReconcile(m, r) == Applied(<<"query-receipt", m, r>>) /\ Fresh(<<"reconcile", m, r>>)
OwedUnknown(m) == Applied(<<"unknown", m>>) /\ Fresh(<<"lane-unknown", m>>)

\* A step that was interrupted between the two scopes leaves the attempt at the
\* head of its lane for good, so no later attempt can start.
GrantInv(m) ==
  /\ <<"grant", m>> \in DOMAIN keys => keys[<<"grant", m>>].cmd \in Nat
  /\ Applied(<<"start", m>>) =>
       <<"grant", m>> \in DOMAIN keys /\ keys[<<"grant", m>>].cmd <= st.mem[m].attempts
  /\ \A a \in Nat : Applied(<<"retry", m, a>>) => a <= st.mem[m].attempts
OwedInv(m) ==
  /\ \A r \in Outcomes : OwedResolve(m, r) \/ OwedReconcile(m, r) => Settled(m) /\ Heads(m, Held)
  /\ OwedUnknown(m) => (Settled(m) \/ Phase(m) = "unknown") /\ Heads(m, {"granted"})
KeyInv == \A m \in Members : GrantInv(m) /\ OwedInv(m)

InMain(m, i) == i \in DOMAIN main[TargetOf[m]] /\ main[TargetOf[m]][i] = m
Absent(m) == \A i \in DOMAIN main[TargetOf[m]] : main[TargetOf[m]][i] # m

\* Receipt r says what happened in m's target.
Truthful(m, r) ==
  /\ r # None /\ r[1] = "failed" => Absent(m)
  /\ r # None /\ r[1] = "succeeded" /\ m \notin Proposals => InMain(m, r[2])

MainInv ==
  \A m \in Members :
    /\ \A i \in Nat : InMain(m, i) => expected[m] < i /\ \A j \in Nat : InMain(m, j) => i = j
    /\ Phase(m) \notin {"started", "unknown", "succeeded"} => Absent(m)
    /\ m \notin Proposals /\ Phase(m) = "succeeded" =>
         st.mem[m].receipt # None /\ InMain(m, st.mem[m].receipt[2])

\* A repair of member m of declaration d.
RepairedBy(d, m) ==
  \E n \in Members \ Own(d) : \E i, j \in Nat :
    TargetOf[n] = TargetOf[m] /\ InMain(m, i) /\ InMain(n, j) /\ i < j /\ expected[n] = i

\* A compensated declaration's changes are repaired.
RepairInv ==
  \A d \in Decls : st.co[d].phase = "compensated" =>
    \A m \in Own(d) \ Proposals : Phase(m) = "succeeded" => RepairedBy(d, m)

\* What an operation under way has seen, which no other may have changed.
OpInv ==
  /\ op.kind = "preflight" => op.i \in 1..Len(MembersOf[op.d])
  /\ op.kind = "member" =>
       /\ op.step \in Asking => op.attempt = st.mem[op.m].attempts + 1
       /\ op.step = "start" =>
            <<"grant", op.m>> \in DOMAIN keys /\ keys[<<"grant", op.m>>].cmd = op.attempt
       /\ op.step = "enqueue" => Phase(op.m) = "failed"
       /\ op.step \in Acting \cup {"effect"} => Phase(op.m) = "started"
       /\ op.step = "effect" => Absent(op.m)
       /\ op.step = "record" => op.receipt # None /\ op.receipt[1] = "succeeded"
       /\ op.step = "receipt" => op.receipt # None
       /\ op.step \in {"record", "receipt"} => Truthful(op.m, op.receipt)
       /\ op.step = "resolve" =>
            /\ op.receipt # None
            /\ Settled(op.m) \/ ~Fresh(<<"resolve", op.m, op.receipt>>)
            /\ ~OwedUnknown(op.m)
            /\ \A r \in Outcomes : ~OwedReconcile(op.m, r)
                                /\ (OwedResolve(op.m, r) => r = op.receipt)
       /\ op.step = "lane-unknown" =>
            Phase(op.m) = "unknown" \/ ~Fresh(<<"lane-unknown", op.m>>)
  /\ op.kind = "query" =>
       /\ op.step # "reconcile" => ~Settled(op.m)
       /\ op.step = "receipt" => op.receipt # None /\ Truthful(op.m, op.receipt)
       /\ op.step = "reconcile" =>
            /\ Settled(op.m) \/ ~Fresh(<<"reconcile", op.m, op.receipt>>)
            /\ \A r \in Outcomes : ~OwedResolve(op.m, r)
                                /\ (OwedReconcile(op.m, r) => r = op.receipt)
  /\ op.kind = "supersede" => st.co[DeclOf(op.n)].phase \notin Early

CoreInv == DeclInv /\ LaneInv /\ FlightInv /\ KeyInv /\ MainInv /\ RepairInv
SettlementInv == SettlementTypes /\ CoreInv /\ OpInv

\* A declaration that is complete, refused or cancelled keeps its phase.
StaysClosed ==
  \A d \in Decls : st.co[d].phase \in {"completed", "refused", "cancelled"} =>
                    st'.co[d].phase = st.co[d].phase

\* A member belongs to one declaration.
LEMMA MembersOwned ==
  /\ \A d \in Decls : Own(d) \subseteq Members
  /\ \A m \in Members : DeclOf(m) \in Decls /\ m \in Own(DeclOf(m)) /\ TargetOf[m] \in Targets
  /\ \A d \in Decls : \A m \in Own(d) : DeclOf(m) = d
<1>1. \A d \in Decls : Own(d) \subseteq Members
  BY DEF Own, Members
<1>2. ASSUME NEW m \in Members PROVE DeclOf(m) \in Decls /\ m \in Own(DeclOf(m))
  <2>1. \E d \in Decls : m \in Range(MembersOf[d])
    BY DEF Members
  <2> QED
    BY <2>1, Zenon DEF DeclOf, Own
<1>3. ASSUME NEW d \in Decls, NEW m \in Own(d) PROVE DeclOf(m) = d
  <2>1. DeclOf(m) \in Decls /\ m \in Own(DeclOf(m))
    BY <1>1, <1>2
  <2> HIDE DEF DeclOf
  <2> QED
    BY <2>1, SettlementAssumption DEF SettlementAssumption, Own
<1>4. \A m \in Members : TargetOf[m] \in Targets
  BY SettlementAssumption DEF SettlementAssumption
<1> QED
  BY <1>1, <1>2, <1>3, <1>4

\* The pieces of a state.
LEMMA StateParts ==
  ASSUME st \in SettlementStates
  PROVE  /\ st.co \in [Decls -> [phase : Phases, started : Nat]]
         /\ st.mem \in [Members -> MemberRecords]
         /\ st.lane \in [Targets -> LaneRecords]
BY DEF SettlementStates

\* A recorded phase of a declaration changes nothing else.
LEMMA SetPhaseFields ==
  ASSUME NEW s \in SettlementStates, NEW d \in Decls, NEW p \in Phases
  PROVE  /\ SetPhase(s, d, p) \in SettlementStates
         /\ SetPhase(s, d, p).co =
              [s.co EXCEPT ![d] = [phase |-> p, started |-> s.co[d].started]]
         /\ SetPhase(s, d, p).mem = s.mem
         /\ SetPhase(s, d, p).lane = s.lane
<1>1. s.co \in [Decls -> [phase : Phases, started : Nat]]
  BY DEF SettlementStates
<1>2. SetPhase(s, d, p).co = [s.co EXCEPT ![d].phase = p]
  BY DEF SetPhase, SettlementStates
<1>3. [s.co[d] EXCEPT !.phase = p] = [phase |-> p, started |-> s.co[d].started]
  BY <1>1
<1>4. SetPhase(s, d, p).co = [s.co EXCEPT ![d] = [phase |-> p, started |-> s.co[d].started]]
  BY <1>1, <1>2, <1>3
<1>5. SetPhase(s, d, p).co \in [Decls -> [phase : Phases, started : Nat]]
  BY <1>1, <1>4
<1>6. SetPhase(s, d, p).mem = s.mem /\ SetPhase(s, d, p).lane = s.lane
  BY DEF SetPhase, SettlementStates
<1>7. SetPhase(s, d, p) \in SettlementStates
  BY <1>5 DEF SetPhase, SettlementStates
<1> QED
  BY <1>4, <1>6, <1>7

\* A change of one member changes nothing else.
LEMMA SetMemberFields ==
  ASSUME NEW s \in SettlementStates, NEW m \in Members, NEW r \in MemberRecords
  PROVE  /\ [s EXCEPT !.mem[m] = r] \in SettlementStates
         /\ [s EXCEPT !.mem[m] = r].mem = [s.mem EXCEPT ![m] = r]
         /\ [s EXCEPT !.mem[m] = r].co = s.co
         /\ [s EXCEPT !.mem[m] = r].lane = s.lane
BY DEF SettlementStates

\* The phase the coordinator projects is one of the four of a declaration under
\* way; complete means that every member succeeded.
LEMMA ProjectedPhase ==
  ASSUME NEW s \in SettlementStates, NEW d \in Decls
  PROVE  /\ Projected(s, d) \in {"applying", "completed", "partially_applied",
                                 "reconciliation_required"}
         /\ Projected(s, d) = "completed" => \A m \in Own(d) : s.mem[m].phase = "succeeded"
<1>1. \A m \in Own(d) : s.mem[m].phase \in MemberPhases
  BY MembersOwned DEF SettlementStates, MemberRecords
<1> DEFINE In(P) == {m \in Own(d) : s.mem[m].phase \in P}
           u == In({"unknown"}) # {}
           active == In({"pending", "passed", "started"}) # {}
           lost == In({"failed", "cancelled", "superseded"}) # {}
           won == In({"succeeded"}) # {}
<1>2. ~u /\ ~active /\ ~lost => \A m \in Own(d) : s.mem[m].phase = "succeeded"
  BY <1>1 DEF MemberPhases
<1>3. Projected(s, d) = CASE u -> "reconciliation_required"
                          [] ~u /\ ~active /\ ~lost -> "completed"
                          [] ~u /\ ~active /\ lost /\ won -> "partially_applied"
                          [] OTHER -> "applying"
  BY Zenon DEF Projected
<1> HIDE DEF u, active, lost, won
<1> QED
  BY <1>2, <1>3

\* How a member and its declaration move together.
MovesTo(s, m, r, p, n) ==
  /\ s \in SettlementStates
  /\ s.mem = [st.mem EXCEPT ![m] = r]
  /\ s.co = [st.co EXCEPT ![DeclOf(m)] = [phase |-> p, started |-> n]]
  /\ s.lane = st.lane

\* A change of a member, and the phase its declaration projects from it.
LEMMA ChangedFields ==
  ASSUME st \in SettlementStates, NEW m \in Members, NEW r \in MemberRecords
  PROVE  \E p \in {"applying", "completed", "partially_applied", "reconciliation_required"} :
           /\ MovesTo(Changed(st, m, r), m, r, p, st.co[DeclOf(m)].started)
           /\ p = "completed" =>
                \A n \in Own(DeclOf(m)) : Changed(st, m, r).mem[n].phase = "succeeded"
<1> DEFINE t == [st EXCEPT !.mem[m] = r]
           d == DeclOf(m)
<1>1. t \in SettlementStates /\ t.mem = [st.mem EXCEPT ![m] = r] /\ t.co = st.co
      /\ t.lane = st.lane
  BY SetMemberFields
<1>2. d \in Decls
  BY MembersOwned
<1>3. Changed(st, m, r) = SetPhase(t, d, Projected(t, d))
  BY DEF Changed
<1> HIDE DEF t, d
<1>4. /\ Projected(t, d) \in {"applying", "completed", "partially_applied",
                              "reconciliation_required"}
      /\ Projected(t, d) = "completed" => \A n \in Own(d) : t.mem[n].phase = "succeeded"
  BY <1>1, <1>2, ProjectedPhase
<1>5. Projected(t, d) \in Phases
  BY <1>4 DEF Phases
<1>6. /\ Changed(st, m, r) \in SettlementStates
      /\ Changed(st, m, r).co =
           [t.co EXCEPT ![d] = [phase |-> Projected(t, d), started |-> t.co[d].started]]
      /\ Changed(st, m, r).mem = t.mem
      /\ Changed(st, m, r).lane = t.lane
  BY <1>1, <1>2, <1>3, <1>5, SetPhaseFields
<1> QED
  BY <1>1, <1>4, <1>6 DEF MovesTo, d

\* A start counts one attempt of the member and one start of its declaration.
LEMMA StartedFields ==
  ASSUME st \in SettlementStates, NEW m \in Members, NEW seq \in Nat
  PROVE  MovesTo(Started(m, seq), m,
                 [phase |-> "started", attempts |-> st.mem[m].attempts + 1, seq |-> seq,
                  receipt |-> None, queried |-> st.mem[m].queried],
                 "applying", st.co[DeclOf(m)].started + 1)
<1> DEFINE d == DeclOf(m)
           r == [phase |-> "started", attempts |-> st.mem[m].attempts + 1, seq |-> seq,
                 receipt |-> None, queried |-> st.mem[m].queried]
           u == [st EXCEPT !.mem[m] = r]
           s == [u EXCEPT !.co[d].started = @ + 1]
<1>1. d \in Decls
  BY MembersOwned
<1>2. st.mem[m] \in MemberRecords /\ st.co[d] \in [phase : Phases, started : Nat]
  BY <1>1, StateParts
<1>3. r \in MemberRecords
  BY <1>2 DEF MemberRecords, MemberPhases, Outcomes
<1>4. u \in SettlementStates /\ u.mem = [st.mem EXCEPT ![m] = r] /\ u.co = st.co
      /\ u.lane = st.lane
  BY <1>3, SetMemberFields
<1>a. Started(m, seq) =
        SetPhase([st EXCEPT !.mem[m] = r, !.co[d].started = @ + 1], d, "applying")
  BY DEF Started
<1>b. [st EXCEPT !.mem[m] = r, !.co[d].started = @ + 1] = s
  BY DEF SettlementStates
<1> HIDE DEF u, r, d
<1>5. /\ s \in SettlementStates /\ s.mem = u.mem /\ s.lane = u.lane
      /\ s.co = [st.co EXCEPT ![d] = [phase |-> st.co[d].phase, started |-> st.co[d].started + 1]]
  <2>1. s.co = [u.co EXCEPT ![d].started = u.co[d].started + 1]
    BY <1>1, <1>4 DEF SettlementStates
  <2>2. s.co = [st.co EXCEPT ![d] = [phase |-> st.co[d].phase, started |-> st.co[d].started + 1]]
    BY <1>1, <1>2, <1>4, <2>1, StateParts
  <2>3. s.co \in [Decls -> [phase : Phases, started : Nat]]
    <3>1. [phase |-> st.co[d].phase, started |-> st.co[d].started + 1]
            \in [phase : Phases, started : Nat]
      BY <1>2
    <3> HIDE DEF s
    <3> QED
      BY <2>2, <3>1, StateParts
  <2>4. s.mem = u.mem /\ s.lane = u.lane
    BY <1>4 DEF SettlementStates
  <2>5. s \in SettlementStates
    BY <1>4, <2>3 DEF SettlementStates
  <2> QED
    BY <2>2, <2>4, <2>5
<1> HIDE DEF s
<1>8. Started(m, seq) = SetPhase(s, d, "applying")
  BY <1>a, <1>b
<1>9. /\ Started(m, seq) \in SettlementStates
      /\ Started(m, seq).co = [s.co EXCEPT ![d] = [phase |-> "applying", started |-> s.co[d].started]]
      /\ Started(m, seq).mem = s.mem
      /\ Started(m, seq).lane = s.lane
  <2>1. "applying" \in Phases
    BY DEF Phases
  <2> QED
    BY <1>1, <1>5, <1>8, <2>1, SetPhaseFields
<1>10. Started(m, seq).co = [st.co EXCEPT ![d] = [phase |-> "applying", started |-> st.co[d].started + 1]]
  BY <1>1, <1>5, <1>9, StateParts
<1> QED
  BY <1>4, <1>5, <1>9, <1>10 DEF MovesTo, r, d

\* An unknown outcome puts the declaration into reconciliation.
LEMMA UnknownFields ==
  ASSUME st \in SettlementStates, NEW m \in Members
  PROVE  MovesTo(RecordUnknown(m), m, [st.mem[m] EXCEPT !.phase = "unknown"],
                 "reconciliation_required", st.co[DeclOf(m)].started)
<1> DEFINE d == DeclOf(m)
           r == [st.mem[m] EXCEPT !.phase = "unknown"]
           s == [st EXCEPT !.mem[m] = r]
<1>1. d \in Decls
  BY MembersOwned
<1>2. r \in MemberRecords
  BY StateParts DEF MemberRecords, MemberPhases
<1>3. [st EXCEPT !.mem[m].phase = "unknown"] = s
  BY StateParts DEF SettlementStates
<1>4. RecordUnknown(m) = SetPhase(s, d, "reconciliation_required")
  BY <1>3 DEF RecordUnknown
<1>5. s \in SettlementStates /\ s.mem = [st.mem EXCEPT ![m] = r] /\ s.co = st.co
      /\ s.lane = st.lane
  BY <1>2, SetMemberFields
<1> HIDE DEF s, r, d
<1>6. /\ RecordUnknown(m) \in SettlementStates
      /\ RecordUnknown(m).co =
           [s.co EXCEPT ![d] = [phase |-> "reconciliation_required", started |-> s.co[d].started]]
      /\ RecordUnknown(m).mem = s.mem
      /\ RecordUnknown(m).lane = s.lane
  <2>1. "reconciliation_required" \in Phases
    BY DEF Phases
  <2> QED
    BY <1>1, <1>4, <1>5, <2>1, SetPhaseFields
<1> QED
  BY <1>5, <1>6 DEF MovesTo, r, d

\* A passed preflight: the member's phase, and the declaration's when it was
\* the last one.
LEMMA PassedFields ==
  ASSUME st \in SettlementStates, NEW m \in Members, NEW ok, ok
  PROVE  \E p \in {st.co[DeclOf(m)].phase, "ready"} :
           /\ MovesTo(RecordPreflight(m, ok), m, [st.mem[m] EXCEPT !.phase = "passed"],
                      p, st.co[DeclOf(m)].started)
           /\ p = "ready" /\ p # st.co[DeclOf(m)].phase =>
                \A n \in Own(DeclOf(m)) : RecordPreflight(m, ok).mem[n].phase = "passed"
<1> DEFINE d == DeclOf(m)
           r == [st.mem[m] EXCEPT !.phase = "passed"]
           s == [st EXCEPT !.mem[m] = r]
<1>1. d \in Decls
  BY MembersOwned
<1>2. r \in MemberRecords
  BY StateParts DEF MemberRecords, MemberPhases
<1>3. [st EXCEPT !.mem[m].phase = "passed"] = s
  BY StateParts DEF SettlementStates
<1>4. RecordPreflight(m, ok) =
        IF \A n \in Own(d) : s.mem[n].phase = "passed" THEN SetPhase(s, d, "ready") ELSE s
  BY <1>3 DEF RecordPreflight
<1>5. s \in SettlementStates /\ s.mem = [st.mem EXCEPT ![m] = r] /\ s.co = st.co
      /\ s.lane = st.lane
  BY <1>2, SetMemberFields
<1>6. st.co = [st.co EXCEPT ![d] = [phase |-> st.co[d].phase, started |-> st.co[d].started]]
  BY <1>1, StateParts
<1> HIDE DEF s, r, d
<1>7. CASE \A n \in Own(d) : s.mem[n].phase = "passed"
  <2>1. /\ RecordPreflight(m, ok) \in SettlementStates
        /\ RecordPreflight(m, ok).co =
             [s.co EXCEPT ![d] = [phase |-> "ready", started |-> s.co[d].started]]
        /\ RecordPreflight(m, ok).mem = s.mem
        /\ RecordPreflight(m, ok).lane = s.lane
    <3>1. "ready" \in Phases
      BY DEF Phases
    <3>2. RecordPreflight(m, ok) = SetPhase(s, d, "ready")
      BY <1>4, <1>7
    <3>3. /\ SetPhase(s, d, "ready") \in SettlementStates
          /\ SetPhase(s, d, "ready").co =
               [s.co EXCEPT ![d] = [phase |-> "ready", started |-> s.co[d].started]]
          /\ SetPhase(s, d, "ready").mem = s.mem
          /\ SetPhase(s, d, "ready").lane = s.lane
      BY <1>1, <1>5, <3>1, SetPhaseFields
    <3> QED
      BY <3>2, <3>3, Zenon
  <2>2. MovesTo(RecordPreflight(m, ok), m, r, "ready", st.co[d].started)
    BY <1>5, <2>1 DEF MovesTo, d
  <2> QED
    BY <1>7, <2>1, <2>2 DEF r, d
<1>8. CASE ~\A n \in Own(d) : s.mem[n].phase = "passed"
  <2>1. RecordPreflight(m, ok) = s
    BY <1>4, <1>8
  <2> QED
    BY <1>5, <1>6, <2>1 DEF MovesTo, r, d
<1> QED
  BY <1>7, <1>8

\* A recorded outcome.
LEMMA ReceiptFields ==
  ASSUME st \in SettlementStates, NEW m \in Members, NEW r \in Outcomes, r # None
  PROVE  LET rec == [st.mem[m] EXCEPT !.phase = r[1], !.receipt = r]
         IN \E p \in {"applying", "completed", "partially_applied", "reconciliation_required"} :
              /\ MovesTo(RecordReceipt(m, r), m, rec, p, st.co[DeclOf(m)].started)
              /\ p = "completed" =>
                   \A n \in Own(DeclOf(m)) : RecordReceipt(m, r).mem[n].phase = "succeeded"
              /\ rec.phase \in {"failed", "succeeded"} /\ rec.phase = r[1] /\ rec.receipt = r
              /\ rec.attempts = st.mem[m].attempts
<1> DEFINE rec == [st.mem[m] EXCEPT !.phase = r[1], !.receipt = r]
<1>1. r[1] \in {"failed", "succeeded"}
  BY DEF Outcomes
<1>2. rec \in MemberRecords /\ rec.phase = r[1] /\ rec.receipt = r
      /\ rec.attempts = st.mem[m].attempts
  BY <1>1, StateParts DEF MemberRecords, MemberPhases
<1>3. RecordReceipt(m, r) = Changed(st, m, rec)
  BY DEF RecordReceipt
<1> HIDE DEF rec
<1>4. PICK p \in {"applying", "completed", "partially_applied", "reconciliation_required"} :
        /\ MovesTo(Changed(st, m, rec), m, rec, p, st.co[DeclOf(m)].started)
        /\ p = "completed" =>
             \A n \in Own(DeclOf(m)) : Changed(st, m, rec).mem[n].phase = "succeeded"
  BY <1>2, ChangedFields
<1>5. /\ MovesTo(RecordReceipt(m, r), m, rec, p, st.co[DeclOf(m)].started)
      /\ p = "completed" =>
           \A n \in Own(DeclOf(m)) : RecordReceipt(m, r).mem[n].phase = "succeeded"
  BY <1>3, <1>4
<1> QED
  BY <1>1, <1>2, <1>5 DEF rec

\* A cancellation after effects: every member that has not started is
\* cancelled.
LEMMA CancelledFields ==
  ASSUME st \in SettlementStates, NEW d \in Decls, st.co[d].started # 0
  PROVE  \E p \in {"applying", "completed", "partially_applied", "reconciliation_required"} :
           /\ CancelledFold(d) \in SettlementStates
           /\ CancelledFold(d).co = [st.co EXCEPT ![d] = [phase |-> p, started |-> st.co[d].started]]
           /\ CancelledFold(d).lane = st.lane
           /\ CancelledFold(d).mem = [m \in Members |->
                IF m \in Unstarted(d) THEN [st.mem[m] EXCEPT !.phase = "cancelled"] ELSE st.mem[m]]
           /\ p = "completed" => \A n \in Own(d) : CancelledFold(d).mem[n].phase = "succeeded"
<1> DEFINE f == [m \in Members |->
                   IF m \in Unstarted(d) THEN [st.mem[m] EXCEPT !.phase = "cancelled"] ELSE st.mem[m]]
           s == [st EXCEPT !.mem = f]
<1>1. CancelledFold(d) = SetPhase(s, d, Projected(s, d))
  BY DEF CancelledFold
<1>2. f \in [Members -> MemberRecords]
  BY StateParts DEF MemberRecords, MemberPhases
<1> HIDE DEF f
<1>3. s \in SettlementStates /\ s.mem = f /\ s.co = st.co /\ s.lane = st.lane
  BY <1>2 DEF SettlementStates
<1> HIDE DEF s
<1>4. /\ Projected(s, d) \in {"applying", "completed", "partially_applied",
                              "reconciliation_required"}
      /\ Projected(s, d) = "completed" => \A n \in Own(d) : s.mem[n].phase = "succeeded"
  BY <1>3, ProjectedPhase
<1>5. Projected(s, d) \in Phases
  BY <1>4 DEF Phases
<1>6. /\ CancelledFold(d) \in SettlementStates
      /\ CancelledFold(d).co =
           [s.co EXCEPT ![d] = [phase |-> Projected(s, d), started |-> s.co[d].started]]
      /\ CancelledFold(d).mem = s.mem
      /\ CancelledFold(d).lane = s.lane
  BY <1>1, <1>3, <1>5, SetPhaseFields
<1> QED
  BY <1>3, <1>4, <1>6 DEF f

\* How a lane moves.
LaneTo(s, t, l) ==
  /\ s \in SettlementStates
  /\ s.co = st.co /\ s.mem = st.mem
  /\ s.lane = [st.lane EXCEPT ![t] = l]
  /\ l \in LaneRecords

\* A change of one lane changes nothing else.
LEMMA SetLaneFields ==
  ASSUME st \in SettlementStates, NEW t \in Targets, NEW l \in LaneRecords
  PROVE  LaneTo([st EXCEPT !.lane[t] = l], t, l)
BY DEF SettlementStates, LaneTo

\* A lane's queue.
LEMMA QueueType ==
  ASSUME st \in SettlementStates, NEW m \in Members
  PROVE  /\ Lane(m) \in LaneRecords
         /\ Lane(m).queue \in Seq(LaneEntries)
         /\ DOMAIN Lane(m).queue = 1..Len(Lane(m).queue)
         /\ Len(Lane(m).queue) \in Nat
<1>1. Lane(m) \in LaneRecords
  BY StateParts, MembersOwned DEF Lane
<1>2. Lane(m).queue \in Seq(LaneEntries)
  BY <1>1 DEF LaneRecords
<1> QED
  BY <1>1, <1>2

\* A number and its successor.
LEMMA Successor ==
  ASSUME NEW x \in Nat
  PROVE  x + 1 # 0 /\ x + 1 # x /\ x <= x + 1 /\ ~(x + 1 <= x)
OBVIOUS

\* A sequence with a position is not empty.
LEMMA HoldsSomething ==
  ASSUME NEW S, NEW q \in Seq(S), NEW i \in DOMAIN q
  PROVE  q # <<>>
<1>1. Len(q) \in Nat /\ DOMAIN q = 1..Len(q)
  BY LenProperties, Zenon
<1>2. Len(q) # 0
  <2>1. ~(i \in 1..0)
    OBVIOUS
  <2> QED
    BY <1>1, <2>1, Zenon
<1>3. Len(<<>>) = 0
  OBVIOUS
<1> QED
  BY <1>2, <1>3, Zenon

\* The queue holds an attempt at one place.
LEMMA IndexOf ==
  ASSUME st \in SettlementStates, LaneInv, NEW m \in Members, NEW a
  PROVE  /\ Index(m, a) # 0 =>
              /\ Index(m, a) \in DOMAIN Lane(m).queue
              /\ Lane(m).queue[Index(m, a)].m = m
              /\ Lane(m).queue[Index(m, a)].attempt = a
         /\ \A i \in DOMAIN Lane(m).queue :
              Lane(m).queue[i].m = m /\ Lane(m).queue[i].attempt = a => Index(m, a) = i
<1> DEFINE q == Lane(m).queue
           I == {i \in 1..Len(q) : q[i].m = m /\ q[i].attempt = a}
<1>1. Index(m, a) = IF I # {} THEN Min(I) ELSE 0
  BY DEF Index, SelectInSeq
<1>2. DOMAIN q = 1..Len(q)
  BY QueueType
<1>3. \A i, j \in DOMAIN q : q[i].m = q[j].m /\ q[i].attempt = q[j].attempt => i = j
  BY MembersOwned DEF LaneInv, LaneOK, Lane
<1> HIDE DEF q
<1>4. ASSUME NEW i \in I PROVE Min(I) = i
  <2>1. \A j \in I : j = i
    BY <1>2, <1>3
  <2>2. i \in Int /\ i <= i
    OBVIOUS
  <2> HIDE DEF I
  <2>3. i \in I /\ \A y \in I : i <= y
    BY <1>4, <2>1, <2>2
  <2>4. Min(I) \in I
    BY <2>3, Zenon DEF Min
  <2> QED
    BY <2>1, <2>4
<1>5. \A i \in I : i \in DOMAIN q /\ q[i].m = m /\ q[i].attempt = a
  BY <1>2
<1>6. \A i \in DOMAIN q : q[i].m = m /\ q[i].attempt = a => i \in I
  BY <1>2
<1> HIDE DEF I
<1> QED
  BY <1>1, <1>4, <1>5, <1>6 DEF q

\* An attempt in the queue stands at its index.
LEMMA IndexHolds ==
  ASSUME st \in SettlementStates, LaneInv, NEW m \in Members, NEW a, Index(m, a) # 0
  PROVE  /\ Index(m, a) \in DOMAIN Lane(m).queue
         /\ Lane(m).queue[Index(m, a)].m = m
         /\ Lane(m).queue[Index(m, a)].attempt = a
BY IndexOf

\* A queue without one of its entries.
LEMMA RemoveAtFields ==
  ASSUME NEW S, NEW q \in Seq(S), NEW i \in 1..Len(q)
  PROVE  /\ RemoveAt(q, i) \in Seq(S)
         /\ Len(RemoveAt(q, i)) = Len(q) - 1
         /\ \A j \in 1..(Len(q) - 1) : RemoveAt(q, i)[j] = IF j < i THEN q[j] ELSE q[j + 1]
<1> DEFINE u == SubSeq(q, 1, i - 1)
           v == SubSeq(q, i + 1, Len(q))
<1>1. RemoveAt(q, i) = u \o v
  BY DEF RemoveAt
<1>2. Len(q) \in Nat /\ i \in Nat /\ i <= Len(q) /\ 1 <= i
  OBVIOUS
<1>3. u \in Seq(S) /\ Len(u) = i - 1 /\ \A j \in 1..(i - 1) : u[j] = q[j]
  BY <1>2
<1>4. v \in Seq(S) /\ Len(v) = Len(q) - i /\ \A j \in 1..(Len(q) - i) : v[j] = q[j + i]
  BY <1>2
<1> HIDE DEF u, v
<1>5. u \o v \in Seq(S) /\ Len(u \o v) = Len(q) - 1
  <2>1. u \o v \in Seq(S) /\ Len(u \o v) = Len(u) + Len(v)
    BY <1>3, <1>4, ConcatProperties
  <2> QED
    BY <1>2, <1>3, <1>4, <2>1
<1>6. ASSUME NEW j \in 1..(Len(q) - 1)
      PROVE  (u \o v)[j] = IF j < i THEN q[j] ELSE q[j + 1]
  <2>1. CASE j < i
    BY <1>2, <1>3, <1>4, <2>1
  <2>2. CASE ~(j < i)
    <3>1. (u \o v)[j] = v[j - (i - 1)]
      BY <1>2, <1>3, <1>4, <2>2
    <3>2. j - (i - 1) \in 1..(Len(q) - i)
      BY <1>2, <2>2
    <3>3. v[j - (i - 1)] = q[j - (i - 1) + i]
      BY <1>4, <3>2
    <3>4. j - (i - 1) + i = j + 1
      BY <1>2
    <3> QED
      BY <2>2, <3>1, <3>3, <3>4
  <2> QED
    BY <2>1, <2>2
<1> QED
  BY <1>1, <1>5, <1>6

(* The table of commands *)

\* A row is added under a key that had none.
Noted(k, cmd, status) ==
  /\ k \notin DOMAIN keys
  /\ DOMAIN keys' = DOMAIN keys \cup {k}
  /\ keys'[k] = [cmd |-> cmd, status |-> status]
  /\ \A j \in DOMAIN keys : keys'[j] = keys[j]

\* A new row of the command table.
LEMMA RowNoted ==
  ASSUME NEW k, NEW cmd, NEW status, Fresh(k), Row(k, cmd, status)
  PROVE  Noted(k, cmd, status)
BY DEF Fresh, Row, Noted

\* What the row says of every key.
LEMMA KeyFacts ==
  ASSUME NEW k, NEW cmd, NEW status, Noted(k, cmd, status)
  PROVE  \A x : /\ Applied(x)' => Applied(x) \/ (x = k /\ status = "applied")
                /\ Fresh(x)' <=> Fresh(x) /\ x # k
                /\ Applied(x) => Applied(x)'
BY DEF Noted, Applied, Fresh

\* What becomes of the command: it takes effect, was answered before, or
\* leaves no more than a row that is not applied.
LEMMA Admitted ==
  ASSUME NEW k, NEW cmd, NEW ok, NEW fold, NEW next, Admit(k, cmd, ok, fold, next)
  PROVE  /\ UNCHANGED targetEdits
         /\ \/ /\ ok /\ Noted(k, cmd, "applied") /\ st' = fold /\ op' = next
               /\ UNCHANGED crashes
            \/ /\ Applied(k) /\ keys[k].cmd = cmd
               /\ op' = next /\ UNCHANGED <<st, keys, crashes>>
            \/ /\ op' = SettlementIdle /\ UNCHANGED st
               /\ crashes' = crashes \/ crashes' = crashes + 1
               /\ \/ UNCHANGED keys
                  \/ \E s \in {"processing", "rejected"} : Noted(k, cmd, s)
<1> DEFINE Goal ==
         \/ /\ ok /\ Noted(k, cmd, "applied") /\ st' = fold /\ op' = next
            /\ UNCHANGED crashes
         \/ /\ Applied(k) /\ keys[k].cmd = cmd
            /\ op' = next /\ UNCHANGED <<st, keys, crashes>>
         \/ /\ op' = SettlementIdle /\ UNCHANGED st
            /\ crashes' = crashes \/ crashes' = crashes + 1
            /\ \/ UNCHANGED keys
               \/ \E s \in {"processing", "rejected"} : Noted(k, cmd, s)
<1>1. CASE /\ Fresh(k) /\ ok
           /\ Row(k, cmd, "applied") /\ st' = fold /\ op' = next
           /\ UNCHANGED crashes
  BY <1>1, RowNoted DEF Admit
<1>2. CASE /\ Replays(k, cmd)
           /\ op' = next /\ UNCHANGED <<st, keys, crashes>>
  BY <1>2 DEF Replays, Fresh, Applied, Admit
<1>3. CASE /\ Fresh(k) /\ ~ok
           /\ Row(k, cmd, "rejected") /\ op' = SettlementIdle
           /\ UNCHANGED <<st, crashes>>
  BY <1>3, RowNoted DEF Admit
<1>4. CASE /\ ~Fresh(k) /\ ~Replays(k, cmd)
           /\ op' = SettlementIdle /\ UNCHANGED <<st, keys, crashes>>
  BY <1>4 DEF Admit
<1>5. CASE /\ Fresh(k) /\ crashes < MaxCrashes
           /\ Row(k, cmd, "processing") /\ op' = SettlementIdle
           /\ crashes' = crashes + 1
           /\ UNCHANGED st
  BY <1>5, RowNoted DEF Admit
<1> QED
  BY <1>1, <1>2, <1>3, <1>4, <1>5, Zenon DEF Admit

\* Grants stay on record.
LEMMA GrantKept ==
  ASSUME NEW k, NEW cmd, NEW status, Noted(k, cmd, status), NEW m \in Members, GrantInv(m),
         k = <<"grant", m>> => cmd \in Nat,
         status = "applied" => k[1] \notin {"start", "retry"} \/ k[2] # m,
         st.mem[m].attempts \in Nat, st'.mem[m].attempts \in Nat,
         st.mem[m].attempts <= st'.mem[m].attempts
  PROVE  GrantInv(m)'
<1>2. (<<"grant", m>> \in DOMAIN keys => keys[<<"grant", m>>].cmd \in Nat)'
  BY DEF GrantInv, Noted
<1>3. (Applied(<<"start", m>>) =>
        <<"grant", m>> \in DOMAIN keys /\ keys[<<"grant", m>>].cmd <= st.mem[m].attempts)'
  <2>1. Applied(<<"start", m>>)' => Applied(<<"start", m>>)
    BY KeyFacts
  <2>2. <<"grant", m>> \in DOMAIN keys =>
          <<"grant", m>> \in DOMAIN keys' /\ keys'[<<"grant", m>>] = keys[<<"grant", m>>]
    BY DEF Noted
  <2> HIDE DEF Applied
  <2> QED
    BY <2>1, <2>2 DEF GrantInv
<1>4. (\A a \in Nat : Applied(<<"retry", m, a>>) => a <= st.mem[m].attempts)'
  <2> SUFFICES ASSUME NEW a \in Nat, Applied(<<"retry", m, a>>)'
               PROVE  a <= st'.mem[m].attempts
    OBVIOUS
  <2>1. Applied(<<"retry", m, a>>)
    BY KeyFacts
  <2> QED
    BY <2>1 DEF GrantInv
<1> QED
  BY <1>2, <1>3, <1>4 DEF GrantInv

\* A command that starts nothing leaves what the grants say.
LEMMA GrantsKept ==
  ASSUME KeyInv, NEW k, NEW cmd, NEW status, Noted(k, cmd, status),
         \A m \in Members : k = <<"grant", m>> => cmd \in Nat,
         status = "applied" => k[1] \notin {"start", "retry"},
         \A m \in Members : /\ st.mem[m].attempts \in Nat /\ st'.mem[m].attempts \in Nat
                            /\ st.mem[m].attempts <= st'.mem[m].attempts
  PROVE  \A m \in Members : GrantInv(m)'
BY GrantKept DEF KeyInv

\* Only a recorded outcome makes a debt between the scopes.
LEMMA DebtsOnly ==
  ASSUME NEW k, NEW cmd, NEW status, Noted(k, cmd, status), NEW m \in Members,
         status = "applied" => k[1] \notin {"receipt", "query-receipt", "unknown"} \/ k[2] # m
  PROVE  /\ \A r \in Outcomes : /\ OwedResolve(m, r)' => OwedResolve(m, r)
                                /\ OwedReconcile(m, r)' => OwedReconcile(m, r)
         /\ OwedUnknown(m)' => OwedUnknown(m)
<1>1. \A r \in Outcomes : (OwedResolve(m, r)' => OwedResolve(m, r))
                       /\ (OwedReconcile(m, r)' => OwedReconcile(m, r))
  <2> SUFFICES ASSUME NEW r \in Outcomes
               PROVE  (OwedResolve(m, r)' => OwedResolve(m, r))
                   /\ (OwedReconcile(m, r)' => OwedReconcile(m, r))
    OBVIOUS
  <2>1. Applied(<<"receipt", m, r>>)' => Applied(<<"receipt", m, r>>)
    BY KeyFacts
  <2>2. Applied(<<"query-receipt", m, r>>)' => Applied(<<"query-receipt", m, r>>)
    BY KeyFacts
  <2>3. Fresh(<<"resolve", m, r>>)' => Fresh(<<"resolve", m, r>>)
    BY KeyFacts
  <2>4. Fresh(<<"reconcile", m, r>>)' => Fresh(<<"reconcile", m, r>>)
    BY KeyFacts
  <2> QED
    BY <2>1, <2>2, <2>3, <2>4 DEF OwedResolve, OwedReconcile
<1>2. OwedUnknown(m)' => OwedUnknown(m)
  <2>1. Applied(<<"unknown", m>>)' => Applied(<<"unknown", m>>)
    BY KeyFacts
  <2>2. Fresh(<<"lane-unknown", m>>)' => Fresh(<<"lane-unknown", m>>)
    BY KeyFacts
  <2> QED
    BY <2>1, <2>2 DEF OwedUnknown
<1> QED
  BY <1>1, <1>2

\* A member that keeps its phase and its place at the head keeps its debts.
LEMMA HeadsKept ==
  ASSUME NEW k, NEW cmd, NEW status, Noted(k, cmd, status), NEW m \in Members,
         OwedInv(m), FlightOf(m),
         status = "applied" => k[1] \notin {"receipt", "query-receipt", "unknown"} \/ k[2] # m,
         st'.mem[m].phase = st.mem[m].phase,
         Heads(m, {"granted"}) => Heads(m, {"granted"})', Heads(m, Held) => Heads(m, Held)'
  PROVE  OwedInv(m)' /\ FlightOf(m)'
<1>1. /\ \A r \in Outcomes : /\ OwedResolve(m, r)' => OwedResolve(m, r)
                             /\ OwedReconcile(m, r)' => OwedReconcile(m, r)
      /\ OwedUnknown(m)' => OwedUnknown(m)
  BY DebtsOnly
<1>2. /\ Settled(m)' <=> Settled(m)
      /\ Phase(m)' = Phase(m)
  BY DEF Settled, Phase
<1> QED
  BY <1>1, <1>2 DEF OwedInv, FlightOf

\* A command that records no outcome of m leaves what its lane is owed.
LEMMA DebtsKept ==
  ASSUME NEW k, NEW cmd, NEW status, Noted(k, cmd, status), NEW m \in Members,
         OwedInv(m), FlightOf(m),
         status = "applied" => k[1] \notin {"receipt", "query-receipt", "unknown"} \/ k[2] # m,
         st'.mem[m].phase = st.mem[m].phase, st'.mem[m].attempts = st.mem[m].attempts,
         st'.lane[TargetOf[m]] = st.lane[TargetOf[m]]
  PROVE  OwedInv(m)' /\ FlightOf(m)'
<1>1. /\ Heads(m, Held)' <=> Heads(m, Held)
      /\ Heads(m, {"granted"})' <=> Heads(m, {"granted"})
  BY DEF Heads, Held, Lane
<1> QED
  BY <1>1, HeadsKept

\* The folds stand: a command that did not take effect, or took effect before.
\* What a declaration expects of a target may be read again for members that
\* have not touched theirs.
LEMMA CoreKept ==
  ASSUME SettlementTypes, CoreInv, UNCHANGED <<st, main>>, NEW k, NEW cmd,
         \/ UNCHANGED keys
         \/ \E s \in {"processing", "rejected"} : Noted(k, cmd, s),
         \A m \in Members : k = <<"grant", m>> => cmd \in Nat,
         \A m \in Members : expected'[m] = expected[m] \/ Absent(m)
  PROVE  CoreInv' /\ StaysClosed
<1>1. \A x : Fresh(x)' => Fresh(x)
  <2>1. CASE UNCHANGED keys
    BY <2>1 DEF Fresh
  <2>2. CASE \E s \in {"processing", "rejected"} : Noted(k, cmd, s)
    BY <2>2, KeyFacts
  <2> QED
    BY <2>1, <2>2
<1>2. DeclInv'
  <2>1. \A m : (Waits(m)' <=> Waits(m)) /\ Phase(m)' = Phase(m)
    BY DEF Waits, Lane, Phase
  <2> SUFFICES ASSUME NEW d \in Decls PROVE DeclOK(d)'
    BY DEF DeclInv
  <2>2. DeclOK(d)
    BY DEF CoreInv, DeclInv
  <2> QED
    BY <1>1, <2>1, <2>2 DEF DeclOK, Own
<1>3. LaneInv'
  BY DEF CoreInv, LaneInv
<1>4. FlightInv'
  BY DEF CoreInv, FlightInv, FlightOf, Phase, Heads, Held, Lane
<1>5. KeyInv'
  <2>1. CASE UNCHANGED keys
    <3>1. \A m \in Members : GrantInv(m)' <=> GrantInv(m)
      BY <2>1 DEF GrantInv, Applied
    <3>2. \A m \in Members : OwedInv(m)' <=> OwedInv(m)
      BY <2>1 DEF OwedInv, OwedResolve, OwedReconcile, OwedUnknown, Applied, Fresh, Settled,
                  Phase, Heads, Held, Lane
    <3> QED
      BY <3>1, <3>2 DEF CoreInv, KeyInv
  <2>2. CASE \E s \in {"processing", "rejected"} : Noted(k, cmd, s)
    <3>1. PICK s \in {"processing", "rejected"} : Noted(k, cmd, s)
      BY <2>2
    <3>2. \A m \in Members : st.mem[m].attempts \in Nat
      BY StateParts DEF SettlementTypes, MemberRecords
    <3>3. \A m \in Members : GrantInv(m)'
      BY <3>1, <3>2, GrantsKept DEF CoreInv
    <3>4. \A m \in Members : OwedInv(m)'
      BY <3>1, DebtsKept DEF CoreInv, KeyInv, FlightInv
    <3> QED
      BY <3>3, <3>4 DEF KeyInv
  <2> QED
    BY <2>1, <2>2
<1>6. MainInv'
  <2>1. \A m, i : InMain(m, i)' <=> InMain(m, i)
    BY DEF InMain
  <2>2. \A m : Absent(m)' <=> Absent(m)
    BY DEF Absent
  <2>3. \A m \in Members : \A i \in Nat : InMain(m, i) => expected'[m] = expected[m]
    BY DEF InMain, Absent
  <2> QED
    BY <2>1, <2>2, <2>3 DEF CoreInv, MainInv, Phase
<1>7. RepairInv'
  <2>1. \A m, i : InMain(m, i)' <=> InMain(m, i)
    BY DEF InMain
  <2>2. \A m \in Members : \A i \in Nat : InMain(m, i) => expected'[m] = expected[m]
    BY DEF InMain, Absent
  <2> QED
    BY <2>1, <2>2 DEF CoreInv, RepairInv, RepairedBy, Phase, Own
<1> QED
  BY <1>2, <1>3, <1>4, <1>5, <1>6, <1>7 DEF CoreInv, StaysClosed

\* What a step that takes effect must show.
Sound == st' \in SettlementStates /\ CoreInv' /\ OpInv' /\ StaysClosed

\* The types of what a command leaves.
LEMMA TypesKept ==
  ASSUME SettlementTypes, st' \in SettlementStates, expected' \in [Members -> Nat],
         known' \in [Targets -> Nat], main' \in [Targets -> Seq(Members \cup {None})],
         targetEdits' \in Nat, crashes' \in Nat, op' \in Operations,
         NEW k, NEW cmd,
         \/ UNCHANGED keys
         \/ \E s \in {"processing", "rejected", "applied"} : Noted(k, cmd, s)
  PROVE  SettlementTypes'
<1>1. (\A j \in DOMAIN keys : keys[j].status \in {"processing", "applied", "rejected"})'
  <2>1. CASE UNCHANGED keys
    BY <2>1 DEF SettlementTypes
  <2>2. CASE \E s \in {"processing", "rejected", "applied"} : Noted(k, cmd, s)
    BY <2>2 DEF SettlementTypes, Noted
  <2> QED
    BY <2>1, <2>2
<1> QED
  BY <1>1 DEF SettlementTypes

\* An operation begins, ends or sees something, and touches nothing.
LEMMA OpStep ==
  ASSUME SettlementInv, UNCHANGED <<st, keys, expected, main>>, known' \in [Targets -> Nat],
         targetEdits' \in Nat, crashes' \in Nat, op' \in Operations, OpInv'
  PROVE  SettlementInv' /\ StaysClosed
<1>1. SettlementTypes /\ CoreInv
  BY DEF SettlementInv
<1>2. CoreInv' /\ StaysClosed
  <2>1. \A m \in Members : expected'[m] = expected[m]
    OBVIOUS
  <2> QED
    BY <1>1, <2>1, CoreKept
<1>3. SettlementTypes'
  <2>1. st' \in SettlementStates /\ expected' \in [Members -> Nat]
        /\ main' \in [Targets -> Seq(Members \cup {None})]
    BY <1>1 DEF SettlementTypes
  <2> QED
    BY <1>1, <2>1, TypesKept
<1> QED
  BY <1>2, <1>3 DEF SettlementInv

\* Nothing is asked of an idle shell.
LEMMA IdleOp ==
  ASSUME op' = SettlementIdle
  PROVE  op' \in Operations /\ OpInv'
BY DEF SettlementIdle, Operations, OpInv

\* One durable step of an operation.
LEMMA AdmitStep ==
  ASSUME SettlementInv, NEW k, NEW cmd, NEW ok, NEW fold, NEW next,
         Admit(k, cmd, ok, fold, next), UNCHANGED <<main, known>>,
         expected' \in [Members -> Nat],
         \A m \in Members : expected'[m] = expected[m] \/ Absent(m),
         \A m \in Members : k = <<"grant", m>> => cmd \in Nat,
         next \in Operations,
         ok /\ Noted(k, cmd, "applied") /\ st' = fold /\ op' = next => Sound,
         Applied(k) /\ keys[k].cmd = cmd /\ op' = next /\ UNCHANGED <<st, keys>> => OpInv'
  PROVE  SettlementInv' /\ StaysClosed
<1>1. SettlementTypes /\ CoreInv
  BY DEF SettlementInv
<1>2. targetEdits' \in Nat /\ known' \in [Targets -> Nat]
      /\ main' \in [Targets -> Seq(Members \cup {None})] /\ crashes \in Nat /\ st \in SettlementStates
  BY <1>1, Admitted DEF SettlementTypes
<1>3. CASE /\ ok /\ Noted(k, cmd, "applied") /\ st' = fold /\ op' = next
           /\ UNCHANGED crashes
  <2>1. Sound
    BY <1>3
  <2>2. SettlementTypes'
    BY <1>1, <1>2, <1>3, <2>1, TypesKept DEF Sound
  <2> QED
    BY <2>1, <2>2 DEF Sound, SettlementInv
<1>4. CASE /\ Applied(k) /\ keys[k].cmd = cmd
           /\ op' = next /\ UNCHANGED <<st, keys, crashes>>
  <2>1. OpInv'
    BY <1>4
  <2>2. CoreInv' /\ StaysClosed
    BY <1>1, <1>4, CoreKept
  <2>3. SettlementTypes'
    BY <1>1, <1>2, <1>4, TypesKept
  <2> QED
    BY <2>1, <2>2, <2>3 DEF SettlementInv
<1>5. CASE /\ op' = SettlementIdle /\ UNCHANGED st
           /\ crashes' = crashes \/ crashes' = crashes + 1
           /\ \/ UNCHANGED keys
              \/ \E s \in {"processing", "rejected"} : Noted(k, cmd, s)
  <2>1. OpInv' /\ op' \in Operations
    BY <1>5, IdleOp
  <2>2. CoreInv' /\ StaysClosed
    BY <1>1, <1>5, CoreKept
  <2>3. SettlementTypes'
    <3>1. crashes' \in Nat /\ st' \in SettlementStates
      BY <1>2, <1>5
    <3> QED
      BY <1>1, <1>2, <1>5, <2>1, <3>1, TypesKept
  <2> QED
    BY <2>1, <2>2, <2>3 DEF SettlementInv
<1> QED
  BY <1>3, <1>4, <1>5, Admitted

\* A step that only moves a lane, given what it leaves there.
LEMMA LaneStep ==
  ASSUME SettlementTypes, CoreInv, NEW t \in Targets, NEW l, LaneTo(st', t, l),
         UNCHANGED <<expected, main>>, NEW k, NEW cmd, Noted(k, cmd, "applied"),
         \A m \in Members : k = <<"grant", m>> => cmd \in Nat,
         k[1] \notin {"start", "retry", "receipt", "query-receipt", "unknown"},
         \A i, j \in DOMAIN l.queue :
           l.queue[i].m = l.queue[j].m /\ l.queue[i].attempt = l.queue[j].attempt => i = j,
         \A i \in DOMAIN l.queue :
           /\ l.queue[i].phase # "queued" => i = 1
           /\ l.queue[i].phase = "queued" => l.queue[i].seq = 0
           /\ l.queue[i].phase = "unknown" => l.queue[i].attempt <= st.mem[l.queue[i].m].attempts,
         \A m \in Members :
           TargetOf[m] = t /\ Waits(m)' /\ Phase(m) \in {"pending", "passed"} =>
             Waits(m) \/ st.co[DeclOf(m)].phase \notin Early,
         \A m \in Members : TargetOf[m] = t => FlightOf(m)' /\ OwedInv(m)'
  PROVE  st' \in SettlementStates /\ CoreInv' /\ StaysClosed
<1>1. /\ st' \in SettlementStates /\ st'.co = st.co /\ st'.mem = st.mem
      /\ st'.lane = [st.lane EXCEPT ![t] = l]
  BY DEF LaneTo
<1>2. st.lane \in [Targets -> LaneRecords] /\ st \in SettlementStates
  BY StateParts DEF SettlementTypes
<1>3. \A m \in Members : TargetOf[m] # t => st'.lane[TargetOf[m]] = st.lane[TargetOf[m]]
  BY <1>1, <1>2, MembersOwned
<1>4. DeclInv'
  <2>1. \A m \in Members : Waits(m)' /\ Phase(m) \in {"pending", "passed"} =>
          Waits(m) \/ st.co[DeclOf(m)].phase \notin Early
    BY <1>3 DEF Waits, Lane
  <2>2. \A d \in Decls : Fresh(<<"declare", d>>)' => Fresh(<<"declare", d>>)
    BY KeyFacts
  <2>3. \A m : Phase(m)' = Phase(m)
    BY <1>1 DEF Phase
  <2> SUFFICES ASSUME NEW d \in Decls
               PROVE  (LET phase == st.co[d].phase
                       IN /\ phase \in Early \cup {"ready"} => st.co[d].started = 0
                          /\ st.co[d].started = 0 =>
                               \A m \in Own(d) : Phase(m) \in {"pending", "passed", "superseded"}
                          /\ phase \notin Early => \A m \in Own(d) : Phase(m) # "pending"
                          /\ phase = "undeclared" => \A m \in Own(d) : Phase(m) = "pending"
                          /\ phase = "completed" => \A m \in Own(d) : Phase(m) = "succeeded"
                          /\ phase \in Early =>
                               \A m \in Own(d) : Phase(m) \in {"pending", "passed"} => ~Waits(m)
                          /\ Fresh(<<"declare", d>>) => phase = "undeclared")'
    BY DEF DeclInv, DeclOK
  <2>4. \A m \in Own(d) : m \in Members /\ DeclOf(m) = d
    BY MembersOwned
  <2> QED
    BY <1>1, <2>1, <2>2, <2>3, <2>4 DEF DeclInv, DeclOK, CoreInv, Own
<1>5. LaneInv'
  <2> SUFFICES ASSUME NEW u \in Targets
               PROVE  LaneOK(st.lane[u].queue, st.mem)'
    BY DEF LaneInv
  <2>1. CASE u = t
    BY <1>1, <1>2, <2>1 DEF LaneOK
  <2>2. CASE u # t
    <3>1. st'.lane[u] = st.lane[u]
      BY <1>1, <1>2, <2>2
    <3> QED
      BY <1>1, <3>1 DEF CoreInv, LaneInv
  <2> QED
    BY <2>1, <2>2
<1>6. FlightInv'
  <2> SUFFICES ASSUME NEW m \in Members, TargetOf[m] # t PROVE FlightOf(m)'
    BY DEF FlightInv
  <2>1. FlightOf(m)
    BY DEF CoreInv, FlightInv
  <2>2. Lane(m)' = Lane(m) /\ st'.mem = st.mem
    BY <1>1, <1>3 DEF Lane
  <2> QED
    BY <2>1, <2>2 DEF FlightOf, Phase, Heads
<1>7. KeyInv'
  <2>1. \A m \in Members : OwedInv(m)'
    BY <1>1, <1>3, DebtsKept DEF CoreInv, KeyInv, FlightInv
  <2>2. \A m \in Members : st.mem[m].attempts \in Nat
    BY <1>2, StateParts DEF MemberRecords
  <2>3. \A m \in Members : GrantInv(m)'
    BY <1>1, <2>2, GrantsKept DEF CoreInv
  <2> QED
    BY <2>1, <2>3 DEF KeyInv
<1>8. MainInv'
  BY <1>1 DEF CoreInv, MainInv, InMain, Absent, Phase
<1>9. RepairInv'
  BY <1>1 DEF CoreInv, RepairInv, RepairedBy, InMain, Phase, Own
<1> QED
  BY <1>1, <1>4, <1>5, <1>6, <1>7, <1>8, <1>9 DEF CoreInv, StaysClosed

\* Waiting is being found in the queue.
LEMMA WaitsQueued ==
  ASSUME st \in SettlementStates, LaneInv, NEW m \in Members
  PROVE  Waits(m) <=> Queued(m, 1, "queued")
<1>1. Waits(m) => Queued(m, 1, "queued")
  <2> SUFFICES ASSUME NEW i \in DOMAIN Lane(m).queue, Lane(m).queue[i].m = m,
                      Lane(m).queue[i].attempt = 1, Lane(m).queue[i].phase = "queued"
               PROVE  Queued(m, 1, "queued")
    BY DEF Waits
  <2>1. Index(m, 1) = i
    BY IndexOf
  <2>2. i # 0
    BY QueueType
  <2> QED
    BY <2>1, <2>2 DEF Queued
<1>2. Queued(m, 1, "queued") => Waits(m)
  BY IndexOf DEF Queued, Waits
<1> QED
  BY <1>1, <1>2

\* An attempt joins the queue.
LEMMA EnqueueStep ==
  ASSUME SettlementTypes, CoreInv, NEW m \in Members, NEW a \in Nat, CanEnqueue(m, a),
         st' = Enqueue(m, a), UNCHANGED <<expected, main>>,
         NEW k, NEW cmd, Noted(k, cmd, "applied"), k[1] \in {"enqueue", "enqueue-retry"},
         a = 1 /\ Phase(m) \in {"pending", "passed"} => st.co[DeclOf(m)].phase \notin Early
  PROVE  st' \in SettlementStates /\ CoreInv' /\ StaysClosed /\ st'.mem = st.mem /\ st'.co = st.co
<1> DEFINE t == TargetOf[m]
           q == Lane(m).queue
           p == Append(q, Entry(m, a))
           l == [Lane(m) EXCEPT !.queue = p]
<1>1. t \in Targets /\ st \in SettlementStates /\ LaneInv /\ Lane(m) \in LaneRecords
  BY MembersOwned, QueueType DEF SettlementTypes, CoreInv
<1>2. q \in Seq(LaneEntries) /\ Len(q) \in Nat /\ DOMAIN q = 1..Len(q)
  BY <1>1, QueueType
<1>3. Entry(m, a) \in LaneEntries
  BY DEF Entry, LaneEntries
<1> HIDE DEF q
<1>4. p \in Seq(LaneEntries) /\ DOMAIN p = 1..(Len(q) + 1) /\ p[Len(q) + 1] = Entry(m, a)
      /\ \A i \in DOMAIN q : p[i] = q[i]
  BY <1>2, <1>3
<1> HIDE DEF p
<1>5. l \in LaneRecords /\ l.queue = p
  BY <1>1, <1>4 DEF LaneRecords
<1>6. st' = [st EXCEPT !.lane[t] = l]
  BY <1>1 DEF Enqueue, SettlementStates, Lane, q, p
<1> HIDE DEF l
<1>7. LaneTo(st', t, l)
  BY <1>1, <1>5, <1>6, SetLaneFields
<1>8. st'.mem = st.mem /\ st'.co = st.co /\ st'.lane[t] = l
      /\ \A n \in Members : TargetOf[n] = t => Lane(n)' = l /\ Lane(n).queue = q
  BY <1>1, <1>7, StateParts DEF LaneTo, Lane, q
<1>9. \A i \in DOMAIN q : ~(q[i].m = m /\ q[i].attempt = a)
  <2>1. Index(m, a) = 0
    BY DEF CanEnqueue
  <2> QED
    BY <1>1, <1>2, <2>1, IndexOf DEF q
<1>10. /\ \A i, j \in DOMAIN q : q[i].m = q[j].m /\ q[i].attempt = q[j].attempt => i = j
       /\ \A i \in DOMAIN q :
            /\ q[i].phase # "queued" => i = 1
            /\ q[i].phase = "queued" => q[i].seq = 0
            /\ q[i].phase = "unknown" => q[i].attempt <= st.mem[q[i].m].attempts
  BY <1>1 DEF LaneInv, LaneOK, Lane, q
<1>11. Entry(m, a).m = m /\ Entry(m, a).attempt = a /\ Entry(m, a).phase = "queued"
       /\ Entry(m, a).seq = 0
  BY DEF Entry
<1>12. \A i, j \in DOMAIN l.queue :
         l.queue[i].m = l.queue[j].m /\ l.queue[i].attempt = l.queue[j].attempt => i = j
  BY <1>2, <1>4, <1>5, <1>9, <1>10, <1>11
<1>13. \A i \in DOMAIN l.queue :
         /\ l.queue[i].phase # "queued" => i = 1
         /\ l.queue[i].phase = "queued" => l.queue[i].seq = 0
         /\ l.queue[i].phase = "unknown" => l.queue[i].attempt <= st.mem[l.queue[i].m].attempts
  BY <1>2, <1>4, <1>5, <1>10, <1>11
<1>14. ASSUME NEW n \in Members, TargetOf[n] = t, Waits(n)', Phase(n) \in {"pending", "passed"}
       PROVE  Waits(n) \/ st.co[DeclOf(n)].phase \notin Early
  <2>1. PICK i \in DOMAIN p : p[i].m = n /\ p[i].attempt = 1 /\ p[i].phase = "queued"
    BY <1>5, <1>8, <1>14 DEF Waits
  <2>2. CASE i \in DOMAIN q
    BY <1>4, <1>8, <1>14, <2>1, <2>2 DEF Waits
  <2>3. CASE i \notin DOMAIN q
    <3>1. i = Len(q) + 1
      BY <1>2, <1>4, <2>3
    <3>2. n = m /\ a = 1
      BY <1>4, <1>11, <2>1, <3>1
    <3> QED
      BY <1>14, <3>2
  <2> QED
    BY <2>2, <2>3
<1>15. ASSUME NEW n \in Members, TargetOf[n] = t PROVE FlightOf(n)' /\ OwedInv(n)'
  <2>1. q # <<>> => 1 \in DOMAIN q /\ p # <<>> /\ p[1] = q[1]
    BY <1>2, <1>4
  <2>2. Lane(n)'.queue = p /\ Lane(n).queue = q
    BY <1>5, <1>8, <1>15
  <2>3. /\ Heads(n, {"granted"}) => Heads(n, {"granted"})'
        /\ Heads(n, Held) => Heads(n, Held)'
    BY <1>8, <2>1, <2>2 DEF Heads, Held
  <2>4. OwedInv(n) /\ FlightOf(n)
    BY DEF CoreInv, KeyInv, FlightInv
  <2> QED
    BY <1>8, <2>3, <2>4, HeadsKept
<1>16. \A n \in Members : k = <<"grant", n>> => cmd \in Nat
  OBVIOUS
<1>17. k[1] \notin {"start", "retry", "receipt", "query-receipt", "unknown"}
  OBVIOUS
<1> HIDE DEF t
<1> QED
  BY <1>1, <1>7, <1>8, <1>12, <1>13, <1>14, <1>15, <1>16, <1>17, LaneStep

\* The head of the queue is replaced by an entry of the same attempt, in a
\* phase of its own.
LEMMA HeadStep ==
  ASSUME SettlementTypes, CoreInv, NEW m \in Members, NEW e \in LaneEntries,
         NEW l \in LaneRecords, LaneTo(st', TargetOf[m], l),
         Lane(m).queue # <<>>, l.queue = [Lane(m).queue EXCEPT ![1] = e],
         e.m = Lane(m).queue[1].m, e.attempt = Lane(m).queue[1].attempt,
         e.phase \in Held, e.phase = "unknown" => e.attempt <= st.mem[e.m].attempts,
         UNCHANGED <<expected, main>>, NEW k, NEW cmd, Noted(k, cmd, "applied"),
         \A n \in Members : k = <<"grant", n>> => cmd \in Nat,
         k[1] \notin {"start", "retry", "receipt", "query-receipt", "unknown"},
         \A n \in Members : TargetOf[n] = TargetOf[m] => FlightOf(n)' /\ OwedInv(n)'
  PROVE  st' \in SettlementStates /\ CoreInv' /\ StaysClosed /\ st'.mem = st.mem /\ st'.co = st.co
<1> DEFINE t == TargetOf[m]
           q == Lane(m).queue
           p == [q EXCEPT ![1] = e]
<1>1. t \in Targets /\ st \in SettlementStates /\ LaneInv /\ Lane(m) \in LaneRecords
  BY MembersOwned, QueueType DEF SettlementTypes, CoreInv
<1>2. q \in Seq(LaneEntries) /\ Len(q) \in Nat /\ DOMAIN q = 1..Len(q)
  BY <1>1, QueueType
<1>3. l.queue = p
  OBVIOUS
<1>4. /\ \A i, j \in DOMAIN q : q[i].m = q[j].m /\ q[i].attempt = q[j].attempt => i = j
      /\ \A i \in DOMAIN q :
           /\ q[i].phase # "queued" => i = 1
           /\ q[i].phase = "queued" => q[i].seq = 0
           /\ q[i].phase = "unknown" => q[i].attempt <= st.mem[q[i].m].attempts
  BY <1>1 DEF LaneInv, LaneOK, Lane
<1>5. DOMAIN p = DOMAIN q /\ p[1] = e /\ \A i \in DOMAIN q : i # 1 => p[i] = q[i]
  BY <1>2
<1>6. e.m = q[1].m /\ e.attempt = q[1].attempt
  OBVIOUS
<1>7. st'.mem = st.mem /\ st'.co = st.co
      /\ \A n \in Members : TargetOf[n] = t => Lane(n)'.queue = p /\ Lane(n).queue = q
  BY <1>1, <1>3, StateParts DEF LaneTo, Lane
<1>8. e.phase # "queued"
  BY DEF Held
<1> HIDE DEF q, p
<1>9. \A i, j \in DOMAIN l.queue :
         l.queue[i].m = l.queue[j].m /\ l.queue[i].attempt = l.queue[j].attempt => i = j
  <2> SUFFICES ASSUME NEW i \in DOMAIN q, NEW j \in DOMAIN q, p[i].m = p[j].m,
                      p[i].attempt = p[j].attempt
               PROVE  i = j
    BY <1>3, <1>5
  <2>1. p[i].m = q[i].m /\ p[i].attempt = q[i].attempt
    BY <1>5, <1>6
  <2>2. p[j].m = q[j].m /\ p[j].attempt = q[j].attempt
    BY <1>5, <1>6
  <2> QED
    BY <1>4, <2>1, <2>2
<1>10. \A i \in DOMAIN l.queue :
         /\ l.queue[i].phase # "queued" => i = 1
         /\ l.queue[i].phase = "queued" => l.queue[i].seq = 0
         /\ l.queue[i].phase = "unknown" => l.queue[i].attempt <= st.mem[l.queue[i].m].attempts
  BY <1>3, <1>4, <1>5, <1>8
<1>11. ASSUME NEW n \in Members, TargetOf[n] = t, Waits(n)', Phase(n) \in {"pending", "passed"}
       PROVE  Waits(n) \/ st.co[DeclOf(n)].phase \notin Early
  <2>1. PICK i \in DOMAIN p : p[i].m = n /\ p[i].attempt = 1 /\ p[i].phase = "queued"
    BY <1>7, <1>11 DEF Waits
  <2>2. i \in DOMAIN q /\ q[i] = p[i]
    BY <1>5, <1>8, <2>1
  <2> QED
    BY <1>7, <1>11, <2>1, <2>2 DEF Waits
<1>12. st' \in SettlementStates /\ CoreInv' /\ StaysClosed
  <2> HIDE DEF t
  <2>1. LaneTo(st', t, l) /\ \A n \in Members : TargetOf[n] = t => FlightOf(n)' /\ OwedInv(n)'
    BY DEF t
  <2> QED
    BY <1>1, <1>9, <1>10, <1>11, <2>1, LaneStep
<1> QED
  BY <1>7, <1>12

\* Nobody holds a lane whose head still waits.
LEMMA HeadQueued ==
  ASSUME NEW n, NEW m, TargetOf[n] = TargetOf[m], Lane(m).queue[1].phase = "queued"
  PROVE  ~Heads(n, Held) /\ ~Heads(n, {"granted"})
BY DEF Heads, Held, Lane

\* The head is granted.
LEMMA GrantStep ==
  ASSUME SettlementTypes, CoreInv, NEW m \in Members, NEW a \in Nat, CanGrant(m, a),
         st' = Grant(m, a), UNCHANGED <<expected, main>>,
         NEW k, NEW cmd \in Nat \cup {None}, Noted(k, cmd, "applied"),
         k[1] \in {"grant", "grant-retry"}, k[1] = "grant" => cmd \in Nat
  PROVE  st' \in SettlementStates /\ CoreInv' /\ StaysClosed /\ st'.mem = st.mem /\ st'.co = st.co
<1> DEFINE t == TargetOf[m]
           q == Lane(m).queue
           e == [m |-> m, attempt |-> a, seq |-> Lane(m).last + 1, phase |-> "granted"]
           l == [Lane(m) EXCEPT !.last = Lane(m).last + 1, !.queue = [q EXCEPT ![1] = e]]
<1>1. t \in Targets /\ st \in SettlementStates /\ LaneInv /\ Lane(m) \in LaneRecords
  BY MembersOwned, QueueType DEF SettlementTypes, CoreInv
<1>2. q \in Seq(LaneEntries) /\ Len(q) \in Nat /\ DOMAIN q = 1..Len(q)
  BY <1>1, QueueType
<1>3. Index(m, a) = 1 /\ q[1].phase = "queued"
  BY DEF CanGrant, AtHead, Queued
<1>4. 1 \in DOMAIN q /\ q[1].m = m /\ q[1].attempt = a
  BY <1>1, <1>3, IndexOf
<1>5. Lane(m).last + 1 \in Nat
  BY <1>1 DEF LaneRecords
<1>6. e \in LaneEntries /\ e.m = m /\ e.attempt = a /\ e.phase = "granted"
  BY <1>5 DEF LaneEntries
<1>7. st' = [st EXCEPT !.lane[t] = l]
  <2>1. st' = [st EXCEPT !.lane[t].last = Lane(m).last + 1, !.lane[t].queue[1] = e]
    BY <1>3 DEF Grant
  <2> HIDE DEF e
  <2> QED
    BY <1>1, <2>1 DEF SettlementStates, Lane, LaneRecords
<1> HIDE DEF e, q
<1>8. [q EXCEPT ![1] = e] \in Seq(LaneEntries)
  BY <1>2, <1>4, <1>6, ExceptSeq
<1>9. l \in LaneRecords /\ l.queue = [q EXCEPT ![1] = e]
  BY <1>1, <1>5, <1>8 DEF LaneRecords
<1> HIDE DEF l
<1>10. LaneTo(st', t, l)
  BY <1>1, <1>7, <1>9, SetLaneFields
<1>11. k[1] \notin {"start", "retry", "receipt", "query-receipt", "unknown"}
       /\ \A n \in Members : k = <<"grant", n>> => cmd \in Nat
  OBVIOUS
<1>12. ASSUME NEW n \in Members, TargetOf[n] = t PROVE FlightOf(n)' /\ OwedInv(n)'
  <2>1. ~Heads(n, Held) /\ ~Heads(n, {"granted"})
    BY <1>3, <1>12, HeadQueued DEF q
  <2>2. OwedInv(n) /\ FlightOf(n) /\ st'.mem[n].phase = st.mem[n].phase
    BY <1>10 DEF CoreInv, KeyInv, FlightInv, LaneTo
  <2> QED
    BY <1>11, <2>1, <2>2, HeadsKept
<1>13. q # <<>> /\ e.phase \in Held /\ e.phase # "unknown" /\ e.m = q[1].m /\ e.attempt = q[1].attempt
  BY <1>2, <1>4, <1>6 DEF Held
<1> QED
  BY <1>6, <1>9, <1>10, <1>11, <1>12, <1>13, HeadStep DEF t, q

\* The head is marked unknown.
LEMMA MarkStep ==
  ASSUME SettlementTypes, CoreInv, NEW m \in Members,
         AtHead(m, st.mem[m].attempts, "granted"), Phase(m) = "unknown",
         st' = MarkUnknown(m, st.mem[m].attempts), UNCHANGED <<expected, main>>,
         NEW cmd, Noted(<<"lane-unknown", m>>, cmd, "applied")
  PROVE  st' \in SettlementStates /\ CoreInv' /\ StaysClosed /\ st'.mem = st.mem /\ st'.co = st.co
<1> DEFINE t == TargetOf[m]
           a == st.mem[m].attempts
           q == Lane(m).queue
           e == [q[1] EXCEPT !.phase = "unknown"]
           l == [Lane(m) EXCEPT !.queue = [q EXCEPT ![1] = e]]
           k == <<"lane-unknown", m>>
<1>1. t \in Targets /\ st \in SettlementStates /\ LaneInv /\ Lane(m) \in LaneRecords /\ a \in Nat
  BY MembersOwned, QueueType, StateParts DEF SettlementTypes, CoreInv, MemberRecords
<1>2. q \in Seq(LaneEntries) /\ Len(q) \in Nat /\ DOMAIN q = 1..Len(q)
  BY <1>1, QueueType
<1>3. Index(m, a) = 1 /\ q[1].phase = "granted"
  BY DEF AtHead, Queued
<1>4. 1 \in DOMAIN q /\ q[1].m = m /\ q[1].attempt = a
  BY <1>1, <1>3, IndexOf
<1>5. q[1] \in LaneEntries
  BY <1>2, <1>4
<1>6. e \in LaneEntries /\ e.m = m /\ e.attempt = a /\ e.phase = "unknown"
  <2> HIDE DEF q
  <2> QED
    BY <1>4, <1>5 DEF LaneEntries
<1>7. st' = [st EXCEPT !.lane[t] = l]
  <2>1. st' = [st EXCEPT !.lane[t].queue[1].phase = "unknown"]
    BY <1>3 DEF MarkUnknown
  <2> QED
    BY <1>1, <1>4, <2>1 DEF SettlementStates, Lane, LaneRecords
<1> HIDE DEF e, q
<1>8. [q EXCEPT ![1] = e] \in Seq(LaneEntries)
  BY <1>2, <1>4, <1>6, ExceptSeq
<1>9. l \in LaneRecords /\ l.queue = [q EXCEPT ![1] = e]
  BY <1>1, <1>8 DEF LaneRecords
<1> HIDE DEF l
<1>10. LaneTo(st', t, l)
  BY <1>1, <1>7, <1>9, SetLaneFields
<1>11. k[1] \notin {"start", "retry", "receipt", "query-receipt", "unknown"}
       /\ \A n \in Members : k = <<"grant", n>> => cmd \in Nat
  OBVIOUS
<1>12. q # <<>> /\ e.phase \in Held /\ e.m = q[1].m /\ e.attempt = q[1].attempt
       /\ e.attempt <= st.mem[e.m].attempts
  BY <1>1, <1>2, <1>4, <1>6 DEF Held
<1>13. ASSUME NEW n \in Members, TargetOf[n] = t PROVE FlightOf(n)' /\ OwedInv(n)'
  <2>1. /\ OwedInv(n) /\ FlightOf(n) /\ st'.mem = st.mem
        /\ Lane(n)'.queue = [q EXCEPT ![1] = e] /\ Lane(n).queue = q
    BY <1>1, <1>9, <1>10, <1>13, StateParts DEF CoreInv, KeyInv, FlightInv, LaneTo, Lane, q
  <2>2. CASE n # m
    <3>1. ~Heads(n, Held) /\ ~Heads(n, {"granted"})
      BY <1>4, <2>1, <2>2 DEF Heads
    <3> QED
      BY <1>11, <2>1, <3>1, HeadsKept
  <2>3. CASE n = m
    <3>1. Heads(m, Held)'
      <4>1. [q EXCEPT ![1] = e] # <<>> /\ [q EXCEPT ![1] = e][1] = e
        BY <1>2, <1>4
      <4> QED
        BY <1>6, <2>1, <2>3, <4>1 DEF Heads, Held
    <3>2. Phase(m)' = "unknown" /\ ~Settled(m)
      BY <2>1 DEF Phase, Settled
    <3>3. ~OwedUnknown(m)'
      BY KeyFacts DEF OwedUnknown
    <3>4. \A r \in Outcomes : ~OwedResolve(m, r)' /\ ~OwedReconcile(m, r)'
      <4>1. \A r \in Outcomes : ~OwedResolve(m, r) /\ ~OwedReconcile(m, r)
        BY <2>1, <2>3, <3>2 DEF OwedInv
      <4> HIDE DEF k
      <4>2. Noted(k, cmd, "applied")
        BY DEF k
      <4> QED
        BY <1>11, <4>1, <4>2, DebtsOnly
    <3> QED
      BY <2>3, <3>1, <3>2, <3>3, <3>4 DEF FlightOf, OwedInv
  <2> QED
    BY <2>2, <2>3
<1> HIDE DEF k
<1>14. Noted(k, cmd, "applied")
  BY DEF k
<1> QED
  BY <1>6, <1>9, <1>10, <1>11, <1>12, <1>13, <1>14, HeadStep DEF t, q

\* An attempt leaves the queue.
LEMMA RemoveStep ==
  ASSUME SettlementTypes, CoreInv, NEW m \in Members, NEW a \in Nat, Index(m, a) # 0,
         st' = Resolve(m, a), UNCHANGED <<expected, main>>,
         NEW k, NEW cmd, Noted(k, cmd, "applied"),
         k[1] \in {"resolve", "reconcile", "cancel-queued", "supersede-queued"},
         /\ st'.mem = st.mem
         /\ \A n \in Members : TargetOf[n] = TargetOf[m] =>
              (Lane(n)'.queue = RemoveAt(Lane(m).queue, Index(m, a)) =>
                 FlightOf(n)' /\ OwedInv(n)')
  PROVE  st' \in SettlementStates /\ CoreInv' /\ StaysClosed /\ st'.mem = st.mem /\ st'.co = st.co
<1> DEFINE t == TargetOf[m]
           q == Lane(m).queue
           j == Index(m, a)
           p == RemoveAt(q, j)
           l == [Lane(m) EXCEPT !.queue = p, !.resolved = Lane(m).resolved \cup {<<m, a>>}]
<1>1. t \in Targets /\ st \in SettlementStates /\ LaneInv /\ Lane(m) \in LaneRecords
  BY MembersOwned, QueueType DEF SettlementTypes, CoreInv
<1>2. q \in Seq(LaneEntries) /\ Len(q) \in Nat /\ DOMAIN q = 1..Len(q)
  BY <1>1, QueueType
<1>3. j \in 1..Len(q)
  BY <1>1, <1>2, IndexOf
<1>4. st' = [st EXCEPT !.lane[t] = l]
  <2>1. st' = [st EXCEPT !.lane[t].queue = RemoveAt(@, j), !.lane[t].resolved = @ \cup {<<m, a>>}]
    BY DEF Resolve
  <2> HIDE DEF j
  <2> QED
    BY <1>1, <2>1 DEF SettlementStates, Lane, LaneRecords
<1> HIDE DEF q, j
<1>5. p \in Seq(LaneEntries) /\ Len(p) = Len(q) - 1
      /\ \A i \in 1..(Len(q) - 1) : p[i] = IF i < j THEN q[i] ELSE q[i + 1]
  BY <1>2, <1>3, RemoveAtFields
<1> HIDE DEF p
<1>6. l \in LaneRecords /\ l.queue = p
  <2>1. Lane(m).resolved \cup {<<m, a>>} \in SUBSET (Members \X Nat)
    BY <1>1 DEF LaneRecords
  <2> QED
    BY <1>1, <1>5, <2>1 DEF LaneRecords
<1> HIDE DEF l
<1>7. LaneTo(st', t, l)
  BY <1>1, <1>4, <1>6, SetLaneFields
<1>8. st'.mem = st.mem /\ st'.co = st.co
      /\ \A n \in Members : TargetOf[n] = t => Lane(n)'.queue = p /\ Lane(n).queue = q
  BY <1>1, <1>6, <1>7, StateParts DEF LaneTo, Lane, q
<1>9. /\ \A i, h \in DOMAIN q : q[i].m = q[h].m /\ q[i].attempt = q[h].attempt => i = h
      /\ \A i \in DOMAIN q :
           /\ q[i].phase # "queued" => i = 1
           /\ q[i].phase = "queued" => q[i].seq = 0
           /\ q[i].phase = "unknown" => q[i].attempt <= st.mem[q[i].m].attempts
  BY <1>1 DEF LaneInv, LaneOK, Lane, q
<1>10. DOMAIN p = 1..(Len(q) - 1)
  BY <1>5
<1>11. ASSUME NEW i \in DOMAIN p
       PROVE  \E h \in DOMAIN q : p[i] = q[h] /\ (h = IF i < j THEN i ELSE i + 1)
  BY <1>2, <1>3, <1>5, <1>10
<1>12. \A i, h \in DOMAIN l.queue :
         l.queue[i].m = l.queue[h].m /\ l.queue[i].attempt = l.queue[h].attempt => i = h
  <2> SUFFICES ASSUME NEW i \in DOMAIN p, NEW h \in DOMAIN p, p[i].m = p[h].m,
                      p[i].attempt = p[h].attempt
               PROVE  i = h
    BY <1>6
  <2>1. PICK x \in DOMAIN q : p[i] = q[x] /\ (x = IF i < j THEN i ELSE i + 1)
    BY <1>11
  <2>2. PICK y \in DOMAIN q : p[h] = q[y] /\ (y = IF h < j THEN h ELSE h + 1)
    BY <1>11
  <2>3. x = y
    BY <1>9, <2>1, <2>2
  <2> QED
    BY <1>2, <1>3, <1>10, <2>1, <2>2, <2>3
<1>13. \A i \in DOMAIN l.queue :
         /\ l.queue[i].phase # "queued" => i = 1
         /\ l.queue[i].phase = "queued" => l.queue[i].seq = 0
         /\ l.queue[i].phase = "unknown" => l.queue[i].attempt <= st.mem[l.queue[i].m].attempts
  <2> SUFFICES ASSUME NEW i \in DOMAIN p
               PROVE  /\ p[i].phase # "queued" => i = 1
                      /\ p[i].phase = "queued" => p[i].seq = 0
                      /\ p[i].phase = "unknown" => p[i].attempt <= st.mem[p[i].m].attempts
    BY <1>6
  <2>1. PICK x \in DOMAIN q : p[i] = q[x] /\ (x = IF i < j THEN i ELSE i + 1)
    BY <1>11
  <2>2. x = 1 => i = 1
    BY <1>2, <1>3, <1>10, <2>1
  <2> QED
    BY <1>9, <2>1, <2>2
<1>14. ASSUME NEW n \in Members, TargetOf[n] = t, Waits(n)', Phase(n) \in {"pending", "passed"}
       PROVE  Waits(n) \/ st.co[DeclOf(n)].phase \notin Early
  <2>1. PICK i \in DOMAIN p : p[i].m = n /\ p[i].attempt = 1 /\ p[i].phase = "queued"
    BY <1>8, <1>14 DEF Waits
  <2>2. PICK x \in DOMAIN q : p[i] = q[x]
    BY <1>11
  <2> QED
    BY <1>8, <1>14, <2>1, <2>2 DEF Waits
<1>15. \A n \in Members : TargetOf[n] = t => FlightOf(n)' /\ OwedInv(n)'
  BY <1>8 DEF p, q, j
<1>16. k[1] \notin {"start", "retry", "receipt", "query-receipt", "unknown"}
       /\ \A n \in Members : k = <<"grant", n>> => cmd \in Nat
  OBVIOUS
<1> HIDE DEF t
<1>17. st' \in SettlementStates /\ CoreInv' /\ StaysClosed
  BY <1>1, <1>7, <1>12, <1>13, <1>14, <1>15, <1>16, LaneStep
<1> QED
  BY <1>8, <1>17

\* A waiting attempt leaves the queue.
LEMMA WithdrawStep ==
  ASSUME SettlementTypes, CoreInv, NEW m \in Members, NEW a \in Nat, Queued(m, a, "queued"),
         st' = Resolve(m, a), UNCHANGED <<expected, main>>,
         NEW k, NEW cmd, Noted(k, cmd, "applied"), k[1] \in {"cancel-queued", "supersede-queued"}
  PROVE  st' \in SettlementStates /\ CoreInv' /\ StaysClosed /\ st'.mem = st.mem /\ st'.co = st.co
<1> DEFINE q == Lane(m).queue
           j == Index(m, a)
           p == RemoveAt(q, j)
<1>1. st \in SettlementStates /\ LaneInv
  BY DEF SettlementTypes, CoreInv
<1>2. q \in Seq(LaneEntries) /\ Len(q) \in Nat /\ DOMAIN q = 1..Len(q)
  BY <1>1, QueueType
<1>3. j # 0 /\ j \in 1..Len(q) /\ q[j].phase = "queued"
  BY <1>1, <1>2, IndexOf DEF Queued
<1>4. st'.mem = st.mem
  BY <1>1 DEF Resolve, SettlementStates
<1>5. ASSUME NEW n \in Members, TargetOf[n] = TargetOf[m], Lane(n)'.queue = p
      PROVE  FlightOf(n)' /\ OwedInv(n)'
  <2>1. Lane(n).queue = q /\ OwedInv(n) /\ FlightOf(n)
    BY <1>5 DEF Lane, CoreInv, KeyInv, FlightInv
  <2>2. CASE j = 1
    <3>1. ~Heads(n, Held) /\ ~Heads(n, {"granted"})
      BY <1>3, <1>5, <2>2, HeadQueued
    <3> QED
      BY <1>4, <2>1, <3>1, HeadsKept
  <2>3. CASE j # 1
    <3> HIDE DEF q, j
    <3>1. p # <<>> /\ p[1] = q[1]
      <4>1. p \in Seq(LaneEntries) /\ Len(p) = Len(q) - 1
            /\ \A i \in 1..(Len(q) - 1) : p[i] = IF i < j THEN q[i] ELSE q[i + 1]
        BY <1>2, <1>3, RemoveAtFields
      <4>2. 1 \in 1..(Len(q) - 1) /\ 1 < j
        BY <1>2, <1>3, <2>3
      <4> HIDE DEF p
      <4> QED
        BY <4>1, <4>2
    <3> HIDE DEF p
    <3>2. /\ Heads(n, {"granted"}) => Heads(n, {"granted"})'
          /\ Heads(n, Held) => Heads(n, Held)'
      BY <1>4, <1>5, <2>1, <3>1 DEF Heads, Held
    <3> QED
      BY <1>4, <2>1, <3>2, HeadsKept
  <2> QED
    BY <2>2, <2>3
<1> QED
  BY <1>3, <1>4, <1>5, RemoveStep

\* The head, of a settled member, leaves the queue, and nothing is owed.
LEMMA FinishStep ==
  ASSUME SettlementTypes, CoreInv, NEW m \in Members, NEW a \in Nat, NEW phase,
         AtHead(m, a, phase), Settled(m), st' = Resolve(m, a), UNCHANGED <<expected, main>>,
         NEW k, NEW cmd, Noted(k, cmd, "applied"), k[1] \in {"resolve", "reconcile"},
         ~OwedUnknown(m)', \A r \in Outcomes : ~OwedResolve(m, r)' /\ ~OwedReconcile(m, r)'
  PROVE  st' \in SettlementStates /\ CoreInv' /\ StaysClosed /\ st'.mem = st.mem /\ st'.co = st.co
<1>1. st \in SettlementStates /\ LaneInv
  BY DEF SettlementTypes, CoreInv
<1>2. Index(m, a) = 1 /\ Lane(m).queue[1].m = m
  BY <1>1, IndexOf DEF AtHead, Queued
<1>3. st'.mem = st.mem
  BY <1>1 DEF Resolve, SettlementStates
<1>4. ASSUME NEW n \in Members, TargetOf[n] = TargetOf[m] PROVE FlightOf(n)' /\ OwedInv(n)'
  <2>1. CASE n = m
    BY <1>3, <2>1 DEF FlightOf, OwedInv, Settled, Phase
  <2>2. CASE n # m
    <3>1. ~Heads(n, Held) /\ ~Heads(n, {"granted"})
      BY <1>2, <1>4, <2>2 DEF Heads, Lane
    <3>2. OwedInv(n) /\ FlightOf(n)
      BY DEF CoreInv, KeyInv, FlightInv
    <3> QED
      BY <1>3, <3>1, <3>2, HeadsKept
  <2> QED
    BY <2>1, <2>2
<1> QED
  BY <1>2, <1>3, <1>4, RemoveStep

\* The invariant, declaration by declaration.
LEMMA DeclParts == DeclInv <=> \A d \in Decls : DeclOK(d)
BY DEF DeclInv, DeclOK

\* What an untouched declaration keeps.
LEMMA DeclKept ==
  ASSUME NEW d \in Decls, DeclOK(d), st'.co[d] = st.co[d],
         \A m \in Own(d) : st'.mem[m].phase = st.mem[m].phase, st'.lane = st.lane,
         NEW k, NEW cmd, NEW status, Noted(k, cmd, status)
  PROVE  DeclOK(d)'
<1>1. \A m \in Own(d) : Phase(m)' = Phase(m) /\ (Waits(m)' <=> Waits(m))
  BY DEF Phase, Waits, Lane
<1>2. Fresh(<<"declare", d>>)' => Fresh(<<"declare", d>>)
  BY KeyFacts
<1> QED
  BY <1>1, <1>2 DEF DeclOK, Own

\* A declaration's phase changes, and nothing else.
LEMMA PhaseStep ==
  ASSUME SettlementTypes, CoreInv, NEW d \in Decls, NEW p \in Phases, st' = SetPhase(st, d, p),
         UNCHANGED main, \A m \in Members : expected'[m] = expected[m] \/ Absent(m),
         NEW k, NEW cmd, Noted(k, cmd, "applied"),
         k[1] \notin {"grant", "start", "retry", "receipt", "query-receipt", "unknown"},
         st.co[d].phase = "undeclared" => k = <<"declare", d>>,
         st.co[d].phase \notin {"completed", "refused", "cancelled"},
         p \in Early => st.co[d].started = 0 /\
                        \A m \in Own(d) : Phase(m) \in {"pending", "passed"} => ~Waits(m),
         p \notin Early => st.co[d].phase \notin Early,
         p \notin {"undeclared", "completed", "ready"},
         p = "compensated" =>
           \A m \in Own(d) \ Proposals : Phase(m) = "succeeded" => RepairedBy(d, m)
  PROVE  st' \in SettlementStates /\ CoreInv' /\ StaysClosed /\ st'.mem = st.mem
         /\ st'.lane = st.lane
<1>1. st \in SettlementStates
  BY DEF SettlementTypes
<1>2. /\ st' \in SettlementStates
      /\ st'.co = [st.co EXCEPT ![d] = [phase |-> p, started |-> st.co[d].started]]
      /\ st'.mem = st.mem /\ st'.lane = st.lane
  BY <1>1, SetPhaseFields
<1>3. st'.co[d].phase = p /\ st'.co[d].started = st.co[d].started
      /\ \A e \in Decls : e # d => st'.co[e] = st.co[e]
  BY <1>1, <1>2, StateParts
<1>4. DeclInv'
  <2> SUFFICES ASSUME NEW e \in Decls PROVE DeclOK(e)'
    BY DEF DeclInv, DeclOK
  <2>1. DeclOK(e)
    BY DeclParts DEF CoreInv
  <2>2. CASE e # d
    BY <1>2, <1>3, <2>1, <2>2, DeclKept
  <2>3. CASE e = d
    <3>1. \A m \in Own(d) : Phase(m)' = Phase(m) /\ (Waits(m)' <=> Waits(m))
      BY <1>2 DEF Phase, Waits, Lane
    <3>2. ~Fresh(<<"declare", d>>)'
      <4>1. CASE st.co[d].phase = "undeclared"
        BY <4>1, KeyFacts
      <4>2. CASE st.co[d].phase # "undeclared"
        BY <2>1, <2>3, <4>2, KeyFacts DEF DeclOK
      <4> QED
        BY <4>1, <4>2
    <3> QED
      BY <1>3, <2>1, <2>3, <3>1, <3>2 DEF DeclOK, Own
  <2> QED
    BY <2>2, <2>3
<1>5. LaneInv'
  BY <1>2 DEF CoreInv, LaneInv
<1>6. \A m \in Members : OwedInv(m)' /\ FlightOf(m)'
  BY <1>2, DebtsKept DEF CoreInv, KeyInv, FlightInv
<1>7. \A m \in Members : GrantInv(m)'
  <2>1. \A m \in Members : st.mem[m].attempts \in Nat
    BY <1>1, StateParts DEF MemberRecords
  <2>2. KeyInv /\ k[1] \notin {"start", "retry"} /\ \A m \in Members : k = <<"grant", m>> => cmd \in Nat
    BY DEF CoreInv
  <2> QED
    BY <1>2, <2>1, <2>2, GrantsKept
<1>8. \A m, i : InMain(m, i)' <=> InMain(m, i)
  BY DEF InMain
<1>9. \A m \in Members : \A i \in Nat : InMain(m, i) => expected'[m] = expected[m]
  BY DEF InMain, Absent
<1>10. MainInv'
  <2>1. \A m : Absent(m)' <=> Absent(m)
    BY DEF Absent
  <2> QED
    BY <1>2, <1>8, <1>9, <2>1 DEF CoreInv, MainInv, Phase
<1>11. RepairInv'
  <2> SUFFICES ASSUME NEW e \in Decls, st'.co[e].phase = "compensated",
                      NEW m \in Own(e) \ Proposals, Phase(m)' = "succeeded"
               PROVE  RepairedBy(e, m)'
    BY DEF RepairInv, RepairedBy, Own
  <2>1. Phase(m) = "succeeded"
    BY <1>2 DEF Phase
  <2>2. RepairedBy(e, m)
    BY <1>3, <2>1 DEF CoreInv, RepairInv, RepairedBy
  <2> QED
    BY <1>8, <1>9, <2>2 DEF RepairedBy, Own
<1>12. StaysClosed
  BY <1>3 DEF StaysClosed
<1> QED
  BY <1>2, <1>4, <1>5, <1>6, <1>7, <1>10, <1>11, <1>12 DEF CoreInv, KeyInv, FlightInv

\* A member changes, and its declaration's phase and count with it.
LEMMA MemberStep ==
  ASSUME SettlementTypes, CoreInv, NEW m \in Members, NEW r, NEW p, NEW s,
         MovesTo(st', m, r, p, s), UNCHANGED <<expected, main>>,
         NEW k, NEW cmd, Noted(k, cmd, "applied"), k[1] # "grant", k[2] = m,
         st.co[DeclOf(m)].phase \notin {"undeclared", "completed", "refused", "cancelled"},
         p \in Early \cup {"ready"} => s = 0,
         s = 0 => st.co[DeclOf(m)].started = 0 /\ r.phase \in {"pending", "passed", "superseded"},
         p \notin Early => /\ r.phase # "pending"
                           /\ \A n \in Own(DeclOf(m)) : n # m => Phase(n) # "pending",
         p = "completed" => \A n \in Own(DeclOf(m)) : st'.mem[n].phase = "succeeded",
         p \in Early => st.co[DeclOf(m)].phase \in Early /\ Phase(m) \in {"pending", "passed"},
         p \notin {"undeclared", "compensated"},
         st.mem[m].attempts <= r.attempts,
         r.phase \notin {"started", "unknown", "succeeded"} => Absent(m),
         m \notin Proposals /\ r.phase = "succeeded" =>
           r.receipt # None /\ InMain(m, r.receipt[2]),
         FlightOf(m)', OwedInv(m)', GrantInv(m)'
  PROVE  st' \in SettlementStates /\ CoreInv' /\ StaysClosed
<1> DEFINE d == DeclOf(m)
<1>1. st \in SettlementStates
  BY DEF SettlementTypes
<1>2. /\ st' \in SettlementStates
      /\ st'.mem = [st.mem EXCEPT ![m] = r]
      /\ st'.co = [st.co EXCEPT ![d] = [phase |-> p, started |-> s]]
      /\ st'.lane = st.lane
  BY DEF MovesTo
<1>3. d \in Decls /\ m \in Own(d)
  BY MembersOwned
<1>4. /\ st'.co[d].phase = p /\ st'.co[d].started = s
      /\ \A e \in Decls : e # d => st'.co[e] = st.co[e]
  BY <1>1, <1>2, <1>3, StateParts
<1>5. st'.mem[m] = r /\ \A n \in Members : n # m => st'.mem[n] = st.mem[n]
  BY <1>1, <1>2, StateParts
<1>6. Phase(m)' = r.phase /\ \A n \in Members : n # m => Phase(n)' = Phase(n)
  BY <1>5 DEF Phase
<1>7. \A n \in Members : Waits(n)' <=> Waits(n)
  BY <1>2 DEF Waits, Lane
<1>8. \A n \in Own(d) : n \in Members
  BY <1>3, MembersOwned
<1>9. DeclOK(d)
  BY <1>3, DeclParts DEF CoreInv
<1>10. DeclInv'
  <2> SUFFICES ASSUME NEW e \in Decls PROVE DeclOK(e)'
    BY DEF DeclInv, DeclOK
  <2>1. CASE e # d
    <3>1. \A n \in Own(e) : n \in Members /\ n # m
      BY <1>3, <2>1, MembersOwned
    <3>2. DeclOK(e) /\ st'.co[e] = st.co[e]
      BY <1>4, <2>1, DeclParts DEF CoreInv
    <3>3. \A n \in Own(e) : st'.mem[n].phase = st.mem[n].phase
      BY <1>5, <3>1
    <3> QED
      BY <1>2, <3>2, <3>3, DeclKept
  <2>2. CASE e = d
    <3>1. ~Fresh(<<"declare", d>>)'
      BY <1>9, KeyFacts DEF DeclOK
    <3>2. (st.co[d].phase \in Early \cup {"ready"} => st.co[d].started = 0)'
      BY <1>4
    <3>3. (st.co[d].started = 0 =>
             \A n \in Own(d) : Phase(n) \in {"pending", "passed", "superseded"})'
      BY <1>4, <1>6, <1>8, <1>9 DEF DeclOK, Own
    <3>4. (st.co[d].phase \notin Early => \A n \in Own(d) : Phase(n) # "pending")'
      BY <1>4, <1>6, <1>8 DEF Own
    <3>5. (st.co[d].phase = "undeclared" => \A n \in Own(d) : Phase(n) = "pending")'
      BY <1>4
    <3>6. (st.co[d].phase = "completed" => \A n \in Own(d) : Phase(n) = "succeeded")'
      BY <1>4 DEF Phase, Own
    <3>7. (st.co[d].phase \in Early =>
             \A n \in Own(d) : Phase(n) \in {"pending", "passed"} => ~Waits(n))'
      BY <1>3, <1>4, <1>6, <1>7, <1>8, <1>9 DEF DeclOK, Own
    <3> QED
      BY <2>2, <3>1, <3>2, <3>3, <3>4, <3>5, <3>6, <3>7 DEF DeclOK
  <2> QED
    BY <2>1, <2>2
<1>11. \A n \in Members : /\ st.mem[n].attempts \in Nat /\ st'.mem[n].attempts \in Nat
                          /\ st.mem[n].attempts <= st'.mem[n].attempts
  <2>1. \A n \in Members : st.mem[n].attempts \in Nat
    BY <1>1, StateParts DEF MemberRecords
  <2>2. \A n \in Members : st'.mem[n].attempts \in Nat
    BY <1>2 DEF SettlementStates, MemberRecords
  <2> QED
    BY <1>5, <2>1, <2>2
<1>12. LaneInv'
  <2> SUFFICES ASSUME NEW u \in Targets
               PROVE  LaneOK(st.lane[u].queue, st'.mem)
    BY <1>2 DEF LaneInv
  <2> DEFINE q == st.lane[u].queue
  <2>1. q \in Seq(LaneEntries)
    BY <1>1, StateParts DEF LaneRecords
  <2>2. /\ \A i, j \in DOMAIN q : q[i].m = q[j].m /\ q[i].attempt = q[j].attempt => i = j
        /\ \A i \in DOMAIN q :
             /\ q[i].phase # "queued" => i = 1
             /\ q[i].phase = "queued" => q[i].seq = 0
             /\ q[i].phase = "unknown" => q[i].attempt <= st.mem[q[i].m].attempts
    BY DEF CoreInv, LaneInv, LaneOK
  <2> HIDE DEF q
  <2>3. \A i \in DOMAIN q : q[i].m \in Members /\ q[i].attempt \in Nat
    <3> SUFFICES ASSUME NEW i \in DOMAIN q PROVE q[i].m \in Members /\ q[i].attempt \in Nat
      OBVIOUS
    <3>1. q[i] \in LaneEntries
      BY <2>1
    <3> QED
      BY <3>1 DEF LaneEntries
  <2>4. \A i \in DOMAIN q : q[i].phase = "unknown" => q[i].attempt <= st'.mem[q[i].m].attempts
    <3> SUFFICES ASSUME NEW i \in DOMAIN q, q[i].phase = "unknown"
                 PROVE  q[i].attempt <= st'.mem[q[i].m].attempts
      OBVIOUS
    <3>1. q[i].attempt <= st.mem[q[i].m].attempts /\ q[i].m \in Members /\ q[i].attempt \in Nat
      BY <2>2, <2>3
    <3>2. /\ st.mem[q[i].m].attempts \in Nat /\ st'.mem[q[i].m].attempts \in Nat
          /\ st.mem[q[i].m].attempts <= st'.mem[q[i].m].attempts
      BY <1>11, <3>1
    <3> QED
      BY <3>1, <3>2
  <2> QED
    BY <2>2, <2>4 DEF q, LaneOK
<1>13. \A n \in Members : OwedInv(n)' /\ FlightOf(n)'
  <2> SUFFICES ASSUME NEW n \in Members, n # m PROVE OwedInv(n)' /\ FlightOf(n)'
    OBVIOUS
  <2>1. OwedInv(n) /\ FlightOf(n) /\ k[2] # n
    BY DEF CoreInv, KeyInv, FlightInv
  <2> QED
    BY <1>2, <1>5, <2>1, DebtsKept
<1>14. \A n \in Members : GrantInv(n)'
  <2> SUFFICES ASSUME NEW n \in Members, n # m PROVE GrantInv(n)'
    OBVIOUS
  <2>1. GrantInv(n) /\ k[2] # n /\ k # <<"grant", n>>
    BY DEF CoreInv, KeyInv
  <2> QED
    BY <1>11, <2>1, GrantKept
<1>15. \A n, i : InMain(n, i)' <=> InMain(n, i)
  BY DEF InMain
<1>16. MainInv'
  <2>1. \A n : Absent(n)' <=> Absent(n)
    BY DEF Absent
  <2> SUFFICES ASSUME NEW n \in Members
               PROVE  (/\ \A i \in Nat :
                           InMain(n, i) => expected[n] < i /\ \A j \in Nat : InMain(n, j) => i = j
                       /\ Phase(n) \notin {"started", "unknown", "succeeded"} => Absent(n)
                       /\ n \notin Proposals /\ Phase(n) = "succeeded" =>
                            st.mem[n].receipt # None /\ InMain(n, st.mem[n].receipt[2]))'
    BY DEF MainInv
  <2>2. /\ \A i \in Nat :
             InMain(n, i) => expected[n] < i /\ \A j \in Nat : InMain(n, j) => i = j
        /\ Phase(n) \notin {"started", "unknown", "succeeded"} => Absent(n)
        /\ n \notin Proposals /\ Phase(n) = "succeeded" =>
             st.mem[n].receipt # None /\ InMain(n, st.mem[n].receipt[2])
    BY DEF CoreInv, MainInv
  <2> QED
    BY <1>5, <1>6, <1>15, <2>1, <2>2
<1>17. RepairInv'
  <2> SUFFICES ASSUME NEW e \in Decls, st'.co[e].phase = "compensated",
                      NEW n \in Own(e) \ Proposals, Phase(n)' = "succeeded"
               PROVE  RepairedBy(e, n)'
    BY DEF RepairInv, RepairedBy, Own
  <2>1. e # d /\ st.co[e].phase = "compensated"
    BY <1>4
  <2>2. n \in Members /\ n # m
    BY <1>3, <2>1, MembersOwned
  <2>3. RepairedBy(e, n)
    BY <1>6, <2>1, <2>2 DEF CoreInv, RepairInv, RepairedBy
  <2> QED
    BY <1>15, <2>3 DEF RepairedBy, Own
<1>18. StaysClosed
  BY <1>4 DEF StaysClosed
<1> QED
  BY <1>2, <1>10, <1>12, <1>13, <1>14, <1>16, <1>17, <1>18 DEF CoreInv, KeyInv, FlightInv

\* What an operation carries, by its kind and step.
LEMMA OpShape ==
  ASSUME op \in Operations
  PROVE  /\ op.kind = "preflight" => op \in Preflights
         /\ op.kind = "member" /\ op.step \in Asking \cup {"effect"} => op \in Attempts
         /\ op.kind = "member" /\ op.step \in Acting \cup {"resolve", "lane-unknown"} =>
              op \in Effected
         /\ op.kind = "query" /\ op.step \in {"request", "observe"} => op \in Queries
         /\ op.kind = "query" /\ op.step \in {"receipt", "reconcile"} => op \in Answered
         /\ op.kind = "cancel" => op \in Cancels
         /\ op.kind = "supersede" => op \in Supersedes
<1> USE DEF Operations, SettlementIdle
<1>1. op.kind = "preflight" => op \in Preflights
  BY DEF Attempts, Effected, Queries, Answered, Cancels, Supersedes
<1>2. op.kind = "member" /\ op.step \in Asking \cup {"effect"} => op \in Attempts
  BY DEF Preflights, Effected, Queries, Answered, Cancels, Supersedes, Asking, Acting
<1>3. op.kind = "member" /\ op.step \in Acting \cup {"resolve", "lane-unknown"} => op \in Effected
  BY DEF Preflights, Attempts, Queries, Answered, Cancels, Supersedes, Asking, Acting
<1>4. op.kind = "query" /\ op.step \in {"request", "observe"} => op \in Queries
  BY DEF Preflights, Attempts, Effected, Answered, Cancels, Supersedes
<1>5. op.kind = "query" /\ op.step \in {"receipt", "reconcile"} => op \in Answered
  BY DEF Preflights, Attempts, Effected, Queries, Cancels, Supersedes
<1>6. op.kind = "cancel" => op \in Cancels
  BY DEF Preflights, Attempts, Effected, Queries, Answered, Supersedes
<1>7. op.kind = "supersede" => op \in Supersedes
  BY DEF Preflights, Attempts, Effected, Queries, Answered, Cancels
<1> QED
  BY <1>1, <1>2, <1>3, <1>4, <1>5, <1>6, <1>7

\* Parts of the invariant that the steps use.
LEMMA InvParts ==
  ASSUME SettlementInv
  PROVE  /\ SettlementTypes /\ CoreInv /\ OpInv /\ op \in Operations /\ st \in SettlementStates
         /\ DeclInv /\ LaneInv /\ MainInv /\ RepairInv
         /\ expected \in [Members -> Nat] /\ known \in [Targets -> Nat]
         /\ main \in [Targets -> Seq(Members \cup {None})]
         /\ targetEdits \in Nat /\ crashes \in Nat
         /\ \A m \in Members : FlightOf(m) /\ OwedInv(m) /\ GrantInv(m)
         /\ \A d \in Decls : DeclOK(d)
         /\ \A m \in Members : st.mem[m] \in MemberRecords /\ st.mem[m].attempts \in Nat
BY StateParts, DeclParts DEF SettlementInv, SettlementTypes, CoreInv, FlightInv, KeyInv, MemberRecords

\* What the folds and the commands say is the same when they are.
LEMMA SameFacts ==
  ASSUME UNCHANGED <<st, keys>>
  PROVE  /\ \A n : Phase(n)' = Phase(n) /\ (Settled(n)' <=> Settled(n))
         /\ \A k : Fresh(k)' <=> Fresh(k)
         /\ \A n : OwedUnknown(n)' <=> OwedUnknown(n)
         /\ \A n, r : OwedResolve(n, r)' <=> OwedResolve(n, r)
         /\ \A n, r : OwedReconcile(n, r)' <=> OwedReconcile(n, r)
<1>1. \A n : Phase(n)' = Phase(n) /\ (Settled(n)' <=> Settled(n))
  BY DEF Phase, Settled
<1>2. \A k : (Fresh(k)' <=> Fresh(k)) /\ (Applied(k)' <=> Applied(k))
  BY DEF Fresh, Applied
<1> QED
  BY <1>1, <1>2 DEF OwedUnknown, OwedResolve, OwedReconcile

\* The steps that touch nothing but the operation.
LEMMA EndStep ==
  ASSUME SettlementInv, UNCHANGED <<st, keys, expected, main, known, targetEdits>>,
         op' = SettlementIdle, crashes' \in Nat
  PROVE  SettlementInv' /\ StaysClosed
BY InvParts, IdleOp, OpStep

\* A request is taken up.
LEMMA BeginStep ==
  ASSUME SettlementInv, NEW o \in Operations, Begin(o), op' = o => OpInv'
  PROVE  SettlementInv' /\ StaysClosed
BY InvParts, OpStep DEF Begin, Targets_

\* A member's execution is requested.
LEMMA ExecuteStep ==
  ASSUME SettlementInv, NEW m \in Members, Execute(m)
  PROVE  SettlementInv' /\ StaysClosed
<1> DEFINE o == [kind |-> "member", m |-> m, attempt |-> st.mem[m].attempts + 1, step |-> "grant"]
<1>1. o \in Operations
  BY InvParts DEF Operations, Attempts, Asking
<1>2. op' = o /\ UNCHANGED st => OpInv'
  BY DEF OpInv, Asking, Acting
<1>3. Begin(o)
  BY DEF Execute
<1> QED
  BY <1>1, <1>2, <1>3, BeginStep DEF Begin

\* A retry is requested: of a failed member only, which the panel sees to.
LEMMA RetryStep ==
  ASSUME SettlementInv, NEW m \in Members, Retry(m), Panel
  PROVE  SettlementInv' /\ StaysClosed
<1> DEFINE o == [kind |-> "member", m |-> m, attempt |-> st.mem[m].attempts + 1, step |-> "enqueue"]
<1>1. o \in Operations
  BY InvParts DEF Operations, Attempts, Asking
<1>2. op' = o /\ UNCHANGED st => OpInv'
  BY DEF OpInv, Asking, Acting, Retry, Offered, Phase
<1>3. Begin(o)
  BY DEF Retry
<1> QED
  BY <1>1, <1>2, <1>3, BeginStep DEF Begin

\* A query of a member is requested.
LEMMA QueryStep ==
  ASSUME SettlementInv, NEW m \in Members, Query(m)
  PROVE  SettlementInv' /\ StaysClosed
<1> DEFINE o == [kind |-> "query", m |-> m, step |-> "request"]
<1>1. o \in Operations
  BY DEF Operations, Queries
<1>2. op' = o /\ UNCHANGED st => OpInv'
  BY DEF OpInv, Query, Settled, Phase
<1>3. Begin(o)
  BY DEF Query
<1> QED
  BY <1>1, <1>2, <1>3, BeginStep DEF Begin

\* A cancellation is requested.
LEMMA CancelStep ==
  ASSUME SettlementInv, NEW d \in Decls, Cancel(d)
  PROVE  SettlementInv' /\ StaysClosed
<1> DEFINE o == [kind |-> "cancel", d |-> d, step |-> "lanes"]
<1>1. o \in Operations
  BY DEF Operations, Cancels
<1>2. op' = o => OpInv'
  BY DEF OpInv
<1>3. Begin(o)
  BY DEF Cancel
<1> QED
  BY <1>1, <1>2, <1>3, BeginStep

\* A member is to be superseded: it waits in its lane, so its declaration is
\* past preflight.
LEMMA SupersedeStep ==
  ASSUME SettlementInv, NEW n \in Members, NEW m \in Members, Supersede(n, m)
  PROVE  SettlementInv' /\ StaysClosed
<1> DEFINE o == [kind |-> "supersede", n |-> n, m |-> m, step |-> "lane"]
<1>1. o \in Operations
  BY DEF Operations, Supersedes
<1>2. st.co[DeclOf(n)].phase \notin Early
  <2>1. DeclOK(DeclOf(n)) /\ n \in Own(DeclOf(n))
    BY InvParts, MembersOwned
  <2>2. Waits(n) /\ Phase(n) \in {"pending", "passed"}
    BY InvParts, WaitsQueued DEF Supersede
  <2> QED
    BY <2>1, <2>2 DEF DeclOK
<1>3. op' = o /\ UNCHANGED st => OpInv'
  BY <1>2 DEF OpInv
<1>4. Begin(o)
  BY DEF Supersede
<1> QED
  BY <1>1, <1>3, <1>4, BeginStep DEF Begin

\* A query reads the target; what it answers is true of the history.
LEMMA ObserveStep ==
  ASSUME SettlementInv, NEW m \in Members, Observe(m)
  PROVE  SettlementInv' /\ StaysClosed
<1> DEFINE t == main[TargetOf[m]]
<1>1. t \in Seq(Members \cup {None}) /\ expected[m] \in Nat
  BY InvParts, MembersOwned
<1>2. ~Settled(m)
  BY InvParts DEF Observe, At, OpInv
<1>3. UNCHANGED <<st, keys, expected, main, known, targetEdits, crashes>>
  BY DEF Observe, Targets_
<1>4. PICK r : r = QueryAnswer(m)
  OBVIOUS
<1>5. CASE r = None
  BY <1>3, <1>4, <1>5, InvParts, EndStep DEF Observe
<1>6. CASE r # None
  <2>1. op' = [kind |-> "query", m |-> m, step |-> "receipt", receipt |-> r]
    BY <1>4, <1>6 DEF Observe
  <2>2. r \in Outcomes /\ Truthful(m, r)
    <3>1. CASE t # <<>> /\ Last(t) = m
      <4>1. Len(t) \in DOMAIN t /\ t[Len(t)] = m /\ Len(t) \in Nat
        BY <1>1, <3>1 DEF Last
      <4>2. expected[m] < Len(t)
        BY <4>1, InvParts DEF MainInv, InMain
      <4>3. r = <<"succeeded", Len(t)>>
        BY <1>1, <1>4, <3>1, <4>1, <4>2 DEF QueryAnswer
      <4> HIDE DEF t
      <4> QED
        BY <4>1, <4>3 DEF Outcomes, Truthful, InMain, t
    <3>2. CASE ~(t # <<>> /\ Last(t) = m) /\ Len(t) = expected[m]
      <4>1. r = <<"failed", "query">>
        BY <1>4, <3>2 DEF QueryAnswer
      <4>2. Absent(m)
        <5> SUFFICES ASSUME NEW i \in DOMAIN t, t[i] = m PROVE FALSE
          BY DEF Absent
        <5>1. i \in Nat /\ i <= Len(t) /\ InMain(m, i)
          BY <1>1 DEF InMain
        <5>2. expected[m] < i
          BY <5>1, InvParts DEF MainInv
        <5> QED
          BY <1>1, <3>2, <5>1, <5>2
      <4> QED
        BY <4>1, <4>2 DEF Outcomes, Truthful
    <3>3. CASE ~(t # <<>> /\ Last(t) = m) /\ Len(t) # expected[m]
      BY <1>4, <1>6, <3>3 DEF QueryAnswer
    <3> QED
      BY <3>1, <3>2, <3>3
  <2>3. op' \in Operations
    BY <2>1, <2>2 DEF Operations, Answered
  <2>4. OpInv'
    <3>1. ~Settled(m)' /\ Truthful(m, r)'
      BY <1>2, <1>3, <2>2 DEF Settled, Phase, Truthful, Absent, InMain
    <3> QED
      BY <1>6, <2>1, <3>1 DEF OpInv
  <2> QED
    BY <1>3, <2>3, <2>4, InvParts, OpStep
<1> QED
  BY <1>5, <1>6

(* The durable steps, one by one *)

\* The first attempt is granted its lane.
LEMMA GrantMemberStep ==
  ASSUME SettlementInv, NEW m \in Members, GrantMember(m)
  PROVE  SettlementInv' /\ StaysClosed
<1> DEFINE k == <<"grant", m>>
           ok == CanGrant(m, op.attempt)
           fold == Grant(m, op.attempt)
           next == OnTo("start")
<1>1. op.kind = "member" /\ op.step = "grant" /\ op.m = m /\ op \in Attempts
      /\ op.attempt = st.mem[m].attempts + 1
  BY InvParts, OpShape DEF GrantMember, At, OpInv, Asking
<1>2. op.attempt \in Nat
  BY <1>1 DEF Attempts
<1>3. next \in Operations /\ next.kind = "member" /\ next.m = m /\ next.step = "start"
      /\ next.attempt = op.attempt
  BY <1>1 DEF OnTo, Operations, Attempts, Asking
<1>4. Admit(k, op.attempt, ok, fold, next) /\ UNCHANGED <<main, known, expected>>
  BY DEF GrantMember, Targets_
<1> HIDE DEF next
<1>5. ASSUME op' = next, st'.mem = st.mem,
             k \in DOMAIN keys', keys'[k].cmd = op.attempt
      PROVE  OpInv'
  BY <1>1, <1>3, <1>5 DEF OpInv, Asking, Acting
<1>6. ok /\ Noted(k, op.attempt, "applied") /\ st' = fold /\ op' = next => Sound
  <2> SUFFICES ASSUME ok, Noted(k, op.attempt, "applied"), st' = fold, op' = next PROVE Sound
    OBVIOUS
  <2>1. st' \in SettlementStates /\ CoreInv' /\ StaysClosed /\ st'.mem = st.mem
    BY <1>2, <1>4, InvParts, GrantStep
  <2>2. k \in DOMAIN keys' /\ keys'[k].cmd = op.attempt
    BY DEF Noted
  <2> QED
    BY <1>5, <2>1, <2>2 DEF Sound
<1>7. Applied(k) /\ keys[k].cmd = op.attempt /\ op' = next /\ UNCHANGED <<st, keys>> => OpInv'
  BY <1>5 DEF Applied
<1> HIDE DEF k, ok, fold
<1> QED
  BY <1>2, <1>3, <1>4, <1>6, <1>7, InvParts, AdmitStep

\* The first member that satisfies a condition is a member.
LEMMA FirstOf ==
  ASSUME NEW I \in SUBSET Nat, I # {}
  PROVE  Min(I) \in I
<1> DEFINE R == OpToRel(<, Nat)
<1>1. IsWellFoundedOn(R, Nat)
  BY NatLessThanWellFounded
<1>2. PICK x \in I : \A y \in I : ~(<<y, x>> \in R)
  <2> HIDE DEF R
  <2>1. I \subseteq Nat /\ I # {}
    OBVIOUS
  <2> QED
    BY <1>1, <2>1, WFMin
<1>3. \A y \in I : ~(y < x)
  BY <1>2 DEF OpToRel
<1>4. \A y \in I : x <= y
  BY <1>3
<1> QED
  BY <1>4, Zenon DEF Min

\* The commands that only move a declaration's phase.
LEMMA DeclareStep ==
  ASSUME SettlementInv, NEW d \in Decls, Declare(d)
  PROVE  SettlementInv' /\ StaysClosed
<1> DEFINE k == <<"declare", d>>
           ok == st.co[d].phase = "undeclared"
           fold == SetPhase(st, d, "declared")
           next == [kind |-> "preflight", d |-> d, i |-> 1, step |-> "preflight"]
<1>1. next \in Operations
  BY DEF Operations, Preflights
<1>2. op' = next => OpInv'
  <2>1. Len(MembersOf[d]) \in Nat /\ MembersOf[d] # <<>> /\ MembersOf[d] \in Seq(Members)
    BY SettlementAssumption DEF SettlementAssumption
  <2>2. 1 \in 1..Len(MembersOf[d])
    BY <2>1
  <2> QED
    BY <2>2 DEF OpInv
<1>3. Admit(k, None, ok, fold, next) /\ UNCHANGED <<main, known>>
      /\ expected' = [m \in Members |-> IF m \in Own(d) /\ Fresh(k)
                                        THEN known[TargetOf[m]] ELSE expected[m]]
  BY DEF Declare
<1>4. expected' \in [Members -> Nat]
  BY <1>3, InvParts, MembersOwned
<1>5. \A m \in Members : expected'[m] = expected[m] \/ Absent(m)
  <2> SUFFICES ASSUME NEW m \in Members, m \in Own(d), Fresh(k) PROVE Absent(m)
    BY <1>3
  <2>1. Phase(m) = "pending"
    BY InvParts DEF DeclOK
  <2> QED
    BY <2>1, InvParts DEF MainInv
<1>6. ok /\ Noted(k, None, "applied") /\ st' = fold /\ op' = next => Sound
  <2> SUFFICES ASSUME ok, Noted(k, None, "applied"), st' = fold, op' = next PROVE Sound
    OBVIOUS
  <2>1. DeclOK(d)
    BY InvParts
  <2>2. "declared" \in Phases /\ "declared" \in Early /\ "undeclared" \in Early
    BY DEF Phases, Early
  <2>3. st.co[d].started = 0 /\ \A m \in Own(d) : Phase(m) \in {"pending", "passed"} => ~Waits(m)
    BY <2>1, <2>2 DEF DeclOK
  <2>4. k[1] \notin {"grant", "start", "retry", "receipt", "query-receipt", "unknown"}
    OBVIOUS
  <2> HIDE DEF k
  <2>5. st' \in SettlementStates /\ CoreInv' /\ StaysClosed
    BY <1>3, <1>5, <2>2, <2>3, <2>4, InvParts, PhaseStep DEF k
  <2> QED
    BY <1>2, <2>5 DEF Sound
<1>7. \A m \in Members : k = <<"grant", m>> => None \in Nat
  OBVIOUS
<1> HIDE DEF k, ok, fold, next
<1> QED
  BY <1>1, <1>2, <1>3, <1>4, <1>5, <1>6, <1>7, AdmitStep

\* A declaration's preflight begins.
LEMMA BeginPreflightStep ==
  ASSUME SettlementInv, NEW d \in Decls, BeginPreflight(d)
  PROVE  SettlementInv' /\ StaysClosed
<1> DEFINE k == <<"begin-preflight", d>>
           fold == SetPhase(st, d, "preflighting")
<1>1. op \in Operations /\ op.kind = "preflight" /\ op.d = d /\ op.i \in 1..Len(MembersOf[d])
      /\ st.co[d].phase = "declared"
  BY InvParts DEF BeginPreflight, At, OpInv
<1>2. op' = op => OpInv'
  BY <1>1 DEF OpInv
<1>3. Admit(k, None, TRUE, fold, op) /\ UNCHANGED <<main, known, expected>>
  BY DEF BeginPreflight, Targets_
<1>4. Noted(k, None, "applied") /\ st' = fold /\ op' = op => Sound
  <2> SUFFICES ASSUME Noted(k, None, "applied"), st' = fold, op' = op PROVE Sound
    OBVIOUS
  <2>1. DeclOK(d)
    BY InvParts
  <2>2. "preflighting" \in Phases /\ "preflighting" \in Early /\ "declared" \in Early
    BY DEF Phases, Early
  <2>3. st.co[d].started = 0 /\ \A m \in Own(d) : Phase(m) \in {"pending", "passed"} => ~Waits(m)
    BY <1>1, <2>1, <2>2 DEF DeclOK
  <2>4. k[1] \notin {"grant", "start", "retry", "receipt", "query-receipt", "unknown"}
    OBVIOUS
  <2> HIDE DEF k
  <2>5. st' \in SettlementStates /\ CoreInv' /\ StaysClosed
    BY <1>1, <1>3, <2>2, <2>3, <2>4, InvParts, PhaseStep
  <2> QED
    BY <1>2, <2>5 DEF Sound
<1>5. \A m \in Members : k = <<"grant", m>> => None \in Nat
  OBVIOUS
<1> HIDE DEF k, fold
<1>6. expected' \in [Members -> Nat] /\ \A m \in Members : expected'[m] = expected[m]
  BY <1>3, InvParts
<1> QED
  BY <1>1, <1>2, <1>3, <1>4, <1>5, <1>6, AdmitStep, Zenon

\* A declaration is abandoned where it stands.
LEMMA AbandonStep ==
  ASSUME SettlementInv, NEW d \in Decls, Abandon(d)
  PROVE  SettlementInv' /\ StaysClosed
<1> DEFINE k == <<"abandon", d>>
           ok == CanAbandon(d)
           fold == SetPhase(st, d, "abandoned_partial")
<1>1. Admit(k, None, ok, fold, SettlementIdle) /\ UNCHANGED <<main, known, expected>>
  BY DEF Abandon, Targets_
<1>2. SettlementIdle \in Operations
  BY DEF Operations
<1>3. op' = SettlementIdle => OpInv'
  BY IdleOp
<1>4. ok /\ Noted(k, None, "applied") /\ st' = fold /\ op' = SettlementIdle => Sound
  <2> SUFFICES ASSUME ok, Noted(k, None, "applied"), st' = fold, op' = SettlementIdle PROVE Sound
    OBVIOUS
  <2>1. st.co[d].phase \in {"applying", "partially_applied", "reconciliation_required"}
    BY DEF CanAbandon
  <2>2. "abandoned_partial" \in Phases /\ "abandoned_partial" \notin Early
    BY DEF Phases, Early
  <2>3. st.co[d].phase \notin Early
    BY <2>1 DEF Early
  <2>4. k[1] \notin {"grant", "start", "retry", "receipt", "query-receipt", "unknown"}
    OBVIOUS
  <2> HIDE DEF k, ok
  <2>5. st' \in SettlementStates /\ CoreInv' /\ StaysClosed
    BY <1>1, <2>1, <2>2, <2>3, <2>4, InvParts, PhaseStep
  <2> QED
    BY <1>3, <2>5 DEF Sound
<1>5. \A m \in Members : k = <<"grant", m>> => None \in Nat
  OBVIOUS
<1> HIDE DEF k, fold, ok
<1>6. expected' \in [Members -> Nat] /\ \A m \in Members : expected'[m] = expected[m]
  BY <1>1, InvParts
<1> QED
  BY <1>1, <1>2, <1>3, <1>4, <1>5, <1>6, AdmitStep

\* A declaration is compensated: each change has a later one on its revision.
LEMMA CompensateStep ==
  ASSUME SettlementInv, NEW d \in Decls, Compensate(d)
  PROVE  SettlementInv' /\ StaysClosed
<1>1. PICK links \in [Successes(d) -> Members] :
        /\ \A m \in Successes(d) : Repairs(links[m], m)
        /\ Admit(<<"compensate", d, links>>, None,
                 /\ st.co[d].phase = "partially_applied" /\ Successes(d) # {}
                 /\ IsInjective(links),
                 SetPhase(st, d, "compensated"), SettlementIdle)
  BY DEF Compensate
<1> DEFINE k == <<"compensate", d, links>>
           ok == /\ st.co[d].phase = "partially_applied" /\ Successes(d) # {}
                 /\ IsInjective(links)
           fold == SetPhase(st, d, "compensated")
<1>2. Admit(k, None, ok, fold, SettlementIdle) /\ UNCHANGED <<main, known, expected>>
  BY <1>1 DEF Compensate, Targets_
<1>3. SettlementIdle \in Operations
  BY DEF Operations
<1>4. op' = SettlementIdle => OpInv'
  BY IdleOp
<1>5. ASSUME NEW m \in Own(d) \ Proposals, Phase(m) = "succeeded" PROVE RepairedBy(d, m)
  <2> DEFINE n == links[m]
             i == st.mem[m].receipt[2]
             j == st.mem[n].receipt[2]
  <2>1. m \in Members /\ DeclOf(m) = d /\ m \in Successes(d)
    BY <1>5, MembersOwned DEF Successes
  <2>2. n \in Members /\ Repairs(n, m)
    BY <1>1, <2>1
  <2> HIDE DEF n
  <2>3. n \notin Own(d) /\ TargetOf[n] = TargetOf[m] /\ expected[n] = i
        /\ n \notin Proposals /\ Phase(n) = "succeeded"
    BY <2>1, <2>2, MembersOwned DEF Repairs
  <2>4. InMain(m, i) /\ InMain(n, j)
    BY <1>5, <2>1, <2>2, <2>3, InvParts DEF MainInv
  <2> HIDE DEF i, j
  <2>5. i \in Nat /\ j \in Nat
    <3>1. /\ main[TargetOf[m]] \in Seq(Members \cup {None})
          /\ main[TargetOf[n]] \in Seq(Members \cup {None})
      BY <2>1, <2>2, InvParts, MembersOwned
    <3> QED
      BY <2>4, <3>1 DEF InMain
  <2>6. expected[n] < j
    BY <2>2, <2>4, <2>5, InvParts DEF MainInv
  <2> QED
    BY <2>2, <2>3, <2>4, <2>5, <2>6 DEF RepairedBy
<1>6. ok /\ Noted(k, None, "applied") /\ st' = fold /\ op' = SettlementIdle => Sound
  <2> SUFFICES ASSUME ok, Noted(k, None, "applied"), st' = fold, op' = SettlementIdle PROVE Sound
    OBVIOUS
  <2>1. st.co[d].phase = "partially_applied"
    OBVIOUS
  <2>2. "compensated" \in Phases /\ "compensated" \notin Early
    BY DEF Phases, Early
  <2>3. st.co[d].phase \notin Early
    BY <2>1 DEF Early
  <2>4. k[1] \notin {"grant", "start", "retry", "receipt", "query-receipt", "unknown"}
    OBVIOUS
  <2> HIDE DEF k, ok
  <2>5. st' \in SettlementStates /\ CoreInv' /\ StaysClosed
    BY <1>2, <1>5, <2>1, <2>2, <2>3, <2>4, InvParts, PhaseStep
  <2> QED
    BY <1>4, <2>5 DEF Sound
<1>7. \A m \in Members : k = <<"grant", m>> => None \in Nat
  OBVIOUS
<1> HIDE DEF k, fold, ok
<1>8. expected' \in [Members -> Nat] /\ \A m \in Members : expected'[m] = expected[m]
  BY <1>2, InvParts
<1> QED
  BY <1>2, <1>3, <1>4, <1>6, <1>7, <1>8, AdmitStep

\* A preflight passes or refuses.
LEMMA PreflightMemberStep ==
  ASSUME SettlementInv, NEW d \in Decls, PreflightMember(d)
  PROVE  SettlementInv' /\ StaysClosed
<1> DEFINE I == {x \in 1..Len(MembersOf[d]) : Phase(MembersOf[d][x]) = "pending"}
           j == SelectInSeq(MembersOf[d], LAMBDA m : Phase(m) = "pending")
<1>1. j # 0 /\ j = IF I # {} THEN Min(I) ELSE 0
  BY DEF PreflightMember, SelectInSeq
<1>2. PICK m \in Members : m = MembersOf[d][j] /\ m \in Own(d) /\ DeclOf(m) = d
  <2>1. I \in SUBSET Nat /\ I # {}
    BY <1>1
  <2>2. Min(I) \in I
    <3> HIDE DEF I
    <3> QED
      BY <2>1, FirstOf
  <2>3. j \in 1..Len(MembersOf[d])
    BY <1>1, <2>1, <2>2
  <2>4. MembersOf[d] \in Seq(Members)
    BY SettlementAssumption DEF SettlementAssumption
  <2> HIDE DEF j
  <2>5. MembersOf[d][j] \in Own(d)
    BY <2>3, <2>4 DEF Own, Range
  <2> QED
    BY <2>5, MembersOwned
<1> DEFINE k == <<"preflight", m>>
           admitted == known[TargetOf[m]] = expected[m]
           cmd == known[TargetOf[m]]
           ok == CanRecordPreflight(m)
           fold == RecordPreflight(m, admitted)
           next == IF fold.co[d].phase = "refused" THEN SettlementIdle ELSE op
<1>3. Admit(k, cmd, ok, fold, next) /\ UNCHANGED <<main, known, expected>>
  BY <1>2 DEF PreflightMember, Targets_
<1>4. op \in Operations /\ op.kind = "preflight" /\ op.d = d /\ op.i \in 1..Len(MembersOf[d])
      /\ st.co[d].phase = "preflighting"
  BY InvParts DEF PreflightMember, At, OpInv
<1>5. next \in Operations
  BY <1>4 DEF Operations
<1>6. op' = next => OpInv'
  <2>1. CASE next = SettlementIdle
    BY <2>1, IdleOp
  <2>2. CASE next = op
    BY <1>4, <2>2 DEF OpInv
  <2> QED
    BY <2>1, <2>2
<1> HIDE DEF next
<1>7. DeclOK(d) /\ "preflighting" \in Early
  BY InvParts DEF Early
<1>8. st.co[d].started = 0 /\ \A n \in Own(d) : Phase(n) \in {"pending", "passed"} => ~Waits(n)
  BY <1>4, <1>7 DEF DeclOK
<1>9. ok /\ Noted(k, cmd, "applied") /\ st' = fold /\ op' = next => Sound
  <2> SUFFICES ASSUME ok, Noted(k, cmd, "applied"), st' = fold, op' = next PROVE Sound
    OBVIOUS
  <2>1. k[1] \notin {"grant", "start", "retry", "receipt", "query-receipt", "unknown"} /\ k[2] = m
    OBVIOUS
  <2>2. Phase(m) = "pending"
    BY DEF CanRecordPreflight
  <2> HIDE DEF k, ok
  <2>3. CASE ~admitted
    <3>1. st' = SetPhase(st, d, "refused")
      BY <1>2, <2>3 DEF RecordPreflight
    <3>2. "refused" \in Phases /\ "refused" \in Early
      BY DEF Phases, Early
    <3> HIDE DEF cmd
    <3>3. st' \in SettlementStates /\ CoreInv' /\ StaysClosed
      BY <1>3, <1>4, <1>8, <2>1, <3>1, <3>2, InvParts, PhaseStep
    <3> QED
      BY <1>6, <3>3 DEF Sound
  <2>4. CASE admitted
    <3> DEFINE r == [st.mem[m] EXCEPT !.phase = "passed"]
    <3>1. PICK p \in {st.co[d].phase, "ready"} :
            /\ MovesTo(st', m, r, p, st.co[d].started)
            /\ p = "ready" /\ p # st.co[d].phase => \A n \in Own(d) : st'.mem[n].phase = "passed"
      <4> HIDE DEF admitted
      <4>1. st \in SettlementStates
        BY InvParts
      <4>2. \A ok_ : ok_ => \E p \in {st.co[DeclOf(m)].phase, "ready"} :
              /\ MovesTo(RecordPreflight(m, ok_), m, [st.mem[m] EXCEPT !.phase = "passed"],
                         p, st.co[DeclOf(m)].started)
              /\ p = "ready" /\ p # st.co[DeclOf(m)].phase =>
                   \A n \in Own(DeclOf(m)) : RecordPreflight(m, ok_).mem[n].phase = "passed"
        BY <1>2, <4>1, PassedFields, Zenon
      <4> QED
        BY <1>2, <2>4, <4>2
    <3>2. r.phase = "passed" /\ r.attempts = st.mem[m].attempts /\ r.receipt = st.mem[m].receipt
          /\ st.mem[m].attempts \in Nat
      BY InvParts DEF MemberRecords
    <3> HIDE DEF r, admitted, fold, cmd
    <3>3. st'.mem = [st.mem EXCEPT ![m] = r] /\ st'.lane = st.lane /\ st'.mem[m] = r
          /\ \A n \in Members : n # m => st'.mem[n] = st.mem[n]
      BY <3>1, InvParts, StateParts DEF MovesTo
    <3>4. Absent(m)
      BY <2>2, InvParts DEF MainInv
    <3>5. p \notin Early => \A n \in Own(d) : n # m => Phase(n) # "pending"
      <4>1. p \notin Early => p = "ready" /\ p # st.co[d].phase
        BY <1>4, <1>7, <3>1
      <4>2. \A n \in Own(d) : n # m => st'.mem[n] = st.mem[n]
        BY <3>3, MembersOwned
      <4> QED
        BY <3>1, <4>1, <4>2 DEF Phase
    <3>6. FlightOf(m)' /\ OwedInv(m)' /\ GrantInv(m)'
      <4>1. OwedInv(m) /\ GrantInv(m)
        BY InvParts
      <4>2. FlightOf(m)'
        BY <3>2, <3>3 DEF FlightOf, Phase
      <4>3. ~OwedUnknown(m) /\ \A x \in Outcomes : ~OwedResolve(m, x) /\ ~OwedReconcile(m, x)
        BY <2>2, <4>1 DEF OwedInv, Settled
      <4>4. ~OwedUnknown(m)' /\ \A x \in Outcomes : ~OwedResolve(m, x)' /\ ~OwedReconcile(m, x)'
        BY <2>1, <4>3, DebtsOnly
      <4>5. GrantInv(m)'
        <5>1. k # <<"grant", m>>
          BY <2>1
        <5>2. /\ st.mem[m].attempts \in Nat /\ st'.mem[m].attempts \in Nat
              /\ st.mem[m].attempts <= st'.mem[m].attempts
          BY <3>2, <3>3
        <5> QED
          BY <2>1, <4>1, <5>1, <5>2, GrantKept
      <4> QED
        BY <4>2, <4>4, <4>5 DEF OwedInv
    <3>7. p # "completed" /\ p \notin {"undeclared", "compensated"}
      BY <1>4, <3>1
    <3>8. st.mem[m].attempts <= r.attempts
      BY <3>2
    <3>9. st' \in SettlementStates /\ CoreInv' /\ StaysClosed
      <4>1. /\ MovesTo(st', m, r, p, st.co[DeclOf(m)].started)
            /\ st.co[DeclOf(m)].phase \notin {"undeclared", "completed", "refused", "cancelled"}
            /\ st.co[DeclOf(m)].started = 0
            /\ p \in Early => st.co[DeclOf(m)].phase \in Early /\ Phase(m) \in {"pending", "passed"}
            /\ p \notin Early => r.phase # "pending"
                                /\ \A n \in Own(DeclOf(m)) : n # m => Phase(n) # "pending"
        BY <1>2, <1>4, <1>7, <1>8, <2>2, <3>1, <3>2, <3>5
      <4>2. /\ SettlementTypes /\ CoreInv /\ UNCHANGED <<expected, main>> /\ k[1] # "grant"
            /\ r.phase \in {"pending", "passed", "superseded"}
            /\ r.phase # "succeeded"
        BY <1>3, <2>1, <3>2, InvParts
      <4> QED
        BY <2>1, <3>4, <3>6, <3>7, <3>8, <4>1, <4>2, MemberStep
    <3> QED
      BY <1>6, <3>9 DEF Sound
  <2> QED
    BY <2>3, <2>4
<1>10. \A n \in Members : k = <<"grant", n>> => cmd \in Nat
  OBVIOUS
<1>11. expected' \in [Members -> Nat] /\ \A n \in Members : expected'[n] = expected[n]
  BY <1>3, InvParts
<1> HIDE DEF k, fold, ok, cmd
<1> QED
  BY <1>3, <1>5, <1>6, <1>9, <1>10, <1>11, AdmitStep

\* Every passed member of a ready declaration joins its lane.
LEMMA EnqueueMemberStep ==
  ASSUME SettlementInv, NEW d \in Decls, EnqueueMember(d)
  PROVE  SettlementInv' /\ StaysClosed
<1>1. op \in Preflights /\ op.kind = "preflight" /\ op.d = d /\ op.i \in 1..Len(MembersOf[d])
      /\ st.co[d].phase = "ready"
  BY InvParts, OpShape DEF EnqueueMember, At, OpInv
<1>2. MembersOf[d] \in Seq(Members) /\ Len(MembersOf[d]) \in Nat
  BY SettlementAssumption DEF SettlementAssumption
<1>3. PICK m \in Members : m = MembersOf[d][op.i] /\ DeclOf(m) = d
  <2>1. MembersOf[d][op.i] \in Own(d)
    BY <1>1, <1>2 DEF Own, Range
  <2> QED
    BY <2>1, MembersOwned
<1> DEFINE k == <<"enqueue", m>>
           ok == CanEnqueue(m, 1)
           fold == Enqueue(m, 1)
           next == IF op.i = Len(MembersOf[d]) THEN SettlementIdle ELSE [op EXCEPT !.i = @ + 1]
<1>4. Admit(k, None, ok, fold, next) /\ UNCHANGED <<main, known, expected>>
  BY <1>3 DEF EnqueueMember, Targets_
<1>5. next \in Operations /\ (op' = next => OpInv')
  <2>1. CASE op.i = Len(MembersOf[d])
    BY <2>1, IdleOp DEF Operations
  <2>2. CASE op.i # Len(MembersOf[d])
    <3>1. next \in Preflights /\ next.kind = "preflight" /\ next.d = d /\ next.i = op.i + 1
      BY <1>1, <2>2 DEF Preflights
    <3>2. next.i \in 1..Len(MembersOf[d])
      <4> HIDE DEF next
      <4>1. op.i \in Nat /\ 1 <= op.i /\ op.i < Len(MembersOf[d])
        BY <1>1, <1>2, <2>2
      <4> QED
        BY <1>2, <3>1, <4>1
    <3> HIDE DEF next
    <3> QED
      BY <3>1, <3>2 DEF Operations, OpInv
  <2> QED
    BY <2>1, <2>2
<1> HIDE DEF next
<1>6. ok /\ Noted(k, None, "applied") /\ st' = fold /\ op' = next => Sound
  <2> SUFFICES ASSUME ok, Noted(k, None, "applied"), st' = fold, op' = next PROVE Sound
    OBVIOUS
  <2>1. k[1] \in {"enqueue", "enqueue-retry"}
    OBVIOUS
  <2>2. st.co[DeclOf(m)].phase \notin Early
    BY <1>1, <1>3 DEF Early
  <2> HIDE DEF k
  <2>3. st' \in SettlementStates /\ CoreInv' /\ StaysClosed
    BY <1>4, <2>1, <2>2, InvParts, EnqueueStep
  <2> QED
    BY <1>5, <2>3 DEF Sound
<1>7. \A n \in Members : k = <<"grant", n>> => None \in Nat
  OBVIOUS
<1>8. expected' \in [Members -> Nat] /\ \A n \in Members : expected'[n] = expected[n]
  BY <1>4, InvParts
<1> HIDE DEF k, fold, ok
<1> QED
  BY <1>4, <1>5, <1>6, <1>7, <1>8, AdmitStep

\* A preflight of a declaration that is past it is answered.
LEMMA PreflightDoneStep ==
  ASSUME SettlementInv, NEW d \in Decls, PreflightDone(d)
  PROVE  SettlementInv' /\ StaysClosed
BY InvParts, EndStep DEF PreflightDone, Targets_

\* An attempt without a permit ends.
LEMMA NoPermitStep ==
  ASSUME SettlementInv, NEW m \in Members, NoPermit(m)
  PROVE  SettlementInv' /\ StaysClosed
BY InvParts, EndStep DEF NoPermit, Targets_

\* A crash between two durable steps.
LEMMA CrashStep ==
  ASSUME SettlementInv, SettlementCrash
  PROVE  SettlementInv' /\ StaysClosed
<1>1. crashes' \in Nat
  BY InvParts DEF SettlementCrash
<1> QED
  BY <1>1, EndStep DEF SettlementCrash, Targets_

\* A member with a permit for its next attempt starts it: it heads its lane, and
\* nothing is owed for the attempts before.
LEMMA StartStep ==
  ASSUME SettlementInv, NEW m \in Members, NEW a \in Nat, a = st.mem[m].attempts + 1,
         Index(m, a) # 0, NEW seq, seq = Lane(m).queue[Index(m, a)].seq, seq # 0,
         Phase(m) \in {"passed", "failed"}, st.co[DeclOf(m)].phase \notin Early,
         st' = Started(m, seq), UNCHANGED <<expected, main>>,
         NEW k, NEW cmd, Noted(k, cmd, "applied"), k[1] \in {"start", "retry"}, k[2] = m,
         st'.mem[m].attempts = a => GrantInv(m)'
  PROVE  /\ st' \in SettlementStates /\ CoreInv' /\ StaysClosed
         /\ Phase(m)' = "started" /\ Absent(m)'
<1> DEFINE r == [phase |-> "started", attempts |-> st.mem[m].attempts + 1, seq |-> seq,
                 receipt |-> None, queried |-> st.mem[m].queried]
           q == Lane(m).queue
           d == DeclOf(m)
<1>1. st \in SettlementStates /\ LaneInv /\ q \in Seq(LaneEntries) /\ DOMAIN q = 1..Len(q)
      /\ Len(q) \in Nat
  BY InvParts, QueueType
<1>2. Index(m, a) \in DOMAIN q /\ q[Index(m, a)].m = m /\ q[Index(m, a)].attempt = a
  <2>1. st \in SettlementStates /\ LaneInv
    BY <1>1
  <2> HIDE DEF r, d
  <2>2. \A x : Index(m, x) # 0 =>
          /\ Index(m, x) \in DOMAIN Lane(m).queue
          /\ Lane(m).queue[Index(m, x)].m = m
          /\ Lane(m).queue[Index(m, x)].attempt = x
    BY <2>1, IndexHolds, Zenon
  <2> QED
    BY <2>2, Zenon DEF q
<1>3. Index(m, a) = 1 /\ q[1].phase = "granted" /\ seq \in Nat /\ q # <<>>
  <2> DEFINE e == q[Index(m, a)]
  <2>1. e \in LaneEntries /\ e.seq = seq
    <3>1. Index(m, a) \in 1..Len(q)
      BY <1>1, <1>2, Zenon
    <3>2. e \in LaneEntries
      BY <1>1, <3>1, ElementOfSeq, Zenon
    <3>3. e.seq = seq
      BY Zenon DEF e, q
    <3> QED
      BY <3>2, <3>3
  <2>2. /\ e.phase # "queued" => Index(m, a) = 1
        /\ e.phase = "queued" => e.seq = 0
        /\ e.phase = "unknown" => e.attempt <= st.mem[e.m].attempts
    BY <1>1, <1>2, MembersOwned DEF LaneInv, LaneOK, Lane
  <2>3. e.m = m /\ e.attempt = st.mem[m].attempts + 1 /\ st.mem[m].attempts \in Nat
    BY <1>2, InvParts
  <2> HIDE DEF e
  <2>4. e.phase = "granted" /\ seq \in Nat
    <3>1. e.phase \in {"queued", "granted", "unknown"} /\ e.seq \in Nat
      BY <2>1 DEF LaneEntries
    <3>2. e.phase # "queued"
      BY <2>1, <2>2
    <3>3. e.phase # "unknown"
      BY <2>2, <2>3, Successor, Zenon
    <3> QED
      BY <2>1, <3>1, <3>2, <3>3
  <2>5. Index(m, a) = 1
    BY <2>2, <2>4
  <2>6. q[1].phase = "granted"
    BY <2>4, <2>5 DEF e
  <2>7. q # <<>>
    <3>1. 1 \in DOMAIN q
      BY <1>2, <2>5
    <3> HIDE DEF q
    <3>2. q \in Seq(LaneEntries)
      BY <1>1
    <3> QED
      BY <3>1, <3>2, HoldsSomething, Zenon
  <2> QED
    BY <2>4, <2>5, <2>6, <2>7
<1>4. MovesTo(st', m, r, "applying", st.co[d].started + 1)
  BY <1>1, <1>3, StartedFields
<1>5. r.phase = "started" /\ r.attempts = a
  OBVIOUS
<1> HIDE DEF r, q
<1>6. st'.mem[m] = r /\ st'.lane = st.lane
  BY <1>1, <1>4, StateParts DEF MovesTo
<1>7. Absent(m) /\ OwedInv(m) /\ DeclOK(d) /\ d \in Decls /\ m \in Own(d)
      /\ st.mem[m].attempts \in Nat /\ st.co[d].started \in Nat
  BY InvParts, MembersOwned, StateParts DEF MainInv
<1>8. FlightOf(m)' /\ Phase(m)' = "started"
  <2>1. Lane(m)'.queue = q
    BY <1>6 DEF Lane, q
  <2> QED
    BY <1>2, <1>3, <1>5, <1>6, <2>1 DEF FlightOf, Heads, Phase
<1>9. OwedInv(m)'
  <2>1. ~Heads(m, Held) /\ ~Heads(m, {"granted"})
    <3>1. q[1].attempt = st.mem[m].attempts + 1 /\ Lane(m).queue = q
      BY <1>2, <1>3 DEF q
    <3>2. q[1].attempt # st.mem[m].attempts
      BY <1>7, <3>1, Successor, Zenon
    <3> QED
      BY <3>1, <3>2 DEF Heads
  <2>2. ~OwedUnknown(m) /\ \A x \in Outcomes : ~OwedResolve(m, x) /\ ~OwedReconcile(m, x)
    BY <1>7, <2>1 DEF OwedInv
  <2>3. ~OwedUnknown(m)' /\ \A x \in Outcomes : ~OwedResolve(m, x)' /\ ~OwedReconcile(m, x)'
    BY <2>2, DebtsOnly
  <2> QED
    BY <2>3 DEF OwedInv
<1>10. GrantInv(m)'
  BY <1>5, <1>6
<1>11. st.co[d].phase \notin {"undeclared", "completed", "refused", "cancelled"}
       /\ \A n \in Own(d) : Phase(n) # "pending"
  BY <1>7 DEF DeclOK, Early
<1>12. "applying" \notin Early \cup {"ready", "completed", "undeclared", "compensated"}
  BY DEF Early
<1>13. st.co[d].started + 1 # 0 /\ st.mem[m].attempts <= r.attempts
  BY <1>5, <1>7, Successor, Zenon
<1>14. st' \in SettlementStates /\ CoreInv' /\ StaysClosed
  BY <1>4, <1>5, <1>8, <1>9, <1>10, <1>11, <1>12, <1>13, InvParts, MemberStep
<1>15. Absent(m)'
  BY <1>7 DEF Absent
<1> QED
  BY <1>8, <1>14, <1>15

\* The first attempt starts under its permit.
LEMMA StartMemberStep ==
  ASSUME SettlementInv, NEW m \in Members, StartMember(m)
  PROVE  SettlementInv' /\ StaysClosed
<1> DEFINE k == <<"start", m>>
           ok == CanStart(m)
           next == OnTo("effect")
<1>1. op.kind = "member" /\ op.step = "start" /\ op.m = m /\ op \in Attempts
      /\ op.attempt = st.mem[m].attempts + 1 /\ st.mem[m].attempts \in Nat /\ op.attempt \in Nat
      /\ <<"grant", m>> \in DOMAIN keys /\ keys[<<"grant", m>>].cmd = op.attempt
  BY InvParts, OpShape DEF StartMember, At, OpInv, Asking, Attempts
<1>2. PICK seq : seq = Permit(m)
  OBVIOUS
<1> DEFINE fold == Started(m, seq)
<1>3. Admit(k, seq, ok, fold, next) /\ UNCHANGED <<main, known, expected>>
      /\ Index(m, op.attempt) # 0 /\ seq # 0 /\ seq = Lane(m).queue[Index(m, op.attempt)].seq
  BY <1>2 DEF StartMember, Targets_, Permit
<1>4. next \in Operations /\ next.kind = "member" /\ next.m = m /\ next.step = "effect"
  BY <1>1 DEF OnTo, Operations, Attempts, Asking
<1> HIDE DEF next
<1>5. ~Applied(k)
  <2>1. GrantInv(m)
    BY InvParts
  <2> QED
    BY <1>1, <2>1 DEF GrantInv
<1>6. ok /\ Noted(k, seq, "applied") /\ st' = fold /\ op' = next => Sound
  <2> SUFFICES ASSUME ok, Noted(k, seq, "applied"), st' = fold, op' = next PROVE Sound
    OBVIOUS
  <2>1. k[1] \in {"start", "retry"} /\ k[2] = m
    OBVIOUS
  <2>2. Phase(m) \in {"passed", "failed"} /\ st.co[DeclOf(m)].phase \notin Early
    BY DEF CanStart, Early
  <2>3. ASSUME st'.mem[m].attempts = op.attempt PROVE GrantInv(m)'
    <3>1. <<"grant", m>> \in DOMAIN keys' /\ keys'[<<"grant", m>>].cmd = op.attempt
      BY <1>1 DEF Noted
    <3>2. \A a \in Nat : Applied(<<"retry", m, a>>)' => a <= op.attempt
      <4> SUFFICES ASSUME NEW a \in Nat, Applied(<<"retry", m, a>>)' PROVE a <= op.attempt
        OBVIOUS
      <4>1. Applied(<<"retry", m, a>>)
        BY KeyFacts
      <4>2. GrantInv(m)
        BY InvParts
      <4> QED
        BY <1>1, <4>1, <4>2 DEF GrantInv
    <3> QED
      BY <1>1, <2>3, <3>1, <3>2 DEF GrantInv
  <2> HIDE DEF k
  <2>4. /\ st' \in SettlementStates /\ CoreInv' /\ StaysClosed
        /\ Phase(m)' = "started" /\ Absent(m)'
    BY <1>1, <1>3, <2>1, <2>2, <2>3, StartStep
  <2>5. OpInv'
    BY <1>4, <2>4 DEF OpInv, Asking, Acting
  <2> QED
    BY <2>4, <2>5 DEF Sound
<1>7. \A n \in Members : k = <<"grant", n>> => seq \in Nat
  OBVIOUS
<1>8. expected' \in [Members -> Nat] /\ \A n \in Members : expected'[n] = expected[n]
  BY <1>3, InvParts
<1> HIDE DEF k, fold, ok
<1> QED
  BY <1>3, <1>4, <1>5, <1>6, <1>7, <1>8, AdmitStep

\* A later attempt starts under its permit.
LEMMA RetryMemberStep ==
  ASSUME SettlementInv, NEW m \in Members, RetryMember(m)
  PROVE  SettlementInv' /\ StaysClosed
<1>1. op.kind = "member" /\ op.step = "retry" /\ op.m = m /\ op \in Attempts
      /\ op.attempt = st.mem[m].attempts + 1 /\ st.mem[m].attempts \in Nat /\ op.attempt \in Nat
  BY InvParts, OpShape DEF RetryMember, At, OpInv, Asking, Attempts
<1>2. PICK seq, a : seq = Permit(m) /\ a = op.attempt
  OBVIOUS
<1> DEFINE k == <<"retry", m, a>>
           ok == CanRetry(m, seq)
           next == OnTo("effect")
           fold == Started(m, seq)
<1>3. Admit(k, seq, ok, fold, next) /\ UNCHANGED <<main, known, expected>>
      /\ Index(m, a) # 0 /\ seq # 0 /\ seq = Lane(m).queue[Index(m, a)].seq
  BY <1>2 DEF RetryMember, Targets_, Permit
<1>4. next \in Operations /\ next.kind = "member" /\ next.m = m /\ next.step = "effect"
  BY <1>1 DEF OnTo, Operations, Attempts, Asking
<1> HIDE DEF next
<1>5. ~Applied(k)
  <2>1. GrantInv(m)
    BY InvParts
  <2> QED
    BY <1>1, <1>2, <2>1 DEF GrantInv
<1>6. ok /\ Noted(k, seq, "applied") /\ st' = fold /\ op' = next => Sound
  <2> SUFFICES ASSUME ok, Noted(k, seq, "applied"), st' = fold, op' = next PROVE Sound
    OBVIOUS
  <2>1. k[1] \in {"start", "retry"} /\ k[2] = m
    OBVIOUS
  <2>2. Phase(m) = "failed"
    BY DEF CanRetry
  <2>3. st.co[DeclOf(m)].phase \notin Early
    <3>1. DeclOK(DeclOf(m)) /\ m \in Own(DeclOf(m))
      BY InvParts, MembersOwned
    <3> QED
      BY <2>2, <3>1 DEF DeclOK
  <2>4. ASSUME st'.mem[m].attempts = a PROVE GrantInv(m)'
    <3>1. GrantInv(m)
      BY InvParts
    <3>2. Applied(<<"start", m>>)' => Applied(<<"start", m>>)
      BY KeyFacts
    <3>3. <<"grant", m>> \in DOMAIN keys' =>
            <<"grant", m>> \in DOMAIN keys /\ keys'[<<"grant", m>>] = keys[<<"grant", m>>]
      BY DEF Noted
    <3>4. <<"grant", m>> \in DOMAIN keys => <<"grant", m>> \in DOMAIN keys'
      BY DEF Noted
    <3>5. \A b \in Nat : Applied(<<"retry", m, b>>)' => b <= a
      <4> SUFFICES ASSUME NEW b \in Nat, Applied(<<"retry", m, b>>)' PROVE b <= a
        OBVIOUS
      <4>1. CASE b = a
        BY <1>1, <1>2, <4>1
      <4>2. CASE b # a
        <5>1. <<"retry", m, b>> # k
          BY <4>2
        <5>2. Applied(<<"retry", m, b>>)
          BY <5>1, KeyFacts
        <5> QED
          BY <1>1, <1>2, <3>1, <5>2 DEF GrantInv
      <4> QED
        BY <4>1, <4>2
    <3>6. (Applied(<<"start", m>>) =>
             <<"grant", m>> \in DOMAIN keys /\ keys[<<"grant", m>>].cmd <= st.mem[m].attempts)'
      <4> SUFFICES ASSUME Applied(<<"start", m>>)
                   PROVE  <<"grant", m>> \in DOMAIN keys' /\ keys'[<<"grant", m>>].cmd <= a
        BY <2>4, <3>2
      <4>1. <<"grant", m>> \in DOMAIN keys /\ keys[<<"grant", m>>].cmd <= st.mem[m].attempts
            /\ keys[<<"grant", m>>].cmd \in Nat
        BY <3>1 DEF GrantInv
      <4> QED
        BY <1>1, <1>2, <3>3, <3>4, <4>1
    <3> QED
      BY <2>4, <3>1, <3>3, <3>5, <3>6 DEF GrantInv
  <2> HIDE DEF k
  <2>5. /\ st' \in SettlementStates /\ CoreInv' /\ StaysClosed
        /\ Phase(m)' = "started" /\ Absent(m)'
    BY <1>1, <1>2, <1>3, <2>1, <2>2, <2>3, <2>4, StartStep
  <2>6. OpInv'
    BY <1>4, <2>5 DEF OpInv, Asking, Acting
  <2> QED
    BY <2>5, <2>6 DEF Sound
<1>7. \A n \in Members : k = <<"grant", n>> => seq \in Nat
  OBVIOUS
<1>8. expected' \in [Members -> Nat] /\ \A n \in Members : expected'[n] = expected[n]
  BY <1>3, InvParts
<1> HIDE DEF k, fold, ok
<1> QED
  BY <1>3, <1>4, <1>5, <1>6, <1>7, <1>8, AdmitStep

\* A retry enters its lane.
LEMMA EnqueueRetryStep ==
  ASSUME SettlementInv, NEW m \in Members, EnqueueRetry(m)
  PROVE  SettlementInv' /\ StaysClosed
<1>1. op.kind = "member" /\ op.step = "enqueue" /\ op.m = m /\ op \in Attempts
      /\ op.attempt = st.mem[m].attempts + 1 /\ op.attempt \in Nat /\ Phase(m) = "failed"
  BY InvParts, OpShape DEF EnqueueRetry, At, OpInv, Asking, Attempts
<1>2. PICK a : a = op.attempt
  OBVIOUS
<1> DEFINE k == <<"enqueue-retry", m, a>>
           ok == CanEnqueue(m, a)
           fold == Enqueue(m, a)
           next == OnTo("grant-retry")
<1>3. Admit(k, None, ok, fold, next) /\ UNCHANGED <<main, known, expected>>
  BY <1>2 DEF EnqueueRetry, Targets_
<1>4. next \in Operations /\ next.kind = "member" /\ next.m = m /\ next.step = "grant-retry"
      /\ next.attempt = op.attempt
  BY <1>1 DEF OnTo, Operations, Attempts, Asking
<1> HIDE DEF next
<1>5. op' = next /\ st'.mem = st.mem => OpInv'
  BY <1>1, <1>4 DEF OpInv, Asking, Acting
<1>6. ok /\ Noted(k, None, "applied") /\ st' = fold /\ op' = next => Sound
  <2> SUFFICES ASSUME ok, Noted(k, None, "applied"), st' = fold, op' = next PROVE Sound
    OBVIOUS
  <2>1. k[1] \in {"enqueue", "enqueue-retry"}
    OBVIOUS
  <2> HIDE DEF k
  <2>2. st' \in SettlementStates /\ CoreInv' /\ StaysClosed /\ st'.mem = st.mem
    BY <1>1, <1>2, <1>3, <2>1, InvParts, EnqueueStep
  <2> QED
    BY <1>5, <2>2 DEF Sound
<1>7. \A n \in Members : k = <<"grant", n>> => None \in Nat
  OBVIOUS
<1>8. expected' \in [Members -> Nat] /\ \A n \in Members : expected'[n] = expected[n]
  BY <1>3, InvParts
<1> HIDE DEF k, fold, ok
<1> QED
  BY <1>3, <1>4, <1>5, <1>6, <1>7, <1>8, AdmitStep

\* A retry is granted its lane.
LEMMA GrantRetryStep ==
  ASSUME SettlementInv, NEW m \in Members, GrantRetry(m)
  PROVE  SettlementInv' /\ StaysClosed
<1>1. op.kind = "member" /\ op.step = "grant-retry" /\ op.m = m /\ op \in Attempts
      /\ op.attempt = st.mem[m].attempts + 1 /\ op.attempt \in Nat
  BY InvParts, OpShape DEF GrantRetry, At, OpInv, Asking, Attempts
<1>2. PICK a : a = op.attempt
  OBVIOUS
<1> DEFINE k == <<"grant-retry", m, a>>
           ok == CanGrant(m, a)
           fold == Grant(m, a)
           next == OnTo("retry")
<1>3. Admit(k, None, ok, fold, next) /\ UNCHANGED <<main, known, expected>>
  BY <1>2 DEF GrantRetry, Targets_
<1>4. next \in Operations /\ next.kind = "member" /\ next.m = m /\ next.step = "retry"
      /\ next.attempt = op.attempt
  BY <1>1 DEF OnTo, Operations, Attempts, Asking
<1> HIDE DEF next
<1>5. op' = next /\ st'.mem = st.mem => OpInv'
  BY <1>1, <1>4 DEF OpInv, Asking, Acting
<1>6. ok /\ Noted(k, None, "applied") /\ st' = fold /\ op' = next => Sound
  <2> SUFFICES ASSUME ok, Noted(k, None, "applied"), st' = fold, op' = next PROVE Sound
    OBVIOUS
  <2>1. k[1] \in {"grant", "grant-retry"} /\ k[1] # "grant"
    OBVIOUS
  <2> HIDE DEF k
  <2>2. st' \in SettlementStates /\ CoreInv' /\ StaysClosed /\ st'.mem = st.mem
    BY <1>1, <1>2, <1>3, <2>1, InvParts, GrantStep
  <2> QED
    BY <1>5, <2>2 DEF Sound
<1>7. \A n \in Members : k = <<"grant", n>> => None \in Nat
  OBVIOUS
<1>8. expected' \in [Members -> Nat] /\ \A n \in Members : expected'[n] = expected[n]
  BY <1>3, InvParts
<1> HIDE DEF k, fold, ok
<1> QED
  BY <1>3, <1>4, <1>5, <1>6, <1>7, <1>8, AdmitStep

\* An outcome is recorded with the coordinator: the lane is owed one answer.
LEMMA OutcomeStep ==
  ASSUME SettlementInv, NEW m \in Members, NEW r \in Outcomes, r # None, Truthful(m, r),
         Phase(m) \in {"started", "unknown"}, st' = RecordReceipt(m, r),
         UNCHANGED <<expected, main>>, NEW k, NEW cmd, Noted(k, cmd, "applied"),
         k \in {<<"receipt", m, r>>, <<"query-receipt", m, r>>}
  PROVE  /\ st' \in SettlementStates /\ CoreInv' /\ StaysClosed /\ Settled(m)'
         /\ \A x \in Outcomes : /\ OwedResolve(m, x)' => k = <<"receipt", m, r>> /\ x = r
                                /\ OwedReconcile(m, x)' => k = <<"query-receipt", m, r>> /\ x = r
         /\ Phase(m) = "started" => ~OwedUnknown(m)'
<1> DEFINE d == DeclOf(m)
           rec == [st.mem[m] EXCEPT !.phase = r[1], !.receipt = r]
<1>1. /\ st \in SettlementStates /\ OwedInv(m) /\ FlightOf(m) /\ GrantInv(m) /\ DeclOK(d)
      /\ d \in Decls /\ m \in Own(d) /\ st.mem[m].attempts \in Nat
  BY InvParts, MembersOwned
<1>2. PICK p \in {"applying", "completed", "partially_applied", "reconciliation_required"} :
        /\ MovesTo(st', m, rec, p, st.co[d].started)
        /\ p = "completed" => \A n \in Own(d) : st'.mem[n].phase = "succeeded"
        /\ rec.phase \in {"failed", "succeeded"} /\ rec.phase = r[1] /\ rec.receipt = r
        /\ rec.attempts = st.mem[m].attempts
  <2>1. \E p \in {"applying", "completed", "partially_applied", "reconciliation_required"} :
          /\ MovesTo(RecordReceipt(m, r), m, rec, p, st.co[d].started)
          /\ p = "completed" => \A n \in Own(d) : RecordReceipt(m, r).mem[n].phase = "succeeded"
          /\ rec.phase \in {"failed", "succeeded"} /\ rec.phase = r[1] /\ rec.receipt = r
          /\ rec.attempts = st.mem[m].attempts
    BY <1>1, ReceiptFields, Zenon
  <2> HIDE DEF rec, d
  <2> QED
    BY <2>1
<1> HIDE DEF rec
<1>3. st'.mem[m] = rec /\ st'.lane = st.lane
  BY <1>1, <1>2, StateParts DEF MovesTo
<1>4. k[1] \in {"receipt", "query-receipt"} /\ k[2] = m
  OBVIOUS
<1>5. Settled(m)' /\ ~Settled(m)
  BY <1>2, <1>3 DEF Settled, Phase
<1>6. Heads(m, Held) /\ Heads(m, Held)'
  BY <1>1, <1>2, <1>3 DEF FlightOf, Heads, Held, Lane
<1>7. ASSUME NEW x \in Outcomes
      PROVE  /\ OwedResolve(m, x)' => k = <<"receipt", m, r>> /\ x = r
             /\ OwedReconcile(m, x)' => k = <<"query-receipt", m, r>> /\ x = r
  <2>1. ~OwedResolve(m, x) /\ ~OwedReconcile(m, x)
    BY <1>1, <1>5 DEF OwedInv
  <2>2. Fresh(<<"resolve", m, x>>)' => Fresh(<<"resolve", m, x>>)
    BY KeyFacts
  <2>3. Fresh(<<"reconcile", m, x>>)' => Fresh(<<"reconcile", m, x>>)
    BY KeyFacts
  <2>4. Applied(<<"receipt", m, x>>)' => Applied(<<"receipt", m, x>>) \/ k = <<"receipt", m, x>>
    BY KeyFacts
  <2>5. Applied(<<"query-receipt", m, x>>)' =>
          Applied(<<"query-receipt", m, x>>) \/ k = <<"query-receipt", m, x>>
    BY KeyFacts
  <2>6. k = <<"receipt", m, x>> => x = r
    OBVIOUS
  <2>7. k = <<"query-receipt", m, x>> => x = r
    OBVIOUS
  <2> QED
    BY <2>1, <2>2, <2>3, <2>4, <2>5, <2>6, <2>7 DEF OwedResolve, OwedReconcile
<1>8. OwedUnknown(m)' => OwedUnknown(m)
  <2>1. Applied(<<"unknown", m>>)' => Applied(<<"unknown", m>>)
    BY <1>4, KeyFacts
  <2>2. Fresh(<<"lane-unknown", m>>)' => Fresh(<<"lane-unknown", m>>)
    BY KeyFacts
  <2> QED
    BY <2>1, <2>2 DEF OwedUnknown
<1>9. OwedInv(m)'
  <2>1. Heads(m, {"granted"}) => Heads(m, {"granted"})'
    BY <1>2, <1>3 DEF Heads, Lane
  <2> QED
    BY <1>1, <1>5, <1>6, <1>8, <2>1 DEF OwedInv
<1>10. FlightOf(m)'
  BY <1>5 DEF FlightOf, Settled
<1>11. GrantInv(m)'
  <2>1. k # <<"grant", m>> /\ k[1] \notin {"start", "retry"}
    BY <1>4
  <2>2. /\ st'.mem[m].attempts \in Nat /\ st.mem[m].attempts <= st'.mem[m].attempts
    BY <1>1, <1>2, <1>3
  <2> QED
    BY <1>1, <2>1, <2>2, GrantKept
<1>12. st.co[d].started # 0 /\ st.co[d].phase \notin Early
  BY <1>1 DEF DeclOK
<1>13. st.co[d].phase \notin {"undeclared", "completed", "refused", "cancelled"}
       /\ \A n \in Own(d) : Phase(n) # "pending"
  BY <1>1, <1>12 DEF DeclOK, Early
<1>14. p \notin Early \cup {"ready", "undeclared", "compensated"}
  BY <1>2 DEF Early
<1>15. /\ rec.phase \notin {"started", "unknown", "succeeded"} => Absent(m)
       /\ m \notin Proposals /\ rec.phase = "succeeded" =>
            rec.receipt # None /\ InMain(m, rec.receipt[2])
       /\ rec.phase # "pending"
       /\ st.mem[m].attempts <= rec.attempts
  BY <1>1, <1>2 DEF Truthful
<1>16. st' \in SettlementStates /\ CoreInv' /\ StaysClosed
  <2>1. SettlementTypes /\ CoreInv /\ k[1] # "grant"
    BY <1>4, InvParts
  <2> QED
    BY <1>2, <1>4, <1>9, <1>10, <1>11, <1>12, <1>13, <1>14, <1>15, <2>1, MemberStep
<1>17. Phase(m) = "started" => ~OwedUnknown(m)'
  BY <1>1, <1>8 DEF OwedInv, Settled
<1> QED
  BY <1>5, <1>7, <1>16, <1>17

\* The coordinator records what the effect returned.
LEMMA RecordReceiptStep ==
  ASSUME SettlementInv, NEW m \in Members, RecordSettlementReceipt(m)
  PROVE  SettlementInv' /\ StaysClosed
<1>1. op.kind = "member" /\ op.step = "receipt" /\ op.m = m /\ op \in Effected
      /\ Phase(m) = "started" /\ op.receipt # None /\ Truthful(m, op.receipt)
  BY InvParts, OpShape DEF RecordSettlementReceipt, At, OpInv, Acting
<1>2. PICK r \in Outcomes : r = op.receipt
  BY <1>1 DEF Effected
<1> DEFINE k == <<"receipt", m, r>>
           ok == CanRecordReceipt(m, "started")
           fold == RecordReceipt(m, r)
           next == OnTo("resolve")
<1>3. Admit(k, None, ok, fold, next) /\ UNCHANGED <<main, known, expected>>
  BY <1>2 DEF RecordSettlementReceipt, Targets_
<1>4. next \in Operations /\ next.kind = "member" /\ next.m = m /\ next.step = "resolve"
      /\ next.receipt = r
  BY <1>1, <1>2 DEF OnTo, Operations, Effected, Acting
<1> HIDE DEF next
<1>5. ASSUME op' = next, Settled(m)' \/ ~Fresh(<<"resolve", m, r>>)', ~OwedUnknown(m)',
             \A x \in Outcomes : ~OwedReconcile(m, x)' /\ (OwedResolve(m, x)' => x = r)
      PROVE  OpInv'
  BY <1>1, <1>2, <1>4, <1>5 DEF OpInv, Asking, Acting
<1>6. ok /\ Noted(k, None, "applied") /\ st' = fold /\ op' = next => Sound
  <2> SUFFICES ASSUME ok, Noted(k, None, "applied"), st' = fold, op' = next PROVE Sound
    OBVIOUS
  <2>1. k # <<"query-receipt", m, r>>
    OBVIOUS
  <2>2. /\ st' \in SettlementStates /\ CoreInv' /\ StaysClosed /\ Settled(m)'
        /\ \A x \in Outcomes : /\ OwedResolve(m, x)' => k = <<"receipt", m, r>> /\ x = r
                               /\ OwedReconcile(m, x)' => k = <<"query-receipt", m, r>> /\ x = r
        /\ ~OwedUnknown(m)'
    BY <1>1, <1>2, <1>3, OutcomeStep
  <2> QED
    BY <1>5, <2>1, <2>2 DEF Sound
<1>7. Applied(k) /\ op' = next /\ UNCHANGED <<st, keys>> => OpInv'
  <2> SUFFICES ASSUME Applied(k), op' = next, UNCHANGED <<st, keys>> PROVE OpInv'
    OBVIOUS
  <2>1. ~Settled(m) /\ OwedInv(m)
    BY <1>1, InvParts DEF Settled
  <2>2. ~OwedUnknown(m) /\ \A x \in Outcomes : ~OwedResolve(m, x) /\ ~OwedReconcile(m, x)
    BY <1>1, <2>1 DEF OwedInv
  <2>3. ~Fresh(<<"resolve", m, r>>)
    BY <2>2 DEF OwedResolve
  <2>4. ~Fresh(<<"resolve", m, r>>)' /\ ~OwedUnknown(m)'
        /\ \A x \in Outcomes : ~OwedResolve(m, x)' /\ ~OwedReconcile(m, x)'
    BY <2>2, <2>3 DEF Fresh, OwedUnknown, OwedResolve, OwedReconcile, Applied
  <2> QED
    BY <1>5, <2>4
<1>8. \A n \in Members : k = <<"grant", n>> => None \in Nat
  OBVIOUS
<1>9. expected' \in [Members -> Nat] /\ \A n \in Members : expected'[n] = expected[n]
  BY <1>3, InvParts
<1> HIDE DEF k, fold, ok
<1> QED
  BY <1>3, <1>4, <1>6, <1>7, <1>8, <1>9, AdmitStep

\* The lane is told of the outcome and moves on.
LEMMA ResolveLaneStep ==
  ASSUME SettlementInv, NEW m \in Members, ResolveLane(m)
  PROVE  SettlementInv' /\ StaysClosed
<1>1. /\ op.kind = "member" /\ op.step = "resolve" /\ op.m = m /\ op \in Effected
      /\ Settled(m) \/ ~Fresh(<<"resolve", m, op.receipt>>)
      /\ ~OwedUnknown(m)
      /\ \A x \in Outcomes : ~OwedReconcile(m, x) /\ (OwedResolve(m, x) => x = op.receipt)
  BY InvParts, OpShape DEF ResolveLane, At, OpInv, Acting
<1>2. PICK r, a : r = op.receipt /\ a = st.mem[m].attempts
  OBVIOUS
<1> DEFINE k == <<"resolve", m, r>>
           ok == AtHead(m, a, "granted")
           fold == Resolve(m, a)
<1>3. Admit(k, a, ok, fold, SettlementIdle) /\ UNCHANGED <<main, known, expected>>
  BY <1>2 DEF ResolveLane, Targets_
<1>4. SettlementIdle \in Operations /\ (op' = SettlementIdle => OpInv')
  BY IdleOp DEF Operations
<1>5. ok /\ Noted(k, a, "applied") /\ st' = fold /\ op' = SettlementIdle => Sound
  <2> SUFFICES ASSUME ok, Noted(k, a, "applied"), st' = fold, op' = SettlementIdle PROVE Sound
    OBVIOUS
  <2>1. k[1] \in {"resolve", "reconcile"}
    OBVIOUS
  <2>2. Settled(m) /\ a \in Nat
    BY <1>1, <1>2, InvParts DEF Noted, Fresh
  <2>3. ~OwedUnknown(m)' /\ \A x \in Outcomes : ~OwedResolve(m, x)' /\ ~OwedReconcile(m, x)'
    <3>1. /\ \A x \in Outcomes : /\ OwedResolve(m, x)' => OwedResolve(m, x)
                                 /\ OwedReconcile(m, x)' => OwedReconcile(m, x)
          /\ OwedUnknown(m)' => OwedUnknown(m)
      <4> HIDE DEF k
      <4> QED
        BY <2>1, DebtsOnly
    <3>2. ~OwedResolve(m, r)'
      BY KeyFacts DEF OwedResolve
    <3> QED
      BY <1>1, <1>2, <3>1, <3>2
  <2> HIDE DEF k, ok
  <2>4. st' \in SettlementStates /\ CoreInv' /\ StaysClosed
    BY <1>3, <2>1, <2>2, <2>3, InvParts, FinishStep DEF ok
  <2> QED
    BY <1>4, <2>4 DEF Sound
<1>6. \A n \in Members : k = <<"grant", n>> => a \in Nat
  OBVIOUS
<1>7. expected' \in [Members -> Nat] /\ \A n \in Members : expected'[n] = expected[n]
  BY <1>3, InvParts
<1> HIDE DEF k, fold, ok
<1> QED
  BY <1>3, <1>4, <1>5, <1>6, <1>7, AdmitStep

\* The coordinator records that the outcome is unknown.
LEMMA RecordUnknownStep ==
  ASSUME SettlementInv, NEW m \in Members, RecordSettlementUnknown(m)
  PROVE  SettlementInv' /\ StaysClosed
<1>1. op.kind = "member" /\ op.step = "unknown" /\ op.m = m /\ op \in Effected
      /\ Phase(m) = "started"
  BY InvParts, OpShape DEF RecordSettlementUnknown, At, OpInv, Acting
<1> DEFINE k == <<"unknown", m>>
           ok == Phase(m) = "started"
           fold == RecordUnknown(m)
           next == OnTo("lane-unknown")
<1>2. Admit(k, None, ok, fold, next) /\ UNCHANGED <<main, known, expected>>
  BY DEF RecordSettlementUnknown, Targets_
<1>3. next \in Operations /\ next.kind = "member" /\ next.m = m /\ next.step = "lane-unknown"
  BY <1>1 DEF OnTo, Operations, Effected, Acting
<1> HIDE DEF next
<1>4. ASSUME op' = next, Phase(m)' = "unknown" \/ ~Fresh(<<"lane-unknown", m>>)'
      PROVE  OpInv'
  BY <1>3, <1>4 DEF OpInv, Asking, Acting
<1>5. ok /\ Noted(k, None, "applied") /\ st' = fold /\ op' = next => Sound
  <2> SUFFICES ASSUME ok, Noted(k, None, "applied"), st' = fold, op' = next PROVE Sound
    OBVIOUS
  <2> DEFINE d == DeclOf(m)
             r == [st.mem[m] EXCEPT !.phase = "unknown"]
             p == "reconciliation_required"
  <2>1. /\ st \in SettlementStates /\ OwedInv(m) /\ FlightOf(m) /\ GrantInv(m) /\ DeclOK(d)
        /\ d \in Decls /\ m \in Own(d) /\ st.mem[m].attempts \in Nat
    BY InvParts, MembersOwned
  <2>2. MovesTo(st', m, r, p, st.co[d].started)
    BY <2>1, UnknownFields
  <2>3. r.phase = "unknown" /\ r.attempts = st.mem[m].attempts
    BY InvParts DEF MemberRecords
  <2> HIDE DEF r
  <2>4. st'.mem[m] = r /\ st'.lane = st.lane
    BY <2>1, <2>2, StateParts DEF MovesTo
  <2>5. Heads(m, {"granted"})' /\ Phase(m)' = "unknown" /\ ~Settled(m)
    BY <1>1, <2>1, <2>3, <2>4 DEF FlightOf, Heads, Lane, Phase, Settled
  <2>6. FlightOf(m)'
    BY <2>5 DEF FlightOf, Heads, Held
  <2>7. OwedInv(m)'
    <3> SUFFICES ASSUME NEW x \in Outcomes PROVE ~OwedResolve(m, x)' /\ ~OwedReconcile(m, x)'
      BY <2>5 DEF OwedInv
    <3>1. ~OwedResolve(m, x) /\ ~OwedReconcile(m, x)
      BY <2>1, <2>5 DEF OwedInv
    <3>2. Applied(<<"receipt", m, x>>)' => Applied(<<"receipt", m, x>>)
      BY KeyFacts
    <3>3. Applied(<<"query-receipt", m, x>>)' => Applied(<<"query-receipt", m, x>>)
      BY KeyFacts
    <3>4. Fresh(<<"resolve", m, x>>)' => Fresh(<<"resolve", m, x>>)
      BY KeyFacts
    <3>5. Fresh(<<"reconcile", m, x>>)' => Fresh(<<"reconcile", m, x>>)
      BY KeyFacts
    <3> QED
      BY <3>1, <3>2, <3>3, <3>4, <3>5 DEF OwedResolve, OwedReconcile
  <2>8. k[1] = "unknown" /\ k[2] = m /\ k # <<"grant", m>>
    OBVIOUS
  <2> HIDE DEF k
  <2>9. GrantInv(m)'
    <3>1. k[1] \notin {"start", "retry"}
      BY <2>8
    <3>2. st'.mem[m].attempts \in Nat /\ st.mem[m].attempts <= st'.mem[m].attempts
      BY <2>1, <2>3, <2>4
    <3> QED
      BY <2>1, <2>8, <3>1, <3>2, GrantKept
  <2>10. st.co[d].started # 0 /\ st.co[d].phase \notin Early
    BY <1>1, <2>1 DEF DeclOK
  <2>11. st.co[d].phase \notin {"undeclared", "completed", "refused", "cancelled"}
         /\ \A n \in Own(d) : Phase(n) # "pending"
    BY <1>1, <2>1, <2>10 DEF DeclOK, Early
  <2>12. p \notin Early \cup {"ready", "undeclared", "compensated", "completed"}
    BY DEF Early
  <2>13. st.mem[m].attempts <= r.attempts
    BY <2>1, <2>3
  <2>14. st' \in SettlementStates /\ CoreInv' /\ StaysClosed
    <3>1. SettlementTypes /\ CoreInv /\ k[1] # "grant" /\ r.phase # "pending" /\ r.phase # "succeeded"
          /\ UNCHANGED <<expected, main>>
      BY <1>2, <2>3, <2>8, InvParts
    <3> HIDE DEF p, ok, fold
    <3> QED
      BY <2>2, <2>3, <2>6, <2>7, <2>8, <2>9, <2>10, <2>11, <2>12, <2>13, <3>1, MemberStep
  <2> QED
    BY <1>4, <2>5, <2>14 DEF Sound
<1>6. Applied(k) /\ op' = next /\ UNCHANGED <<st, keys>> => OpInv'
  <2> SUFFICES ASSUME Applied(k), op' = next, UNCHANGED <<st, keys>> PROVE OpInv'
    OBVIOUS
  <2>1. ~OwedUnknown(m)
    BY <1>1, InvParts DEF OwedInv, Settled
  <2>2. ~Fresh(<<"lane-unknown", m>>)'
    BY <2>1 DEF OwedUnknown, Fresh
  <2> QED
    BY <1>4, <2>2
<1>7. \A n \in Members : k = <<"grant", n>> => None \in Nat
  OBVIOUS
<1>8. expected' \in [Members -> Nat] /\ \A n \in Members : expected'[n] = expected[n]
  BY <1>2, InvParts
<1> HIDE DEF k, fold, ok
<1> QED
  BY <1>2, <1>3, <1>5, <1>6, <1>7, <1>8, AdmitStep

\* The lane is told that the outcome is unknown, and stays held.
LEMMA LaneUnknownStep ==
  ASSUME SettlementInv, NEW m \in Members, LaneUnknown(m)
  PROVE  SettlementInv' /\ StaysClosed
<1>1. /\ op.kind = "member" /\ op.step = "lane-unknown" /\ op.m = m
      /\ Phase(m) = "unknown" \/ ~Fresh(<<"lane-unknown", m>>)
  BY InvParts DEF LaneUnknown, At, OpInv
<1> DEFINE k == <<"lane-unknown", m>>
           a == st.mem[m].attempts
           ok == AtHead(m, a, "granted")
           fold == MarkUnknown(m, a)
<1>2. Admit(k, a, ok, fold, SettlementIdle) /\ UNCHANGED <<main, known, expected>>
  BY DEF LaneUnknown, Targets_
<1>3. SettlementIdle \in Operations /\ (op' = SettlementIdle => OpInv')
  BY IdleOp DEF Operations
<1>4. ok /\ Noted(k, a, "applied") /\ st' = fold /\ op' = SettlementIdle => Sound
  <2> SUFFICES ASSUME ok, Noted(k, a, "applied"), st' = fold, op' = SettlementIdle PROVE Sound
    OBVIOUS
  <2>1. Phase(m) = "unknown"
    BY <1>1 DEF Noted, Fresh
  <2>2. st' \in SettlementStates /\ CoreInv' /\ StaysClosed
    BY <1>2, <2>1, InvParts, MarkStep
  <2> QED
    BY <1>3, <2>2 DEF Sound
<1>5. \A n \in Members : k = <<"grant", n>> => a \in Nat
  OBVIOUS
<1>6. expected' \in [Members -> Nat] /\ \A n \in Members : expected'[n] = expected[n]
  BY <1>2, InvParts
<1> HIDE DEF k, fold, ok, a
<1> QED
  BY <1>2, <1>3, <1>4, <1>5, <1>6, AdmitStep

\* A query is noted with the member; no phase, attempt or receipt changes.
LEMMA NotedQuery ==
  ASSUME SettlementInv, NEW m \in Members, UNCHANGED <<expected, main>>,
         st' = [st EXCEPT !.mem[m].queried = @ \cup {st.mem[m].attempts}],
         NEW k, NEW cmd, Noted(k, cmd, "applied"), k[1] = "query"
  PROVE  /\ st' \in SettlementStates /\ CoreInv' /\ StaysClosed
         /\ st'.mem[m].phase = st.mem[m].phase
<1> DEFINE r == [st.mem[m] EXCEPT !.queried = st.mem[m].queried \cup {st.mem[m].attempts}]
<1>1. st \in SettlementStates /\ st.mem[m] \in MemberRecords /\ st.mem[m].attempts \in Nat
  BY InvParts
<1>2. r \in MemberRecords /\ r.phase = st.mem[m].phase /\ r.attempts = st.mem[m].attempts
      /\ r.receipt = st.mem[m].receipt
  BY <1>1 DEF MemberRecords
<1>3. st' = [st EXCEPT !.mem[m] = r]
  BY <1>1 DEF SettlementStates
<1> HIDE DEF r
<1>4. st' \in SettlementStates /\ st'.mem = [st.mem EXCEPT ![m] = r] /\ st'.co = st.co
      /\ st'.lane = st.lane
  <2> DEFINE s == [st EXCEPT !.mem[m] = r]
  <2>1. s \in SettlementStates /\ s.mem = [st.mem EXCEPT ![m] = r] /\ s.co = st.co
        /\ s.lane = st.lane
    BY <1>1, <1>2, SetMemberFields
  <2>2. st' = s
    BY <1>3
  <2> HIDE DEF s
  <2> QED
    BY <2>1, <2>2, Zenon
<1>5. \A n \in Members : /\ st'.mem[n].phase = st.mem[n].phase
                         /\ st'.mem[n].attempts = st.mem[n].attempts
                         /\ st'.mem[n].receipt = st.mem[n].receipt
                         /\ st.mem[n].attempts \in Nat
  BY <1>1, <1>2, <1>4, InvParts, StateParts
<1>6. \A n \in Members : Phase(n)' = Phase(n)
  BY <1>5 DEF Phase
<1>7. DeclInv'
  <2> SUFFICES ASSUME NEW d \in Decls PROVE DeclOK(d)'
    BY DEF DeclInv, DeclOK
  <2>1. DeclOK(d) /\ \A n \in Own(d) : n \in Members
    BY InvParts, MembersOwned
  <2> QED
    BY <1>4, <1>5, <2>1, DeclKept
<1>8. LaneInv'
  <2> SUFFICES ASSUME NEW u \in Targets
               PROVE  LaneOK(st.lane[u].queue, st'.mem)
    BY <1>4 DEF LaneInv
  <2> DEFINE q == st.lane[u].queue
  <2>1. \A i \in DOMAIN q : q[i] \in LaneEntries
    BY <1>1, StateParts DEF LaneRecords
  <2>2. /\ \A i, j \in DOMAIN q : q[i].m = q[j].m /\ q[i].attempt = q[j].attempt => i = j
        /\ \A i \in DOMAIN q :
             /\ q[i].phase # "queued" => i = 1
             /\ q[i].phase = "queued" => q[i].seq = 0
             /\ q[i].phase = "unknown" => q[i].attempt <= st.mem[q[i].m].attempts
    BY InvParts DEF LaneInv, LaneOK
  <2> HIDE DEF q
  <2>3. \A i \in DOMAIN q : st'.mem[q[i].m].attempts = st.mem[q[i].m].attempts
    BY <1>5, <2>1 DEF LaneEntries
  <2> QED
    BY <2>2, <2>3 DEF q, LaneOK
<1>9. \A n \in Members : OwedInv(n)' /\ FlightOf(n)'
  BY <1>4, <1>5, InvParts, DebtsKept
<1>10. \A n \in Members : GrantInv(n)'
  <2> SUFFICES ASSUME NEW n \in Members PROVE GrantInv(n)'
    OBVIOUS
  <2>1. GrantInv(n) /\ k # <<"grant", n>>
    BY InvParts
  <2>2. st'.mem[n].attempts \in Nat /\ st.mem[n].attempts \in Nat
        /\ st.mem[n].attempts <= st'.mem[n].attempts
    BY <1>5
  <2> QED
    BY <2>1, <2>2, GrantKept
<1>11. \A n, i : InMain(n, i)' <=> InMain(n, i)
  BY DEF InMain
<1>12. MainInv'
  <2>1. \A n : Absent(n)' <=> Absent(n)
    BY DEF Absent
  <2> QED
    BY <1>5, <1>6, <1>11, <2>1, InvParts DEF MainInv
<1>13. RepairInv'
  <2> SUFFICES ASSUME NEW e \in Decls, st'.co[e].phase = "compensated",
                      NEW n \in Own(e) \ Proposals, Phase(n)' = "succeeded"
               PROVE  RepairedBy(e, n)'
    BY DEF RepairInv, RepairedBy, Own
  <2>1. n \in Members /\ st.co[e].phase = "compensated"
    BY <1>4, MembersOwned
  <2>2. RepairedBy(e, n)
    BY <1>6, <2>1, InvParts DEF RepairInv, RepairedBy
  <2> QED
    BY <1>11, <2>2 DEF RepairedBy, Own
<1> QED
  BY <1>4, <1>5, <1>7, <1>8, <1>9, <1>10, <1>12, <1>13
     DEF CoreInv, KeyInv, FlightInv, StaysClosed

\* A query of an attempt is noted.
LEMMA RequestQueryStep ==
  ASSUME SettlementInv, NEW m \in Members, RequestQuery(m)
  PROVE  SettlementInv' /\ StaysClosed
<1>1. op.kind = "query" /\ op.step = "request" /\ op.m = m /\ op \in Queries /\ ~Settled(m)
  BY InvParts, OpShape DEF RequestQuery, At, OpInv
<1>2. PICK a : a = st.mem[m].attempts
  OBVIOUS
<1> DEFINE k == <<"query", m, a>>
           ok == CanQuery(m)
           fold == [st EXCEPT !.mem[m].queried = @ \cup {st.mem[m].attempts}]
           next == OnTo("observe")
<1>3. Admit(k, None, ok, fold, next) /\ UNCHANGED <<main, known, expected>>
  BY <1>2 DEF RequestQuery, Targets_
<1>4. next \in Operations /\ next.kind = "query" /\ next.m = m /\ next.step = "observe"
  BY <1>1 DEF OnTo, Operations, Queries
<1> HIDE DEF next
<1>5. op' = next /\ st'.mem[m].phase = st.mem[m].phase => OpInv'
  BY <1>1, <1>4 DEF OpInv, Settled, Phase
<1>6. ok /\ Noted(k, None, "applied") /\ st' = fold /\ op' = next => Sound
  <2> SUFFICES ASSUME ok, Noted(k, None, "applied"), st' = fold, op' = next PROVE Sound
    OBVIOUS
  <2>1. k[1] = "query"
    OBVIOUS
  <2> HIDE DEF k, ok
  <2>2. st' \in SettlementStates /\ CoreInv' /\ StaysClosed /\ st'.mem[m].phase = st.mem[m].phase
    BY <1>3, <2>1, NotedQuery
  <2> QED
    BY <1>5, <2>2 DEF Sound
<1>7. \A n \in Members : k = <<"grant", n>> => None \in Nat
  OBVIOUS
<1>8. expected' \in [Members -> Nat] /\ \A n \in Members : expected'[n] = expected[n]
  BY <1>3, InvParts
<1> HIDE DEF k, fold, ok
<1> QED
  BY <1>3, <1>4, <1>5, <1>6, <1>7, <1>8, AdmitStep

\* The coordinator records what a query found.
LEMMA QueryReceiptStep ==
  ASSUME SettlementInv, NEW m \in Members, RecordQueryReceipt(m)
  PROVE  SettlementInv' /\ StaysClosed
<1>1. op.kind = "query" /\ op.step = "receipt" /\ op.m = m /\ op \in Answered
      /\ ~Settled(m) /\ op.receipt # None /\ Truthful(m, op.receipt)
  BY InvParts, OpShape DEF RecordQueryReceipt, At, OpInv
<1>2. PICK r \in Outcomes : r = op.receipt
  BY <1>1 DEF Answered
<1> DEFINE k == <<"query-receipt", m, r>>
           ok == CanRecordReceipt(m, "unknown")
           fold == RecordReceipt(m, r)
           next == OnTo("reconcile")
<1>3. Admit(k, None, ok, fold, next) /\ UNCHANGED <<main, known, expected>>
  BY <1>2 DEF RecordQueryReceipt, Targets_
<1>4. next \in Operations /\ next.kind = "query" /\ next.m = m /\ next.step = "reconcile"
      /\ next.receipt = r
  BY <1>1, <1>2 DEF OnTo, Operations, Answered
<1> HIDE DEF next
<1>5. ASSUME op' = next, Settled(m)' \/ ~Fresh(<<"reconcile", m, r>>)',
             \A x \in Outcomes : ~OwedResolve(m, x)' /\ (OwedReconcile(m, x)' => x = r)
      PROVE  OpInv'
  BY <1>4, <1>5 DEF OpInv
<1>6. ok /\ Noted(k, None, "applied") /\ st' = fold /\ op' = next => Sound
  <2> SUFFICES ASSUME ok, Noted(k, None, "applied"), st' = fold, op' = next PROVE Sound
    OBVIOUS
  <2>1. k # <<"receipt", m, r>>
    OBVIOUS
  <2>2. Phase(m) = "unknown"
    BY DEF CanRecordReceipt
  <2>3. /\ st' \in SettlementStates /\ CoreInv' /\ StaysClosed /\ Settled(m)'
        /\ \A x \in Outcomes : /\ OwedResolve(m, x)' => k = <<"receipt", m, r>> /\ x = r
                               /\ OwedReconcile(m, x)' => k = <<"query-receipt", m, r>> /\ x = r
    BY <1>1, <1>2, <1>3, <2>2, OutcomeStep
  <2> QED
    BY <1>5, <2>1, <2>3 DEF Sound
<1>7. Applied(k) /\ op' = next /\ UNCHANGED <<st, keys>> => OpInv'
  <2> SUFFICES ASSUME Applied(k), op' = next, UNCHANGED <<st, keys>> PROVE OpInv'
    OBVIOUS
  <2>1. \A x \in Outcomes : ~OwedResolve(m, x) /\ ~OwedReconcile(m, x)
    BY <1>1, InvParts DEF OwedInv
  <2>2. ~Fresh(<<"reconcile", m, r>>)
    BY <2>1 DEF OwedReconcile
  <2>3. ~Fresh(<<"reconcile", m, r>>)'
        /\ \A x \in Outcomes : ~OwedResolve(m, x)' /\ ~OwedReconcile(m, x)'
    BY <2>1, <2>2 DEF Fresh, OwedResolve, OwedReconcile, Applied
  <2> QED
    BY <1>5, <2>3
<1>8. \A n \in Members : k = <<"grant", n>> => None \in Nat
  OBVIOUS
<1>9. expected' \in [Members -> Nat] /\ \A n \in Members : expected'[n] = expected[n]
  BY <1>3, InvParts
<1> HIDE DEF k, fold, ok
<1> QED
  BY <1>3, <1>4, <1>6, <1>7, <1>8, <1>9, AdmitStep

\* The lane is told of what a query found.
LEMMA ReconcileStep ==
  ASSUME SettlementInv, NEW m \in Members, Reconcile(m)
  PROVE  SettlementInv' /\ StaysClosed
<1>1. /\ op.kind = "query" /\ op.step = "reconcile" /\ op.m = m
      /\ Settled(m) \/ ~Fresh(<<"reconcile", m, op.receipt>>)
      /\ \A x \in Outcomes : ~OwedResolve(m, x) /\ (OwedReconcile(m, x) => x = op.receipt)
  BY InvParts DEF Reconcile, At, OpInv
<1>2. PICK r, a : r = op.receipt /\ a = st.mem[m].attempts
  OBVIOUS
<1> DEFINE k == <<"reconcile", m, r>>
           ok == AtHead(m, a, "unknown")
           fold == Resolve(m, a)
<1>3. Admit(k, a, ok, fold, SettlementIdle) /\ UNCHANGED <<main, known, expected>>
  BY <1>2 DEF Reconcile, Targets_
<1>4. SettlementIdle \in Operations /\ (op' = SettlementIdle => OpInv')
  BY IdleOp DEF Operations
<1>5. ok /\ Noted(k, a, "applied") /\ st' = fold /\ op' = SettlementIdle => Sound
  <2> SUFFICES ASSUME ok, Noted(k, a, "applied"), st' = fold, op' = SettlementIdle PROVE Sound
    OBVIOUS
  <2>1. k[1] \in {"resolve", "reconcile"}
    OBVIOUS
  <2>2. Settled(m) /\ a \in Nat
    BY <1>1, <1>2, InvParts DEF Noted, Fresh
  <2>3. ~OwedUnknown(m)
    <3>1. Lane(m).queue[1].phase = "unknown"
      BY DEF AtHead, Queued
    <3> QED
      BY <3>1, InvParts DEF OwedInv, Heads
  <2>4. ~OwedUnknown(m)' /\ \A x \in Outcomes : ~OwedResolve(m, x)' /\ ~OwedReconcile(m, x)'
    <3>1. /\ \A x \in Outcomes : /\ OwedResolve(m, x)' => OwedResolve(m, x)
                                 /\ OwedReconcile(m, x)' => OwedReconcile(m, x)
          /\ OwedUnknown(m)' => OwedUnknown(m)
      <4> HIDE DEF k
      <4> QED
        BY <2>1, DebtsOnly
    <3>2. ~OwedReconcile(m, r)'
      BY KeyFacts DEF OwedReconcile
    <3> QED
      BY <1>1, <1>2, <2>3, <3>1, <3>2
  <2> HIDE DEF k, ok
  <2>5. st' \in SettlementStates /\ CoreInv' /\ StaysClosed
    BY <1>3, <2>1, <2>2, <2>4, InvParts, FinishStep DEF ok
  <2> QED
    BY <1>4, <2>5 DEF Sound
<1>6. \A n \in Members : k = <<"grant", n>> => a \in Nat
  OBVIOUS
<1>7. expected' \in [Members -> Nat] /\ \A n \in Members : expected'[n] = expected[n]
  BY <1>3, InvParts
<1> HIDE DEF k, fold, ok
<1> QED
  BY <1>3, <1>4, <1>5, <1>6, <1>7, AdmitStep

\* A cancelled member leaves its lane.
LEMMA CancelQueuedStep ==
  ASSUME SettlementInv, NEW d \in Decls, NEW m \in Members, CancelQueued(d, m)
  PROVE  SettlementInv' /\ StaysClosed
<1> DEFINE k == <<"cancel-queued", m>>
           fold == Resolve(m, 1)
<1>1. op.kind = "cancel" /\ op \in Operations /\ Queued(m, 1, "queued")
  BY InvParts DEF CancelQueued, At, CancelTargets
<1>2. Admit(k, None, TRUE, fold, op) /\ UNCHANGED <<main, known, expected>>
  BY DEF CancelQueued, Targets_
<1>3. op' = op => OpInv'
  BY <1>1 DEF OpInv
<1>4. Noted(k, None, "applied") /\ st' = fold /\ op' = op => Sound
  <2> SUFFICES ASSUME Noted(k, None, "applied"), st' = fold, op' = op PROVE Sound
    OBVIOUS
  <2>1. k[1] \in {"cancel-queued", "supersede-queued"}
    OBVIOUS
  <2> HIDE DEF k
  <2>2. st' \in SettlementStates /\ CoreInv' /\ StaysClosed
    BY <1>1, <1>2, <2>1, InvParts, WithdrawStep
  <2> QED
    BY <1>3, <2>2 DEF Sound
<1>5. \A n \in Members : k = <<"grant", n>> => None \in Nat
  OBVIOUS
<1> HIDE DEF k, fold
<1>6. expected' \in [Members -> Nat] /\ \A n \in Members : expected'[n] = expected[n]
  BY <1>2, InvParts
<1> QED
  BY <1>1, <1>2, <1>3, <1>4, <1>5, <1>6, AdmitStep, Zenon

\* A superseded member leaves its lane.
LEMMA SupersedeLaneStep ==
  ASSUME SettlementInv, NEW n \in Members, NEW m \in Members, SupersedeLane(n, m)
  PROVE  SettlementInv' /\ StaysClosed
<1> DEFINE k == <<"supersede-queued", n, m>>
           ok == Queued(n, 1, "queued") /\ Index(m, 1) # 0
           fold == Resolve(n, 1)
           next == OnTo("coordinator")
<1>1. op.kind = "supersede" /\ op \in Supersedes /\ op.n = n
      /\ st.co[DeclOf(n)].phase \notin Early
  BY InvParts, OpShape DEF SupersedeLane, At, OpInv
<1>2. Admit(k, None, ok, fold, next) /\ UNCHANGED <<main, known, expected>>
  BY DEF SupersedeLane, Targets_
<1>3. next \in Operations /\ next.kind = "supersede" /\ next.n = n
  BY <1>1 DEF OnTo, Operations, Supersedes
<1> HIDE DEF next
<1>4. op' = next /\ st'.co = st.co => OpInv'
  BY <1>1, <1>3 DEF OpInv
<1>5. ok /\ Noted(k, None, "applied") /\ st' = fold /\ op' = next => Sound
  <2> SUFFICES ASSUME ok, Noted(k, None, "applied"), st' = fold, op' = next PROVE Sound
    OBVIOUS
  <2>1. k[1] \in {"cancel-queued", "supersede-queued"}
    OBVIOUS
  <2> HIDE DEF k
  <2>2. st' \in SettlementStates /\ CoreInv' /\ StaysClosed /\ st'.co = st.co
    BY <1>2, <2>1, InvParts, WithdrawStep
  <2> QED
    BY <1>4, <2>2 DEF Sound
<1>6. \A x \in Members : k = <<"grant", x>> => None \in Nat
  OBVIOUS
<1>7. expected' \in [Members -> Nat] /\ \A x \in Members : expected'[x] = expected[x]
  BY <1>2, InvParts
<1> HIDE DEF k, fold, ok
<1> QED
  BY <1>2, <1>3, <1>4, <1>5, <1>6, <1>7, AdmitStep

\* A superseded member is noted by its coordinator.
LEMMA SupersedeMemberStep ==
  ASSUME SettlementInv, NEW n \in Members, NEW m \in Members, SupersedeMember(n, m)
  PROVE  SettlementInv' /\ StaysClosed
<1> DEFINE k == <<"supersede", n>>
           ok == Phase(n) \in {"pending", "passed"}
           r == [st.mem[n] EXCEPT !.phase = "superseded"]
           fold == Changed(st, n, r)
           d == DeclOf(n)
<1>1. st.co[d].phase \notin Early
  BY InvParts DEF SupersedeMember, At, OpInv
<1>2. Admit(k, m, ok, fold, SettlementIdle) /\ UNCHANGED <<main, known, expected>>
  BY DEF SupersedeMember, Targets_
<1>3. SettlementIdle \in Operations /\ (op' = SettlementIdle => OpInv')
  BY IdleOp DEF Operations
<1>4. r \in MemberRecords /\ r.phase = "superseded" /\ r.attempts = st.mem[n].attempts
  BY InvParts DEF MemberRecords, MemberPhases
<1> HIDE DEF r
<1>5. ok /\ Noted(k, m, "applied") /\ st' = fold /\ op' = SettlementIdle => Sound
  <2> SUFFICES ASSUME ok, Noted(k, m, "applied"), st' = fold, op' = SettlementIdle PROVE Sound
    OBVIOUS
  <2>1. /\ st \in SettlementStates /\ OwedInv(n) /\ GrantInv(n) /\ DeclOK(d)
        /\ d \in Decls /\ n \in Own(d) /\ st.mem[n].attempts \in Nat
    BY InvParts, MembersOwned
  <2>2. PICK p \in {"applying", "completed", "partially_applied", "reconciliation_required"} :
          /\ MovesTo(st', n, r, p, st.co[d].started)
          /\ p = "completed" => \A x \in Own(d) : st'.mem[x].phase = "succeeded"
    BY <1>4, <2>1, ChangedFields
  <2> HIDE DEF fold
  <2>3. st'.mem[n] = r /\ st'.lane = st.lane
    BY <2>1, <2>2, StateParts DEF MovesTo
  <2>4. FlightOf(n)'
    BY <1>4, <2>3 DEF FlightOf, Phase
  <2>5. k[1] = "supersede" /\ k[2] = n /\ k # <<"grant", n>>
    OBVIOUS
  <2>6. ~OwedUnknown(n) /\ \A x \in Outcomes : ~OwedResolve(n, x) /\ ~OwedReconcile(n, x)
    BY <2>1 DEF OwedInv, Settled
  <2> HIDE DEF k
  <2>7. OwedInv(n)'
    <3>1. k[1] \notin {"receipt", "query-receipt", "unknown"}
      BY <2>5
    <3>2. ~OwedUnknown(n)' /\ \A x \in Outcomes : ~OwedResolve(n, x)' /\ ~OwedReconcile(n, x)'
      BY <2>6, <3>1, DebtsOnly
    <3> QED
      BY <3>2 DEF OwedInv
  <2>8. GrantInv(n)'
    <3>1. k[1] \notin {"start", "retry"}
      BY <2>5
    <3>2. st'.mem[n].attempts \in Nat /\ st.mem[n].attempts <= st'.mem[n].attempts
      BY <1>4, <2>1, <2>3
    <3> QED
      BY <2>1, <2>5, <3>1, <3>2, GrantKept
  <2>9. st.co[d].phase \notin {"undeclared", "completed", "refused", "cancelled"}
        /\ \A x \in Own(d) : Phase(x) # "pending"
    BY <1>1, <2>1 DEF DeclOK, Early
  <2>10. p \notin Early \cup {"ready", "undeclared", "compensated"}
    BY <2>2 DEF Early
  <2>11. Absent(n) /\ st.mem[n].attempts <= r.attempts
    BY <1>4, <2>1, InvParts DEF MainInv
  <2>12. st' \in SettlementStates /\ CoreInv' /\ StaysClosed
    <3>1. SettlementTypes /\ CoreInv /\ k[1] # "grant" /\ r.phase \notin {"pending", "succeeded"}
          /\ UNCHANGED <<expected, main>> /\ r.phase \in {"pending", "passed", "superseded"}
      BY <1>2, <1>4, <2>5, InvParts
    <3> HIDE DEF ok
    <3> QED
      BY <2>2, <2>4, <2>5, <2>7, <2>8, <2>9, <2>10, <2>11, <3>1, MemberStep
  <2> QED
    BY <1>3, <2>12 DEF Sound
<1>6. \A x \in Members : k = <<"grant", x>> => m \in Nat
  OBVIOUS
<1>7. expected' \in [Members -> Nat] /\ \A x \in Members : expected'[x] = expected[x]
  BY <1>2, InvParts
<1> HIDE DEF k, fold, ok
<1> QED
  BY <1>2, <1>3, <1>5, <1>6, <1>7, AdmitStep

\* A cancellation after effects.
LEMMA CancelledStep ==
  ASSUME SettlementInv, NEW d \in Decls, CancelAfter(d), st' = CancelledFold(d),
         UNCHANGED <<expected, main>>, NEW k, NEW cmd, Noted(k, cmd, "applied"), k[1] = "cancel"
  PROVE  st' \in SettlementStates /\ CoreInv' /\ StaysClosed
<1>1. st \in SettlementStates /\ st.co[d].started # 0 /\ st.co[d].phase \notin Terminal /\ DeclOK(d)
  BY InvParts DEF CancelAfter
<1>2. PICK p \in {"applying", "completed", "partially_applied", "reconciliation_required"} :
        /\ st' \in SettlementStates
        /\ st'.co = [st.co EXCEPT ![d] = [phase |-> p, started |-> st.co[d].started]]
        /\ st'.lane = st.lane
        /\ st'.mem = [m \in Members |->
             IF m \in Unstarted(d) THEN [st.mem[m] EXCEPT !.phase = "cancelled"] ELSE st.mem[m]]
        /\ p = "completed" => \A n \in Own(d) : st'.mem[n].phase = "succeeded"
  BY <1>1, CancelledFields
<1>3. /\ st'.co[d].phase = p /\ st'.co[d].started = st.co[d].started
      /\ \A e \in Decls : e # d => st'.co[e] = st.co[e]
  BY <1>1, <1>2, StateParts
<1>4. \A m \in Members : /\ m \in Unstarted(d) => Phase(m)' = "cancelled"
                         /\ m \notin Unstarted(d) => st'.mem[m] = st.mem[m]
                         /\ st'.mem[m].attempts = st.mem[m].attempts
                         /\ st.mem[m].attempts \in Nat
  BY <1>2, InvParts DEF Phase, MemberRecords
<1>5. \A m \in Members : m \notin Unstarted(d) => Phase(m)' = Phase(m)
  BY <1>4 DEF Phase
<1>6. \A m \in Unstarted(d) : m \in Own(d) /\ m \in Members /\ Phase(m) \in {"pending", "passed"}
  BY MembersOwned DEF Unstarted
<1>7. p \notin Early \cup {"ready", "undeclared", "compensated"}
  BY <1>2 DEF Early
<1>8. DeclInv'
  <2> SUFFICES ASSUME NEW e \in Decls PROVE DeclOK(e)'
    BY DEF DeclInv, DeclOK
  <2>1. CASE e # d
    <3>1. \A n \in Own(e) : n \in Members /\ n \notin Unstarted(d)
      BY <1>6, <2>1, MembersOwned
    <3>2. DeclOK(e) /\ st'.co[e] = st.co[e]
      BY <1>3, <2>1, InvParts
    <3>3. \A n \in Own(e) : st'.mem[n].phase = st.mem[n].phase
      BY <1>4, <3>1
    <3> QED
      BY <1>2, <3>2, <3>3, DeclKept
  <2>2. CASE e = d
    <3>1. ~Fresh(<<"declare", d>>)'
      <4>1. st.co[d].phase # "undeclared"
        BY <1>1 DEF DeclOK, Early
      <4> QED
        BY <1>1, <4>1, KeyFacts DEF DeclOK
    <3>2. \A n \in Own(d) : Phase(n)' # "pending"
      <4> SUFFICES ASSUME NEW n \in Own(d) PROVE Phase(n)' # "pending"
        OBVIOUS
      <4>1. n \in Members
        BY MembersOwned
      <4>2. n \notin Unstarted(d) => Phase(n) # "pending"
        BY DEF Unstarted
      <4> QED
        BY <1>4, <1>5, <4>1, <4>2
    <3>3. p = "completed" => \A n \in Own(d) : Phase(n)' = "succeeded"
      BY <1>2 DEF Phase
    <3> QED
      BY <1>1, <1>3, <1>7, <2>2, <3>1, <3>2, <3>3 DEF DeclOK, Own
  <2> QED
    BY <2>1, <2>2
<1>9. LaneInv'
  <2> SUFFICES ASSUME NEW u \in Targets
               PROVE  LaneOK(st.lane[u].queue, st'.mem)
    BY <1>2 DEF LaneInv
  <2> DEFINE q == st.lane[u].queue
  <2>1. \A i \in DOMAIN q : q[i] \in LaneEntries
    BY <1>1, StateParts DEF LaneRecords
  <2>2. /\ \A i, j \in DOMAIN q : q[i].m = q[j].m /\ q[i].attempt = q[j].attempt => i = j
        /\ \A i \in DOMAIN q :
             /\ q[i].phase # "queued" => i = 1
             /\ q[i].phase = "queued" => q[i].seq = 0
             /\ q[i].phase = "unknown" => q[i].attempt <= st.mem[q[i].m].attempts
    BY InvParts DEF LaneInv, LaneOK
  <2> HIDE DEF q
  <2>3. \A i \in DOMAIN q : st'.mem[q[i].m].attempts = st.mem[q[i].m].attempts
    BY <1>4, <2>1 DEF LaneEntries
  <2> QED
    BY <2>2, <2>3 DEF q, LaneOK
<1>10. \A m \in Members : OwedInv(m)' /\ FlightOf(m)'
  <2> SUFFICES ASSUME NEW m \in Members PROVE OwedInv(m)' /\ FlightOf(m)'
    OBVIOUS
  <2>1. OwedInv(m) /\ FlightOf(m) /\ k[1] \notin {"receipt", "query-receipt", "unknown"}
    BY InvParts
  <2>2. CASE m \in Unstarted(d)
    <3>1. ~OwedUnknown(m) /\ \A x \in Outcomes : ~OwedResolve(m, x) /\ ~OwedReconcile(m, x)
      BY <1>6, <2>1, <2>2 DEF OwedInv, Settled
    <3>2. ~OwedUnknown(m)' /\ \A x \in Outcomes : ~OwedResolve(m, x)' /\ ~OwedReconcile(m, x)'
      BY <2>1, <3>1, DebtsOnly
    <3> QED
      BY <1>4, <2>2, <3>2 DEF OwedInv, FlightOf
  <2>3. CASE m \notin Unstarted(d)
    BY <1>2, <1>4, <2>1, <2>3, DebtsKept
  <2> QED
    BY <2>2, <2>3
<1>11. \A m \in Members : GrantInv(m)'
  <2> SUFFICES ASSUME NEW m \in Members PROVE GrantInv(m)'
    OBVIOUS
  <2>1. GrantInv(m) /\ k # <<"grant", m>> /\ k[1] \notin {"start", "retry"}
    BY InvParts
  <2>2. st'.mem[m].attempts \in Nat /\ st.mem[m].attempts \in Nat
        /\ st.mem[m].attempts <= st'.mem[m].attempts
    BY <1>4
  <2> QED
    BY <2>1, <2>2, GrantKept
<1>12. \A n, i : InMain(n, i)' <=> InMain(n, i)
  BY DEF InMain
<1>13. MainInv'
  <2>1. \A n : Absent(n)' <=> Absent(n)
    BY DEF Absent
  <2> SUFFICES ASSUME NEW n \in Members
               PROVE  (/\ \A i \in Nat :
                           InMain(n, i) => expected[n] < i /\ \A j \in Nat : InMain(n, j) => i = j
                       /\ Phase(n) \notin {"started", "unknown", "succeeded"} => Absent(n)
                       /\ n \notin Proposals /\ Phase(n) = "succeeded" =>
                            st.mem[n].receipt # None /\ InMain(n, st.mem[n].receipt[2]))'
    BY DEF MainInv
  <2>2. /\ \A i \in Nat :
             InMain(n, i) => expected[n] < i /\ \A j \in Nat : InMain(n, j) => i = j
        /\ Phase(n) \notin {"started", "unknown", "succeeded"} => Absent(n)
        /\ n \notin Proposals /\ Phase(n) = "succeeded" =>
             st.mem[n].receipt # None /\ InMain(n, st.mem[n].receipt[2])
    BY InvParts DEF MainInv
  <2>3. CASE n \in Unstarted(d)
    <3>1. Absent(n) /\ Phase(n)' = "cancelled"
      BY <1>4, <1>6, <2>2, <2>3
    <3> QED
      BY <1>12, <2>1, <2>2, <3>1
  <2>4. CASE n \notin Unstarted(d)
    BY <1>4, <1>5, <1>12, <2>1, <2>2, <2>4
  <2> QED
    BY <2>3, <2>4
<1>14. RepairInv'
  <2> SUFFICES ASSUME NEW e \in Decls, st'.co[e].phase = "compensated",
                      NEW n \in Own(e) \ Proposals, Phase(n)' = "succeeded"
               PROVE  RepairedBy(e, n)'
    BY DEF RepairInv, RepairedBy, Own
  <2>1. e # d /\ st.co[e].phase = "compensated" /\ n \in Members /\ n \notin Unstarted(d)
    BY <1>3, <1>6, <1>7, MembersOwned
  <2>2. RepairedBy(e, n)
    BY <1>5, <2>1, InvParts DEF RepairInv, RepairedBy
  <2> QED
    BY <1>12, <2>2 DEF RepairedBy, Own
<1>15. StaysClosed
  BY <1>1, <1>3 DEF StaysClosed, Terminal
<1> QED
  BY <1>2, <1>8, <1>9, <1>10, <1>11, <1>13, <1>14, <1>15 DEF CoreInv, KeyInv, FlightInv

\* The coordinator cancels, once no member waits in a lane.
LEMMA CancelCoordinatorStep ==
  ASSUME SettlementInv, NEW d \in Decls, CancelCoordinator(d)
  PROVE  SettlementInv' /\ StaysClosed
<1>0. PICK cmd : cmd = (st.co[d].started = 0)
  OBVIOUS
<1> DEFINE k == <<"cancel", d>>
           ok == CancelBefore(d) \/ CancelAfter(d)
           fold == CancelledFold(d)
<1>1. Admit(k, cmd, ok, fold, SettlementIdle) /\ UNCHANGED <<main, known, expected>>
  BY <1>0, Zenon DEF CancelCoordinator, Targets_
<1>2. SettlementIdle \in Operations /\ (op' = SettlementIdle => OpInv')
  BY IdleOp DEF Operations
<1>3. ok /\ Noted(k, cmd, "applied") /\ st' = fold /\ op' = SettlementIdle => Sound
  <2> SUFFICES ASSUME ok, Noted(k, cmd, "applied"), st' = fold, op' = SettlementIdle PROVE Sound
    OBVIOUS
  <2>1. k[1] = "cancel"
    OBVIOUS
  <2> HIDE DEF k
  <2>2. CASE st.co[d].started = 0
    <3>1. st.co[d].phase \in {"declared", "preflighting", "ready"}
      BY <2>2 DEF CancelBefore, CancelAfter
    <3>2. st' = SetPhase(st, d, "cancelled")
      BY <2>2 DEF CancelledFold
    <3>3. "cancelled" \in Phases /\ "cancelled" \in Early
      BY DEF Phases, Early
    <3>4. ASSUME NEW m \in Own(d), Phase(m) \in {"pending", "passed"} PROVE ~Waits(m)
      <4>1. m \in Members /\ m \in Unstarted(d) /\ CancelTargets(d) = {}
        BY <3>4, MembersOwned DEF Unstarted, CancelCoordinator
      <4>2. ~Queued(m, 1, "queued")
        BY <4>1 DEF CancelTargets
      <4> QED
        BY <4>1, <4>2, InvParts, WaitsQueued
    <3>5. st' \in SettlementStates /\ CoreInv' /\ StaysClosed
      <4>1. /\ k[1] \notin {"grant", "start", "retry", "receipt", "query-receipt", "unknown"}
            /\ st.co[d].phase \notin {"undeclared", "completed", "refused", "cancelled"}
            /\ UNCHANGED main /\ \A m \in Members : expected'[m] = expected[m]
            /\ SettlementTypes /\ CoreInv
        BY <1>1, <2>1, <3>1, InvParts
      <4> HIDE DEF ok, fold
      <4> QED
        BY <2>2, <3>2, <3>3, <3>4, <4>1, PhaseStep
    <3> QED
      BY <1>2, <3>5 DEF Sound
  <2>3. CASE st.co[d].started # 0
    <3>1. CancelAfter(d)
      BY <2>3 DEF CancelBefore
    <3>2. st' \in SettlementStates /\ CoreInv' /\ StaysClosed
      BY <1>1, <2>1, <3>1, CancelledStep
    <3> QED
      BY <1>2, <3>2 DEF Sound
  <2> QED
    BY <2>2, <2>3
<1>4. \A n \in Members : k = <<"grant", n>> => cmd \in Nat
  OBVIOUS
<1>5. expected' \in [Members -> Nat] /\ \A n \in Members : expected'[n] = expected[n]
  BY <1>1, InvParts
<1> HIDE DEF k, fold, ok
<1> QED
  BY <1>1, <1>2, <1>3, <1>4, <1>5, AdmitStep

\* A target's history grows by others' revisions and, last, by at most one of a
\* member that is under way and not yet in it.
LEMMA HistoryStep ==
  ASSUME SettlementInv, UNCHANGED <<st, keys, expected>>, NEW t \in Targets,
         NEW m \in Members \cup {None}, NEW w \in {<<>>, <<None>>, <<m>>, <<None, m>>},
         main' = [main EXCEPT ![t] = main[t] \o w],
         m # None => /\ TargetOf[m] = t /\ Absent(m) /\ Phase(m) = "started"
                     /\ expected[m] <= Len(main[t])
  PROVE  /\ main' \in [Targets -> Seq(Members \cup {None})] /\ CoreInv' /\ StaysClosed
         /\ \A n \in Members : n # m => (Absent(n)' <=> Absent(n))
         /\ w \in {<<m>>, <<None, m>>} /\ m # None =>
              \A i : i = Len(main[t]) + Len(w) => InMain(m, i)'
         /\ \A n \in Members, i \in Nat : InMain(n, i) => InMain(n, i)'
<1> DEFINE q == main[t]
           p == q \o w
<1>1. q \in Seq(Members \cup {None}) /\ Len(q) \in Nat /\ DOMAIN q = 1..Len(q)
  BY InvParts
<1>2. /\ w \in Seq(Members \cup {None}) /\ Len(w) \in {0, 1, 2}
      /\ \A i \in 1..Len(w) : w[i] = None \/ (w[i] = m /\ i = Len(w))
      /\ (w \in {<<m>>, <<None, m>>} => Len(w) \in {1, 2} /\ w[Len(w)] = m)
  <2>1. CASE w = <<>>
    BY <2>1
  <2>2. CASE w = <<None>>
    BY <2>2
  <2>3. CASE w = <<m>>
    BY <2>3
  <2>4. CASE w = <<None, m>>
    BY <2>4
  <2> QED
    BY <2>1, <2>2, <2>3, <2>4
<1> HIDE DEF q
<1>3. /\ p \in Seq(Members \cup {None}) /\ Len(p) = Len(q) + Len(w) /\ DOMAIN p = 1..(Len(q) + Len(w))
      /\ \A i \in 1..Len(q) : p[i] = q[i]
      /\ \A i \in 1..Len(w) : p[Len(q) + i] = w[i]
  BY <1>1, <1>2
<1>4. main'[t] = p /\ \A u \in Targets : u # t => main'[u] = main[u]
  BY InvParts DEF q
<1>5. main' \in [Targets -> Seq(Members \cup {None})]
  BY <1>3, InvParts DEF q
<1> HIDE DEF p
<1>6. \A i \in DOMAIN p : i \notin DOMAIN q => p[i] = None \/ (p[i] = m /\ i = Len(q) + Len(w))
  <2> SUFFICES ASSUME NEW i \in DOMAIN p, i \notin DOMAIN q
               PROVE  p[i] = None \/ (p[i] = m /\ i = Len(q) + Len(w))
    OBVIOUS
  <2>1. i - Len(q) \in 1..Len(w) /\ i = Len(q) + (i - Len(q))
    BY <1>1, <1>2, <1>3
  <2>2. p[i] = w[i - Len(q)]
    BY <1>3, <2>1
  <2> QED
    BY <1>2, <2>1, <2>2
<1>7. None \notin Members
  BY SettlementAssumption DEF SettlementAssumption
<1>8. \A n \in Members, i \in Nat : InMain(n, i) => InMain(n, i)'
  <2> SUFFICES ASSUME NEW n \in Members, NEW i \in Nat, InMain(n, i) PROVE InMain(n, i)'
    OBVIOUS
  <2>1. CASE TargetOf[n] # t
    BY <1>4, <2>1, MembersOwned DEF InMain
  <2>2. CASE TargetOf[n] = t
    <3>1. i \in DOMAIN q /\ q[i] = n
      BY <2>2 DEF InMain, q
    <3>2. i \in DOMAIN p /\ p[i] = n
      BY <1>1, <1>2, <1>3, <3>1
    <3> QED
      BY <1>4, <2>2, <3>2 DEF InMain
  <2> QED
    BY <2>1, <2>2
<1>9. ASSUME NEW n \in Members, NEW i, InMain(n, i)'
      PROVE  InMain(n, i) \/ (n = m /\ TargetOf[n] = t /\ i = Len(q) + Len(w))
  <2>1. CASE TargetOf[n] # t
    BY <1>4, <1>9, <2>1, MembersOwned DEF InMain
  <2>2. CASE TargetOf[n] = t
    <3>1. i \in DOMAIN p /\ p[i] = n
      BY <1>4, <1>9, <2>2 DEF InMain
    <3>2. CASE i \in DOMAIN q
      BY <1>1, <1>3, <2>2, <3>1, <3>2 DEF InMain, q
    <3>3. CASE i \notin DOMAIN q
      BY <1>6, <1>7, <2>2, <3>1, <3>3
    <3> QED
      BY <3>2, <3>3
  <2> QED
    BY <2>1, <2>2
<1>10. \A n \in Members : n # m => (Absent(n)' <=> Absent(n))
  <2> SUFFICES ASSUME NEW n \in Members, n # m PROVE Absent(n)' <=> Absent(n)
    OBVIOUS
  <2>1. Absent(n) <=> \A i : ~InMain(n, i)
    BY DEF Absent, InMain
  <2>2. Absent(n)' <=> \A i : ~InMain(n, i)'
    BY DEF Absent, InMain
  <2>3. \A i : InMain(n, i) => i \in Nat
    <3>1. main[TargetOf[n]] \in Seq(Members \cup {None})
      BY InvParts, MembersOwned
    <3> QED
      BY <3>1 DEF InMain
  <2> QED
    BY <1>8, <1>9, <2>1, <2>2, <2>3
<1>11. MainInv'
  <2> SUFFICES ASSUME NEW n \in Members
               PROVE  (/\ \A i \in Nat :
                           InMain(n, i) => expected[n] < i /\ \A j \in Nat : InMain(n, j) => i = j
                       /\ Phase(n) \notin {"started", "unknown", "succeeded"} => Absent(n)
                       /\ n \notin Proposals /\ Phase(n) = "succeeded" =>
                            st.mem[n].receipt # None /\ InMain(n, st.mem[n].receipt[2]))'
    BY DEF MainInv
  <2>1. /\ \A i \in Nat :
             InMain(n, i) => expected[n] < i /\ \A j \in Nat : InMain(n, j) => i = j
        /\ Phase(n) \notin {"started", "unknown", "succeeded"} => Absent(n)
        /\ n \notin Proposals /\ Phase(n) = "succeeded" =>
             st.mem[n].receipt # None /\ InMain(n, st.mem[n].receipt[2])
    BY InvParts DEF MainInv
  <2>2. \A i : InMain(n, i) => i \in Nat
    <3>1. main[TargetOf[n]] \in Seq(Members \cup {None})
      BY InvParts, MembersOwned
    <3> QED
      BY <3>1 DEF InMain
  <2>3. Phase(n)' = Phase(n) /\ st'.mem = st.mem /\ expected' = expected
    BY DEF Phase
  <2>4. CASE n # m
    BY <1>8, <1>9, <1>10, <2>1, <2>2, <2>3, <2>4
  <2>5. CASE n = m
    <3>1. n # None /\ TargetOf[n] = t /\ Absent(n) /\ Phase(n) = "started" /\ expected[n] <= Len(q)
      BY <1>7, <2>5 DEF q
    <3>2. \A i : ~InMain(n, i)
      BY <3>1 DEF Absent, InMain
    <3>3. \A i : InMain(n, i)' => i = Len(q) + Len(w)
      BY <1>9, <3>2
    <3>4. \A i : InMain(n, i)' => expected[n] < i
      <4> SUFFICES ASSUME NEW i, InMain(n, i)' PROVE expected[n] < i
        OBVIOUS
      <4>1. i = Len(q) + Len(w)
        BY <3>3
      <4>2. i \notin DOMAIN q
        <5>1. i \in DOMAIN p /\ p[i] = n
          BY <1>4, <3>1 DEF InMain
        <5>2. \A x \in DOMAIN q : q[x] # n
          BY <3>1 DEF Absent, q
        <5> QED
          BY <1>1, <1>3, <5>1, <5>2
      <4>3. i \in DOMAIN p
        BY <1>4, <3>1 DEF InMain
      <4>4. i > Len(q) /\ i \in Nat /\ expected[n] \in Nat
        BY <1>1, <1>2, <1>3, <4>2, <4>3, InvParts
      <4> QED
        BY <1>1, <3>1, <4>4
    <3> QED
      BY <2>3, <3>1, <3>3, <3>4
  <2> QED
    BY <2>4, <2>5
<1>12. RepairInv'
  <2> SUFFICES ASSUME NEW e \in Decls, st.co[e].phase = "compensated",
                      NEW n \in Own(e) \ Proposals, Phase(n) = "succeeded"
               PROVE  RepairedBy(e, n)'
    BY DEF RepairInv, RepairedBy, Own, Phase
  <2>1. RepairedBy(e, n) /\ n \in Members
    BY InvParts, MembersOwned DEF RepairInv, RepairedBy
  <2> QED
    BY <1>8, <2>1 DEF RepairedBy, Own
<1>13. DeclInv' /\ LaneInv' /\ FlightInv' /\ KeyInv'
  <2>1. DeclInv'
    <3>1. \A n : (Waits(n)' <=> Waits(n)) /\ Phase(n)' = Phase(n)
      BY DEF Waits, Lane, Phase
    <3> QED
      BY <3>1, InvParts DEF DeclInv, DeclOK, Own, Fresh
  <2>2. LaneInv'
    BY InvParts DEF LaneInv
  <2>3. FlightInv'
    BY InvParts DEF FlightInv, FlightOf, Phase, Heads, Held, Lane
  <2>4. KeyInv'
    <3>1. \A n \in Members : GrantInv(n)' <=> GrantInv(n)
      BY DEF GrantInv, Applied
    <3>2. \A n \in Members : OwedInv(n)' <=> OwedInv(n)
      BY DEF OwedInv, OwedResolve, OwedReconcile, OwedUnknown, Applied, Fresh, Settled,
             Phase, Heads, Held, Lane
    <3> QED
      BY <3>1, <3>2, InvParts DEF KeyInv
  <2> QED
    BY <2>1, <2>2, <2>3, <2>4
<1>14. ASSUME w \in {<<m>>, <<None, m>>}, m # None, NEW i, i = Len(q) + Len(w)
       PROVE  InMain(m, i)'
  <2>1. Len(w) \in {1, 2} /\ w[Len(w)] = m
    BY <1>2, <1>14
  <2>2. Len(w) \in 1..Len(w)
    BY <2>1
  <2>3. p[Len(q) + Len(w)] = m
    BY <1>3, <2>1, <2>2
  <2>4. i \in DOMAIN p /\ p[i] = m
    <3>1. Len(q) + Len(w) \in 1..(Len(q) + Len(w))
      <4>1. \A x \in Nat, y \in {1, 2} : x + y \in 1..(x + y)
        OBVIOUS
      <4> QED
        BY <1>1, <2>1, <4>1
    <3>2. i \in DOMAIN p
      BY <1>3, <1>14, <3>1
    <3> QED
      BY <1>14, <2>3, <3>2
  <2> QED
    BY <1>4, <1>14, <2>4 DEF InMain
<1>15. w \in {<<m>>, <<None, m>>} /\ m # None =>
         \A i : i = Len(main[t]) + Len(w) => InMain(m, i)'
  <2> SUFFICES ASSUME w \in {<<m>>, <<None, m>>}, m # None, NEW i, i = Len(q) + Len(w)
               PROVE  InMain(m, i)'
    BY DEF q
  <2> QED
    BY <1>14
<1> QED
  BY <1>5, <1>8, <1>10, <1>11, <1>12, <1>13, <1>15 DEF CoreInv, StaysClosed

\* The steps that advance a target.
LEMMA MainStep ==
  ASSUME SettlementInv, UNCHANGED <<st, keys, expected>>,
         main' \in [Targets -> Seq(Members \cup {None})], CoreInv', StaysClosed,
         known' \in [Targets -> Nat], targetEdits' \in Nat, crashes' \in Nat,
         op' \in Operations, OpInv'
  PROVE  SettlementInv' /\ StaysClosed
<1>1. SettlementTypes /\ st' \in SettlementStates /\ expected' \in [Members -> Nat]
  BY InvParts
<1>2. SettlementTypes'
  BY <1>1, TypesKept
<1> QED
  BY <1>2 DEF SettlementInv

\* Another writer advances a target; what an operation saw stays true.
LEMMA EditStep ==
  ASSUME SettlementInv, NEW t \in Targets, Edit(t)
  PROVE  SettlementInv' /\ StaysClosed
<1>1. /\ UNCHANGED <<st, keys, expected>> /\ UNCHANGED <<op, crashes>>
      /\ targetEdits' = targetEdits + 1
      /\ main' = [main EXCEPT ![t] = Append(main[t], None)]
      /\ known' \in {known, [known EXCEPT ![t] = Len(main'[t])]}
  BY DEF Edit
<1>2. main[t] \in Seq(Members \cup {None})
  BY InvParts
<1>3. Append(main[t], None) = main[t] \o <<None>>
  BY <1>2
<1>4. main' = [main EXCEPT ![t] = main[t] \o <<None>>]
  BY <1>1, <1>3
<1>5. /\ main' \in [Targets -> Seq(Members \cup {None})] /\ CoreInv' /\ StaysClosed
      /\ \A n \in Members : n # None => (Absent(n)' <=> Absent(n))
      /\ \A n \in Members, i \in Nat : InMain(n, i) => InMain(n, i)'
  <2> DEFINE w == <<None>>
  <2>1. w \in {<<>>, <<None>>, <<None>>, <<None, None>>}
    OBVIOUS
  <2>2. None \in Members \cup {None} /\ main' = [main EXCEPT ![t] = main[t] \o w]
    BY <1>4
  <2> HIDE DEF w
  <2> QED
    BY <1>1, <2>1, <2>2, HistoryStep
<1>6. known' \in [Targets -> Nat] /\ targetEdits' \in Nat /\ crashes' \in Nat
  <2>1. Len(main'[t]) \in Nat
    <3>1. main' \in [Targets -> Seq(Members \cup {None})]
      BY <1>5
    <3>2. main'[t] \in Seq(Members \cup {None})
      BY <3>1
    <3> QED
      BY <3>2, LenProperties, Zenon
  <2>2. known \in [Targets -> Nat] /\ targetEdits \in Nat /\ crashes \in Nat
    BY InvParts
  <2>3. known' \in [Targets -> Nat]
    <3>1. PICK x \in Nat : x = Len(main'[t])
      BY <2>1
    <3>2. known' = known \/ known' = [known EXCEPT ![t] = x]
      BY <1>1, <3>1
    <3> QED
      BY <2>2, <3>1, <3>2
  <2> QED
    BY <1>1, <2>2, <2>3
<1>7. op' \in Operations
  BY <1>1, InvParts
<1>8. OpInv'
  <2>1. None \notin Members
    BY SettlementAssumption DEF SettlementAssumption
  <2>2. \A n \in Members, r \in Outcomes : Truthful(n, r) => Truthful(n, r)'
    <3> SUFFICES ASSUME NEW n \in Members, NEW r \in Outcomes, Truthful(n, r)
                 PROVE  Truthful(n, r)'
      OBVIOUS
    <3>1. r # None /\ r[1] = "succeeded" => r[2] \in Nat
      BY DEF Outcomes
    <3> QED
      BY <1>5, <2>1, <3>1 DEF Truthful
  <2>3. op.kind = "member" /\ op.step = "effect" => (Absent(op.m) => Absent(op.m)')
    <3>1. op.kind = "member" /\ op.step = "effect" => op.m \in Members
      BY InvParts, OpShape DEF Attempts
    <3>2. \A n \in Members : Absent(n) => Absent(n)'
      BY <1>5, <2>1
    <3> QED
      BY <1>1, <3>1, <3>2 DEF Absent
  <2>4. op.kind = "member" /\ op.step \in {"record", "receipt"} =>
          (Truthful(op.m, op.receipt) => Truthful(op.m, op.receipt)')
    <3>1. op.kind = "member" /\ op.step \in {"record", "receipt"} =>
            op.m \in Members /\ op.receipt \in Outcomes
      BY InvParts, OpShape DEF Effected, Acting
    <3> QED
      BY <1>1, <2>2, <3>1 DEF Truthful
  <2>5. op.kind = "query" /\ op.step = "receipt" =>
          (Truthful(op.m, op.receipt) => Truthful(op.m, op.receipt)')
    <3>1. op.kind = "query" /\ op.step = "receipt" => op.m \in Members /\ op.receipt \in Outcomes
      BY InvParts, OpShape DEF Answered
    <3> QED
      BY <1>1, <2>2, <3>1
  <2> QED
    BY <1>1, <2>3, <2>4, <2>5, InvParts, SameFacts DEF OpInv
<1> QED
  BY <1>1, <1>5, <1>6, <1>7, <1>8, MainStep

\* The library's record of a target follows a success.
LEMMA RecordTargetStep ==
  ASSUME SettlementInv, NEW m \in Members, RecordTarget(m)
  PROVE  SettlementInv' /\ StaysClosed
<1>1. /\ op.kind = "member" /\ op.step = "record" /\ op.m = m
      /\ known' = [known EXCEPT ![TargetOf[m]] = op.receipt[2]]
      /\ op' = [op EXCEPT !.step = "receipt"]
      /\ UNCHANGED <<st, keys, expected, main>> /\ UNCHANGED <<targetEdits, crashes>>
  BY DEF RecordTarget, At, OnTo
<1>2. op \in Effected /\ op.receipt \in Outcomes
  BY <1>1, InvParts, OpShape DEF Acting, Effected
<1>3. /\ op.receipt # None /\ op.receipt[1] = "succeeded" /\ Truthful(m, op.receipt)
      /\ Phase(m) = "started"
  BY <1>1, InvParts DEF OpInv, Acting
<1>4. known' \in [Targets -> Nat]
  <2>1. op.receipt[2] \in Nat
    BY <1>2, <1>3 DEF Outcomes
  <2> QED
    BY <1>1, <2>1, InvParts
<1>5. /\ op'.kind = "member" /\ op'.m = m /\ op'.attempt = op.attempt /\ op'.step = "receipt"
      /\ op'.receipt = op.receipt /\ op' \in Effected
  BY <1>1, <1>2 DEF Effected, Acting
<1>6. op' \in Operations
  BY <1>5 DEF Operations
<1>7. OpInv'
  <2>1. Truthful(m, op.receipt)'
    <3>1. PICK r : r = op.receipt
      OBVIOUS
    <3>2. Truthful(m, r) /\ op'.receipt = r
      BY <1>3, <1>5, <3>1
    <3>3. Truthful(m, r)'
      BY <1>1, <3>2 DEF Truthful, Absent, InMain
    <3> QED
      BY <3>2, <3>3 DEF Truthful
  <2>2. Phase(m)' = "started"
    BY <1>1, <1>3 DEF Phase
  <2> QED
    BY <1>3, <1>5, <2>1, <2>2 DEF OpInv, Asking, Acting
<1> QED
  BY <1>1, <1>4, <1>6, <1>7, InvParts, OpStep

\* The operation after the effect, with the receipt it carries.
LEMMA ResultStep ==
  ASSUME SettlementInv, NEW m \in Members, At("member", "effect"), op.m = m,
         NEW step \in Acting, NEW r \in Outcomes, Result(step, r), UNCHANGED <<st, keys>>,
         step \in {"record", "receipt"} => r # None /\ Truthful(m, r)',
         step = "record" => r[1] = "succeeded"
  PROVE  op' \in Operations /\ OpInv'
<1>1. op \in Attempts /\ Phase(m) = "started"
  BY InvParts, OpShape DEF At, OpInv
<1>2. /\ op'.kind = "member" /\ op'.m = m /\ op'.step = step /\ op'.receipt = r
      /\ op' \in Effected
  BY <1>1 DEF Result, Effected, Attempts
<1>3. op' \in Operations
  BY <1>2 DEF Operations
<1>4. Phase(m)' = "started"
  BY <1>1 DEF Phase
<1>5. step \notin Asking /\ step \notin {"effect", "enqueue", "start", "resolve", "lane-unknown"}
  BY DEF Asking, Acting
<1>6. step \in {"record", "receipt"} => (Truthful(op.m, op.receipt))'
  BY <1>2 DEF Truthful, Absent, InMain
<1>7. OpInv'
  BY <1>2, <1>4, <1>5, <1>6 DEF OpInv
<1> QED
  BY <1>3, <1>7

\* Two entries in a row.
LEMMA PairOf ==
  ASSUME NEW x, NEW y
  PROVE  <<x>> \o <<y>> = <<x, y>>
<1>0. <<x>> \in Seq({x, y}) /\ <<y>> \in Seq({x, y})
  OBVIOUS
<1>1. PICK u \in Seq({x, y}) : u = <<x>>
  BY <1>0, Zenon
<1>2. PICK v \in Seq({x, y}) : v = <<y>>
  BY <1>0, Zenon
<1>3. Len(u) = 1 /\ u[1] = x
  BY <1>1
<1>4. Len(v) = 1 /\ v[1] = y
  BY <1>2
<1> DEFINE S == {x, y}
<1> HIDE DEF S
<1>a. /\ u \o v \in Seq(S) /\ Len(u \o v) = Len(u) + Len(v)
      /\ \A i \in 1 .. Len(u) + Len(v) :
           (u \o v)[i] = IF i <= Len(u) THEN u[i] ELSE v[i - Len(u)]
  <2>1. u \in Seq(S) /\ v \in Seq(S)
    BY DEF S
  <2> QED
    BY <2>1, ConcatProperties
<1>b. 1 \in 1 .. Len(u) + Len(v) /\ 2 \in 1 .. Len(u) + Len(v)
  BY <1>3, <1>4
<1>5. u \o v \in Seq({x, y}) /\ Len(u \o v) = 2
  BY <1>3, <1>4, <1>a DEF S
<1>6. (u \o v)[1] = x /\ (u \o v)[2] = y
  BY <1>3, <1>4, <1>a, <1>b
<1>7. u \o v = <<x, y>>
  <2> DEFINE w == u \o v
  <2>1. w \in Seq({x, y}) /\ Len(w) = 2 /\ w[1] = x /\ w[2] = y
    BY <1>5, <1>6
  <2> HIDE DEF w
  <2>2. w = <<x, y>>
    BY <2>1
  <2> QED
    BY <2>2 DEF w
<1> QED
  BY <1>1, <1>2, <1>7

\* The effect on the target, or its refusal.
LEMMA EffectStep ==
  ASSUME SettlementInv, NEW m \in Members, Effect(m)
  PROVE  SettlementInv' /\ StaysClosed
<1> DEFINE t == TargetOf[m]
<1>1. At("member", "effect") /\ op.m = m
  BY DEF Effect
<1>2. UNCHANGED <<st, keys, expected>> /\ UNCHANGED <<known, crashes>>
  BY DEF Effect
<1>3. Phase(m) = "started" /\ Absent(m)
  BY <1>1, InvParts DEF OpInv, At
<1>4. /\ t \in Targets /\ main[t] \in Seq(Members \cup {None}) /\ Len(main[t]) \in Nat
      /\ expected[m] \in Nat /\ known' \in [Targets -> Nat] /\ crashes' \in Nat
      /\ targetEdits \in Nat
  BY <1>2, InvParts, MembersOwned
<1>5. CASE UNCHANGED <<main, targetEdits>>
           /\ \E r \in Outcomes : r # None /\ Truthful(m, r) /\ Result("receipt", r)
  <2>1. PICK r \in Outcomes : r # None /\ Truthful(m, r) /\ Result("receipt", r)
    BY <1>5
  <2>2. Truthful(m, r)'
    BY <1>5, <2>1 DEF Truthful, Absent, InMain
  <2>3. "receipt" \in Acting
    BY DEF Acting
  <2>4. op' \in Operations /\ OpInv'
    BY <1>1, <1>2, <2>1, <2>2, <2>3, ResultStep
  <2> QED
    BY <1>2, <1>4, <1>5, <2>4, OpStep
<1>6. CASE m \in Proposals
  <2> DEFINE r == <<"succeeded", expected[m]>>
  <2>1. Result("receipt", r) /\ UNCHANGED <<main, targetEdits>>
    BY <1>6 DEF Effect
  <2>2. r \in Outcomes /\ r # None
    BY <1>4, SettlementAssumption DEF Outcomes, SettlementAssumption
  <2>3. Truthful(m, r)
    BY <1>6 DEF Truthful
  <2> HIDE DEF r
  <2> QED
    BY <1>5, <2>1, <2>2, <2>3
<1>7. CASE /\ UNCHANGED <<main, targetEdits>>
           /\ \E why \in {"basis", "conflict"} : Result("receipt", <<"failed", why>>)
  <2>1. PICK why \in {"basis", "conflict"} : Result("receipt", <<"failed", why>>)
    BY <1>7
  <2> DEFINE r == <<"failed", why>>
  <2>2. r \in Outcomes /\ r # None
    BY SettlementAssumption DEF Outcomes, SettlementAssumption
  <2>3. Truthful(m, r)
    BY <1>3 DEF Truthful
  <2>4. Result("receipt", r)
    BY <2>1
  <2> HIDE DEF r
  <2> QED
    BY <1>5, <1>7, <2>2, <2>3, <2>4
<1>8. ASSUME NEW raced \in {<<>>, <<None>>}, m \notin Proposals, BasisHolds(m),
             targetEdits' = targetEdits + Len(raced),
             main' = [main EXCEPT ![t] = (main[t] \o raced) \o <<m>>],
             \/ Result("record", <<"succeeded", Len(main[t]) + Len(raced) + 1>>)
             \/ Result("unknown", None)
      PROVE  SettlementInv' /\ StaysClosed
  <2>1. PICK w : w = raced \o <<m>>
    OBVIOUS
  <2>2. /\ w \in {<<m>>, <<None, m>>} /\ Len(w) = Len(raced) + 1 /\ Len(raced) \in Nat
        /\ (main[t] \o raced) \o <<m>> = main[t] \o w
    <3>1. CASE raced = <<>>
      <4>1. w = <<m>>
        BY <2>1, <3>1
      <4> QED
        BY <1>4, <3>1, <4>1
    <3>2. CASE raced = <<None>>
      <4>1. w = <<None, m>>
        BY <2>1, <3>2, PairOf
      <4> QED
        BY <1>4, <3>2, <4>1
    <3> QED
      BY <1>8, <3>1, <3>2
  <2>3. m # None /\ expected[m] <= Len(main[t])
    BY <1>4, <1>8, SettlementAssumption DEF BasisHolds, SettlementAssumption
  <2>4. /\ main' \in [Targets -> Seq(Members \cup {None})] /\ CoreInv' /\ StaysClosed
        /\ \A i : i = Len(main[t]) + Len(w) => InMain(m, i)'
    <3>1. main' = [main EXCEPT ![t] = main[t] \o w] /\ TargetOf[m] = t
      BY <1>8, <2>2
    <3>2. m \in Members \cup {None} /\ w \in {<<>>, <<None>>, <<m>>, <<None, m>>}
      BY <2>2
    <3> HIDE DEF t
    <3> QED
      BY <1>2, <1>3, <1>4, <2>2, <2>3, <3>1, <3>2, HistoryStep
  <2>5. op' \in Operations /\ OpInv'
    <3>1. CASE Result("unknown", None)
      <4>1. "unknown" \in Acting /\ None \in Outcomes
        BY DEF Acting, Outcomes
      <4> QED
        BY <1>1, <1>2, <3>1, <4>1, ResultStep
    <3>2. CASE Result("record", <<"succeeded", Len(main[t]) + Len(raced) + 1>>)
      <4>1. PICK i : i = Len(main[t]) + Len(w)
        OBVIOUS
      <4>2. i \in Nat /\ i = Len(main[t]) + Len(raced) + 1 /\ InMain(m, i)'
        <5>1. i = Len(main[t]) + (Len(raced) + 1)
          BY <2>2, <4>1
        <5>2. \A x, y \in Nat : x + (y + 1) \in Nat /\ x + (y + 1) = x + y + 1
          OBVIOUS
        <5>3. InMain(m, i)'
          BY <2>4, <4>1
        <5> QED
          BY <1>4, <2>2, <5>1, <5>2, <5>3
      <4> DEFINE r == <<"succeeded", i>>
      <4>3. r \in Outcomes /\ r # None /\ r[1] = "succeeded" /\ "record" \in Acting
        BY <4>2, SettlementAssumption DEF Outcomes, SettlementAssumption, Acting
      <4>4. Truthful(m, r)'
        BY <4>2 DEF Truthful
      <4>5. Result("record", r)
        BY <3>2, <4>2
      <4> HIDE DEF r
      <4> QED
        BY <1>1, <1>2, <4>3, <4>4, <4>5, ResultStep
    <3> QED
      BY <1>8, <3>1, <3>2
  <2>6. targetEdits' \in Nat
    BY <1>4, <1>8, <2>2
  <2> QED
    BY <1>2, <1>4, <2>4, <2>5, <2>6, MainStep
<1>9. ASSUME NEW raced \in {<<>>, <<None>>},
             targetEdits' = targetEdits + Len(raced),
             main' = [main EXCEPT ![t] = main[t] \o raced], Result("unknown", None)
      PROVE  SettlementInv' /\ StaysClosed
  <2>1. main' \in [Targets -> Seq(Members \cup {None})] /\ CoreInv' /\ StaysClosed
    <3>1. None \in Members \cup {None} /\ raced \in {<<>>, <<None>>, <<None>>, <<None, None>>}
      BY <1>9
    <3> HIDE DEF t
    <3> QED
      BY <1>2, <1>4, <1>9, <3>1, HistoryStep
  <2>2. op' \in Operations /\ OpInv'
    <3>1. "unknown" \in Acting /\ None \in Outcomes
      BY DEF Acting, Outcomes
    <3> QED
      BY <1>1, <1>2, <1>9, <3>1, ResultStep
  <2>3. targetEdits' \in Nat
    BY <1>4, <1>9
  <2> QED
    BY <1>2, <1>4, <2>1, <2>2, <2>3, MainStep
<1>10. CASE m \notin Proposals
  <2>1. CASE ~BasisHolds(m) /\ Result("receipt", <<"failed", "basis">>)
             /\ UNCHANGED <<main, targetEdits>>
    BY <1>7, <2>1
  <2>2. CASE BasisHolds(m) /\ Result("receipt", <<"failed", "conflict">>)
             /\ UNCHANGED <<main, targetEdits>>
    BY <1>7, <2>2
  <2>3. CASE /\ BasisHolds(m)
             /\ \E raced \in {<<>>, <<None>>} :
                  /\ targetEdits + Len(raced) <= MaxTargetEdits
                  /\ targetEdits' = targetEdits + Len(raced)
                  /\ \/ /\ main' = [main EXCEPT ![t] = main[t] \o raced \o <<m>>]
                        /\ \/ Result("record", <<"succeeded", Len(main[t]) + Len(raced) + 1>>)
                           \/ Result("unknown", None)
                     \/ /\ main' = [main EXCEPT ![t] = main[t] \o raced]
                        /\ Result("unknown", None)
    <3>1. PICK raced \in {<<>>, <<None>>} :
            /\ targetEdits' = targetEdits + Len(raced)
            /\ \/ /\ main' = [main EXCEPT ![t] = main[t] \o raced \o <<m>>]
                  /\ \/ Result("record", <<"succeeded", Len(main[t]) + Len(raced) + 1>>)
                     \/ Result("unknown", None)
               \/ /\ main' = [main EXCEPT ![t] = main[t] \o raced]
                  /\ Result("unknown", None)
      BY <2>3
    <3> QED
      BY <1>8, <1>9, <1>10, <2>3, <3>1
  <2> QED
    BY <1>10, <2>1, <2>2, <2>3 DEF Effect
<1> QED
  BY <1>6, <1>10

(* From the initial state on, and what the invariant says *)

\* Nothing is declared, queued or recorded.
LEMMA SettlementInitial ==
  ASSUME SettlementInit
  PROVE  SettlementInv
<1>1. /\ st.co = [d \in Decls |-> [phase |-> "undeclared", started |-> 0]]
      /\ st.mem = [m \in Members |-> [phase |-> "pending", attempts |-> 0, seq |-> 0,
                                      receipt |-> None, queried |-> {}]]
      /\ st.lane = [t \in Targets |-> [queue |-> <<>>, resolved |-> {}, last |-> 0]]
  BY DEF SettlementInit
<1>2. /\ main = [t \in Targets |-> <<>>] /\ keys = <<>> /\ op = SettlementIdle
      /\ known = [t \in Targets |-> 0] /\ expected = [m \in Members |-> 0]
      /\ targetEdits = 0 /\ crashes = 0
  BY DEF SettlementInit
<1>3. st \in SettlementStates
  <2>1. st.co \in [Decls -> [phase : Phases, started : Nat]]
    BY <1>1 DEF Phases
  <2>2. st.mem \in [Members -> MemberRecords]
    BY <1>1 DEF MemberRecords, MemberPhases, Outcomes
  <2>3. st.lane \in [Targets -> LaneRecords]
    <3>1. <<>> \in Seq(LaneEntries)
      OBVIOUS
    <3>2. [queue |-> <<>>, resolved |-> {}, last |-> 0] \in LaneRecords
      BY <3>1 DEF LaneRecords
    <3> QED
      BY <1>1, <3>2
  <2>4. st = [co |-> st.co, mem |-> st.mem, lane |-> st.lane]
    BY DEF SettlementInit
  <2> HIDE DEF SettlementInit
  <2> QED
    BY <2>1, <2>2, <2>3, <2>4 DEF SettlementStates
<1>4. DOMAIN keys = {} /\ \A k : Fresh(k) /\ ~Applied(k)
  BY <1>2 DEF Fresh, Applied
<1>5. SettlementTypes
  <2>1. main \in [Targets -> Seq(Members \cup {None})]
    BY <1>2
  <2>2. op \in Operations
    BY <1>2 DEF Operations
  <2> QED
    BY <1>2, <1>3, <1>4, <2>1, <2>2 DEF SettlementTypes
<1>6. /\ \A m \in Members : Phase(m) = "pending" /\ Lane(m).queue = <<>>
      /\ \A d \in Decls : st.co[d].phase = "undeclared" /\ st.co[d].started = 0
  BY <1>1, MembersOwned DEF Phase, Lane
<1>7. \A m \in Members : ~Waits(m)
  BY <1>6 DEF Waits
<1>8. DeclInv
  BY <1>6, <1>7, MembersOwned DEF DeclInv, DeclOK, Early
<1>9. LaneInv /\ FlightInv
  <2>1. \A t \in Targets : st.lane[t].queue = <<>>
    BY <1>1
  <2>2. LaneInv
    BY <2>1 DEF LaneInv, LaneOK
  <2> QED
    BY <1>6, <2>2 DEF FlightInv, FlightOf
<1>10. KeyInv
  BY <1>4 DEF KeyInv, GrantInv, OwedInv, OwedResolve, OwedReconcile, OwedUnknown
<1>11. \A m \in Members : Absent(m) /\ \A i : ~InMain(m, i)
  BY <1>2, MembersOwned DEF Absent, InMain
<1>12. MainInv /\ RepairInv
  BY <1>6, <1>11 DEF MainInv, RepairInv, RepairedBy
<1>13. OpInv
  BY <1>2 DEF OpInv, SettlementIdle
<1> QED
  BY <1>5, <1>8, <1>9, <1>10, <1>12, <1>13 DEF SettlementInv, CoreInv

\* Every step of the shell, the targets and the crashes.
LEMMA SettlementStep ==
  ASSUME SettlementInv, [SettlementNext]_settlementVars, Panel
  PROVE  SettlementInv' /\ StaysClosed
<1>1. CASE UNCHANGED settlementVars
  <2>1. UNCHANGED <<st, keys, expected, main, known, op, targetEdits, crashes>>
    BY <1>1 DEF settlementVars
  <2>2. \A k : Fresh(k)' <=> Fresh(k)
    BY <2>1 DEF Fresh
  <2>3. \A m : /\ Phase(m)' = Phase(m) /\ (Settled(m)' <=> Settled(m))
               /\ (Absent(m)' <=> Absent(m)) /\ (OwedUnknown(m)' <=> OwedUnknown(m))
    BY <2>1 DEF Phase, Settled, Absent, InMain, OwedUnknown, Fresh, Applied
  <2>4. \A m, r : /\ OwedReconcile(m, r)' <=> OwedReconcile(m, r)
                  /\ OwedResolve(m, r)' <=> OwedResolve(m, r)
                  /\ Truthful(m, r)' <=> Truthful(m, r)
    BY <2>1 DEF OwedReconcile, OwedResolve, Fresh, Truthful, Applied, InMain, Phase, Settled, Absent
  <2>5. OpInv'
    BY <2>1, <2>2, <2>3, <2>4, InvParts DEF OpInv
  <2> QED
    BY <2>1, <2>5, InvParts, OpStep
<1>2. ASSUME NEW d \in Decls,
             \/ Declare(d) \/ BeginPreflight(d) \/ PreflightMember(d) \/ EnqueueMember(d)
             \/ PreflightDone(d)
             \/ Cancel(d) \/ CancelCoordinator(d) \/ (\E m \in Members : CancelQueued(d, m))
             \/ Abandon(d) \/ Compensate(d)
      PROVE  SettlementInv' /\ StaysClosed
  BY <1>2, DeclareStep, BeginPreflightStep, PreflightMemberStep, EnqueueMemberStep,
     PreflightDoneStep, CancelStep, CancelCoordinatorStep, CancelQueuedStep, AbandonStep,
     CompensateStep
<1>3. ASSUME NEW m \in Members,
             \/ Execute(m) \/ GrantMember(m) \/ StartMember(m) \/ NoPermit(m)
             \/ Retry(m) \/ EnqueueRetry(m) \/ GrantRetry(m) \/ RetryMember(m)
             \/ Effect(m) \/ RecordTarget(m)
             \/ RecordSettlementReceipt(m) \/ ResolveLane(m)
             \/ RecordSettlementUnknown(m) \/ LaneUnknown(m)
             \/ Query(m) \/ RequestQuery(m) \/ Observe(m) \/ RecordQueryReceipt(m)
             \/ Reconcile(m)
      PROVE  SettlementInv' /\ StaysClosed
  BY <1>3, ExecuteStep, GrantMemberStep, StartMemberStep, NoPermitStep, RetryStep,
     EnqueueRetryStep, GrantRetryStep, RetryMemberStep, EffectStep, RecordTargetStep,
     RecordReceiptStep, ResolveLaneStep, RecordUnknownStep, LaneUnknownStep, QueryStep,
     RequestQueryStep, ObserveStep, QueryReceiptStep, ReconcileStep
<1>4. ASSUME NEW n \in Members, NEW m \in Members,
             Supersede(n, m) \/ SupersedeLane(n, m) \/ SupersedeMember(n, m)
      PROVE  SettlementInv' /\ StaysClosed
  BY <1>4, SupersedeStep, SupersedeLaneStep, SupersedeMemberStep
<1>5. ASSUME NEW t \in Targets, Edit(t)
      PROVE  SettlementInv' /\ StaysClosed
  BY <1>5, EditStep
<1>6. CASE SettlementCrash
  BY <1>6, CrashStep
<1> QED
  BY <1>1, <1>2, <1>3, <1>4, <1>5, <1>6 DEF SettlementNext

\* Where a member's change stands in the history of its target.
LEMMA PositionOf ==
  ASSUME SettlementInv, NEW m \in Members, NEW i \in Nat, InMain(m, i)
  PROVE  SelectInSeq(main[TargetOf[m]], LAMBDA y : y = m) = i
<1> DEFINE q == main[TargetOf[m]]
           I == {j \in 1..Len(q) : q[j] = m}
<1>1. SelectInSeq(q, LAMBDA y : y = m) = IF I # {} THEN Min(I) ELSE 0
  BY DEF SelectInSeq
<1>2. q \in Seq(Members \cup {None}) /\ DOMAIN q = 1..Len(q)
  BY InvParts, MembersOwned
<1>3. i \in I
  BY <1>2 DEF InMain
<1>4. \A j \in I : j = i
  BY <1>2, InvParts DEF MainInv, InMain
<1>5. I \in SUBSET Nat /\ I # {}
  BY <1>3
<1> HIDE DEF I, q
<1>6. Min(I) \in I
  BY <1>5, FirstOf
<1> QED
  BY <1>1, <1>4, <1>5, <1>6 DEF q

\* How often a member's change stands in the history of its target.
LEMMA CountOf ==
  ASSUME SettlementInv, NEW m \in Members
  PROVE  LET n == Cardinality({i \in DOMAIN main[TargetOf[m]] : main[TargetOf[m]][i] = m})
         IN /\ n <= 1
            /\ Absent(m) => n = 0
            /\ (\E i \in Nat : InMain(m, i)) => n = 1
<1> DEFINE q == main[TargetOf[m]]
           I == {i \in DOMAIN q : q[i] = m}
<1>1. q \in Seq(Members \cup {None}) /\ DOMAIN q = 1..Len(q)
  BY InvParts, MembersOwned
<1>2. CASE Absent(m)
  <2>1. I = {}
    BY <1>2 DEF Absent
  <2>2. ~(\E i \in Nat : InMain(m, i))
    BY <1>2 DEF Absent, InMain
  <2>3. Cardinality(I) = 0
    BY <2>1, FS_EmptySet
  <2> HIDE DEF I
  <2> QED
    BY <2>2, <2>3 DEF I
<1>3. CASE ~Absent(m)
  <2>1. PICK i \in DOMAIN q : q[i] = m
    BY <1>3 DEF Absent
  <2>2. i \in Nat /\ InMain(m, i)
    BY <1>1, <2>1 DEF InMain
  <2>3. \A j \in DOMAIN q : q[j] = m => j = i
    BY <1>1, <2>2, InvParts DEF MainInv, InMain
  <2>4. I = {i}
    BY <2>1, <2>3
  <2>5. Cardinality(I) = 1
    BY <2>4, FS_Singleton
  <2> HIDE DEF I
  <2> QED
    BY <1>3, <2>5 DEF I
<1> QED
  BY <1>2, <1>3

\* What the invariant says of declarations, lanes and receipts.
LEMMA InvSafe ==
  ASSUME SettlementInv
  PROVE  SettlementSafe
<1>1. SettlementTypeOK
  BY InvParts, StateParts
  DEF SettlementTypeOK, SettlementTypes, MemberRecords, Outcomes, LaneRecords, LaneEntries
<1>2. PreflightFirst
  <2> SUFFICES ASSUME NEW d \in Decls, st.co[d].started # 0
               PROVE  /\ \A m \in Own(d) : Phase(m) # "pending"
                      /\ st.co[d].phase \notin {"refused", "cancelled"}
    BY DEF PreflightFirst
  <2>1. st.co[d].phase \notin Early
    BY InvParts DEF DeclOK
  <2>2. \A m \in Own(d) : Phase(m) # "pending"
    BY <2>1, InvParts DEF DeclOK
  <2> QED
    BY <2>1, <2>2 DEF Early
<1>3. InFlightHoldsLane
  <2>1. ASSUME NEW m \in Members, NEW p, Heads(m, {p})
        PROVE  AtHead(m, st.mem[m].attempts, p)
    <3>1. 1 \in DOMAIN Lane(m).queue
      BY <2>1, InvParts, QueueType DEF Heads
    <3>2. Index(m, st.mem[m].attempts) = 1
      BY <2>1, <3>1, InvParts, IndexOf DEF Heads
    <3> QED
      BY <2>1, <3>2 DEF AtHead, Queued, Heads
  <2> SUFFICES ASSUME NEW m \in Members, Phase(m) \in {"started", "unknown"}
               PROVE  \/ AtHead(m, st.mem[m].attempts, "granted")
                      \/ Phase(m) = "unknown" /\ AtHead(m, st.mem[m].attempts, "unknown")
    BY DEF InFlightHoldsLane
  <2>2. Heads(m, {"granted"}) \/ (Phase(m) = "unknown" /\ Heads(m, {"unknown"}))
    BY InvParts DEF FlightOf, Heads, Held
  <2> QED
    BY <2>1, <2>2
<1>4. ReceiptsTrue
  <2> SUFFICES ASSUME NEW m \in Members, m \notin Proposals
               PROVE  LET n == Cardinality({i \in DOMAIN main[TargetOf[m]] : main[TargetOf[m]][i] = m})
                      IN /\ Phase(m) = "failed" => n = 0
                         /\ Phase(m) = "succeeded" => n = 1
                         /\ n <= 1
    BY DEF ReceiptsTrue
  <2>1. Phase(m) = "failed" => Absent(m)
    BY InvParts DEF MainInv
  <2>2. Phase(m) = "succeeded" => \E i \in Nat : InMain(m, i)
    <3>1. Phase(m) = "succeeded" => InMain(m, st.mem[m].receipt[2])
      BY InvParts DEF MainInv
    <3>2. \A i : InMain(m, i) => i \in Nat
      <4>1. main[TargetOf[m]] \in Seq(Members \cup {None})
        BY InvParts, MembersOwned
      <4> QED
        BY <4>1 DEF InMain
    <3> QED
      BY <3>1, <3>2
  <2> QED
    BY <2>1, <2>2, CountOf
<1>5. Repaired
  <2> SUFFICES ASSUME NEW d \in Decls, st.co[d].phase = "compensated",
                      NEW m \in Successes(d) \ Proposals
               PROVE  LET At_(x) == SelectInSeq(main[TargetOf[m]], LAMBDA y : y = x)
                      IN \E n \in Members \ Own(d) :
                           TargetOf[n] = TargetOf[m] /\ At_(n) > At_(m) /\ expected[n] = At_(m)
    BY DEF Repaired
  <2>1. m \in Own(d) \ Proposals /\ Phase(m) = "succeeded" /\ m \in Members
    BY MembersOwned DEF Successes
  <2>2. PICK n \in Members \ Own(d), i \in Nat, j \in Nat :
          TargetOf[n] = TargetOf[m] /\ InMain(m, i) /\ InMain(n, j) /\ i < j /\ expected[n] = i
    BY <2>1, InvParts DEF RepairInv, RepairedBy
  <2>3. SelectInSeq(main[TargetOf[m]], LAMBDA y : y = m) = i
    BY <2>1, <2>2, PositionOf
  <2>4. SelectInSeq(main[TargetOf[m]], LAMBDA y : y = n) = j
    <3>1. SelectInSeq(main[TargetOf[n]], LAMBDA y : y = n) = j
      BY <2>2, PositionOf
    <3> QED
      BY <2>2, <3>1
  <2>5. j > i
    BY <2>2
  <2> QED
    BY <2>2, <2>3, <2>4, <2>5
<1> QED
  BY <1>1, <1>2, <1>3, <1>4, <1>5 DEF SettlementSafe

(* A declaration's effects are accounted for through every crash between   *)
(* the lane's and the coordinator's appends: none starts before all passed *)
(* preflight, each in flight holds its target's lane, a recorded outcome   *)
(* is what happened in the target, and a compensation repairs what was     *)
(* really changed (`execute_settlement_member`, `query_settlement_member`, *)
(* `compensate_target_settlement`).                                        *)
THEOREM SettlementHolds ==
  ASSUME Panel
  PROVE  SettlementSpec => []SettlementSafe
<1>1. SettlementInit => SettlementInv
  BY SettlementInitial
<1>2. SettlementInv /\ [SettlementNext]_settlementVars => SettlementInv'
  BY SettlementStep
<1>3. SettlementInv => SettlementSafe
  BY InvSafe
<1> QED
  BY <1>1, <1>2, <1>3, PTL DEF SettlementSpec

(* A completed, refused or cancelled declaration stays so, and a completed *)
(* one has every member's success, when retries are asked only of failed   *)
(* members (`retry_settlement_member_effect` checks that too late).        *)
THEOREM ClosedForGood ==
  ASSUME Panel
  PROVE  SettlementSpec => ClosedStays
<1> DEFINE Closed == \A d \in Decls :
       /\ st.co[d].phase \in {"completed", "refused", "cancelled"} =>
            st'.co[d].phase = st.co[d].phase
       /\ st'.co[d].phase = "completed" => \A m \in Own(d) : st'.mem[m].phase = "succeeded"
<1>1. SettlementInit => SettlementInv
  BY SettlementInitial
<1>2. SettlementInv /\ [SettlementNext]_settlementVars => SettlementInv'
  BY SettlementStep
<1>3. SettlementInv /\ [SettlementNext]_settlementVars => [Closed]_settlementVars
  <2> SUFFICES ASSUME SettlementInv, [SettlementNext]_settlementVars PROVE Closed
    OBVIOUS
  <2>1. SettlementInv' /\ StaysClosed
    BY SettlementStep
  <2>2. DeclInv'
    BY <2>1 DEF SettlementInv, CoreInv
  <2> QED
    BY <2>1, <2>2 DEF StaysClosed, DeclInv, DeclOK, Own, Phase
<1> QED
  BY <1>1, <1>2, <1>3, PTL DEF SettlementSpec, ClosedStays
=============================================================================
