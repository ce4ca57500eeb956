--------------------------- MODULE MachineProofs ---------------------------
(***************************************************************************)
(* Proofs about ManagedExecution, for every bound on epochs and every set  *)
(* of amounts, about MembershipFence, for every set of members and         *)
(* requests, and about ManagedCredits, for any chats, calls, costs and     *)
(* grants.                                                                 *)
(*                                                                         *)
(* The runs' invariants are not inductive one by one: a bill is covered    *)
(* because the reservation cannot change once the command is acknowledged, *)
(* and a worker is fenced because the epochs given up are the ones below   *)
(* the newest.  IInv adds what each phase says of the epochs and what      *)
(* usage, settlement and suspension say of the phase.  CreditInv adds what *)
(* each live attempt relies on: that its calls are its own, held and not   *)
(* drawn before it settles, and drawn in turn while it does.               *)
(***************************************************************************)
EXTENDS ManagedExecution, ManagedCredits, MembershipFence, FiniteSetTheorems,
        NaturalsInduction, TLAPS

\* What a phase says of the epochs: none before the first grant, all given up
\* while a retry is owed, all but the newest given up at work or at the end.
EpochsOfPhase ==
  /\ exec.phase = "running" <=> exec.active # NoEpoch
  /\ exec.active # NoEpoch => exec.active = exec.last
  /\ exec.phase \in {"init", "prepared", "acknowledged"} => exec.last = NoEpoch
  /\ exec.phase = "retryable" => lost = 1..exec.last
  /\ exec.phase \in {"running", "completed", "failed"} =>
       exec.last # NoEpoch /\ lost = 1..(exec.last - 1)
  /\ workers = 1..exec.last
  /\ lost \subseteq 1..exec.last

\* What was billed is covered by a reservation that no longer changes.
BillCovered ==
  /\ exec.usage.set => exec.phase = "completed"
  /\ exec.settlement.set => exec.phase = "completed" /\ exec.usage.set
                            /\ exec.settlement.nanos = exec.usage.nanos
  /\ exec.phase = "completed" => exec.usage.set
  /\ exec.usage.set /\ exec.usage.nanos > 0 =>
       /\ exec.profile = "isolated_workspace" /\ exec.reserved.set
       /\ exec.usage.nanos <= exec.reserved.nanos

\* Suspension ends a command that had not ended, and an open reservation is one
\* of a command that can still charge it.
SuspensionEnds ==
  /\ exec.suspended => exec.phase \in Terminal \union {"suspended"}
  /\ exec.phase = "init" => ~exec.open
  /\ ReservationReleased

IInv == TypeOK /\ EpochsOfPhase /\ BillCovered /\ SuspensionEnds

\* Reading and updating one money field.
LEMMA MoneyFacts ==
  /\ \A n \in Amounts \union {0} : Set(n) \in Money /\ Set(n).set /\ Set(n).nanos = n
  /\ NotSet \in Money /\ ~NotSet.set
BY DEF Money, Set, NotSet

LEMMA InitInv == Init => IInv
<1> SUFFICES ASSUME Init PROVE IInv
  OBVIOUS
<1> USE DEF Init, NoEpoch, Epochs
<1>1. TypeOK
  BY MoneyFacts, ExecutionAssumption DEF TypeOK, Phases, Profiles
<1>2. EpochsOfPhase
  BY DEF EpochsOfPhase
<1>3. BillCovered
  BY MoneyFacts DEF BillCovered
<1>4. SuspensionEnds
  BY DEF SuspensionEnds, ReservationReleased
<1> QED
  BY <1>1, <1>2, <1>3, <1>4 DEF IInv

\* Every step keeps the types.
LEMMA TypeStep == TypeOK /\ [Next]_vars => TypeOK'
<1> SUFFICES ASSUME TypeOK, [Next]_vars PROVE TypeOK'
  OBVIOUS
<1> USE ExecutionAssumption, MoneyFacts DEF TypeOK, NoEpoch, Epochs
<1>1. ASSUME NEW p \in Profiles, NEW f \in BOOLEAN, Prepare(p, f) PROVE TypeOK'
  BY <1>1 DEF Prepare, Phases
<1>2. ASSUME NEW n \in Amounts, AuthorizeWorkspace(n) PROVE TypeOK'
  BY <1>2 DEF AuthorizeWorkspace
<1>3. CASE Acknowledge
  BY <1>3 DEF Acknowledge, Phases
<1>4. CASE Cancel
  BY <1>4 DEF Cancel, Phases
<1>5. CASE Suspend
  BY <1>5 DEF Suspend, AfterSuspend, Phases, Terminal
<1>6. ASSUME NEW e \in Epochs, Granted(e) PROVE TypeOK'
  BY <1>6 DEF Granted, Phases
<1>7. ASSUME NEW e \in Epochs, WorkerLost(e) PROVE TypeOK'
  BY <1>7 DEF WorkerLost, Phases
<1>8. ASSUME NEW n \in Amounts \union {0}, Settle(n) PROVE TypeOK'
  BY <1>8 DEF Settle
<1>9. ASSUME NEW r \in Reports, Report(r) PROVE TypeOK'
  BY <1>9 DEF Report
<1>10. ASSUME NEW r \in Reports, RecordObservation(r) PROVE TypeOK'
  BY <1>10 DEF RecordObservation, Reports
<1>11. ASSUME NEW r \in Reports, Complete(r) PROVE TypeOK'
  <2>1. r.nanos \in Amounts \union {0} /\ r.epoch \in Epochs
    BY DEF Reports
  <2> QED
    BY <1>11, <2>1 DEF Complete, Phases
<1>12. ASSUME NEW r \in Reports, Fail(r) PROVE TypeOK'
  BY <1>12 DEF Fail, Phases, Reports
<1>13. CASE UNCHANGED vars
  BY <1>13 DEF vars
<1> QED
  BY <1>1, <1>2, <1>3, <1>4, <1>5, <1>6, <1>7, <1>8, <1>9, <1>10, <1>11, <1>12, <1>13
     DEF Next, Start, Retry

\* Every step keeps what the phases say of the epochs.
LEMMA EpochStep == TypeOK /\ EpochsOfPhase /\ [Next]_vars => EpochsOfPhase'
<1> SUFFICES ASSUME TypeOK, EpochsOfPhase, [Next]_vars PROVE EpochsOfPhase'
  OBVIOUS
<1> USE ExecutionAssumption DEF TypeOK, EpochsOfPhase, NoEpoch, Epochs
<1>1. ASSUME NEW p \in Profiles, NEW f \in BOOLEAN, Prepare(p, f) PROVE EpochsOfPhase'
  BY <1>1 DEF Prepare
<1>2. ASSUME NEW n \in Amounts, AuthorizeWorkspace(n) PROVE EpochsOfPhase'
  BY <1>2 DEF AuthorizeWorkspace
<1>3. CASE Acknowledge
  BY <1>3 DEF Acknowledge, Acknowledgeable
<1>4. CASE Cancel
  BY <1>4 DEF Cancel
<1>5. CASE Suspend
  BY <1>5 DEF Suspend, AfterSuspend, Terminal
<1>6. ASSUME NEW e \in Epochs, Start(e) PROVE EpochsOfPhase'
  <2>1. workers = {} /\ lost = {}
    BY <1>6 DEF Start
  <2> QED
    BY <1>6, <2>1 DEF Start, Granted
<1>7. ASSUME NEW e \in Epochs, Retry(e) PROVE EpochsOfPhase'
  <2>1. lost = 1..(e - 1) /\ workers = 1..(e - 1)
    BY <1>7 DEF Retry, RetryEpoch
  <2>2. workers' = 1..e /\ exec'.last = e /\ exec'.active = e
        /\ exec'.phase = "running" /\ lost' = lost
    BY <1>7, <2>1 DEF Retry, Granted
  <2> QED
    BY <2>1, <2>2
<1>8. ASSUME NEW e \in Epochs, WorkerLost(e) PROVE EpochsOfPhase'
  <2>1. lost = 1..(e - 1) /\ exec.last = e
    BY <1>8 DEF WorkerLost, Current
  <2>2. lost' = 1..e
    BY <1>8, <2>1 DEF WorkerLost
  <2> QED
    BY <1>8, <2>1, <2>2 DEF WorkerLost
<1>9. ASSUME NEW n \in Amounts \union {0}, Settle(n) PROVE EpochsOfPhase'
  BY <1>9 DEF Settle
<1>10. ASSUME NEW r \in Reports, Report(r) \/ RecordObservation(r) PROVE EpochsOfPhase'
  BY <1>10 DEF Report, RecordObservation
<1>11. ASSUME NEW r \in Reports, Complete(r) PROVE EpochsOfPhase'
  BY <1>11 DEF Complete, Current
<1>12. ASSUME NEW r \in Reports, Fail(r) PROVE EpochsOfPhase'
  BY <1>12 DEF Fail, Current
<1>13. CASE UNCHANGED vars
  BY <1>13 DEF vars
<1> QED
  BY <1>1, <1>2, <1>3, <1>4, <1>5, <1>6, <1>7, <1>8, <1>9, <1>10, <1>11, <1>12, <1>13
     DEF Next

\* Every step keeps what was billed covered.
LEMMA BillStep == TypeOK /\ BillCovered /\ [Next]_vars => BillCovered'
<1> SUFFICES ASSUME TypeOK, BillCovered, [Next]_vars PROVE BillCovered'
  OBVIOUS
<1> USE ExecutionAssumption, MoneyFacts DEF TypeOK, BillCovered
<1>1. ASSUME NEW p \in Profiles, NEW f \in BOOLEAN, Prepare(p, f) PROVE BillCovered'
  BY <1>1 DEF Prepare
<1>2. ASSUME NEW n \in Amounts, AuthorizeWorkspace(n) PROVE BillCovered'
  BY <1>2 DEF AuthorizeWorkspace
<1>3. CASE Acknowledge
  BY <1>3 DEF Acknowledge, Acknowledgeable
<1>4. CASE Cancel
  BY <1>4 DEF Cancel
<1>5. CASE Suspend
  BY <1>5 DEF Suspend, AfterSuspend, Terminal
<1>6. ASSUME NEW e \in Epochs, Start(e) \/ Retry(e) PROVE BillCovered'
  BY <1>6 DEF Start, Retry, Granted
<1>7. ASSUME NEW e \in Epochs, WorkerLost(e) PROVE BillCovered'
  BY <1>7 DEF WorkerLost, Current
<1>8. ASSUME NEW n \in Amounts \union {0}, Settle(n) PROVE BillCovered'
  BY <1>8 DEF Settle
<1>9. ASSUME NEW r \in Reports, Report(r) \/ RecordObservation(r) PROVE BillCovered'
  BY <1>9 DEF Report, RecordObservation
<1>10. ASSUME NEW r \in Reports, Complete(r) PROVE BillCovered'
  <2>1. r.nanos \in Amounts \union {0}
    BY DEF Reports
  <2>2. Set(r.nanos).set /\ Set(r.nanos).nanos = r.nanos
    BY <2>1
  <2>3. ~exec.usage.set /\ ~exec.settlement.set /\ exec.phase = "running"
    BY <1>10 DEF Complete, Current
  <2>4. /\ exec'.phase = "completed" /\ exec'.usage = Set(r.nanos)
        /\ exec'.profile = exec.profile /\ exec'.reserved = exec.reserved
        /\ exec'.settlement = exec.settlement
    BY <1>10 DEF Complete
  <2>5. r.nanos > 0 => /\ exec.profile = "isolated_workspace" /\ exec.reserved.set
                       /\ r.nanos <= exec.reserved.nanos
    BY <1>10, <2>1 DEF Complete, Billable, Profiles
  <2> QED
    BY <2>2, <2>3, <2>4, <2>5
<1>11. ASSUME NEW r \in Reports, Fail(r) PROVE BillCovered'
  BY <1>11 DEF Fail, Current
<1>12. CASE UNCHANGED vars
  BY <1>12 DEF vars
<1> QED
  BY <1>1, <1>2, <1>3, <1>4, <1>5, <1>6, <1>7, <1>8, <1>9, <1>10, <1>11, <1>12 DEF Next

\* Every step keeps an open reservation one that can still be charged.
LEMMA ReservationStep == IInv /\ [Next]_vars => SuspensionEnds'
<1> SUFFICES ASSUME IInv, [Next]_vars PROVE SuspensionEnds'
  OBVIOUS
<1> USE MoneyFacts DEF IInv, TypeOK, SuspensionEnds, ReservationReleased, Terminal
<1>1. ASSUME NEW p \in Profiles, NEW f \in BOOLEAN, Prepare(p, f) PROVE SuspensionEnds'
  BY <1>1 DEF Prepare
<1>2. ASSUME NEW n \in Amounts, AuthorizeWorkspace(n) PROVE SuspensionEnds'
  BY <1>2 DEF AuthorizeWorkspace, BillCovered
<1>3. CASE Acknowledge
  BY <1>3 DEF Acknowledge, Acknowledgeable
<1>4. CASE Cancel
  BY <1>4 DEF Cancel
<1>5. CASE Suspend
  BY <1>5 DEF Suspend, AfterSuspend
<1>6. ASSUME NEW e \in Epochs, Start(e) \/ Retry(e) PROVE SuspensionEnds'
  <2>1. CASE Start(e)
    BY <2>1 DEF Start, Granted
  <2>2. CASE Retry(e)
    BY <2>2 DEF Retry, Granted
  <2> QED
    BY <1>6, <2>1, <2>2
<1>7. ASSUME NEW e \in Epochs, WorkerLost(e) PROVE SuspensionEnds'
  BY <1>7 DEF WorkerLost, Current
<1>8. ASSUME NEW n \in Amounts \union {0}, Settle(n) PROVE SuspensionEnds'
  BY <1>8 DEF Settle
<1>9. ASSUME NEW r \in Reports, Report(r) \/ RecordObservation(r) PROVE SuspensionEnds'
  BY <1>9 DEF Report, RecordObservation
<1>10. ASSUME NEW r \in Reports, Complete(r) PROVE SuspensionEnds'
  BY <1>10 DEF Complete, Current
<1>11. ASSUME NEW r \in Reports, Fail(r) PROVE SuspensionEnds'
  BY <1>11 DEF Fail, Current
<1>12. CASE UNCHANGED vars
  BY <1>12 DEF vars
<1> QED
  BY <1>1, <1>2, <1>3, <1>4, <1>5, <1>6, <1>7, <1>8, <1>9, <1>10, <1>11, <1>12 DEF Next

LEMMA Invariant == Spec => []IInv
<1>1. IInv /\ [Next]_vars => IInv'
  BY TypeStep, EpochStep, BillStep, ReservationStep DEF IInv
<1> QED
  BY InitInv, <1>1, PTL DEF Spec

\* The reducer's state keeps its types, whatever the order of commands and reports.
THEOREM Typed == Spec => []TypeOK
<1>1. IInv => TypeOK
  BY DEF IInv
<1> QED
  BY Invariant, <1>1, PTL

\* decide: there is never a second worker with authority, and it is the newest one.
THEOREM Authority == Spec => []OneAuthority
<1>1. IInv => OneAuthority
  <2> SUFFICES ASSUME IInv PROVE OneAuthority
    OBVIOUS
  <2> USE ExecutionAssumption DEF IInv, TypeOK, EpochsOfPhase, NoEpoch, Epochs
  <2>1. exec.last \in Nat
    OBVIOUS
  <2>2. exec.phase \in {"running", "completed", "failed"} => workers \ lost = {exec.last}
    BY <2>1
  <2> QED
    BY <2>1, <2>2 DEF OneAuthority
<1> QED
  BY Invariant, <1>1, PTL

\* decide: no report of a worker that was given up or overtaken is admitted.
THEOREM Fencing == Spec => Fenced
<1>1. IInv /\ [Next]_vars =>
        [/\ \A e \in lost : e \in heard' => e \in heard
         /\ exec'.usage # exec.usage => exec.active \notin lost /\ exec.active = exec.last
         /\ exec'.phase = "failed" /\ exec.phase # "failed" => exec.active \notin lost]_vars
  <2> SUFFICES ASSUME IInv, [Next]_vars
               PROVE  \/ /\ \A e \in lost : e \in heard' => e \in heard
                         /\ exec'.usage # exec.usage =>
                              exec.active \notin lost /\ exec.active = exec.last
                         /\ exec'.phase = "failed" /\ exec.phase # "failed" =>
                              exec.active \notin lost
                      \/ UNCHANGED vars
    OBVIOUS
  <2> USE ExecutionAssumption DEF IInv, TypeOK, EpochsOfPhase, NoEpoch, Epochs
  <2>1. ASSUME NEW e, Current(e) PROVE e \notin lost /\ exec.active = e /\ e = exec.last
    BY <2>1 DEF Current
  <2>2. ASSUME NEW p \in Profiles, NEW f \in BOOLEAN, Prepare(p, f)
        PROVE  heard' = heard /\ exec'.usage = exec.usage /\ exec'.phase # "failed"
    BY <2>2 DEF Prepare
  <2>3. ASSUME NEW n \in Amounts, AuthorizeWorkspace(n)
        PROVE  heard' = heard /\ exec'.usage = exec.usage /\ exec'.phase # "failed"
    BY <2>3 DEF AuthorizeWorkspace
  <2>4. CASE Acknowledge \/ Cancel
    BY <2>4 DEF Acknowledge, Cancel
  <2>5. CASE Suspend
    BY <2>5 DEF Suspend, AfterSuspend
  <2>6. ASSUME NEW e \in Epochs, Start(e) \/ Retry(e) \/ WorkerLost(e)
        PROVE  heard' = heard /\ exec'.usage = exec.usage /\ exec'.phase # "failed"
    BY <2>6 DEF Start, Retry, Granted, WorkerLost
  <2>7. ASSUME NEW n \in Amounts \union {0}, Settle(n)
        PROVE  heard' = heard /\ exec'.usage = exec.usage /\ exec'.phase # "failed"
    BY <2>7 DEF Settle
  <2>8. ASSUME NEW r \in Reports, Report(r)
        PROVE  heard' = heard /\ exec' = exec
    BY <2>8 DEF Report
  <2>9. ASSUME NEW r \in Reports, RecordObservation(r)
        PROVE  (\A e \in lost : e \in heard' => e \in heard) /\ exec' = exec
    BY <2>9, <2>1 DEF RecordObservation
  <2>10. ASSUME NEW r \in Reports, Complete(r)
         PROVE  /\ \A e \in lost : e \in heard' => e \in heard
                /\ exec.active \notin lost /\ exec.active = exec.last
    BY <2>10, <2>1 DEF Complete
  <2>11. ASSUME NEW r \in Reports, Fail(r)
         PROVE  /\ \A e \in lost : e \in heard' => e \in heard
                /\ exec.active \notin lost /\ exec.active = exec.last
    BY <2>11, <2>1 DEF Fail
  <2> QED
    BY <2>2, <2>3, <2>4, <2>5, <2>6, <2>7, <2>8, <2>9, <2>10, <2>11 DEF Next
<1> QED
  BY Invariant, <1>1, PTL DEF Spec, Fenced

\* decide, Settle: a settlement charges the admitted bill, within the reservation.
THEOREM Charged == Spec => []ChargeCovered
<1>1. IInv => ChargeCovered
  BY DEF IInv, BillCovered, ChargeCovered
<1> QED
  BY Invariant, <1>1, PTL

\* evolve: no reservation outlives the command it was made for.
THEOREM Released == Spec => []ReservationReleased
<1>1. IInv => ReservationReleased
  BY DEF IInv, SuspensionEnds
<1> QED
  BY Invariant, <1>1, PTL

-----------------------------------------------------------------------------
(* The membership fence *)

Keys ==
  {NoOperation} \union ({"review"} \X Nat) \union ({"scim"} \X Members \X Statuses \X Afters)

Observations == SUBSET (Members \X Nat)

Asked ==
  [at : {"idle", "preparing", "prepared", "finishing"}, key : Keys, targets : SUBSET Members,
   after : Afters, head : Nat, left : SUBSET Members, seen : Observations]

Receipted == [key : Keys, member : Members, after : Afters, seen : Observations]

Remotes == [standing : {"open", "pending", "closed"}, op : Keys, rev : Nat]

\* Every variable has its type, a request's remaining members are its own.
StandingTypes ==
  /\ status \in [Members -> Statuses] /\ head \in Nat /\ planned \in 0..MaxCommands
  /\ loose \subseteq Members /\ receipts \subseteq Receipted
  /\ remote \in [Members -> Remotes] /\ req \in [Requests -> Asked]
  /\ \A q \in Requests : req[q].left \subseteq req[q].targets

\* What a request carries: a head that was, observations that were, and none of
\* them for a denial.
Carried ==
  \A q \in Requests :
    /\ req[q].head <= head
    /\ req[q].at = "prepared" => req[q].left = {}
    /\ req[q].after = "out" => req[q].seen = {}
    /\ \A s \in req[q].seen : s[2] <= remote[s[1]].rev

\* A receipt's observations were made of its member.
Witnessed ==
  \A r \in receipts : \A s \in r.seen : s[1] = r.member /\ s[2] <= remote[s[1]].rev

\* No committed activation can open the member any more, and only a loose
\* admission has.
Shut(m) ==
  /\ remote[m].standing = "open" => m \in loose
  /\ \A r \in receipts : \A s \in r.seen : s[1] = m => s[2] < remote[m].rev

\* The members that are out are shut, and so are those a denial has begun with
\* as long as its commit would still be taken.
OutShut == \A m \in Members : status[m] = "out" => Shut(m)

Denying ==
  \A q \in Requests :
    req[q].at \in {"preparing", "prepared"} /\ req[q].after = "out" /\ req[q].head = head =>
      \A m \in req[q].targets \ req[q].left : Shut(m)

StandingInv == StandingTypes /\ Carried /\ Witnessed /\ OutShut /\ Denying

LEMMA StandingStart == StandingInit => StandingInv
<1> SUFFICES ASSUME StandingInit PROVE StandingInv
  OBVIOUS
<1>1. NoOperation \in Keys /\ MaxCommands \in Nat
  BY FenceAssumption DEF Keys, FenceAssumption
<1>2. StandingIdle \in Asked
  BY <1>1 DEF StandingIdle, Asked, Afters, Observations
<1>3. remote \in [Members -> Remotes]
  BY <1>1 DEF StandingInit, Remotes
<1>4. StandingTypes
  BY <1>1, <1>2, <1>3 DEF StandingInit, StandingTypes, Statuses, StandingIdle
<1>5. Carried /\ Witnessed /\ OutShut /\ Denying
  BY DEF StandingInit, Carried, Witnessed, OutShut, Denying, StandingIdle, Shut
<1> QED
  BY <1>4, <1>5 DEF StandingInv

\* What a call of the remote authority does to the members: revisions only grow
\* and a member that is shut stays so.
RemoteKept ==
  /\ remote' \in [Members -> Remotes] /\ loose' \subseteq Members
  /\ \A n \in Members : remote[n].rev <= remote'[n].rev
  /\ \A n \in Members : Shut(n) => Shut(n)'

LEMMA DenialKeeps ==
  ASSUME StandingTypes, Witnessed, NEW m \in Members, NEW op \in Keys, BeginDenial(m, op),
         receipts' = receipts
  PROVE  RemoteKept /\ Shut(m)'
<1>1. remote' \in [Members -> Remotes] /\ loose' \subseteq Members
  BY DEF StandingTypes, BeginDenial, Remotes
<1>2. /\ remote'[m].rev = remote[m].rev + 1 /\ remote'[m].standing = "pending"
      /\ \A n \in Members \ {m} : remote'[n] = remote[n] /\ (n \in loose => n \in loose')
      /\ remote[m].rev \in Nat /\ \A n \in Members : remote[n].rev \in Nat
  BY DEF StandingTypes, BeginDenial, Remotes
<1>3. \A r \in receipts : \A s \in r.seen : s[1] = m => s[2] <= remote[m].rev /\ s[2] \in Nat
  BY DEF Witnessed, StandingTypes, Receipted, Observations
<1>4. Shut(m)'
  BY <1>2, <1>3 DEF Shut
<1>5. \A n \in Members \ {m} : Shut(n) => Shut(n)'
  BY <1>2 DEF Shut
<1> QED
  BY <1>1, <1>2, <1>4, <1>5 DEF RemoteKept

LEMMA AdmissionKeeps ==
  ASSUME StandingTypes, NEW m \in Members, NEW v \in Nat, Unchanged(m, v),
         AdmitIfUnchanged(m, v), receipts' = receipts
  PROVE  RemoteKept
<1>1. NoOperation \in Keys
  BY DEF Keys
<1>2. remote' \in [Members -> Remotes] /\ loose' \subseteq Members
  BY <1>1 DEF StandingTypes, AdmitIfUnchanged, Remotes
<1>3. /\ remote[m].rev = v /\ remote'[m].rev = v + 1
      /\ \A n \in Members \ {m} : remote'[n] = remote[n] /\ (n \in loose => n \in loose')
      /\ \A n \in Members : remote[n].rev \in Nat
  BY DEF StandingTypes, AdmitIfUnchanged, Unchanged, Remotes
<1>4. ASSUME Shut(m) PROVE Shut(m)'
  <2>1. ~ \E r \in receipts : <<m, v>> \in r.seen
    BY <1>3, <1>4 DEF Shut
  <2>2. m \in loose'
    BY <2>1 DEF AdmitIfUnchanged
  <2>3. \A r \in receipts : \A s \in r.seen : s[2] \in Nat
    BY DEF StandingTypes, Receipted, Observations
  <2> QED
    BY <1>3, <1>4, <2>2, <2>3 DEF Shut
<1>5. \A n \in Members \ {m} : Shut(n) => Shut(n)'
  BY <1>3 DEF Shut
<1> QED
  BY <1>2, <1>3, <1>4, <1>5 DEF RemoteKept

LEMMA CompletionKeeps ==
  ASSUME StandingTypes, NEW m \in Members, NEW op, CompleteDenial(m, op), receipts' = receipts
  PROVE  RemoteKept
<1>1. remote' \in [Members -> Remotes] /\ loose' = loose
  BY DEF StandingTypes, CompleteDenial, Remotes
<1>2. /\ \A n \in Members : remote'[n].rev = remote[n].rev /\ remote[n].rev \in Nat
      /\ \A n \in Members : remote'[n].standing = "open" => remote[n].standing = "open"
  BY DEF StandingTypes, CompleteDenial, Remotes
<1>3. \A n \in Members : Shut(n) => Shut(n)'
  BY <1>1, <1>2 DEF Shut
<1> QED
  BY <1>1, <1>2, <1>3 DEF RemoteKept, StandingTypes

LEMMA NothingRemote ==
  ASSUME StandingTypes, UNCHANGED <<remote, loose, receipts>>
  PROVE  RemoteKept
BY DEF StandingTypes, RemoteKept, Shut, Remotes

\* A request by itself keeps the invariant.
Sound(q) ==
  /\ req[q].left \subseteq req[q].targets /\ req[q].head <= head
  /\ req[q].at = "prepared" => req[q].left = {}
  /\ req[q].after = "out" => req[q].seen = {}
  /\ \A s \in req[q].seen : s[2] <= remote[s[1]].rev
  /\ req[q].at \in {"preparing", "prepared"} /\ req[q].after = "out" /\ req[q].head = head =>
       \A m \in req[q].targets \ req[q].left : Shut(m)

LEMMA SoundEach ==
  ASSUME StandingInv, NEW q \in Requests
  PROVE  Sound(q)
BY DEF StandingInv, StandingTypes, Carried, Denying, Sound

\* A step that commits nothing: a request that did not move is still sound.
LEMMA SoundKept ==
  ASSUME StandingInv, RemoteKept, head' \in Nat, head <= head', NEW q \in Requests,
         req'[q] = req[q]
  PROVE  Sound(q)'
<1>1. Sound(q)
  BY SoundEach
<1>2. req[q].head \in Nat /\ req[q].targets \subseteq Members /\ req[q].seen \subseteq Members \X Nat
  BY DEF StandingInv, StandingTypes, Asked, Observations
<1>3. \A s \in req[q].seen : s[1] \in Members /\ s[2] \in Nat
  BY <1>2
<1>4. \A m \in Members : remote[m].rev \in Nat /\ remote'[m].rev \in Nat
  BY DEF StandingInv, StandingTypes, RemoteKept, Remotes
<1>5. head \in Nat
  BY DEF StandingInv, StandingTypes
<1>6. \A s \in req[q].seen : s[2] <= remote'[s[1]].rev
  BY <1>1, <1>3, <1>4 DEF Sound, RemoteKept
<1>7. req[q].head <= head' /\ (req[q].head = head' => req[q].head = head)
  BY <1>1, <1>2, <1>5 DEF Sound
<1> QED
  BY <1>1, <1>2, <1>6, <1>7 DEF Sound, RemoteKept

LEMMA Uncommitted ==
  ASSUME StandingInv, RemoteKept, UNCHANGED <<status, receipts>>, head' \in Nat, head <= head',
         planned' \in 0..MaxCommands, req' \in [Requests -> Asked],
         \A q \in Requests : Sound(q)'
  PROVE  StandingInv'
<1>1. StandingTypes'
  BY DEF StandingInv, StandingTypes, RemoteKept, Sound
<1>2. Carried' /\ Denying'
  BY DEF Carried, Denying, Sound
<1>3. OutShut'
  BY DEF StandingInv, OutShut, RemoteKept
<1>4. Witnessed'
  <2>1. \A r \in receipts : r.seen \subseteq Members \X Nat
    BY DEF StandingInv, StandingTypes, Receipted, Observations
  <2>2. \A r \in receipts : \A s \in r.seen : s[1] \in Members /\ s[2] \in Nat
    BY <2>1
  <2>3. \A m \in Members : remote[m].rev \in Nat /\ remote'[m].rev \in Nat
    BY DEF StandingInv, StandingTypes, RemoteKept, Remotes
  <2> QED
    BY <2>2, <2>3 DEF StandingInv, Witnessed, RemoteKept
<1> QED
  BY <1>1, <1>2, <1>3, <1>4 DEF StandingInv

\* One request moves and the others stay.
LEMMA OneMoves ==
  ASSUME StandingInv, RemoteKept, UNCHANGED <<status, receipts>>, head' \in Nat, head <= head',
         planned' \in 0..MaxCommands, NEW q \in Requests, req' \in [Requests -> Asked],
         \A p \in Requests \ {q} : req'[p] = req[p],
         Sound(q)'
  PROVE  StandingInv'
<1>1. \A p \in Requests : Sound(p)'
  BY SoundKept
<1> QED
  BY <1>1, Uncommitted

\* A request that ends is sound.
LEMMA EndedSound ==
  ASSUME NEW q \in Requests, head' \in Nat, req'[q] = StandingIdle
  PROVE  Sound(q)'
BY DEF Sound, StandingIdle

LEMMA IdleAsked == StandingIdle \in Asked
<1>1. NoOperation \in Keys
  BY DEF Keys
<1> QED
  BY <1>1 DEF StandingIdle, Asked, Afters, Observations

LEMMA PlanKeeps ==
  ASSUME StandingInv, NEW q \in Requests, NEW key \in Keys, NEW targets \in SUBSET Members,
         NEW after \in Afters, Planned(q, key, targets, after)
  PROVE  StandingInv'
<1> DEFINE new == [at |-> "preparing", key |-> key, targets |-> targets,
                   after |-> after, head |-> head, left |-> targets, seen |-> {}]
<1>1. head \in Nat /\ head' = head /\ planned \in 0..MaxCommands /\ planned < MaxCommands
      /\ planned' = planned + 1 /\ MaxCommands \in Nat
  BY FenceAssumption DEF StandingInv, StandingTypes, Planned, FenceAssumption
<1>2. planned' \in 0..MaxCommands
  BY <1>1
<1>3. new \in Asked
  BY <1>1 DEF Asked, Observations
<1>4. req \in [Requests -> Asked] /\ req' = [req EXCEPT ![q] = new]
  BY DEF StandingInv, StandingTypes, Planned
<1>5. req' \in [Requests -> Asked] /\ req'[q] = new /\ \A p \in Requests \ {q} : req'[p] = req[p]
  BY <1>3, <1>4
<1>6. Sound(q)'
  BY <1>1, <1>5 DEF Sound
<1>7. RemoteKept
  BY NothingRemote DEF StandingInv, Planned
<1>8. UNCHANGED <<status, receipts>> /\ head <= head'
  BY <1>1 DEF Planned
<1> QED
  BY <1>1, <1>2, <1>5, <1>6, <1>7, <1>8, OneMoves

\* What the fields of a request under way are.
LEMMA AskedFields ==
  ASSUME StandingInv, NEW q \in Requests
  PROVE  /\ req[q] \in Asked /\ req[q].key \in Keys /\ req[q].targets \subseteq Members
         /\ req[q].left \subseteq req[q].targets /\ req[q].after \in Afters
         /\ req[q].head \in Nat /\ req[q].seen \subseteq Members \X Nat
         /\ head \in Nat /\ planned \in 0..MaxCommands
         /\ \A m \in Members : remote[m].rev \in Nat
BY DEF StandingInv, StandingTypes, Asked, Observations, Remotes

LEMMA BeginDenyKeeps ==
  ASSUME StandingInv, NEW q \in Requests, NEW m \in Members, BeginDeny(q, m)
  PROVE  StandingInv'
<1> DEFINE new == Ready(req[q], req[q].left \ {m})
<1>1. RemoteKept /\ Shut(m)'
  BY AskedFields, DenialKeeps DEF StandingInv, BeginDeny
<1>2. new \in Asked /\ new.targets = req[q].targets /\ new.left = req[q].left \ {m}
      /\ new.after = req[q].after /\ new.head = req[q].head /\ new.seen = req[q].seen
      /\ (new.at = "prepared" => new.left = {})
  BY AskedFields DEF Ready, Asked
<1>3. req \in [Requests -> Asked] /\ req' = [req EXCEPT ![q] = new]
  BY DEF StandingInv, StandingTypes, BeginDeny
<1>4. req' \in [Requests -> Asked] /\ req'[q] = new /\ \A p \in Requests \ {q} : req'[p] = req[p]
  BY <1>2, <1>3
<1>5. Sound(q) /\ req[q].at = "preparing" /\ req[q].after = "out"
  BY SoundEach DEF BeginDeny
<1>6. UNCHANGED <<status, receipts, head, planned>>
  BY DEF BeginDeny
<1>7. req[q].head = head => \A n \in req[q].targets \ (req[q].left \ {m}) : Shut(n)'
  BY <1>1, <1>5, AskedFields DEF Sound, RemoteKept
<1> HIDE DEF new
<1>8. Sound(q)'
  BY <1>2, <1>4, <1>5, <1>6, <1>7 DEF Sound
<1> QED
  BY <1>1, <1>4, <1>6, <1>8, AskedFields, OneMoves

LEMMA ObserveKeeps ==
  ASSUME StandingInv, NEW q \in Requests, NEW m \in Members, Observe(q, m)
  PROVE  StandingInv'
<1> DEFINE left == req[q].left \ {m}
           next == IF left = {} THEN "prepared" ELSE "preparing"
           seen == req[q].seen \union {<<m, remote[m].rev>>}
           new == [req[q] EXCEPT !.left = left, !.at = next, !.seen = seen]
<1>1. RemoteKept
  BY NothingRemote DEF StandingInv, Observe
<1>2. new \in Asked /\ new.targets = req[q].targets /\ new.left = req[q].left \ {m}
      /\ new.after = req[q].after /\ new.head = req[q].head
      /\ new.seen = req[q].seen \union {<<m, remote[m].rev>>}
      /\ (new.at = "prepared" => new.left = {})
  <2>1. seen \in Observations /\ left \in SUBSET Members /\ next \in {"prepared", "preparing"}
    BY AskedFields DEF Observations
  <2>2. next = "prepared" => left = {}
    OBVIOUS
  <2> HIDE DEF seen, left, next
  <2>3. new \in Asked /\ new.targets = req[q].targets /\ new.left = left /\ new.at = next
        /\ new.after = req[q].after /\ new.head = req[q].head /\ new.seen = seen
    BY <2>1, AskedFields DEF Asked
  <2> QED
    BY <2>2, <2>3 DEF seen, left
<1>3. req \in [Requests -> Asked] /\ req' = [req EXCEPT ![q] = new]
  <2>1. req \in [Requests -> Asked]
    BY DEF StandingInv, StandingTypes
  <2>2. req' = [req EXCEPT ![q] = [[req[q] EXCEPT !.left = left, !.at = next] EXCEPT !.seen = seen]]
    <3> DEFINE base == [req[q] EXCEPT !.left = left, !.at = next]
    <3>1. Ready(req[q], left) = base /\ base.seen = req[q].seen
      BY AskedFields DEF Ready, Asked
    <3>2. req' = [req EXCEPT ![q] = [Ready(req[q], left) EXCEPT !.seen = @ \union {<<m, remote[m].rev>>}]]
      BY <2>1 DEF Observe
    <3> HIDE DEF base, left, next
    <3> QED
      BY <3>1, <3>2 DEF base
  <2>3. [[req[q] EXCEPT !.left = left, !.at = next] EXCEPT !.seen = seen] = new
    BY AskedFields DEF Asked
  <2> QED
    BY <2>1, <2>2, <2>3
<1>4. req' \in [Requests -> Asked] /\ req'[q] = new /\ \A p \in Requests \ {q} : req'[p] = req[p]
  BY <1>2, <1>3
<1>5. Sound(q) /\ req[q].after = "active" /\ req[q].left \subseteq req[q].targets
  BY SoundEach DEF Observe, Sound
<1>6. UNCHANGED <<status, receipts, head, planned, remote>>
  BY DEF Observe
<1> HIDE DEF new
<1>7. \A s \in new.seen : s[2] <= remote[s[1]].rev
  BY <1>2, <1>5, AskedFields DEF Sound
<1>8. Sound(q)'
  BY <1>2, <1>4, <1>5, <1>6, <1>7 DEF Sound
<1> QED
  BY <1>1, <1>4, <1>6, <1>8, AskedFields, OneMoves

\* A request that has committed, or replays, and one that ends.
LEMMA ReplayKeeps ==
  ASSUME StandingInv, NEW q \in Requests, ReplayScim(q)
  PROVE  StandingInv'
<1> DEFINE new == [req[q] EXCEPT !.at = "finishing", !.left = req[q].targets]
<1>1. RemoteKept
  BY NothingRemote DEF StandingInv, ReplayScim
<1>2. new \in Asked /\ new.targets = req[q].targets /\ new.left = req[q].targets
      /\ new.after = req[q].after /\ new.head = req[q].head /\ new.seen = req[q].seen
      /\ new.at = "finishing"
  BY AskedFields DEF Asked
<1>3. req \in [Requests -> Asked] /\ req' = [req EXCEPT ![q] = new]
  BY DEF StandingInv, StandingTypes, ReplayScim
<1>4. req' \in [Requests -> Asked] /\ req'[q] = new /\ \A p \in Requests \ {q} : req'[p] = req[p]
  BY <1>2, <1>3
<1>5. Sound(q) /\ UNCHANGED <<status, receipts, head, planned, remote>>
  BY SoundEach DEF ReplayScim
<1> HIDE DEF new
<1>6. Sound(q)'
  BY <1>2, <1>4, <1>5 DEF Sound
<1> QED
  BY <1>1, <1>4, <1>5, <1>6, AskedFields, OneMoves

LEMMA StopKeeps ==
  ASSUME StandingInv, NEW q \in Requests, Refused(q) \/ Stop(q)
  PROVE  StandingInv'
<1>1. RemoteKept /\ UNCHANGED <<status, receipts, head, planned>>
  BY NothingRemote DEF StandingInv, Refused, Stop
<1>2. req \in [Requests -> Asked] /\ req' = [req EXCEPT ![q] = StandingIdle]
  BY DEF StandingInv, StandingTypes, Refused, Stop
<1>3. req' \in [Requests -> Asked] /\ req'[q] = StandingIdle
      /\ \A p \in Requests \ {q} : req'[p] = req[p]
  BY <1>2, IdleAsked
<1>4. Sound(q)'
  BY <1>1, <1>3, EndedSound, AskedFields
<1> QED
  BY <1>1, <1>3, <1>4, AskedFields, OneMoves

\* The remote half of a committed request, one member at a time.
LEMMA FinishedKeeps ==
  ASSUME StandingInv, NEW q \in Requests, NEW m \in Members, req[q].at = "finishing",
         Finished(q, m), RemoteKept, UNCHANGED <<status, receipts, planned>>
  PROVE  StandingInv'
<1>1. req \in [Requests -> Asked]
  BY DEF StandingInv, StandingTypes
<1>2. CASE req[q].left = {m}
  <2>1. req' = [req EXCEPT ![q] = StandingIdle] /\ head' \in Nat /\ head <= head'
    BY <1>2, AskedFields DEF Finished
  <2>2. req' \in [Requests -> Asked] /\ req'[q] = StandingIdle
        /\ \A p \in Requests \ {q} : req'[p] = req[p]
    BY <1>1, <2>1, IdleAsked
  <2>3. Sound(q)'
    BY <2>1, <2>2, EndedSound
  <2> QED
    BY <2>1, <2>2, <2>3, AskedFields, OneMoves
<1>3. CASE req[q].left # {m}
  <2> DEFINE new == [req[q] EXCEPT !.left = req[q].left \ {m}]
  <2>1. new \in Asked /\ new.targets = req[q].targets /\ new.left = req[q].left \ {m}
        /\ new.after = req[q].after /\ new.head = req[q].head /\ new.seen = req[q].seen
        /\ new.at = "finishing"
    BY AskedFields DEF Asked
  <2>2. req' = [req EXCEPT ![q] = new] /\ head' = head
    BY <1>1, <1>3 DEF Finished
  <2>3. req' \in [Requests -> Asked] /\ req'[q] = new
        /\ \A p \in Requests \ {q} : req'[p] = req[p]
    BY <1>1, <2>1, <2>2
  <2>4. Sound(q)
    BY SoundEach
  <2> HIDE DEF new
  <2>5. \A s \in req[q].seen : s[1] \in Members /\ s[2] \in Nat
    BY AskedFields
  <2>6. \A n \in Members : remote'[n].rev \in Nat
    BY DEF RemoteKept, Remotes
  <2>7. \A s \in req[q].seen : s[2] <= remote'[s[1]].rev
    BY <2>4, <2>5, <2>6, AskedFields DEF Sound, RemoteKept
  <2>8. Sound(q)'
    BY <2>1, <2>2, <2>3, <2>4, <2>7 DEF Sound
  <2> QED
    BY <2>2, <2>3, <2>8, AskedFields, OneMoves
<1> QED
  BY <1>2, <1>3

LEMMA FinishKeeps ==
  ASSUME StandingInv, NEW q \in Requests, NEW m \in Members,
         FinishDeny(q, m) \/ FinishAdmit(q, m)
  PROVE  StandingInv'
<1>1. CASE FinishDeny(q, m)
  <2>1. RemoteKept
    BY <1>1, CompletionKeeps DEF StandingInv, FinishDeny
  <2> QED
    BY <1>1, <2>1, FinishedKeeps DEF FinishDeny
<1>2. CASE FinishAdmit(q, m)
  <2>1. PICK s \in req[q].seen : s[1] = m /\ Unchanged(m, s[2]) /\ AdmitIfUnchanged(m, s[2])
    BY <1>2 DEF FinishAdmit
  <2>2. s[2] \in Nat
    BY <2>1, AskedFields
  <2>3. RemoteKept
    BY <1>2, <2>1, <2>2, AdmissionKeeps DEF StandingInv, FinishAdmit
  <2> QED
    BY <1>2, <2>3, FinishedKeeps DEF FinishAdmit
<1> QED
  BY <1>1, <1>2

LEMMA RecoverKeeps ==
  ASSUME StandingInv, NEW r \in receipts, Recover(r)
  PROVE  StandingInv'
<1>1. r.member \in Members /\ r.seen \subseteq Members \X Nat
  BY DEF StandingInv, StandingTypes, Receipted, Observations
<1>2. UNCHANGED <<status, head, receipts, req, planned>>
  BY DEF Recover
<1>3. RemoteKept
  <2>1. CASE CompleteDenial(r.member, r.key)
    BY <1>1, <1>2, <2>1, CompletionKeeps DEF StandingInv
  <2>2. ASSUME NEW s \in r.seen, Unchanged(r.member, s[2]), AdmitIfUnchanged(r.member, s[2])
        PROVE  RemoteKept
    <3>1. s[2] \in Nat
      BY <1>1
    <3> QED
      BY <1>1, <1>2, <2>2, <3>1, AdmissionKeeps DEF StandingInv
  <2> QED
    BY <2>1, <2>2 DEF Recover
<1>4. \A q \in Requests : Sound(q)'
  BY <1>2, <1>3, SoundKept DEF StandingInv, StandingTypes
<1> QED
  BY <1>2, <1>3, <1>4, Uncommitted DEF StandingInv, StandingTypes

\* A commit: its head is spent, so no other denial can commit at it; a denial
\* leaves its members shut, an activation leaves them in.
LEMMA CommitKeeps ==
  ASSUME StandingInv, NEW q \in Requests, Commit(q)
  PROVE  StandingInv'
<1> DEFINE new == [req[q] EXCEPT !.at = "finishing", !.left = req[q].targets]
<1>1. /\ req[q].at = "prepared" /\ req[q].head = head /\ head' = head + 1
      /\ status' = [m \in Members |-> IF m \in req[q].targets THEN req[q].after ELSE status[m]]
      /\ receipts' = receipts \union ReceiptsOf(q)
      /\ UNCHANGED <<remote, planned, loose>>
  BY DEF Commit, AtHead
<1>2. new \in Asked /\ new.targets = req[q].targets /\ new.left = req[q].targets
      /\ new.after = req[q].after /\ new.head = req[q].head /\ new.seen = req[q].seen
      /\ new.at = "finishing"
  BY AskedFields DEF Asked
<1>3. req \in [Requests -> Asked] /\ req' = [req EXCEPT ![q] = new]
  BY DEF StandingInv, StandingTypes, Commit
<1>4. req' \in [Requests -> Asked] /\ req'[q] = new /\ \A p \in Requests \ {q} : req'[p] = req[p]
  BY <1>2, <1>3
<1> HIDE DEF new
<1>5. ReceiptsOf(q) \subseteq Receipted
  BY AskedFields DEF ReceiptsOf, Receipted, Observations
<1>6. \A r \in ReceiptsOf(q) :
        r.member \in req[q].targets /\ \A s \in r.seen : s \in req[q].seen /\ s[1] = r.member
  BY DEF ReceiptsOf
<1>7. StandingTypes'
  <2>1. status' \in [Members -> Statuses]
    BY <1>1, AskedFields DEF StandingInv, StandingTypes, Afters, Statuses
  <2>2. \A p \in Requests : req'[p].left \subseteq req'[p].targets
    BY <1>2, <1>4 DEF StandingInv, StandingTypes
  <2>3. head' \in Nat
    BY <1>1, AskedFields
  <2> QED
    BY <1>1, <1>4, <1>5, <2>1, <2>2, <2>3 DEF StandingInv, StandingTypes
<1>8. Carried'
  <2>1. ASSUME NEW p \in Requests
        PROVE  /\ req'[p].head <= head' /\ req'[p].head # head'
               /\ req'[p].at = "prepared" => req'[p].left = {}
               /\ req'[p].after = "out" => req'[p].seen = {}
               /\ \A s \in req'[p].seen : s[2] <= remote'[s[1]].rev
    <3>1. Sound(p) /\ req[p].head \in Nat /\ head \in Nat
      BY SoundEach, AskedFields
    <3>2. req'[p].head = req[p].head /\ req'[p].after = req[p].after /\ req'[p].seen = req[p].seen
          /\ (req'[p].at = "prepared" => req'[p].left = req[p].left /\ req[p].at = "prepared")
      BY <1>2, <1>4
    <3> QED
      BY <1>1, <3>1, <3>2 DEF Sound
  <2> QED
    BY <2>1 DEF Carried
<1>9. Denying'
  <2>1. ASSUME NEW p \in Requests PROVE req'[p].head # head'
    <3>1. Sound(p) /\ req[p].head \in Nat /\ head \in Nat
      BY SoundEach, AskedFields
    <3>2. req'[p].head = req[p].head
      BY <1>2, <1>4
    <3> QED
      BY <1>1, <3>1, <3>2 DEF Sound
  <2> QED
    BY <2>1 DEF Denying
<1>10. Witnessed'
  <2>1. Sound(q)
    BY SoundEach
  <2> QED
    BY <1>1, <1>6, <2>1 DEF StandingInv, Witnessed, Sound
<1>11. OutShut'
  <2> SUFFICES ASSUME NEW m \in Members, status'[m] = "out" PROVE Shut(m)'
    BY DEF OutShut
  <2>1. Shut(m)
    <3>1. CASE m \in req[q].targets
      <4>1. req[q].after = "out" /\ req[q].left = {}
        BY <1>1, <3>1, SoundEach DEF Sound
      <4> QED
        BY <1>1, <3>1, <4>1, SoundEach DEF Sound
    <3>2. CASE m \notin req[q].targets
      BY <1>1, <3>2 DEF StandingInv, OutShut
    <3> QED
      BY <3>1, <3>2
  <2>2. \A r \in ReceiptsOf(q) : \A s \in r.seen : s[1] # m
    <3>1. CASE m \in req[q].targets
      <4>1. req[q].seen = {}
        BY <1>1, <3>1, SoundEach DEF Sound
      <4> QED
        BY <1>6, <4>1
    <3>2. CASE m \notin req[q].targets
      BY <1>6, <3>2
    <3> QED
      BY <3>1, <3>2
  <2> QED
    BY <1>1, <2>1, <2>2 DEF Shut
<1> QED
  BY <1>7, <1>8, <1>9, <1>10, <1>11 DEF StandingInv

LEMMA StandingStep == StandingInv /\ [StandingNext]_standingVars => StandingInv'
<1> SUFFICES ASSUME StandingInv, [StandingNext]_standingVars PROVE StandingInv'
  OBVIOUS
<1>1. ASSUME NEW q \in Scim, NEW m \in Members, NEW a \in Afters, PlanScim(q, m, a)
      PROVE  StandingInv'
  <2>1. ScimKey(m, a) \in Keys
    BY DEF ScimKey, Keys, StandingInv, StandingTypes
  <2> QED
    BY <1>1, <2>1, PlanKeeps DEF PlanScim, Requests
<1>2. <<"review", planned>> \in Keys
  BY DEF Keys, StandingInv, StandingTypes
<1>3. ASSUME NEW q \in Console, NEW m \in Members, NEW a \in Afters, PlanConsole(q, m, a)
      PROVE  StandingInv'
  BY <1>2, <1>3, PlanKeeps DEF PlanConsole, Requests
<1>4. ASSUME NEW q \in Console, PlanClosure(q)
      PROVE  StandingInv'
  BY <1>2, <1>4, PlanKeeps DEF PlanClosure, Requests, Afters
<1>5. ASSUME NEW q \in Requests, NEW m \in Members,
             BeginDeny(q, m) \/ Observe(q, m) \/ FinishDeny(q, m) \/ FinishAdmit(q, m)
      PROVE  StandingInv'
  BY <1>5, BeginDenyKeeps, ObserveKeeps, FinishKeeps
<1>6. ASSUME NEW q \in Requests, Commit(q) \/ ReplayScim(q) \/ Refused(q) \/ Stop(q)
      PROVE  StandingInv'
  BY <1>6, CommitKeeps, ReplayKeeps, StopKeeps
<1>7. ASSUME NEW r \in receipts, Recover(r)
      PROVE  StandingInv'
  BY <1>7, RecoverKeeps
<1>8. CASE UNCHANGED standingVars
  BY <1>8 DEF standingVars, StandingInv, StandingTypes, Carried, Witnessed, OutShut, Denying, Shut
<1> QED
  BY <1>1, <1>3, <1>4, <1>5, <1>6, <1>7, <1>8 DEF StandingNext

\* A console request that goes on to its remote half has committed: only a
\* provisioning request goes on by a replay.
LEMMA CommitsApply ==
  ASSUME StandingInv, [StandingNext]_standingVars, NEW q \in Console
  PROVE  Applies(q)
<1> SUFFICES ASSUME req[q].at = "prepared", req'[q].at = "finishing",
                    NEW m \in req[q].targets
             PROVE  status'[m] = req[q].after
  BY DEF Applies
<1>1. q \in Requests /\ q \notin Scim /\ req \in [Requests -> Asked] /\ StandingIdle.at = "idle"
  BY FenceAssumption DEF FenceAssumption, Requests, StandingInv, StandingTypes, StandingIdle
<1>2. m \in Members
  BY <1>1, AskedFields
<1>3. ASSUME NEW p \in Requests, NEW k, NEW t, NEW a, Planned(p, k, t, a) PROVE FALSE
  BY <1>1, <1>3 DEF Planned
<1>4. ASSUME NEW p \in Requests, NEW n \in Members, BeginDeny(p, n) \/ Observe(p, n) PROVE FALSE
  BY <1>1, <1>4, AskedFields DEF BeginDeny, Observe, Ready, Asked
<1>5. ASSUME NEW p \in Requests, NEW n \in Members, FinishDeny(p, n) \/ FinishAdmit(p, n)
      PROVE  FALSE
  BY <1>1, <1>5 DEF FinishDeny, FinishAdmit, Finished
<1>6. ASSUME NEW p \in Requests, ReplayScim(p) \/ Refused(p) \/ Stop(p) PROVE FALSE
  BY <1>1, <1>6 DEF ReplayScim, Refused, Stop
<1>7. ASSUME NEW r \in receipts, Recover(r) PROVE FALSE
  BY <1>7 DEF Recover
<1>8. ASSUME NEW p \in Requests, Commit(p) PROVE status'[m] = req[q].after
  <2>1. p = q
    BY <1>1, <1>8 DEF Commit
  <2> QED
    BY <1>2, <1>8, <2>1 DEF Commit
<1>9. CASE UNCHANGED standingVars
  BY <1>9 DEF standingVars
<1> QED
  BY <1>3, <1>4, <1>5, <1>6, <1>7, <1>8, <1>9
     DEF StandingNext, PlanScim, PlanConsole, PlanClosure, Requests

(***************************************************************************)
(* Whatever console and provisioning requests overlap, die or are          *)
(* recovered late, a member the Store has taken out is not open at the     *)
(* remote authority unless a replayed activation opened it, and a console  *)
(* command that goes on to its remote half has changed the Store           *)
(* (commit_scim_membership, execute_staged_member_review).                 *)
(***************************************************************************)
THEOREM OutStaysFenced == StandingSpec => StandingSafe
<1>1. StandingInv => StandingTypeOK /\ OutIsFenced
  <2> SUFFICES ASSUME StandingInv PROVE StandingTypeOK /\ OutIsFenced
    OBVIOUS
  <2>1. StandingTypeOK
    BY DEF StandingInv, StandingTypes, StandingTypeOK, Asked, Receipted, Remotes
  <2>2. OutIsFenced
    BY DEF StandingInv, OutShut, Shut, OutIsFenced
  <2> QED
    BY <2>1, <2>2
<1>2. StandingInv /\ [StandingNext]_standingVars => [\A q \in Console : Applies(q)]_standingVars
  BY CommitsApply
<1>3. StandingSpec => [](StandingTypeOK /\ OutIsFenced)
  BY <1>1, StandingStart, StandingStep, PTL DEF StandingSpec
<1>4. StandingSpec => CommitApplies
  BY <1>2, StandingStart, StandingStep, PTL DEF StandingSpec, CommitApplies
<1> QED
  BY <1>3, <1>4 DEF StandingSafe

(* ---- sums of credits ---- *)

\* A set of numbers has a least one.
LEMMA LeastNumber ==
  ASSUME NEW I \in SUBSET Nat, I # {}
  PROVE  \E x \in I : \A y \in I : x <= y
<1> DEFINE R == OpToRel(<, Nat)
<1>1. IsWellFoundedOn(R, Nat)
  BY NatLessThanWellFounded
<1>2. PICK x \in I : \A y \in I : ~(<<y, x>> \in R)
  <2> HIDE DEF R
  <2>1. I \subseteq Nat /\ I # {}
    OBVIOUS
  <2> QED
    BY <1>1, <2>1, WFMin
<1>3. \A y \in I : ~(y < x)
  BY <1>2 DEF OpToRel
<1>4. \A y \in I : x <= y
  BY <1>3
<1> QED
  BY <1>4

\* A sum is the number of its units: w[x] of them for every x of S.
Units(w, x) == {x} \X (1..w[x])
AllUnits(w, S) == UNION {Units(w, x) : x \in S}

\* Units are counted by their amount.
LEMMA UnitsCount ==
  ASSUME NEW w, NEW x, w[x] \in Nat
  PROVE  IsFiniteSet(Units(w, x)) /\ Cardinality(Units(w, x)) = w[x]
<1>1. IsFiniteSet({x}) /\ Cardinality({x}) = 1
  BY FS_Singleton
<1>2. IsFiniteSet(1..w[x]) /\ Cardinality(1..w[x]) = w[x]
  <2>1. 1 \in Int /\ w[x] \in Int
    OBVIOUS
  <2>2. IsFiniteSet(1..w[x]) /\ Cardinality(1..w[x]) = IF 1 > w[x] THEN 0 ELSE w[x] - 1 + 1
    BY <2>1, FS_Interval, Zenon
  <2> QED
    BY <2>2
<1>3. PICK n : n = w[x]
  OBVIOUS
<1>4. /\ IsFiniteSet({x} \X (1..n))
      /\ Cardinality({x} \X (1..n)) = Cardinality({x}) * Cardinality(1..n)
  BY <1>1, <1>2, <1>3, FS_Product
<1> QED
  BY <1>1, <1>2, <1>3, <1>4 DEF Units

\* The units of a finite set of amounts are finitely many.
LEMMA UnitsFinite ==
  ASSUME NEW S, IsFiniteSet(S), NEW w, \A x \in S : w[x] \in Nat
  PROVE  IsFiniteSet(AllUnits(w, S))
<1> DEFINE T == {Units(w, x) : x \in S}
           f == [x \in S |-> Units(w, x)]
<1>1. f \in Surjection(S, T)
  BY DEF Surjection
<1>2. IsFiniteSet(T)
  <2> HIDE DEF f, T
  <2> QED
    BY <1>1, FS_Surjection
<1>3. \A U \in T : IsFiniteSet(U)
  BY UnitsCount
<1> HIDE DEF T
<1>4. IsFiniteSet(UNION T)
  BY <1>2, <1>3, FS_UNION
<1> QED
  BY <1>4 DEF AllUnits, T

\* One amount apart from the others.
LEMMA UnitsApart ==
  ASSUME NEW S, IsFiniteSet(S), NEW w, \A x \in S : w[x] \in Nat, NEW x \in S
  PROVE  /\ Cardinality(AllUnits(w, S)) = w[x] + Cardinality(AllUnits(w, S \ {x}))
         /\ Cardinality(AllUnits(w, S \ {x})) \in Nat
<1>1. PICK a : a = AllUnits(w, S \ {x})
  OBVIOUS
<1>2. PICK b : b = Units(w, x)
  OBVIOUS
<1>3. IsFiniteSet(S \ {x})
  BY FS_RemoveElement
<1>4. IsFiniteSet(a)
  BY <1>1, <1>3, UnitsFinite
<1>5. IsFiniteSet(b) /\ Cardinality(b) = w[x]
  BY <1>2, UnitsCount
<1>6. a \cap b = {}
  BY <1>1, <1>2 DEF AllUnits, Units
<1>7. AllUnits(w, S) = a \cup b
  BY <1>1, <1>2 DEF AllUnits
<1>8. Cardinality(a \cup b) = Cardinality(a) + Cardinality(b) - Cardinality(a \cap b)
  BY <1>4, <1>5, FS_Union
<1>9. Cardinality(a \cap b) = 0
  BY <1>6, FS_EmptySet
<1>10. Cardinality(a) \in Nat /\ w[x] \in Nat
  BY <1>4, FS_CardinalityType
<1> QED
  BY <1>1, <1>5, <1>7, <1>8, <1>9, <1>10

\* SumFunctionOnSet adds up the amounts.
LEMMA SumCounts ==
  ASSUME NEW S, IsFiniteSet(S), NEW w, \A x \in S : w[x] \in Nat
  PROVE  SumFunctionOnSet(w, S) = Cardinality(AllUnits(w, S))
<1> DEFINE pick(s) == CHOOSE x \in s : TRUE
           Body(it) == [s \in SUBSET S |-> IF s = {} THEN 0 ELSE w[pick(s)] + it[s \ {pick(s)}]]
           It == CHOOSE it : it = Body(it)
           G == [s \in SUBSET S |-> Cardinality(AllUnits(w, s))]
<1>1. SumFunctionOnSet(w, S) = It[S]
  BY DEF SumFunctionOnSet, FoldFunctionOnSet, MapThenFoldSet
<1>2. ASSUME NEW s \in SUBSET S, s # {}
      PROVE  /\ pick(s) \in s /\ s \ {pick(s)} \in SUBSET S
             /\ G[s] = w[pick(s)] + G[s \ {pick(s)}]
  <2>1. pick(s) \in s
    BY <1>2
  <2> HIDE DEF pick
  <2>2. IsFiniteSet(s) /\ \A x \in s : w[x] \in Nat
    BY FS_Subset
  <2>3. Cardinality(AllUnits(w, s)) = w[pick(s)] + Cardinality(AllUnits(w, s \ {pick(s)}))
    BY <2>1, <2>2, UnitsApart
  <2> QED
    BY <2>1, <2>3
<1>3. G[{}] = 0
  <2>1. AllUnits(w, {}) = {}
    BY DEF AllUnits
  <2> QED
    BY <2>1, FS_EmptySet
<1> HIDE DEF pick
<1>4. G = Body(G)
  <2>1. \A s \in SUBSET S : G[s] = Body(G)[s]
    BY <1>2, <1>3
  <2>2. Body(G) = [s \in SUBSET S |-> Body(G)[s]]
    OBVIOUS
  <2>3. G = [s \in SUBSET S |-> G[s]]
    OBVIOUS
  <2> HIDE DEF G, Body
  <2> QED
    BY <2>1, <2>2, <2>3
<1> HIDE DEF G
<1>5. It = Body(It)
  <2> HIDE DEF Body
  <2> QED
    BY <1>4
<1> HIDE DEF It
<1> DEFINE Bad == {n \in Nat : \E s \in SUBSET S : Cardinality(s) = n /\ It[s] # G[s]}
<1>6. Bad = {}
  <2> SUFFICES ASSUME Bad # {} PROVE FALSE
    OBVIOUS
  <2>1. PICK n \in Bad : \A y \in Bad : n <= y
    <3>1. Bad \in SUBSET Nat
      OBVIOUS
    <3> HIDE DEF Bad
    <3> QED
      BY <3>1, LeastNumber
  <2>2. PICK s \in SUBSET S : Cardinality(s) = n /\ It[s] # G[s]
    BY <2>1
  <2>3. It[s] = Body(It)[s]
    BY <1>5
  <2>4. s # {}
    <3> SUFFICES ASSUME s = {} PROVE FALSE
      OBVIOUS
    <3>1. Body(It)[s] = 0
      OBVIOUS
    <3> QED
      BY <1>3, <2>2, <2>3, <3>1
  <2>5. Body(It)[s] = w[pick(s)] + It[s \ {pick(s)}]
    BY <2>4
  <2> HIDE DEF Body
  <2>6. It[s \ {pick(s)}] # G[s \ {pick(s)}]
    BY <1>2, <2>2, <2>3, <2>4, <2>5
  <2>7. IsFiniteSet(s) /\ Cardinality(s) \in Nat
    BY FS_Subset, FS_CardinalityType
  <2>8. pick(s) \in s /\ s \ {pick(s)} \in SUBSET S
    BY <1>2, <2>4
  <2>9. IsFiniteSet(s \ {pick(s)}) /\ Cardinality(s \ {pick(s)}) = Cardinality(s) - 1
    BY <2>7, <2>8, FS_RemoveElement
  <2>10. Cardinality(s \ {pick(s)}) \in Nat
    BY <2>9, FS_CardinalityType
  <2>11. Cardinality(s \ {pick(s)}) \in Bad
    BY <2>6, <2>8, <2>10
  <2> HIDE DEF Bad
  <2>12. n <= Cardinality(s \ {pick(s)})
    BY <2>1, <2>11
  <2> QED
    BY <2>2, <2>7, <2>9, <2>12
<1>7. It[S] = G[S]
  <2>1. Cardinality(S) \in Nat
    BY FS_CardinalityType
  <2> QED
    BY <1>6, <2>1
<1> QED
  BY <1>1, <1>7 DEF G

\* What the proofs use of a sum.
LEMMA SumFacts ==
  ASSUME NEW S, IsFiniteSet(S), NEW w, \A x \in S : w[x] \in Nat
  PROVE  /\ SumFunctionOnSet(w, S) \in Nat
         /\ S = {} => SumFunctionOnSet(w, S) = 0
         /\ \A x \in S : SumFunctionOnSet(w, S) = w[x] + SumFunctionOnSet(w, S \ {x})
<1>1. SumFunctionOnSet(w, S) = Cardinality(AllUnits(w, S))
  BY SumCounts
<1>2. SumFunctionOnSet(w, S) \in Nat
  BY <1>1, UnitsFinite, FS_CardinalityType
<1>3. ASSUME S = {} PROVE SumFunctionOnSet(w, S) = 0
  <2>1. AllUnits(w, S) = {}
    BY <1>3 DEF AllUnits
  <2> QED
    BY <1>1, <2>1, FS_EmptySet
<1>4. ASSUME NEW x \in S
      PROVE  SumFunctionOnSet(w, S) = w[x] + SumFunctionOnSet(w, S \ {x})
  <2>1. IsFiniteSet(S \ {x})
    BY FS_RemoveElement
  <2>2. SumFunctionOnSet(w, S \ {x}) = Cardinality(AllUnits(w, S \ {x}))
    BY <2>1, SumCounts
  <2> QED
    BY <1>1, <2>2, UnitsApart
<1> QED
  BY <1>2, <1>3, <1>4

\* The same amounts have the same sum.
LEMMA SumSame ==
  ASSUME NEW S, IsFiniteSet(S), NEW w, \A x \in S : w[x] \in Nat,
         NEW v, \A x \in S : v[x] = w[x]
  PROVE  SumFunctionOnSet(v, S) = SumFunctionOnSet(w, S)
<1>1. \A x \in S : v[x] \in Nat
  OBVIOUS
<1>2. AllUnits(v, S) = AllUnits(w, S)
  BY DEF AllUnits, Units
<1> QED
  BY <1>1, <1>2, SumCounts

\* One amount changes.
LEMMA SumMoves ==
  ASSUME NEW S, IsFiniteSet(S), NEW w, \A x \in S : w[x] \in Nat,
         NEW v, NEW i \in S, v[i] \in Nat, \A x \in S \ {i} : v[x] = w[x]
  PROVE  SumFunctionOnSet(v, S) + w[i] = SumFunctionOnSet(w, S) + v[i]
<1>1. IsFiniteSet(S \ {i})
  BY FS_RemoveElement
<1>2. SumFunctionOnSet(v, S \ {i}) = SumFunctionOnSet(w, S \ {i})
  <2>1. \A x \in S \ {i} : w[x] \in Nat
    OBVIOUS
  <2> QED
    BY <1>1, <2>1, SumSame
<1>3. \A x \in S : v[x] \in Nat
  OBVIOUS
<1>4. SumFunctionOnSet(v, S) = v[i] + SumFunctionOnSet(v, S \ {i})
  BY <1>3, SumFacts
<1>5. SumFunctionOnSet(w, S) = w[i] + SumFunctionOnSet(w, S \ {i})
  BY SumFacts
<1>6. SumFunctionOnSet(w, S \ {i}) \in Nat
  BY <1>1, SumFacts
<1> QED
  BY <1>2, <1>4, <1>5, <1>6

\* A set without one of the amounts it gains.
LEMMA SumGains ==
  ASSUME NEW S, IsFiniteSet(S), NEW w, \A x \in S : w[x] \in Nat,
         NEW i, i \notin S, w[i] \in Nat
  PROVE  SumFunctionOnSet(w, S \cup {i}) = SumFunctionOnSet(w, S) + w[i]
<1>1. IsFiniteSet(S \cup {i}) /\ (S \cup {i}) \ {i} = S
  BY FS_AddElement
<1>2. \A x \in S \cup {i} : w[x] \in Nat
  OBVIOUS
<1>3. SumFunctionOnSet(w, S) \in Nat
  BY SumFacts
<1>4. SumFunctionOnSet(w, S \cup {i}) = w[i] + SumFunctionOnSet(w, (S \cup {i}) \ {i})
  <2>1. PICK T : T = S \cup {i}
    OBVIOUS
  <2>2. IsFiniteSet(T) /\ i \in T /\ \A x \in T : w[x] \in Nat
    BY <1>1, <1>2, <2>1
  <2>3. SumFunctionOnSet(w, T) = w[i] + SumFunctionOnSet(w, T \ {i})
    BY <2>2, SumFacts
  <2> QED
    BY <2>1, <2>3
<1>5. SumFunctionOnSet(w, S \cup {i}) = w[i] + SumFunctionOnSet(w, S)
  BY <1>1, <1>4, Zenon
<1> QED
  BY <1>3, <1>5

(* ---- credits ---- *)

Stages == {"idle", "run", "reserved", "send", "wait", "usage", "settle", "cost",
           "settlement", "completed", "failed", "failed run"}
Settling == {"settle", "cost", "settlement"}
Inside == {"reserved", "settle", "cost", "settlement"}
Turns == [at : Stages, entry : 0..MaxEntries, ref : 0..MaxPlans, held : Seq(CallIds),
          cost : Nat, next : Nat]
Ledgers == [CallIds -> [status : {"none", "open", "settled", "released"},
                        ref : 0..MaxPlans, drawn : Nat]]

\* A call held and not settled, reconciled or not.
Unsettled(l, i) == l[i].status \in {"open", "released"} /\ l[i].drawn = 0

Held(t) == {t.held[n] : n \in 1..Len(t.held)}
DrawnOf(l, S) == SumFunctionOnSet([i \in CallIds |-> l[i].drawn], S)

\* The calls an attempt has settled so far, and what they have drawn together:
\* all but the last up to their holds, the last whatever remains.
Done(t) == IF t.at = "settle" THEN t.next - 1 ELSE t.next
Due(t, k) == IF k = Len(t.held) THEN t.cost ELSE Least(t.cost, k * Hold)

\* An attempt has an entry of its own chat, and its calls are that entry's.
OwnCalls(c, t, e) ==
  /\ t.at # "idle" => t.entry \in 1..Len(e) /\ e[t.entry] = c
  /\ \A n \in 1..Len(t.held) : t.held[n][1] = t.entry
  /\ \A m, n \in 1..Len(t.held) : t.held[m] = t.held[n] => m = n

\* The runtime prepares the ordinals in order, a the last it has an answer to.
InOrder(t, a) ==
  /\ t.at \in {"run", "reserved"} => \A n \in 1..Len(t.held) : t.held[n][2] <= a
  /\ t.at \in {"send", "wait"} => \A n \in 1..Len(t.held) : t.held[n][2] <= a + 1
  /\ t.at \in {"reserved", "send", "wait"} => a < Calls

\* Until its usage is settled the calls an attempt holds have drawn nothing.
Metered(t, a, l) ==
  /\ t.at \in {"reserved", "send", "wait"} => l[<<t.entry, a + 1>>].status # "none"
  /\ t.at = "reserved" => Unsettled(l, <<t.entry, a + 1>>)
  /\ t.at \in {"run", "reserved", "send", "wait", "usage"} =>
       \A n \in 1..Len(t.held) : Unsettled(l, t.held[n])

\* A settlement has drawn what is due of the calls before the one it is at.
SettlesInTurn(t, l, r) ==
  t.at \in Settling =>
    /\ t.next \in 1..Len(t.held)
    /\ \A n \in 1..Len(t.held) :
         IF n <= Done(t) THEN l[t.held[n]].status = "settled" ELSE Unsettled(l, t.held[n])
    /\ DrawnOf(l, Held(t)) = Due(t, Done(t))
    /\ t.at = "settlement" => t.held[t.next] \in r

Live(c, t, a, l, r, e) ==
  OwnCalls(c, t, e) /\ InOrder(t, a) /\ Metered(t, a, l) /\ SettlesInTurn(t, l, r)

\* The four parts of the invariant: the tables, the ledger and its bound, what
\* the ledger accounts for, and the attempts under the lock.
Tables ==
  /\ plan \in [live : BOOLEAN, ref : 1..MaxPlans]
  /\ granted \subseteq Grants /\ IsFiniteSet(granted)
  /\ recs \in [reserve : SUBSET CallIds, cost : SUBSET CallIds, settle : SUBSET CallIds]
  /\ entries \in Seq(Chats) /\ Len(entries) <= MaxEntries
  /\ running \subseteq Chats
  /\ card \in [Chats -> {"answered", "pending", "completed"}]
  /\ answered \in [Chats -> 0..Calls] /\ sent \subseteq CallIds

Books ==
  /\ ledger \in Ledgers
  /\ \A i \in CallIds : ledger[i].status # "settled" => ledger[i].drawn = 0
  /\ SpendBounded

Accounts == SentIsAccounted /\ RecordsFollowLedger

Attempts ==
  /\ turn \in [Chats -> Turns] /\ lock \in Chats \union {NoChat}
  /\ \A c \in Chats : turn[c].at \in Inside <=> lock = c
  /\ \A c \in Chats : Live(c, turn[c], answered[c], ledger, recs.cost, entries)

CreditInv == Tables /\ Books /\ Accounts /\ Attempts

\* There are finitely many calls.
LEMMA FiniteCalls == IsFiniteSet(CallIds)
<1>1. IsFiniteSet(1..MaxEntries) /\ IsFiniteSet(1..Calls)
  <2>1. 1 \in Int /\ MaxEntries \in Int /\ Calls \in Int
    BY CreditsAssumption
  <2> QED
    BY <2>1, FS_Interval
<1> QED
  BY <1>1, FS_Product DEF CallIds

\* The amounts drawn are numbers, over every set of calls.
LEMMA DrawnFacts ==
  ASSUME NEW l \in Ledgers, NEW S \in SUBSET CallIds
  PROVE  /\ IsFiniteSet(S)
         /\ \A x \in S : [i \in CallIds |-> l[i].drawn][x] \in Nat
         /\ DrawnOf(l, S) \in Nat
<1>1. IsFiniteSet(S)
  BY FiniteCalls, FS_Subset
<1>2. \A x \in S : [i \in CallIds |-> l[i].drawn][x] \in Nat
  BY DEF Ledgers
<1>3. PICK w : w = [i \in CallIds |-> l[i].drawn]
  OBVIOUS
<1>4. SumFunctionOnSet(w, S) \in Nat
  BY <1>1, <1>2, <1>3, SumFacts
<1> QED
  BY <1>1, <1>2, <1>3, <1>4 DEF DrawnOf

\* The ledger of a call moves on without its owner only by a reconciliation.
Reconciled(l, k, i) ==
  /\ k[i].drawn = l[i].drawn
  /\ k[i].status = l[i].status \/ (l[i].status = "open" /\ k[i].status = "released")

\* What an attempt relies on outlasts the steps of others.
LEMMA LiveKept ==
  ASSUME NEW c, NEW t \in Turns, NEW a \in Nat, NEW l \in Ledgers, NEW k \in Ledgers,
         NEW r, NEW r2, r \subseteq r2, NEW e \in Seq(Chats), NEW e2 \in Seq(Chats),
         Len(e) <= Len(e2), \A n \in 1..Len(e) : e2[n] = e[n],
         Len(e) <= MaxEntries, Live(c, t, a, l, r, e),
         t.at # "idle" => \A i \in CallIds : i[1] = t.entry => Reconciled(l, k, i)
  PROVE  Live(c, t, a, k, r2, e2)
<1>1. OwnCalls(c, t, e) /\ InOrder(t, a) /\ Metered(t, a, l) /\ SettlesInTurn(t, l, r)
  BY DEF Live
<1>2. OwnCalls(c, t, e2)
  BY <1>1 DEF OwnCalls
<1>3. \A n \in 1..Len(t.held) : t.held[n] \in CallIds /\ t.held[n][1] = t.entry
  BY <1>1 DEF OwnCalls, Turns
<1>4. ASSUME t.at # "idle", NEW n \in 1..Len(t.held) PROVE Reconciled(l, k, t.held[n])
  BY <1>3, <1>4
<1>5. Metered(t, a, k)
  <2>1. ASSUME t.at \in {"reserved", "send", "wait"}
        PROVE  Reconciled(l, k, <<t.entry, a + 1>>)
    <3>1. t.at # "idle" /\ t.entry \in 1..Len(e) /\ a < Calls
      BY <1>1, <2>1 DEF OwnCalls, InOrder
    <3>2. t.entry \in 1..MaxEntries /\ a + 1 \in 1..Calls
      BY <3>1, CreditsAssumption
    <3>3. <<t.entry, a + 1>> \in CallIds /\ <<t.entry, a + 1>>[1] = t.entry
      BY <3>2 DEF CallIds
    <3> QED
      BY <3>1, <3>3
  <2>2. ASSUME t.at \in {"reserved", "send", "wait"} PROVE k[<<t.entry, a + 1>>].status # "none"
    BY <1>1, <2>1, <2>2 DEF Metered, Reconciled
  <2>3. ASSUME t.at = "reserved" PROVE Unsettled(k, <<t.entry, a + 1>>)
    BY <1>1, <2>1, <2>3 DEF Metered, Reconciled, Unsettled
  <2>4. ASSUME t.at \in {"run", "reserved", "send", "wait", "usage"}, NEW n \in 1..Len(t.held)
        PROVE  Unsettled(k, t.held[n])
    <3>1. Reconciled(l, k, t.held[n]) /\ Unsettled(l, t.held[n])
      BY <1>1, <1>4, <2>4 DEF Metered
    <3> QED
      BY <3>1 DEF Reconciled, Unsettled
  <2> QED
    BY <2>2, <2>3, <2>4 DEF Metered
<1>6. SettlesInTurn(t, k, r2)
  <2> SUFFICES ASSUME t.at \in Settling
               PROVE  /\ t.next \in 1..Len(t.held)
                      /\ \A n \in 1..Len(t.held) :
                           IF n <= Done(t) THEN k[t.held[n]].status = "settled"
                           ELSE Unsettled(k, t.held[n])
                      /\ DrawnOf(k, Held(t)) = Due(t, Done(t))
                      /\ t.at = "settlement" => t.held[t.next] \in r2
    BY DEF SettlesInTurn
  <2>1. /\ t.next \in 1..Len(t.held)
        /\ \A n \in 1..Len(t.held) :
             IF n <= Done(t) THEN l[t.held[n]].status = "settled" ELSE Unsettled(l, t.held[n])
        /\ DrawnOf(l, Held(t)) = Due(t, Done(t))
        /\ t.at = "settlement" => t.held[t.next] \in r
    BY <1>1, Zenon DEF SettlesInTurn
  <2>2. t.at # "idle"
    BY DEF Settling
  <2>3. ASSUME NEW n \in 1..Len(t.held)
        PROVE  IF n <= Done(t) THEN k[t.held[n]].status = "settled" ELSE Unsettled(k, t.held[n])
    <3>1. Reconciled(l, k, t.held[n])
      BY <1>4, <2>2
    <3>2. CASE n <= Done(t)
      BY <2>1, <3>1, <3>2 DEF Reconciled
    <3>3. CASE ~(n <= Done(t))
      <4>1. Unsettled(l, t.held[n])
        BY <2>1, <3>3
      <4> QED
        BY <3>1, <3>3, <4>1 DEF Reconciled, Unsettled
    <3> QED
      BY <3>2, <3>3
  <2>4. DrawnOf(k, Held(t)) = DrawnOf(l, Held(t))
    <3>1. PICK S : S = Held(t)
      OBVIOUS
    <3>2. S \in SUBSET CallIds /\ \A x \in S : Reconciled(l, k, x)
      BY <1>3, <1>4, <2>2, <3>1 DEF Held
    <3>3. PICK v, w : v = [i \in CallIds |-> k[i].drawn] /\ w = [i \in CallIds |-> l[i].drawn]
      OBVIOUS
    <3>4. IsFiniteSet(S) /\ \A x \in S : w[x] \in Nat
      BY <3>2, <3>3, DrawnFacts
    <3>5. \A x \in S : v[x] = w[x]
      BY <3>2, <3>3 DEF Reconciled
    <3>6. SumFunctionOnSet(v, S) = SumFunctionOnSet(w, S)
      BY <3>4, <3>5, SumSame
    <3> QED
      BY <3>1, <3>3, <3>6 DEF DrawnOf
  <2> QED
    BY <2>1, <2>3, <2>4
<1> QED
  BY <1>1, <1>2, <1>5, <1>6 DEF Live

\* Two attempts under way have entries of their own.
LEMMA EntriesApart ==
  ASSUME Attempts, NEW c \in Chats, NEW d \in Chats, c # d,
         turn[c].at # "idle", turn[d].at # "idle"
  PROVE  turn[c].entry # turn[d].entry
<1>1. entries[turn[c].entry] = c /\ entries[turn[d].entry] = d
  BY DEF Attempts, Live, OwnCalls
<1> QED
  BY <1>1

\* One attempt moves to t, changing the ledger of its own calls at most.
LEMMA OneAttemptMoves ==
  ASSUME Tables, Books, Attempts, NEW c \in Chats, NEW t \in Turns,
         turn' = [turn EXCEPT ![c] = t],
         lock' \in Chats \union {NoChat}, t.at \in Inside <=> lock' = c,
         \A d \in Chats \ {c} : lock' = d <=> lock = d,
         \A d \in Chats \ {c} : answered'[d] = answered[d],
         recs.cost \subseteq recs.cost',
         entries' \in Seq(Chats), Len(entries) <= Len(entries'),
         \A n \in 1..Len(entries) : entries'[n] = entries[n],
         ledger' \in Ledgers,
         ledger' = ledger \/ turn[c].at # "idle",
         \A i \in CallIds : i[1] # turn[c].entry => ledger'[i] = ledger[i],
         Live(c, t, answered'[c], ledger', recs.cost', entries')
  PROVE  Attempts'
<1>1. turn' \in [Chats -> Turns] /\ turn'[c] = t /\ \A d \in Chats \ {c} : turn'[d] = turn[d]
  BY DEF Attempts
<1>2. \A d \in Chats : turn'[d].at \in Inside <=> lock' = d
  BY <1>1 DEF Attempts
<1>3. ASSUME NEW d \in Chats
      PROVE  Live(d, turn'[d], answered'[d], ledger', recs.cost', entries')
  <2>1. CASE d = c
    BY <1>1, <2>1
  <2>2. CASE d # c
    <3>1. PICK u : u = turn[d]
      OBVIOUS
    <3>2. PICK a : a = answered[d]
      OBVIOUS
    <3>3. u \in Turns /\ a \in Nat /\ turn'[d] = u /\ answered'[d] = a
      BY <1>1, <2>2, <3>1, <3>2, CreditsAssumption DEF Attempts, Tables
    <3>4. PICK l, k : l = ledger /\ k = ledger'
      OBVIOUS
    <3>5. l \in Ledgers /\ k \in Ledgers
      BY <3>4 DEF Books
    <3>6. PICK e, e2 : e = entries /\ e2 = entries'
      OBVIOUS
    <3>7. /\ e \in Seq(Chats) /\ e2 \in Seq(Chats) /\ Len(e) <= Len(e2) /\ Len(e) <= MaxEntries
          /\ \A n \in 1..Len(e) : e2[n] = e[n]
      BY <3>6 DEF Tables
    <3>8. PICK r, r2 : r = recs.cost /\ r2 = recs.cost'
      OBVIOUS
    <3>9. Live(d, u, a, l, r, e)
      BY <3>1, <3>2, <3>4, <3>6, <3>8 DEF Attempts
    <3>10. ASSUME u.at # "idle", NEW i \in CallIds, i[1] = u.entry PROVE Reconciled(l, k, i)
      <4>1. k[i] = l[i]
        <5>1. CASE ledger' = ledger
          BY <3>4, <5>1
        <5>2. CASE turn[c].at # "idle"
          <6>1. turn[c].entry # turn[d].entry
            BY <2>2, <3>1, <3>10, <5>2, EntriesApart
          <6> QED
            BY <3>1, <3>4, <3>10, <6>1
        <5> QED
          BY <5>1, <5>2
      <4> QED
        BY <4>1 DEF Reconciled
    <3>11. Live(d, u, a, k, r2, e2)
      BY <3>3, <3>5, <3>7, <3>8, <3>9, <3>10, LiveKept
    <3> QED
      BY <3>3, <3>4, <3>6, <3>8, <3>11
  <2> QED
    BY <2>1, <2>2
<1> QED
  BY <1>1, <1>2, <1>3 DEF Attempts

\* Reading an attempt, and the call it prepares.
LEMMA AttemptFacts ==
  ASSUME Tables, Attempts, NEW c \in Chats
  PROVE  /\ turn[c] \in Turns
         /\ OwnCalls(c, turn[c], entries) /\ InOrder(turn[c], answered[c])
         /\ Metered(turn[c], answered[c], ledger)
         /\ SettlesInTurn(turn[c], ledger, recs.cost)
         /\ answered[c] \in 0..Calls
         /\ turn[c].at \in Inside <=> lock = c
         /\ turn[c].at # "idle" => turn[c].entry \in 1..MaxEntries
         /\ turn[c].at # "idle" /\ answered[c] < Calls => Prepared(c) \in CallIds
         /\ \A n \in 1..Len(turn[c].held) : turn[c].held[n] \in CallIds
<1>1. turn[c] \in Turns /\ (turn[c].at \in Inside <=> lock = c)
  BY DEF Attempts
<1>2. Live(c, turn[c], answered[c], ledger, recs.cost, entries)
  BY DEF Attempts
<1>3. answered[c] \in 0..Calls
  BY DEF Tables
<1>4. ASSUME turn[c].at # "idle" PROVE turn[c].entry \in 1..MaxEntries
  <2>1. turn[c].entry \in 1..Len(entries)
    BY <1>2, <1>4 DEF Live, OwnCalls
  <2>2. Len(entries) \in Nat /\ Len(entries) <= MaxEntries
    BY DEF Tables
  <2> QED
    BY <2>1, <2>2, CreditsAssumption
<1>5. ASSUME turn[c].at # "idle", answered[c] < Calls PROVE Prepared(c) \in CallIds
  <2>1. answered[c] + 1 \in 1..Calls
    BY <1>3, <1>5, CreditsAssumption
  <2> QED
    BY <1>4, <1>5, <2>1 DEF Prepared, CallIds
<1>6. turn[c].held \in Seq(CallIds)
  BY <1>1 DEF Turns
<1>7. \A n \in 1..Len(turn[c].held) : turn[c].held[n] \in CallIds
  BY <1>6
<1> QED
  BY <1>1, <1>2, <1>3, <1>4, <1>5, <1>7 DEF Live

\* The fields of an attempt.
LEMMA TurnFields ==
  ASSUME NEW t \in Turns
  PROVE  /\ t.at \in Stages /\ t.entry \in 0..MaxEntries /\ t.ref \in 0..MaxPlans
         /\ t.held \in Seq(CallIds) /\ t.cost \in Nat /\ t.next \in Nat
         /\ Len(t.held) \in Nat
<1>1. t.held \in Seq(CallIds)
  BY DEF Turns
<1> QED
  BY <1>1 DEF Turns

\* An attempt moves on to another stage, keeping everything else.
LEMMA StageFields ==
  ASSUME NEW t \in Turns, NEW to \in Stages, NEW u, u = [t EXCEPT !.at = to]
  PROVE  /\ u \in Turns /\ u.at = to /\ u.entry = t.entry /\ u.ref = t.ref
         /\ u.held = t.held /\ u.cost = t.cost /\ u.next = t.next
BY DEF Turns

\* Nothing drawn sums to nothing.
LEMMA SumZero ==
  ASSUME NEW S, IsFiniteSet(S), NEW w, \A x \in S : w[x] = 0
  PROVE  SumFunctionOnSet(w, S) = 0
<1>1. \A x \in S : w[x] \in Nat
  OBVIOUS
<1>2. AllUnits(w, S) = {}
  BY DEF AllUnits, Units
<1> QED
  BY <1>1, <1>2, SumCounts, FS_EmptySet

\* No attempt moves; entries may be appended and calls reconciled.
LEMMA NoneMoves ==
  ASSUME Tables, Books, Attempts, UNCHANGED <<turn, lock, answered>>,
         recs.cost \subseteq recs.cost',
         entries' \in Seq(Chats), Len(entries) <= Len(entries'),
         \A n \in 1..Len(entries) : entries'[n] = entries[n],
         ledger' \in Ledgers, \A i \in CallIds : Reconciled(ledger, ledger', i)
  PROVE  Attempts'
<1>1. ASSUME NEW d \in Chats
      PROVE  Live(d, turn'[d], answered'[d], ledger', recs.cost', entries')
  <2>1. PICK u : u = turn[d]
    OBVIOUS
  <2>2. PICK a : a = answered[d]
    OBVIOUS
  <2>3. u \in Turns /\ a \in Nat
    BY <2>1, <2>2, CreditsAssumption DEF Attempts, Tables
  <2>4. PICK l, k : l = ledger /\ k = ledger'
    OBVIOUS
  <2>5. l \in Ledgers /\ k \in Ledgers /\ \A i \in CallIds : Reconciled(l, k, i)
    BY <2>4 DEF Books
  <2>6. PICK e, e2 : e = entries /\ e2 = entries'
    OBVIOUS
  <2>7. /\ e \in Seq(Chats) /\ e2 \in Seq(Chats) /\ Len(e) <= Len(e2) /\ Len(e) <= MaxEntries
        /\ \A n \in 1..Len(e) : e2[n] = e[n]
    BY <2>6 DEF Tables
  <2>8. PICK r, r2 : r = recs.cost /\ r2 = recs.cost'
    OBVIOUS
  <2>9. Live(d, u, a, l, r, e)
    BY <2>1, <2>2, <2>4, <2>6, <2>8 DEF Attempts
  <2>10. Live(d, u, a, k, r2, e2)
    BY <2>3, <2>5, <2>7, <2>8, <2>9, LiveKept
  <2> QED
    BY <2>1, <2>2, <2>4, <2>6, <2>8, <2>10
<1> QED
  BY <1>1 DEF Attempts

\* An attempt moves on to the stage `to`, nothing else of it changes.
LEMMA StageMoves ==
  ASSUME Tables, Books, Attempts, NEW c \in Chats, NEW to \in Stages, NEW hold \in BOOLEAN,
         Goes(c, to, hold), to \in Inside <=> hold, hold => Free(c),
         \A d \in Chats \ {c} : answered'[d] = answered[d],
         recs.cost \subseteq recs.cost', entries' = entries, ledger' \in Ledgers,
         ledger' = ledger \/ turn[c].at # "idle",
         \A i \in CallIds : i[1] # turn[c].entry => ledger'[i] = ledger[i],
         Live(c, [turn[c] EXCEPT !.at = to], answered'[c], ledger', recs.cost', entries)
  PROVE  Attempts'
<1>1. PICK t : t = [turn[c] EXCEPT !.at = to]
  OBVIOUS
<1>2. t \in Turns /\ t.at = to
  BY <1>1, AttemptFacts, StageFields
<1>3. turn' = [turn EXCEPT ![c] = t]
  BY <1>1 DEF Goes
<1>4. /\ lock' \in Chats \union {NoChat} /\ (t.at \in Inside <=> lock' = c)
      /\ \A d \in Chats \ {c} : lock' = d <=> lock = d
  BY <1>2, CreditsAssumption DEF Goes, Free, Attempts
<1>5. /\ entries' \in Seq(Chats) /\ Len(entries) <= Len(entries')
      /\ \A n \in 1..Len(entries) : entries'[n] = entries[n]
  BY DEF Tables
<1>6. Live(c, t, answered'[c], ledger', recs.cost', entries')
  BY <1>1
<1> QED
  BY <1>2, <1>3, <1>4, <1>5, <1>6, OneAttemptMoves, Zenon

\* The stages of an attempt that ended.
Over == {"completed", "failed", "failed run"}

\* An attempt that ended relies only on its entry.
LEMMA OverLive ==
  ASSUME NEW c, NEW t \in Turns, NEW to \in Over, NEW e, NEW a, NEW l, NEW r,
         OwnCalls(c, t, e), t.at # "idle", NEW u, u = [t EXCEPT !.at = to]
  PROVE  Live(c, u, a, l, r, e)
<1>1. to \in Stages
  BY DEF Over, Stages
<1>2. u.at = to /\ u.entry = t.entry /\ u.held = t.held
  BY <1>1, StageFields
<1>3. OwnCalls(c, u, e)
  BY <1>2 DEF OwnCalls
<1>4. u.at \notin {"run", "reserved", "send", "wait", "usage", "settle", "cost", "settlement"}
  BY <1>2 DEF Over
<1> QED
  BY <1>3, <1>4 DEF Live, InOrder, Metered, SettlesInTurn, Settling

\* An attempt ends.
LEMMA OverMoves ==
  ASSUME Tables, Books, Attempts, NEW c \in Chats, turn[c].at # "idle",
         NEW to \in Over, Goes(c, to, FALSE), UNCHANGED <<answered, recs, entries, ledger>>
  PROVE  Attempts'
<1>1. to \in Stages /\ to \notin Inside
  BY DEF Over, Stages, Inside
<1>2. turn[c] \in Turns /\ OwnCalls(c, turn[c], entries)
  BY AttemptFacts
<1>3. Live(c, [turn[c] EXCEPT !.at = to], answered'[c], ledger', recs.cost', entries)
  BY <1>2, OverLive
<1>4. ledger' \in Ledgers
  BY DEF Books
<1> QED
  BY <1>1, <1>3, <1>4, StageMoves

\* The steps that end an attempt: refused, cut off, nothing to settle, rejected.
LEMMA EndingMoves ==
  ASSUME Tables, Books, Attempts, NEW c \in Chats,
         \/ RefuseCall(c) \/ TransportDied(c) \/ NothingHeld(c) \/ SettleRejected(c)
  PROVE  Attempts'
<1>1. PICK to : /\ to \in Over /\ Goes(c, to, FALSE)
                /\ UNCHANGED <<answered, recs, entries, ledger>>
                /\ turn[c].at \in {"run", "wait", "usage", "settle"}
  <2>1. CASE RefuseCall(c)
    BY <2>1 DEF RefuseCall, RunEnds, Over
  <2>2. CASE TransportDied(c)
    BY <2>2 DEF TransportDied, RunEnds, Over
  <2>3. CASE NothingHeld(c)
    BY <2>3 DEF NothingHeld, durable, Over
  <2>4. CASE SettleRejected(c)
    BY <2>4 DEF SettleRejected, durable, Over
  <2> QED
    BY <2>1, <2>2, <2>3, <2>4
<1> QED
  BY <1>1, OverMoves

\* The call goes to the provider.
LEMMA SendMoves ==
  ASSUME Tables, Books, Attempts, NEW c \in Chats, Send(c)
  PROVE  Attempts'
<1>1. /\ turn[c].at = "send" /\ Goes(c, "wait", FALSE)
      /\ UNCHANGED <<answered, recs, entries, ledger>>
  BY DEF Send
<1>2. PICK t : t = turn[c]
  OBVIOUS
<1>3. PICK u : u = [t EXCEPT !.at = "wait"]
  OBVIOUS
<1>4. /\ t \in Turns /\ t.at = "send" /\ OwnCalls(c, t, entries) /\ InOrder(t, answered[c])
      /\ Metered(t, answered[c], ledger)
  BY <1>1, <1>2, AttemptFacts
<1>5. u.at = "wait" /\ u.entry = t.entry /\ u.held = t.held
  <2>1. "wait" \in Stages
    BY DEF Stages
  <2> QED
    BY <1>3, <1>4, <2>1, StageFields
<1>6. Live(c, u, answered[c], ledger, recs.cost, entries)
  BY <1>4, <1>5 DEF Live, OwnCalls, InOrder, Metered, SettlesInTurn, Settling
<1>7. ledger' \in Ledgers /\ "wait" \in Stages /\ "wait" \notin Inside
  BY <1>1 DEF Books, Stages, Inside
<1> QED
  BY <1>1, <1>2, <1>3, <1>6, <1>7, StageMoves

\* The answer's ordinal is the call's.
LEMMA AnsweredMoves ==
  ASSUME Tables, Books, Attempts, NEW c \in Chats, Answered(c)
  PROVE  Attempts'
<1>1. /\ turn[c].at = "wait" /\ Goes(c, "run", FALSE)
      /\ answered' = [answered EXCEPT ![c] = answered[c] + 1]
      /\ UNCHANGED <<recs, entries, ledger>>
  BY DEF Answered
<1>2. PICK t : t = turn[c]
  OBVIOUS
<1>3. PICK u : u = [t EXCEPT !.at = "run"]
  OBVIOUS
<1>4. /\ t \in Turns /\ t.at = "wait" /\ OwnCalls(c, t, entries) /\ InOrder(t, answered[c])
      /\ Metered(t, answered[c], ledger)
  BY <1>1, <1>2, AttemptFacts
<1>5. u.at = "run" /\ u.entry = t.entry /\ u.held = t.held
  <2>1. "run" \in Stages
    BY DEF Stages
  <2> QED
    BY <1>3, <1>4, <2>1, StageFields
<1>6. answered'[c] = answered[c] + 1 /\ \A d \in Chats \ {c} : answered'[d] = answered[d]
  BY <1>1 DEF Tables
<1>7. Live(c, u, answered[c] + 1, ledger, recs.cost, entries)
  BY <1>4, <1>5 DEF Live, OwnCalls, InOrder, Metered, SettlesInTurn, Settling
<1>8. ledger' \in Ledgers /\ "run" \in Stages /\ "run" \notin Inside
  BY <1>1 DEF Books, Stages, Inside
<1> QED
  BY <1>1, <1>2, <1>3, <1>6, <1>7, <1>8, StageMoves

\* The transcript grows by one entry.
LEMMA EntriesGrow ==
  ASSUME Tables, NEW c \in Chats, entries' = Append(entries, c)
  PROVE  /\ entries' \in Seq(Chats) /\ Len(entries) \in Nat /\ Len(entries') = Len(entries) + 1
         /\ Len(entries) <= Len(entries')
         /\ entries'[Len(entries) + 1] = c
         /\ \A n \in 1..Len(entries) : entries'[n] = entries[n]
BY DEF Tables

\* The idle attempt relies on nothing.
LEMMA IdleLive ==
  ASSUME NEW c, NEW a, NEW l, NEW r, NEW e
  PROVE  /\ CreditIdle \in Turns /\ CreditIdle.at = "idle"
         /\ Live(c, CreditIdle, a, l, r, e)
<1>1. /\ CreditIdle.at = "idle" /\ CreditIdle.held = <<>> /\ CreditIdle.entry = 0
      /\ CreditIdle.ref = 0 /\ CreditIdle.cost = 0 /\ CreditIdle.next = 0
  BY DEF CreditIdle
<1>2. Len(CreditIdle.held) = 0
  BY <1>1
<1>3. CreditIdle \in Turns
  BY CreditsAssumption DEF Turns, CreditIdle, Stages
<1>4. OwnCalls(c, CreditIdle, e)
  BY <1>1, <1>2 DEF OwnCalls
<1> QED
  BY <1>1, <1>3, <1>4 DEF Live, InOrder, Metered, SettlesInTurn, Settling

\* A new attempt has its entry and holds nothing yet.
LEMMA BeginMoves ==
  ASSUME Tables, Books, Attempts, NEW c \in Chats, Begin(c)
  PROVE  Attempts'
<1>1. PICK t : t = [CreditIdle EXCEPT !.at = "run", !.entry = Len(entries) + 1, !.ref = plan.ref]
  OBVIOUS
<1>2. /\ turn[c].at = "idle" /\ Len(entries) < MaxEntries /\ entries' = Append(entries, c)
      /\ turn' = [turn EXCEPT ![c] = t] /\ UNCHANGED <<ledger, recs, answered, lock>>
  BY <1>1 DEF Begin, Retryable
<1>3. /\ t.at = "run" /\ t.entry = Len(entries) + 1 /\ t.held = <<>> /\ t.ref = plan.ref
      /\ t.cost = 0 /\ t.next = 0
  BY <1>1 DEF CreditIdle
<1>4. /\ entries' \in Seq(Chats) /\ Len(entries) \in Nat /\ Len(entries') = Len(entries) + 1
      /\ Len(entries) <= Len(entries') /\ entries'[Len(entries) + 1] = c
      /\ \A n \in 1..Len(entries) : entries'[n] = entries[n]
  BY <1>2, EntriesGrow
<1>5. t \in Turns
  <2>1. Len(entries) + 1 \in 0..MaxEntries /\ plan.ref \in 0..MaxPlans
    BY <1>2, <1>4, CreditsAssumption DEF Tables
  <2>2. t = [at |-> "run", entry |-> Len(entries) + 1, ref |-> plan.ref, held |-> <<>>,
             cost |-> 0, next |-> 0]
    BY <1>1 DEF CreditIdle
  <2> QED
    BY <2>1, <2>2 DEF Turns, Stages
<1>6. Live(c, t, answered[c], ledger, recs.cost, entries')
  <2>1. Len(t.held) = 0
    BY <1>3
  <2>2. OwnCalls(c, t, entries')
    BY <1>3, <1>4, <2>1 DEF OwnCalls
  <2> QED
    BY <1>3, <2>1, <2>2 DEF Live, InOrder, Metered, SettlesInTurn, Settling
<1>7. lock' \in Chats \union {NoChat} /\ (t.at \in Inside <=> lock' = c)
  BY <1>2, <1>3 DEF Attempts, Inside
<1>8. ledger' \in Ledgers
  BY <1>2 DEF Books
<1> QED
  BY <1>2, <1>4, <1>5, <1>6, <1>7, <1>8, OneAttemptMoves

\* A step that moves no attempt.
LEMMA OtherMoves ==
  ASSUME Tables, Books, Attempts, UNCHANGED <<turn, lock, answered, recs, ledger>>,
         entries' = entries \/ \E c \in Chats : entries' = Append(entries, c)
  PROVE  Attempts'
<1>1. /\ entries' \in Seq(Chats) /\ Len(entries) <= Len(entries')
      /\ \A n \in 1..Len(entries) : entries'[n] = entries[n]
  <2>1. CASE entries' = entries
    BY <2>1 DEF Tables
  <2>2. CASE \E c \in Chats : entries' = Append(entries, c)
    BY <2>2, EntriesGrow
  <2> QED
    BY <2>1, <2>2
<1>2. ledger' \in Ledgers /\ \A i \in CallIds : Reconciled(ledger, ledger', i)
  BY DEF Books, Reconciled
<1> QED
  BY <1>1, <1>2, NoneMoves

\* A reconciled call stays unsettled, and keeps what it has drawn.
LEMMA ReleaseMoves ==
  ASSUME Tables, Books, Attempts, NEW i \in CallIds, Release(i)
  PROVE  Attempts'
<1>1. /\ ledger[i].status = "open" /\ ledger' = [ledger EXCEPT ![i].status = "released"]
      /\ UNCHANGED <<turn, lock, answered, recs, entries>>
  BY DEF Release
<1>2. ledger \in Ledgers
  BY DEF Books
<1>3. ledger' \in Ledgers
  BY <1>1, <1>2 DEF Ledgers
<1>4. \A j \in CallIds : Reconciled(ledger, ledger', j)
  BY <1>1, <1>2 DEF Ledgers, Reconciled
<1>5. /\ entries' \in Seq(Chats) /\ Len(entries) <= Len(entries')
      /\ \A n \in 1..Len(entries) : entries'[n] = entries[n]
  BY <1>1 DEF Tables
<1>6. recs.cost \subseteq recs.cost'
  BY <1>1
<1> QED
  BY <1>1, <1>3, <1>4, <1>5, <1>6, NoneMoves, Zenon

\* A crash ends every attempt.
LEMMA CreditCrash ==
  ASSUME Tables, Attempts, turn' = [c \in Chats |-> CreditIdle], lock' = NoChat
  PROVE  Attempts'
<1>1. \A c \in Chats : turn'[c] = CreditIdle
  OBVIOUS
<1>2. turn' \in [Chats -> Turns]
  BY IdleLive
<1>3. \A c \in Chats : turn'[c].at \in Inside <=> lock' = c
  BY <1>1, IdleLive, CreditsAssumption DEF Inside
<1>4. \A c \in Chats : Live(c, turn'[c], answered'[c], ledger', recs.cost', entries')
  BY <1>1, IdleLive
<1> QED
  BY <1>2, <1>3, <1>4 DEF Attempts

\* The continuation is recorded and the attempt forgotten.
LEMMA ContinuationMoves ==
  ASSUME Tables, Books, Attempts, NEW c \in Chats, RecordContinuation(c)
  PROVE  Attempts'
<1>1. /\ turn[c].at \in Over /\ turn' = [turn EXCEPT ![c] = CreditIdle]
      /\ UNCHANGED <<lock, ledger, recs, entries, answered>>
  BY DEF RecordContinuation, Over
<1>2. turn[c].at \notin Inside
  BY <1>1 DEF Over, Inside
<1>3. lock' \in Chats \union {NoChat} /\ (CreditIdle.at \in Inside <=> lock' = c)
  BY <1>1, <1>2, IdleLive DEF Attempts, Inside
<1>4. CreditIdle \in Turns /\ Live(c, CreditIdle, answered'[c], ledger', recs.cost', entries')
  BY IdleLive
<1>5. ledger' \in Ledgers
  BY <1>1 DEF Books
<1>6. /\ entries' \in Seq(Chats) /\ Len(entries) <= Len(entries')
      /\ \A n \in 1..Len(entries) : entries'[n] = entries[n]
  BY <1>1 DEF Tables
<1> QED
  BY <1>1, <1>3, <1>4, <1>5, <1>6, OneAttemptMoves

\* A reserved call is none of the attempt's others, and has drawn nothing.
LEMMA ReserveMoves ==
  ASSUME Tables, Books, Attempts, NEW c \in Chats, ReserveCall(c)
  PROVE  Attempts'
<1>1. /\ turn[c].at = "run" /\ answered[c] < Calls /\ Free(c)
      /\ ledger[Prepared(c)].status = "none" /\ Reserved(Prepared(c), plan.ref)
      /\ Goes(c, "reserved", TRUE) /\ UNCHANGED <<recs, entries, answered>>
  BY DEF ReserveCall, Admissible
<1>2. PICK t : t = turn[c]
  OBVIOUS
<1>3. PICK u : u = [t EXCEPT !.at = "reserved"]
  OBVIOUS
<1>4. PICK a : a = answered[c]
  OBVIOUS
<1>5. PICK i : i = Prepared(c)
  OBVIOUS
<1>6. /\ t \in Turns /\ t.at = "run" /\ OwnCalls(c, t, entries) /\ InOrder(t, a)
      /\ Metered(t, a, ledger) /\ a < Calls /\ i \in CallIds /\ i = <<t.entry, a + 1>>
      /\ \A n \in 1..Len(t.held) : t.held[n] \in CallIds
  BY <1>1, <1>2, <1>4, <1>5, AttemptFacts DEF Prepared
<1>7. u.at = "reserved" /\ u.entry = t.entry /\ u.held = t.held
  <2>1. "reserved" \in Stages
    BY DEF Stages
  <2> QED
    BY <1>3, <1>6, <2>1, StageFields
<1>8. ledger \in Ledgers /\ plan.ref \in 0..MaxPlans
  BY CreditsAssumption DEF Books, Tables
<1>9. ledger' = [ledger EXCEPT ![i] = [status |-> "open", ref |-> plan.ref, drawn |-> 0]]
  BY <1>1, <1>5 DEF Reserved
<1>10. ledger' \in Ledgers /\ \A j \in CallIds \ {i} : ledger'[j] = ledger[j]
  BY <1>8, <1>9 DEF Ledgers
<1>11. ledger'[i].status = "open" /\ ledger'[i].drawn = 0
  BY <1>6, <1>8, <1>9 DEF Ledgers
<1>12. ASSUME NEW n \in 1..Len(t.held) PROVE Unsettled(ledger', t.held[n])
  <2>1. Unsettled(ledger, t.held[n]) /\ t.held[n] \in CallIds
    BY <1>6 DEF Metered
  <2>2. t.held[n] # i
    BY <1>1, <1>5, <2>1 DEF Unsettled
  <2> QED
    BY <1>10, <2>1, <2>2 DEF Unsettled
<1>13. Metered(u, a, ledger')
  BY <1>6, <1>7, <1>11, <1>12 DEF Metered, Unsettled
<1>14. Live(c, u, a, ledger', recs.cost', entries)
  BY <1>6, <1>7, <1>13 DEF Live, OwnCalls, InOrder, SettlesInTurn, Settling
<1>15. \A j \in CallIds : j[1] # turn[c].entry => ledger'[j] = ledger[j]
  <2>1. i[1] = t.entry
    BY <1>6
  <2> QED
    BY <1>2, <1>10, <2>1
<1>16. "reserved" \in Stages /\ "reserved" \in Inside
  BY DEF Stages, Inside
<1>17. /\ Live(c, [turn[c] EXCEPT !.at = "reserved"], answered'[c], ledger', recs.cost', entries)
       /\ \A d \in Chats \ {c} : answered'[d] = answered[d]
       /\ recs.cost \subseteq recs.cost'
       /\ ledger' = ledger \/ turn[c].at # "idle"
  BY <1>1, <1>2, <1>3, <1>4, <1>14
<1> QED
  BY <1>1, <1>10, <1>15, <1>16, <1>17, StageMoves

\* The call recorded joins the ones held, the largest ordinal so far.
LEMMA ReservationMoves ==
  ASSUME Tables, Books, Attempts, NEW c \in Chats, RecordReservation(c)
  PROVE  Attempts'
<1>1. PICK t : t = turn[c]
  OBVIOUS
<1>2. PICK a : a = answered[c]
  OBVIOUS
<1>3. PICK i : i = Prepared(c)
  OBVIOUS
<1>4. PICK u : u = [t EXCEPT !.at = "send", !.held = Append(t.held, i)]
  OBVIOUS
<1>5. /\ t.at = "reserved" /\ turn' = [turn EXCEPT ![c] = u] /\ lock' = NoChat
      /\ recs' = [recs EXCEPT !.reserve = recs.reserve \union {i}]
      /\ UNCHANGED <<ledger, entries, answered>>
  BY <1>1, <1>3, <1>4 DEF RecordReservation
<1>6. /\ t \in Turns /\ OwnCalls(c, t, entries) /\ InOrder(t, a) /\ Metered(t, a, ledger)
      /\ a \in 0..Calls
      /\ \A n \in 1..Len(t.held) : t.held[n] \in CallIds
  BY <1>1, <1>2, AttemptFacts
<1>7. a < Calls
  BY <1>5, <1>6 DEF InOrder
<1>8. i \in CallIds /\ i = <<t.entry, a + 1>>
  BY <1>1, <1>2, <1>3, <1>5, <1>7, AttemptFacts DEF Prepared
<1>9. PICK h : h = Append(t.held, i)
  OBVIOUS
<1>10. /\ t.held \in Seq(CallIds) /\ Len(t.held) \in Nat
       /\ h \in Seq(CallIds) /\ Len(h) = Len(t.held) + 1 /\ h[Len(t.held) + 1] = i
       /\ \A n \in 1..Len(t.held) : h[n] = t.held[n]
  BY <1>6, <1>8, <1>9, TurnFields
<1>11. /\ u \in Turns /\ u.at = "send" /\ u.entry = t.entry /\ u.held = h
  BY <1>4, <1>6, <1>9, <1>10 DEF Turns, Stages
<1>12. \A n \in 1..Len(h) : n = Len(t.held) + 1 \/ n \in 1..Len(t.held)
  BY <1>10
<1>13. OwnCalls(c, u, entries)
  <2>1. u.at # "idle" => u.entry \in 1..Len(entries) /\ entries[u.entry] = c
    BY <1>5, <1>6, <1>11 DEF OwnCalls
  <2>2. \A n \in 1..Len(h) : h[n][1] = t.entry
    <3>1. \A n \in 1..Len(t.held) : t.held[n][1] = t.entry
      BY <1>6, Zenon DEF OwnCalls
    <3>2. i[1] = t.entry
      BY <1>8
    <3> QED
      BY <1>10, <1>12, <3>1, <3>2, Zenon
  <2>3. \A n \in 1..Len(t.held) : t.held[n] # i
    <3> SUFFICES ASSUME NEW n \in 1..Len(t.held), t.held[n] = i PROVE FALSE
      OBVIOUS
    <3>1. t.held[n][2] <= a /\ t.held[n][2] = a + 1
      BY <1>5, <1>6, <1>8 DEF InOrder
    <3> QED
      BY <1>6, <3>1
  <2>4. \A m, n \in 1..Len(t.held) : t.held[m] = t.held[n] => m = n
    BY <1>6 DEF OwnCalls
  <2>5. \A m, n \in 1..Len(h) : h[m] = h[n] => m = n
    BY <1>10, <1>12, <2>3, <2>4
  <2> QED
    BY <1>11, <2>1, <2>2, <2>5 DEF OwnCalls
<1>14. InOrder(u, a)
  <2>1. \A n \in 1..Len(t.held) : t.held[n][2] <= a /\ t.held[n][2] \in Nat
    BY <1>5, <1>6, CreditsAssumption DEF InOrder, CallIds
  <2>2. i[2] = a + 1
    BY <1>8
  <2>3. \A n \in 1..Len(t.held) : t.held[n][2] <= a + 1
    <3>1. \A x \in Nat : x <= a => x <= a + 1
      BY <1>6, CreditsAssumption
    <3> QED
      BY <2>1, <3>1
  <2>4. i[2] <= a + 1
    BY <1>6, <2>2, CreditsAssumption
  <2>5. \A n \in 1..Len(h) : h[n][2] <= a + 1
    BY <1>10, <1>12, <2>3, <2>4, Zenon
  <2> QED
    BY <1>7, <1>11, <2>5 DEF InOrder
<1>15. Metered(u, a, ledger)
  <2>1. Unsettled(ledger, i) /\ \A n \in 1..Len(t.held) : Unsettled(ledger, t.held[n])
    BY <1>5, <1>6, <1>8 DEF Metered
  <2>2. \A n \in 1..Len(h) : Unsettled(ledger, h[n])
    BY <1>10, <1>12, <2>1
  <2>3. ledger[i].status # "none"
    BY <2>1 DEF Unsettled
  <2> QED
    BY <1>8, <1>11, <2>2, <2>3 DEF Metered
<1>16. recs.cost' = recs.cost
  BY <1>5 DEF Tables
<1>17. Live(c, u, answered'[c], ledger', recs.cost', entries')
  BY <1>2, <1>5, <1>11, <1>13, <1>14, <1>15 DEF Live, SettlesInTurn, Settling
<1>18. lock = c
  BY <1>1, <1>5 DEF Attempts, Inside
<1>19. /\ lock' \in Chats \union {NoChat} /\ (u.at \in Inside <=> lock' = c)
       /\ \A d \in Chats \ {c} : lock' = d <=> lock = d
  BY <1>5, <1>11, <1>18, CreditsAssumption DEF Inside
<1>20. ledger' \in Ledgers
  BY <1>5 DEF Books
<1>21. /\ entries' \in Seq(Chats) /\ Len(entries) <= Len(entries')
       /\ \A n \in 1..Len(entries) : entries'[n] = entries[n]
  BY <1>5 DEF Tables
<1> QED
  BY <1>5, <1>11, <1>16, <1>17, <1>19, <1>20, <1>21, OneAttemptMoves

\* The last answer leaves every call of the attempt held.
LEMMA EndedMoves ==
  ASSUME Tables, Books, Attempts, NEW c \in Chats, Ended(c)
  PROVE  Attempts'
<1>1. turn[c].at = "run" /\ UNCHANGED <<ledger, recs, entries, answered>>
  BY DEF Ended, RunEnds
<1>2. CASE Goes(c, "completed", FALSE)
  <2>1. "completed" \in Over
    BY DEF Over
  <2> QED
    BY <1>1, <1>2, <2>1, OverMoves
<1>3. ASSUME NEW cost \in Costs, UNCHANGED lock,
             turn' = [turn EXCEPT ![c].at = "usage", ![c].cost = cost]
      PROVE  Attempts'
  <2>1. PICK t : t = turn[c]
    OBVIOUS
  <2>2. PICK u : u = [t EXCEPT !.at = "usage", !.cost = cost]
    OBVIOUS
  <2>3. turn' = [turn EXCEPT ![c] = u]
    BY <1>3, <2>1, <2>2
  <2>4. t \in Turns /\ t.at = "run" /\ OwnCalls(c, t, entries) /\ Metered(t, answered[c], ledger)
    BY <1>1, <2>1, AttemptFacts
  <2>5. u \in Turns /\ u.at = "usage" /\ u.entry = t.entry /\ u.held = t.held
    BY <2>2, <2>4, CreditsAssumption DEF Turns, Stages
  <2>6. Live(c, u, answered[c], ledger, recs.cost, entries)
    BY <2>4, <2>5 DEF Live, OwnCalls, InOrder, Metered, SettlesInTurn, Settling
  <2>7. lock' \in Chats \union {NoChat} /\ (u.at \in Inside <=> lock' = c)
    BY <1>1, <1>3, <2>5 DEF Attempts, Inside
  <2>8. ledger' \in Ledgers
    BY <1>1 DEF Books
  <2>9. /\ entries' \in Seq(Chats) /\ Len(entries) <= Len(entries')
        /\ \A n \in 1..Len(entries) : entries'[n] = entries[n]
    BY <1>1 DEF Tables
  <2> QED
    BY <1>1, <1>3, <2>3, <2>5, <2>6, <2>7, <2>8, <2>9, OneAttemptMoves
<1> QED
  BY <1>2, <1>3 DEF Ended

\* The calls an attempt holds are calls.
LEMMA HeldCalls ==
  ASSUME NEW t \in Turns
  PROVE  Held(t) \in SUBSET CallIds
<1>1. t.held \in Seq(CallIds)
  BY DEF Turns
<1> QED
  BY <1>1 DEF Held

\* A settlement starts with nothing drawn.
LEMMA UsageMoves ==
  ASSUME Tables, Books, Attempts, NEW c \in Chats, AppendUsage(c)
  PROVE  Attempts'
<1>1. PICK t : t = turn[c]
  OBVIOUS
<1>2. PICK u : u = [t EXCEPT !.at = "settle", !.next = 1]
  OBVIOUS
<1>3. /\ t.at = "usage" /\ t.held # <<>> /\ Free(c)
      /\ turn' = [turn EXCEPT ![c] = u] /\ lock' = c
      /\ UNCHANGED <<ledger, recs, entries, answered>>
  BY <1>1, <1>2 DEF AppendUsage, durable
<1>4. /\ t \in Turns /\ OwnCalls(c, t, entries) /\ Metered(t, answered[c], ledger)
  BY <1>1, AttemptFacts
<1>5. /\ u \in Turns /\ u.at = "settle" /\ u.entry = t.entry /\ u.held = t.held
      /\ u.next = 1 /\ u.cost = t.cost
  BY <1>2, <1>4 DEF Turns, Stages
<1>6. t.held \in Seq(CallIds) /\ Len(t.held) \in Nat /\ t.cost \in Nat
  BY <1>4, TurnFields
<1>7. Len(t.held) # 0
  BY <1>3, <1>6
<1>8. u.next \in 1..Len(u.held) /\ Done(u) = 0
  BY <1>5, <1>6, <1>7 DEF Done
<1>9. \A n \in 1..Len(u.held) : Unsettled(ledger, u.held[n])
  BY <1>3, <1>4, <1>5 DEF Metered
<1>10. Due(u, 0) = 0
  <2>1. 0 # Len(u.held)
    BY <1>5, <1>6, <1>7
  <2>2. 0 * Hold = 0
    BY CreditsAssumption
  <2> QED
    BY <1>5, <1>6, <2>1, <2>2 DEF Due, Least
<1>11. DrawnOf(ledger, Held(u)) = 0
  <2>1. PICK S : S = Held(u)
    OBVIOUS
  <2>2. PICK w : w = [j \in CallIds |-> ledger[j].drawn]
    OBVIOUS
  <2>3. S \in SUBSET CallIds /\ IsFiniteSet(S)
    BY <1>5, <2>1, HeldCalls, FiniteCalls, FS_Subset
  <2>4. \A x \in S : w[x] = 0
    BY <1>9, <2>1, <2>2, <2>3 DEF Held, Unsettled
  <2>5. SumFunctionOnSet(w, S) = 0
    BY <2>3, <2>4, SumZero
  <2> QED
    BY <2>1, <2>2, <2>5 DEF DrawnOf
<1>12. \A n \in 1..Len(u.held) : ~(n <= Done(u))
  BY <1>5, <1>6, <1>8
<1>13. SettlesInTurn(u, ledger, recs.cost)
  <2>1. u.at # "settlement"
    BY <1>5
  <2> QED
    BY <1>8, <1>9, <1>10, <1>11, <1>12, <2>1, Zenon DEF SettlesInTurn
<1>14. Live(c, u, answered[c], ledger, recs.cost, entries)
  BY <1>3, <1>4, <1>5, <1>13 DEF Live, OwnCalls, InOrder, Metered
<1>15. /\ lock' \in Chats \union {NoChat} /\ (u.at \in Inside <=> lock' = c)
       /\ \A d \in Chats \ {c} : lock' = d <=> lock = d
  BY <1>3, <1>5, CreditsAssumption DEF Inside, Free
<1>16. ledger' \in Ledgers
  BY <1>3 DEF Books
<1>17. /\ entries' \in Seq(Chats) /\ Len(entries) <= Len(entries')
       /\ \A n \in 1..Len(entries) : entries'[n] = entries[n]
  BY <1>3 DEF Tables
<1> QED
  BY <1>3, <1>5, <1>14, <1>15, <1>16, <1>17, OneAttemptMoves

\* `allocate` draws what is due, call by call.
LEMMA Allocation ==
  ASSUME NEW t \in Turns, NEW n \in 1..Len(t.held),
         NEW p, p = IF n = Len(t.held) THEN SaturatingSub(t.cost, (n - 1) * Hold)
                    ELSE Least(Hold, SaturatingSub(t.cost, (n - 1) * Hold))
  PROVE  p \in Nat /\ Due(t, n - 1) + p = Due(t, n)
<1>1. t.cost \in Nat /\ Hold \in Nat /\ Len(t.held) \in Nat
  BY TurnFields, CreditsAssumption
<1>2. \A k, h \in Nat : k * h \in Nat /\ (k + 1) * h = k * h + h
  OBVIOUS
<1>3. PICK k : k = n - 1
  OBVIOUS
<1>4. k \in Nat /\ n = k + 1 /\ k # Len(t.held)
  BY <1>1, <1>3
<1>5. PICK q : q = k * Hold
  OBVIOUS
<1>6. q \in Nat /\ n * Hold = q + Hold
  BY <1>1, <1>2, <1>4, <1>5
<1>7. \A x, y, h \in Nat :
        /\ SaturatingSub(x, y) \in Nat /\ Least(h, SaturatingSub(x, y)) \in Nat
        /\ Least(x, y) + SaturatingSub(x, y) = x
        /\ Least(x, y) + Least(h, SaturatingSub(x, y)) = Least(x, y + h)
  BY DEF SaturatingSub, Least
<1>8. Due(t, n - 1) = Least(t.cost, q)
  BY <1>3, <1>4, <1>5, Zenon DEF Due
<1>9. p = IF n = Len(t.held) THEN SaturatingSub(t.cost, q)
          ELSE Least(Hold, SaturatingSub(t.cost, q))
  BY <1>3, <1>5, Zenon
<1>10. Due(t, n) = IF n = Len(t.held) THEN t.cost ELSE Least(t.cost, q + Hold)
  BY <1>6, Zenon DEF Due
<1>11. CASE n = Len(t.held)
  <2>1. p = SaturatingSub(t.cost, q) /\ Due(t, n) = t.cost
    BY <1>9, <1>10, <1>11
  <2>2. /\ SaturatingSub(t.cost, q) \in Nat
        /\ Least(t.cost, q) + SaturatingSub(t.cost, q) = t.cost
    BY <1>1, <1>6, <1>7, Zenon
  <2> QED
    BY <1>8, <2>1, <2>2, Zenon
<1>12. CASE n # Len(t.held)
  <2>1. p = Least(Hold, SaturatingSub(t.cost, q)) /\ Due(t, n) = Least(t.cost, q + Hold)
    BY <1>9, <1>10, <1>12
  <2>2. /\ Least(Hold, SaturatingSub(t.cost, q)) \in Nat
        /\ Least(t.cost, q) + Least(Hold, SaturatingSub(t.cost, q)) = Least(t.cost, q + Hold)
    <3>1. PICK x \in Nat : x = t.cost
      BY <1>1
    <3>2. PICK h \in Nat : h = Hold
      BY <1>1
    <3>3. /\ Least(h, SaturatingSub(x, q)) \in Nat
          /\ Least(x, q) + Least(h, SaturatingSub(x, q)) = Least(x, q + h)
      BY <1>6 DEF Least, SaturatingSub
    <3> QED
      BY <3>1, <3>2, <3>3, Zenon
  <2> QED
    BY <1>8, <2>1, <2>2, Zenon
<1> QED
  BY <1>11, <1>12

\* An attempt settles its n-th call i for p, what is due of it.
SettlesOne(c, t, n, i, p) ==
  /\ t = turn[c] /\ t.at = "settle" /\ n = t.next /\ n \in 1..Len(t.held)
  /\ i = t.held[n] /\ i[1] = t.entry
  /\ ledger[i].status = "open" /\ ledger[i].drawn = 0
  /\ Due(t, n - 1) + p = Due(t, n)
  /\ ledger' \in Ledgers
  /\ ledger'[i].status = "settled" /\ ledger'[i].drawn = p
  /\ \A j \in CallIds \ {i} : ledger'[j] = ledger[j]
  /\ Goes(c, "cost", TRUE)
  /\ UNCHANGED <<granted, recs, entries, answered, sent>>

\* The call being settled, and the ledger after it.
LEMMA SettleFacts ==
  ASSUME Tables, Books, Attempts, NEW c \in Chats, SettleLedger(c)
  PROVE  \E t \in Turns, n \in Nat, i \in CallIds, p \in Nat : SettlesOne(c, t, n, i, p)
<1>1. PICK t : t = turn[c]
  OBVIOUS
<1>2. PICK n : n = t.next
  OBVIOUS
<1>3. /\ t \in Turns /\ t.at = "settle"
      /\ OwnCalls(c, t, entries) /\ SettlesInTurn(t, ledger, recs.cost)
      /\ \A m \in 1..Len(t.held) : t.held[m] \in CallIds
  BY <1>1, AttemptFacts DEF SettleLedger
<1>4. n \in 1..Len(t.held)
  BY <1>2, <1>3 DEF SettlesInTurn, Settling
<1>5. PICK i : i = t.held[n]
  OBVIOUS
<1>6. i \in CallIds /\ i[1] = t.entry
  BY <1>3, <1>4, <1>5 DEF OwnCalls
<1>7. PICK p : p = Allocated(c, n)
  OBVIOUS
<1>8. /\ ledger[i].status = "open" /\ Settled(i, p) /\ Goes(c, "cost", TRUE)
      /\ UNCHANGED <<granted, recs, entries, answered, sent>>
  BY <1>1, <1>2, <1>5, <1>7 DEF SettleLedger
<1>9. p \in Nat /\ Due(t, n - 1) + p = Due(t, n)
  <2>1. p = IF n = Len(t.held) THEN SaturatingSub(t.cost, (n - 1) * Hold)
            ELSE Least(Hold, SaturatingSub(t.cost, (n - 1) * Hold))
    BY <1>1, <1>7 DEF Allocated
  <2> QED
    BY <1>3, <1>4, <2>1, Allocation
<1>10. ledger \in Ledgers /\ ledger[i].drawn = 0
  BY <1>6, <1>8 DEF Books
<1>11. ledger' = [ledger EXCEPT ![i] = [ledger[i] EXCEPT !.status = "settled", !.drawn = p]]
  BY <1>8 DEF Settled
<1>12. /\ ledger' \in Ledgers /\ ledger'[i].status = "settled" /\ ledger'[i].drawn = p
       /\ \A j \in CallIds \ {i} : ledger'[j] = ledger[j]
  BY <1>6, <1>9, <1>10, <1>11 DEF Ledgers
<1>13. n \in Nat
  BY <1>3, <1>4, TurnFields
<1>14. t.at = "settle"
  BY <1>1 DEF SettleLedger
<1>15. t \in Turns /\ n \in Nat /\ i \in CallIds /\ p \in Nat
  BY <1>3, <1>6, <1>9, <1>13, Zenon
<1>16. SettlesOne(c, t, n, i, p)
  <2>1. t = turn[c] /\ t.at = "settle" /\ n = t.next /\ n \in 1..Len(t.held)
    BY <1>1, <1>2, <1>4, <1>14, Zenon
  <2>2. i = t.held[n] /\ i[1] = t.entry
    BY <1>5, <1>6, Zenon
  <2>3. ledger[i].status = "open" /\ ledger[i].drawn = 0 /\ Due(t, n - 1) + p = Due(t, n)
    BY <1>8, <1>9, <1>10, Zenon
  <2>4. Goes(c, "cost", TRUE) /\ UNCHANGED <<granted, recs, entries, answered, sent>>
    BY <1>8, Zenon
  <2> QED
    BY <1>12, <2>1, <2>2, <2>3, <2>4, Zenon DEF SettlesOne
<1> QED
  BY <1>15, <1>16, Zenon

\* A settlement writes one open call of the ledger.
LEMMA SettleWrites ==
  ASSUME Tables, Books, Attempts, NEW c \in Chats, SettleLedger(c)
  PROVE  \E i \in CallIds, p \in Nat :
           /\ ledger[i].status = "open" /\ ledger[i].drawn = 0
           /\ ledger' \in Ledgers
           /\ ledger'[i].status = "settled" /\ ledger'[i].drawn = p
           /\ \A j \in CallIds \ {i} : ledger'[j] = ledger[j]
           /\ UNCHANGED granted
<1>0. PICK t \in Turns, n \in Nat, i \in CallIds, p \in Nat : SettlesOne(c, t, n, i, p)
  BY SettleFacts
<1>1. /\ t = turn[c] /\ t.at = "settle" /\ n = t.next /\ n \in 1..Len(t.held)
      /\ i = t.held[n] /\ i[1] = t.entry
      /\ ledger[i].status = "open" /\ ledger[i].drawn = 0
      /\ Due(t, n - 1) + p = Due(t, n)
      /\ ledger' \in Ledgers
      /\ ledger'[i].status = "settled" /\ ledger'[i].drawn = p
      /\ \A j \in CallIds \ {i} : ledger'[j] = ledger[j]
      /\ Goes(c, "cost", TRUE)
      /\ UNCHANGED <<granted, recs, entries, answered, sent>>
  BY <1>0, Zenon DEF SettlesOne
<1> QED
  BY <1>1, Zenon

\* A settlement draws what is due and leaves the calls after it alone.
LEMMA SettleMoves ==
  ASSUME Tables, Books, Attempts, NEW c \in Chats, SettleLedger(c)
  PROVE  Attempts'
<1>0. PICK t \in Turns, n \in Nat, i \in CallIds, p \in Nat : SettlesOne(c, t, n, i, p)
  BY SettleFacts
<1>1. /\ t = turn[c] /\ t.at = "settle" /\ n = t.next /\ n \in 1..Len(t.held)
      /\ i = t.held[n] /\ i[1] = t.entry
      /\ ledger[i].status = "open" /\ ledger[i].drawn = 0
      /\ Due(t, n - 1) + p = Due(t, n)
      /\ ledger' \in Ledgers
      /\ ledger'[i].status = "settled" /\ ledger'[i].drawn = p
      /\ \A j \in CallIds \ {i} : ledger'[j] = ledger[j]
      /\ Goes(c, "cost", TRUE)
      /\ UNCHANGED <<granted, recs, entries, answered, sent>>
  BY <1>0, Zenon DEF SettlesOne
<1>2. /\ OwnCalls(c, t, entries) /\ SettlesInTurn(t, ledger, recs.cost)
      /\ \A m \in 1..Len(t.held) : t.held[m] \in CallIds
      /\ lock = c
  BY <1>1, AttemptFacts DEF Inside
<1>3. PICK u : u = [t EXCEPT !.at = "cost"]
  OBVIOUS
<1>4. "cost" \in Stages /\ "cost" \in Inside
  BY DEF Stages, Inside
<1>5. /\ u \in Turns /\ u.at = "cost" /\ u.entry = t.entry /\ u.held = t.held
      /\ u.next = n /\ u.cost = t.cost
  BY <1>1, <1>3, <1>4, StageFields
<1>6. Done(t) = n - 1 /\ Done(u) = n
  BY <1>1, <1>5 DEF Done
<1>7. /\ \A m \in 1..Len(t.held) :
           IF m <= n - 1 THEN ledger[t.held[m]].status = "settled"
           ELSE Unsettled(ledger, t.held[m])
      /\ DrawnOf(ledger, Held(t)) = Due(t, n - 1)
  BY <1>1, <1>2, <1>6 DEF SettlesInTurn, Settling
<1>8. ASSUME NEW m \in 1..Len(u.held)
      PROVE  IF m <= Done(u) THEN ledger'[u.held[m]].status = "settled"
             ELSE Unsettled(ledger', u.held[m])
  <2>1. Len(t.held) \in Nat /\ m \in Nat /\ m \in 1..Len(t.held)
    BY <1>5, TurnFields
  <2>2. CASE m = n
    BY <1>1, <1>5, <1>6, <2>1, <2>2
  <2>3. CASE m # n
    <3>1. t.held[m] # i /\ t.held[m] \in CallIds
      BY <1>1, <1>2, <2>1, <2>3 DEF OwnCalls
    <3>2. ledger'[t.held[m]] = ledger[t.held[m]]
      BY <1>1, <3>1
    <3>3. m <= n <=> m <= n - 1
      BY <1>1, <2>1, <2>3
    <3> QED
      BY <1>5, <1>6, <1>7, <2>1, <3>2, <3>3 DEF Unsettled
  <2> QED
    BY <2>2, <2>3
<1>9. DrawnOf(ledger', Held(u)) = Due(u, n)
  <2>1. PICK S : S = Held(t)
    OBVIOUS
  <2>2. Held(u) = S /\ Due(u, n) = Due(t, n)
    BY <1>5, <2>1, Zenon DEF Held, Due
  <2>3. PICK v, w : v = [j \in CallIds |-> ledger'[j].drawn] /\ w = [j \in CallIds |-> ledger[j].drawn]
    OBVIOUS
  <2>4. ledger \in Ledgers
    BY DEF Books
  <2>5. S \in SUBSET CallIds /\ IsFiniteSet(S) /\ \A x \in S : w[x] \in Nat
    BY <2>1, <2>3, <2>4, HeldCalls, DrawnFacts
  <2>6. i \in S
    BY <1>1, <2>1 DEF Held
  <2>7. v[i] = p /\ w[i] = 0 /\ \A x \in S \ {i} : v[x] = w[x]
    BY <1>1, <2>3, <2>5
  <2>8. SumFunctionOnSet(v, S) + w[i] = SumFunctionOnSet(w, S) + v[i]
    <3>1. v[i] \in Nat
      BY <2>7
    <3> QED
      BY <2>5, <2>6, <2>7, <3>1, SumMoves
  <2>9. v[i] \in Nat /\ \A x \in S : v[x] \in Nat
    BY <2>5, <2>7
  <2>10. SumFunctionOnSet(v, S) \in Nat /\ SumFunctionOnSet(w, S) \in Nat
    BY <2>5, <2>9, SumFacts
  <2>11. SumFunctionOnSet(v, S) = SumFunctionOnSet(w, S) + p
    BY <2>7, <2>8, <2>10
  <2>12. SumFunctionOnSet(w, S) = Due(t, n - 1)
    BY <1>7, <2>1, <2>3 DEF DrawnOf
  <2>13. DrawnOf(ledger', S) = SumFunctionOnSet(v, S)
    BY <2>3 DEF DrawnOf
  <2> QED
    BY <1>1, <2>2, <2>11, <2>12, <2>13
<1>10. SettlesInTurn(u, ledger', recs.cost)
  <2>1. u.at # "settlement" /\ u.next \in 1..Len(u.held)
    BY <1>1, <1>5
  <2> QED
    BY <1>6, <1>8, <1>9, <2>1, Zenon DEF SettlesInTurn
<1>11. Live(c, u, answered'[c], ledger', recs.cost', entries)
  <2>1. u.at = "cost" /\ u.entry = t.entry /\ u.held = t.held /\ t.at # "idle"
    BY <1>1, <1>5
  <2>2. OwnCalls(c, u, entries)
    BY <1>2, <2>1, Zenon DEF OwnCalls
  <2>3. InOrder(u, answered'[c])
    BY <2>1 DEF InOrder
  <2>4. Metered(u, answered'[c], ledger')
    BY <2>1 DEF Metered
  <2>5. recs.cost' = recs.cost
    BY <1>1
  <2> QED
    BY <1>10, <2>2, <2>3, <2>4, <2>5, Zenon DEF Live
<1>12. Free(c)
  BY <1>2 DEF Free
<1>13. \A j \in CallIds : j[1] # turn[c].entry => ledger'[j] = ledger[j]
  BY <1>1
<1> QED
  BY <1>1, <1>3, <1>4, <1>11, <1>12, <1>13, StageMoves

\* The cost record is written for the call just settled.
LEMMA CostMoves ==
  ASSUME Tables, Books, Attempts, NEW c \in Chats, RecordCost(c)
  PROVE  Attempts'
<1>1. PICK t : t = turn[c]
  OBVIOUS
<1>2. PICK u : u = [t EXCEPT !.at = "settlement"]
  OBVIOUS
<1>3. /\ t.at = "cost" /\ Goes(c, "settlement", TRUE)
      /\ recs' = [recs EXCEPT !.cost = recs.cost \union {t.held[t.next]}]
      /\ UNCHANGED <<ledger, entries, answered>>
  BY <1>1 DEF RecordCost
<1>4. /\ t \in Turns /\ OwnCalls(c, t, entries) /\ SettlesInTurn(t, ledger, recs.cost)
      /\ lock = c
  BY <1>1, <1>3, AttemptFacts DEF Inside
<1>5. "settlement" \in Stages /\ "settlement" \in Inside
  BY DEF Stages, Inside
<1>6. /\ u.at = "settlement" /\ u.entry = t.entry /\ u.held = t.held
      /\ u.next = t.next /\ u.cost = t.cost
  BY <1>2, <1>4, <1>5, StageFields
<1>7. recs.cost' = recs.cost \union {t.held[t.next]}
  BY <1>3 DEF Tables
<1>8. /\ Done(u) = Done(t) /\ Held(u) = Held(t) /\ Due(u, Done(t)) = Due(t, Done(t))
  BY <1>3, <1>6 DEF Done, Held, Due
<1>9. SettlesInTurn(u, ledger, recs.cost')
  <2>1. /\ t.next \in 1..Len(t.held)
        /\ \A n \in 1..Len(t.held) :
             IF n <= Done(t) THEN ledger[t.held[n]].status = "settled"
             ELSE Unsettled(ledger, t.held[n])
        /\ DrawnOf(ledger, Held(t)) = Due(t, Done(t))
    BY <1>3, <1>4 DEF SettlesInTurn, Settling
  <2>2. u.held[u.next] \in recs.cost'
    BY <1>6, <1>7
  <2> QED
    BY <1>6, <1>8, <2>1, <2>2 DEF SettlesInTurn
<1>10. Live(c, u, answered'[c], ledger', recs.cost', entries)
  BY <1>3, <1>4, <1>6, <1>9 DEF Live, OwnCalls, InOrder, Metered
<1>11. Free(c) /\ ledger' \in Ledgers /\ recs.cost \subseteq recs.cost'
  BY <1>3, <1>4, <1>7 DEF Free, Books
<1> QED
  BY <1>1, <1>2, <1>3, <1>5, <1>10, <1>11, StageMoves

\* The settlement goes on to the next call, or is complete.
LEMMA SettlementMoves ==
  ASSUME Tables, Books, Attempts, NEW c \in Chats, RecordSettlement(c)
  PROVE  Attempts'
<1>1. PICK t : t = turn[c]
  OBVIOUS
<1>2. PICK to : to = IF t.next = Len(t.held) THEN "completed" ELSE "settle"
  OBVIOUS
<1>3. PICK u : u = [t EXCEPT !.at = to, !.next = t.next + 1]
  OBVIOUS
<1>4. /\ t.at = "settlement" /\ turn' = [turn EXCEPT ![c] = u]
      /\ lock' = IF t.next = Len(t.held) THEN NoChat ELSE c
      /\ recs' = [recs EXCEPT !.settle = recs.settle \union {t.held[t.next]}]
      /\ UNCHANGED <<ledger, entries, answered>>
  BY <1>1, <1>2, <1>3 DEF RecordSettlement
<1>5. /\ t \in Turns /\ OwnCalls(c, t, entries) /\ SettlesInTurn(t, ledger, recs.cost)
      /\ lock = c
  BY <1>1, <1>4, AttemptFacts DEF Inside
<1>6. t.next \in Nat /\ Len(t.held) \in Nat /\ to \in Stages
  BY <1>2, <1>5, TurnFields DEF Stages
<1>7. /\ u \in Turns /\ u.at = to /\ u.entry = t.entry /\ u.held = t.held
      /\ u.next = t.next + 1 /\ u.cost = t.cost
  <2>1. PICK m \in Nat : m = t.next + 1
    BY <1>6
  <2>2. u = [t EXCEPT !.at = to, !.next = m]
    BY <1>3, <2>1
  <2>3. /\ u \in Turns /\ u.at = to /\ u.entry = t.entry /\ u.held = t.held
        /\ u.next = m /\ u.cost = t.cost
    BY <1>5, <1>6, <2>2 DEF Turns
  <2> QED
    BY <2>1, <2>3
<1>8. /\ t.next \in 1..Len(t.held)
      /\ \A n \in 1..Len(t.held) :
           IF n <= t.next THEN ledger[t.held[n]].status = "settled"
           ELSE Unsettled(ledger, t.held[n])
      /\ DrawnOf(ledger, Held(t)) = Due(t, t.next)
  BY <1>4, <1>5 DEF SettlesInTurn, Settling, Done
<1>9. SettlesInTurn(u, ledger, recs.cost)
  <2>1. CASE to = "completed"
    BY <1>7, <2>1 DEF SettlesInTurn, Settling
  <2>2. CASE to # "completed"
    <3>1. to = "settle" /\ t.next # Len(t.held)
      BY <1>2, <2>2
    <3>2. u.next \in 1..Len(u.held) /\ Done(u) = t.next
      BY <1>6, <1>7, <1>8, <3>1 DEF Done
    <3>3. Held(u) = Held(t) /\ Due(u, t.next) = Due(t, t.next)
      BY <1>7, Zenon DEF Held, Due
    <3>4. u.at # "settlement" /\ u.held = t.held
      BY <1>7, <3>1
    <3> QED
      BY <1>8, <3>2, <3>3, <3>4, Zenon DEF SettlesInTurn
  <2> QED
    BY <2>1, <2>2
<1>10. recs.cost' = recs.cost
  BY <1>4 DEF Tables
<1>11. to \in {"completed", "settle"}
  BY <1>2
<1>12. Live(c, u, answered'[c], ledger', recs.cost', entries')
  BY <1>4, <1>5, <1>7, <1>9, <1>10, <1>11 DEF Live, OwnCalls, InOrder, Metered
<1>13. /\ lock' \in Chats \union {NoChat} /\ (u.at \in Inside <=> lock' = c)
       /\ \A d \in Chats \ {c} : lock' = d <=> lock = d
  BY <1>2, <1>4, <1>5, <1>7, CreditsAssumption DEF Inside
<1>14. ledger' \in Ledgers
  BY <1>4 DEF Books
<1>15. /\ entries' \in Seq(Chats) /\ Len(entries) <= Len(entries')
       /\ \A n \in 1..Len(entries) : entries'[n] = entries[n]
  BY <1>4 DEF Tables
<1> QED
  BY <1>4, <1>7, <1>10, <1>12, <1>13, <1>14, <1>15, OneAttemptMoves

\* Every step keeps what the attempts rely on.
LEMMA AttemptsStep ==
  ASSUME Tables, Books, Attempts, [CreditNext]_creditVars
  PROVE  Attempts'
<1>1. ASSUME NEW c \in Chats, Unfunded(c) PROVE Attempts'
  BY <1>1, OtherMoves DEF Unfunded
<1>2. ASSUME PlanChanges \/ \E g \in Grants : Grant(g) PROVE Attempts'
  BY <1>2, OtherMoves DEF PlanChanges, Grant
<1>3. ASSUME UNCHANGED creditVars PROVE Attempts'
  BY <1>3, OtherMoves DEF creditVars, durable
<1>4. ASSUME Crash PROVE Attempts'
  BY <1>4, CreditCrash DEF Crash
<1>5. ASSUME NEW c \in Chats,
             RefuseCall(c) \/ TransportDied(c) \/ NothingHeld(c) \/ SettleRejected(c)
      PROVE  Attempts'
  BY <1>5, EndingMoves
<1> QED
  BY <1>1, <1>2, <1>3, <1>4, <1>5, BeginMoves, ReserveMoves, ReservationMoves, SendMoves,
     AnsweredMoves, EndedMoves, UsageMoves, SettleMoves, CostMoves, SettlementMoves,
     ContinuationMoves, ReleaseMoves, Zenon DEF CreditNext

\* Every step keeps the shape of the plan, the records, the entries and the cards.
LEMMA TablesStep ==
  ASSUME Tables, Books, Attempts, [CreditNext]_creditVars
  PROVE  Tables'
<1> USE CreditsAssumption
<1>1. ASSUME NEW c \in Chats, Begin(c) PROVE Tables'
  <2>1. /\ entries' \in Seq(Chats) /\ Len(entries') = Len(entries) + 1 /\ Len(entries) \in Nat
    BY <1>1, EntriesGrow DEF Begin
  <2>2. Len(entries') <= MaxEntries
    BY <1>1, <2>1 DEF Begin
  <2>3. running' \subseteq Chats /\ UNCHANGED <<plan, granted, recs, card, answered, sent>>
    BY <1>1 DEF Begin, Tables
  <2> QED
    BY <2>1, <2>2, <2>3 DEF Tables
<1>2. ASSUME NEW c \in Chats, Unfunded(c) PROVE Tables'
  <2>1. card' \in [Chats -> {"answered", "pending", "completed"}]
    BY <1>2 DEF Unfunded, Tables
  <2>2. entries' \in Seq(Chats) /\ Len(entries') <= MaxEntries
    <3>1. CASE entries' = entries
      BY <3>1 DEF Tables
    <3>2. CASE entries' # entries
      <4>1. entries' = Append(entries, c) /\ Len(entries) < MaxEntries
        BY <1>2, <3>2 DEF Unfunded
      <4>2. entries' \in Seq(Chats) /\ Len(entries') = Len(entries) + 1 /\ Len(entries) \in Nat
        BY <4>1, EntriesGrow
      <4> QED
        BY <4>1, <4>2
    <3> QED
      BY <3>1, <3>2
  <2>3. UNCHANGED <<plan, granted, recs, running, answered, sent>>
    BY <1>2 DEF Unfunded
  <2> QED
    BY <2>1, <2>2, <2>3 DEF Tables
<1>3. ASSUME NEW c \in Chats, RefuseCall(c) \/ TransportDied(c) \/ Ended(c) PROVE Tables'
  <2>1. RunEnds(c)
    BY <1>3, Zenon DEF RefuseCall, TransportDied, Ended
  <2> QED
    BY <2>1 DEF RunEnds, Tables
<1>4. ASSUME NEW c \in Chats,
             NothingHeld(c) \/ AppendUsage(c) \/ SettleRejected(c) \/ ReserveCall(c) \/ SettleLedger(c)
      PROVE  Tables'
  <2>1. UNCHANGED <<plan, granted, recs, entries, running, card, answered, sent>>
    BY <1>4, Zenon DEF NothingHeld, AppendUsage, SettleRejected, ReserveCall, SettleLedger, durable
  <2> QED
    BY <2>1 DEF Tables
<1>5. ASSUME NEW c \in Chats, RecordReservation(c) PROVE Tables'
  <2>1. turn[c].at = "reserved" /\ UNCHANGED <<plan, granted, entries, running, card, answered, sent>>
    BY <1>5 DEF RecordReservation
  <2>2. Prepared(c) \in CallIds
    BY <2>1, AttemptFacts DEF InOrder
  <2>3. recs' = [recs EXCEPT !.reserve = recs.reserve \union {Prepared(c)}]
    BY <1>5 DEF RecordReservation
  <2> HIDE DEF Prepared
  <2>4. recs' \in [reserve : SUBSET CallIds, cost : SUBSET CallIds, settle : SUBSET CallIds]
    BY <2>2, <2>3 DEF Tables
  <2> QED
    BY <2>1, <2>4 DEF Tables
<1>6. ASSUME NEW c \in Chats, Send(c) PROVE Tables'
  <2>1. turn[c].at = "send" /\ UNCHANGED <<plan, granted, recs, entries, running, card, answered>>
    BY <1>6 DEF Send
  <2>2. Prepared(c) \in CallIds
    BY <2>1, AttemptFacts DEF InOrder
  <2>3. sent' = sent \union {Prepared(c)}
    BY <1>6 DEF Send
  <2> QED
    BY <2>1, <2>2, <2>3 DEF Tables
<1>7. ASSUME NEW c \in Chats, Answered(c) PROVE Tables'
  <2>1. /\ turn[c].at = "wait" /\ answered' = [answered EXCEPT ![c] = answered[c] + 1]
        /\ UNCHANGED <<plan, granted, recs, entries, running, card, sent>>
    BY <1>7 DEF Answered
  <2>2. answered[c] \in 0..Calls /\ answered[c] < Calls
    BY <2>1, AttemptFacts DEF InOrder
  <2>3. answered[c] + 1 \in 0..Calls
    BY <2>2
  <2>4. answered' \in [Chats -> 0..Calls]
    BY <2>1, <2>3 DEF Tables
  <2> QED
    BY <2>1, <2>4 DEF Tables
<1>8. ASSUME NEW c \in Chats, RecordCost(c) \/ RecordSettlement(c) PROVE Tables'
  <2>1. turn[c].at \in Settling /\ UNCHANGED <<plan, granted, entries, running, card, answered, sent>>
    BY <1>8 DEF RecordCost, RecordSettlement, Settling
  <2>2. PICK i : i = turn[c].held[turn[c].next]
    OBVIOUS
  <2>3. i \in CallIds
    BY <2>1, <2>2, AttemptFacts DEF SettlesInTurn
  <2>4. \/ recs' = [recs EXCEPT !.cost = recs.cost \union {i}]
        \/ recs' = [recs EXCEPT !.settle = recs.settle \union {i}]
    BY <1>8, <2>2 DEF RecordCost, RecordSettlement
  <2>5. recs \in [reserve : SUBSET CallIds, cost : SUBSET CallIds, settle : SUBSET CallIds]
    BY DEF Tables
  <2>6. recs' \in [reserve : SUBSET CallIds, cost : SUBSET CallIds, settle : SUBSET CallIds]
    <3>1. ASSUME recs' = [recs EXCEPT !.cost = recs.cost \union {i}]
          PROVE  recs' \in [reserve : SUBSET CallIds, cost : SUBSET CallIds, settle : SUBSET CallIds]
      BY <2>3, <2>5, <3>1
    <3>2. ASSUME recs' = [recs EXCEPT !.settle = recs.settle \union {i}]
          PROVE  recs' \in [reserve : SUBSET CallIds, cost : SUBSET CallIds, settle : SUBSET CallIds]
      BY <2>3, <2>5, <3>2
    <3> QED
      BY <2>4, <3>1, <3>2
  <2> QED
    BY <2>1, <2>6 DEF Tables
<1>9. ASSUME NEW c \in Chats, RecordContinuation(c) PROVE Tables'
  BY <1>9 DEF RecordContinuation, Tables
<1>10. ASSUME Crash PROVE Tables'
  BY <1>10 DEF Crash, durable, Tables
<1>11. ASSUME PlanChanges PROVE Tables'
  <2>1. plan' \in [live : BOOLEAN, ref : 1..MaxPlans]
    <3>1. plan \in [live : BOOLEAN, ref : 1..MaxPlans] /\ plan.ref \in 1..MaxPlans
      BY DEF Tables
    <3>2. plan.ref < MaxPlans => plan.ref + 1 \in 1..MaxPlans
      BY <3>1
    <3>3. \/ plan' = [plan EXCEPT !.live = FALSE] \/ plan' = [plan EXCEPT !.live = TRUE]
          \/ plan.ref < MaxPlans /\ plan' = [live |-> TRUE, ref |-> plan.ref + 1]
      BY <1>11, Zenon DEF PlanChanges
    <3>4. [plan EXCEPT !.live = FALSE] \in [live : BOOLEAN, ref : 1..MaxPlans]
      BY <3>1
    <3>5. [plan EXCEPT !.live = TRUE] \in [live : BOOLEAN, ref : 1..MaxPlans]
      BY <3>1
    <3>6. \A r \in 1..MaxPlans :
            [live |-> TRUE, ref |-> r] \in [live : BOOLEAN, ref : 1..MaxPlans]
      OBVIOUS
    <3> QED
      BY <3>2, <3>3, <3>4, <3>5, <3>6, Zenon
  <2> QED
    BY <1>11, <2>1 DEF PlanChanges, Tables
<1>12. ASSUME NEW g \in Grants, Grant(g) PROVE Tables'
  <2>1. granted' = granted \union {g} /\ UNCHANGED <<plan, recs, entries, running, card, answered, sent>>
    BY <1>12 DEF Grant
  <2>2. IsFiniteSet(granted')
    BY <2>1, FS_AddElement DEF Tables
  <2> QED
    BY <2>1, <2>2 DEF Tables
<1>13. ASSUME NEW i \in CallIds, Release(i) PROVE Tables'
  BY <1>13 DEF Release, Tables
<1>14. ASSUME UNCHANGED creditVars PROVE Tables'
  BY <1>14 DEF creditVars, durable, Tables
<1> QED
  BY <1>1, <1>2, <1>3, <1>4, <1>5, <1>6, <1>7, <1>8, <1>9, <1>10, <1>11, <1>12, <1>13, <1>14,
     Zenon DEF CreditNext

\* The sums of the bound.
With(l, s) == {i \in CallIds : l[i].status = s}
Excess(l) == SumFunctionOnSet([i \in CallIds |-> SaturatingSub(l[i].drawn, Hold)], With(l, "settled"))
Given(g) == SumFunctionOnSet([x \in Grants |-> x], g)
Bounded(l, g) ==
  DrawnOf(l, CallIds) + Hold * Cardinality(With(l, "open")) <= Given(g) + Excess(l)

\* The bound in terms of one ledger and one set of grants.
LEMMA SpendIs ==
  /\ SpendBounded <=> Bounded(ledger, granted)
  /\ SpendBounded' <=> Bounded(ledger', granted')
BY DEF SpendBounded, Bounded, With, Excess, Given, DrawnOf, Drawn, drawn_nanos_usd,
       held_nanos_usd, granted_nanos_usd, HasStatus

\* The sums are numbers.
LEMMA SpendTypes ==
  ASSUME NEW l \in Ledgers, NEW g \in SUBSET Grants, IsFiniteSet(g)
  PROVE  /\ DrawnOf(l, CallIds) \in Nat /\ Given(g) \in Nat /\ Excess(l) \in Nat
         /\ \A s : IsFiniteSet(With(l, s)) /\ Cardinality(With(l, s)) \in Nat
         /\ \A x \in CallIds : [i \in CallIds |-> SaturatingSub(l[i].drawn, Hold)][x] \in Nat
<1>1. DrawnOf(l, CallIds) \in Nat
  BY DrawnFacts
<1>2. \A s : IsFiniteSet(With(l, s)) /\ Cardinality(With(l, s)) \in Nat
  <2> SUFFICES ASSUME NEW s PROVE IsFiniteSet(With(l, s)) /\ Cardinality(With(l, s)) \in Nat
    OBVIOUS
  <2>1. With(l, s) \in SUBSET CallIds
    BY DEF With
  <2> QED
    BY <2>1, FiniteCalls, FS_Subset, FS_CardinalityType
<1>3. Given(g) \in Nat
  <2>1. PICK w : w = [x \in Grants |-> x]
    OBVIOUS
  <2>2. \A x \in g : w[x] \in Nat
    BY <2>1, CreditsAssumption
  <2>3. SumFunctionOnSet(w, g) \in Nat
    BY <2>2, SumFacts
  <2> QED
    BY <2>1, <2>3 DEF Given
<1>4. \A x \in CallIds : [i \in CallIds |-> SaturatingSub(l[i].drawn, Hold)][x] \in Nat
  <2>1. \A i \in CallIds : l[i].drawn \in Nat
    BY DEF Ledgers
  <2>2. \A x \in Nat : SaturatingSub(x, Hold) \in Nat
    BY CreditsAssumption DEF SaturatingSub
  <2> QED
    BY <2>1, <2>2
<1>5. Excess(l) \in Nat
  <2>1. PICK w : w = [i \in CallIds |-> SaturatingSub(l[i].drawn, Hold)]
    OBVIOUS
  <2>2. PICK S : S = With(l, "settled")
    OBVIOUS
  <2>3. IsFiniteSet(S) /\ \A x \in S : w[x] \in Nat
    BY <1>2, <1>4, <2>1, <2>2 DEF With
  <2>4. SumFunctionOnSet(w, S) \in Nat
    BY <2>3, SumFacts
  <2> QED
    BY <2>1, <2>2, <2>4 DEF Excess
<1> QED
  BY <1>1, <1>2, <1>3, <1>4, <1>5

\* A call whose drawn amount stays nothing changes no sum of amounts.
LEMMA SameSums ==
  ASSUME NEW l \in Ledgers, NEW k \in Ledgers, NEW i \in CallIds,
         \A j \in CallIds \ {i} : k[j] = l[j],
         l[i].drawn = 0, k[i].drawn = 0, l[i].status # "settled", k[i].status # "settled"
  PROVE  DrawnOf(k, CallIds) = DrawnOf(l, CallIds) /\ Excess(k) = Excess(l)
<1>1. \A x \in CallIds : k[x].drawn = l[x].drawn
  OBVIOUS
<1>2. DrawnOf(k, CallIds) = DrawnOf(l, CallIds)
  <2>1. PICK v, w : v = [x \in CallIds |-> k[x].drawn] /\ w = [x \in CallIds |-> l[x].drawn]
    OBVIOUS
  <2>2. v = w
    BY <1>1, <2>1
  <2> QED
    BY <2>1, <2>2 DEF DrawnOf
<1>3. With(k, "settled") = With(l, "settled")
  BY DEF With
<1>4. [x \in CallIds |-> SaturatingSub(k[x].drawn, Hold)]
        = [x \in CallIds |-> SaturatingSub(l[x].drawn, Hold)]
  BY <1>1
<1> QED
  BY <1>2, <1>3, <1>4, Zenon DEF Excess

\* A hold is taken only out of what is left.
LEMMA ReserveBooks ==
  ASSUME Tables, Books, Attempts, NEW c \in Chats, ReserveCall(c)
  PROVE  Books'
<1>1. PICK i : i = Prepared(c)
  OBVIOUS
<1>2. /\ turn[c].at = "run" /\ answered[c] < Calls
      /\ ledger[i].status = "none" /\ Hold <= available_nanos_usd
      /\ ledger' = [ledger EXCEPT ![i] = [status |-> "open", ref |-> plan.ref, drawn |-> 0]]
      /\ UNCHANGED granted
  BY <1>1 DEF ReserveCall, Admissible, Reserved
<1>3. i \in CallIds
  BY <1>1, <1>2, AttemptFacts
<1>4. PICK l, k, g : l = ledger /\ k = ledger' /\ g = granted
  OBVIOUS
<1>5. l \in Ledgers /\ plan.ref \in 0..MaxPlans /\ l[i].drawn = 0 /\ l[i].status = "none"
  BY <1>2, <1>3, <1>4, CreditsAssumption DEF Books, Tables
<1>6. /\ k \in Ledgers /\ k[i].status = "open" /\ k[i].drawn = 0
      /\ \A j \in CallIds \ {i} : k[j] = l[j]
  BY <1>2, <1>3, <1>4, <1>5 DEF Ledgers
<1>7. \A j \in CallIds : k[j].status # "settled" => k[j].drawn = 0
  <2>1. \A j \in CallIds : l[j].status # "settled" => l[j].drawn = 0
    BY <1>4 DEF Books
  <2> QED
    BY <1>6, <2>1
<1>8. DrawnOf(k, CallIds) = DrawnOf(l, CallIds) /\ Excess(k) = Excess(l)
  BY <1>3, <1>5, <1>6, SameSums
<1>9. With(k, "open") = With(l, "open") \cup {i} /\ i \notin With(l, "open")
  BY <1>3, <1>5, <1>6 DEF With
<1>10. /\ DrawnOf(l, CallIds) \in Nat /\ Given(g) \in Nat /\ Excess(l) \in Nat
       /\ IsFiniteSet(With(l, "open")) /\ Cardinality(With(l, "open")) \in Nat
  BY <1>4, <1>5, SpendTypes DEF Tables
<1>11. Cardinality(With(k, "open")) = Cardinality(With(l, "open")) + 1
  BY <1>9, <1>10, FS_AddElement
<1>12. Bounded(l, g)
  BY <1>4, SpendIs DEF Books
<1>13. Hold <= SaturatingSub(SaturatingSub(Given(g), DrawnOf(l, CallIds)),
                             Hold * Cardinality(With(l, "open")))
  BY <1>2, <1>4 DEF available_nanos_usd, granted_nanos_usd, drawn_nanos_usd, held_nanos_usd,
                    Given, DrawnOf, Drawn, HasStatus, With
<1>14. Bounded(k, g)
  <2>1. PICK D, G, E, n : /\ D = DrawnOf(l, CallIds) /\ G = Given(g) /\ E = Excess(l)
                          /\ n = Cardinality(With(l, "open"))
    OBVIOUS
  <2>2. PICK P, h : P = Hold * n /\ h = Hold
    OBVIOUS
  <2>3. D \in Nat /\ G \in Nat /\ E \in Nat /\ n \in Nat /\ h \in Nat
    BY <1>10, <2>1, <2>2, CreditsAssumption
  <2>4. P \in Nat /\ Hold * (n + 1) = P + h
    <3>1. \A x, y \in Nat : x * y \in Nat /\ x * (y + 1) = x * y + x
      OBVIOUS
    <3> QED
      BY <2>2, <2>3, <3>1
  <2>5. D + P <= G + E
    BY <1>12, <2>1, <2>2, Zenon DEF Bounded
  <2>6. h <= SaturatingSub(SaturatingSub(G, D), P)
    BY <1>13, <2>1, <2>2, Zenon
  <2>7. D + (P + h) <= G + E
    BY ONLY <2>3, <2>4, <2>5, <2>6 DEF SaturatingSub
  <2> QED
    BY <1>8, <1>11, <2>1, <2>4, <2>7 DEF Bounded
<1>15. SpendBounded'
  BY <1>2, <1>4, <1>14, SpendIs
<1> QED
  BY <1>4, <1>6, <1>7, <1>15 DEF Books

\* What is drawn beyond the hold is counted as such.
LEMMA SettleBooks ==
  ASSUME Tables, Books, Attempts, NEW c \in Chats, SettleLedger(c)
  PROVE  Books'
<1>1. PICK i \in CallIds, p \in Nat :
        /\ ledger[i].status = "open" /\ ledger[i].drawn = 0
        /\ ledger' \in Ledgers
        /\ ledger'[i].status = "settled" /\ ledger'[i].drawn = p
        /\ \A j \in CallIds \ {i} : ledger'[j] = ledger[j]
        /\ UNCHANGED granted
  BY SettleWrites
<1>2. PICK l, k, g : l = ledger /\ k = ledger' /\ g = granted
  OBVIOUS
<1>3. /\ l \in Ledgers /\ k \in Ledgers /\ l[i].status = "open" /\ l[i].drawn = 0
      /\ k[i].status = "settled" /\ k[i].drawn = p /\ \A j \in CallIds \ {i} : k[j] = l[j]
  BY <1>1, <1>2 DEF Books
<1>4. \A j \in CallIds : k[j].status # "settled" => k[j].drawn = 0
  <2>1. \A j \in CallIds : l[j].status # "settled" => l[j].drawn = 0
    BY <1>2 DEF Books
  <2> QED
    BY <1>3, <2>1
<1>5. /\ DrawnOf(l, CallIds) \in Nat /\ Given(g) \in Nat /\ Excess(l) \in Nat
      /\ DrawnOf(k, CallIds) \in Nat /\ Excess(k) \in Nat
      /\ \A s : IsFiniteSet(With(l, s)) /\ Cardinality(With(l, s)) \in Nat
      /\ \A x \in CallIds : [j \in CallIds |-> SaturatingSub(l[j].drawn, Hold)][x] \in Nat
      /\ \A x \in CallIds : [j \in CallIds |-> SaturatingSub(k[j].drawn, Hold)][x] \in Nat
  BY <1>2, <1>3, SpendTypes DEF Tables
<1>6. DrawnOf(k, CallIds) = DrawnOf(l, CallIds) + p
  <2>1. PICK v, w : v = [x \in CallIds |-> k[x].drawn] /\ w = [x \in CallIds |-> l[x].drawn]
    OBVIOUS
  <2>2. /\ IsFiniteSet(CallIds) /\ \A x \in CallIds : w[x] \in Nat
        /\ v[i] = p /\ w[i] = 0 /\ \A x \in CallIds \ {i} : v[x] = w[x]
    BY <1>3, <2>1, DrawnFacts
  <2>3. SumFunctionOnSet(v, CallIds) + w[i] = SumFunctionOnSet(w, CallIds) + v[i]
    <3>1. v[i] \in Nat
      BY <2>2
    <3> QED
      BY <2>2, <3>1, SumMoves
  <2>4. DrawnOf(k, CallIds) = SumFunctionOnSet(v, CallIds) /\ DrawnOf(l, CallIds) = SumFunctionOnSet(w, CallIds)
    BY <2>1 DEF DrawnOf
  <2> QED
    BY <1>5, <2>2, <2>3, <2>4
<1>7. Excess(k) = Excess(l) + SaturatingSub(p, Hold)
  <2>1. PICK v, w : /\ v = [x \in CallIds |-> SaturatingSub(k[x].drawn, Hold)]
                    /\ w = [x \in CallIds |-> SaturatingSub(l[x].drawn, Hold)]
    OBVIOUS
  <2>2. PICK S : S = With(l, "settled")
    OBVIOUS
  <2>3. With(k, "settled") = S \cup {i} /\ i \notin S /\ S \subseteq CallIds
    BY <1>3, <2>2 DEF With
  <2>4. IsFiniteSet(S) /\ (\A x \in CallIds : w[x] \in Nat) /\ \A x \in CallIds : v[x] \in Nat
    BY <1>5, <2>1, <2>2
  <2>5. \A x \in S : v[x] = w[x] /\ v[x] \in Nat /\ w[x] \in Nat
    BY <1>3, <2>1, <2>3, <2>4
  <2>6. SumFunctionOnSet(v, S) = SumFunctionOnSet(w, S)
    BY <2>4, <2>5, SumSame
  <2>7. SumFunctionOnSet(v, S \cup {i}) = SumFunctionOnSet(v, S) + v[i]
    <3>1. (\A x \in S : v[x] \in Nat) /\ v[i] \in Nat
      BY <2>4, <2>5
    <3> QED
      BY <2>3, <2>4, <3>1, SumGains
  <2>8. v[i] = SaturatingSub(p, Hold)
    BY <1>3, <2>1
  <2>9. Excess(k) = SumFunctionOnSet(v, S \cup {i}) /\ Excess(l) = SumFunctionOnSet(w, S)
    BY <2>1, <2>2, <2>3, Zenon DEF Excess
  <2> QED
    BY <2>6, <2>7, <2>8, <2>9
<1>8. Bounded(k, g)
  <2>1. PICK D, G, E, n : /\ D = DrawnOf(l, CallIds) /\ G = Given(g) /\ E = Excess(l)
                          /\ n = Cardinality(With(k, "open"))
    OBVIOUS
  <2>2. With(k, "open") = With(l, "open") \ {i} /\ i \in With(l, "open")
    BY <1>3 DEF With
  <2>3. IsFiniteSet(With(l, "open")) /\ Cardinality(With(l, "open")) \in Nat
    BY <1>5
  <2>4. IsFiniteSet(With(k, "open")) /\ n = Cardinality(With(l, "open")) - 1
    BY <2>1, <2>2, <2>3, FS_RemoveElement
  <2>5. n \in Nat
    BY <2>1, <2>4, FS_CardinalityType
  <2>6. PICK P, h : P = Hold * n /\ h = Hold
    OBVIOUS
  <2>7. P \in Nat /\ h \in Nat /\ Hold * (n + 1) = P + h
    <3>1. \A x, y \in Nat : x * y \in Nat /\ x * (y + 1) = x * y + x
      OBVIOUS
    <3> QED
      BY <2>5, <2>6, <3>1, CreditsAssumption
  <2>8. Cardinality(With(l, "open")) = n + 1
    BY <2>3, <2>4, <2>5
  <2>9. D + (P + h) <= G + E
    <3>1. Bounded(l, g)
      BY <1>2, SpendIs DEF Books
    <3>2. D + Hold * Cardinality(With(l, "open")) <= G + E
      BY <2>1, <3>1, Zenon DEF Bounded
    <3> QED
      BY <2>7, <2>8, <3>2
  <2>10. D \in Nat /\ G \in Nat /\ E \in Nat
    BY <1>5, <2>1
  <2>11. (D + p) + P <= G + (E + SaturatingSub(p, h))
    BY ONLY <2>7, <2>9, <2>10, p \in Nat DEF SaturatingSub
  <2> QED
    BY <1>6, <1>7, <2>1, <2>6, <2>11, Zenon DEF Bounded
<1>9. SpendBounded'
  BY <1>1, <1>2, <1>8, SpendIs
<1> QED
  BY <1>2, <1>3, <1>4, <1>9 DEF Books

\* A reconciled call gives its hold back.
LEMMA ReleaseBooks ==
  ASSUME Tables, Books, NEW i \in CallIds, Release(i)
  PROVE  Books'
<1>1. /\ ledger[i].status = "open" /\ ledger' = [ledger EXCEPT ![i].status = "released"]
      /\ UNCHANGED granted
  BY DEF Release
<1>2. PICK l, k, g : l = ledger /\ k = ledger' /\ g = granted
  OBVIOUS
<1>3. l \in Ledgers /\ l[i].status = "open" /\ l[i].drawn = 0
  BY <1>1, <1>2 DEF Books
<1>4. /\ k \in Ledgers /\ k[i].status = "released" /\ k[i].drawn = 0
      /\ \A j \in CallIds \ {i} : k[j] = l[j]
  BY <1>1, <1>2, <1>3 DEF Ledgers
<1>5. \A j \in CallIds : k[j].status # "settled" => k[j].drawn = 0
  <2>1. \A j \in CallIds : l[j].status # "settled" => l[j].drawn = 0
    BY <1>2 DEF Books
  <2> QED
    BY <1>4, <2>1
<1>6. DrawnOf(k, CallIds) = DrawnOf(l, CallIds) /\ Excess(k) = Excess(l)
  BY <1>3, <1>4, SameSums
<1>7. With(k, "open") \in SUBSET With(l, "open")
  BY <1>3, <1>4 DEF With
<1>8. /\ DrawnOf(l, CallIds) \in Nat /\ Given(g) \in Nat /\ Excess(l) \in Nat
      /\ IsFiniteSet(With(l, "open")) /\ Cardinality(With(l, "open")) \in Nat
      /\ Cardinality(With(k, "open")) \in Nat
  BY <1>2, <1>3, <1>4, SpendTypes DEF Tables
<1>9. Cardinality(With(k, "open")) <= Cardinality(With(l, "open"))
  BY <1>7, <1>8, FS_Subset
<1>10. Bounded(k, g)
  <2>1. PICK D, G, E, m, n :
          /\ D = DrawnOf(l, CallIds) /\ G = Given(g) /\ E = Excess(l)
          /\ m = Cardinality(With(k, "open")) /\ n = Cardinality(With(l, "open"))
    OBVIOUS
  <2>2. D \in Nat /\ G \in Nat /\ E \in Nat /\ m \in Nat /\ n \in Nat /\ m <= n
    BY <1>8, <1>9, <2>1
  <2>3. Hold * m \in Nat /\ Hold * n \in Nat /\ Hold * m <= Hold * n
    <3>1. \A x, y \in Nat : x * y \in Nat
      OBVIOUS
    <3>2. PICK d \in Nat : n = m + d
      <4>1. n - m \in Nat /\ n = m + (n - m)
        BY <2>2
      <4> QED
        BY <4>1
    <3>3. \A x, y, z \in Nat : x * (y + z) = x * y + x * z
      OBVIOUS
    <3>4. Hold \in Nat
      BY CreditsAssumption
    <3>5. Hold * n = Hold * m + Hold * d
      BY <2>2, <3>2, <3>3, <3>4
    <3>6. Hold * m \in Nat /\ Hold * d \in Nat
      BY <2>2, <3>1, <3>4
    <3> QED
      BY <3>5, <3>6
  <2>4. D + Hold * n <= G + E
    <3>1. Bounded(l, g)
      BY <1>2, SpendIs DEF Books
    <3> QED
      BY <2>1, <3>1, Zenon DEF Bounded
  <2>5. PICK P, Q : P = Hold * m /\ Q = Hold * n
    OBVIOUS
  <2>6. D + P <= G + E
    BY <2>2, <2>3, <2>4, <2>5
  <2> QED
    BY <1>6, <2>1, <2>5, <2>6, Zenon DEF Bounded
<1>11. SpendBounded'
  BY <1>1, <1>2, <1>10, SpendIs
<1> QED
  BY <1>2, <1>4, <1>5, <1>11 DEF Books

\* A grant raises the bound.
LEMMA GrantBooks ==
  ASSUME Tables, Books, NEW x \in Grants, Grant(x)
  PROVE  Books'
<1>1. x \notin granted /\ granted' = granted \union {x} /\ UNCHANGED ledger
  BY DEF Grant
<1>2. PICK l, g : l = ledger /\ g = granted
  OBVIOUS
<1>3. l \in Ledgers /\ g \in SUBSET Grants /\ IsFiniteSet(g) /\ x \notin g /\ x \in Nat
  BY <1>1, <1>2, CreditsAssumption DEF Books, Tables
<1>4. /\ DrawnOf(l, CallIds) \in Nat /\ Given(g) \in Nat /\ Excess(l) \in Nat
      /\ Cardinality(With(l, "open")) \in Nat
  BY <1>3, SpendTypes
<1>5. Given(g \union {x}) = Given(g) + x
  <2>1. PICK w : w = [y \in Grants |-> y]
    OBVIOUS
  <2>2. (\A y \in g : w[y] \in Nat) /\ w[x] = x
    BY <1>3, <2>1, CreditsAssumption
  <2>3. SumFunctionOnSet(w, g \cup {x}) = SumFunctionOnSet(w, g) + w[x]
    <3>1. w[x] \in Nat
      BY <1>3, <2>2
    <3> QED
      BY <1>3, <2>2, <3>1, SumGains
  <2> QED
    BY <2>1, <2>2, <2>3 DEF Given
<1>6. Bounded(l, g \union {x})
  <2>1. PICK D, P, G, E : /\ D = DrawnOf(l, CallIds) /\ G = Given(g) /\ E = Excess(l)
                          /\ P = Hold * Cardinality(With(l, "open"))
    OBVIOUS
  <2>2. D \in Nat /\ G \in Nat /\ E \in Nat
    BY <1>4, <2>1
  <2>3. P \in Nat
    <3>1. \A y, z \in Nat : y * z \in Nat
      OBVIOUS
    <3> QED
      BY <1>4, <2>1, <3>1, CreditsAssumption
  <2>4. D + P <= G + E
    <3>1. Bounded(l, g)
      BY <1>2, SpendIs DEF Books
    <3> QED
      BY <2>1, <3>1, Zenon DEF Bounded
  <2>5. D + P <= (G + x) + E
    BY <1>3, <2>2, <2>3, <2>4
  <2> QED
    BY <1>5, <2>1, <2>5, Zenon DEF Bounded
<1>7. SpendBounded'
  BY <1>1, <1>2, <1>6, SpendIs
<1> QED
  BY <1>1, <1>7 DEF Books

\* The steps that write the ledger or grant credits.
LEMMA BookKinds ==
  ASSUME [CreditNext]_creditVars
  PROVE  \/ UNCHANGED <<ledger, granted>>
         \/ \E c \in Chats : ReserveCall(c) \/ SettleLedger(c)
         \/ \E g \in Grants : Grant(g)
         \/ \E i \in CallIds : Release(i)
<1>1. ASSUME NEW c, Begin(c) \/ Unfunded(c) PROVE UNCHANGED <<ledger, granted>>
  BY <1>1, Zenon DEF Begin, Unfunded
<1>2. ASSUME NEW c, RefuseCall(c) \/ TransportDied(c) \/ Ended(c)
      PROVE  UNCHANGED <<ledger, granted>>
  BY <1>2, Zenon DEF RefuseCall, TransportDied, Ended, RunEnds
<1>3. ASSUME NEW c, RecordReservation(c) \/ Send(c) \/ Answered(c)
      PROVE  UNCHANGED <<ledger, granted>>
  BY <1>3, Zenon DEF RecordReservation, Send, Answered
<1>4. ASSUME NEW c, NothingHeld(c) \/ AppendUsage(c) \/ SettleRejected(c)
      PROVE  UNCHANGED <<ledger, granted>>
  BY <1>4, Zenon DEF NothingHeld, AppendUsage, SettleRejected, durable
<1>5. ASSUME NEW c, RecordCost(c) \/ RecordSettlement(c) \/ RecordContinuation(c)
      PROVE  UNCHANGED <<ledger, granted>>
  BY <1>5, Zenon DEF RecordCost, RecordSettlement, RecordContinuation
<1>6. ASSUME Crash \/ PlanChanges PROVE UNCHANGED <<ledger, granted>>
  BY <1>6, Zenon DEF Crash, PlanChanges, durable
<1>7. ASSUME UNCHANGED creditVars PROVE UNCHANGED <<ledger, granted>>
  BY <1>7, Zenon DEF creditVars, durable
<1> QED
  BY <1>1, <1>2, <1>3, <1>4, <1>5, <1>6, <1>7, Zenon DEF CreditNext

\* Every step keeps the ledger's shape and what is drawn and held within bounds.
LEMMA BooksStep ==
  ASSUME Tables, Books, Attempts, [CreditNext]_creditVars
  PROVE  Books'
<1>1. CASE UNCHANGED <<ledger, granted>>
  <2>1. SpendBounded'
    BY <1>1, SpendIs DEF Books
  <2> QED
    BY <1>1, <2>1 DEF Books
<1> QED
  BY <1>1, BookKinds, ReserveBooks, SettleBooks, GrantBooks, ReleaseBooks, Zenon

\* The ledger forgets no call and unsettles none, and a step holds at most the
\* call its attempt prepared, under the plan that stands.
LEMMA LedgerGrows ==
  ASSUME Tables, Books, Attempts, [CreditNext]_creditVars
  PROVE  /\ \A i \in CallIds : ledger[i].status # "none" => ledger'[i].status # "none"
         /\ \A i \in CallIds : ledger[i].status = "settled" => ledger'[i].status = "settled"
         /\ \A i \in CallIds :
              ledger[i].status = "none" /\ ledger'[i].status = "open" =>
                /\ plan.live /\ ledger'[i].ref = plan.ref
                /\ \E c \in Chats : turn[c].ref = plan.ref /\ turn[c].entry = i[1]
<1> DEFINE Goal(i) ==
      /\ ledger[i].status # "none" => ledger'[i].status # "none"
      /\ ledger[i].status = "settled" => ledger'[i].status = "settled"
      /\ ledger[i].status = "none" /\ ledger'[i].status = "open" =>
           /\ plan.live /\ ledger'[i].ref = plan.ref
           /\ \E c \in Chats : turn[c].ref = plan.ref /\ turn[c].entry = i[1]
<1> SUFFICES ASSUME NEW i \in CallIds PROVE Goal(i)
  OBVIOUS
<1>1. ledger \in Ledgers
  BY DEF Books
<1>2. CASE UNCHANGED <<ledger, granted>>
  BY <1>2
<1>3. ASSUME NEW c \in Chats, ReserveCall(c) PROVE Goal(i)
  <2>1. PICK j : j = Prepared(c)
    OBVIOUS
  <2>2. /\ turn[c].at = "run" /\ answered[c] < Calls /\ ledger[j].status = "none"
        /\ plan.live /\ plan.ref = turn[c].ref
        /\ ledger' = [ledger EXCEPT ![j] = [status |-> "open", ref |-> plan.ref, drawn |-> 0]]
    BY <1>3, <2>1 DEF ReserveCall, Admissible, Reserved
  <2>3. j \in CallIds /\ j[1] = turn[c].entry
    <3>1. j \in CallIds
      BY <2>1, <2>2, AttemptFacts
    <3> QED
      BY <2>1, <3>1 DEF Prepared
  <2>4. CASE i = j
    <3>1. ledger'[i].status = "open" /\ ledger'[i].ref = plan.ref
      BY <1>1, <2>2, <2>3, <2>4 DEF Ledgers
    <3> QED
      BY <2>2, <2>3, <2>4, <3>1
  <2>5. CASE i # j
    <3>1. ledger'[i] = ledger[i]
      BY <1>1, <2>2, <2>5 DEF Ledgers
    <3> QED
      BY <3>1
  <2> QED
    BY <2>4, <2>5
<1>4. ASSUME NEW c \in Chats, SettleLedger(c) PROVE Goal(i)
  <2>1. PICK j \in CallIds :
          /\ ledger[j].status = "open" /\ ledger'[j].status = "settled"
          /\ \A m \in CallIds \ {j} : ledger'[m] = ledger[m]
    BY <1>4, SettleWrites
  <2> QED
    BY <2>1
<1>5. ASSUME NEW g \in Grants, Grant(g) PROVE Goal(i)
  BY <1>5 DEF Grant
<1>6. ASSUME NEW j \in CallIds, Release(j) PROVE Goal(i)
  <2>1. ledger[j].status = "open" /\ ledger' = [ledger EXCEPT ![j].status = "released"]
    BY <1>6 DEF Release
  <2>2. ledger'[j].status = "released" /\ \A m \in CallIds \ {j} : ledger'[m] = ledger[m]
    BY <1>1, <2>1 DEF Ledgers
  <2> QED
    BY <2>1, <2>2
<1> HIDE DEF Goal
<1> QED
  BY <1>2, <1>3, <1>4, <1>5, <1>6, BookKinds, Zenon

\* The steps that send a call or write a billing record.
LEMMA RecordKinds ==
  ASSUME [CreditNext]_creditVars
  PROVE  \/ UNCHANGED <<sent, recs>>
         \/ \E c \in Chats : Send(c) \/ RecordReservation(c) \/ RecordCost(c) \/ RecordSettlement(c)
<1>1. ASSUME NEW c, Begin(c) \/ Unfunded(c) PROVE UNCHANGED <<sent, recs>>
  BY <1>1, Zenon DEF Begin, Unfunded
<1>2. ASSUME NEW c, RefuseCall(c) \/ TransportDied(c) \/ Ended(c) PROVE UNCHANGED <<sent, recs>>
  BY <1>2, Zenon DEF RefuseCall, TransportDied, Ended, RunEnds
<1>3. ASSUME NEW c, ReserveCall(c) \/ Answered(c) \/ SettleLedger(c) \/ RecordContinuation(c)
      PROVE  UNCHANGED <<sent, recs>>
  BY <1>3, Zenon DEF ReserveCall, Answered, SettleLedger, RecordContinuation
<1>4. ASSUME NEW c, NothingHeld(c) \/ AppendUsage(c) \/ SettleRejected(c)
      PROVE  UNCHANGED <<sent, recs>>
  BY <1>4, Zenon DEF NothingHeld, AppendUsage, SettleRejected, durable
<1>5. ASSUME Crash \/ PlanChanges PROVE UNCHANGED <<sent, recs>>
  BY <1>5, Zenon DEF Crash, PlanChanges, durable
<1>6. ASSUME NEW g, Grant(g) PROVE UNCHANGED <<sent, recs>>
  BY <1>6, Zenon DEF Grant
<1>7. ASSUME NEW i, Release(i) PROVE UNCHANGED <<sent, recs>>
  BY <1>7, Zenon DEF Release
<1>8. ASSUME UNCHANGED creditVars PROVE UNCHANGED <<sent, recs>>
  BY <1>8, Zenon DEF creditVars, durable
<1> QED
  BY <1>1, <1>2, <1>3, <1>4, <1>5, <1>6, <1>7, <1>8, Zenon DEF CreditNext

\* A call is recorded only once the ledger has it: the reservation record after
\* the hold, the cost record after the settlement, the settlement record last.
LEMMA AccountsStep ==
  ASSUME Tables, Books, Accounts, Attempts, [CreditNext]_creditVars
  PROVE  Accounts'
<1>1. /\ \A i \in CallIds : ledger[i].status # "none" => ledger'[i].status # "none"
      /\ \A i \in CallIds : ledger[i].status = "settled" => ledger'[i].status = "settled"
  BY LedgerGrows
<1>2. /\ recs \in [reserve : SUBSET CallIds, cost : SUBSET CallIds, settle : SUBSET CallIds]
      /\ sent \subseteq CallIds
  BY DEF Tables
<1>3. /\ \A i \in sent : ledger[i].status # "none"
      /\ recs.settle \subseteq recs.cost
      /\ \A i \in recs.cost : i \in CallIds /\ ledger[i].status = "settled"
      /\ \A i \in recs.reserve : i \in CallIds /\ ledger[i].status # "none"
  BY DEF Accounts, SentIsAccounted, RecordsFollowLedger, HasStatus
<1> DEFINE Goal == /\ \A i \in sent' : i \in CallIds /\ ledger'[i].status # "none"
                   /\ recs'.settle \subseteq recs'.cost
                   /\ \A i \in recs'.cost : i \in CallIds /\ ledger'[i].status = "settled"
                   /\ \A i \in recs'.reserve : i \in CallIds /\ ledger'[i].status # "none"
<1> SUFFICES Goal
  BY DEF Accounts, SentIsAccounted, RecordsFollowLedger, HasStatus
<1>4. ASSUME UNCHANGED <<sent, recs>> PROVE Goal
  BY <1>1, <1>2, <1>3, <1>4
<1>5. ASSUME NEW c \in Chats, Send(c) PROVE Goal
  <2>1. /\ turn[c].at = "send" /\ sent' = sent \union {Prepared(c)} /\ recs' = recs
    BY <1>5 DEF Send
  <2>2. Prepared(c) \in CallIds /\ ledger[Prepared(c)].status # "none"
    <3>1. answered[c] < Calls /\ ledger[<<turn[c].entry, answered[c] + 1>>].status # "none"
      BY <2>1, AttemptFacts DEF InOrder, Metered
    <3> QED
      BY <2>1, <3>1, AttemptFacts DEF Prepared
  <2> QED
    BY <1>1, <1>2, <1>3, <2>1, <2>2
<1>6. ASSUME NEW c \in Chats, RecordReservation(c) PROVE Goal
  <2>1. PICK i : i = Prepared(c)
    OBVIOUS
  <2>2. /\ turn[c].at = "reserved" /\ sent' = sent
        /\ recs' = [recs EXCEPT !.reserve = recs.reserve \union {i}]
    BY <1>6, <2>1 DEF RecordReservation
  <2>3. i \in CallIds /\ ledger[i].status # "none"
    <3>1. answered[c] < Calls /\ ledger[<<turn[c].entry, answered[c] + 1>>].status # "none"
      BY <2>2, AttemptFacts DEF InOrder, Metered
    <3> QED
      BY <2>1, <2>2, <3>1, AttemptFacts DEF Prepared
  <2>4. /\ recs'.reserve = recs.reserve \union {i}
        /\ recs'.cost = recs.cost /\ recs'.settle = recs.settle
    BY <1>2, <2>2
  <2> QED
    BY <1>1, <1>2, <1>3, <2>2, <2>3, <2>4
<1>7. ASSUME NEW c \in Chats, RecordCost(c) PROVE Goal
  <2>1. PICK t, i : t = turn[c] /\ i = t.held[t.next]
    OBVIOUS
  <2>2. /\ t.at = "cost" /\ sent' = sent
        /\ recs' = [recs EXCEPT !.cost = recs.cost \union {i}]
    BY <1>7, <2>1 DEF RecordCost
  <2>3. i \in CallIds /\ ledger[i].status = "settled"
    <3>1. t \in Turns /\ SettlesInTurn(t, ledger, recs.cost) /\ \A n \in 1..Len(t.held) : t.held[n] \in CallIds
      BY <2>1, AttemptFacts
    <3>2. t.next \in 1..Len(t.held) /\ Done(t) = t.next
      BY <2>2, <3>1 DEF SettlesInTurn, Settling, Done
    <3>3. t.next <= Done(t)
      BY <3>1, <3>2, TurnFields
    <3>4. ledger[t.held[t.next]].status = "settled"
      BY <2>2, <3>1, <3>2, <3>3 DEF SettlesInTurn, Settling
    <3> QED
      BY <2>1, <3>1, <3>2, <3>4
  <2>4. /\ recs'.reserve = recs.reserve /\ recs'.cost = recs.cost \union {i}
        /\ recs'.settle = recs.settle
    BY <1>2, <2>2
  <2> QED
    BY <1>1, <1>2, <1>3, <2>2, <2>3, <2>4
<1>8. ASSUME NEW c \in Chats, RecordSettlement(c) PROVE Goal
  <2>1. PICK t, i : t = turn[c] /\ i = t.held[t.next]
    OBVIOUS
  <2>2. /\ t.at = "settlement" /\ sent' = sent
        /\ recs' = [recs EXCEPT !.settle = recs.settle \union {i}]
    BY <1>8, <2>1 DEF RecordSettlement
  <2>3. i \in recs.cost
    BY <2>1, <2>2, AttemptFacts DEF SettlesInTurn, Settling
  <2>4. /\ recs'.reserve = recs.reserve /\ recs'.cost = recs.cost
        /\ recs'.settle = recs.settle \union {i}
    BY <1>2, <2>2
  <2> QED
    BY <1>1, <1>2, <1>3, <2>2, <2>3, <2>4
<1> HIDE DEF Goal
<1> QED
  BY <1>4, <1>5, <1>6, <1>7, <1>8, RecordKinds, Zenon

\* Nothing is held, drawn or granted at first.
LEMMA CreditsStart ==
  ASSUME CreditInit
  PROVE  CreditInv
<1> USE DEF CreditInit
<1>1. \A i \in CallIds : ledger[i] = NoCall
  OBVIOUS
<1>2. NoCall.status = "none" /\ NoCall.drawn = 0
  BY DEF NoCall
<1>3. ledger \in Ledgers
  BY CreditsAssumption DEF Ledgers, NoCall
<1>4. Tables
  <2>1. plan \in [live : BOOLEAN, ref : 1..MaxPlans]
    BY CreditsAssumption
  <2>2. granted \subseteq Grants /\ IsFiniteSet(granted)
    BY FS_EmptySet
  <2>3. entries \in Seq(Chats) /\ Len(entries) <= MaxEntries
    BY CreditsAssumption
  <2>4. answered \in [Chats -> 0..Calls] /\ sent \subseteq CallIds
    BY CreditsAssumption
  <2> QED
    BY <2>1, <2>2, <2>3, <2>4 DEF Tables
<1>5. SpendBounded
  <2>1. DrawnOf(ledger, CallIds) = 0
    <3>1. PICK w : w = [i \in CallIds |-> ledger[i].drawn]
      OBVIOUS
    <3>2. \A i \in CallIds : w[i] = 0
      BY <1>1, <1>2, <3>1
    <3> QED
      BY <3>1, <3>2, FiniteCalls, SumZero DEF DrawnOf
  <2>2. With(ledger, "open") = {}
    BY <1>1, <1>2 DEF With
  <2>3. Hold * Cardinality(With(ledger, "open")) = 0
    <3>1. Cardinality(With(ledger, "open")) = 0
      BY <2>2, FS_EmptySet
    <3> QED
      BY <3>1, CreditsAssumption
  <2>4. Given(granted) \in Nat /\ Excess(ledger) \in Nat
    BY <1>3, <1>4, SpendTypes DEF Tables
  <2>5. PICK G, E : G = Given(granted) /\ E = Excess(ledger)
    OBVIOUS
  <2>6. 0 + 0 <= G + E
    BY <2>4, <2>5
  <2>7. Bounded(ledger, granted)
    BY <2>1, <2>3, <2>5, <2>6, Zenon DEF Bounded
  <2> QED
    BY <2>7, SpendIs
<1>6. Books
  BY <1>1, <1>2, <1>3, <1>5 DEF Books
<1>7. Accounts
  BY DEF Accounts, SentIsAccounted, RecordsFollowLedger
<1>8. Attempts
  <2>1. \A c \in Chats : turn[c] = CreditIdle
    OBVIOUS
  <2>2. turn \in [Chats -> Turns]
    BY IdleLive
  <2>3. \A c \in Chats : turn[c].at \in Inside <=> lock = c
    BY <2>1, IdleLive, CreditsAssumption DEF Inside
  <2>4. \A c \in Chats : Live(c, turn[c], answered[c], ledger, recs.cost, entries)
    BY <2>1, IdleLive
  <2> QED
    BY <2>2, <2>3, <2>4 DEF Attempts
<1> QED
  BY <1>4, <1>6, <1>7, <1>8 DEF CreditInv

\* A settlement draws the turn's cost: never more, and all of it by its last call.
LEMMA OneCost ==
  ASSUME Tables, Books, Attempts
  PROVE  DrawsOneCost
<1> SUFFICES ASSUME NEW c \in Chats, turn[c].at \in Settling
             PROVE  /\ Drawn(Held(turn[c])) <= turn[c].cost
                    /\ Held(turn[c]) \subseteq HasStatus("settled") =>
                         Drawn(Held(turn[c])) = turn[c].cost
  BY DEF DrawsOneCost, Held, Settling
<1>1. PICK t, l : t = turn[c] /\ l = ledger
  OBVIOUS
<1>2. t \in Turns /\ t.at \in Settling /\ SettlesInTurn(t, l, recs.cost)
  BY <1>1, AttemptFacts
<1>3. /\ t.next \in 1..Len(t.held)
      /\ \A n \in 1..Len(t.held) :
           IF n <= Done(t) THEN l[t.held[n]].status = "settled" ELSE Unsettled(l, t.held[n])
      /\ DrawnOf(l, Held(t)) = Due(t, Done(t))
  BY <1>2, Zenon DEF SettlesInTurn
<1>4. Drawn(Held(t)) = Due(t, Done(t))
  BY <1>1, <1>3 DEF Drawn, DrawnOf
<1>5. t.cost \in Nat /\ Len(t.held) \in Nat /\ t.next \in Nat
  BY <1>2, TurnFields
<1>6. Done(t) \in 0..Len(t.held)
  BY <1>3, <1>5 DEF Done
<1>7. Due(t, Done(t)) <= t.cost
  <2>1. PICK q : q = Done(t) * Hold
    OBVIOUS
  <2>2. q \in Nat
    <3>1. \A x, y \in Nat : x * y \in Nat
      OBVIOUS
    <3>2. Done(t) \in Nat /\ Hold \in Nat
      BY <1>6, CreditsAssumption
    <3> QED
      BY <2>1, <3>1, <3>2
  <2>3. Least(t.cost, q) <= t.cost
    BY <1>5, <2>2 DEF Least
  <2> QED
    BY <1>5, <2>1, <2>3 DEF Due
<1>8. ASSUME Held(t) \subseteq HasStatus("settled") PROVE Due(t, Done(t)) = t.cost
  <2>1. CASE Done(t) = Len(t.held)
    BY <2>1 DEF Due
  <2>2. CASE Done(t) # Len(t.held)
    <3>1. PICK n : n = Done(t) + 1
      OBVIOUS
    <3>2. n \in 1..Len(t.held) /\ ~(n <= Done(t))
      BY <1>5, <1>6, <2>2, <3>1
    <3>3. Unsettled(l, t.held[n])
      BY <1>3, <3>2
    <3>4. l[t.held[n]].status = "settled"
      BY <1>1, <1>8, <3>2 DEF Held, HasStatus
    <3> QED
      BY <3>3, <3>4 DEF Unsettled
  <2> QED
    BY <2>1, <2>2
<1> QED
  BY <1>1, <1>4, <1>7, <1>8

\* The invariant gives the shapes and the five statements about the money.
LEMMA CreditInvSafe ==
  ASSUME CreditInv
  PROVE  CreditTypeOK /\ SpendBounded /\ SentIsAccounted /\ DrawsOneCost /\ RecordsFollowLedger
<1>1. CreditTypeOK
  <2>1. ledger \in [CallIds -> [status : {"none", "open", "settled", "released"},
                                ref : 0..MaxPlans, drawn : Nat]]
    BY DEF CreditInv, Books, Ledgers
  <2>2. /\ lock \in Chats \union {NoChat}
        /\ \A c \in Chats :
             turn[c].at \in {"reserved", "settle", "cost", "settlement"} <=> lock = c
    BY DEF CreditInv, Attempts, Inside
  <2> QED
    BY <2>1, <2>2 DEF CreditInv, Tables, CreditTypeOK
<1>2. DrawsOneCost
  BY OneCost DEF CreditInv
<1> QED
  BY <1>1, <1>2 DEF CreditInv, Books, Accounts

\* CreditSafe (reserve_call, settle_calls, available_nanos_usd): for any chats,
\* calls, costs and grants, and whatever crashes, retries, suspensions and
\* reconciliations fall between the writes of a turn, what is drawn and held
\* stays within what was granted up to the settled calls' own excess, a sent
\* call is accounted for, a settlement draws the turn's cost once, no record
\* runs ahead of the ledger, and a call is held only under the plan that stands.
THEOREM CreditsAreSafe == CreditSpec => CreditSafe
<1>1. CreditInit => CreditInv
  BY CreditsStart
<1>2. CreditInv /\ [CreditNext]_creditVars => CreditInv'
  <2> SUFFICES ASSUME CreditInv, [CreditNext]_creditVars PROVE CreditInv'
    OBVIOUS
  <2>1. Tables /\ Books /\ Accounts /\ Attempts
    BY DEF CreditInv
  <2>2. Tables' /\ Books' /\ Accounts' /\ Attempts'
    BY <2>1, TablesStep, BooksStep, AccountsStep, AttemptsStep
  <2> QED
    BY <2>2 DEF CreditInv
<1>3. CreditInv => CreditTypeOK /\ SpendBounded /\ SentIsAccounted /\ DrawsOneCost
                     /\ RecordsFollowLedger
  BY CreditInvSafe
<1>4. CreditInv /\ [CreditNext]_creditVars =>
        [\A i \in CallIds :
           ledger[i].status = "none" /\ ledger'[i].status = "open" =>
             /\ plan.live /\ ledger'[i].ref = plan.ref
             /\ \E c \in Chats : turn[c].ref = plan.ref /\ turn[c].entry = i[1]]_creditVars
  <2> SUFFICES ASSUME CreditInv, [CreditNext]_creditVars
               PROVE  \A i \in CallIds :
                        ledger[i].status = "none" /\ ledger'[i].status = "open" =>
                          /\ plan.live /\ ledger'[i].ref = plan.ref
                          /\ \E c \in Chats : turn[c].ref = plan.ref /\ turn[c].entry = i[1]
    OBVIOUS
  <2>1. Tables /\ Books /\ Attempts
    BY DEF CreditInv
  <2> QED
    BY <2>1, LedgerGrows
<1> QED
  BY <1>1, <1>2, <1>3, <1>4, PTL DEF CreditSpec, CreditSafe, FundedWhenHeld
=============================================================================
