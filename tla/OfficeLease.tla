---------------------------- MODULE OfficeLease ----------------------------
(***************************************************************************)
(* One staff member's authentication lease on an office Home,              *)
(* src/crates/app/src/office_staff_lease.rs with its custody and its       *)
(* action authority.  Each request has the sign-in service check the       *)
(* bearer outside the Home mutex and then applies the answer under it, so  *)
(* answers are applied in any order.  The lease is a chain of durable      *)
(* records and a process-local bound on a monotonic clock; work runs under *)
(* a read basis bound to an authority that was admitted earlier.           *)
(*                                                                         *)
(* The sign-in service, the Home admission and the organization's records  *)
(* are external.  Account, method and mint of a session are one identity;  *)
(* membership and the single-sign-on rule are one standing.                *)
(***************************************************************************)
EXTENDS Naturals, Sequences, FiniteSets

CONSTANTS
  Identities,   \* what the service may say of the session: account, method, mint
  Policies,     \* session bounds [abs, idle] an administrator may set
  Outage,       \* how long a verified lease runs without the service
  MaxAge,       \* oldest proof accepted
  Expiry,       \* when the session expires at the service
  Never,        \* an unset bound: later than every clock reading
  MaxWall,      \* bound on the wall clock
  Settings,     \* what the wall clock may be set to
  MaxChecks,    \* bound on checks in flight
  MaxRev,       \* bound on lease revisions
  MaxOrg,       \* bound on organization changes
  MaxEpoch,     \* bound on restarts
  Faults        \* "back": the wall clock is set back; "restore": an old snapshot

ASSUME LeaseAssumption ==
  /\ {Outage, MaxAge, Expiry, MaxWall, MaxChecks, MaxRev, MaxOrg, MaxEpoch} \subseteq Nat
  /\ MaxWall > 0
  /\ Never \in Nat /\ Never > MaxWall + Outage /\ Never > Expiry
  /\ \A p \in Policies : p.abs \in 1 .. Never /\ p.idle \in 1 .. Never
  /\ Settings \subseteq 1 .. MaxWall
  /\ Faults \subseteq {"back", "restore"}

VARIABLES
  wall, elapsed,      \* wall clock; monotonic time since the service started
  epoch, startedAt,   \* this service instance and the wall clock at its start
  live,               \* its bound: revoked, revision, monotonic end
  log,                \* the retained lease records
  standing, policy, orgHead,   \* the organization's records
  hub, checks,        \* the sign-in service, and its answers on the way
  auth, work,         \* an action authority, and the basis of bound work
  proved,             \* history: elapsed at the last proof this instance took
  ended               \* history: an end in the records, acknowledged

clock == <<wall, elapsed>>
org == <<standing, policy, orgHead>>
service == <<epoch, startedAt>>
leaseHistory == <<proved, ended>>
leaseVars == <<clock, service, live, log, org, hub, checks, auth, work, leaseHistory>>

LeaseNone == [none |-> TRUE]
Least(a, b) == IF a <= b THEN a ELSE b
Latest(a, b) == IF a >= b THEN a ELSE b

LeaseInit ==
  /\ wall = 1 /\ elapsed = 0 /\ epoch = 0 /\ startedAt = 1
  /\ live = LeaseNone /\ log = <<>>
  /\ standing = TRUE /\ policy \in Policies /\ orgHead = 0
  /\ hub \in Identities /\ checks = {}
  /\ auth = LeaseNone /\ work = LeaseNone
  /\ proved = {} /\ ended = FALSE

(* ---- clocks and records ---- *)

\* The wall clock, never behind the monotonic one since the start.
Now == Latest(wall, startedAt + elapsed)

Record == log[Len(log)]

Deadline(r) ==
  Least(Least(r.verified + Outage, r.expiry), Least(r.abs, r.activity + r.idle))

Tighten(r, p) ==
  [r EXCEPT !.abs = Least(@, r.started + p.abs), !.idle = Least(@, p.idle)]

ValidRecord(r) ==
  /\ r.started <= r.activity /\ r.started <= r.verified
  /\ r.activity <= r.observed /\ r.verified <= r.observed

\* A failed commit leaves the store as it was.
LeasePublish(r, ok) == log' = IF ok THEN Append(log, r) ELSE log

Bound(r) ==
  [revoked |-> FALSE, rev |-> r.rev, end |-> elapsed + (Deadline(r) - Now)]

Tombstone(r) == [revoked |-> TRUE, rev |-> r.rev, end |-> 0]

\* current_at
Current ==
  /\ live # LeaseNone /\ log # <<>>
  /\ ~ live.revoked /\ ~ Record.revoked
  /\ Now >= Record.observed /\ Record.rev >= live.rev
  /\ elapsed < live.end
  /\ standing /\ Deadline(Tighten(Record, policy)) > Now

(* ---- revocation: the process first, then the record ---- *)

Revoked(r) ==
  [r EXCEPT !.revoked = TRUE, !.observed = Latest(@, Now), !.rev = @ + 1]

\* Mutant: the durable record alone ends the lease.
RevokeAt_DurableOnly(ok) ==
  /\ live' = live
  /\ log' = IF log = <<>> \/ Record.revoked \/ ~ ok THEN log
            ELSE Append(log, Revoked(Record))
  /\ ended' = (ended \/ (log # <<>> /\ (Record.revoked \/ ok)))

RevokeAt(ok) ==
  /\ IF log = <<>> \/ (~ Record.revoked /\ ~ ok)
       THEN /\ live' = IF live = LeaseNone THEN LeaseNone ELSE [live EXCEPT !.revoked = TRUE]
            /\ UNCHANGED log
       ELSE LET r == IF Record.revoked THEN Record ELSE Revoked(Record)
            IN  /\ live' = Tombstone(r)
                /\ log' = IF Record.revoked THEN log ELSE Append(log, r)
  /\ ended' = (ended \/ (log # <<>> /\ (Record.revoked \/ ok)))

\* revoke: an administrator, or the person, ends the lease.
Revoke(ok) ==
  /\ Len(log) < MaxRev
  /\ RevokeAt(ok)
  /\ UNCHANGED <<clock, service, org, hub, checks, auth, work, proved>>

(* ---- observing an answer ---- *)

Fresh(c) == c.at >= startedAt /\ c.at <= Now /\ Now - c.at <= MaxAge

Renewable(old, c) ==
  /\ Now >= old.observed /\ Now < old.abs
  /\ Now < old.activity + old.idle
  /\ c.at >= old.verified

\* The record a proof admits: activity and the start of the lease are kept.
Proven(c) ==
  LET base == IF log # <<>> THEN [Record EXCEPT !.rev = @ + 1]
              ELSE [who |-> c.who, started |-> c.at, activity |-> c.at,
                    verified |-> c.at, observed |-> Now, expiry |-> Expiry,
                    abs |-> Never, idle |-> Never, rev |-> 0, revoked |-> FALSE]
  IN  Tighten([base EXCEPT !.verified = c.at, !.observed = Now, !.expiry = Expiry],
              policy)

Admissible(c) ==
  /\ live # LeaseNone => log # <<>> /\ Record.rev >= live.rev
  /\ standing
  /\ log # <<>> => Renewable(Record, c)
  /\ ValidRecord(Proven(c)) /\ Deadline(Proven(c)) > Now

Refuse == UNCHANGED <<live, log, leaseHistory>>

AcceptProof(c, ok) ==
  /\ LeasePublish(Proven(c), ok)
  /\ IF ok THEN live' = Bound(Proven(c)) /\ proved' = {elapsed}
           ELSE UNCHANGED <<live, proved>>
  /\ UNCHANGED ended

ObserveVerified(c, ok) ==
  IF ~ Fresh(c) \/ (live # LeaseNone /\ live.revoked) THEN Refuse
  ELSE IF log # <<>> /\ Record.revoked
         THEN live' = Tombstone(Record) /\ UNCHANGED <<log, leaseHistory>>
  ELSE IF log # <<>> /\ Record.who # c.who THEN RevokeAt(ok) /\ UNCHANGED proved
  ELSE IF Admissible(c) THEN AcceptProof(c, ok) ELSE Refuse

\* An answer "unavailable" changes nothing: the request goes on with Current.
Observe(c, ok) ==
  /\ Len(log) < MaxRev
  /\ checks' = checks \ {c}
  /\ IF c.answer = "refused"
       THEN /\ RevokeAt(ok)
            /\ UNCHANGED proved
       ELSE ObserveVerified(c, ok)
  /\ UNCHANGED <<clock, service, org, hub, auth, work>>

(* ---- authority and work ---- *)

LeaseDeadline == Deadline(Tighten(Record, policy))

\* The process-local ceiling `prepare` captures.
PreparedEnd == Least(live.end, elapsed + (LeaseDeadline - Now))

\* action_context: prepare, and a fresh Home admission for this lease.
ActionContext ==
  /\ Current /\ auth = LeaseNone
  /\ auth' = [epoch |-> epoch, admitted |-> TRUE, deadline |-> LeaseDeadline,
              end |-> PreparedEnd]
  /\ UNCHANGED <<clock, service, live, log, org, hub, checks, work, leaseHistory>>

ProcessActive_NoClock(a) == a.epoch = epoch /\ ~ live.revoked /\ a.admitted

ProcessActive(a) ==
  a.epoch = epoch /\ ~ live.revoked /\ a.admitted /\ elapsed < a.end

\* revalidate: a newer record may shorten the authority.
AuthorityDeadline == Least(auth.deadline, LeaseDeadline)

Revalidated ==
  /\ ProcessActive(auth)
  /\ log # <<>> /\ ~ Record.revoked /\ Record.rev >= live.rev
  /\ Now >= Record.observed /\ standing
  /\ AuthorityDeadline > Now

\* The scopes the basis fences: the lease and the organization.
Heads == <<Len(log), orgHead>>

BindBasis ==
  /\ auth # LeaseNone /\ work = LeaseNone /\ Revalidated
  /\ work' = [epoch |-> auth.epoch, admitted |-> TRUE, heads |-> Heads,
              deadline |-> AuthorityDeadline, rev |-> live.rev,
              end |-> Least(auth.end, elapsed + (AuthorityDeadline - Now))]
  /\ UNCHANGED <<clock, service, live, log, org, hub, checks, auth, leaseHistory>>

\* The writer fence: heads, the wall-clock ceiling and the process guards.
BasisHolds ==
  /\ work # LeaseNone
  /\ work.heads = Heads /\ wall < work.deadline
  /\ ProcessActive(work) /\ live.rev = work.rev

RunWork ==
  /\ BasisHolds
  /\ work' = LeaseNone
  /\ UNCHANGED <<clock, service, live, log, org, hub, checks, auth, leaseHistory>>

Touched_Verified ==
  [Tighten(Record, policy) EXCEPT !.activity = Now, !.observed = Now,
                                  !.verified = Now, !.rev = @ + 1]

Touched ==
  [Tighten(Record, policy) EXCEPT !.activity = Now, !.observed = Now, !.rev = @ + 1]

\* touch_admitted: user activity, under the basis of the admitted act.
TouchAdmitted(ok) ==
  /\ Len(log) < MaxRev
  /\ BasisHolds /\ Current
  /\ LeasePublish(Touched, ok)
  /\ live' = IF ok THEN Bound(Touched) ELSE live
  /\ work' = LeaseNone
  /\ UNCHANGED <<clock, service, org, hub, checks, auth, leaseHistory>>

(* ---- the rest of the Home ---- *)

RevokeAdmission ==
  /\ auth # LeaseNone
  /\ auth' = LeaseNone
  /\ work' = IF work = LeaseNone THEN LeaseNone ELSE [work EXCEPT !.admitted = FALSE]
  /\ UNCHANGED <<clock, service, live, log, org, hub, checks, leaseHistory>>

\* A request's authority or unbound work is simply dropped.
DropWork ==
  /\ work # LeaseNone /\ work' = LeaseNone /\ auth' = LeaseNone
  /\ UNCHANGED <<clock, service, live, log, org, hub, checks, leaseHistory>>

SetStanding(s) ==
  /\ orgHead < MaxOrg /\ s # standing
  /\ standing' = s /\ orgHead' = orgHead + 1
  /\ UNCHANGED <<clock, service, live, log, policy, hub, checks, auth, work, leaseHistory>>

SetPolicy(p) ==
  /\ orgHead < MaxOrg /\ p # policy
  /\ policy' = p /\ orgHead' = orgHead + 1
  /\ UNCHANGED <<clock, service, live, log, standing, hub, checks, auth, work, leaseHistory>>

\* A new service: authorities of the old one survive only as values.
Restart ==
  /\ epoch < MaxEpoch
  /\ epoch' = epoch + 1 /\ startedAt' = wall /\ elapsed' = 0
  /\ live' = LeaseNone /\ proved' = {} /\ checks' = {}
  /\ ended' = (ended /\ log # <<>> /\ Record.revoked)
  /\ UNCHANGED <<wall, log, org, hub, auth, work>>

\* An older row set is restored behind the running Home.  Only a Home that saw
\* the newer rows can know of a revocation they held.
Restore(n) ==
  /\ "restore" \in Faults
  /\ log' = SubSeq(log, 1, n)
  /\ ended' = (ended /\ live # LeaseNone)
  /\ UNCHANGED <<clock, service, live, org, hub, checks, auth, work, proved>>

Tick ==
  /\ wall < MaxWall /\ startedAt + elapsed < MaxWall
  /\ wall' = wall + 1 /\ elapsed' = elapsed + 1
  /\ UNCHANGED <<service, live, log, org, hub, checks, auth, work, leaseHistory>>

SetClock(t) ==
  /\ t # wall /\ (t > wall \/ "back" \in Faults)
  /\ wall' = t
  /\ UNCHANGED <<elapsed, service, live, log, org, hub, checks, auth, work, leaseHistory>>

(* ---- the sign-in service ---- *)

Answer ==
  IF hub \in Identities /\ wall < Expiry
    THEN [answer |-> "verified", who |-> hub, at |-> wall]
    ELSE [answer |-> "refused"]

Check ==
  /\ Cardinality(checks) < MaxChecks
  /\ checks' = checks \union {Answer}
  /\ UNCHANGED <<clock, service, live, log, org, hub, auth, work, leaseHistory>>

HubChanges(h) ==
  /\ hub \in Identities /\ h # hub
  /\ hub' = h
  /\ UNCHANGED <<clock, service, live, log, org, checks, auth, work, leaseHistory>>

LeaseNext ==
  \/ \E ok \in BOOLEAN : Revoke(ok) \/ TouchAdmitted(ok)
  \/ \E c \in checks, ok \in BOOLEAN : Observe(c, ok)
  \/ ActionContext \/ BindBasis \/ RunWork
  \/ RevokeAdmission \/ DropWork
  \/ \E s \in BOOLEAN : SetStanding(s)
  \/ \E p \in Policies : SetPolicy(p)
  \/ Restart \/ Tick \/ Check
  \/ \E n \in 0 .. Len(log) - 1 : Restore(n)
  \/ \E t \in Settings : SetClock(t)
  \/ \E h \in Identities \union {"gone"} : HubChanges(h)

LeaseSpec == LeaseInit /\ [][LeaseNext]_leaseVars

(* ---- properties ---- *)

Times == 0 .. MaxWall + Outage
Bounds == 1 .. Never
Records ==
  [who : Identities, started : Times, activity : Times, verified : Times,
   observed : Times, expiry : {Expiry}, abs : Bounds, idle : Bounds,
   rev : 0 .. MaxRev, revoked : BOOLEAN]

\* The types of the lease; and the retained chain is one `load` accepts: it
\* starts unrevoked, counts up, and neither clocks nor bounds go backwards.
LeaseTypeOK ==
  /\ wall \in 1 .. MaxWall /\ elapsed \in 0 .. MaxWall /\ epoch \in 0 .. MaxEpoch
  /\ live = LeaseNone \/ live \in [revoked : BOOLEAN, rev : 0 .. MaxRev, end : 0 .. Never]
  /\ \A i \in DOMAIN log :
       /\ log[i] \in Records /\ log[i].rev = i - 1 /\ ValidRecord(log[i])
       /\ i = 1 => ~ log[i].revoked
       /\ i > 1 =>
            LET old == log[i - 1] IN
            /\ old.revoked => log[i].revoked
            /\ old.activity <= log[i].activity /\ old.verified <= log[i].verified
            /\ old.observed <= log[i].observed
            /\ log[i].abs <= old.abs /\ log[i].idle <= old.idle

\* Work runs only within the outage window of a proof this service instance
\* took, counted in real time: activity does not stretch it, and a restarted
\* Home runs nothing before a fresh proof (with_process_guard in bind_basis).
WorkWithinOutage ==
  [][RunWork => \E t \in proved : elapsed - t < Outage]_leaseVars

\* Work runs only for a person in standing and inside the bounds the
\* organization sets at that moment, whatever became of the wall clock
\* (bind_basis fences the organization's scope and a monotonic end).
WorkInsideBounds ==
  [][RunWork => standing /\ Now < Deadline(Tighten(Record, policy))]_leaseVars

\* Once a revocation or a refusal of a retained lease is acknowledged, no work
\* runs: not work bound before it, not after a late proof, a restored older
\* snapshot or a restart (revoke_at marks the process and the record).
RevocationFinal == [][RunWork => ~ ended]_leaseVars

\* A lease whose published absolute or idle bound has passed stays lapsed, and
\* neither a proof nor a looser policy nor a restart lets its work run.
Lapsed == log # <<>> /\ Now >= Least(Record.abs, Record.activity + Record.idle)
LapseFinal == [][Lapsed => Lapsed' /\ ~ RunWork]_leaseVars

\* The lease in time: its records only tighten, a bound that has passed stays
\* passed, and work stays in the window of a proof and inside the bounds of
\* the moment (touch_at, observe_at, bind_basis).
LeaseBounded ==
  []LeaseTypeOK /\ LapseFinal /\ WorkWithinOutage /\ WorkInsideBounds
=============================================================================
