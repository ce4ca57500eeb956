----------------------------- MODULE DeskProofs -----------------------------
(***************************************************************************)
(* Proofs about the staff lease of an office Home (OfficeLease) and about  *)
(* streamed uploads (StreamedUpload).                                      *)
(***************************************************************************)
EXTENDS OfficeLease, StreamedUpload, Integers, SequenceTheorems, TLAPS

(* The lease: types *)

Lives == [revoked : BOOLEAN, rev : 0 .. MaxRev, end : 0 .. Never]
Proofs == [answer : {"verified"}, who : Identities, at : 1 .. MaxWall]
Auths == [epoch : 0 .. MaxEpoch, admitted : BOOLEAN, deadline : Int, end : Int]
Works == [epoch : 0 .. MaxEpoch, admitted : BOOLEAN, heads : Nat \X Nat, deadline : Int,
          rev : Int, end : Int]

(* What the next record of the chain keeps of the one before it. *)
Succeeds(old, r) ==
  /\ old.revoked => r.revoked
  /\ old.activity <= r.activity /\ old.verified <= r.verified
  /\ old.observed <= r.observed
  /\ r.abs <= old.abs /\ r.idle <= old.idle

(* A record fits at its place in the chain. *)
Fits(l, i) ==
  /\ l[i].rev = i - 1 /\ ValidRecord(l[i])
  /\ i = 1 => ~ l[i].revoked
  /\ i > 1 => Succeeds(l[i - 1], l[i])

Chain(l) == l \in Seq(Records) /\ Len(l) <= MaxRev /\ \A i \in 1 .. Len(l) : Fits(l, i)

ClockOK ==
  /\ wall \in 1 .. MaxWall /\ elapsed \in 0 .. MaxWall /\ epoch \in 0 .. MaxEpoch
  /\ startedAt \in 1 .. MaxWall /\ startedAt + elapsed <= MaxWall

RestOK ==
  /\ live \in Lives \cup {LeaseNone}
  /\ standing \in BOOLEAN /\ policy \in Policies /\ orgHead \in Nat
  /\ checks \subseteq Proofs \cup {[answer |-> "refused"]}
  /\ auth \in Auths \cup {LeaseNone} /\ work \in Works \cup {LeaseNone}

(* An authority or a basis of this instance was given while it had a bound. *)
GivenLive ==
  /\ auth # LeaseNone => auth.epoch <= epoch /\ (auth.epoch = epoch => live # LeaseNone)
  /\ work # LeaseNone => work.epoch <= epoch /\ (work.epoch = epoch => live # LeaseNone)

LeaseTypes == ClockOK /\ RestOK /\ Chain(log) /\ GivenLive

LEMMA LeaseNatural ==
  /\ Outage \in Nat /\ MaxAge \in Nat /\ Expiry \in Nat /\ MaxWall \in Nat /\ MaxRev \in Nat
  /\ MaxOrg \in Nat /\ MaxEpoch \in Nat /\ MaxWall > 0
  /\ Never \in Nat /\ Never > MaxWall + Outage /\ Never > Expiry
  /\ \A p \in Policies : p.abs \in 1 .. Never /\ p.idle \in 1 .. Never
  /\ Settings \subseteq 1 .. MaxWall
BY LeaseAssumption DEF LeaseAssumption

(* An absent value is told from a record by its field. *)
LEMMA NotNone ==
  /\ LeaseNone \notin Lives /\ LeaseNone \notin Auths /\ LeaseNone \notin Works
  /\ \A x, y, z : [revoked |-> x, rev |-> y, end |-> z] # LeaseNone
BY DEF LeaseNone, Lives, Auths, Works

LEMMA NowType ==
  ASSUME ClockOK
  PROVE  /\ Now \in 1 .. MaxWall /\ Now >= wall /\ Now >= startedAt + elapsed
         /\ Now = wall \/ Now = startedAt + elapsed
BY LeaseNatural DEF ClockOK, Now, Latest

(* A deadline is the earliest of its four bounds. *)
LEMMA DeadlineOf ==
  ASSUME NEW r \in Records
  PROVE  /\ Deadline(r) \in Nat /\ Deadline(r) <= MaxWall + Outage + Outage
         /\ Deadline(r) <= r.verified + Outage /\ Deadline(r) <= r.abs
         /\ Deadline(r) <= r.activity + r.idle /\ Deadline(r) <= r.expiry
         /\ \A d \in Int : d <= r.verified + Outage /\ d <= r.abs /\ d <= r.activity + r.idle
                             /\ d <= r.expiry => d <= Deadline(r)
<1>1. /\ r.verified \in Nat /\ r.verified <= MaxWall + Outage /\ r.abs \in Nat
      /\ r.activity \in Nat /\ r.idle \in Nat /\ r.expiry \in Nat
  BY LeaseNatural DEF Records, Times, Bounds
<1> QED
  BY <1>1, LeaseNatural DEF Deadline, Least

LEMMA TightenFields ==
  ASSUME NEW r \in Records, NEW p \in Policies
  PROVE  /\ Tighten(r, p) \in Records
         /\ Tighten(r, p).who = r.who /\ Tighten(r, p).started = r.started
         /\ Tighten(r, p).activity = r.activity /\ Tighten(r, p).verified = r.verified
         /\ Tighten(r, p).observed = r.observed /\ Tighten(r, p).expiry = r.expiry
         /\ Tighten(r, p).rev = r.rev /\ Tighten(r, p).revoked = r.revoked
         /\ Tighten(r, p).abs <= r.abs /\ Tighten(r, p).idle <= r.idle
<1>1. p.abs \in 1 .. Never /\ p.idle \in 1 .. Never
  BY LeaseNatural
<1>2. r.started \in Nat /\ r.abs \in Bounds /\ r.idle \in Bounds
  BY LeaseNatural DEF Records, Times
<1>3. /\ Least(r.abs, r.started + p.abs) \in Bounds /\ Least(r.abs, r.started + p.abs) <= r.abs
      /\ Least(r.idle, p.idle) \in Bounds /\ Least(r.idle, p.idle) <= r.idle
  BY <1>1, <1>2, LeaseNatural DEF Least, Bounds
<1> DEFINE a == Least(r.abs, r.started + p.abs)
           d == Least(r.idle, p.idle)
<1>4. Tighten(r, p) = [r EXCEPT !.abs = a, !.idle = d]
  BY DEF Tighten, Records
<1> HIDE DEF a, d
<1>5. a \in Bounds /\ d \in Bounds /\ a <= r.abs /\ d <= r.idle
  BY <1>3 DEF a, d
<1> QED
  BY <1>4, <1>5 DEF Records

-----------------------------------------------------------------------------
(* The chain of records *)

LEMMA ChainLast ==
  ASSUME Chain(log), log # <<>>
  PROVE  /\ Record \in Records /\ Record.rev = Len(log) - 1 /\ ValidRecord(Record)
         /\ Len(log) \in 1 .. MaxRev
<1>1. Len(log) \in 1 .. Len(log) /\ Len(log) \in Nat /\ Len(log) <= MaxRev
  BY EmptySeq DEF Chain
<1> QED
  BY <1>1, ElementOfSeq, LeaseNatural DEF Chain, Record, Fits

LEMMA ChainGrows ==
  ASSUME NEW l, Chain(l), Len(l) < MaxRev, NEW r \in Records, r.rev = Len(l), ValidRecord(r),
         l = <<>> => ~ r.revoked, l # <<>> => Succeeds(l[Len(l)], r)
  PROVE  Chain(Append(l, r))
<1> DEFINE m == Append(l, r)
<1>1. l \in Seq(Records) /\ Len(l) \in Nat
  BY DEF Chain
<1>2. /\ m \in Seq(Records) /\ Len(m) = Len(l) + 1 /\ m[Len(l) + 1] = r
      /\ \A i \in 1 .. Len(l) : m[i] = l[i]
  BY <1>1, AppendProperties
<1> HIDE DEF m
<1>3. ASSUME NEW i \in 1 .. Len(l) PROVE Fits(m, i)
  <2>1. Fits(l, i) /\ m[i] = l[i]
    BY <1>2 DEF Chain
  <2>2. i > 1 => i - 1 \in 1 .. Len(l)
    BY <1>1
  <2>3. i > 1 => m[i - 1] = l[i - 1]
    BY <1>2, <2>2
  <2> QED
    BY <2>1, <2>3 DEF Fits
<1>4. Fits(m, Len(l) + 1)
  <2>1. Len(l) + 1 > 1 => Len(l) \in 1 .. Len(l) /\ l # <<>>
    BY <1>1
  <2>2. Len(l) + 1 > 1 => m[Len(l)] = l[Len(l)]
    BY <1>2, <2>1
  <2>3. Len(l) = 0 => l = <<>>
    BY <1>1
  <2> QED
    BY <1>1, <1>2, <2>1, <2>2, <2>3 DEF Fits
<1>5. \A i \in 1 .. Len(m) : Fits(m, i)
  <2> SUFFICES ASSUME NEW i \in 1 .. Len(m) PROVE Fits(m, i)
    OBVIOUS
  <2>1. i \in 1 .. Len(l) \/ i = Len(l) + 1
    BY <1>1, <1>2
  <2> QED
    BY <1>3, <1>4, <2>1
<1>6. Len(m) <= MaxRev
  BY <1>1, <1>2, LeaseNatural
<1>7. Chain(m)
  BY <1>2, <1>5, <1>6 DEF Chain
<1> QED
  BY <1>7 DEF m

LEMMA ChainShrinks ==
  ASSUME NEW l, Chain(l), NEW n \in 0 .. Len(l) - 1
  PROVE  Chain(SubSeq(l, 1, n)) /\ Len(SubSeq(l, 1, n)) = n
<1> DEFINE m == SubSeq(l, 1, n)
<1>1. l \in Seq(Records) /\ Len(l) \in Nat /\ Len(l) <= MaxRev
  BY DEF Chain
<1>2. m \in Seq(Records) /\ Len(m) = n /\ \A i \in 1 .. n : m[i] = l[i]
  <2>1. 1 \in 1 .. Len(l) + 1 /\ n \in 0 .. Len(l) /\ n \in Nat
    BY <1>1
  <2> QED
    BY <1>1, <2>1, SubSeqProperties
<1> HIDE DEF m
<1>3. ASSUME NEW i \in 1 .. n PROVE Fits(m, i)
  <2>1. i \in 1 .. Len(l)
    BY <1>1
  <2>2. i > 1 => i - 1 \in 1 .. n
    OBVIOUS
  <2>3. m[i] = l[i] /\ (i > 1 => m[i - 1] = l[i - 1])
    BY <1>2, <2>2
  <2>4. Fits(l, i)
    BY <2>1 DEF Chain
  <2> QED
    BY <2>3, <2>4 DEF Fits
<1>4. Chain(m)
  BY <1>1, <1>2, <1>3, LeaseNatural DEF Chain
<1> QED
  BY <1>2, <1>4 DEF m
-----------------------------------------------------------------------------
(* The records the operations write *)

LEMMA RevokedFields ==
  ASSUME ClockOK, Chain(log), log # <<>>, Len(log) < MaxRev
  PROVE  LET r == Revoked(Record) IN
         /\ r \in Records /\ r.rev = Len(log) /\ ValidRecord(r) /\ r.revoked = TRUE
         /\ Succeeds(Record, r)
         /\ r.abs = Record.abs /\ r.activity = Record.activity /\ r.idle = Record.idle
<1> DEFINE o == Latest(Record.observed, Now)
           v == Record.rev + 1
<1>1. Record \in Records /\ Record.rev = Len(log) - 1 /\ ValidRecord(Record)
      /\ Len(log) \in 1 .. MaxRev
  BY ChainLast
<1>2. Now \in 1 .. MaxWall /\ Record.observed \in Times
  BY <1>1, NowType DEF Records
<1>3. o \in Times /\ o >= Record.observed
  BY <1>2, LeaseNatural DEF Latest, Times
<1>4. v \in 0 .. MaxRev /\ v = Len(log)
  BY <1>1, LeaseNatural
<1>5. Revoked(Record) = [Record EXCEPT !.revoked = TRUE, !.observed = o, !.rev = v]
  BY <1>1 DEF Revoked, Records
<1> HIDE DEF o, v
<1>6. /\ Revoked(Record) \in Records /\ Revoked(Record).rev = v /\ Revoked(Record).revoked = TRUE
      /\ Revoked(Record).observed = o
      /\ Revoked(Record).started = Record.started /\ Revoked(Record).activity = Record.activity
      /\ Revoked(Record).verified = Record.verified /\ Revoked(Record).abs = Record.abs
      /\ Revoked(Record).idle = Record.idle
  BY <1>1, <1>3, <1>4, <1>5 DEF Records
<1>7. /\ Record.started \in Nat /\ Record.activity \in Nat /\ Record.verified \in Nat
      /\ Record.observed \in Nat /\ o \in Nat /\ Record.abs \in Nat /\ Record.idle \in Nat
  BY <1>1, <1>3, LeaseNatural DEF Records, Times, Bounds
<1>8. ValidRecord(Revoked(Record))
  BY <1>1, <1>3, <1>6, <1>7 DEF ValidRecord
<1>9. Succeeds(Record, Revoked(Record))
  BY <1>3, <1>6, <1>7 DEF Succeeds
<1> QED
  BY <1>4, <1>6, <1>8, <1>9

(* A proof: the chain's last record, or a first one, verified now. *)
LEMMA ProvenFields ==
  ASSUME LeaseTypes, Len(log) < MaxRev, NEW c \in Proofs, Fresh(c),
         log # <<>> => ~ Record.revoked
  PROVE  LET r == Proven(c) IN
         /\ r \in Records /\ r.rev = Len(log) /\ ~ r.revoked
         /\ r.verified = c.at /\ r.observed = Now
         /\ log # <<>> => r.activity = Record.activity /\ r.abs <= Record.abs /\ r.idle <= Record.idle
<1> DEFINE none == [who |-> c.who, started |-> c.at, activity |-> c.at,
                    verified |-> c.at, observed |-> Now, expiry |-> Expiry,
                    abs |-> Never, idle |-> Never, rev |-> 0, revoked |-> FALSE]
           base == IF log # <<>> THEN [Record EXCEPT !.rev = @ + 1] ELSE none
           seen == [base EXCEPT !.verified = c.at, !.observed = Now, !.expiry = Expiry]
<1>1. c.at \in Times /\ c.who \in Identities /\ Now \in Times
  BY LeaseNatural, NowType DEF Proofs, Times, LeaseTypes
<1>2. none \in Records
  BY <1>1, LeaseNatural DEF Records, Bounds
<1>3. log # <<>> =>
        /\ [Record EXCEPT !.rev = Len(log)] \in Records
        /\ [Record EXCEPT !.rev = @ + 1] = [Record EXCEPT !.rev = Len(log)]
        /\ Record \in Records
  <2> SUFFICES ASSUME log # <<>>
               PROVE  /\ [Record EXCEPT !.rev = Len(log)] \in Records
                      /\ [Record EXCEPT !.rev = @ + 1] = [Record EXCEPT !.rev = Len(log)]
                      /\ Record \in Records
    OBVIOUS
  <2>1. Record \in Records /\ Record.rev = Len(log) - 1 /\ Len(log) \in 1 .. MaxRev
    BY ChainLast DEF LeaseTypes
  <2>2. Len(log) \in 0 .. MaxRev /\ Record.rev + 1 = Len(log)
    BY <2>1, LeaseNatural
  <2> QED
    BY <2>1, <2>2 DEF Records
<1>4. /\ base \in Records /\ base.rev = Len(log) /\ base.revoked = FALSE
      /\ log # <<>> => base.activity = Record.activity /\ base.abs = Record.abs
                         /\ base.idle = Record.idle
  <2>1. CASE log = <<>>
    BY <1>2, <2>1
  <2>2. CASE log # <<>>
    <3>1. base = [Record EXCEPT !.rev = Len(log)]
      BY <1>3, <2>2
    <3>2. Record.revoked \in BOOLEAN /\ ~ Record.revoked
      BY <1>3, <2>2 DEF Records
    <3> HIDE DEF base
    <3> QED
      BY <1>3, <2>2, <3>1, <3>2 DEF Records
  <2> QED
    BY <2>1, <2>2
<1>5. Proven(c) = Tighten(seen, policy)
  BY DEF Proven
<1> HIDE DEF base
<1>6. /\ seen \in Records /\ seen.rev = Len(log) /\ seen.revoked = FALSE
      /\ seen.verified = c.at /\ seen.observed = Now
      /\ log # <<>> => seen.activity = Record.activity /\ seen.abs = Record.abs
                         /\ seen.idle = Record.idle
  BY <1>1, <1>4 DEF Records
<1> HIDE DEF seen
<1>7. policy \in Policies
  BY DEF LeaseTypes, RestOK
<1> QED
  BY <1>5, <1>6, <1>7, TightenFields

LEMMA TouchedFields ==
  ASSUME LeaseTypes, log # <<>>, Len(log) < MaxRev
  PROVE  LET r == Touched IN
         /\ r \in Records /\ r.rev = Len(log) /\ r.revoked = Record.revoked
         /\ r.verified = Record.verified /\ r.observed = Now /\ r.activity = Now
         /\ r.started = Record.started /\ r.abs <= Record.abs /\ r.idle <= Record.idle
<1> DEFINE t == Tighten(Record, policy)
<1>1. Record \in Records /\ Record.rev = Len(log) - 1 /\ Len(log) \in 1 .. MaxRev
  BY ChainLast DEF LeaseTypes
<1>2. policy \in Policies /\ Now \in Times
  BY LeaseNatural, NowType DEF LeaseTypes, RestOK, Times
<1>3. /\ t \in Records /\ t.rev + 1 = Len(log) /\ t.revoked = Record.revoked
      /\ t.verified = Record.verified /\ t.started = Record.started
      /\ t.abs <= Record.abs /\ t.idle <= Record.idle
  BY <1>1, <1>2, TightenFields
<1>4. Touched = [t EXCEPT !.activity = Now, !.observed = Now, !.rev = @ + 1]
  BY DEF Touched
<1> HIDE DEF t
<1>5. Touched = [t EXCEPT !.activity = Now, !.observed = Now, !.rev = Len(log)]
  BY <1>3, <1>4 DEF Records
<1>6. Len(log) \in 0 .. MaxRev
  BY <1>1, LeaseNatural
<1> QED
  BY <1>2, <1>3, <1>5, <1>6 DEF Records

-----------------------------------------------------------------------------
(* Types are kept *)

LEMMA BoundType ==
  ASSUME ClockOK, NEW r \in Records, Deadline(r) > Now
  PROVE  /\ Bound(r) \in Lives /\ Bound(r).rev = r.rev /\ ~ Bound(r).revoked
         /\ Bound(r).end = elapsed + (Deadline(r) - Now)
<1> DEFINE e == elapsed + (Deadline(r) - Now)
<1>1. Deadline(r) \in Nat /\ Deadline(r) <= r.abs /\ r.abs <= Never /\ r.abs \in Nat
  BY DeadlineOf, LeaseNatural DEF Records, Bounds
<1>2. Now \in Nat /\ elapsed \in Nat /\ Now >= elapsed
  BY NowType, LeaseNatural DEF ClockOK
<1>3. e \in 0 .. Never
  BY <1>1, <1>2, LeaseNatural
<1>4. Bound(r) = [revoked |-> FALSE, rev |-> r.rev, end |-> e]
  BY DEF Bound
<1> HIDE DEF e
<1>5. r.rev \in 0 .. MaxRev
  BY DEF Records
<1> QED
  BY <1>3, <1>4, <1>5 DEF Lives, e

LEMMA TombstoneType ==
  ASSUME NEW r \in Records
  PROVE  Tombstone(r) \in Lives /\ Tombstone(r).revoked = TRUE
BY LeaseNatural DEF Tombstone, Lives, Records

(* A revocation marks the process, and the record when it commits. *)
LEMMA RevokeEffect ==
  ASSUME LeaseTypes, Len(log) < MaxRev, NEW ok \in BOOLEAN, RevokeAt(ok)
  PROVE  /\ live' \in Lives \cup {LeaseNone} /\ Chain(log')
         /\ live' # LeaseNone => live'.revoked = TRUE
         /\ live # LeaseNone => live' # LeaseNone
         /\ log = <<>> => log' = log
         /\ log # <<>> /\ (Record.revoked \/ ok) => live' # LeaseNone
         /\ \/ log' = log
            \/ /\ log # <<>> /\ log' # <<>> /\ Record' = Revoked(Record)
               /\ Record'.revoked = TRUE
         /\ ended' = (ended \/ (log # <<>> /\ (Record.revoked \/ ok)))
<1>1. live \in Lives \cup {LeaseNone} /\ Chain(log) /\ ClockOK
  BY DEF LeaseTypes, RestOK
<1>2. ended' = (ended \/ (log # <<>> /\ (Record.revoked \/ ok)))
  BY DEF RevokeAt
<1>3. CASE log = <<>> \/ (~ Record.revoked /\ ~ ok)
  <2>1. log' = log
        /\ live' = IF live = LeaseNone THEN LeaseNone ELSE [live EXCEPT !.revoked = TRUE]
    BY <1>3 DEF RevokeAt
  <2>2. live # LeaseNone =>
          /\ [live EXCEPT !.revoked = TRUE] \in Lives
          /\ [live EXCEPT !.revoked = TRUE].revoked = TRUE
    BY <1>1 DEF Lives
  <2>3. live # LeaseNone => live' \in Lives /\ live'.revoked = TRUE
    BY <2>1, <2>2
  <2> QED
    BY <1>1, <1>2, <1>3, <2>1, <2>3, NotNone
<1>4. CASE log # <<>> /\ Record.revoked
  <2>1. live' = Tombstone(Record) /\ log' = log /\ Record \in Records
    BY <1>1, <1>4, ChainLast DEF RevokeAt
  <2> QED
    BY <1>1, <1>2, <1>4, <2>1, TombstoneType, NotNone
<1>5. CASE log # <<>> /\ ~ Record.revoked /\ ok
  <2> DEFINE r == Revoked(Record)
  <2>1. live' = Tombstone(r) /\ log' = Append(log, r)
    BY <1>5 DEF RevokeAt
  <2>2. /\ r \in Records /\ r.rev = Len(log) /\ ValidRecord(r) /\ r.revoked = TRUE
        /\ Succeeds(Record, r)
    BY <1>1, <1>5, RevokedFields
  <2> HIDE DEF r
  <2>3. Chain(log')
    BY <1>1, <1>5, <2>1, <2>2, ChainGrows DEF Record
  <2>4. log' # <<>> /\ log'[Len(log')] = r
    BY <1>1, <2>1, <2>2, AppendProperties DEF Chain
  <2>5. Record' = r
    BY <2>4 DEF Record
  <2> QED
    BY <1>2, <1>5, <2>1, <2>2, <2>3, <2>4, <2>5, TombstoneType, NotNone DEF r
<1> QED
  BY <1>3, <1>4, <1>5

(* A proof that is accepted and committed. *)
LEMMA AcceptEffect ==
  ASSUME LeaseTypes, Len(log) < MaxRev, NEW c \in Proofs, Fresh(c),
         log # <<>> => ~ Record.revoked, Admissible(c), AcceptProof(c, TRUE)
  PROVE  /\ Proven(c) \in Records /\ Chain(log') /\ log' = Append(log, Proven(c))
         /\ Record' = Proven(c) /\ Len(log') = Len(log) + 1 /\ log' # <<>>
         /\ live' = Bound(Proven(c)) /\ live' \in Lives /\ ~ live'.revoked
         /\ live'.rev = Len(log)
         /\ live'.end = elapsed + (Deadline(Proven(c)) - Now)
<1> DEFINE r == Proven(c)
<1>1. Chain(log) /\ ClockOK /\ log \in Seq(Records)
  BY DEF LeaseTypes, Chain
<1>2. /\ r \in Records /\ r.rev = Len(log) /\ ~ r.revoked /\ r.verified = c.at /\ r.observed = Now
      /\ log # <<>> => r.activity = Record.activity /\ r.abs <= Record.abs /\ r.idle <= Record.idle
  BY ProvenFields
<1>3. /\ ValidRecord(r) /\ Deadline(r) > Now
      /\ log # <<>> => Now >= Record.observed /\ c.at >= Record.verified
  BY DEF Admissible, Renewable
<1>4. log' = Append(log, r) /\ live' = Bound(r)
  BY DEF AcceptProof, LeasePublish
<1> HIDE DEF r
<1>5. log # <<>> => Succeeds(Record, r)
  <2> SUFFICES ASSUME log # <<>> PROVE Succeeds(Record, r)
    OBVIOUS
  <2>1. Record \in Records
    BY <1>1, ChainLast
  <2>2. Record.activity \in Nat /\ Record.verified \in Nat /\ Record.observed \in Nat
    BY <2>1, LeaseNatural DEF Records, Times
  <2>3. c.at \in Nat
    BY LeaseNatural DEF Proofs
  <2>4. Now \in Nat
    BY <1>1, NowType, LeaseNatural
  <2> QED
    BY <1>2, <1>3, <2>2, <2>3, <2>4 DEF Succeeds
<1>6. Chain(log')
  BY <1>1, <1>2, <1>3, <1>4, <1>5, ChainGrows DEF Record
<1>7. Len(log') = Len(log) + 1 /\ log' # <<>> /\ log'[Len(log')] = r
  BY <1>1, <1>2, <1>4, AppendProperties
<1>8. Record' = r
  BY <1>7 DEF Record
<1>9. live' \in Lives /\ ~ live'.revoked /\ live'.rev = Len(log)
      /\ live'.end = elapsed + (Deadline(r) - Now)
  BY <1>1, <1>2, <1>3, <1>4, BoundType
<1> QED
  BY <1>2, <1>4, <1>6, <1>7, <1>8, <1>9 DEF r

(* Activity of an admitted act that is committed. *)
LEMMA TouchEffect ==
  ASSUME LeaseTypes, TouchAdmitted(TRUE)
  PROVE  /\ log # <<>> /\ Len(log) < MaxRev /\ ~ Record.revoked
         /\ Touched \in Records /\ Chain(log')
         /\ Record' = Touched /\ Len(log') = Len(log) + 1 /\ log' # <<>>
         /\ live' \in Lives /\ ~ live'.revoked
         /\ live'.rev = Len(log)
         /\ live'.end = elapsed + (Deadline(Touched) - Now)
<1> DEFINE r == Touched
<1>1. Chain(log) /\ ClockOK /\ log \in Seq(Records) /\ policy \in Policies
  BY DEF LeaseTypes, Chain, RestOK
<1>2. /\ log # <<>> /\ Len(log) < MaxRev /\ ~ Record.revoked /\ Now >= Record.observed
      /\ Deadline(Tighten(Record, policy)) > Now
  BY DEF TouchAdmitted, Current
<1>3. Record \in Records /\ ValidRecord(Record)
  BY <1>1, <1>2, ChainLast
<1>4. /\ r \in Records /\ r.rev = Len(log) /\ r.revoked = Record.revoked
      /\ r.verified = Record.verified /\ r.observed = Now /\ r.activity = Now
      /\ r.started = Record.started /\ r.abs <= Record.abs /\ r.idle <= Record.idle
  BY <1>2, TouchedFields
<1>5. log' = Append(log, r) /\ live' = Bound(r)
  BY DEF TouchAdmitted, LeasePublish
<1>6. Deadline(r) > Now
  <2> DEFINE t == Tighten(Record, policy)
  <2>1. t \in Records /\ t.verified = Record.verified /\ t.activity = Record.activity
        /\ t.expiry = Record.expiry
    BY <1>1, <1>3, TightenFields
  <2>2. r.abs = t.abs /\ r.idle = t.idle /\ r.expiry = t.expiry
    <3>1. Touched = [t EXCEPT !.activity = Now, !.observed = Now, !.rev = @ + 1]
      BY DEF Touched
    <3> HIDE DEF t
    <3> QED
      BY <2>1, <3>1 DEF Records
  <2>3. Now \in Nat /\ Now + 1 \in Int /\ Record.observed \in Nat /\ Record.activity \in Nat
    BY <1>1, <1>3, NowType, LeaseNatural DEF Records, Times
  <2>4. Record.activity <= Now
    BY <1>2, <1>3, <2>3 DEF ValidRecord
  <2>5. /\ Now + 1 <= t.verified + Outage /\ Now + 1 <= t.abs /\ Now + 1 <= t.activity + t.idle
        /\ Now + 1 <= t.expiry
    <3>1. Deadline(t) \in Nat /\ Deadline(t) >= Now + 1
      BY <1>2, <2>1, <2>3, DeadlineOf
    <3> HIDE DEF t
    <3>2. t.verified \in Nat /\ t.abs \in Nat /\ t.activity \in Nat /\ t.idle \in Nat
          /\ t.expiry \in Nat
      BY <2>1, LeaseNatural DEF Records, Times, Bounds
    <3> QED
      BY <2>1, <2>3, <3>1, <3>2, DeadlineOf, LeaseNatural
  <2> HIDE DEF t, r
  <2>6. t.idle \in Nat /\ t.idle >= 1 /\ t.activity \in Nat
    BY <2>1, LeaseNatural DEF Records, Times, Bounds
  <2>7. Now + 1 <= r.verified + Outage /\ Now + 1 <= r.abs /\ Now + 1 <= r.activity + r.idle
        /\ Now + 1 <= r.expiry
    BY <1>4, <2>1, <2>2, <2>3, <2>4, <2>5, <2>6
  <2>8. Deadline(r) \in Nat /\ Now + 1 <= Deadline(r)
    BY <1>4, <2>3, <2>7, DeadlineOf
  <2> QED
    BY <2>3, <2>8
<1> HIDE DEF r
<1>7. /\ Record.started \in Nat /\ Record.activity \in Nat /\ Record.verified \in Nat
      /\ Record.observed \in Nat /\ Now \in Nat
  BY <1>1, <1>3, NowType, LeaseNatural DEF Records, Times
<1>8. ValidRecord(r)
  BY <1>2, <1>3, <1>4, <1>7 DEF ValidRecord
<1>9. Succeeds(Record, r)
  BY <1>2, <1>3, <1>4, <1>7 DEF Succeeds, ValidRecord
<1>10. Chain(log')
  BY <1>1, <1>2, <1>4, <1>5, <1>8, <1>9, ChainGrows DEF Record
<1>11. Len(log') = Len(log) + 1 /\ log' # <<>> /\ log'[Len(log')] = r
  BY <1>1, <1>4, <1>5, AppendProperties
<1>12. Record' = r
  BY <1>11 DEF Record
<1>13. live' \in Lives /\ ~ live'.revoked /\ live'.rev = Len(log)
       /\ live'.end = elapsed + (Deadline(r) - Now)
  BY <1>1, <1>4, <1>5, <1>6, BoundType
<1> QED
  BY <1>2, <1>4, <1>10, <1>11, <1>12, <1>13 DEF r

(* What applying an answer of the sign-in service may do. *)
LEMMA ObserveCases ==
  ASSUME LeaseTypes, NEW c \in checks, NEW ok \in BOOLEAN, Observe(c, ok)
  PROVE  /\ Len(log) < MaxRev
         /\ UNCHANGED <<clock, service, org, hub, auth, work>> /\ checks' \subseteq checks
         /\ \/ RevokeAt(ok) /\ proved' = proved
            \/ UNCHANGED <<live, log, proved, ended>>
            \/ /\ log # <<>> /\ Record.revoked /\ live' = Tombstone(Record)
               /\ UNCHANGED <<log, proved, ended>>
            \/ /\ c \in Proofs /\ Fresh(c) /\ (log # <<>> => ~ Record.revoked)
               /\ live # LeaseNone => ~ live.revoked
               /\ Admissible(c) /\ AcceptProof(c, TRUE) /\ proved' = {elapsed} /\ ended' = ended
<1>1. /\ Len(log) < MaxRev
      /\ UNCHANGED <<clock, service, org, hub, auth, work>> /\ checks' \subseteq checks
  BY DEF Observe
<1>2. CASE c.answer = "refused"
  BY <1>1, <1>2 DEF Observe
<1>3. CASE c.answer # "refused"
  <2>1. c \in Proofs
    BY <1>3 DEF LeaseTypes, RestOK
  <2>2. ObserveVerified(c, ok)
    BY <1>3 DEF Observe
  <2>3. CASE ~ Fresh(c) \/ (live # LeaseNone /\ live.revoked)
    BY <1>1, <2>2, <2>3 DEF ObserveVerified, Refuse, leaseHistory
  <2>4. CASE /\ Fresh(c) /\ (live # LeaseNone => ~ live.revoked)
             /\ log # <<>> /\ Record.revoked
    BY <1>1, <2>2, <2>4 DEF ObserveVerified, leaseHistory
  <2>5. CASE /\ Fresh(c) /\ (live # LeaseNone => ~ live.revoked)
             /\ (log # <<>> => ~ Record.revoked)
             /\ log # <<>> /\ Record.who # c.who
    BY <1>1, <2>2, <2>5 DEF ObserveVerified
  <2>6. CASE /\ Fresh(c) /\ (live # LeaseNone => ~ live.revoked)
             /\ (log # <<>> => ~ Record.revoked)
             /\ ~ (log # <<>> /\ Record.who # c.who)
    <3>1. Refuse \/ (Admissible(c) /\ AcceptProof(c, ok))
      BY <2>2, <2>6 DEF ObserveVerified
    <3>2. CASE Refuse \/ (AcceptProof(c, ok) /\ ok = FALSE)
      BY <1>1, <3>2 DEF Refuse, leaseHistory, AcceptProof, LeasePublish
    <3>3. CASE Admissible(c) /\ AcceptProof(c, ok) /\ ok = TRUE
      BY <1>1, <2>1, <2>6, <3>3 DEF AcceptProof
    <3> QED
      BY <3>1, <3>2, <3>3
  <2> QED
    BY <2>3, <2>4, <2>5, <2>6
<1> QED
  BY <1>2, <1>3

LEMMA LeaseStart == LeaseInit => LeaseTypes
<1> SUFFICES ASSUME LeaseInit PROVE LeaseTypes
  OBVIOUS
<1>1. ClockOK
  BY LeaseNatural DEF LeaseInit, ClockOK
<1>2. RestOK
  BY DEF LeaseInit, RestOK
<1>3. Chain(log)
  BY LeaseNatural DEF LeaseInit, Chain
<1>4. GivenLive
  BY DEF LeaseInit, GivenLive
<1> QED
  BY <1>1, <1>2, <1>3, <1>4 DEF LeaseTypes

LEMMA LeaseTypeStep ==
  ASSUME LeaseTypes, [LeaseNext]_leaseVars
  PROVE  LeaseTypes'
<1> USE DEF clock, service, org, leaseHistory
<1>1. ASSUME NEW ok \in BOOLEAN, Revoke(ok) PROVE LeaseTypes'
  <2>1. /\ Len(log) < MaxRev /\ RevokeAt(ok)
        /\ UNCHANGED <<clock, service, org, hub, checks, auth, work, proved>>
    BY <1>1 DEF Revoke
  <2>2. live' \in Lives \cup {LeaseNone} /\ Chain(log') /\ (live # LeaseNone => live' # LeaseNone)
    BY <2>1, RevokeEffect
  <2> QED
    BY <2>1, <2>2 DEF LeaseTypes, ClockOK, RestOK, GivenLive
<1>2. ASSUME NEW ok \in BOOLEAN, TouchAdmitted(ok) PROVE LeaseTypes'
  <2>1. UNCHANGED <<clock, service, org, hub, checks, auth, leaseHistory>> /\ work' = LeaseNone
    BY <1>2 DEF TouchAdmitted
  <2>2. live' \in Lives \cup {LeaseNone} /\ Chain(log') /\ (live # LeaseNone => live' # LeaseNone)
    <3>1. CASE ok = TRUE
      BY <1>2, <3>1, TouchEffect, NotNone
    <3>2. CASE ok = FALSE
      BY <1>2, <3>2 DEF TouchAdmitted, LeasePublish, LeaseTypes, RestOK
    <3> QED
      BY <3>1, <3>2
  <2> QED
    BY <2>1, <2>2 DEF LeaseTypes, ClockOK, RestOK, GivenLive
<1>3. ASSUME NEW c \in checks, NEW ok \in BOOLEAN, Observe(c, ok) PROVE LeaseTypes'
  <2>1. /\ Len(log) < MaxRev
        /\ UNCHANGED <<clock, service, org, hub, auth, work>> /\ checks' \subseteq checks
    BY <1>3, ObserveCases
  <2>2. live' \in Lives \cup {LeaseNone} /\ Chain(log') /\ (live # LeaseNone => live' # LeaseNone)
    <3>1. CASE RevokeAt(ok)
      BY <2>1, <3>1, RevokeEffect
    <3>2. CASE UNCHANGED <<live, log>>
      BY <3>2 DEF LeaseTypes, RestOK
    <3>3. CASE log # <<>> /\ live' = Tombstone(Record) /\ log' = log
      BY <3>3, ChainLast, TombstoneType, NotNone DEF LeaseTypes
    <3>4. CASE /\ c \in Proofs /\ Fresh(c) /\ (log # <<>> => ~ Record.revoked)
               /\ Admissible(c) /\ AcceptProof(c, TRUE)
      BY <2>1, <3>4, AcceptEffect, NotNone
    <3> QED
      BY <1>3, <3>1, <3>2, <3>3, <3>4, ObserveCases
  <2>3. checks' \subseteq Proofs \cup {[answer |-> "refused"]}
    BY <2>1 DEF LeaseTypes, RestOK
  <2> QED
    BY <2>1, <2>2, <2>3 DEF LeaseTypes, ClockOK, RestOK, GivenLive
<1>4. CASE ActionContext
  <2>1. /\ Current /\ UNCHANGED <<clock, service, live, log, org, hub, checks, work, leaseHistory>>
        /\ auth' = [epoch |-> epoch, admitted |-> TRUE, deadline |-> LeaseDeadline,
                    end |-> PreparedEnd]
    BY <1>4 DEF ActionContext
  <2>2. Record \in Records /\ live \in Lives /\ policy \in Policies /\ ClockOK
    BY <2>1, ChainLast DEF LeaseTypes, RestOK, Current
  <2>3. LeaseDeadline \in Int
    BY <2>2, TightenFields, DeadlineOf DEF LeaseDeadline
  <2>4. Now \in Int /\ elapsed \in Int /\ live.end \in Int /\ epoch \in 0 .. MaxEpoch
    BY <2>2, NowType, LeaseNatural DEF ClockOK, Lives
  <2>5. PreparedEnd \in Int
    BY <2>3, <2>4 DEF PreparedEnd, Least
  <2>6. auth' \in Auths
    BY <2>1, <2>3, <2>4, <2>5 DEF Auths
  <2> QED
    BY <2>1, <2>2, <2>6, NotNone DEF LeaseTypes, ClockOK, RestOK, GivenLive
<1>5. CASE BindBasis
  <2>1. /\ auth # LeaseNone /\ log # <<>> /\ auth.epoch = epoch
        /\ UNCHANGED <<clock, service, live, log, org, hub, checks, auth, leaseHistory>>
        /\ work' = [epoch |-> auth.epoch, admitted |-> TRUE, heads |-> Heads,
                    deadline |-> AuthorityDeadline, rev |-> live.rev,
                    end |-> Least(auth.end, elapsed + (AuthorityDeadline - Now))]
    BY <1>5 DEF BindBasis, Revalidated, ProcessActive
  <2>2. /\ Record \in Records /\ live \in Lives /\ policy \in Policies /\ ClockOK /\ auth \in Auths
        /\ Len(log) \in Nat /\ orgHead \in Nat
    BY <2>1, ChainLast DEF LeaseTypes, RestOK, GivenLive, Chain
  <2>3. LeaseDeadline \in Int
    BY <2>2, TightenFields, DeadlineOf DEF LeaseDeadline
  <2>4. Now \in Int /\ elapsed \in Int
    BY <2>2, NowType, LeaseNatural DEF ClockOK
  <2>5. live.rev \in Int
    BY <2>2, LeaseNatural DEF Lives
  <2>6. auth.deadline \in Int /\ auth.end \in Int /\ auth.epoch \in 0 .. MaxEpoch
    BY <2>2 DEF Auths
  <2>7. AuthorityDeadline \in Int
    BY <2>3, <2>6 DEF AuthorityDeadline, Least
  <2>8. Least(auth.end, elapsed + (AuthorityDeadline - Now)) \in Int
    BY <2>4, <2>6, <2>7 DEF Least
  <2>9. Heads \in Nat \X Nat
    BY <2>2 DEF Heads
  <2>10. work' \in Works
    BY <2>1, <2>5, <2>6, <2>7, <2>8, <2>9 DEF Works
  <2> QED
    BY <2>1, <2>2, <2>10, NotNone DEF LeaseTypes, ClockOK, RestOK, GivenLive
<1>6. CASE RunWork
  BY <1>6 DEF RunWork, LeaseTypes, ClockOK, RestOK, GivenLive
<1>7. CASE RevokeAdmission
  <2>1. work # LeaseNone => /\ [work EXCEPT !.admitted = FALSE] \in Works
                            /\ [work EXCEPT !.admitted = FALSE].epoch = work.epoch
    BY DEF LeaseTypes, RestOK, Works
  <2> QED
    BY <1>7, <2>1 DEF RevokeAdmission, LeaseTypes, ClockOK, RestOK, GivenLive
<1>8. CASE DropWork
  BY <1>8 DEF DropWork, LeaseTypes, ClockOK, RestOK, GivenLive
<1>9. ASSUME NEW s \in BOOLEAN, SetStanding(s) PROVE LeaseTypes'
  BY <1>9 DEF SetStanding, LeaseTypes, ClockOK, RestOK, GivenLive
<1>10. ASSUME NEW p \in Policies, SetPolicy(p) PROVE LeaseTypes'
  BY <1>10 DEF SetPolicy, LeaseTypes, ClockOK, RestOK, GivenLive
<1>11. CASE Restart
  <2>1. /\ epoch < MaxEpoch /\ epoch' = epoch + 1 /\ startedAt' = wall /\ elapsed' = 0
        /\ live' = LeaseNone /\ checks' = {} /\ UNCHANGED <<wall, log, org, hub, auth, work>>
    BY <1>11 DEF Restart
  <2>2. ClockOK'
    BY <2>1, LeaseNatural DEF LeaseTypes, ClockOK
  <2>3. RestOK' /\ Chain(log')
    BY <2>1 DEF LeaseTypes, RestOK
  <2>4. auth # LeaseNone => auth.epoch <= epoch' /\ auth.epoch # epoch'
    BY <2>1, LeaseNatural DEF LeaseTypes, RestOK, ClockOK, Auths, GivenLive
  <2>5. work # LeaseNone => work.epoch <= epoch' /\ work.epoch # epoch'
    BY <2>1, LeaseNatural DEF LeaseTypes, RestOK, ClockOK, Works, GivenLive
  <2>6. GivenLive'
    BY <2>1, <2>4, <2>5 DEF GivenLive
  <2> QED
    BY <2>2, <2>3, <2>6 DEF LeaseTypes
<1>12. CASE Tick
  <2>1. ClockOK'
    BY <1>12, LeaseNatural DEF Tick, LeaseTypes, ClockOK
  <2> QED
    BY <1>12, <2>1 DEF Tick, LeaseTypes, RestOK, GivenLive
<1>13. CASE Check
  <2>1. UNCHANGED <<clock, service, live, log, org, hub, auth, work, leaseHistory>>
        /\ checks' = checks \cup {Answer}
    BY <1>13 DEF Check
  <2>2. Answer \in Proofs \cup {[answer |-> "refused"]}
    BY DEF Answer, Proofs, LeaseTypes, ClockOK
  <2> QED
    BY <2>1, <2>2 DEF LeaseTypes, ClockOK, RestOK, GivenLive
<1>14. ASSUME NEW n \in 0 .. Len(log) - 1, Restore(n) PROVE LeaseTypes'
  <2>1. Chain(log')
    BY <1>14, ChainShrinks DEF Restore, LeaseTypes
  <2> QED
    BY <1>14, <2>1 DEF Restore, LeaseTypes, ClockOK, RestOK, GivenLive
<1>15. ASSUME NEW t \in Settings, SetClock(t) PROVE LeaseTypes'
  <2>1. ClockOK'
    BY <1>15, LeaseNatural DEF SetClock, LeaseTypes, ClockOK
  <2> QED
    BY <1>15, <2>1 DEF SetClock, LeaseTypes, RestOK, GivenLive
<1>16. ASSUME NEW h \in Identities \cup {"gone"}, HubChanges(h) PROVE LeaseTypes'
  BY <1>16 DEF HubChanges, LeaseTypes, ClockOK, RestOK, GivenLive
<1>17. CASE UNCHANGED leaseVars
  BY <1>17 DEF leaseVars, LeaseTypes, ClockOK, RestOK, GivenLive
<1> QED
  BY <1>1, <1>2, <1>3, <1>4, <1>5, <1>6, <1>7, <1>8, <1>9, <1>10, <1>11, <1>12, <1>13, <1>14,
     <1>15, <1>16, <1>17 DEF LeaseNext

-----------------------------------------------------------------------------
(* Revocation is final *)

(* An acknowledged end is marked in the process, or in the record of a     *)
(* process that has none of its own.                                       *)
EndMarked ==
  /\ ended \in BOOLEAN
  /\ ended => \/ live # LeaseNone /\ live.revoked
              \/ live = LeaseNone /\ log # <<>> /\ Record.revoked

LEMMA EndStep ==
  ASSUME LeaseTypes, EndMarked, [LeaseNext]_leaseVars
  PROVE  EndMarked'
<1> USE DEF clock, service, org, leaseHistory
<1>1. ASSUME NEW ok \in BOOLEAN, Len(log) < MaxRev, RevokeAt(ok)
      PROVE  EndMarked'
  <2>1. ended' = (ended \/ (log # <<>> /\ (Record.revoked \/ ok)))
    BY <1>1, RevokeEffect
  <2>2. ended' => live' # LeaseNone /\ live'.revoked = TRUE
    BY <1>1, <2>1, RevokeEffect DEF EndMarked
  <2> QED
    BY <2>1, <2>2 DEF EndMarked
<1>2. CASE UNCHANGED <<live, log, ended>>
  BY <1>2 DEF EndMarked, Record
<1>3. ASSUME NEW ok \in BOOLEAN, TouchAdmitted(ok)
      PROVE  EndMarked'
  <2>1. ended' = ended /\ live # LeaseNone /\ ~ live.revoked
    BY <1>3 DEF TouchAdmitted, Current
  <2> QED
    BY <2>1 DEF EndMarked
<1>4. ASSUME NEW c \in checks, NEW ok \in BOOLEAN, Observe(c, ok)
      PROVE  EndMarked'
  <2>1. CASE RevokeAt(ok)
    BY <1>1, <1>4, <2>1, ObserveCases
  <2>2. CASE log # <<>> /\ live' = Tombstone(Record) /\ UNCHANGED <<log, ended>>
    <3>1. live' # LeaseNone /\ live'.revoked = TRUE
      BY <2>2, ChainLast, TombstoneType, NotNone DEF LeaseTypes
    <3> QED
      BY <2>2, <3>1 DEF EndMarked
  <2>3. CASE /\ log # <<>> => ~ Record.revoked
             /\ live # LeaseNone => ~ live.revoked
             /\ ended' = ended
    BY <2>3 DEF EndMarked
  <2> QED
    BY <1>2, <1>4, <2>1, <2>2, <2>3, ObserveCases
<1>5. CASE Restart
  <2>1. live' = LeaseNone /\ log' = log /\ ended' = (ended /\ log # <<>> /\ Record.revoked)
    BY <1>5 DEF Restart
  <2> QED
    BY <2>1 DEF EndMarked, Record
<1>6. ASSUME NEW n \in 0 .. Len(log) - 1, Restore(n)
      PROVE  EndMarked'
  BY <1>6 DEF Restore, EndMarked
<1>7. \/ \E ok \in BOOLEAN : Revoke(ok) \/ TouchAdmitted(ok)
      \/ \E c \in checks, ok \in BOOLEAN : Observe(c, ok)
      \/ Restart \/ (\E n \in 0 .. Len(log) - 1 : Restore(n))
      \/ UNCHANGED <<live, log, ended>>
  BY Zenon
     DEF LeaseNext, leaseVars, ActionContext, BindBasis, RunWork, RevokeAdmission, DropWork,
         SetStanding, SetPolicy, Tick, Check, SetClock, HubChanges
<1> QED
  BY <1>1, <1>2, <1>3, <1>4, <1>5, <1>6, <1>7 DEF Revoke

(* Work that runs is bound to a live, unrevoked instance of this process. *)
LEMMA RunsLive ==
  ASSUME LeaseTypes, RunWork
  PROVE  /\ work \in Works /\ live \in Lives /\ live # LeaseNone /\ ~ live.revoked
         /\ work # LeaseNone /\ work.epoch = epoch
         /\ live.rev = work.rev /\ work.heads = Heads /\ wall < work.deadline
         /\ elapsed < work.end
<1>1. /\ work # LeaseNone /\ work.epoch = epoch /\ ~ live.revoked
      /\ live.rev = work.rev /\ work.heads = Heads /\ wall < work.deadline /\ elapsed < work.end
  BY DEF RunWork, BasisHolds, ProcessActive
<1> QED
  BY <1>1 DEF LeaseTypes, RestOK, GivenLive

(* Once an end of the retained lease is acknowledged no work runs: not the *)
(* work bound before it, not after a late proof, a restored snapshot, a    *)
(* restart or a jump of the clock.                                         *)
THEOREM RevocationHolds == LeaseSpec => RevocationFinal
<1>1. LeaseInit => LeaseTypes /\ EndMarked
  BY LeaseStart DEF LeaseInit, EndMarked
<1>2. LeaseTypes /\ EndMarked /\ [LeaseNext]_leaseVars => LeaseTypes' /\ EndMarked'
  BY LeaseTypeStep, EndStep
<1>3. LeaseTypes /\ EndMarked => [RunWork => ~ ended]_leaseVars
  BY RunsLive DEF EndMarked
<1> QED
  BY <1>1, <1>2, <1>3, PTL DEF LeaseSpec, RevocationFinal
-----------------------------------------------------------------------------
(* Work stays inside the bounds of the moment *)

(* The basis of bound work: its monotonic end is not past its deadline;    *)
(* while no newer record was taken up, the heads it names are those of the *)
(* record and the organization it was computed from.                       *)
BasisInv ==
  work # LeaseNone /\ work.epoch = epoch =>
    /\ startedAt + work.end <= work.deadline
    /\ work.heads[2] <= orgHead
    /\ ~ live.revoked =>
         /\ work.rev <= live.rev
         /\ work.rev = live.rev =>
              /\ Len(log) <= work.heads[1]
              /\ work.heads = Heads =>
                   log # <<>> /\ standing /\ work.deadline <= LeaseDeadline

(* A step that leaves the lease and the organization alone. *)
LEMMA BasisKept ==
  ASSUME BasisInv, UNCHANGED <<live, log, standing, policy, orgHead, epoch, startedAt>>,
         \/ work' = work
         \/ work' = LeaseNone
         \/ /\ work # LeaseNone /\ work'.epoch = work.epoch /\ work'.heads = work.heads
            /\ work'.deadline = work.deadline /\ work'.rev = work.rev /\ work'.end = work.end
  PROVE  BasisInv'
BY DEF BasisInv, Heads, LeaseDeadline, Record, Deadline, Tighten

LEMMA BasisStep ==
  ASSUME LeaseTypes, LeaseTypes', BasisInv, [LeaseNext]_leaseVars
  PROVE  BasisInv'
<1> USE DEF clock, service, org, leaseHistory
<1>1. ASSUME UNCHANGED <<epoch, startedAt, orgHead, work>>, live' # LeaseNone => live'.revoked
      PROVE  BasisInv'
  <2>1. work # LeaseNone /\ work.epoch = epoch => live' # LeaseNone
    BY <1>1 DEF LeaseTypes, GivenLive
  <2> QED
    BY <1>1, <2>1 DEF BasisInv
<1>2. ASSUME NEW ok \in BOOLEAN, Revoke(ok) PROVE BasisInv'
  BY <1>1, <1>2, RevokeEffect DEF Revoke
<1>3. ASSUME NEW ok \in BOOLEAN, TouchAdmitted(ok) PROVE BasisInv'
  BY <1>3 DEF TouchAdmitted, BasisInv
<1>4. ASSUME NEW c \in checks, NEW ok \in BOOLEAN, Observe(c, ok) PROVE BasisInv'
  <2>1. Len(log) < MaxRev /\ UNCHANGED <<clock, service, org, auth, work>>
    BY <1>4, ObserveCases
  <2>2. CASE RevokeAt(ok)
    BY <1>1, <2>1, <2>2, RevokeEffect
  <2>3. CASE UNCHANGED <<live, log>>
    BY <2>1, <2>3, BasisKept
  <2>4. CASE log # <<>> /\ live' = Tombstone(Record)
    BY <1>1, <2>1, <2>4, ChainLast, TombstoneType DEF LeaseTypes
  <2>5. CASE /\ c \in Proofs /\ Fresh(c) /\ (log # <<>> => ~ Record.revoked)
             /\ live # LeaseNone => ~ live.revoked
             /\ Admissible(c) /\ AcceptProof(c, TRUE)
    <3> SUFFICES ASSUME work # LeaseNone, work.epoch = epoch PROVE BasisInv'
      BY <2>1 DEF BasisInv
    <3>1. live \in Lives /\ work \in Works /\ live # LeaseNone /\ ~ live.revoked
      BY <2>5 DEF LeaseTypes, RestOK, GivenLive
    <3>2. log # <<>> /\ Record.rev >= live.rev
      BY <2>5, <3>1 DEF Admissible
    <3>3. Record.rev = Len(log) - 1 /\ Len(log) \in Nat
      BY <3>2, ChainLast, LeaseNatural DEF LeaseTypes
    <3>4. live'.rev = Len(log)
      BY <2>1, <2>5, AcceptEffect
    <3>5. work.rev \in Int /\ live.rev \in Int
      BY <3>1, LeaseNatural DEF Works, Lives
    <3>6. work.rev <= live.rev
      BY <3>1 DEF BasisInv
    <3>7. work.rev < live'.rev
      BY <3>2, <3>3, <3>4, <3>5, <3>6
    <3>8. live'.rev \in Int
      BY <3>3, <3>4
    <3>9. work.rev <= live'.rev /\ work.rev # live'.rev
      BY <3>5, <3>7, <3>8
    <3> QED
      BY <2>1, <3>9 DEF BasisInv
  <2> QED
    BY <1>4, <2>2, <2>3, <2>4, <2>5, ObserveCases
<1>5. CASE BindBasis
  <2>1. /\ auth # LeaseNone /\ log # <<>> /\ auth.epoch = epoch /\ standing
        /\ UNCHANGED <<clock, service, live, log, org, auth>>
        /\ work' = [epoch |-> auth.epoch, admitted |-> TRUE, heads |-> Heads,
                    deadline |-> AuthorityDeadline, rev |-> live.rev,
                    end |-> Least(auth.end, elapsed + (AuthorityDeadline - Now))]
    BY <1>5 DEF BindBasis, Revalidated, ProcessActive
  <2>2. /\ Record \in Records /\ live \in Lives /\ policy \in Policies /\ ClockOK /\ auth \in Auths
        /\ Len(log) \in Nat /\ orgHead \in Nat
    BY <2>1, ChainLast DEF LeaseTypes, RestOK, GivenLive, Chain
  <2>3. LeaseDeadline \in Int
    BY <2>2, TightenFields, DeadlineOf DEF LeaseDeadline
  <2>4. Now \in Int /\ elapsed \in Int /\ startedAt \in Int /\ startedAt + elapsed <= Now
    BY <2>2, NowType, LeaseNatural DEF ClockOK
  <2>5. auth.deadline \in Int /\ auth.end \in Int
    BY <2>2 DEF Auths
  <2>6. AuthorityDeadline \in Int /\ AuthorityDeadline <= LeaseDeadline
    BY <2>3, <2>5 DEF AuthorityDeadline, Least
  <2>7. /\ work'.heads = Heads /\ work'.deadline = AuthorityDeadline /\ work'.rev = live.rev
        /\ work'.end = Least(auth.end, elapsed + (AuthorityDeadline - Now))
    BY <2>1
  <2>8. startedAt + work'.end <= work'.deadline
    BY <2>4, <2>5, <2>6, <2>7 DEF Least
  <2>9. Heads' = Heads /\ Heads[1] = Len(log) /\ Heads[2] = orgHead
    BY <2>1 DEF Heads
  <2>10. LeaseDeadline' = LeaseDeadline
    BY <2>1 DEF LeaseDeadline, Record, Deadline, Tighten
  <2>11. live.rev \in Int
    BY <2>2, LeaseNatural DEF Lives
  <2> QED
    BY <2>1, <2>2, <2>6, <2>7, <2>8, <2>9, <2>10, <2>11 DEF BasisInv
<1>6. CASE RevokeAdmission
  <2>1. work # LeaseNone =>
          LET n == [work EXCEPT !.admitted = FALSE] IN
          /\ n.epoch = work.epoch /\ n.heads = work.heads /\ n.deadline = work.deadline
          /\ n.rev = work.rev /\ n.end = work.end
    BY DEF LeaseTypes, RestOK, Works
  <2> QED
    BY <1>6, <2>1, BasisKept DEF RevokeAdmission
<1>7. ASSUME orgHead' = orgHead + 1, UNCHANGED <<live, log, epoch, startedAt, work>>
      PROVE  BasisInv'
  <2> SUFFICES ASSUME work # LeaseNone, work.epoch = epoch PROVE BasisInv'
    BY <1>7 DEF BasisInv
  <2>1. work.heads[2] <= orgHead /\ work.heads[2] \in Nat /\ orgHead \in Nat
    BY DEF LeaseTypes, RestOK, Works, BasisInv
  <2>2. work.heads[2] <= orgHead' /\ work.heads[2] # orgHead'
    BY <1>7, <2>1
  <2>3. work.heads # Heads'
    BY <2>2 DEF Heads
  <2> QED
    BY <1>7, <2>2, <2>3 DEF BasisInv
<1>8. CASE Restart
  <2>1. epoch' = epoch + 1 /\ work' = work
    BY <1>8 DEF Restart
  <2>2. work # LeaseNone => work.epoch # epoch'
    BY <2>1 DEF LeaseTypes, RestOK, GivenLive, ClockOK, Works
  <2> QED
    BY <2>1, <2>2 DEF BasisInv
<1>9. ASSUME NEW n \in 0 .. Len(log) - 1, Restore(n) PROVE BasisInv'
  <2> SUFFICES ASSUME work # LeaseNone, work.epoch = epoch PROVE BasisInv'
    BY <1>9 DEF BasisInv, Restore
  <2>1. UNCHANGED <<live, epoch, startedAt, orgHead, work>> /\ log' = SubSeq(log, 1, n)
    BY <1>9 DEF Restore
  <2>2. Len(log') = n /\ Len(log) \in Nat
    BY <2>1, ChainShrinks DEF LeaseTypes, Chain
  <2>3. work.heads[1] \in Nat
    BY DEF LeaseTypes, RestOK, Works
  <2>4. Len(log) <= work.heads[1] => Len(log') <= work.heads[1] /\ Len(log') # work.heads[1]
    BY <2>2, <2>3
  <2>5. Len(log) <= work.heads[1] => work.heads # Heads'
    BY <2>4 DEF Heads
  <2> QED
    BY <2>1, <2>4, <2>5 DEF BasisInv
<1>10. \/ \E ok \in BOOLEAN : Revoke(ok) \/ TouchAdmitted(ok)
       \/ \E c \in checks, ok \in BOOLEAN : Observe(c, ok)
       \/ BindBasis \/ RevokeAdmission \/ Restart
       \/ (\E n \in 0 .. Len(log) - 1 : Restore(n))
       \/ orgHead' = orgHead + 1 /\ UNCHANGED <<live, log, epoch, startedAt, work>>
       \/ /\ UNCHANGED <<live, log, standing, policy, orgHead, epoch, startedAt>>
          /\ work' = work \/ work' = LeaseNone
  BY Zenon
     DEF LeaseNext, leaseVars, ActionContext, RunWork, DropWork,
         SetStanding, SetPolicy, Tick, Check, SetClock, HubChanges
<1> QED
  BY <1>2, <1>3, <1>4, <1>5, <1>6, <1>7, <1>8, <1>9, <1>10, BasisKept

(* Work that runs is inside the bounds the organization sets now. *)
LEMMA RunsInside ==
  ASSUME LeaseTypes, BasisInv, RunWork
  PROVE  log # <<>> /\ standing /\ Now < LeaseDeadline
<1>1. /\ work \in Works /\ work # LeaseNone /\ work.epoch = epoch /\ ~ live.revoked
      /\ live.rev = work.rev /\ work.heads = Heads /\ wall < work.deadline /\ elapsed < work.end
  BY RunsLive
<1>2. /\ startedAt + work.end <= work.deadline
      /\ log # <<>> /\ standing /\ work.deadline <= LeaseDeadline
  BY <1>1 DEF BasisInv
<1>3. work.end \in Int /\ work.deadline \in Int
  BY <1>1 DEF Works
<1>4. ClockOK /\ policy \in Policies /\ Record \in Records
  BY <1>2, ChainLast DEF LeaseTypes, RestOK
<1>5. LeaseDeadline \in Int
  BY <1>4, TightenFields, DeadlineOf DEF LeaseDeadline
<1>6. wall \in Int /\ elapsed \in Int /\ startedAt \in Int /\ (Now = wall \/ Now = startedAt + elapsed)
  BY <1>4, NowType, LeaseNatural DEF ClockOK
<1> QED
  BY <1>1, <1>2, <1>3, <1>5, <1>6

(* Work runs only for a person in standing and inside the bounds set at    *)
(* that moment, whatever became of the wall clock, the retained rows and   *)
(* the organization in between.                                            *)
THEOREM BoundsHold == LeaseSpec => WorkInsideBounds
<1>1. LeaseInit => LeaseTypes /\ BasisInv
  BY LeaseStart DEF LeaseInit, BasisInv
<1>2. LeaseTypes /\ BasisInv /\ [LeaseNext]_leaseVars => LeaseTypes' /\ BasisInv'
  BY LeaseTypeStep, BasisStep
<1>3. LeaseTypes /\ BasisInv =>
        [RunWork => standing /\ Now < Deadline(Tighten(Record, policy))]_leaseVars
  BY RunsInside DEF LeaseDeadline
<1> QED
  BY <1>1, <1>2, <1>3, PTL DEF LeaseSpec, WorkInsideBounds

-----------------------------------------------------------------------------
(* The lease in time, with a wall clock that is never set back *)

\* The wall clock ahead of the monotonic one is the latest of both.
LEMMA LatestOf ==
  ASSUME NEW x \in Nat, NEW y \in Nat, NEW z \in Nat, y + z <= x
  PROVE  Latest(x, y + z) = x
BY DEF Latest

ClockForward == startedAt + elapsed <= wall

LEMMA ForwardStep ==
  ASSUME "back" \notin Faults, LeaseTypes, ClockForward, [LeaseNext]_leaseVars
  PROVE  ClockForward' /\ wall <= wall'
<1> USE DEF clock, service, org, leaseHistory
<1>1. wall \in Nat /\ elapsed \in Nat /\ startedAt \in Nat
  BY LeaseNatural DEF LeaseTypes, ClockOK
<1>2. CASE Restart
  BY <1>1, <1>2 DEF Restart, ClockForward
<1>3. CASE Tick
  BY <1>1, <1>3 DEF Tick, ClockForward
<1>4. ASSUME NEW t \in Settings, SetClock(t) PROVE ClockForward' /\ wall <= wall'
  <2>1. t \in Nat /\ wall' = t /\ t > wall /\ UNCHANGED <<elapsed, startedAt>>
    BY <1>4, LeaseNatural DEF SetClock
  <2> QED
    BY <1>1, <2>1 DEF ClockForward
<1>5. CASE UNCHANGED <<wall, elapsed, startedAt>>
  BY <1>1, <1>5 DEF ClockForward
<1>6. Restart \/ Tick \/ (\E t \in Settings : SetClock(t)) \/ UNCHANGED <<wall, elapsed, startedAt>>
  <2>1. ASSUME NEW ok \in BOOLEAN, Revoke(ok) \/ TouchAdmitted(ok)
        PROVE  UNCHANGED <<wall, elapsed, startedAt>>
    BY <2>1 DEF Revoke, TouchAdmitted
  <2>2. ASSUME NEW c \in checks, NEW ok \in BOOLEAN, Observe(c, ok)
        PROVE  UNCHANGED <<wall, elapsed, startedAt>>
    BY <2>2 DEF Observe
  <2> QED
    BY <2>1, <2>2, Zenon
       DEF LeaseNext, leaseVars, ActionContext, BindBasis, RunWork, RevokeAdmission, DropWork,
           SetStanding, SetPolicy, Check, HubChanges, Restore
<1> QED
  BY <1>2, <1>3, <1>4, <1>5, <1>6

LEMMA ForwardNow ==
  ASSUME ClockOK, ClockForward
  PROVE  Now = wall
BY LeaseNatural DEF ClockOK, ClockForward, Now, Latest

(* The bound of the process ends within the outage window of the proof it  *)
(* took at t, and so does what an activity may stretch it to.              *)
Paced(t) ==
  /\ live.end <= t + Outage /\ Len(log) <= live.rev + 1
  /\ Len(log) = live.rev + 1 => log # <<>> /\ Record.verified + elapsed <= wall + t

OutageInv ==
  /\ proved \subseteq 0 .. elapsed
  /\ live # LeaseNone /\ ~ live.revoked => \E t \in proved : Paced(t)
  /\ auth # LeaseNone /\ auth.epoch = epoch => \E t \in proved : auth.end <= t + Outage
  /\ work # LeaseNone /\ work.epoch = epoch => \E t \in proved : work.end <= t + Outage

(* Nothing is taken up and nothing is given out: the clocks move on. *)
LEMMA OutageKept ==
  ASSUME LeaseTypes, LeaseTypes', OutageInv, UNCHANGED <<log, epoch, proved>>,
         live' = live \/ live' = LeaseNone \/ live'.revoked,
         auth' = auth \/ auth' = LeaseNone,
         \/ work' = work
         \/ work' = LeaseNone
         \/ work # LeaseNone /\ work'.epoch = work.epoch /\ work'.end = work.end,
         elapsed <= elapsed', elapsed' - elapsed <= wall' - wall
  PROVE  OutageInv'
<1>1. /\ wall \in Nat /\ elapsed \in Nat /\ wall' \in Nat /\ elapsed' \in Nat
  BY LeaseNatural DEF LeaseTypes, ClockOK
<1>2. proved' \subseteq 0 .. elapsed'
  BY <1>1 DEF OutageInv
<1>3. ASSUME live' # LeaseNone, ~ live'.revoked PROVE \E t \in proved' : Paced(t)'
  <2>1. live' = live
    BY <1>3
  <2>2. PICK t \in proved : Paced(t)
    BY <1>3, <2>1 DEF OutageInv
  <2>3. t \in Nat
    BY <1>1, <2>2 DEF OutageInv
  <2>4. log # <<>> => Record.verified \in Nat
    BY ChainLast, LeaseNatural DEF LeaseTypes, Records, Times
  <2>5. Record' = Record
    BY DEF Record
  <2>6. Paced(t)'
    BY <1>1, <2>1, <2>2, <2>3, <2>4, <2>5 DEF Paced
  <2> QED
    BY <2>2, <2>6
<1> QED
  BY <1>2, <1>3 DEF OutageInv

LEMMA OutageStep ==
  ASSUME "back" \notin Faults, LeaseTypes, LeaseTypes', ClockForward, OutageInv,
         [LeaseNext]_leaseVars
  PROVE  OutageInv'
<1> USE DEF clock, service, org, leaseHistory
<1>1. /\ wall \in Nat /\ elapsed \in Nat /\ Now = wall /\ ClockOK /\ Outage \in Nat
      /\ \A t \in proved : t \in Nat /\ t <= elapsed
  BY LeaseNatural, ForwardNow DEF LeaseTypes, ClockOK, OutageInv
<1>2. ASSUME UNCHANGED <<epoch, proved, elapsed, auth, work>>, live' # LeaseNone => live'.revoked
      PROVE  OutageInv'
  BY <1>2 DEF OutageInv
<1>3. ASSUME NEW ok \in BOOLEAN, Revoke(ok) PROVE OutageInv'
  BY <1>2, <1>3, RevokeEffect DEF Revoke
<1>4. ASSUME NEW ok \in BOOLEAN, TouchAdmitted(ok) PROVE OutageInv'
  <2>1. /\ UNCHANGED <<wall, elapsed, epoch, auth, proved>> /\ work' = LeaseNone
        /\ live # LeaseNone /\ ~ live.revoked /\ log # <<>> /\ Record.rev >= live.rev
    BY <1>4 DEF TouchAdmitted, Current
  <2>2. CASE ok = FALSE
    <3>1. live' = live /\ log' = log
      BY <1>4, <2>2 DEF TouchAdmitted, LeasePublish
    <3> QED
      BY <1>1, <2>1, <3>1, OutageKept
  <2>3. CASE ok = TRUE
    <3>1. /\ Touched \in Records /\ Record' = Touched /\ Len(log') = Len(log) + 1 /\ log' # <<>>
          /\ live'.rev = Len(log) /\ live'.end = elapsed + (Deadline(Touched) - Now)
          /\ Len(log) < MaxRev
      BY <1>4, <2>3, TouchEffect
    <3>2. PICK t \in proved : Paced(t)
      BY <2>1 DEF OutageInv
    <3>3. Record.rev = Len(log) - 1 /\ Len(log) \in Nat /\ Record \in Records /\ live \in Lives
      BY <2>1, ChainLast, LeaseNatural DEF LeaseTypes, RestOK
    <3>4. live.rev \in Nat /\ Record.verified \in Nat
      BY <3>3, LeaseNatural DEF Lives, Records, Times
    <3>5. Record.verified + elapsed <= wall + t
      BY <2>1, <3>2, <3>3, <3>4 DEF Paced
    <3>6. Touched.verified = Record.verified
      BY <2>1, <3>1, TouchedFields
    <3>7. Deadline(Touched) \in Nat /\ Deadline(Touched) <= Record.verified + Outage
      BY <3>1, <3>6, DeadlineOf
    <3>8. live'.end <= t + Outage
      <4>1. \A e, d, w, v, u, o \in Nat : d <= v + o /\ v + e <= w + u => e + (d - w) <= u + o
        OBVIOUS
      <4>2. t \in Nat /\ live'.end = elapsed + (Deadline(Touched) - wall)
        BY <1>1, <3>1, <3>2
      <4> QED
        BY <1>1, <3>4, <3>5, <3>7, <4>1, <4>2
    <3>9. Len(log') = live'.rev + 1 /\ Len(log') <= live'.rev + 1
      BY <3>1, <3>3
    <3>10. Paced(t)'
      BY <2>1, <3>1, <3>5, <3>6, <3>8, <3>9 DEF Paced
    <3> QED
      BY <2>1, <3>2, <3>10 DEF OutageInv
  <2> QED
    BY <2>2, <2>3
<1>5. ASSUME NEW c \in checks, NEW ok \in BOOLEAN, Observe(c, ok) PROVE OutageInv'
  <2>1. Len(log) < MaxRev /\ UNCHANGED <<clock, service, org, auth, work>>
    BY <1>5, ObserveCases
  <2>2. CASE RevokeAt(ok) /\ proved' = proved
    BY <1>2, <2>1, <2>2, RevokeEffect
  <2>3. CASE UNCHANGED <<live, log, proved>>
    BY <1>1, <2>1, <2>3, OutageKept
  <2>4. CASE log # <<>> /\ live' = Tombstone(Record) /\ proved' = proved
    BY <1>2, <2>1, <2>4, ChainLast, TombstoneType DEF LeaseTypes
  <2>5. CASE /\ c \in Proofs /\ Fresh(c) /\ (log # <<>> => ~ Record.revoked)
             /\ Admissible(c) /\ AcceptProof(c, TRUE) /\ proved' = {elapsed}
    <3>1. /\ Proven(c) \in Records /\ Record' = Proven(c) /\ Len(log') = Len(log) + 1
          /\ log' # <<>> /\ live'.rev = Len(log)
          /\ live'.end = elapsed + (Deadline(Proven(c)) - Now)
      BY <2>1, <2>5, AcceptEffect
    <3>2. Proven(c).verified = c.at
      BY <2>1, <2>5, ProvenFields
    <3>3. c.at \in Nat
      BY <2>5, LeaseNatural DEF Proofs
    <3>4. c.at <= wall
      BY <1>1, <2>5 DEF Fresh
    <3>5. Deadline(Proven(c)) \in Nat /\ Deadline(Proven(c)) <= c.at + Outage
      BY <3>1, <3>2, DeadlineOf
    <3>6. live'.end <= elapsed + Outage
      BY <1>1, <3>1, <3>3, <3>4, <3>5
    <3>7. Len(log) \in Nat
      BY DEF LeaseTypes, Chain
    <3>8. Len(log') = live'.rev + 1 /\ Len(log') <= live'.rev + 1
      BY <3>1, <3>7
    <3>9. Record'.verified + elapsed' <= wall' + elapsed
      BY <1>1, <2>1, <3>1, <3>2, <3>3, <3>4
    <3>10. Paced(elapsed)'
      BY <1>1, <2>1, <3>1, <3>6, <3>8, <3>9 DEF Paced
    <3>11. ASSUME NEW e \in Int, NEW t \in proved, e <= t + Outage PROVE e <= elapsed + Outage
      BY <1>1, <3>11
    <3>12. auth # LeaseNone /\ auth.epoch = epoch => auth.end <= elapsed + Outage
      BY <3>11 DEF OutageInv, LeaseTypes, RestOK, Auths
    <3>13. work # LeaseNone /\ work.epoch = epoch => work.end <= elapsed + Outage
      BY <3>11 DEF OutageInv, LeaseTypes, RestOK, Works
    <3>14. proved' \subseteq 0 .. elapsed'
      BY <1>1, <2>1, <2>5
    <3>15. \E t \in proved' : Paced(t)'
      BY <2>1, <2>5, <3>10
    <3> QED
      BY <2>1, <2>5, <3>12, <3>13, <3>14, <3>15 DEF OutageInv
  <2> QED
    BY <1>5, <2>2, <2>3, <2>4, <2>5, ObserveCases
<1>6. CASE ActionContext
  <2>1. /\ UNCHANGED <<clock, service, live, log, work, proved>>
        /\ live # LeaseNone /\ ~ live.revoked /\ log # <<>>
        /\ auth'.epoch = epoch /\ auth'.end = PreparedEnd
    BY <1>6 DEF ActionContext, Current
  <2>2. PICK t \in proved : Paced(t)
    BY <2>1 DEF OutageInv
  <2>3. live.end \in Int
    BY <2>1, LeaseNatural DEF LeaseTypes, RestOK, Lives
  <2>4. LeaseDeadline \in Int
    BY <2>1, ChainLast, TightenFields, DeadlineOf DEF LeaseDeadline, LeaseTypes, RestOK
  <2>5. PreparedEnd \in Int /\ PreparedEnd <= live.end
    BY <1>1, <2>3, <2>4 DEF PreparedEnd, Least
  <2>6. auth'.end <= t + Outage
    BY <1>1, <2>1, <2>2, <2>3, <2>5 DEF Paced
  <2>7. Paced(t)'
    BY <2>1, <2>2 DEF Paced, Record
  <2> QED
    BY <2>1, <2>2, <2>6, <2>7 DEF OutageInv
<1>7. CASE BindBasis
  <2>1. /\ auth # LeaseNone /\ log # <<>> /\ auth.epoch = epoch
        /\ UNCHANGED <<clock, service, live, log, auth, proved>>
        /\ work'.end = Least(auth.end, elapsed + (AuthorityDeadline - Now))
    BY <1>7 DEF BindBasis, Revalidated, ProcessActive
  <2>2. PICK t \in proved : auth.end <= t + Outage
    BY <2>1 DEF OutageInv
  <2>3. auth.end \in Int /\ auth.deadline \in Int
    BY <2>1 DEF LeaseTypes, RestOK, Auths
  <2>4. LeaseDeadline \in Int
    BY <2>1, ChainLast, TightenFields, DeadlineOf DEF LeaseDeadline, LeaseTypes, RestOK
  <2>5. work'.end \in Int /\ work'.end <= auth.end
    BY <1>1, <2>1, <2>3, <2>4 DEF AuthorityDeadline, Least
  <2>6. work'.end <= t + Outage
    BY <1>1, <2>2, <2>3, <2>5
  <2>7. live # LeaseNone /\ ~ live.revoked => \E u \in proved : Paced(u)'
    BY <2>1 DEF Paced, Record, OutageInv
  <2> QED
    BY <2>1, <2>2, <2>6, <2>7 DEF OutageInv
<1>8. CASE RevokeAdmission
  <2>1. work # LeaseNone =>
          LET n == [work EXCEPT !.admitted = FALSE] IN n.epoch = work.epoch /\ n.end = work.end
    BY DEF LeaseTypes, RestOK, Works
  <2> QED
    BY <1>1, <1>8, <2>1, OutageKept DEF RevokeAdmission
<1>9. CASE Restart
  <2>1. epoch' = epoch + 1 /\ live' = LeaseNone /\ proved' = {} /\ UNCHANGED <<auth, work>>
    BY <1>9 DEF Restart
  <2>2. auth # LeaseNone => auth.epoch # epoch'
    BY <2>1 DEF LeaseTypes, RestOK, GivenLive, ClockOK, Auths
  <2>3. work # LeaseNone => work.epoch # epoch'
    BY <2>1 DEF LeaseTypes, RestOK, GivenLive, ClockOK, Works
  <2> QED
    BY <2>1, <2>2, <2>3 DEF OutageInv
<1>10. ASSUME NEW n \in 0 .. Len(log) - 1, Restore(n) PROVE OutageInv'
  <2>1. UNCHANGED <<clock, live, epoch, auth, work, proved>> /\ log' = SubSeq(log, 1, n)
    BY <1>10 DEF Restore
  <2>2. Len(log') = n /\ Len(log) \in Nat
    BY <2>1, ChainShrinks DEF LeaseTypes, Chain
  <2>3. live # LeaseNone => live.rev \in Nat
    BY LeaseNatural DEF LeaseTypes, RestOK, Lives
  <2>4. ASSUME NEW t \in proved, Paced(t), live # LeaseNone PROVE Paced(t)'
    BY <2>1, <2>2, <2>3, <2>4 DEF Paced
  <2> QED
    BY <2>1, <2>4 DEF OutageInv
<1>11. CASE Tick
  BY <1>1, <1>11, OutageKept DEF Tick
<1>12. ASSUME NEW t \in Settings, SetClock(t) PROVE OutageInv'
  <2>1. t \in Nat /\ wall' = t /\ t > wall
        /\ UNCHANGED <<elapsed, epoch, live, log, auth, work, proved>>
    BY <1>12, LeaseNatural DEF SetClock
  <2>2. elapsed' - elapsed <= wall' - wall /\ elapsed <= elapsed'
    BY <1>1, <2>1
  <2> QED
    BY <2>1, <2>2, OutageKept
<1>13. CASE /\ UNCHANGED <<wall, elapsed, epoch, live, log, proved>>
            /\ auth' = auth \/ auth' = LeaseNone
            /\ work' = work \/ work' = LeaseNone
  BY <1>1, <1>13, OutageKept
<1>14. \/ \E ok \in BOOLEAN : Revoke(ok) \/ TouchAdmitted(ok)
       \/ \E c \in checks, ok \in BOOLEAN : Observe(c, ok)
       \/ ActionContext \/ BindBasis \/ RevokeAdmission \/ Restart \/ Tick
       \/ (\E n \in 0 .. Len(log) - 1 : Restore(n))
       \/ (\E t \in Settings : SetClock(t))
       \/ /\ UNCHANGED <<wall, elapsed, epoch, live, log, proved>>
          /\ auth' = auth \/ auth' = LeaseNone
          /\ work' = work \/ work' = LeaseNone
  BY Zenon
     DEF LeaseNext, leaseVars, RunWork, DropWork, SetStanding, SetPolicy, Check, HubChanges
<1> QED
  BY <1>3, <1>4, <1>5, <1>6, <1>7, <1>8, <1>9, <1>10, <1>11, <1>12, <1>13, <1>14

(* With a clock that is only ever set forward, work runs only within the   *)
(* outage window of a proof this instance took, counted in real time:      *)
(* activity never stretches it, and a restarted Home runs nothing first.   *)
THEOREM OutageHolds ==
  ASSUME "back" \notin Faults
  PROVE  LeaseSpec => WorkWithinOutage
<1>1. LeaseInit => LeaseTypes /\ ClockForward /\ OutageInv
  BY LeaseStart DEF LeaseInit, ClockForward, OutageInv
<1>2. LeaseTypes /\ ClockForward /\ OutageInv /\ [LeaseNext]_leaseVars
        => LeaseTypes' /\ ClockForward' /\ OutageInv'
  BY LeaseTypeStep, ForwardStep, OutageStep
<1>3. LeaseTypes /\ OutageInv =>
        [RunWork => \E t \in proved : elapsed - t < Outage]_leaseVars
  <2> SUFFICES ASSUME LeaseTypes, OutageInv, RunWork PROVE \E t \in proved : elapsed - t < Outage
    OBVIOUS
  <2>1. work # LeaseNone /\ work.epoch = epoch /\ elapsed < work.end /\ work \in Works
    BY RunsLive
  <2>2. PICK t \in proved : work.end <= t + Outage
    BY <2>1 DEF OutageInv
  <2>3. elapsed \in Nat /\ t \in Nat /\ work.end \in Int /\ Outage \in Nat
    BY <2>1, <2>2, LeaseNatural DEF LeaseTypes, ClockOK, OutageInv, Works
  <2>4. elapsed - t < Outage
    BY <2>1, <2>2, <2>3
  <2> QED
    BY <2>2, <2>4
<1> QED
  BY <1>1, <1>2, <1>3, PTL DEF LeaseSpec, WorkWithinOutage

(* A passed bound stays passed: no record written after it loosens it. *)
LEMMA LapseStep ==
  ASSUME Faults = {}, LeaseTypes, LeaseTypes', ClockForward, BasisInv, [LeaseNext]_leaseVars, Lapsed
  PROVE  Lapsed' /\ ~ RunWork
<1> USE DEF clock, service, org, leaseHistory
<1>1. ClockForward' /\ wall <= wall'
  BY ForwardStep
<1>2. /\ wall \in Nat /\ wall' \in Nat /\ Now = wall /\ Now' = wall'
      /\ ClockOK /\ policy \in Policies /\ Chain(log)
  <2>1. ClockOK /\ ClockOK' /\ policy \in Policies /\ Chain(log)
    BY DEF LeaseTypes, RestOK
  <2>2. Now = wall
    BY <2>1, ForwardNow
  <2>3. Now' = wall'
    <3>1. wall' \in Nat /\ startedAt' \in Nat /\ elapsed' \in Nat
      BY <2>1, LeaseNatural DEF ClockOK
    <3>2. startedAt' + elapsed' <= wall'
      BY <1>1 DEF ClockForward
    <3> QED
      BY <3>1, <3>2, LatestOf, Zenon DEF Now
  <2> QED
    BY <2>1, <2>2, <2>3, LeaseNatural DEF ClockOK
<1>3. /\ log # <<>> /\ Record \in Records /\ wall >= Least(Record.abs, Record.activity + Record.idle)
      /\ Record.abs \in Nat /\ Record.activity \in Nat /\ Record.idle \in Nat
  <2>1. log # <<>> /\ wall >= Least(Record.abs, Record.activity + Record.idle)
    BY <1>2 DEF Lapsed
  <2> QED
    BY <1>2, <2>1, ChainLast, LeaseNatural DEF Records, Times, Bounds
<1>4. wall >= Record.abs \/ wall >= Record.activity + Record.idle
  BY <1>3 DEF Least
<1>5. LeaseDeadline <= Record.abs /\ LeaseDeadline <= Record.activity + Record.idle
      /\ LeaseDeadline \in Nat
  <2> DEFINE t == Tighten(Record, policy)
  <2>1. t \in Records /\ t.abs <= Record.abs /\ t.idle <= Record.idle /\ t.activity = Record.activity
    BY <1>2, <1>3, TightenFields
  <2>2. Deadline(t) \in Nat /\ Deadline(t) <= t.abs /\ Deadline(t) <= t.activity + t.idle
    BY <2>1, DeadlineOf
  <2> HIDE DEF t
  <2>3. t.abs \in Nat /\ t.idle \in Nat
    BY <2>1, LeaseNatural DEF Records, Bounds
  <2>4. Deadline(t) <= Record.abs /\ Deadline(t) <= Record.activity + Record.idle
    BY <1>3, <2>1, <2>2, <2>3
  <2> QED
    BY <2>2, <2>4 DEF t, LeaseDeadline
<1>6. ~ (Now < LeaseDeadline)
  BY <1>2, <1>3, <1>4, <1>5
<1>7. ~ RunWork
  BY <1>6, RunsInside
<1>8. ASSUME log' # <<>>, Record'.abs = Record.abs, Record'.activity = Record.activity,
             Record'.idle = Record.idle
      PROVE  Lapsed'
  <2>1. Least(Record.abs, Record.activity + Record.idle) \in Nat
    BY <1>3 DEF Least
  <2>2. wall' >= Least(Record.abs, Record.activity + Record.idle)
    BY <1>1, <1>2, <1>3, <2>1
  <2>3. Lapsed' = (log' # <<>> /\ Now' >= Least(Record'.abs, Record'.activity + Record'.idle))
    BY DEF Lapsed, Least
  <2> QED
    BY <1>2, <1>8, <2>2, <2>3
<1>9. ASSUME log' = log PROVE Lapsed'
  <2>1. Record' = Record
    BY <1>9 DEF Record
  <2> QED
    BY <1>3, <1>8, <1>9, <2>1
<1>10. ASSUME NEW ok \in BOOLEAN, Len(log) < MaxRev, RevokeAt(ok) PROVE Lapsed'
  <2>1. log' = log \/ (log' # <<>> /\ Record' = Revoked(Record))
    BY <1>10, RevokeEffect
  <2>2. LET r == Revoked(Record) IN
          r.abs = Record.abs /\ r.activity = Record.activity /\ r.idle = Record.idle
    BY <1>2, <1>3, <1>10, RevokedFields
  <2> QED
    BY <1>8, <1>9, <2>1, <2>2
<1>11. ASSUME NEW ok \in BOOLEAN, TouchAdmitted(ok) PROVE FALSE
  <2>1. Deadline(Tighten(Record, policy)) > Now
    BY <1>11 DEF TouchAdmitted, Current
  <2> QED
    BY <1>2, <1>5, <1>6, <2>1 DEF LeaseDeadline
<1>12. ASSUME NEW c \in checks, NEW ok \in BOOLEAN, Observe(c, ok) PROVE Lapsed'
  <2>1. Len(log) < MaxRev
    BY <1>12, ObserveCases
  <2>2. RevokeAt(ok) \/ log' = log \/ Admissible(c)
    BY <1>12, ObserveCases
  <2>3. ~ Admissible(c)
    BY <1>2, <1>3, <1>4 DEF Admissible, Renewable
  <2> QED
    BY <1>9, <1>10, <2>1, <2>2, <2>3
<1>13. ASSUME NEW n \in 0 .. Len(log) - 1, Restore(n) PROVE FALSE
  BY <1>13 DEF Restore
<1>14. \/ \E ok \in BOOLEAN : Revoke(ok) \/ TouchAdmitted(ok)
       \/ \E c \in checks, ok \in BOOLEAN : Observe(c, ok)
       \/ (\E n \in 0 .. Len(log) - 1 : Restore(n))
       \/ log' = log
  BY Zenon
     DEF LeaseNext, leaseVars, ActionContext, BindBasis, RunWork, RevokeAdmission, DropWork,
         SetStanding, SetPolicy, Restart, Tick, Check, SetClock, HubChanges
<1>15. Lapsed'
  BY <1>9, <1>10, <1>11, <1>12, <1>13, <1>14 DEF Revoke
<1> QED
  BY <1>7, <1>15

LEMMA ChainAccepted == LeaseTypes => LeaseTypeOK
<1> SUFFICES ASSUME LeaseTypes PROVE LeaseTypeOK
  OBVIOUS
<1>1. wall \in 1 .. MaxWall /\ elapsed \in 0 .. MaxWall /\ epoch \in 0 .. MaxEpoch
  BY DEF LeaseTypes, ClockOK
<1>2. live = LeaseNone \/ live \in [revoked : BOOLEAN, rev : 0 .. MaxRev, end : 0 .. Never]
  BY DEF LeaseTypes, RestOK, Lives
<1>3. ASSUME NEW i \in DOMAIN log
      PROVE  log[i] \in Records /\ Fits(log, i)
  <2>1. log \in Seq(Records) /\ i \in 1 .. Len(log)
    BY <1>3 DEF LeaseTypes, Chain
  <2> QED
    BY <2>1, ElementOfSeq DEF LeaseTypes, Chain
<1> QED
  BY <1>1, <1>2, <1>3 DEF LeaseTypeOK, Fits, Succeeds

(* The lease in time: its records are a chain that only tightens, a bound  *)
(* that has passed stays passed and lets no work run, and work stays in    *)
(* the window of a proof and inside the bounds of the moment.              *)
THEOREM LeaseHolds ==
  ASSUME Faults = {}
  PROVE  LeaseSpec => LeaseBounded
<1>1. LeaseInit => LeaseTypes /\ ClockForward /\ BasisInv
  BY LeaseStart DEF LeaseInit, ClockForward, BasisInv
<1>2. LeaseTypes /\ ClockForward /\ BasisInv /\ [LeaseNext]_leaseVars
        => LeaseTypes' /\ ClockForward' /\ BasisInv'
  BY LeaseTypeStep, ForwardStep, BasisStep
<1>3. LeaseTypes /\ LeaseTypes' /\ ClockForward /\ BasisInv /\ [LeaseNext]_leaseVars
        => [Lapsed => Lapsed' /\ ~ RunWork]_leaseVars
  BY LapseStep
<1>4. LeaseSpec => WorkWithinOutage
  BY OutageHolds
<1> QED
  BY <1>1, <1>2, <1>3, <1>4, ChainAccepted, BoundsHold, PTL
     DEF LeaseSpec, LeaseBounded, LapseFinal

-----------------------------------------------------------------------------
(* Streamed uploads *)

FilesOK ==
  /\ uploadDisk \in Seq(Contents) /\ Len(uploadDisk) <= Inodes
  /\ staged \in 1..Len(uploadDisk) \cup {UploadNone}
  /\ placed \in 1..Len(uploadDisk) \cup {UploadNone}

Rows == [digest : Contents, status : {"processing", "applied", "rejected", "expired"}]

RowsOK ==
  /\ row = UploadNone \/ row \in Rows
  /\ published \in Contents \cup {UploadNone}
  /\ AppliedPublished

LateOK ==
  /\ late \subseteq Writes \cup Creates
  /\ \A w \in late : w \in Writes => w.inode \in 1..Len(uploadDisk) /\ w.pos < Chunks

(* An attempt holds the path, writes a file that exists, and from its      *)
(* claim on is the one that settles the row.                               *)
AttemptOK(q) ==
  /\ receiving = q
  /\ req[q].pc # "opening" => req[q].inode \in 1..Len(uploadDisk)
  /\ req[q].pc \in {"claimed", "placed"} => row # UploadNone /\ row.status = "processing"

ReqOK ==
  /\ receiving \in Requests \cup {UploadNone}
  /\ req \in [Requests -> {UploadIdle, Gone} \cup Attempts]
  /\ \A q \in Requests : req[q] \in Attempts => AttemptOK(q)

UploadInv == FilesOK /\ RowsOK /\ LateOK /\ ReqOK

LEMMA UploadNatural ==
  /\ Chunks \in Nat /\ Chunks > 0 /\ Inodes \in Nat
  /\ UploadNone \notin Nat /\ UploadNone \notin Requests
  /\ UploadNone \notin Contents /\ UploadNone \notin Rows
BY UploadAssumption, UploadNoneAssumption
   DEF UploadAssumption, UploadNoneAssumption, Contents, Rows

(* An attempt under way, told by its step. *)
LEMMA AttemptOf ==
  ASSUME ReqOK, NEW q \in Requests
  PROVE  /\ req[q] \in Attempts <=> req[q].pc \notin {"idle", "gone"}
         /\ req[q].pc \notin {"idle", "gone"} => AttemptOK(q)
         /\ UploadIdle \notin Attempts /\ Gone \notin Attempts
         /\ UploadIdle.pc = "idle" /\ Gone.pc = "gone"
<1>1. req[q] \in {UploadIdle, Gone} \cup Attempts
  BY DEF ReqOK
<1>2. UploadIdle.pc = "idle" /\ Gone.pc = "gone"
  BY DEF UploadIdle, Gone
<1>3. \A r \in Attempts : r.pc \notin {"idle", "gone"}
  BY DEF Attempts
<1> QED
  BY <1>1, <1>2, <1>3 DEF ReqOK

(* Only the attempt that holds the path moves; it goes on or ends. *)
LEMMA OwnStep ==
  ASSUME ReqOK, NEW q \in Requests, req[q] \in Attempts, NEW r, req' = [req EXCEPT ![q] = r],
         \/ r = Gone /\ receiving' = UploadNone
         \/ r \in Attempts /\ AttemptOK(q)'
  PROVE  ReqOK'
<1>1. req'[q] = r /\ \A v \in Requests : v # q => req'[v] = req[v]
  BY DEF ReqOK
<1>2. \A v \in Requests : v # q => req[v] \notin Attempts
  BY DEF ReqOK, AttemptOK
<1>3. req' \in [Requests -> {UploadIdle, Gone} \cup Attempts]
  BY DEF ReqOK
<1>4. receiving' \in Requests \cup {UploadNone}
  BY DEF AttemptOK
<1>5. Gone \notin Attempts
  BY AttemptOf
<1> QED
  BY <1>1, <1>2, <1>3, <1>4, <1>5 DEF ReqOK

(* A step that moves no attempt and settles no row. *)
LEMMA ReqKept ==
  ASSUME FilesOK, FilesOK', ReqOK, UNCHANGED <<req, receiving, row>>,
         Len(uploadDisk) <= Len(uploadDisk')
  PROVE  ReqOK'
<1>1. Len(uploadDisk) \in Nat /\ Len(uploadDisk') \in Nat
  BY DEF FilesOK
<1>2. 1..Len(uploadDisk) \subseteq 1..Len(uploadDisk')
  BY <1>1
<1> QED
  BY <1>2 DEF ReqOK, AttemptOK

LEMMA LateKept ==
  ASSUME FilesOK, FilesOK', LateOK, late' \subseteq late, Len(uploadDisk) <= Len(uploadDisk')
  PROVE  LateOK'
<1>1. Len(uploadDisk) \in Nat /\ Len(uploadDisk') \in Nat
  BY DEF FilesOK
<1>2. 1..Len(uploadDisk) \subseteq 1..Len(uploadDisk')
  BY <1>1
<1> QED
  BY <1>2 DEF LateOK

(* A chunk lands at the end, or where its writer stands. *)
LEMMA WrittenType ==
  ASSUME NEW c \in Contents, NEW append \in BOOLEAN, NEW pos \in 0..Chunks, pos < Chunks
  PROVE  /\ Written(c, append, pos) \in Contents
         /\ pos = Len(c) /\ (\A i \in 1..Len(c) : c[i] = i) =>
              /\ Len(Written(c, append, pos)) = pos + 1
              /\ \A i \in 1..(pos + 1) : Written(c, append, pos)[i] = i
<1> DEFINE at == IF append THEN Len(c) + 1 ELSE pos + 1
           m == Max({at, Len(c)})
           old(i) == IF i <= Len(c) THEN c[i] ELSE 0
<1>1. Len(c) \in Nat /\ \A i \in 1..Len(c) : c[i] \in 0..Chunks
  BY ElementOfSeq, LenProperties DEF Contents
<1>2. at \in Nat /\ at > 0
  BY <1>1, UploadNatural
<1>3. m \in Nat /\ m >= at /\ m >= Len(c) /\ (m = at \/ m = Len(c))
  <2>1. \E x \in {at, Len(c)} : \A y \in {at, Len(c)} : x >= y
    BY <1>1, <1>2
  <2> HIDE DEF at
  <2> QED
    BY <1>1, <1>2, <2>1 DEF Max
<1>4. Written(c, append, pos) = [i \in 1..m |-> IF i = at THEN pos + 1 ELSE old(i)]
  BY DEF Written
<1>5. \A i \in 1..m : (IF i = at THEN pos + 1 ELSE old(i)) \in 0..Chunks
  BY <1>1, <1>2, <1>3, UploadNatural
<1>6. pos = Len(c) => at = pos + 1
  OBVIOUS
<1> HIDE DEF at, m
<1>7. Written(c, append, pos) \in Contents /\ Len(Written(c, append, pos)) = m
  BY <1>3, <1>4, <1>5 DEF Contents
<1>8. ASSUME pos = Len(c), \A i \in 1..Len(c) : c[i] = i
      PROVE  m = pos + 1 /\ \A i \in 1..(pos + 1) : Written(c, append, pos)[i] = i
  <2>1. m = pos + 1
    BY <1>1, <1>3, <1>6, <1>8
  <2>2. \A i \in 1..(pos + 1) : (IF i = at THEN pos + 1 ELSE old(i)) = i
    BY <1>1, <1>6, <1>8
  <2> QED
    BY <1>4, <2>1, <2>2
<1> QED
  BY <1>7, <1>8

\* A chunk written where the file ends.
LEMMA WrittenExact ==
  \A p \in 0..Chunks, x \in Contents, y \in BOOLEAN :
    p < Chunks /\ p = Len(x) /\ (\A j \in 1..Len(x) : x[j] = j) =>
      /\ Written(x, y, p) \in Contents /\ Len(Written(x, y, p)) = p + 1
      /\ \A j \in 1..(p + 1) : Written(x, y, p)[j] = j
BY WrittenType

(* Creating the staging file: a new one, or the old one cut to nothing. *)
LEMMA CreatedType ==
  ASSUME FilesOK, CreatedAs <= Inodes, uploadDisk' = Created, staged' = CreatedAs,
         placed' = placed
  PROVE  /\ FilesOK' /\ Len(uploadDisk) <= Len(uploadDisk')
         /\ staged' \in 1..Len(uploadDisk') /\ staged' # UploadNone
         /\ uploadDisk'[staged'] = <<>>
         /\ staged' \in 1..Inodes
<1>1. <<>> \in Contents /\ uploadDisk \in Seq(Contents) /\ Len(uploadDisk) \in Nat
  BY DEF Contents, FilesOK
<1>2. CASE staged = UploadNone
  <2>1. uploadDisk' = Append(uploadDisk, <<>>) /\ staged' = Len(uploadDisk) + 1
        /\ Len(uploadDisk) + 1 <= Inodes
    BY <1>2 DEF Created, CreatedAs
  <2>2. uploadDisk' \in Seq(Contents) /\ Len(uploadDisk') = Len(uploadDisk) + 1
        /\ uploadDisk'[Len(uploadDisk) + 1] = <<>>
    BY <1>1, <2>1, AppendProperties
  <2> QED
    BY <1>1, <2>1, <2>2, UploadNatural DEF FilesOK
<1>3. CASE staged # UploadNone
  <2>1. uploadDisk' = [uploadDisk EXCEPT ![staged] = <<>>] /\ staged' = staged
        /\ staged \in 1..Len(uploadDisk)
    BY <1>3 DEF Created, CreatedAs, FilesOK
  <2>2. uploadDisk' \in Seq(Contents) /\ Len(uploadDisk') = Len(uploadDisk)
        /\ uploadDisk'[staged] = <<>>
    BY <1>1, <2>1, ExceptSeq
  <2> QED
    BY <1>1, <2>1, <2>2, UploadNatural DEF FilesOK
<1> QED
  BY <1>2, <1>3

(* Writing to a file that exists. *)
LEMMA WroteType ==
  ASSUME FilesOK, NEW i \in 1..Len(uploadDisk), NEW c \in Contents,
         uploadDisk' = [uploadDisk EXCEPT ![i] = c], UNCHANGED <<staged, placed>>
  PROVE  /\ FilesOK' /\ Len(uploadDisk) = Len(uploadDisk') /\ uploadDisk'[i] = c
         /\ \A j \in 1..Len(uploadDisk) : j # i => uploadDisk'[j] = uploadDisk[j]
<1>1. uploadDisk \in Seq(Contents) /\ Len(uploadDisk) \in Nat
  BY DEF FilesOK
<1>2. uploadDisk' \in Seq(Contents) /\ Len(uploadDisk') = Len(uploadDisk) /\ uploadDisk'[i] = c
      /\ \A j \in 1..Len(uploadDisk) : j # i => uploadDisk'[j] = uploadDisk[j]
  BY <1>1, ExceptSeq
<1> QED
  BY <1>1, <1>2 DEF FilesOK

LEMMA FileType ==
  ASSUME FilesOK, NEW i \in 1..Len(uploadDisk)
  PROVE  uploadDisk[i] \in Contents
BY ElementOfSeq DEF FilesOK

(* The fields of an attempt as it goes on. *)
LEMMA AttemptFields ==
  ASSUME NEW r \in Attempts
  PROVE  /\ r.inode \in 1..Inodes \cup {UploadNone} /\ r.append \in BOOLEAN
         /\ r.got \in 0..Chunks /\ r.out \in 0..Chunks /\ r.digest \in Contents
         /\ r.cut \in Contents
         /\ r.pc \in {"opening", "receiving", "digesting", "digested", "claimed", "placed"}
BY DEF Attempts

LEMMA OpenedFields ==
  ASSUME NEW r \in Attempts, NEW i \in 1..Inodes
  PROVE  LET n == [r EXCEPT !.pc = "receiving", !.inode = i] IN
         /\ n \in Attempts /\ n.pc = "receiving" /\ n.inode = i
         /\ n.out = r.out /\ n.got = r.got /\ n.append = r.append
BY DEF Attempts

LEMMA TookFields ==
  ASSUME NEW r \in Attempts, NEW g \in 0..Chunks
  PROVE  LET n == [r EXCEPT !.got = g] IN
         /\ n \in Attempts /\ n.pc = r.pc /\ n.inode = r.inode
         /\ n.out = r.out /\ n.got = g /\ n.append = r.append
BY DEF Attempts

LEMMA WroteFields ==
  ASSUME NEW r \in Attempts, NEW g \in 0..Chunks
  PROVE  LET n == [r EXCEPT !.out = g] IN
         /\ n \in Attempts /\ n.pc = r.pc /\ n.inode = r.inode
         /\ n.out = g /\ n.got = r.got /\ n.append = r.append
BY DEF Attempts

LEMMA StageFields ==
  ASSUME NEW r \in Attempts, NEW p \in {"digesting", "claimed"}
  PROVE  LET n == [r EXCEPT !.pc = p] IN
         /\ n \in Attempts /\ n.pc = p /\ n.inode = r.inode /\ n.digest = r.digest
BY DEF Attempts

LEMMA DigestedFields ==
  ASSUME NEW r \in Attempts, NEW d \in Contents
  PROVE  LET n == [r EXCEPT !.pc = "digested", !.digest = d] IN
         /\ n \in Attempts /\ n.pc = "digested" /\ n.inode = r.inode /\ n.digest = d
BY DEF Attempts

LEMMA CutFields ==
  ASSUME NEW r \in Attempts, NEW d \in Contents
  PROVE  LET n == [r EXCEPT !.pc = "placed", !.cut = d] IN
         /\ n \in Attempts /\ n.pc = "placed" /\ n.inode = r.inode /\ n.digest = r.digest
         /\ n.cut = d
BY DEF Attempts

(* Nothing is staged, claimed or published at first. *)
LEMMA UploadStart == UploadInit => UploadInv
<1> SUFFICES ASSUME UploadInit PROVE UploadInv
  OBVIOUS
<1>1. FilesOK
  BY UploadNatural DEF UploadInit, FilesOK
<1>2. RowsOK /\ LateOK
  BY DEF UploadInit, RowsOK, LateOK, AppliedPublished
<1>3. UploadIdle \notin Attempts
  BY DEF UploadIdle, Attempts
<1>4. ReqOK
  BY <1>3 DEF UploadInit, ReqOK
<1> QED
  BY <1>1, <1>2, <1>4 DEF UploadInv

(* The attempt ends: the row is settled by it or left alone. *)
LEMMA EndKeeps ==
  ASSUME UploadInv, NEW q \in Requests, req[q].pc \notin {"idle", "gone"}, End(q)
  PROVE  ReqOK'
<1>1. req[q] \in Attempts
  BY AttemptOf DEF UploadInv
<1> QED
  BY <1>1, OwnStep DEF UploadInv, End

LEMMA RowSettled ==
  ASSUME UploadInv, row # UploadNone, NEW s \in {"applied", "rejected", "expired"},
         row' = [row EXCEPT !.status = s]
  PROVE  row' \in Rows /\ row' # UploadNone /\ row'.status = s
<1>1. row \in Rows
  BY DEF UploadInv, RowsOK
<1>2. row' \in Rows /\ row'.status = s
  BY <1>1 DEF Rows
<1> QED
  BY <1>2, UploadNatural

LEMMA UploadStep ==
  ASSUME UploadInv, [UploadNext]_uploadVars
  PROVE  UploadInv'
<1> SUFFICES FilesOK' /\ RowsOK' /\ LateOK' /\ ReqOK'
  BY DEF UploadInv
<1>1. FilesOK /\ RowsOK /\ LateOK /\ ReqOK /\ Len(uploadDisk) \in Nat
  BY DEF UploadInv, FilesOK
<1>2. UNCHANGED <<uploadDisk, staged, placed>> => FilesOK'
  BY <1>1 DEF FilesOK
<1>3. UNCHANGED <<row, published>> => RowsOK'
  BY <1>1 DEF RowsOK, AppliedPublished
<1>4. UNCHANGED <<late, uploadDisk>> => LateOK'
  BY <1>1 DEF LateOK
<1>5. UNCHANGED uploadDisk /\ staged' = UploadNone /\ placed' = placed => FilesOK'
  BY <1>1 DEF FilesOK
<1>6. ASSUME NEW q \in Requests, req[q].pc \notin {"idle", "gone"}
      PROVE  /\ req[q] \in Attempts /\ AttemptOK(q)
             /\ req[q].pc # "opening" => req[q].inode \in 1..Len(uploadDisk)
  BY <1>1, <1>6, AttemptOf DEF AttemptOK
<1>7. ASSUME NEW q \in Requests, NEW o \in 0..Chunks, Start(q, o) PROVE UploadInv'
  <2>1. /\ UNCHANGED <<uploadDisk, staged, placed, late, row, published>>
        /\ receiving = UploadNone /\ receiving' = q /\ req' = [req EXCEPT ![q] = Began(o)]
    BY <1>7 DEF Start, MayReceive
  <2>2. Began(o) \in Attempts /\ Began(o).pc = "opening"
    BY DEF Began, Attempts, Contents
  <2>3. \A v \in Requests : req[v] \notin Attempts
    BY <1>1, <2>1, UploadNatural DEF ReqOK, AttemptOK
  <2>4. req'[q] = Began(o) /\ \A v \in Requests : v # q => req'[v] = req[v]
    BY <1>1, <2>1 DEF ReqOK
  <2>5. req' \in [Requests -> {UploadIdle, Gone} \cup Attempts]
    BY <1>1, <2>1, <2>2 DEF ReqOK
  <2>6. ReqOK'
    BY <2>1, <2>2, <2>3, <2>4, <2>5 DEF ReqOK, AttemptOK
  <2> QED
    BY <1>2, <1>3, <1>4, <2>1, <2>6 DEF UploadInv
<1>8. ASSUME NEW q \in Requests, NEW o \in 0..Chunks, Turned(q, o) PROVE UploadInv'
  <2>1. /\ UNCHANGED <<uploadDisk, staged, placed, receiving, late, row, published>>
        /\ req[q] = UploadIdle /\ req' = [req EXCEPT ![q] = Gone]
    BY <1>8 DEF Turned
  <2>2. Gone \notin Attempts
    BY <1>1, AttemptOf
  <2>3. ReqOK'
    BY <1>1, <2>1, <2>2 DEF ReqOK, AttemptOK
  <2> QED
    BY <1>2, <1>3, <1>4, <2>1, <2>3 DEF UploadInv
<1>9. ASSUME NEW q \in Requests, UploadOpen(q) PROVE UploadInv'
  <2>1. req[q].pc = "opening" /\ UNCHANGED <<placed, receiving, late, row, published>>
    BY <1>9 DEF UploadOpen
  <2>2. req[q] \in Attempts /\ receiving = q
    BY <1>6, <2>1 DEF AttemptOK
  <2>3. ASSUME NEW i \in 1..Inodes, i \in 1..Len(uploadDisk'),
               req' = [req EXCEPT ![q].pc = "receiving", ![q].inode = i]
        PROVE  ReqOK'
    <3> DEFINE n == [req[q] EXCEPT !.pc = "receiving", !.inode = i]
    <3>1. n \in Attempts /\ n.pc = "receiving" /\ n.inode = i
      BY <2>2, OpenedFields
    <3>2. req' = [req EXCEPT ![q] = n]
      BY <1>1, <2>3 DEF ReqOK
    <3> HIDE DEF n
    <3>3. req'[q] = n
      BY <1>1, <3>2 DEF ReqOK
    <3>4. AttemptOK(q)'
      BY <2>1, <2>2, <2>3, <3>1, <3>3 DEF AttemptOK
    <3> QED
      BY <1>1, <2>2, <3>1, <3>2, <3>4, OwnStep
  <2>4. CASE req[q].append
    <3>1. staged # UploadNone /\ UNCHANGED <<uploadDisk, staged>>
          /\ req' = [req EXCEPT ![q].pc = "receiving", ![q].inode = staged]
      BY <1>9, <2>4 DEF UploadOpen
    <3>2. staged \in 1..Len(uploadDisk) /\ staged \in 1..Inodes
      BY <1>1, <3>1, UploadNatural DEF FilesOK
    <3>3. ReqOK'
      BY <2>3, <3>1, <3>2
    <3> QED
      BY <1>2, <1>3, <1>4, <2>1, <3>1, <3>3 DEF UploadInv
  <2>5. CASE ~ req[q].append
    <3>1. /\ CreatedAs <= Inodes /\ uploadDisk' = Created /\ staged' = CreatedAs
          /\ req' = [req EXCEPT ![q].pc = "receiving", ![q].inode = CreatedAs]
      BY <1>9, <2>5 DEF UploadOpen
    <3>2. /\ FilesOK' /\ Len(uploadDisk) <= Len(uploadDisk') /\ staged' \in 1..Len(uploadDisk')
          /\ staged' \in 1..Inodes
      BY <1>1, <2>1, <3>1, CreatedType
    <3>3. ReqOK'
      BY <2>3, <3>1, <3>2
    <3>4. LateOK'
      BY <1>1, <2>1, <3>2, LateKept
    <3> QED
      BY <1>3, <2>1, <3>2, <3>3, <3>4 DEF UploadInv
  <2> QED
    BY <2>4, <2>5
<1>10. ASSUME NEW q \in Requests, OpenFails(q) \/ Interrupted(q) \/ DigestFails(q) PROVE UploadInv'
  <2>1. /\ req[q].pc \notin {"idle", "gone"} /\ End(q)
        /\ UNCHANGED <<uploadDisk, staged, placed, late, row, published>>
    BY <1>10 DEF OpenFails, Interrupted, DigestFails
  <2>2. ReqOK'
    BY <2>1, EndKeeps
  <2> QED
    BY <1>2, <1>3, <1>4, <2>1, <2>2 DEF UploadInv
<1>11. ASSUME NEW q \in Requests, NEW n \in Attempts, req[q].pc \notin {"idle", "gone"},
              req' = [req EXCEPT ![q] = n], n.inode = req[q].inode,
              n.pc \notin {"claimed", "placed"}, n.pc = "opening" <=> req[q].pc = "opening",
              Len(uploadDisk') = Len(uploadDisk), receiving' = receiving
       PROVE  ReqOK'
  <2>1. req[q] \in Attempts /\ AttemptOK(q)
    BY <1>6, <1>11
  <2>2. req'[q] = n
    BY <1>1, <1>11 DEF ReqOK
  <2>3. AttemptOK(q)'
    BY <1>11, <2>1, <2>2 DEF AttemptOK
  <2> QED
    BY <1>1, <1>11, <2>1, <2>3, OwnStep
<1>12. ASSUME NEW q \in Requests, Accept(q) PROVE UploadInv'
  <2> DEFINE g == req[q].got + 1
             n == [req[q] EXCEPT !.got = g]
  <2>1. /\ req[q].pc = "receiving" /\ req[q].got < Chunks
        /\ UNCHANGED <<uploadDisk, staged, placed, receiving, late, row, published>>
    BY <1>12 DEF Accept
  <2>2. req[q] \in Attempts
    BY <1>6, <2>1
  <2>3. g \in 0..Chunks
    BY <2>1, <2>2, AttemptFields, UploadNatural
  <2>4. req' = [req EXCEPT ![q] = n]
    BY <1>1, <1>12, <2>2 DEF Accept, ReqOK
  <2>5. n \in Attempts /\ n.pc = req[q].pc /\ n.inode = req[q].inode
    BY <2>2, <2>3, TookFields
  <2> HIDE DEF g, n
  <2>6. ReqOK'
    BY <1>11, <2>1, <2>4, <2>5
  <2> QED
    BY <1>2, <1>3, <1>4, <2>1, <2>6 DEF UploadInv
<1>13. ASSUME NEW q \in Requests, WriteOut(q) PROVE UploadInv'
  <2> DEFINE g == req[q].out + 1
             n == [req[q] EXCEPT !.out = g]
             i == req[q].inode
             c == Written(uploadDisk[i], req[q].append, req[q].out)
  <2>1. /\ req[q].pc = "receiving" /\ req[q].out < req[q].got
        /\ uploadDisk' = [uploadDisk EXCEPT ![i] = c]
        /\ UNCHANGED <<staged, placed, receiving, late, row, published>>
    BY <1>13 DEF WriteOut
  <2>2. req[q] \in Attempts /\ i \in 1..Len(uploadDisk)
    BY <1>6, <2>1
  <2>3. /\ req[q].out \in 0..Chunks /\ req[q].out < Chunks /\ g \in 0..Chunks
        /\ req[q].append \in BOOLEAN
    BY <2>1, <2>2, AttemptFields, UploadNatural
  <2>4. req' = [req EXCEPT ![q] = n]
    BY <1>1, <1>13, <2>2 DEF WriteOut, ReqOK
  <2>5. n \in Attempts /\ n.pc = req[q].pc /\ n.inode = req[q].inode
    BY <2>2, <2>3, WroteFields
  <2>6. c \in Contents
    BY <1>1, <2>2, <2>3, FileType, WrittenType
  <2> HIDE DEF g, n, c, i
  <2>7. FilesOK' /\ Len(uploadDisk) = Len(uploadDisk')
    BY <1>1, <2>1, <2>2, <2>6, WroteType
  <2>8. ReqOK'
    BY <1>11, <2>1, <2>4, <2>5, <2>7
  <2>9. LateOK'
    BY <1>1, <2>1, <2>7, LateKept
  <2> QED
    BY <1>3, <2>1, <2>7, <2>8, <2>9 DEF UploadInv
<1>14. ASSUME NEW q \in Requests, BodyEnds(q) PROVE UploadInv'
  <2> DEFINE n == [req[q] EXCEPT !.pc = "digesting"]
  <2>1. /\ req[q].pc = "receiving"
        /\ UNCHANGED <<uploadDisk, staged, placed, receiving, late, row, published>>
    BY <1>14 DEF BodyEnds
  <2>2. req[q] \in Attempts
    BY <1>6, <2>1
  <2>3. req' = [req EXCEPT ![q] = n]
    BY <1>1, <1>14 DEF BodyEnds, ReqOK
  <2>4. n \in Attempts /\ n.pc = "digesting" /\ n.inode = req[q].inode
    BY <2>2, StageFields
  <2> HIDE DEF n
  <2>5. ReqOK'
    BY <1>11, <2>1, <2>3, <2>4
  <2> QED
    BY <1>2, <1>3, <1>4, <2>1, <2>5 DEF UploadInv
<1>15. ASSUME NEW q \in Requests, Digest(q) PROVE UploadInv'
  <2> DEFINE n == [req[q] EXCEPT !.pc = "digested", !.digest = uploadDisk[staged]]
  <2>1. /\ req[q].pc = "digesting" /\ staged # UploadNone
        /\ UNCHANGED <<uploadDisk, staged, placed, receiving, late, row, published>>
    BY <1>15 DEF Digest
  <2>2. req[q] \in Attempts /\ uploadDisk[staged] \in Contents
    BY <1>1, <1>6, <2>1, FileType DEF FilesOK
  <2>3. req' = [req EXCEPT ![q] = n]
    BY <1>1, <1>15 DEF Digest, ReqOK
  <2>4. n \in Attempts /\ n.pc = "digested" /\ n.inode = req[q].inode
    BY <2>2, DigestedFields
  <2> HIDE DEF n
  <2>5. ReqOK'
    BY <1>11, <2>1, <2>3, <2>4
  <2> QED
    BY <1>2, <1>3, <1>4, <2>1, <2>5 DEF UploadInv

<1>16. ASSUME NEW q \in Requests, Claim(q) PROVE UploadInv'
  <2> DEFINE n == [req[q] EXCEPT !.pc = "claimed"]
             d == req[q].digest
  <2>1. /\ req[q].pc = "digested" /\ row = UploadNone
        /\ row' = [digest |-> d, status |-> "processing"]
        /\ UNCHANGED <<uploadDisk, staged, placed, receiving, late, published>>
    BY <1>16 DEF Claim
  <2>2. req[q] \in Attempts /\ AttemptOK(q) /\ d \in Contents
    BY <1>6, <2>1, AttemptFields
  <2>3. req' = [req EXCEPT ![q] = n]
    BY <1>1, <1>16 DEF Claim, ReqOK
  <2>4. n \in Attempts /\ n.pc = "claimed" /\ n.inode = req[q].inode
    BY <2>2, StageFields
  <2> HIDE DEF n, d
  <2>5. row' \in Rows /\ row'.status = "processing" /\ row' # UploadNone
    <3>1. row' \in Rows /\ row'.status = "processing"
      BY <2>1, <2>2 DEF Rows
    <3> QED
      BY <3>1, UploadNatural
  <2>6. req'[q] = n
    BY <1>1, <2>3 DEF ReqOK
  <2>7. AttemptOK(q)'
    BY <2>1, <2>2, <2>4, <2>5, <2>6 DEF AttemptOK
  <2>8. ReqOK'
    BY <1>1, <2>2, <2>3, <2>4, <2>7, OwnStep
  <2>9. published = UploadNone
    BY <1>1, <2>1 DEF RowsOK, AppliedPublished
  <2>10. RowsOK'
    BY <1>1, <2>1, <2>5, <2>9 DEF RowsOK, AppliedPublished
  <2> QED
    BY <1>2, <1>4, <2>1, <2>8, <2>10 DEF UploadInv
<1>17. ASSUME NEW q \in Requests, Refused(q) PROVE UploadInv'
  <2>1. /\ req[q].pc \notin {"idle", "gone"} /\ End(q) /\ staged' = UploadNone
        /\ UNCHANGED <<uploadDisk, placed, late, row, published>>
    BY <1>17 DEF Refused
  <2>2. ReqOK'
    BY <2>1, EndKeeps
  <2> QED
    BY <1>3, <1>4, <1>5, <2>1, <2>2 DEF UploadInv
<1>18. ASSUME NEW q \in Requests, Ingest(q) PROVE UploadInv'
  <2> DEFINE n == [req[q] EXCEPT !.pc = "placed", !.cut = uploadDisk[staged]]
  <2>1. /\ req[q].pc = "claimed" /\ staged # UploadNone /\ placed' = staged /\ staged' = UploadNone
        /\ UNCHANGED <<uploadDisk, receiving, late, row, published>>
    BY <1>18 DEF Ingest
  <2>2. req[q] \in Attempts /\ AttemptOK(q) /\ uploadDisk[staged] \in Contents
    BY <1>1, <1>6, <2>1, FileType DEF FilesOK
  <2>3. req' = [req EXCEPT ![q] = n]
    BY <1>1, <1>18 DEF Ingest, ReqOK
  <2>4. n \in Attempts /\ n.pc = "placed" /\ n.inode = req[q].inode
    BY <2>2, CutFields
  <2> HIDE DEF n
  <2>5. req'[q] = n
    BY <1>1, <2>3 DEF ReqOK
  <2>6. AttemptOK(q)'
    BY <2>1, <2>2, <2>4, <2>5 DEF AttemptOK
  <2>7. ReqOK'
    BY <1>1, <2>2, <2>3, <2>4, <2>6, OwnStep
  <2>8. FilesOK'
    BY <1>1, <2>1 DEF FilesOK
  <2> QED
    BY <1>3, <1>4, <2>1, <2>7, <2>8 DEF UploadInv
<1>19. ASSUME NEW q \in Requests, req[q].pc \in {"claimed", "placed"}, End(q),
              NEW s \in {"rejected", "expired"}, row' = [row EXCEPT !.status = s],
              published' = published
       PROVE  RowsOK' /\ ReqOK'
  <2>1. row # UploadNone /\ row.status = "processing"
    BY <1>6, <1>19 DEF AttemptOK
  <2>2. row' \in Rows /\ row' # UploadNone /\ row'.status = s
    BY <1>19, <2>1, RowSettled
  <2>3. published = UploadNone
    BY <1>1, <2>1 DEF RowsOK, AppliedPublished
  <2>4. RowsOK'
    BY <1>1, <1>19, <2>2, <2>3 DEF RowsOK, AppliedPublished
  <2>5. ReqOK'
    BY <1>19, EndKeeps
  <2> QED
    BY <2>4, <2>5
<1>20. ASSUME NEW q \in Requests, IngestFails(q) PROVE UploadInv'
  <2>1. /\ req[q].pc = "claimed" /\ End(q) /\ staged' = UploadNone
        /\ row' = [row EXCEPT !.status = "rejected"]
        /\ UNCHANGED <<uploadDisk, placed, late, published>>
    BY <1>20 DEF IngestFails
  <2>2. RowsOK' /\ ReqOK'
    BY <1>19, <2>1
  <2> QED
    BY <1>4, <1>5, <2>1, <2>2 DEF UploadInv
<1>21. ASSUME NEW q \in Requests, PublishFails(q) PROVE UploadInv'
  <2>1. PICK s \in {"rejected", "expired"} : row' = [row EXCEPT !.status = s]
    BY <1>21 DEF PublishFails
  <2>2. /\ req[q].pc = "placed" /\ End(q)
        /\ UNCHANGED <<uploadDisk, staged, placed, late, published>>
    BY <1>21 DEF PublishFails
  <2>3. RowsOK' /\ ReqOK'
    BY <1>19, <2>1, <2>2
  <2> QED
    BY <1>2, <1>4, <2>2, <2>3 DEF UploadInv
<1>22. ASSUME NEW q \in Requests, UploadPublish(q) PROVE UploadInv'
  <2>1. /\ req[q].pc = "placed" /\ End(q) /\ published' = req[q].cut
        /\ row' = [row EXCEPT !.status = "applied"]
        /\ UNCHANGED <<uploadDisk, staged, placed, late>>
    BY <1>22 DEF UploadPublish
  <2>2. row # UploadNone /\ req[q] \in Attempts
    BY <1>6, <2>1 DEF AttemptOK
  <2>3. row' \in Rows /\ row' # UploadNone /\ row'.status = "applied"
    BY <2>1, <2>2, RowSettled
  <2>4. published' \in Contents /\ published' # UploadNone
    BY <2>1, <2>2, AttemptFields, UploadNatural
  <2>5. RowsOK'
    BY <2>3, <2>4 DEF RowsOK, AppliedPublished
  <2>6. ReqOK'
    BY <2>1, EndKeeps
  <2> QED
    BY <1>2, <1>4, <2>1, <2>5, <2>6 DEF UploadInv
<1>23. ASSUME NEW q \in Requests, DropRequest(q) PROVE UploadInv'
  <2>1. /\ req[q].pc \notin {"idle", "gone"} /\ End(q)
        /\ late' = late \/ late' = late \cup InFlight(q)
        /\ UNCHANGED <<uploadDisk, staged, placed, row, published>>
    BY <1>23 DEF DropRequest
  <2>2. ReqOK'
    BY <2>1, EndKeeps
  <2>3. req[q] \in Attempts /\ (req[q].pc # "opening" => req[q].inode \in 1..Len(uploadDisk))
    BY <1>6, <2>1
  <2>4. ASSUME NEW w \in InFlight(q)
        PROVE  /\ w \in Writes \cup Creates
               /\ w \in Writes => w.inode \in 1..Len(uploadDisk) /\ w.pos < Chunks
    <3>1. CASE w = [op |-> "create"]
      BY <3>1 DEF Writes, Creates
    <3>2. CASE /\ req[q].pc = "receiving" /\ req[q].out < req[q].got
               /\ w = [op |-> "write", inode |-> req[q].inode, append |-> req[q].append,
                       pos |-> req[q].out]
      <4>1. /\ req[q].inode \in 1..Len(uploadDisk) /\ req[q].append \in BOOLEAN
            /\ req[q].out \in 0..Chunks /\ req[q].out < Chunks
        BY <2>3, <3>2, AttemptFields, UploadNatural
      <4>2. req[q].inode \in 1..Inodes
        BY <1>1, <4>1, UploadNatural DEF FilesOK
      <4> QED
        BY <3>2, <4>1, <4>2 DEF Writes
    <3> QED
      BY <2>4, <3>1, <3>2 DEF InFlight
  <2>5. LateOK'
    BY <1>1, <2>1, <2>4 DEF LateOK
  <2> QED
    BY <1>2, <1>3, <2>1, <2>2, <2>5 DEF UploadInv
<1>24. ASSUME NEW w \in late, LateWrite(w) PROVE UploadInv'
  <2> DEFINE c == Written(uploadDisk[w.inode], w.append, w.pos)
  <2>1. /\ w.op = "write" /\ late' = late \ {w} /\ uploadDisk' = [uploadDisk EXCEPT ![w.inode] = c]
        /\ UNCHANGED <<staged, placed, receiving, req, row, published>>
    BY <1>24 DEF LateWrite
  <2>2. w \in Writes
    BY <1>1, <2>1 DEF LateOK, Creates
  <2>3. /\ w.inode \in 1..Len(uploadDisk) /\ w.pos < Chunks /\ w.pos \in 0..Chunks
        /\ w.append \in BOOLEAN
    BY <1>1, <2>2 DEF LateOK, Writes
  <2>4. c \in Contents
    BY <1>1, <2>3, FileType, WrittenType
  <2> HIDE DEF c
  <2>5. FilesOK' /\ Len(uploadDisk) = Len(uploadDisk')
    BY <1>1, <2>1, <2>3, <2>4, WroteType
  <2>6. Len(uploadDisk) <= Len(uploadDisk')
    BY <1>1, <2>5
  <2>7. ReqOK' /\ LateOK'
    BY <1>1, <2>1, <2>5, <2>6, ReqKept, LateKept
  <2> QED
    BY <1>3, <2>1, <2>5, <2>7 DEF UploadInv
<1>25. ASSUME NEW w \in late, LateCreate(w) PROVE UploadInv'
  <2>1. /\ CreatedAs <= Inodes /\ late' = late \ {w} /\ uploadDisk' = Created /\ staged' = CreatedAs
        /\ UNCHANGED <<placed, receiving, req, row, published>>
    BY <1>25 DEF LateCreate
  <2>2. FilesOK' /\ Len(uploadDisk) <= Len(uploadDisk')
    BY <1>1, <2>1, CreatedType
  <2>3. ReqOK' /\ LateOK'
    BY <1>1, <2>1, <2>2, ReqKept, LateKept
  <2> QED
    BY <1>3, <2>1, <2>2, <2>3 DEF UploadInv
<1>26. CASE Sweep
  <2>1. staged' = UploadNone /\ UNCHANGED <<uploadDisk, placed, receiving, req, late, row, published>>
    BY <1>26 DEF Sweep
  <2>2. ReqOK'
    BY <1>1, <2>1 DEF ReqOK, AttemptOK
  <2> QED
    BY <1>3, <1>4, <1>5, <2>1, <2>2
<1>27. CASE UploadCrash
  <2>1. /\ receiving # UploadNone /\ receiving' = UploadNone
        /\ req' = [req EXCEPT ![receiving] = Gone] /\ late' = {}
        /\ UNCHANGED <<uploadDisk, staged, placed, row, published>>
    BY <1>27 DEF UploadCrash
  <2>2. receiving \in Requests /\ Gone \notin Attempts
    BY <1>1, <2>1, AttemptOf DEF ReqOK
  <2>3. \A v \in Requests : v # receiving => req[v] \notin Attempts
    BY <1>1 DEF ReqOK, AttemptOK
  <2>4. \A v \in Requests : req'[v] \notin Attempts
    BY <1>1, <2>1, <2>2, <2>3 DEF ReqOK
  <2>5. req' \in [Requests -> {UploadIdle, Gone} \cup Attempts]
    BY <1>1, <2>1 DEF ReqOK
  <2>6. ReqOK'
    BY <2>1, <2>4, <2>5 DEF ReqOK
  <2>7. LateOK'
    BY <2>1 DEF LateOK
  <2> QED
    BY <1>2, <1>3, <2>1, <2>6, <2>7
<1>28. CASE UNCHANGED uploadVars
  BY <1>1, <1>28 DEF uploadVars, FilesOK, RowsOK, LateOK, ReqOK, AppliedPublished, AttemptOK
<1>29. UploadInv' => FilesOK' /\ RowsOK' /\ LateOK' /\ ReqOK'
  BY DEF UploadInv
<1> QED
  BY <1>7, <1>8, <1>9, <1>10, <1>12, <1>13, <1>14, <1>15, <1>16, <1>17, <1>18, <1>20, <1>21,
     <1>22, <1>23, <1>24, <1>25, <1>26, <1>27, <1>28, <1>29
     DEF UploadNext

(* The row and the resource agree: it says applied exactly when the        *)
(* receipt published something, however the attempts end and whatever the  *)
(* file operations of dropped ones still do.                               *)
THEOREM UploadHolds == UploadSpec => []UploadSafe
<1>1. UploadInv => UploadSafe
  BY DEF UploadInv, FilesOK, RowsOK, LateOK, ReqOK, UploadSafe, UploadTypeOK, Rows
<1>2. UploadInv /\ [UploadNext]_uploadVars => UploadInv'
  BY UploadStep
<1> QED
  BY <1>1, <1>2, UploadStart, PTL DEF UploadSpec

(* Every file operation ends with its request. *)
Attached == Detached = {}

(* The chunks 1..k of the client's file. *)
Prefix(c) == c \in Contents /\ Len(c) <= Chunks /\ \A i \in 1..Len(c) : c[i] = i

(* How far an attempt has come, and what that says of its file. *)
Progress(q) ==
  /\ req[q].pc = "opening" =>
       /\ ~ req[q].append => req[q].out = 0
       /\ req[q].append /\ staged # UploadNone => Len(uploadDisk[staged]) = req[q].out
  /\ req[q].pc \in {"receiving", "digesting"} =>
       /\ staged \in {UploadNone, req[q].inode}
       /\ Prefix(uploadDisk[req[q].inode])
       /\ Len(uploadDisk[req[q].inode]) = req[q].out
  /\ req[q].pc = "digesting" => req[q].out = Chunks
  /\ req[q].pc \in {"digested", "claimed", "placed"} => req[q].digest = File

ExactInv ==
  /\ late = {}
  /\ staged # UploadNone => Prefix(uploadDisk[staged])
  /\ \A q \in Requests : req[q] \in Attempts => Progress(q)
  /\ published = UploadNone \/ published = File

LEMMA WholePrefix ==
  ASSUME NEW c, Prefix(c), Len(c) = Chunks
  PROVE  c = File
<1>1. File \in Contents /\ Len(File) = Chunks /\ \A i \in 1..Chunks : File[i] = i
  BY UploadNatural DEF File, Contents
<1> QED
  BY <1>1, SeqEqual DEF Prefix, Contents

(* A step of the attempt that holds the path, or its end. *)
LEMMA ExactOwn ==
  ASSUME UploadInv, UploadInv', ExactInv, NEW q \in Requests, req[q] \in Attempts, late' = {},
         \A v \in Requests : v # q => req'[v] = req[v],
         req'[q] \in Attempts => Progress(q)',
         staged' # UploadNone => Prefix(uploadDisk'[staged']),
         published' = published \/ published' = File
  PROVE  ExactInv'
<1>1. \A v \in Requests : v # q => req[v] \notin Attempts
  BY DEF UploadInv, ReqOK, AttemptOK
<1>2. \A v \in Requests : req'[v] \in Attempts => Progress(v)'
  BY <1>1
<1>3. staged' # UploadNone => Prefix(uploadDisk[staged])'
  OBVIOUS
<1> QED
  BY <1>2, <1>3 DEF ExactInv

LEMMA ExactStep ==
  ASSUME Attached, UploadInv, UploadInv', ExactInv, [UploadNext]_uploadVars
  PROVE  ExactInv'
<1>1. ReqOK /\ FilesOK /\ late = {} /\ (staged # UploadNone => Prefix(uploadDisk[staged]))
  BY DEF UploadInv, ExactInv
<1>2. ASSUME NEW q \in Requests, req[q].pc \notin {"idle", "gone"}
      PROVE  /\ req[q] \in Attempts /\ AttemptOK(q) /\ Progress(q)
             /\ req[q].pc # "opening" => req[q].inode \in 1..Len(uploadDisk)
  BY <1>1, <1>2, AttemptOf DEF AttemptOK, ExactInv
<1>3. ASSUME NEW q \in Requests, req[q].pc \notin {"idle", "gone"}, End(q), late' = {},
             staged' = staged \/ staged' = UploadNone, uploadDisk' = uploadDisk,
             published' = published \/ published' = File
      PROVE  ExactInv'
  <2>1. req[q] \in Attempts /\ Gone \notin Attempts
    BY <1>1, <1>2, <1>3, AttemptOf
  <2>2. req'[q] = Gone /\ \A v \in Requests : v # q => req'[v] = req[v]
    BY <1>1, <1>3 DEF End, ReqOK
  <2>3. staged' # UploadNone => Prefix(uploadDisk'[staged'])
    BY <1>1, <1>3
  <2> QED
    BY <1>3, <2>1, <2>2, <2>3, ExactOwn
<1>4. ASSUME NEW q \in Requests, NEW o \in 0..Chunks, Start(q, o) PROVE ExactInv'
  <2>1. /\ UNCHANGED <<uploadDisk, staged, placed, late, row, published>> /\ o = Length
        /\ receiving = UploadNone /\ req' = [req EXCEPT ![q] = Began(o)]
    BY <1>4 DEF Start, MayReceive, OffsetHeld
  <2>2. req'[q] = Began(o) /\ \A v \in Requests : v # q => req'[v] = req[v]
    BY <1>1, <2>1 DEF ReqOK
  <2>3. \A v \in Requests : req[v] \notin Attempts
    BY <1>1, <2>1, UploadNatural DEF ReqOK, AttemptOK
  <2>4. Began(o).pc = "opening" /\ Began(o).append = (o # 0) /\ Began(o).out = o
    BY DEF Began
  <2>5. Progress(q)'
    BY <2>1, <2>2, <2>4 DEF Progress, Length
  <2>6. \A v \in Requests : req'[v] \in Attempts => Progress(v)'
    BY <2>2, <2>3, <2>5
  <2> QED
    BY <2>1, <2>6 DEF ExactInv, Prefix
<1>5. ASSUME NEW q \in Requests, NEW o \in 0..Chunks, Turned(q, o) PROVE ExactInv'
  <2>1. /\ UNCHANGED <<uploadDisk, staged, late, published>>
        /\ req[q] = UploadIdle /\ req' = [req EXCEPT ![q] = Gone]
    BY <1>5 DEF Turned
  <2>2. Gone \notin Attempts
    BY <1>1, AttemptOf
  <2>3. req'[q] = Gone /\ \A v \in Requests : v # q => req'[v] = req[v]
    BY <1>1, <2>1 DEF ReqOK
  <2>4. \A v \in Requests : req'[v] \in Attempts => Progress(v)'
    BY <2>1, <2>2, <2>3 DEF ExactInv, Progress, Prefix
  <2> QED
    BY <2>1, <2>4 DEF ExactInv, Prefix
<1>6. ASSUME NEW q \in Requests, NEW n \in Attempts, req' = [req EXCEPT ![q] = n],
             req[q].pc \notin {"idle", "gone"}
      PROVE  req'[q] = n /\ \A v \in Requests : v # q => req'[v] = req[v]
  BY <1>1, <1>6 DEF ReqOK
<1>7. ASSUME NEW q \in Requests, UploadOpen(q) PROVE ExactInv'
  <2>1. req[q].pc = "opening" /\ UNCHANGED <<placed, receiving, late, row, published>>
    BY <1>7 DEF UploadOpen
  <2>2. req[q] \in Attempts /\ Progress(q)
    BY <1>2, <2>1
  <2>3. ASSUME NEW i \in 1..Inodes, req' = [req EXCEPT ![q].pc = "receiving", ![q].inode = i],
               staged' = i, Prefix(uploadDisk'[i]), Len(uploadDisk'[i]) = req[q].out
        PROVE  ExactInv'
    <3> DEFINE n == [req[q] EXCEPT !.pc = "receiving", !.inode = i]
    <3>1. n \in Attempts /\ n.pc = "receiving" /\ n.inode = i /\ n.out = req[q].out
      BY <2>2, OpenedFields
    <3>2. req' = [req EXCEPT ![q] = n]
      BY <1>1, <2>3 DEF ReqOK
    <3> HIDE DEF n
    <3>3. req'[q] = n /\ \A v \in Requests : v # q => req'[v] = req[v]
      BY <1>6, <2>1, <3>1, <3>2
    <3>4. Progress(q)'
      BY <2>3, <3>1, <3>3 DEF Progress, Prefix
    <3> QED
      BY <1>1, <2>1, <2>2, <2>3, <3>3, <3>4, ExactOwn
  <2>4. CASE req[q].append
    <3>1. staged # UploadNone /\ UNCHANGED <<uploadDisk, staged>>
          /\ req' = [req EXCEPT ![q].pc = "receiving", ![q].inode = staged]
      BY <1>7, <2>4 DEF UploadOpen
    <3>2. staged \in 1..Inodes
      BY <1>1, <3>1, UploadNatural DEF FilesOK
    <3>3. Len(uploadDisk[staged]) = req[q].out /\ Prefix(uploadDisk[staged])
      BY <1>1, <2>1, <2>2, <2>4, <3>1 DEF Progress
    <3> QED
      BY <2>3, <3>1, <3>2, <3>3
  <2>5. CASE ~ req[q].append
    <3>1. /\ CreatedAs <= Inodes /\ uploadDisk' = Created /\ staged' = CreatedAs
          /\ req' = [req EXCEPT ![q].pc = "receiving", ![q].inode = CreatedAs]
      BY <1>7, <2>5 DEF UploadOpen
    <3>2. uploadDisk'[staged'] = <<>> /\ staged' \in 1..Inodes
      BY <1>1, <2>1, <3>1, CreatedType
    <3>3. Prefix(<<>>) /\ Len(<<>>) = 0
      BY UploadNatural DEF Prefix, Contents
    <3>4. req[q].out = 0
      BY <2>1, <2>2, <2>5 DEF Progress
    <3> QED
      BY <2>3, <3>1, <3>2, <3>3, <3>4
  <2> QED
    BY <2>4, <2>5
<1>8. ASSUME NEW q \in Requests, Accept(q) PROVE ExactInv'
  <2> DEFINE g == req[q].got + 1
             n == [req[q] EXCEPT !.got = g]
  <2>1. /\ req[q].pc = "receiving" /\ req[q].got < Chunks
        /\ UNCHANGED <<uploadDisk, staged, placed, receiving, late, row, published>>
    BY <1>8 DEF Accept
  <2>2. req[q] \in Attempts /\ Progress(q)
    BY <1>2, <2>1
  <2>3. g \in 0..Chunks
    BY <2>1, <2>2, AttemptFields, UploadNatural
  <2>4. req' = [req EXCEPT ![q] = n]
    BY <1>1, <1>8, <2>2 DEF Accept, ReqOK
  <2>5. n \in Attempts /\ n.pc = req[q].pc /\ n.inode = req[q].inode /\ n.out = req[q].out
    BY <2>2, <2>3, TookFields
  <2> HIDE DEF g, n
  <2>6. req'[q] = n /\ \A v \in Requests : v # q => req'[v] = req[v]
    BY <1>6, <2>1, <2>4, <2>5
  <2>7. Progress(q)'
    BY <2>1, <2>2, <2>5, <2>6 DEF Progress, Prefix
  <2> QED
    BY <1>1, <2>1, <2>2, <2>6, <2>7, ExactOwn
<1>9. ASSUME NEW q \in Requests, WriteOut(q) PROVE ExactInv'
  <2> DEFINE g == req[q].out + 1
             n == [req[q] EXCEPT !.out = g]
             i == req[q].inode
             c == Written(uploadDisk[i], req[q].append, req[q].out)
  <2>1. /\ req[q].pc = "receiving" /\ req[q].out < req[q].got
        /\ uploadDisk' = [uploadDisk EXCEPT ![i] = c]
        /\ UNCHANGED <<staged, placed, receiving, late, row, published>>
    BY <1>9 DEF WriteOut
  <2>2. req[q] \in Attempts /\ Progress(q) /\ i \in 1..Len(uploadDisk)
    BY <1>2, <2>1
  <2>3. /\ req[q].out \in 0..Chunks /\ req[q].out < Chunks /\ g \in 0..Chunks
        /\ req[q].append \in BOOLEAN
    BY <2>1, <2>2, AttemptFields, UploadNatural
  <2>4. req' = [req EXCEPT ![q] = n]
    BY <1>1, <1>9, <2>2 DEF WriteOut, ReqOK
  <2>5. n \in Attempts /\ n.pc = req[q].pc /\ n.inode = req[q].inode /\ n.out = g
    BY <2>2, <2>3, WroteFields
  <2>6. /\ uploadDisk[i] \in Contents /\ Len(uploadDisk[i]) = req[q].out
        /\ (\A j \in 1..Len(uploadDisk[i]) : uploadDisk[i][j] = j)
        /\ staged \in {UploadNone, i}
    BY <2>1, <2>2 DEF Progress, Prefix
  <2>7. /\ c \in Contents /\ Len(c) = req[q].out + 1
        /\ \A j \in 1..(req[q].out + 1) : c[j] = j
    <3> DEFINE p == req[q].out
               x == uploadDisk[i]
               y == req[q].append
    <3>2. p \in 0..Chunks /\ x \in Contents /\ y \in BOOLEAN /\ p < Chunks /\ p = Len(x)
          /\ \A j \in 1..Len(x) : x[j] = j
      BY <2>3, <2>6
    <3> HIDE DEF p, x, y
    <3>3. /\ Written(x, y, p) \in Contents /\ Len(Written(x, y, p)) = p + 1
          /\ \A j \in 1..(p + 1) : Written(x, y, p)[j] = j
      BY <3>2, WrittenExact, Zenon
    <3> QED
      BY <3>3, Zenon DEF p, x, y
  <2> HIDE DEF n, c, i
  <2>8. Prefix(c) /\ Len(c) = g
    BY <2>3, <2>7 DEF Prefix
  <2>9. uploadDisk'[i] = c
    BY <1>1, <2>1, <2>2, <2>7, WroteType
  <2> HIDE DEF g
  <2>10. req'[q] = n /\ \A v \in Requests : v # q => req'[v] = req[v]
    BY <1>6, <2>1, <2>4, <2>5
  <2>11. n.pc = "receiving" /\ n.inode = i
    BY <2>1, <2>5 DEF i
  <2>12. Progress(q)'
    BY <2>1, <2>5, <2>6, <2>8, <2>9, <2>10, <2>11 DEF Progress, Prefix
  <2>13. staged' # UploadNone => Prefix(uploadDisk'[staged'])
    BY <2>1, <2>6, <2>8, <2>9
  <2> QED
    BY <1>1, <2>1, <2>2, <2>10, <2>12, <2>13, ExactOwn
<1>10. ASSUME NEW q \in Requests, BodyEnds(q) PROVE ExactInv'
  <2> DEFINE n == [req[q] EXCEPT !.pc = "digesting"]
  <2>1. /\ req[q].pc = "receiving" /\ req[q].out = Chunks
        /\ UNCHANGED <<uploadDisk, staged, placed, receiving, late, row, published>>
    BY <1>10 DEF BodyEnds
  <2>2. req[q] \in Attempts /\ Progress(q)
    BY <1>2, <2>1
  <2>3. req' = [req EXCEPT ![q] = n]
    BY <1>1, <1>10 DEF BodyEnds, ReqOK
  <2>4. n \in Attempts /\ n.pc = "digesting" /\ n.inode = req[q].inode /\ n.out = req[q].out
    BY <2>2 DEF Attempts
  <2> HIDE DEF n
  <2>5. req'[q] = n /\ \A v \in Requests : v # q => req'[v] = req[v]
    BY <1>6, <2>1, <2>3, <2>4
  <2>6. Progress(q)'
    BY <2>1, <2>2, <2>4, <2>5 DEF Progress, Prefix
  <2> QED
    BY <1>1, <2>1, <2>2, <2>5, <2>6, ExactOwn
<1>11. ASSUME NEW q \in Requests, Digest(q) PROVE ExactInv'
  <2> DEFINE n == [req[q] EXCEPT !.pc = "digested", !.digest = uploadDisk[staged]]
  <2>1. /\ req[q].pc = "digesting" /\ staged # UploadNone
        /\ UNCHANGED <<uploadDisk, staged, placed, receiving, late, row, published>>
    BY <1>11 DEF Digest
  <2>2. req[q] \in Attempts /\ Progress(q) /\ uploadDisk[staged] \in Contents
    BY <1>1, <1>2, <2>1, FileType DEF FilesOK
  <2>3. req' = [req EXCEPT ![q] = n]
    BY <1>1, <1>11 DEF Digest, ReqOK
  <2>4. n \in Attempts /\ n.pc = "digested" /\ n.digest = uploadDisk[staged]
    BY <2>2, DigestedFields
  <2> HIDE DEF n
  <2>5. req'[q] = n /\ \A v \in Requests : v # q => req'[v] = req[v]
    BY <1>6, <2>1, <2>3, <2>4
  <2>6. uploadDisk[staged] = File
    BY <2>1, <2>2, WholePrefix DEF Progress
  <2>7. Progress(q)'
    BY <2>4, <2>5, <2>6 DEF Progress
  <2> QED
    BY <1>1, <2>1, <2>2, <2>5, <2>7, ExactOwn
<1>12. ASSUME NEW q \in Requests, Claim(q) PROVE ExactInv'
  <2> DEFINE n == [req[q] EXCEPT !.pc = "claimed"]
  <2>1. req[q].pc = "digested" /\ UNCHANGED <<uploadDisk, staged, placed, receiving, late, published>>
    BY <1>12 DEF Claim
  <2>2. req[q] \in Attempts /\ Progress(q)
    BY <1>2, <2>1
  <2>3. req' = [req EXCEPT ![q] = n]
    BY <1>1, <1>12 DEF Claim, ReqOK
  <2>4. n \in Attempts /\ n.pc = "claimed" /\ n.digest = req[q].digest
    BY <2>2, StageFields
  <2> HIDE DEF n
  <2>5. req'[q] = n /\ \A v \in Requests : v # q => req'[v] = req[v]
    BY <1>6, <2>1, <2>3, <2>4
  <2>6. Progress(q)'
    BY <2>1, <2>2, <2>4, <2>5 DEF Progress
  <2> QED
    BY <1>1, <2>1, <2>2, <2>5, <2>6, ExactOwn
<1>13. ASSUME NEW q \in Requests, Ingest(q) PROVE ExactInv'
  <2> DEFINE n == [req[q] EXCEPT !.pc = "placed", !.cut = uploadDisk[staged]]
  <2>1. /\ req[q].pc = "claimed" /\ staged # UploadNone /\ staged' = UploadNone
        /\ UNCHANGED <<uploadDisk, receiving, late, row, published>>
    BY <1>13 DEF Ingest
  <2>2. req[q] \in Attempts /\ Progress(q) /\ uploadDisk[staged] \in Contents
    BY <1>1, <1>2, <2>1, FileType DEF FilesOK
  <2>3. req' = [req EXCEPT ![q] = n]
    BY <1>1, <1>13 DEF Ingest, ReqOK
  <2>4. n \in Attempts /\ n.pc = "placed" /\ n.digest = req[q].digest
    BY <2>2, CutFields
  <2> HIDE DEF n
  <2>5. req'[q] = n /\ \A v \in Requests : v # q => req'[v] = req[v]
    BY <1>6, <2>1, <2>3, <2>4
  <2>6. Progress(q)'
    BY <2>1, <2>2, <2>4, <2>5 DEF Progress
  <2> QED
    BY <1>1, <2>1, <2>2, <2>5, <2>6, ExactOwn
<1>14. ASSUME NEW q \in Requests, DropRequest(q) PROVE ExactInv'
  <2>1. InFlight(q) = {}
    BY DEF InFlight, Attached
  <2> QED
    BY <1>1, <1>3, <1>14, <2>1 DEF DropRequest
<1>15. ASSUME NEW q \in Requests,
              \/ OpenFails(q) \/ Interrupted(q) \/ DigestFails(q) \/ Refused(q) \/ IngestFails(q)
              \/ PublishFails(q)
       PROVE  ExactInv'
  <2>1. /\ req[q].pc \notin {"idle", "gone"} /\ End(q) /\ UNCHANGED <<uploadDisk, late, published>>
        /\ staged' = staged \/ staged' = UploadNone
    BY <1>15 DEF OpenFails, Interrupted, DigestFails, Refused, IngestFails, PublishFails
  <2> QED
    BY <1>1, <1>3, <2>1
<1>16. ASSUME NEW q \in Requests, UploadPublish(q) PROVE ExactInv'
  <2>1. /\ req[q].pc = "placed" /\ End(q) /\ UNCHANGED <<uploadDisk, staged, late>>
        /\ published' = req[q].cut /\ req[q].cut = req[q].digest
    BY <1>16 DEF UploadPublish, Witnessed
  <2>2. req[q].digest = File
    BY <1>2, <2>1 DEF Progress
  <2> QED
    BY <1>1, <1>3, <2>1, <2>2
<1>17. ASSUME NEW w \in late, LateWrite(w) \/ LateCreate(w) PROVE FALSE
  BY <1>1, <1>17
<1>18. CASE Sweep
  <2>1. staged' = UploadNone /\ UNCHANGED <<uploadDisk, req, late, published>>
    BY <1>18 DEF Sweep
  <2>2. \A v \in Requests : req'[v] \in Attempts => Progress(v)'
    BY <2>1 DEF ExactInv, Progress, Prefix
  <2> QED
    BY <2>1, <2>2 DEF ExactInv
<1>19. CASE UploadCrash
  <2>1. /\ receiving # UploadNone /\ req' = [req EXCEPT ![receiving] = Gone] /\ late' = {}
        /\ UNCHANGED <<uploadDisk, staged, published>>
    BY <1>19 DEF UploadCrash
  <2>2. receiving \in Requests /\ Gone \notin Attempts
    BY <1>1, <2>1, AttemptOf DEF ReqOK
  <2>3. \A v \in Requests : v # receiving => req[v] \notin Attempts
    BY <1>1 DEF ReqOK, AttemptOK
  <2>4. \A v \in Requests : req'[v] \notin Attempts
    BY <1>1, <2>1, <2>2, <2>3 DEF ReqOK
  <2> QED
    BY <2>1, <2>4 DEF ExactInv, Prefix
<1>20. CASE UNCHANGED uploadVars
  BY <1>20 DEF uploadVars, ExactInv, Progress, Prefix
<1> QED
  BY <1>4, <1>5, <1>7, <1>8, <1>9, <1>10, <1>11, <1>12, <1>13, <1>14, <1>15, <1>16, <1>17, <1>18,
     <1>19, <1>20
     DEF UploadNext

(* What is published under a key is the client's file, whole and in order, *)
(* however often the transfer was interrupted, dropped, swept, resumed or  *)
(* crashed, for every file length and number of attempts.                  *)
THEOREM PublishedWhole ==
  ASSUME Attached
  PROVE  UploadSpec => []PublishedExact
<1>1. UploadInit => UploadInv /\ ExactInv
  <2>1. UploadIdle \notin Attempts
    BY DEF UploadIdle, Attempts
  <2> QED
    BY <2>1, UploadStart DEF UploadInit, ExactInv
<1>2. UploadInv /\ ExactInv /\ [UploadNext]_uploadVars => UploadInv' /\ ExactInv'
  BY UploadStep, ExactStep
<1>3. ExactInv => PublishedExact
  BY DEF ExactInv, PublishedExact
<1> QED
  BY <1>1, <1>2, <1>3, PTL DEF UploadSpec
=============================================================================
