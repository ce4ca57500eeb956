-------------------------- MODULE FederationProofs --------------------------
(***************************************************************************)
(* Proofs about what two paired Homes do with each other: ProjectHandoff,  *)
(* its refinement of AtomicMove, FederatedDelivery and CoDrive.            *)
(***************************************************************************)
EXTENDS ProjectHandoff, FederatedDelivery, CoDrive, FiniteSetTheorems, TLAPS

(* ---- the relocation: what the origin is told ---- *)

\* Every way the origin may hear of a commit tells the truth, and what the
\* target holds it keeps.
ToldTrue ==
  /\ relocate = "committed" => held
  /\ sweep = "holds" => held
  /\ "committed" \in pushes => held

ReleaseInv == TypeOK /\ ReleasedHeld /\ ToldTrue

(* ---- the relocation: one loop, whole handlers, one call ---- *)

\* The offer is not on its way to the target.
NoOffer == \A l \in Legs : leg[l].kind # "offer"

\* The origin's own state: an offer in flight is marked, and an offer that was
\* made and not settled is on record.
OriginInv ==
  /\ sending <=> relocate # "idle"
  /\ origin.phase # "LogSynced"
  /\ origin.phase = "Offered" => origin.out = "open"
  /\ origin.phase = "Draft" => relocate = "idle" /\ origin.out = "none"
  /\ relocate = "captured" => origin.phase = "Offered"

\* Nothing reached the target, or was asked of it, before the offer was made.
DraftInv ==
  origin.phase = "Draft" => sweep = "idle" /\ cancel = "idle" /\ \A l \in Legs : leg[l] = Parked

\* The one frame in the one leg: an offer is answered to the waiting call and
\* is the first the target hears of it; a question comes after the call.
LegInv ==
  \A l \in Legs :
    /\ leg[l].kind = "offer" => origin.phase = "Offered" /\ inc = "none" /\ relocate # "captured"
    /\ leg[l].kind = "offer" /\ leg[l].live => relocate = "waiting"
    /\ relocate = "waiting" => leg[l].kind = "offer" /\ leg[l].live
    /\ leg[l].kind = "status" => relocate = "idle"

\* What the target decided, and what the origin may think of it.
TargetInv ==
  /\ held <=> inc = "committed"
  /\ inc # "none" => NoOffer /\ relocate # "captured" /\ origin.phase # "Draft"
  /\ origin.phase = "Aborted" =>
       NoOffer /\ relocate # "captured" /\ inc \notin {"pending", "committed"}
  /\ origin.phase = "Committed" => held

\* A negative answer is final when it is given.
NegativeInv ==
  /\ relocate \in {"refused", "broke"} => inc \in {"none", "failed"} /\ NoOffer
  /\ sweep # "idle" => relocate = "idle"
  /\ sweep \in {"none", "declined", "cancelled", "failed"} => inc = sweep /\ NoOffer
  /\ cancel = "yes" => inc = "cancelled"
  /\ "declined" \in pushes => inc = "declined"

OfferInv == OriginInv /\ DraftInv /\ LegInv /\ TargetInv /\ NegativeInv

HomeInv == ReleaseInv /\ OfferInv

\* The setting the paired Homes are meant to run in: one receiver loop per
\* pairing, handlers that are not cut between two appends, one relocate call.
OneLoop == ~Torn /\ ~Again /\ \A k, l \in Legs : k = l

(* ---- the origin's appends ---- *)

OriginType == [phase : Phases, out : {"none", "open", "resolved"}]

\* One append at a time.
LEMMA Appends ==
  \A o \in OriginType :
    /\ Resolved(o) \in OriginType /\ Resolved(o).out = "resolved" /\ Resolved(o).phase = o.phase
    /\ SyncLog(o) \in OriginType /\ SyncLog(o).out = o.out
    /\ SyncLog(o).phase = IF o.phase = "Offered" THEN "LogSynced" ELSE o.phase
    /\ CommitHandoff(o) \in OriginType /\ CommitHandoff(o).out = o.out
    /\ CommitHandoff(o).phase = IF o.phase = "LogSynced" THEN "Committed" ELSE o.phase
    /\ AbortHandoff(o) \in OriginType /\ AbortHandoff(o).out = o.out
    /\ AbortHandoff(o).phase = IF o.phase \in {"Offered", "LogSynced"} THEN "Aborted" ELSE o.phase
BY DEF OriginType, Phases, Resolved, SyncLog, CommitHandoff, AbortHandoff

\* The same origin: the same phase and the same record.
LEMMA SameOrigin ==
  ASSUME NEW o \in OriginType, NEW p \in OriginType, o.phase = p.phase, o.out = p.out
  PROVE  o = p
BY DEF OriginType

\* Every append of a handler that releases leaves a well-formed origin, and at
\* its end an offer in flight is committed and off the record.
LEMMA ReleasePaths ==
  ASSUME NEW o \in OriginType
  PROVE  /\ Len(RelocateReleases(o)) = 3 /\ Len(Releases(o)) = 3
         /\ \A n \in {1, 2, 3} :
              RelocateReleases(o)[n] \in OriginType /\ Releases(o)[n] \in OriginType
         /\ RelocateReleases(o)[3].out = "resolved"
         /\ RelocateReleases(o)[3].phase =
              IF o.phase \in {"Offered", "LogSynced"} THEN "Committed" ELSE o.phase
         /\ o.phase \in {"Offered", "LogSynced"} =>
              Releases(o)[3].phase = "Committed" /\ Releases(o)[3].out = "resolved"
         /\ o.phase \notin {"Offered", "LogSynced"} => Releases(o)[3] = o
<1> DEFINE r == Resolved(o)
<1>1. /\ r \in OriginType /\ SyncLog(r) \in OriginType
      /\ CommitHandoff(SyncLog(r)) \in OriginType
  BY Appends
<1>2. /\ CommitHandoff(SyncLog(r)).out = "resolved"
      /\ CommitHandoff(SyncLog(r)).phase =
           IF o.phase \in {"Offered", "LogSynced"} THEN "Committed" ELSE o.phase
  BY Appends, <1>1
<1> DEFINE s == SyncLog(o)
           c == CommitHandoff(s)
<1>3. s \in OriginType /\ c \in OriginType /\ Resolved(c) \in OriginType
  BY Appends
<1>4. o.phase \in {"Offered", "LogSynced"} =>
        /\ s # c /\ Resolved(c).phase = "Committed" /\ Resolved(c).out = "resolved"
  BY Appends, <1>3
<1>5. o.phase \notin {"Offered", "LogSynced"} => s = o /\ c = o
  BY Appends, <1>3, SameOrigin
<1>6. RelocateReleases(o) = <<r, SyncLog(r), CommitHandoff(SyncLog(r))>>
  BY DEF RelocateReleases
<1>7. Releases(o) = <<s, c, IF s = c THEN c ELSE Resolved(c)>>
  BY DEF Releases, IfChanged
<1> HIDE DEF r, s, c
<1> QED
  BY <1>1, <1>2, <1>3, <1>4, <1>5, <1>6, <1>7

\* A handler that gives up never commits, and at its end an offer in flight is
\* aborted and off the record.
LEMMA AbortPaths ==
  ASSUME NEW o \in OriginType,
         NEW path \in {RelocateAborts(o), Aborts(o), CancelsOffer(o)}
  PROVE  /\ Len(path) = 2
         /\ \A n \in {1, 2} : /\ path[n] \in OriginType
                              /\ path[n].phase = "Committed" => o.phase = "Committed"
         /\ o.phase \in {"Offered", "LogSynced"} =>
              path[2].phase = "Aborted" /\ path[2].out = "resolved"
         /\ o.phase \notin {"Offered", "LogSynced"} =>
              path[2].phase = o.phase /\ path[2].out \in {o.out, "resolved"}
<1> DEFINE a == AbortHandoff(o)
           b == AbortHandoff(Resolved(o))
<1>1. /\ a \in OriginType /\ b \in OriginType /\ Resolved(o) \in OriginType
      /\ Resolved(a) \in OriginType
  BY Appends
<1>2. /\ o.phase \in {"Offered", "LogSynced"} =>
           /\ a.phase = "Aborted" /\ b.phase = "Aborted" /\ Resolved(a).phase = "Aborted"
           /\ o # a
      /\ o.phase \notin {"Offered", "LogSynced"} =>
           a.phase = o.phase /\ b.phase = o.phase /\ Resolved(a).phase = o.phase
      /\ b.out = "resolved" /\ Resolved(a).out = "resolved" /\ a.out = o.out
      /\ Resolved(o).phase = o.phase
  BY Appends, <1>1
<1>3. CASE path = RelocateAborts(o)
  <2>1. path = <<Resolved(o), b>>
    BY <1>3 DEF RelocateAborts
  <2> HIDE DEF a, b
  <2> QED
    BY <1>1, <1>2, <2>1
<1>4. CASE path = Aborts(o)
  <2>1. path = <<a, IF o = a THEN a ELSE Resolved(a)>>
    BY <1>4 DEF Aborts, IfChanged
  <2> HIDE DEF a, b
  <2> QED
    BY <1>1, <1>2, <2>1
<1>5. CASE path = CancelsOffer(o)
  <2>1. path = <<a, Resolved(a)>>
    BY <1>5 DEF CancelsOffer
  <2> HIDE DEF a, b
  <2> QED
    BY <1>1, <1>2, <2>1
<1> QED
  BY <1>3, <1>4, <1>5

\* A handler that runs through, or is torn after some of its appends, leaves
\* the origin as one of them left it.
LEMMA PathStep ==
  ASSUME NEW path, Len(path) \in {2, 3}, Completes(path) \/ Tears(path)
  PROVE  \/ origin' = path[1] \/ origin' = path[2]
         \/ Len(path) = 3 /\ origin' = path[3]
<1>1. CASE Completes(path)
  BY <1>1 DEF Completes
<1>2. CASE Tears(path)
  <2>1. PICK n \in 1..(Len(path) - 1) : origin' = path[n]
    BY <1>2 DEF Tears
  <2>2. Len(path) = 2 => n \in 1..1
    BY <2>1
  <2>3. Len(path) = 3 => n \in 1..2
    BY <2>1
  <2>4. n = 1 \/ n = 2
    BY <2>2, <2>3
  <2> QED
    BY <2>1, <2>4
<1> QED
  BY <1>1, <1>2

(* ---- a project that was released is held ---- *)

LEMMA ReleaseInit == Init => ReleaseInv
<1> SUFFICES ASSUME Init PROVE ReleaseInv
  OBVIOUS
<1>1. leg \in [Legs -> [kind : Kinds \union {"parked"}, live : BOOLEAN]]
  BY DEF Init, Parked
<1>2. origin \in [phase : Phases, out : {"none", "open", "resolved"}]
  BY DEF Init, Phases
<1>3. faults \in 0..MaxFaults
  BY HandoffAssumption DEF Init
<1>4. TypeOK
  BY <1>1, <1>2, <1>3 DEF Init, TypeOK, Outcomes
<1> QED
  BY <1>4 DEF Init, ReleaseInv, ReleasedHeld, ToldTrue

\* A step of the origin that only ends its own questions keeps the types.
LEMMA OriginKeepsTypes ==
  ASSUME TypeOK, origin' \in OriginType,
         leg' \in [Legs -> [kind : Kinds \union {"parked"}, live : BOOLEAN]],
         faults' \in 0..MaxFaults, inc' = inc, held' = held, preauth' = preauth,
         pushes' \subseteq pushes, relocate' \in {relocate, "idle"},
         sending' \in {sending, FALSE}, sweep' \in {sweep, "idle"}, cancel' \in {cancel, "idle"}
  PROVE  TypeOK'
<1>1. relocate' \in {"idle", "captured", "waiting", "committed", "pending", "refused",
                     "broke", "lost"}
  BY DEF TypeOK
<1>2. sending' \in BOOLEAN /\ cancel' \in {"idle", "waiting", "yes", "no", "lost"}
  BY DEF TypeOK
<1>3. sweep' \in {"idle", "waiting", "lost", "holds"} \union Outcomes
  BY DEF TypeOK
<1>4. /\ inc' \in Outcomes /\ held' \in BOOLEAN /\ preauth' \in BOOLEAN
      /\ pushes' \subseteq {"committed", "declined"}
  BY DEF TypeOK
<1> QED
  BY <1>1, <1>2, <1>3, <1>4 DEF TypeOK, OriginType

\* A handler's end or its crash keeps the types of what it touches besides the
\* origin.
LEMMA HandlerTypes ==
  ASSUME TypeOK, NEW path,
         (Completes(path) /\ UNCHANGED <<leg, faults>>) \/ Tears(path)
  PROVE  /\ leg' \in [Legs -> [kind : Kinds \union {"parked"}, live : BOOLEAN]]
         /\ faults' \in 0..MaxFaults
<1>1. CASE Completes(path) /\ UNCHANGED <<leg, faults>>
  BY <1>1 DEF TypeOK
<1>2. CASE Tears(path)
  <2>1. leg' = [l \in Legs |-> [leg[l] EXCEPT !.live = FALSE]]
    BY <1>2 DEF Tears, OriginForgets
  <2>2. leg' \in [Legs -> [kind : Kinds \union {"parked"}, live : BOOLEAN]]
    BY <2>1 DEF TypeOK
  <2>3. faults' \in 0..MaxFaults
    BY <1>2, HandoffAssumption DEF TypeOK, Tears
  <2> QED
    BY <2>2, <2>3
<1> QED
  BY <1>1, <1>2

\* The handlers that hear of the target's commit.
LEMMA ReleasersStep ==
  ASSUME ReleaseInv, RelocateCommitted \/ ReceiveCommitted \/ SweepReleases
  PROVE  ReleaseInv'
<1>1. origin \in OriginType
  BY DEF ReleaseInv, TypeOK, OriginType
<1>2. held /\ held' = held /\ inc' = inc /\ preauth' = preauth /\ pushes' \subseteq pushes
  BY DEF ReleaseInv, ToldTrue, RelocateCommitted, ReceiveCommitted, SweepReleases,
         ResolveFromStatus, TypeOK, SweepHeard
<1>3. PICK p \in {RelocateReleases(origin), Releases(origin)} :
        (Completes(p) /\ UNCHANGED <<leg, faults>>) \/ Tears(p)
  BY DEF RelocateCommitted, ReceiveCommitted, SweepReleases
<1>4. origin' \in OriginType
  BY <1>1, <1>3, ReleasePaths, PathStep
<1>5. /\ relocate' \in {relocate, "idle"} /\ sending' \in {sending, FALSE}
      /\ sweep' \in {sweep, "idle"} /\ cancel' \in {cancel, "idle"}
  BY DEF RelocateCommitted, ReceiveCommitted, SweepReleases, RelocateEnds, Tears, OriginForgets
<1>6. TypeOK'
  <2>1. /\ leg' \in [Legs -> [kind : Kinds \union {"parked"}, live : BOOLEAN]]
        /\ faults' \in 0..MaxFaults
    BY <1>3, HandlerTypes DEF ReleaseInv
  <2>2. TypeOK
    BY DEF ReleaseInv
  <2> QED
    BY <1>2, <1>4, <1>5, <2>1, <2>2, OriginKeepsTypes, Zenon
<1> QED
  BY <1>2, <1>6 DEF ReleaseInv, ReleasedHeld, ToldTrue

\* The handlers that give the relocation up.
LEMMA AbortersStep ==
  ASSUME ReleaseInv,
         RelocateRefused \/ ReceiveDeclined \/ SweepCancels \/ CancelConfirmed
  PROVE  ReleaseInv'
<1>1. origin \in OriginType
  BY DEF ReleaseInv, TypeOK, OriginType
<1>2. held' = held /\ inc' = inc /\ preauth' = preauth /\ pushes' \subseteq pushes
  BY DEF RelocateRefused, ReceiveDeclined, SweepCancels, CancelConfirmed
<1>3. PICK p \in {RelocateAborts(origin), Aborts(origin), CancelsOffer(origin)} :
        (Completes(p) /\ UNCHANGED <<leg, faults>>) \/ Tears(p)
  BY DEF RelocateRefused, ReceiveDeclined, SweepCancels, CancelConfirmed
<1>4. /\ origin' \in OriginType
      /\ origin'.phase = "Committed" => origin.phase = "Committed"
  BY <1>1, <1>3, AbortPaths, PathStep
<1>5. /\ relocate' \in {relocate, "idle"} /\ sending' \in {sending, FALSE}
      /\ sweep' \in {sweep, "idle"} /\ cancel' \in {cancel, "idle"}
  BY DEF RelocateRefused, ReceiveDeclined, SweepCancels, CancelConfirmed, RelocateEnds,
         Tears, OriginForgets
<1>6. TypeOK'
  <2>1. /\ leg' \in [Legs -> [kind : Kinds \union {"parked"}, live : BOOLEAN]]
        /\ faults' \in 0..MaxFaults
    BY <1>3, HandlerTypes DEF ReleaseInv
  <2>2. TypeOK
    BY DEF ReleaseInv
  <2> QED
    BY <1>2, <1>4, <1>5, <2>1, <2>2, OriginKeepsTypes, Zenon
<1> QED
  BY <1>2, <1>4, <1>5, <1>6 DEF ReleaseInv, ReleasedHeld, ToldTrue

\* A frame that takes a parked leg.
LEMMA SendTypes ==
  ASSUME TypeOK, NEW kind \in Kinds, Send(kind)
  PROVE  leg' \in [Legs -> [kind : Kinds \union {"parked"}, live : BOOLEAN]]
BY DEF Send, TypeOK

\* The origin's other steps.
LEMMA OriginStep ==
  ASSUME ReleaseInv,
         \/ CaptureOffer \/ RelocateAgain \/ SendOffer \/ RelocateWaits \/ AskStatus
         \/ SweepLeaves \/ AbortLocally \/ AskCancel \/ CancelRefused
  PROVE  ReleaseInv'
<1> USE DEF ReleaseInv, ReleasedHeld, ToldTrue, TypeOK, targetVars
<1>1. CASE CaptureOffer
  BY <1>1 DEF CaptureOffer, Phases
<1>2. CASE RelocateAgain
  BY <1>2 DEF RelocateAgain
<1>3. CASE SendOffer
  BY <1>3, SendTypes DEF SendOffer, Kinds
<1>4. CASE RelocateWaits
  BY <1>4 DEF RelocateWaits, RelocateEnds
<1>5. CASE AskStatus
  BY <1>5, SendTypes DEF AskStatus, Kinds
<1>6. CASE SweepLeaves
  BY <1>6 DEF SweepLeaves
<1>7. CASE AbortLocally
  <2>1. /\ origin' \in OriginType
        /\ origin'.phase = "Committed" => origin.phase = "Committed"
    BY <1>7, Appends DEF AbortLocally, OriginType
  <2> QED
    BY <1>7, <2>1 DEF AbortLocally, OriginType
<1>8. CASE AskCancel
  BY <1>8, SendTypes DEF AskCancel, Kinds
<1>9. CASE CancelRefused
  BY <1>9 DEF CancelRefused
<1> QED
  BY <1>1, <1>2, <1>3, <1>4, <1>5, <1>6, <1>7, <1>8, <1>9

\* The target's steps: what it tells of a commit is true when it tells it.
LEMMA TargetStep ==
  ASSUME ReleaseInv,
         \/ Accept \/ Decline \/ SetPreauth
         \/ \E l \in Legs : Receive(l)
  PROVE  ReleaseInv'
<1> USE DEF ReleaseInv, ReleasedHeld, ToldTrue, TypeOK, originVars, Outcomes
<1>1. CASE Accept
  BY <1>1 DEF Accept
<1>2. CASE Decline
  BY <1>2 DEF Decline
<1>3. CASE SetPreauth
  BY <1>3 DEF SetPreauth
<1>4. ASSUME NEW l \in Legs, Receive(l) PROVE ReleaseInv'
  <2>1. leg' = [leg EXCEPT ![l] = Parked]
    BY <1>4 DEF Receive, RefuseOffer, AdmitOffer, FailOffer, RetainOffer, AnswerStatus,
                AnswerCancelled, Frees
  <2>2. leg' \in [Legs -> [kind : Kinds \union {"parked"}, live : BOOLEAN]]
    BY <2>1 DEF Parked
  <2>3. CASE RefuseOffer(l)
    BY <2>2, <2>3 DEF RefuseOffer, Answers
  <2>4. CASE AdmitOffer(l)
    BY <2>2, <2>4 DEF AdmitOffer, Answers
  <2>5. CASE FailOffer(l)
    BY <2>2, <2>5 DEF FailOffer, Answers
  <2>6. CASE RetainOffer(l)
    BY <2>2, <2>6 DEF RetainOffer, Answers
  <2>7. CASE AnswerStatus(l)
    BY <2>2, <2>7 DEF AnswerStatus, StatusVerdict
  <2>8. CASE AnswerCancelled(l)
    BY <2>2, <2>8 DEF AnswerCancelled, Answers
  <2> QED
    BY <1>4, <2>3, <2>4, <2>5, <2>6, <2>7, <2>8 DEF Receive
<1> QED
  BY <1>1, <1>2, <1>3, <1>4

\* Lost frames, answers and pushes, and crashes of either Home.
LEMMA FaultStep ==
  ASSUME ReleaseInv,
         \/ SendFails \/ LosePush \/ OriginCrashes \/ TargetCrashes
         \/ \E l \in Legs : LoseFrame(l) \/ LoseAnswer(l)
  PROVE  ReleaseInv'
<1>0. Fault
  BY DEF SendFails, LosePush, OriginCrashes, TargetCrashes, LoseFrame, LoseAnswer
<1>1. faults' \in 0..MaxFaults
  BY <1>0, HandoffAssumption DEF Fault, ReleaseInv, TypeOK
<1> USE <1>1 DEF ReleaseInv, ReleasedHeld, ToldTrue, TypeOK
<1>2. CASE SendFails
  BY <1>2 DEF SendFails, targetVars
<1>3. CASE LosePush
  BY <1>3 DEF LosePush, originVars
<1>4. CASE OriginCrashes
  <2>1. leg' = [l \in Legs |-> [leg[l] EXCEPT !.live = FALSE]]
    BY <1>4 DEF OriginCrashes, OriginForgets
  <2>2. leg' \in [Legs -> [kind : Kinds \union {"parked"}, live : BOOLEAN]]
    BY <2>1
  <2>3. /\ relocate' = "idle" /\ sending' = FALSE /\ sweep' = "idle" /\ cancel' = "idle"
        /\ UNCHANGED <<origin, inc, held, preauth, pushes>>
    BY <1>4 DEF OriginCrashes, OriginForgets
  <2>4. TypeOK /\ origin' \in OriginType
    BY <2>3 DEF OriginType
  <2>5. TypeOK'
    <3>1. /\ inc' = inc /\ held' = held /\ preauth' = preauth /\ pushes' \subseteq pushes
          /\ relocate' \in {relocate, "idle"} /\ sending' \in {sending, FALSE}
          /\ sweep' \in {sweep, "idle"} /\ cancel' \in {cancel, "idle"}
      BY <2>3
    <3> QED
      BY <1>1, <2>2, <2>4, <3>1, OriginKeepsTypes, Zenon
  <2> QED
    BY <2>3, <2>5
<1>5. CASE TargetCrashes
  BY <1>5 DEF TargetCrashes, CallsLost, Parked
<1>6. ASSUME NEW l \in Legs, LoseFrame(l) PROVE ReleaseInv'
  BY <1>6 DEF LoseFrame, CallsLost, Frees, Parked
<1>7. ASSUME NEW l \in Legs, LoseAnswer(l) PROVE ReleaseInv'
  <2>1. leg' \in [Legs -> [kind : Kinds \union {"parked"}, live : BOOLEAN]]
    BY <1>7 DEF LoseAnswer
  <2> QED
    BY <1>7, <2>1 DEF LoseAnswer, CallsLost
<1> QED
  BY <1>2, <1>3, <1>4, <1>5, <1>6, <1>7

LEMMA ReleaseStep == ReleaseInv /\ [Next]_vars => ReleaseInv'
<1> SUFFICES ASSUME ReleaseInv, [Next]_vars PROVE ReleaseInv'
  OBVIOUS
<1>1. CASE UNCHANGED vars
  BY <1>1 DEF vars, ReleaseInv, TypeOK, ReleasedHeld, ToldTrue
<1>2. CASE RelocateCommitted \/ ReceiveCommitted \/ SweepReleases
  BY <1>2, ReleasersStep
<1>3. CASE RelocateRefused \/ ReceiveDeclined \/ SweepCancels \/ CancelConfirmed
  BY <1>3, AbortersStep
<1>4. CASE \/ CaptureOffer \/ RelocateAgain \/ SendOffer \/ RelocateWaits \/ AskStatus
           \/ SweepLeaves \/ AbortLocally \/ AskCancel \/ CancelRefused
  BY <1>4, OriginStep
<1>5. CASE Accept \/ Decline \/ SetPreauth \/ \E l \in Legs : Receive(l)
  BY <1>5, TargetStep
<1>6. CASE \/ SendFails \/ LosePush \/ OriginCrashes \/ TargetCrashes
           \/ \E l \in Legs : LoseFrame(l) \/ LoseAnswer(l)
  BY <1>6, FaultStep
<1> QED
  BY <1>1, <1>2, <1>3, <1>4, <1>5, <1>6 DEF Next, RelocateAnswered, SweepAnswered

(***************************************************************************)
(* EXACTLY_ONE_HOME's "never zero": whatever is lost, however often        *)
(* relocate is called, on any number of receiver loops and wherever either *)
(* Home crashes, also between two appends of a handler, the origin has     *)
(* given the project up only when the target holds it (drive_relocate,     *)
(* resolve_handoffs_in_doubt, the Committed push).                         *)
(***************************************************************************)
THEOREM NeverWithoutHome == Spec => []ReleasedHeld
<1>1. ReleaseInv => ReleasedHeld
  BY DEF ReleaseInv
<1> QED
  BY <1>1, ReleaseInit, ReleaseStep, PTL DEF Spec

(* ---- one Home ---- *)

LEMMA HomeInit == Init => HomeInv
<1> SUFFICES ASSUME Init PROVE HomeInv
  OBVIOUS
<1>1. NoOffer
  BY DEF NoOffer, Init, Parked
<1> QED
  BY <1>1, ReleaseInit
     DEF Init, HomeInv, OfferInv, OriginInv, DraftInv, LegInv, TargetInv, NegativeInv, Parked

\* The relocate call up to its answer.
LEMMA OfferedStep ==
  ASSUME OneLoop, HomeInv, CaptureOffer \/ SendOffer \/ RelocateCommitted \/ RelocateRefused \/ RelocateWaits
  PROVE  OfferInv'
<1> USE DEF OneLoop, HomeInv, ReleaseInv, TypeOK, ReleasedHeld, ToldTrue, OfferInv, OriginInv, DraftInv,
           LegInv, TargetInv, NegativeInv, NoOffer, Parked, OriginType
<1>1. CASE CaptureOffer
  BY <1>1 DEF CaptureOffer, targetVars
<1>2. CASE SendOffer
  BY <1>2 DEF SendOffer, Send
<1>3. CASE RelocateCommitted
  BY <1>3, ReleasePaths DEF RelocateCommitted, Completes, Tears, RelocateEnds
<1>4. CASE RelocateRefused
  BY <1>4, AbortPaths DEF RelocateRefused, Completes, Tears, RelocateEnds
<1>5. CASE RelocateWaits
  BY <1>5 DEF RelocateWaits, RelocateEnds, targetVars
<1> QED
  BY <1>1, <1>2, <1>3, <1>4, <1>5

\* The person at the target.
LEMMA PersonStep ==
  ASSUME OneLoop, HomeInv, Accept \/ Decline \/ SetPreauth
  PROVE  OfferInv'
<1> USE DEF OneLoop, HomeInv, ReleaseInv, TypeOK, ReleasedHeld, ToldTrue, OfferInv, OriginInv, DraftInv,
           LegInv, TargetInv, NegativeInv, NoOffer, Parked, OriginType
<1>1. CASE Accept
  BY <1>1 DEF Accept, originVars
<1>2. CASE Decline
  BY <1>2 DEF Decline, originVars
<1>3. CASE SetPreauth
  BY <1>3 DEF SetPreauth, originVars
<1> QED
  BY <1>1, <1>2, <1>3

\* The origin's receiver loop.
LEMMA LoopStep ==
  ASSUME OneLoop, HomeInv, ReceiveCommitted \/ ReceiveDeclined \/ AskStatus \/ SweepReleases \/ SweepCancels \/ SweepLeaves
  PROVE  OfferInv'
<1> USE DEF OneLoop, HomeInv, ReleaseInv, TypeOK, ReleasedHeld, ToldTrue, OfferInv, OriginInv, DraftInv,
           LegInv, TargetInv, NegativeInv, NoOffer, Parked, OriginType
<1>0. \/ origin.phase \in {"Offered", "LogSynced"} /\ Len(Releases(origin)) = 3
         /\ Releases(origin)[3].phase = "Committed" /\ Releases(origin)[3].out = "resolved"
      \/ Len(Releases(origin)) = 3 /\ Releases(origin)[3] = origin
  BY ReleasePaths
<1>1. CASE ReceiveCommitted
  <2>1. held /\ origin' = Releases(origin)[3]
    BY <1>0, <1>1 DEF ReceiveCommitted, Completes, Tears
  <2> QED
    BY <1>0, <1>1, <2>1 DEF ReceiveCommitted, Tears
<1>2. CASE ReceiveDeclined
  BY <1>2, AbortPaths DEF ReceiveDeclined, Completes, Tears
<1>3. CASE AskStatus
  BY <1>3 DEF AskStatus, Send, Questioned
<1>4. CASE SweepReleases
  <2>1. held /\ origin' = Releases(origin)[3]
    BY <1>0, <1>4 DEF SweepReleases, Completes, Tears, SweepHeard, ResolveFromStatus
  <2> QED
    BY <1>0, <1>4, <2>1 DEF SweepReleases, Tears
<1>5. CASE SweepCancels
  BY <1>5, AbortPaths DEF SweepCancels, Completes, Tears, SweepHeard, ResolveFromStatus
<1>6. CASE SweepLeaves
  BY <1>6 DEF SweepLeaves, targetVars
<1> QED
  BY <1>1, <1>2, <1>3, <1>4, <1>5, <1>6

\* The abort route.
LEMMA AbortStep ==
  ASSUME OneLoop, HomeInv, AbortLocally \/ AskCancel \/ CancelConfirmed \/ CancelRefused
  PROVE  OfferInv'
<1> USE DEF OneLoop, HomeInv, ReleaseInv, TypeOK, ReleasedHeld, ToldTrue, OfferInv, OriginInv, DraftInv,
           LegInv, TargetInv, NegativeInv, NoOffer, Parked, OriginType
<1>1. CASE AbortLocally
  BY <1>1, Appends DEF AbortLocally, targetVars
<1>2. CASE AskCancel
  BY <1>2 DEF AskCancel, Send
<1>3. CASE CancelConfirmed
  BY <1>3, AbortPaths DEF CancelConfirmed, Completes, Tears
<1>4. CASE CancelRefused
  BY <1>4 DEF CancelRefused, targetVars
<1> QED
  BY <1>1, <1>2, <1>3, <1>4

\* A parked leg stays parked when the origin's connections close.
LEMMA ParkedStays ==
  ASSUME TypeOK, OriginForgets, NEW l \in Legs, leg[l] = Parked
  PROVE  leg'[l] = Parked
<1>1. leg'[l] = [leg[l] EXCEPT !.live = FALSE]
  BY DEF OriginForgets
<1>2. leg[l] \in [kind : Kinds \union {"parked"}, live : BOOLEAN]
  BY DEF TypeOK
<1>3. /\ leg'[l] \in [kind : Kinds \union {"parked"}, live : BOOLEAN]
      /\ leg'[l].kind = leg[l].kind /\ leg'[l].live = FALSE
  BY <1>1, <1>2
<1>4. leg[l].kind = "parked"
  BY DEF Parked
<1> QED
  BY <1>3, <1>4 DEF Parked

\* What may be lost or crash.
LEMMA CrashStep ==
  ASSUME OneLoop, HomeInv, SendFails \/ LosePush \/ OriginCrashes \/ TargetCrashes
  PROVE  OfferInv'
<1> USE DEF OneLoop, HomeInv, ReleaseInv, TypeOK, ReleasedHeld, ToldTrue, OfferInv, OriginInv, DraftInv,
           LegInv, TargetInv, NegativeInv, NoOffer, Parked, OriginType
<1>1. CASE SendFails
  BY <1>1 DEF SendFails, Fault, targetVars
<1>2. CASE LosePush
  BY <1>2 DEF LosePush, originVars
<1>3. CASE OriginCrashes
  <2>1. \A l \in Legs : leg'[l].kind = leg[l].kind /\ leg'[l].live = FALSE
    BY <1>3 DEF OriginCrashes, OriginForgets
  <2>2. \A l \in Legs : leg[l] = Parked => leg'[l] = Parked
    BY <1>3, ParkedStays DEF OriginCrashes
  <2> QED
    BY <1>3, <2>1, <2>2 DEF OriginCrashes, OriginForgets
<1>4. CASE TargetCrashes
  BY <1>4 DEF TargetCrashes, CallsLost, Parked
<1> QED
  BY <1>1, <1>2, <1>3, <1>4

\* The target's receiver loop.  The frame it serves was in the only leg, so no
\* offer is on its way once it is served.
LEMMA ServeStep ==
  ASSUME OneLoop, HomeInv, NEW l \in Legs, Receive(l)
  PROVE  OfferInv'
<1> USE DEF OneLoop, HomeInv, ReleaseInv, TypeOK, ReleasedHeld, ToldTrue, OfferInv, OriginInv, DraftInv,
           LegInv, TargetInv, NegativeInv, NoOffer, OriginType
<1>1. leg' = [leg EXCEPT ![l] = Parked]
  BY DEF Receive, RefuseOffer, AdmitOffer, FailOffer, RetainOffer, AnswerStatus,
         AnswerCancelled, Frees
<1>2. \A k \in Legs : k = l /\ leg'[k] = Parked
  BY <1>1
<1>3. \A k \in Legs : leg'[k].kind = "parked" /\ leg'[k].live = FALSE
  BY <1>2 DEF Parked
<1>4. CASE RefuseOffer(l)
  BY <1>2, <1>3, <1>4 DEF RefuseOffer, Answers
<1>5. CASE AdmitOffer(l)
  BY <1>2, <1>3, <1>5 DEF AdmitOffer, Answers
<1>6. CASE FailOffer(l)
  BY <1>2, <1>3, <1>6 DEF FailOffer, Answers
<1>7. CASE RetainOffer(l)
  BY <1>2, <1>3, <1>7 DEF RetainOffer, Answers
<1>8. CASE AnswerStatus(l)
  BY <1>2, <1>3, <1>8 DEF AnswerStatus, StatusVerdict, Outcomes
<1>9. CASE AnswerCancelled(l)
  BY <1>2, <1>3, <1>9 DEF AnswerCancelled, Answers
<1> QED
  BY <1>4, <1>5, <1>6, <1>7, <1>8, <1>9 DEF Receive

\* A connection that breaks before or after the target has its frame.
LEMMA LoseStep ==
  ASSUME OneLoop, HomeInv, NEW l \in Legs, LoseFrame(l) \/ LoseAnswer(l)
  PROVE  OfferInv'
<1> USE DEF OneLoop, HomeInv, ReleaseInv, TypeOK, ReleasedHeld, ToldTrue, OfferInv, OriginInv, DraftInv,
           LegInv, TargetInv, NegativeInv, NoOffer, OriginType
<1>0. \A k \in Legs : k = l
  OBVIOUS
<1>1. CASE LoseFrame(l)
  <2>1. \A k \in Legs : leg'[k] = Parked
    BY <1>0, <1>1 DEF LoseFrame, Frees
  <2>2. \A k \in Legs : leg'[k].kind = "parked" /\ leg'[k].live = FALSE
    BY <2>1 DEF Parked
  <2> QED
    BY <1>0, <1>1, <2>1, <2>2 DEF LoseFrame, CallsLost, Parked
<1>2. CASE LoseAnswer(l)
  <2>1. leg'[l].kind = leg[l].kind /\ leg'[l].live = FALSE /\ leg[l].live
    BY <1>2 DEF LoseAnswer
  <2>2. origin.phase # "Draft"
    BY <2>1 DEF Parked
  <2> QED
    BY <1>0, <1>2, <2>1, <2>2 DEF LoseAnswer, CallsLost
<1> QED
  BY <1>1, <1>2

LEMMA HomeStep ==
  ASSUME OneLoop PROVE HomeInv /\ [Next]_vars => HomeInv'
<1> SUFFICES ASSUME HomeInv, [Next]_vars PROVE OfferInv'
  BY ReleaseStep DEF HomeInv
<1>1. CASE UNCHANGED vars
  BY <1>1 DEF vars, HomeInv, OfferInv, OriginInv, DraftInv, LegInv, TargetInv, NegativeInv,
             NoOffer
<1>2. CASE CaptureOffer \/ SendOffer \/ RelocateAnswered
  BY <1>2, OfferedStep DEF RelocateAnswered
<1>3. CASE RelocateAgain
  BY <1>3 DEF RelocateAgain, OneLoop
<1>4. CASE Accept \/ Decline \/ SetPreauth
  BY <1>4, PersonStep
<1>5. CASE ReceiveCommitted \/ ReceiveDeclined \/ AskStatus \/ SweepAnswered
  BY <1>5, LoopStep DEF SweepAnswered
<1>6. CASE AbortLocally \/ AskCancel \/ CancelConfirmed \/ CancelRefused
  BY <1>6, AbortStep
<1>7. CASE SendFails \/ LosePush \/ OriginCrashes \/ TargetCrashes
  BY <1>7, CrashStep
<1>8. CASE \E l \in Legs : Receive(l) \/ LoseFrame(l) \/ LoseAnswer(l)
  BY <1>8, ServeStep, LoseStep
<1> QED
  BY <1>1, <1>2, <1>3, <1>4, <1>5, <1>6, <1>7, <1>8 DEF Next

(***************************************************************************)
(* EXACTLY_ONE_HOME's "never two": with one receiver loop per pairing,     *)
(* handlers that are not cut between two appends and one relocate call,    *)
(* whatever frames, answers and pushes are lost and however often either   *)
(* Home crashes, a project that was rolled back is not held, one that is   *)
(* held and not released will still be asked for, and the reconcile never  *)
(* asks about an offer that has not been sent.                             *)
(***************************************************************************)
THEOREM ExactlyOneHome == ASSUME OneLoop PROVE Spec => []OneHome
<1>1. HomeInv => OneHome
  BY DEF HomeInv, ReleaseInv, TypeOK, OfferInv, OriginInv, TargetInv, NegativeInv, OneHome,
         NoSplitHome, QuestionKept, Uninspected, Phases, ReleasedHeld
<1>2. HomeInv /\ [Next]_vars => HomeInv'
  BY HomeStep
<1> QED
  BY <1>1, <1>2, HomeInit, PTL DEF Spec

\* A step decides at most one of the two: what the target holds it keeps, and
\* a settled origin stays as it is.
LEMMA DecisionStep ==
  ASSUME OneLoop, HomeInv, [Next]_vars
  PROVE  /\ held => held'
         /\ held' => held \/ origin' = origin
         /\ origin.phase \in {"Aborted", "Committed"} => origin'.phase = origin.phase
<1> USE DEF OneLoop
<1>0. origin \in OriginType
  BY DEF HomeInv, ReleaseInv, TypeOK, OriginType
<1>1. CASE UNCHANGED vars
  BY <1>1 DEF vars
<1>2. CASE RelocateCommitted \/ ReceiveCommitted \/ SweepReleases
  <2>1. held' = held
    BY <1>2 DEF RelocateCommitted, ReceiveCommitted, SweepReleases
  <2>2. Completes(RelocateReleases(origin)) \/ Completes(Releases(origin))
    BY <1>2 DEF RelocateCommitted, ReceiveCommitted, SweepReleases, Tears
  <2>3. origin' = RelocateReleases(origin)[3] \/ origin' = Releases(origin)[3]
    BY <1>0, <2>2, ReleasePaths DEF Completes
  <2>4. origin.phase \in {"Aborted", "Committed"} =>
          /\ RelocateReleases(origin)[3].phase = origin.phase
          /\ Releases(origin)[3].phase = origin.phase
    BY <1>0, ReleasePaths
  <2> QED
    BY <2>1, <2>3, <2>4
<1>3. CASE RelocateRefused \/ ReceiveDeclined \/ SweepCancels \/ CancelConfirmed
  <2>1. held' = held
    BY <1>3 DEF RelocateRefused, ReceiveDeclined, SweepCancels, CancelConfirmed
  <2>2. PICK p \in {RelocateAborts(origin), Aborts(origin), CancelsOffer(origin)} :
          Completes(p)
    BY <1>3 DEF RelocateRefused, ReceiveDeclined, SweepCancels, CancelConfirmed, Tears
  <2>3. Len(p) = 2
    BY <1>0, AbortPaths
  <2>4. origin' = p[2]
    BY <2>2, <2>3 DEF Completes
  <2>5. origin.phase \in {"Aborted", "Committed"} => p[2].phase = origin.phase
    BY <1>0, AbortPaths
  <2> QED
    BY <2>1, <2>4, <2>5
<1>4. CASE CaptureOffer \/ RelocateWaits \/ AbortLocally
  <2>1. held' = held
    BY <1>4 DEF CaptureOffer, RelocateWaits, AbortLocally, targetVars
  <2>2. CASE CaptureOffer
    BY <2>1, <2>2 DEF CaptureOffer
  <2>3. CASE RelocateWaits
    BY <1>0, <2>1, <2>3 DEF RelocateWaits, OriginType
  <2>4. CASE AbortLocally
    BY <1>0, <2>1, <2>4, Appends DEF AbortLocally
  <2> QED
    BY <1>4, <2>2, <2>3, <2>4
<1>5. CASE \/ SendOffer \/ RelocateAgain \/ AskStatus \/ SweepLeaves \/ AskCancel
           \/ CancelRefused
  BY <1>5 DEF SendOffer, RelocateAgain, AskStatus, SweepLeaves, AskCancel, CancelRefused,
              targetVars
<1>6. CASE Accept \/ Decline \/ SetPreauth \/ \E l \in Legs : Receive(l)
  BY <1>6 DEF Accept, Decline, SetPreauth, originVars, Receive, RefuseOffer, AdmitOffer,
              FailOffer, RetainOffer, AnswerStatus, AnswerCancelled
<1>7. CASE \/ SendFails \/ LosePush \/ OriginCrashes \/ TargetCrashes
           \/ \E l \in Legs : LoseFrame(l) \/ LoseAnswer(l)
  <2>1. origin' = origin /\ held' = held
    BY <1>7 DEF SendFails, LosePush, OriginCrashes, TargetCrashes, LoseFrame, LoseAnswer,
                originVars, targetVars
  <2> QED
    BY <2>1
<1> QED
  BY <1>1, <1>2, <1>3, <1>4, <1>5, <1>6, <1>7 DEF Next, RelocateAnswered, SweepAnswered

(***************************************************************************)
(* In the same setting the relocation is one decision taken once: the      *)
(* project moves and is then released, or stays, and neither is reversed   *)
(* by anything that arrives late (COMMIT_TERMINAL,                         *)
(* ABORT_KEEPS_ORIGIN_HOME).                                               *)
(***************************************************************************)
THEOREM MoveDecided == ASSUME OneLoop PROVE Spec => Decided
<1>1. Init => Move!Init
  BY DEF Init, Move!Init
<1>2. HomeInv /\ HomeInv' /\ [Next]_vars => [Move!Next]_Move!vars
  <2> SUFFICES ASSUME HomeInv, HomeInv', [Next]_vars PROVE [Move!Next]_Move!vars
    OBVIOUS
  <2>1. /\ held \in BOOLEAN /\ held' \in BOOLEAN
        /\ ~(origin.phase = "Aborted" /\ held) /\ ~(origin.phase = "Aborted" /\ held)'
        /\ origin.phase = "Committed" => held
        /\ origin'.phase = "Committed" => held'
    BY DEF HomeInv, ReleaseInv, TypeOK, OfferInv, TargetInv, Phases
  <2> QED
    BY <2>1, DecisionStep DEF Move!Next, Move!Move, Move!Keep, Move!Release, Move!vars
<1>3. HomeInv /\ [Next]_vars => HomeInv'
  BY HomeStep
<1> QED
  BY <1>1, <1>2, <1>3, HomeInit, PTL DEF Spec, Decided, Move!Spec

(* ---- deliveries ---- *)

\* While a message is not a draft its binding is what the source authorized, if
\* the source authorized it at all; nothing was admitted before it left draft,
\* and an expired attempt is not in flight.
DeliveryInv ==
  /\ DeliverySafe
  /\ phase = "Draft" => said = {} /\ admissions = {} /\ ~expired
  /\ said \subseteq {bound}
  /\ \A a \in admissions : a.grant = bound
  /\ phase \notin {"Expired"} => ~expired

LEMMA DeliveryInitially == DeliveryInit => DeliveryInv
<1> SUFFICES ASSUME DeliveryInit PROVE DeliveryInv
  OBVIOUS
<1>1. retries \in 0..MaxRetries /\ bound \in Grants
  BY DeliveryAssumption DEF DeliveryInit
<1> QED
  BY <1>1 DEF DeliveryInit, DeliveryInv, DeliverySafe, DeliveryTypeOK, AdmittedAsAuthorized,
              FreshAttempt, MessagePhases, InFlight

LEMMA DeliveryStep == DeliveryInv /\ [DeliveryNext]_deliveryVars => DeliveryInv'
<1> SUFFICES ASSUME DeliveryInv, [DeliveryNext]_deliveryVars PROVE DeliveryInv'
  OBVIOUS
<1> USE DEF DeliveryInv, DeliverySafe, DeliveryTypeOK, AdmittedAsAuthorized, FreshAttempt,
           MessagePhases, InFlight, DeliveryRetryable
<1>1. CASE UNCHANGED deliveryVars
  BY <1>1 DEF deliveryVars
<1>2. CASE AuthorizeFederatedMessage
  BY <1>2 DEF AuthorizeFederatedMessage
<1>3. CASE EnqueueFederatedMessage
  BY <1>3 DEF EnqueueFederatedMessage
<1>4. CASE RecordRelayDelivery
  BY <1>4 DEF RecordRelayDelivery
<1>5. CASE RejectTargetReceipt
  BY <1>5 DEF RejectTargetReceipt
<1>6. CASE RecordDeliveryFailure
  BY <1>6 DEF RecordDeliveryFailure
<1>7. CASE ExpireFederatedDelivery
  BY <1>7 DEF ExpireFederatedDelivery
<1>8. CASE CancelFederatedDelivery
  BY <1>8 DEF CancelFederatedDelivery
<1>9. CASE RetryFederatedDelivery
  <2>1. retries' \in 0..MaxRetries
    BY <1>9, DeliveryAssumption DEF RetryFederatedDelivery
  <2> QED
    BY <1>9, <2>1 DEF RetryFederatedDelivery
<1>10. ASSUME NEW g \in Grants, BindDelivery(g) PROVE DeliveryInv'
  BY <1>10 DEF BindDelivery
<1>11. ASSUME NEW g \in Grants, Revoke(g) PROVE DeliveryInv'
  BY <1>11 DEF Revoke
<1>12. ASSUME NEW g \in Grants, NEW n \in Nonces, AdmitTargetReceipt(g, n) PROVE DeliveryInv'
  <2> DEFINE a == [grant |-> g, nonce |-> n, live |-> g \in active]
  <2>1. a \in [grant : Grants, nonce : Nonces, live : BOOLEAN] /\ a.grant = bound /\ a.live
    BY <1>12 DEF AdmitTargetReceipt, CheckDeviceBinding
  <2>2. admissions' = admissions \union {a}
    BY <1>12 DEF AdmitTargetReceipt
  <2> HIDE DEF a
  <2> QED
    BY <1>12, <2>1, <2>2 DEF AdmitTargetReceipt
<1> QED
  BY <1>1, <1>2, <1>3, <1>4, <1>5, <1>6, <1>7, <1>8, <1>9, <1>10, <1>11, <1>12
     DEF DeliveryNext

(***************************************************************************)
(* For any grants, nonces and number of retries: what a target admits is   *)
(* what the source authorized, through the grant bound then and while it   *)
(* was active, over every expiry, cancellation and retry, and no attempt   *)
(* in flight is an expired one (BRIDGE_GRANT_MATCHES,                      *)
(* DEVICE_BINDING_MATCHES).                                                *)
(***************************************************************************)
THEOREM DeliveryAsAuthorized == DeliverySpec => []DeliverySafe
<1>1. DeliveryInv => DeliverySafe
  BY DEF DeliveryInv
<1> QED
  BY <1>1, DeliveryInitially, DeliveryStep, PTL DEF DeliverySpec

(* ---- co-driven runs ---- *)

\* A delivery that is still a draft has produced no evidence, and one delivery
\* is evidence of one run; whatever carries observations is of a run that
\* executed.
DriveInv ==
  /\ DriveTypeOK
  /\ \A i \in Indexes, r \in Runs : <<r, i>> \in evidence => delivery[i] # "Draft"
  /\ \A i \in Indexes : \A r, s \in Runs :
       <<r, i>> \in evidence /\ <<s, i>> \in evidence => r = s
  /\ \A r \in Runs, i \in Indexes : <<r, i>> \in evidence => ran[r] > 0
  /\ \A r \in Runs : place[r] = "answered" \/ r \in pushed => ran[r] > 0
  /\ \A k \in Callers : admit[k].at # "idle" => admit[k].run \in Runs
  /\ \A k \in Callers : admit[k].at = "executed" => ran[admit[k].run] > 0

LEMMA DriveImplies == DriveInv => EvidenceSafe
<1> SUFFICES ASSUME DriveInv PROVE EvidenceOnce
  BY DEF DriveInv, EvidenceSafe
<1>1. ASSUME NEW i \in Indexes PROVE Cardinality({r \in Runs : <<r, i>> \in evidence}) <= 1
  <2> DEFINE S == {r \in Runs : <<r, i>> \in evidence}
  <2>1. \A r, s \in S : r = s
    BY DEF DriveInv
  <2> HIDE DEF S
  <2>2. S = {} => Cardinality(S) <= 1
    BY FS_EmptySet
  <2>3. ASSUME NEW r \in S PROVE Cardinality(S) <= 1
    <3>1. S = {r}
      BY <2>1
    <3>2. Cardinality({r}) = 1
      BY FS_Singleton
    <3>3. Cardinality(S) = 1
      BY <3>1, <3>2
    <3> QED
      BY <3>3
  <2>4. Cardinality(S) <= 1
    BY <2>2, <2>3
  <2> QED
    BY <2>4 DEF S
<1>2. \A e \in evidence : ran[e[1]] > 0
  BY DEF DriveInv, DriveTypeOK
<1> QED
  BY <1>1, <1>2 DEF EvidenceOnce

LEMMA DriveInitially == DriveInit => DriveInv
<1> SUFFICES ASSUME DriveInit PROVE DriveInv
  OBVIOUS
<1>1. admit \in [Callers -> [run : Runs \union {"none"}, at : {"idle", "read", "executed"}]]
  BY DEF DriveInit, Idle
<1>2. crashes \in 0..MaxCrashes
  BY CoDriveAssumption DEF DriveInit
<1>3. DriveTypeOK
  BY <1>1, <1>2 DEF DriveInit, DriveTypeOK, DeliveryPhases
<1> QED
  BY <1>3 DEF DriveInit, DriveInv, Idle

\* Recording the fresh observations of a batch up to n, none of whose deliveries
\* is a draft afterwards.
LEMMA RecordStep ==
  ASSUME DriveInv, NEW r \in Runs, NEW n \in Nat, n <= ObsCount[r], ran[r] > 0,
         evidence' = evidence \union {<<r, i>> : i \in {j \in 1..n : Fresh(j)}},
         \A i \in Indexes : delivery'[i] = "Draft" => delivery[i] = "Draft" /\ ~(i <= n),
         ran' = ran
  PROVE  /\ evidence' \subseteq Runs \X Indexes
         /\ \A i \in Indexes, q \in Runs : <<q, i>> \in evidence' => delivery'[i] # "Draft"
         /\ \A i \in Indexes : \A q, s \in Runs :
              <<q, i>> \in evidence' /\ <<s, i>> \in evidence' => q = s
         /\ \A q \in Runs, i \in Indexes : <<q, i>> \in evidence' => ran'[q] > 0
<1>1. \A i \in 1..n : i \in Indexes /\ i <= n
  BY CoDriveAssumption DEF Indexes
<1>2. \A e \in evidence' : e \in evidence \/ \E i \in 1..n : Fresh(i) /\ e = <<r, i>>
  OBVIOUS
<1>3. \A i \in Indexes, q \in Runs :
        <<q, i>> \in evidence' => \/ <<q, i>> \in evidence
                                  \/ q = r /\ i \in 1..n /\ delivery[i] = "Draft"
  BY <1>2 DEF Fresh
<1>4. evidence' \subseteq Runs \X Indexes
  BY <1>1, <1>2 DEF DriveInv, DriveTypeOK
<1>5. \A i \in Indexes, q \in Runs : <<q, i>> \in evidence' => delivery'[i] # "Draft"
  BY <1>1, <1>3 DEF DriveInv
<1>6. \A i \in Indexes : \A q, s \in Runs :
        <<q, i>> \in evidence' /\ <<s, i>> \in evidence' => q = s
  BY <1>3 DEF DriveInv
<1>7. \A q \in Runs, i \in Indexes : <<q, i>> \in evidence' => ran'[q] > 0
  BY <1>3 DEF DriveInv
<1> QED
  BY <1>4, <1>5, <1>6, <1>7

\* A whole batch, or a batch cut by a crash, keeps the operator's evidence.
LEMMA ObservationsStep ==
  ASSUME DriveInv, NEW r \in Runs, ran[r] > 0, ran' = ran,
         AdmitObservations(r, ObsCount[r]) \/ TornObservations(r)
  PROVE  /\ delivery' \in [Indexes -> DeliveryPhases]
         /\ evidence' \subseteq Runs \X Indexes
         /\ \A i \in Indexes, q \in Runs : <<q, i>> \in evidence' => delivery'[i] # "Draft"
         /\ \A i \in Indexes : \A q, s \in Runs :
              <<q, i>> \in evidence' /\ <<s, i>> \in evidence' => q = s
         /\ \A q \in Runs, i \in Indexes : <<q, i>> \in evidence' => ran'[q] > 0
<1>0. ObsCount[r] \in Nat \ {0}
  BY CoDriveAssumption
<1>1. \A i \in Indexes : i \in Nat
  BY CoDriveAssumption DEF Indexes
<1>2. CASE AdmitObservations(r, ObsCount[r])
  <2>1. delivery' \in [Indexes -> DeliveryPhases]
    BY <1>2 DEF AdmitObservations, DriveInv, DriveTypeOK, DeliveryPhases
  <2>2. \A i \in Indexes : delivery'[i] = "Draft" => delivery[i] = "Draft" /\ ~(i <= ObsCount[r])
    BY <1>2 DEF AdmitObservations, Fresh
  <2>3. evidence' = evidence \union {<<r, i>> : i \in {j \in 1..ObsCount[r] : Fresh(j)}}
    BY <1>2 DEF AdmitObservations
  <2> QED
    BY <1>0, <2>1, <2>2, <2>3, RecordStep
<1>3. CASE TornObservations(r)
  <2>1. PICK n \in 1..ObsCount[r], p \in DeliveryPhases \ {"Draft"} :
          /\ Fresh(n)
          /\ delivery' = [i \in Indexes |->
               IF i = n THEN p ELSE IF i < n /\ Fresh(i) THEN "TargetAdmitted" ELSE delivery[i]]
          /\ evidence' = evidence \union {<<r, i>> : i \in {j \in 1..(n - 1) : Fresh(j)}}
    BY <1>3 DEF TornObservations
  <2>2. n - 1 \in Nat /\ n - 1 <= ObsCount[r]
    BY <1>0
  <2>3. delivery' \in [Indexes -> DeliveryPhases]
    BY <2>1 DEF DriveInv, DriveTypeOK, DeliveryPhases
  <2>4. \A i \in Indexes : delivery'[i] = "Draft" => delivery[i] = "Draft" /\ ~(i <= n - 1)
    BY <1>0, <1>1, <2>1 DEF Fresh
  <2> QED
    BY <2>1, <2>2, <2>3, <2>4, RecordStep
<1> QED
  BY <1>2, <1>3

\* The host's steps and the losses: the operator's evidence stands.
LEMMA HostStep ==
  ASSUME DriveInv,
         \/ SetAllow \/ HostCrash
         \/ \E r \in Runs : \/ AdmitRunPlace(r) \/ ExecutePlaced(r) \/ Deny(r)
                            \/ DriveLoseAnswer(r) \/ LoseResult(r)
                            \/ \E k \in Callers : AdmitOnce(k, r)
         \/ \E k \in Callers : ExecuteOnce(k) \/ ResolveOnce(k)
  PROVE  DriveInv'
<1> USE DEF DriveInv, DriveTypeOK, operatorVars, hostVars
<1>1. CASE SetAllow
  BY <1>1 DEF SetAllow
<1>2. CASE HostCrash
  <2>1. crashes' \in 0..MaxCrashes
    BY <1>2, CoDriveAssumption DEF HostCrash
  <2>2. admit' \in [Callers -> [run : Runs \union {"none"}, at : {"idle", "read", "executed"}]]
        /\ \A k \in Callers : admit'[k].at = "idle"
    BY <1>2 DEF HostCrash, Idle
  <2>3. place' \in [Runs -> {"new", "executing", "answered", "pending", "refused", "done", "lost"}]
        /\ \A r \in Runs : place'[r] # "answered"
    BY <1>2 DEF HostCrash
  <2> QED
    BY <1>2, <2>1, <2>2, <2>3 DEF HostCrash
<1>3. ASSUME NEW r \in Runs, AdmitRunPlace(r) PROVE DriveInv'
  BY <1>3 DEF AdmitRunPlace
<1>4. ASSUME NEW r \in Runs, ExecutePlaced(r) PROVE DriveInv'
  BY <1>4 DEF ExecutePlaced
<1>5. ASSUME NEW r \in Runs, Deny(r) PROVE DriveInv'
  BY <1>5 DEF Deny
<1>6. ASSUME NEW r \in Runs, DriveLoseAnswer(r) PROVE DriveInv'
  BY <1>6 DEF DriveLoseAnswer
<1>7. ASSUME NEW r \in Runs, LoseResult(r) PROVE DriveInv'
  BY <1>7 DEF LoseResult
<1>8. ASSUME NEW r \in Runs, NEW k \in Callers, AdmitOnce(k, r) PROVE DriveInv'
  BY <1>8 DEF AdmitOnce
<1>9. ASSUME NEW k \in Callers, ExecuteOnce(k) PROVE DriveInv'
  BY <1>9 DEF ExecuteOnce
<1>10. ASSUME NEW k \in Callers, ResolveOnce(k) PROVE DriveInv'
  BY <1>10 DEF ResolveOnce, Idle
<1> QED
  BY <1>1, <1>2, <1>3, <1>4, <1>5, <1>6, <1>7, <1>8, <1>9, <1>10

\* The operator's steps: an answer, a pushed result, and either cut by a crash.
LEMMA OperatorStep ==
  ASSUME DriveInv, NEW r \in Runs, ReceiveAnswer(r) \/ ReceiveResult(r) \/ OperatorCrash(r)
  PROVE  DriveInv'
<1>1. ran[r] > 0 /\ ran' = ran
  BY DEF ReceiveAnswer, ReceiveResult, OperatorCrash, DriveInv, hostVars
<1>2. AdmitObservations(r, ObsCount[r]) \/ TornObservations(r)
  BY DEF ReceiveAnswer, ReceiveResult, OperatorCrash
<1>3. crashes' \in 0..MaxCrashes
  BY CoDriveAssumption DEF ReceiveAnswer, ReceiveResult, OperatorCrash, DriveInv, DriveTypeOK
<1>4. /\ UNCHANGED hostVars /\ pushed' \subseteq pushed /\ result' \in {result, result \union {r}}
      /\ place' \in [Runs -> {"new", "executing", "answered", "pending", "refused", "done", "lost"}]
      /\ \A q \in Runs : place'[q] = "answered" => place[q] = "answered"
  BY DEF ReceiveAnswer, ReceiveResult, OperatorCrash, DriveInv, DriveTypeOK
<1> QED
  BY <1>1, <1>2, <1>3, <1>4, ObservationsStep DEF DriveInv, DriveTypeOK, hostVars

LEMMA DriveStep == DriveInv /\ [DriveNext]_driveVars => DriveInv'
<1> SUFFICES ASSUME DriveInv, [DriveNext]_driveVars PROVE DriveInv'
  OBVIOUS
<1>1. CASE UNCHANGED driveVars
  BY <1>1 DEF driveVars, DriveInv, DriveTypeOK
<1>2. CASE DriveNext
  BY <1>2, HostStep, OperatorStep DEF DriveNext
<1> QED
  BY <1>1, <1>2

(***************************************************************************)
(* However many runs and admit-once requests there are, however often      *)
(* results arrive, are lost or are cut by a crash of either Home: one      *)
(* delivery becomes evidence of at most one run, and only of a run that    *)
(* executed (admit_observations, INV-4).                                   *)
(***************************************************************************)
THEOREM EvidenceStands == DriveSpec => []EvidenceSafe
BY DriveInitially, DriveStep, DriveImplies, PTL DEF DriveSpec

(* ---- one execution of a queued run ---- *)

\* The setting of "Single-run": nobody admits the same project's queue twice at
\* the same time, and the host does not crash between executing and resolving.
OneCaller == MaxCrashes = 0 /\ \A j, k \in Callers : j = k

\* A run that has not been decided has not run; an entry still placed has run
\* only if the request that executed it has yet to resolve it.
SingleInv ==
  /\ DriveInv
  /\ SingleRun
  /\ \A r \in Runs : place[r] \in {"new", "executing"} => ran[r] = 0
  /\ \A k \in Callers : admit[k].at # "idle" => place[admit[k].run] = "pending"
  /\ \A k \in Callers : admit[k].at = "read" => ran[admit[k].run] = 0
  /\ \A r \in Runs : queue[r] = "placed" => place[r] = "pending"
  /\ \A r \in Runs :
       queue[r] = "placed" /\ (\A k \in Callers : admit[k].at = "executed" => admit[k].run # r)
         => ran[r] = 0

LEMMA SingleStep ==
  ASSUME OneCaller PROVE SingleInv /\ [DriveNext]_driveVars => SingleInv'
<1> SUFFICES ASSUME SingleInv, [DriveNext]_driveVars PROVE SingleInv'
  OBVIOUS
<1>0. DriveInv'
  BY DriveStep DEF SingleInv
<1>a. crashes = 0 /\ ~(crashes < MaxCrashes)
  BY DEF OneCaller, SingleInv, DriveInv, DriveTypeOK
<1> USE <1>0 DEF OneCaller, SingleInv, SingleRun, DriveInv, DriveTypeOK, operatorVars, hostVars
<1>1. CASE UNCHANGED driveVars
  BY <1>1 DEF driveVars
<1>2. CASE SetAllow
  BY <1>2 DEF SetAllow
<1>3. ASSUME NEW r \in Runs, AdmitRunPlace(r) PROVE SingleInv'
  BY <1>3 DEF AdmitRunPlace
<1>4. ASSUME NEW r \in Runs, ExecutePlaced(r) PROVE SingleInv'
  BY <1>4 DEF ExecutePlaced
<1>5. ASSUME NEW r \in Runs, Deny(r) PROVE SingleInv'
  BY <1>5 DEF Deny
<1>6. ASSUME NEW r \in Runs, DriveLoseAnswer(r) \/ ReceiveAnswer(r) PROVE SingleInv'
  BY <1>6 DEF DriveLoseAnswer, ReceiveAnswer
<1>7. ASSUME NEW r \in Runs, LoseResult(r) \/ ReceiveResult(r) PROVE SingleInv'
  BY <1>7 DEF LoseResult, ReceiveResult
<1>8. ASSUME NEW r \in Runs, NEW k \in Callers, AdmitOnce(k, r) PROVE SingleInv'
  <2>1. ran[r] = 0 /\ place[r] = "pending"
    BY <1>8 DEF AdmitOnce, Idle
  <2>2. \A j \in Callers : j = k
    OBVIOUS
  <2>3. admit'[k].run = r /\ admit'[k].at = "read" /\ admit[k].at = "idle"
    BY <1>8 DEF AdmitOnce, Idle
  <2> QED
    BY <1>8, <2>1, <2>2, <2>3 DEF AdmitOnce
<1>9. ASSUME NEW k \in Callers, ExecuteOnce(k) PROVE SingleInv'
  BY <1>9 DEF ExecuteOnce
<1>10. ASSUME NEW k \in Callers, ResolveOnce(k) PROVE SingleInv'
  BY <1>10 DEF ResolveOnce, Idle
<1>11. CASE HostCrash \/ \E r \in Runs : OperatorCrash(r)
  BY <1>a, <1>11 DEF HostCrash, OperatorCrash
<1> QED
  BY <1>1, <1>2, <1>3, <1>4, <1>5, <1>6, <1>7, <1>8, <1>9, <1>10, <1>11 DEF DriveNext

(***************************************************************************)
(* "Single-run" (post_run_admit_once) for any number of runs, denials and  *)
(* lost or repeated results, when requests to admit come one after another *)
(* and the host does not crash: each placed run executes at most once.     *)
(***************************************************************************)
THEOREM QueuedRunOnce == ASSUME OneCaller PROVE DriveSpec => []SingleRun
<1>1. DriveInit => SingleInv
  <2> SUFFICES ASSUME DriveInit PROVE SingleInv
    OBVIOUS
  <2>1. DriveInv
    BY DriveInitially
  <2> QED
    BY <2>1 DEF DriveInit, SingleInv, SingleRun, Idle
<1>2. SingleInv /\ [DriveNext]_driveVars => SingleInv'
  BY SingleStep
<1>3. SingleInv => SingleRun
  BY DEF SingleInv
<1> QED
  BY <1>1, <1>2, <1>3, PTL DEF DriveSpec

=============================================================================
