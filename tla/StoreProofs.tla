---------------------------- MODULE StoreProofs ----------------------------
(***************************************************************************)
(* Proofs about the store's protocols beside the keyed admission: the HTTP *)
(* guard, dispatch behind its fence, record admission, and the folds of an *)
(* erased scope.                                                           *)
(***************************************************************************)
EXTENDS FoldCheckpoint, HttpGuard, DispatchFence, RecordAdmission, FiniteSetTheorems,
        WellFoundedInduction, TLAPS

(* ---- the HTTP guard ---- *)

\* The work of a request is on the row the request claimed, and says whether
\* the effects of its key happened.
JobInv ==
  \A q \in GuardRequests :
    /\ req[q] = GuardIdle => guardWork[q] = GuardNone
    /\ guardWork[q] # GuardNone =>
         LET j == guardWork[q] IN
         /\ j.at = Coord(j.at[2]) /\ guardRow[j.at] # GuardNone
         /\ j.state = "done" => runs[j.at[2]] = 1
         /\ j.state = "running" /\ j.at[2] \notin Staff => runs[j.at[2]] = 0

\* Two requests never work on one row.
OneJob ==
  \A p, q \in GuardRequests :
    /\ guardWork[p] # GuardNone /\ guardWork[q] # GuardNone
    /\ guardWork[p].at = guardWork[q].at
    => p = q

\* A request under way has its job, and its row is not recorded as failed.
LiveInv ==
  \A q \in GuardRequests : Live(q) =>
    /\ guardWork[q] # GuardNone /\ req[q].at = guardWork[q].at
    /\ guardRow[req[q].at].status \in {"processing", "applied"}
    /\ req[q].pc = "answered" /\ req[q].class = "success" => runs[req[q].at[2]] = 1

\* What the rows say of the effects of their key.
RowInv ==
  \A k \in GuardKeys :
    /\ guardRow[Coord(k)] = GuardNone /\ ~Excluded(k) => runs[k] = 0
    /\ guardRow[Coord(k)] # GuardNone => ~Excluded(k)
    /\ k \in Staff /\ guardRow[Coord(k)] # GuardNone /\ Coord(k) \notin guardReceipt => runs[k] = 0

\* A receipt stands beside a row that is applied.
ReceiptInv ==
  \A c \in guardReceipt : guardRow[c] # GuardNone /\ guardRow[c].status = "applied"

GuardInv ==
  /\ GuardTypeOK /\ RunOnce /\ AppliedHappened /\ ProcessingAccounted
  /\ JobInv /\ OneJob /\ LiveInv /\ RowInv /\ ReceiptInv

LEMMA CoordOf ==
  ASSUME NEW k \in GuardKeys
  PROVE  Coord(k) \in Coords /\ Coord(k)[2] = k
BY DEF Coord, Coords, Formats

LEMMA CoordDiffers ==
  ASSUME NEW j \in GuardKeys, NEW k \in GuardKeys, Coord(j) = Coord(k)
  PROVE  j = k
BY CoordOf

\* The rows an earlier build left are of the plain formats, never of the office's.
LEMMA OldRows ==
  ASSUME NEW k \in Staff
  PROVE  <<"plain", k>> # Coord(k) /\ <<"interim", k>> # Coord(k)
BY DEF Coord

LEMMA GuardStart == GuardInit => GuardInv
<1> SUFFICES ASSUME GuardInit PROVE GuardInv
  OBVIOUS
<1>1. PICK old \in [Staff -> Left] :
    /\ guardRow = [c \in Coords |->
         IF c[2] \in Staff /\ c[1] # "office" THEN old[c[2]][c[1]] ELSE GuardNone]
    /\ runs = [k \in GuardKeys |->
         IF k \in Staff /\ \E f \in {"plain", "interim"} : old[k][f] # GuardNone THEN 1 ELSE 0]
    /\ lost = {k \in Staff : \E f \in {"plain", "interim"} : old[k][f] # GuardNone}
  BY DEF GuardInit
<1>2. guardReceipt = {} /\ req = [q \in GuardRequests |-> GuardIdle]
      /\ guardWork = [q \in GuardRequests |-> GuardNone]
  BY DEF GuardInit
<1>3. \A f \in {"plain", "interim"}, k \in Staff : old[k][f] \in GuardRows \cup {GuardNone}
  BY <1>1 DEF Left, GuardRows, GuardStatuses
<1>4. guardRow \in [Coords -> GuardRows \cup {GuardNone}]
  BY <1>1, <1>3 DEF Coords, Formats
<1>5. GuardTypeOK
  BY <1>1, <1>2, <1>4, GuardAssumption DEF GuardTypeOK
<1>6. \A k \in GuardKeys : guardRow[Coord(k)] = GuardNone
  BY <1>1, CoordOf DEF Coord
<1>7. ASSUME NEW k \in GuardKeys, ~Excluded(k) PROVE runs[k] = 0
  <2>1. CASE k \in Staff
    <3>1. guardRow[<<"plain", k>>] = GuardNone /\ guardRow[<<"interim", k>>] = GuardNone
      BY <1>7, <2>1 DEF Excluded
    <3>2. old[k]["plain"] = GuardNone /\ old[k]["interim"] = GuardNone
      BY <1>1, <2>1, <3>1 DEF Coords, Formats
    <3> QED
      BY <1>1, <3>2
  <2>2. CASE k \notin Staff
    BY <1>1, <2>2
  <2> QED
    BY <2>1, <2>2
<1>8. RunOnce
  BY <1>1 DEF RunOnce
<1>9. JobInv /\ OneJob /\ LiveInv /\ ReceiptInv
  BY <1>2 DEF JobInv, OneJob, LiveInv, Live, GuardIdle, ReceiptInv
<1>10. RowInv /\ AppliedHappened /\ ProcessingAccounted
  BY <1>6, <1>7 DEF RowInv, AppliedHappened, ProcessingAccounted
<1> QED
  BY <1>5, <1>8, <1>9, <1>10 DEF GuardInv

\* Steps of the handler and of requests that end: no row changes.
LEMMA RequestStep ==
  ASSUME GuardInv, NEW q \in GuardRequests,
         \/ Refuse(q) \/ \E k \in GuardKeys, b \in Bodies : Conflict(q, k, b)
         \/ Effect(q) \/ HandlerRefuses(q) \/ RecordFails(q) \/ DropRequest(q)
         \/ \E class \in {"success", "client_error", "server_error"} : GuardAnswer(q, class)
  PROVE  GuardInv'
<1> USE DEF GuardInv, GuardTypeOK, RunOnce, AppliedHappened, ProcessingAccounted, JobInv, OneJob,
           LiveInv, RowInv, ReceiptInv, Live, Excluded
<1>0. GuardIdle.pc = "idle" /\ Gone.pc = "gone"
  BY DEF GuardIdle, Gone
<1>1. CASE Refuse(q) \/ \E k \in GuardKeys, b \in Bodies : Conflict(q, k, b)
  <2>1. /\ req' = [req EXCEPT ![q] = Gone] /\ req[q] = GuardIdle
        /\ UNCHANGED <<guardRow, guardReceipt, guardWork, runs, lost>>
    BY <1>1 DEF Refuse, Conflict
  <2> QED
    BY <1>0, <2>1
<1>2. CASE Effect(q)
  <2> DEFINE k == guardWork[q].at[2]
  <2>1. /\ guardWork[q] \in Jobs /\ guardWork[q] # GuardNone /\ guardWork[q].state = "running"
        /\ guardWork[q].at \in Coords /\ k \in GuardKeys /\ k \notin Staff
    BY <1>2 DEF Effect, Running, Jobs, Coords
  <2>a. runs[k] = 0 /\ runs' = [runs EXCEPT ![k] = runs[k] + 1]
    BY <1>2, <2>1 DEF Effect
  <2>2. runs[k] = 0 /\ runs' = [runs EXCEPT ![k] = 1] /\ runs' \in [GuardKeys -> Nat]
    BY <2>1, <2>a
  <2>3. /\ guardWork' = [guardWork EXCEPT ![q] = [@ EXCEPT !.state = "done"]]
        /\ UNCHANGED <<guardRow, guardReceipt, req, lost>>
    BY <1>2 DEF Effect
  <2>4. /\ guardWork'[q] \in Jobs /\ guardWork'[q] # GuardNone
        /\ guardWork'[q].at = guardWork[q].at /\ guardWork'[q].state = "done"
        /\ \A p \in GuardRequests : p # q => guardWork'[p] = guardWork[p]
        /\ guardWork' \in [GuardRequests -> Jobs \cup {GuardNone}]
    BY <2>1, <2>3, GuardNoneAssumption DEF Jobs
  <2>5. guardRow[Coord(k)] # GuardNone /\ guardWork[q].at = Coord(k)
    BY <2>1
  <2> HIDE DEF k
  <2>6. JobInv' /\ OneJob'
    BY <2>1, <2>2, <2>3, <2>4, <2>5, CoordOf DEF k, Coords, Jobs
  <2>7. LiveInv'
    BY <2>2, <2>3, <2>4, <2>5 DEF Coords, GuardServing
  <2>8. RunOnce' /\ AppliedHappened' /\ RowInv' /\ ProcessingAccounted' /\ ReceiptInv'
    BY <2>1, <2>2, <2>3, <2>5
  <2> QED
    BY <2>2, <2>3, <2>4, <2>6, <2>7, <2>8
<1>3. CASE HandlerRefuses(q)
  <2>1. guardWork[q] \in Jobs /\ guardWork[q] # GuardNone /\ guardWork[q].state = "running"
    BY <1>3 DEF HandlerRefuses, Running
  <2>2. /\ guardWork' = [guardWork EXCEPT ![q] = [@ EXCEPT !.state = "refused"]]
        /\ UNCHANGED <<guardRow, guardReceipt, req, runs, lost>>
    BY <1>3 DEF HandlerRefuses
  <2>3. /\ guardWork'[q] \in Jobs /\ guardWork'[q] # GuardNone
        /\ guardWork'[q].at = guardWork[q].at /\ guardWork'[q].state = "refused"
        /\ \A p \in GuardRequests : p # q => guardWork'[p] = guardWork[p]
        /\ guardWork' \in [GuardRequests -> Jobs \cup {GuardNone}]
    BY <2>1, <2>2, GuardNoneAssumption DEF Jobs
  <2>4. JobInv' /\ OneJob'
    BY <2>1, <2>2, <2>3, CoordOf
  <2>5. LiveInv'
    BY <2>1, <2>2, <2>3
  <2>6. RunOnce' /\ AppliedHappened' /\ RowInv' /\ ProcessingAccounted' /\ ReceiptInv'
    BY <2>2
  <2> QED
    BY <2>2, <2>3, <2>4, <2>5, <2>6
<1>4. CASE RecordFails(q) \/ DropRequest(q)
  <2>1. /\ req[q].pc \in {"answered", "handling"} /\ lost' = lost \cup {req[q].at[2]}
        /\ req' = [req EXCEPT ![q] = Gone]
        /\ UNCHANGED <<guardRow, guardReceipt, guardWork, runs>>
    BY <1>4, Zenon DEF RecordFails, DropRequest
  <2>2. req[q] \in GuardServing
    BY <1>0, <2>1
  <2>3. lost' \in SUBSET GuardKeys
    BY <2>1, <2>2 DEF GuardServing, Coords
  <2>4. JobInv' /\ OneJob'
    BY <1>0, <2>1
  <2>5. LiveInv'
    BY <1>0, <2>1
  <2>6. RunOnce' /\ AppliedHappened' /\ RowInv' /\ ReceiptInv'
    BY <2>1
  <2>7. ProcessingAccounted'
    <3> SUFFICES ASSUME NEW k \in GuardKeys, guardRow[Coord(k)] # GuardNone,
                        guardRow[Coord(k)].status = "processing", k \notin lost'
                 PROVE  \E p \in GuardRequests : Live(p)' /\ req'[p].at = Coord(k)
      BY <2>1
    <3>1. PICK p \in GuardRequests : Live(p) /\ req[p].at = Coord(k)
      BY <2>1
    <3>2. p # q
      BY <2>1, <3>1, CoordOf
    <3>3. req'[p] = req[p]
      BY <2>1, <3>2
    <3> QED
      BY <3>1, <3>3
  <2> QED
    BY <2>1, <2>3, <2>4, <2>5, <2>6, <2>7
<1>5. ASSUME NEW class \in {"success", "client_error", "server_error"}, GuardAnswer(q, class)
      PROVE  GuardInv'
  <2>1. /\ req[q] \in GuardServing /\ guardWork[q] \in Jobs /\ req[q].at = guardWork[q].at
        /\ class = "success" => runs[req[q].at[2]] = 1
    BY <1>0, <1>5 DEF GuardAnswer
  <2>2. /\ req' \in [GuardRequests -> {GuardIdle, Gone} \cup GuardServing]
        /\ req'[q].pc = "answered" /\ req'[q].at = req[q].at /\ req'[q].class = class
        /\ \A p \in GuardRequests : p # q => req'[p] = req[p]
    BY <1>5, <2>1 DEF GuardAnswer, GuardServing
  <2>3. UNCHANGED <<guardRow, guardReceipt, guardWork, runs, lost>> /\ req[q].pc = "handling"
    BY <1>5 DEF GuardAnswer
  <2>4. JobInv'
    BY <1>0, <2>2, <2>3
  <2>5. LiveInv' /\ ProcessingAccounted'
    BY <2>1, <2>2, <2>3
  <2> QED
    BY <2>2, <2>3, <2>4, <2>5
<1> QED
  BY <1>1, <1>2, <1>3, <1>4, <1>5

\* A claim: the row, the request and its job begin together, on a key whose
\* effects have not happened.
LEMMA ClaimStep ==
  ASSUME GuardInv, NEW q \in GuardRequests, NEW k \in GuardKeys, NEW b \in Bodies,
         Claim(q, k, b)
  PROVE  GuardInv'
<1> DEFINE c == Coord(k)
           r == [body |-> b, status |-> "processing"]
           v == [pc |-> "handling", at |-> c, body |-> b, class |-> "success"]
           j == [at |-> c, state |-> "running"]
<1>1. c \in Coords /\ c[2] = k
  BY CoordOf
<1>2. /\ r \in GuardRows /\ r # GuardNone /\ r.status = "processing"
      /\ v \in GuardServing /\ v.pc = "handling" /\ v.at = c
      /\ j \in Jobs /\ j # GuardNone /\ j.at = c /\ j.state = "running"
  BY <1>1, GuardNoneAssumption DEF GuardRows, GuardStatuses, GuardServing, Jobs
<1>3. /\ req[q] = GuardIdle /\ guardRow[c] = GuardNone /\ ~Excluded(k)
      /\ guardRow' = [guardRow EXCEPT ![c] = r] /\ req' = [req EXCEPT ![q] = v]
      /\ guardWork' = [guardWork EXCEPT ![q] = j]
      /\ UNCHANGED <<guardReceipt, runs, lost>>
  BY DEF Claim, Claimable
<1>4. \A i \in GuardKeys : i # k => Coord(i) # c
  BY CoordDiffers
<1>5. guardWork[q] = GuardNone /\ runs[k] = 0 /\ c \notin guardReceipt
  BY <1>3 DEF GuardInv, JobInv, RowInv, ReceiptInv
<1>6. c = Coord(c[2])
  BY <1>1
<1>7. \A i \in Staff : <<"plain", i>> # c /\ <<"interim", i>> # c
  BY OldRows DEF Coord
<1> HIDE DEF c, r, v, j
<1>8. GuardTypeOK'
  BY <1>1, <1>2, <1>3 DEF GuardInv, GuardTypeOK
<1>9. JobInv'
  BY <1>1, <1>2, <1>3, <1>5, <1>6 DEF GuardInv, GuardTypeOK, JobInv, GuardIdle
<1>10. OneJob'
  BY <1>2, <1>3, <1>5 DEF GuardInv, GuardTypeOK, JobInv, OneJob
<1>11. LiveInv'
  BY <1>1, <1>2, <1>3 DEF GuardInv, GuardTypeOK, LiveInv, Live, JobInv, GuardIdle
<1>12. \A i \in GuardKeys : Excluded(i)' <=> Excluded(i)
  BY <1>3, <1>7, <1>1 DEF Excluded, GuardInv, GuardTypeOK
<1>13. RowInv'
  BY <1>1, <1>2, <1>3, <1>4, <1>5, <1>12, CoordOf DEF GuardInv, GuardTypeOK, RowInv, c
<1>14. ReceiptInv' /\ RunOnce'
  BY <1>1, <1>2, <1>3, <1>5 DEF GuardInv, GuardTypeOK, ReceiptInv, RunOnce
<1>15. AppliedHappened' /\ ProcessingAccounted'
  BY <1>1, <1>2, <1>3, <1>4, CoordOf
     DEF GuardInv, GuardTypeOK, AppliedHappened, ProcessingAccounted, Live, GuardIdle, c
<1> QED
  BY <1>8, <1>9, <1>10, <1>11, <1>13, <1>14, <1>15 DEF GuardInv

\* An office handler commits: the row still waits, so the key has no effect yet.
LEMMA CommitClaimedStep ==
  ASSUME GuardInv, NEW q \in GuardRequests, GuardCommitClaimed(q)
  PROVE  /\ GuardInv'
         /\ \A c \in Coords : guardRow[c] # GuardNone /\ guardRow[c].status # "processing"
              => guardRow'[c] = guardRow[c]
<1> DEFINE c == guardWork[q].at
           k == c[2]
           r == [guardRow[c] EXCEPT !.status = "applied"]
           j == [guardWork[q] EXCEPT !.state = "done"]
<1>1. guardWork[q] \in Jobs /\ guardWork[q] # GuardNone /\ c \in Coords /\ k \in GuardKeys
  BY DEF GuardCommitClaimed, GuardInv, GuardTypeOK, Jobs, Coords
<1>2. /\ c = Coord(k) /\ k \in Staff /\ guardRow[c] # GuardNone /\ guardRow[c] \in GuardRows
      /\ guardRow[c].status = "processing" /\ c \notin guardReceipt
  BY <1>1 DEF GuardCommitClaimed, VerifyPending, GuardInv, GuardTypeOK, JobInv
<1>3. /\ r \in GuardRows /\ r # GuardNone /\ r.status = "applied"
      /\ j \in Jobs /\ j # GuardNone /\ j.at = c /\ j.state = "done"
  BY <1>1, <1>2, GuardNoneAssumption DEF GuardRows, GuardStatuses, Jobs
<1>4. runs[k] = 0
  BY <1>1, <1>2 DEF GuardInv, RowInv
<1>5. /\ guardReceipt' = guardReceipt \cup {c} /\ guardRow' = [guardRow EXCEPT ![c] = r]
      /\ runs' = [runs EXCEPT ![k] = runs[k] + 1] /\ guardWork' = [guardWork EXCEPT ![q] = j]
      /\ UNCHANGED <<req, lost>>
  BY DEF GuardCommitClaimed
<1>6. runs' = [runs EXCEPT ![k] = 1] /\ runs' \in [GuardKeys -> Nat]
  BY <1>1, <1>4, <1>5 DEF GuardInv, GuardTypeOK
<1>7. \A i \in GuardKeys : i # k => Coord(i) # c
  BY <1>1, <1>2, CoordDiffers
<1>8. \A i \in Staff : <<"plain", i>> # c /\ <<"interim", i>> # c
  BY <1>1, <1>2, OldRows DEF Coord
<1> HIDE DEF c, k, r, j
<1>9. GuardTypeOK'
  BY <1>1, <1>3, <1>5, <1>6 DEF GuardInv, GuardTypeOK
<1>10. \A p \in GuardRequests : guardWork[p] # GuardNone /\ guardWork[p].at = c => p = q
  BY <1>1 DEF GuardInv, OneJob, c
<1>11. JobInv'
  <2> SUFFICES ASSUME NEW p \in GuardRequests PROVE JobInv!(p)'
    BY DEF JobInv
  <2> QED
    BY <1>1, <1>2, <1>3, <1>5, <1>6, <1>10 DEF GuardInv, GuardTypeOK, JobInv, Jobs, Coords, k
<1>12. OneJob'
  BY <1>1, <1>3, <1>5, <1>10 DEF GuardInv, GuardTypeOK, OneJob
<1>13. LiveInv'
  BY <1>1, <1>2, <1>3, <1>5, <1>6, <1>10
     DEF GuardInv, GuardTypeOK, LiveInv, Live, Jobs, Coords, k, c
<1>14. \A i \in GuardKeys : Excluded(i)' <=> Excluded(i)
  BY <1>1, <1>5, <1>8 DEF Excluded, GuardInv, GuardTypeOK
<1>15. RowInv'
  BY <1>1, <1>2, <1>3, <1>5, <1>6, <1>7, <1>14, CoordOf DEF GuardInv, GuardTypeOK, RowInv
<1>16. ReceiptInv' /\ RunOnce'
  BY <1>1, <1>3, <1>5, <1>6 DEF GuardInv, GuardTypeOK, ReceiptInv, RunOnce
<1>17. AppliedHappened' /\ ProcessingAccounted'
  BY <1>1, <1>2, <1>3, <1>5, <1>6, <1>7, CoordOf
     DEF GuardInv, GuardTypeOK, AppliedHappened, ProcessingAccounted, Live
<1>18. \A d \in Coords : guardRow[d] # GuardNone /\ guardRow[d].status # "processing"
         => guardRow'[d] = guardRow[d]
  BY <1>1, <1>2, <1>5 DEF GuardInv, GuardTypeOK
<1> QED
  BY <1>9, <1>11, <1>12, <1>13, <1>15, <1>16, <1>17, <1>18 DEF GuardInv

\* The guard writes the class of the answer, or leaves a row that is settled.
LEMMA RecordOutcomeStep ==
  ASSUME GuardInv, NEW q \in GuardRequests, GuardRecord(q)
  PROVE  /\ GuardInv'
         /\ \A c \in Coords : guardRow[c] # GuardNone /\ guardRow[c].status # "processing"
              => guardRow'[c] = guardRow[c]
<1> DEFINE c == req[q].at
           k == c[2]
           s == CommandStatus(req[q].class)
           r == [guardRow[c] EXCEPT !.status = s]
<1>0. GuardIdle.pc = "idle" /\ Gone.pc = "gone"
  BY DEF GuardIdle, Gone
<1>1. /\ req[q] \in GuardServing /\ c \in Coords /\ k \in GuardKeys /\ req[q].pc = "answered"
      /\ s \in {"applied", "rejected", "expired"}
      /\ (s = "applied" <=> req[q].class = "success")
  BY <1>0 DEF GuardRecord, GuardInv, GuardTypeOK, GuardServing, Coords, CommandStatus
<1>2. /\ guardWork[q] # GuardNone /\ guardWork[q].at = c
      /\ c = Coord(k) /\ guardRow[c] # GuardNone /\ guardRow[c] \in GuardRows
      /\ guardRow[c].status \in {"processing", "applied"}
      /\ s = "applied" => runs[k] = 1
  BY <1>1 DEF GuardInv, GuardTypeOK, LiveInv, Live, JobInv
<1>3. \/ guardRow' = [guardRow EXCEPT ![c] = r]
         /\ (s = "applied" \/ (guardRow[c].status = "processing" /\ c \notin guardReceipt))
      \/ guardRow' = guardRow /\ s # "applied"
         /\ (guardRow[c].status # "processing" \/ c \in guardReceipt)
  <2>1. guardRow' = IF Recorded(c, s) THEN [guardRow EXCEPT ![c] = r] ELSE guardRow
    BY DEF GuardRecord
  <2> HIDE DEF c, s, r
  <2> QED
    BY <2>1 DEF Recorded
<1>4. req' = [req EXCEPT ![q] = Gone] /\ UNCHANGED <<guardReceipt, guardWork, runs, lost>>
  BY DEF GuardRecord
<1>5. /\ r \in GuardRows /\ r # GuardNone /\ r.status = s
      /\ guardRow[c].status = s => r = guardRow[c]
  <2>1. r \in GuardRows /\ r.status = s /\ r.body = guardRow[c].body
    BY <1>1, <1>2 DEF GuardRows, GuardStatuses
  <2> HIDE DEF r, s
  <2>2. guardRow[c].status = s => r = guardRow[c]
    BY <1>2, <2>1 DEF GuardRows
  <2> QED
    BY <2>1, <2>2, GuardNoneAssumption
<1>6. \A i \in GuardKeys : i # k => Coord(i) # c
  BY <1>1, <1>2, CoordDiffers
<1>7. \A p \in GuardRequests : guardWork[p] # GuardNone /\ guardWork[p].at = c => p = q
  BY <1>2 DEF GuardInv, OneJob
<1>8. \A i \in Staff : <<"plain", i>> # c /\ <<"interim", i>> # c
  BY <1>1, <1>2, OldRows DEF Coord
<1> HIDE DEF c, k, s, r
<1>9. /\ guardRow' \in [Coords -> GuardRows \cup {GuardNone}]
      /\ \A d \in Coords : d # c => guardRow'[d] = guardRow[d]
      /\ guardRow'[c] \in {guardRow[c], r} /\ guardRow'[c] # GuardNone
      /\ guardRow'[c].status # "processing"
  <2>1. CASE guardRow' = [guardRow EXCEPT ![c] = r]
    BY <1>1, <1>2, <1>5, <2>1 DEF GuardInv, GuardTypeOK
  <2>2. CASE guardRow' = guardRow /\ (guardRow[c].status # "processing" \/ c \in guardReceipt)
    BY <1>1, <1>2, <2>2 DEF GuardInv, GuardTypeOK, ReceiptInv
  <2> QED
    BY <1>3, <2>1, <2>2
<1>10. GuardTypeOK'
  BY <1>4, <1>9 DEF GuardInv, GuardTypeOK
<1>11. JobInv' /\ OneJob'
  BY <1>0, <1>4, <1>9 DEF GuardInv, GuardTypeOK, JobInv, OneJob, Jobs
<1>12. LiveInv'
  BY <1>0, <1>2, <1>4, <1>7, <1>9 DEF GuardInv, GuardTypeOK, LiveInv, Live, Jobs
<1>13. \A i \in GuardKeys : Excluded(i)' <=> Excluded(i)
  BY <1>1, <1>8, <1>9 DEF Excluded, GuardInv, GuardTypeOK, Coords, Formats
<1>14. RowInv'
  BY <1>2, <1>4, <1>6, <1>9, <1>13, CoordOf DEF GuardInv, RowInv
<1>15. ReceiptInv' /\ RunOnce'
  BY <1>3, <1>4, <1>5, <1>9 DEF GuardInv, GuardTypeOK, ReceiptInv, RunOnce
<1>16. AppliedHappened'
  BY <1>1, <1>2, <1>3, <1>4, <1>5, <1>6, <1>9, CoordOf DEF GuardInv, AppliedHappened
<1>17. ProcessingAccounted'
  BY <1>0, <1>2, <1>4, <1>6, <1>9, CoordOf DEF GuardInv, GuardTypeOK, ProcessingAccounted, Live, c
<1>18. \A d \in Coords : guardRow[d] # GuardNone /\ guardRow[d].status # "processing"
         => guardRow'[d] = guardRow[d]
  BY <1>2, <1>3, <1>5, <1>9
<1> QED
  BY <1>10, <1>11, <1>12, <1>14, <1>15, <1>16, <1>17, <1>18 DEF GuardInv

\* A crash ends every request and every job, and leaves their keys accounted for.
LEMMA GuardCrashStep ==
  ASSUME GuardInv, GuardCrash
  PROVE  GuardInv'
<1>0. GuardIdle.pc = "idle" /\ Gone.pc = "gone"
  BY DEF GuardIdle, Gone
<1>1. /\ lost' = lost \cup {req[q].at[2] : q \in {p \in GuardRequests : Live(p)}}
      /\ req' = [q \in GuardRequests |-> IF Live(q) THEN Gone ELSE req[q]]
      /\ guardWork' = [q \in GuardRequests |-> GuardNone]
      /\ UNCHANGED <<guardRow, guardReceipt, runs>>
  BY DEF GuardCrash
<1>2. \A q \in GuardRequests : Live(q) => req[q].at[2] \in GuardKeys
  BY <1>0 DEF GuardInv, GuardTypeOK, Live, GuardServing, Coords
<1>3. GuardTypeOK'
  BY <1>1, <1>2 DEF GuardInv, GuardTypeOK
<1>4. JobInv' /\ OneJob'
  BY <1>1 DEF JobInv, OneJob
<1>5. \A q \in GuardRequests : ~Live(q)'
  BY <1>0, <1>1 DEF Live
<1>6. ProcessingAccounted'
  BY <1>1, <1>2, CoordOf DEF GuardInv, ProcessingAccounted
<1> QED
  BY <1>1, <1>3, <1>4, <1>5, <1>6
     DEF GuardInv, LiveInv, RowInv, ReceiptInv, RunOnce, AppliedHappened, Excluded

LEMMA GuardStep ==
  GuardInv /\ [GuardNext]_guardVars =>
    /\ GuardInv'
    /\ \A c \in Coords : guardRow[c] # GuardNone /\ guardRow[c].status # "processing"
         => guardRow'[c] = guardRow[c]
<1> SUFFICES ASSUME GuardInv, [GuardNext]_guardVars
             PROVE  /\ GuardInv'
                    /\ \A c \in Coords : guardRow[c] # GuardNone /\ guardRow[c].status # "processing"
                         => guardRow'[c] = guardRow[c]
  OBVIOUS
<1>1. CASE UNCHANGED guardVars
  BY <1>1 DEF guardVars, GuardInv, GuardTypeOK, RunOnce, AppliedHappened, ProcessingAccounted,
             JobInv, OneJob, LiveInv, RowInv, ReceiptInv, Live, Excluded
<1>2. ASSUME NEW q \in GuardRequests,
             \/ Refuse(q) \/ \E k \in GuardKeys, b \in Bodies : Conflict(q, k, b)
             \/ Effect(q) \/ HandlerRefuses(q) \/ RecordFails(q) \/ DropRequest(q)
             \/ \E class \in {"success", "client_error", "server_error"} : GuardAnswer(q, class)
      PROVE  guardRow' = guardRow /\ GuardInv'
  BY <1>2, RequestStep DEF Refuse, Conflict, Effect, HandlerRefuses, RecordFails, DropRequest,
                           GuardAnswer
<1>3. ASSUME NEW q \in GuardRequests, NEW k \in GuardKeys, NEW b \in Bodies, Claim(q, k, b)
      PROVE  /\ GuardInv'
             /\ \A c \in Coords : guardRow[c] # GuardNone => guardRow'[c] = guardRow[c]
  BY <1>3, ClaimStep DEF Claim, Claimable, GuardInv, GuardTypeOK
<1>4. CASE GuardCrash
  BY <1>4, GuardCrashStep DEF GuardCrash
<1>5. CASE \E q \in GuardRequests : GuardCommitClaimed(q) \/ GuardRecord(q)
  BY <1>5, CommitClaimedStep, RecordOutcomeStep
<1>6. CASE \E q \in GuardRequests :
             \/ Refuse(q) \/ \E k \in GuardKeys, b \in Bodies : Conflict(q, k, b)
             \/ Effect(q) \/ HandlerRefuses(q) \/ RecordFails(q) \/ DropRequest(q)
             \/ \E class \in {"success", "client_error", "server_error"} : GuardAnswer(q, class)
  BY <1>2, <1>6
<1>7. CASE \E q \in GuardRequests, k \in GuardKeys, b \in Bodies : Claim(q, k, b)
  BY <1>3, <1>7
<1> QED
  BY <1>1, <1>4, <1>5, <1>6, <1>7 DEF GuardNext

(***************************************************************************)
(* "Run a key once" (command_idempotency.rs:6) for any number of requests, *)
(* keys and bodies, however often one is dropped or the process dies while *)
(* a handler works, and whatever rows an earlier build left.               *)
(***************************************************************************)
THEOREM KeyRunsOnce == GuardSpec => []RunOnce
<1>1. GuardInv => RunOnce
  BY DEF GuardInv
<1>2. GuardInv /\ [GuardNext]_guardVars => GuardInv'
  BY GuardStep
<1> QED
  BY <1>1, <1>2, GuardStart, PTL DEF GuardSpec

(***************************************************************************)
(* The guard's row is true and final: a recorded failure has no receipt,   *)
(* `applied` means the effects happened, a row left `processing` is of a   *)
(* request under way or of one that was cut off, and no outcome once       *)
(* recorded is ever replaced (set_command_status,                          *)
(* set_unreceipted_command_failure, verify_pending).                       *)
(***************************************************************************)
THEOREM OutcomeTold == GuardSpec => OutcomesTrue
<1> DEFINE P == GuardTypeOK /\ FailureHasNoReceipt /\ AppliedHappened /\ ProcessingAccounted
           A == \A c \in Coords :
                  (guardRow[c] # GuardNone /\ guardRow[c].status # "processing") =>
                    guardRow'[c] = guardRow[c]
<1>1. GuardInv => P
  BY DEF GuardInv, ReceiptInv, FailureHasNoReceipt
<1>2. GuardInv /\ [GuardNext]_guardVars => GuardInv'
  BY GuardStep
<1>3. GuardInv /\ [GuardNext]_guardVars => [A]_guardVars
  BY GuardStep
<1>4. GuardSpec => []P /\ [][A]_guardVars
  <2> HIDE DEF P, A
  <2> QED
    BY <1>1, <1>2, <1>3, GuardStart, PTL DEF GuardSpec
<1> QED
  BY <1>4 DEF OutcomesTrue, OutcomeStays

(* ---- dispatch behind its fence: authority ---- *)

\* What a thread holds of the authority it captured: the head it saw is not
\* ahead, while it is the head the authority grants, and a handle keeps it so.
BasisInv ==
  \A t \in Threads : th[t] # FenceIdle =>
    /\ th[t].head <= head
    /\ th[t].head = head => granted
    /\ th[t].pc = "held" => writer = t /\ th[t].head = head
    /\ th[t].pc = "reading" /\ th[t].head = head => th[t].saw
    /\ th[t].refused => th[t].ended

FenceInv == WorkAuthorized /\ BasisInv

LEMMA AppendEntries ==
  ASSUME NEW s \in Seq(FenceEntries), NEW e \in FenceEntries
  PROVE  /\ Append(s, e) \in Seq(FenceEntries) /\ Len(Append(s, e)) = Len(s) + 1
         /\ Append(s, e)[Len(s) + 1] = e
         /\ \A i \in 1..Len(s) : Append(s, e)[i] = s[i]
OBVIOUS

LEMMA ConcatEntries ==
  ASSUME NEW s \in Seq(FenceEntries), NEW a \in FenceEntries, NEW b \in FenceEntries,
         NEW c \in FenceEntries
  PROVE  /\ s \o <<a, b>> = Append(Append(s, a), b)
         /\ s \o <<a, b, c>> = Append(Append(Append(s, a), b), c)
OBVIOUS

\* Entries that are all granted and not refused, with one more.
Clean(s) == \A i \in 1..Len(s) : s[i].granted /\ ~s[i].refused

LEMMA CleanAppend ==
  ASSUME NEW s \in Seq(FenceEntries), NEW e \in FenceEntries, Clean(s), e.granted, ~e.refused
  PROVE  Append(s, e) \in Seq(FenceEntries) /\ Clean(Append(s, e))
BY AppendEntries DEF Clean

LEMMA CleanConcat ==
  ASSUME NEW s \in Seq(FenceEntries), Clean(s),
         NEW a \in FenceEntries, a.granted, ~a.refused,
         NEW b \in FenceEntries, b.granted, ~b.refused,
         NEW c \in FenceEntries, c.granted, ~c.refused
  PROVE  /\ s \o <<a, b>> \in Seq(FenceEntries) /\ Clean(s \o <<a, b>>)
         /\ s \o <<a, b, c>> \in Seq(FenceEntries) /\ Clean(s \o <<a, b, c>>)
<1>1. Append(s, a) \in Seq(FenceEntries) /\ Clean(Append(s, a))
  BY CleanAppend
<1>2. Append(Append(s, a), b) \in Seq(FenceEntries) /\ Clean(Append(Append(s, a), b))
  BY <1>1, CleanAppend
<1>3. /\ Append(Append(Append(s, a), b), c) \in Seq(FenceEntries)
      /\ Clean(Append(Append(Append(s, a), b), c))
  BY <1>2, CleanAppend
<1>4. s \o <<a, b>> = Append(Append(s, a), b)
  BY ConcatEntries
<1>5. s \o <<a, b, c>> = Append(Append(Append(s, a), b), c)
  BY ConcatEntries
<1> QED
  BY <1>2, <1>3, <1>4, <1>5, Zenon

LEMMA LinksAppend ==
  ASSUME NEW S, NEW s \in Seq(S), NEW e \in S
  PROVE  Append(s, e) \in Seq(S)
OBVIOUS

LEMMA FenceStart == FenceInit => FenceInv
<1> SUFFICES ASSUME FenceInit PROVE FenceInv
  OBVIOUS
<1>1. FenceTypeOK
  BY DEF FenceInit, FenceTypeOK
<1>2. BasisInv
  BY DEF FenceInit, BasisInv
<1> QED
  BY <1>1, <1>2 DEF FenceInit, FenceInv, WorkAuthorized, Authorized, RefusalEnds, ConfirmedReads

\* A thread's record after one of its fields changed.
LEMMA ServingType ==
  ASSUME FenceTypeOK, NEW t \in Threads, th[t].pc # "idle"
  PROVE  th[t] \in FenceServing /\ th[t] # FenceIdle
BY DEF FenceTypeOK, FenceIdle

\* Under a handle that passes its check the authority grants, and the handle
\* was never refused.
LEMMA HandleGrants ==
  ASSUME FenceInv, NEW t \in Threads, Held(t), CheckLatched(t)
  PROVE  /\ th[t] \in FenceServing /\ th[t] # FenceIdle /\ granted = TRUE
         /\ th[t].refused = FALSE /\ th[t].key \in FenceKeys
         /\ \A w \in Phases \cup {"first", "second", "marker", "intent", "other"} :
              /\ Entry(t, w) \in FenceEntries /\ Entry(t, w).granted /\ ~Entry(t, w).refused
              /\ Entry(t, w).key = th[t].key /\ Entry(t, w).what = w
<1>1. th[t] \in FenceServing /\ th[t] # FenceIdle
  BY ServingType DEF Held, FenceInv, WorkAuthorized
<1>2. granted = TRUE /\ th[t].refused = FALSE /\ th[t].key \in FenceKeys
  BY <1>1 DEF FenceInv, WorkAuthorized, FenceTypeOK, BasisInv, Held, CheckLatched, FenceServing
<1> QED
  BY <1>1, <1>2 DEF Entry, FenceEntries

\* The handle is closed: the thread is idle and the lock is free.
LEMMA ReleaseBasis ==
  ASSUME FenceTypeOK, BasisInv, NEW t \in Threads, Held(t), Release(t), UNCHANGED authority
  PROVE  /\ BasisInv' /\ th' \in [Threads -> {FenceIdle} \cup FenceServing]
         /\ writer' \in Threads \cup {FenceNone}
<1>1. th' = [th EXCEPT ![t] = FenceIdle] /\ writer' = FenceNone
  BY DEF Release
<1> QED
  BY <1>1 DEF FenceTypeOK, BasisInv, authority, Held

\* The transactions of a handle.
LEMMA HandleStep ==
  ASSUME FenceInv, NEW t \in Threads,
         \/ CommitPair(t) \/ CommitDispatch(t) \/ Drop(t) \/ \E p \in Phases : CommitPhase(t, p)
  PROVE  FenceInv'
<1>1. Held(t) /\ Release(t) /\ UNCHANGED authority /\ Quiet
  BY DEF CommitPair, CommitDispatch, Drop, CommitPhase, Quiet
<1>2. BasisInv' /\ th' \in [Threads -> {FenceIdle} \cup FenceServing]
      /\ writer' \in Threads \cup {FenceNone}
  BY <1>1, ReleaseBasis DEF FenceInv, WorkAuthorized
<1>3. Clean(fenceWork) /\ fenceWork \in Seq(FenceEntries)
  BY DEF FenceInv, WorkAuthorized, Authorized, RefusalEnds, Clean, FenceTypeOK
<1> DEFINE k == th[t].key
           n == Len(fenceWork)
<1>4. n \in Nat /\ n + 1 \in Nat /\ n + 3 \in Nat
  BY <1>3
<1>5. CASE CommitPair(t)
  <2>1. CheckLatched(t)
    BY <1>5 DEF CommitPair
  <2>2. fenceWork' = fenceWork \/
        fenceWork' = fenceWork \o <<Entry(t, "first"), Entry(t, "second"), Entry(t, "marker")>>
    BY <1>5 DEF CommitPair
  <2>a. \A w \in Phases \cup {"first", "second", "marker", "intent", "other"} :
          Entry(t, w) \in FenceEntries /\ Entry(t, w).granted /\ ~Entry(t, w).refused
    BY <1>1, <2>1, HandleGrants
  <2>3. Clean(fenceWork') /\ fenceWork' \in Seq(FenceEntries)
    BY <1>3, <2>2, <2>a, CleanConcat
  <2>4. k \in FenceKeys
    BY <1>1, <2>1, HandleGrants
  <2>5. /\ fenceReceipt' \in [FenceKeys -> Nat \cup {FenceNone}]
        /\ pair' \in [FenceKeys -> Nat \cup {FenceNone}]
    <3>1. /\ fenceReceipt' \in {fenceReceipt, [fenceReceipt EXCEPT ![k] = n + 1]}
          /\ pair' \in {pair, [pair EXCEPT ![k] = n + 3]}
      BY <1>5 DEF CommitPair
    <3>2. /\ fenceReceipt \in [FenceKeys -> Nat \cup {FenceNone}]
          /\ pair \in [FenceKeys -> Nat \cup {FenceNone}]
      BY DEF FenceInv, WorkAuthorized, FenceTypeOK
    <3> HIDE DEF k, n
    <3> QED
      BY <1>4, <2>4, <3>1, <3>2
  <2>6. fenceRow' \in [FenceKeys -> FenceRows \cup {FenceNone}]
    <3>1. fenceRow[k] \in FenceRows
      BY <1>5, <2>4 DEF CommitPair, PendingCommandMatches, FenceRows, FenceInv, WorkAuthorized,
                        FenceTypeOK
    <3>2. fenceRow' = [fenceRow EXCEPT ![k] = [fenceRow[k] EXCEPT !.status = "applied"]]
      BY <1>5 DEF CommitPair
    <3> QED
      BY <2>4, <3>1, <3>2 DEF FenceRows, FenceInv, WorkAuthorized, FenceTypeOK
  <2>7. UNCHANGED <<links, phase, head, granted, standing, flips, now, native, reads, delivered>>
    BY <1>5 DEF CommitPair, Quiet, authority
  <2> QED
    BY <1>2, <2>3, <2>5, <2>6, <2>7
       DEF FenceInv, WorkAuthorized, FenceTypeOK, Authorized, RefusalEnds, ConfirmedReads, Clean
<1>6. CASE CommitDispatch(t)
  <2>1. CheckLatched(t)
    BY <1>6 DEF CommitDispatch
  <2>2. fenceWork' = fenceWork \/
        fenceWork' = fenceWork \o <<Entry(t, "first"), Entry(t, "intent")>>
    BY <1>6 DEF CommitDispatch
  <2>a. \A w \in Phases \cup {"first", "second", "marker", "intent", "other"} :
          Entry(t, w) \in FenceEntries /\ Entry(t, w).granted /\ ~Entry(t, w).refused
    BY <1>1, <2>1, HandleGrants
  <2>3. Clean(fenceWork') /\ fenceWork' \in Seq(FenceEntries)
    BY <1>3, <2>2, <2>a, CleanConcat
  <2>4. k \in FenceKeys
    BY <1>1, <2>1, HandleGrants
  <2>5. /\ fenceReceipt' \in [FenceKeys -> Nat \cup {FenceNone}]
        /\ fenceRow' \in [FenceKeys -> FenceRows \cup {FenceNone}]
    <3> DEFINE r == [path |-> "dispatch", status |-> "applied"]
    <3>1. r \in FenceRows
      BY DEF FenceRows
    <3>2. /\ fenceReceipt' \in {fenceReceipt, [fenceReceipt EXCEPT ![k] = n + 1]}
          /\ fenceRow' \in {fenceRow, [fenceRow EXCEPT ![k] = r]}
      BY <1>6 DEF CommitDispatch
    <3> HIDE DEF r, k, n
    <3> QED
      BY <1>4, <2>4, <3>1, <3>2 DEF FenceInv, WorkAuthorized, FenceTypeOK
  <2>6. UNCHANGED <<links, phase, pair, head, granted, standing, flips, now, native, reads,
                    delivered>>
    BY <1>6 DEF CommitDispatch, Quiet, authority
  <2> QED
    BY <1>2, <2>3, <2>5, <2>6
       DEF FenceInv, WorkAuthorized, FenceTypeOK, Authorized, RefusalEnds, ConfirmedReads, Clean
<1>7. CASE Drop(t)
  BY <1>2, <1>7 DEF Drop, Quiet, authority, fenceTables, FenceInv, WorkAuthorized, FenceTypeOK,
                    Authorized, RefusalEnds, ConfirmedReads
<1>8. ASSUME NEW p \in Phases, CommitPhase(t, p) PROVE FenceInv'
  <2>1. CheckLatched(t)
    BY <1>8 DEF CommitPhase
  <2>2. fenceWork' = fenceWork \/ fenceWork' = Append(fenceWork, Entry(t, p))
    BY <1>8 DEF CommitPhase
  <2>a. \A w \in Phases \cup {"first", "second", "marker", "intent", "other"} :
          Entry(t, w) \in FenceEntries /\ Entry(t, w).granted /\ ~Entry(t, w).refused
    BY <1>1, <2>1, HandleGrants
  <2>3. Clean(fenceWork') /\ fenceWork' \in Seq(FenceEntries)
    BY <1>3, <2>2, <2>a, CleanAppend
  <2>4. k \in FenceKeys
    BY <1>1, <2>1, HandleGrants
  <2>5. links' \in Seq([key : FenceKeys, user : Nat])
    <3>1. [key |-> k, user |-> n + 1] \in [key : FenceKeys, user : Nat]
      BY <1>4, <2>4
    <3>2. links' \in {links, Append(links, [key |-> k, user |-> n + 1])}
      BY <1>8 DEF CommitPhase
    <3> HIDE DEF k, n
    <3>3. links \in Seq([key : FenceKeys, user : Nat])
      BY DEF FenceInv, WorkAuthorized, FenceTypeOK
    <3>4. Append(links, [key |-> k, user |-> n + 1]) \in Seq([key : FenceKeys, user : Nat])
      BY <3>1, <3>3, LinksAppend
    <3> QED
      BY <3>2, <3>3, <3>4
  <2>6. phase' \in [FenceKeys -> [Phases -> Nat \cup {FenceNone}]]
    <3>1. phase' \in {phase, [phase EXCEPT ![k] = [@ EXCEPT ![p] = n + 1]]}
      BY <1>8 DEF CommitPhase
    <3> HIDE DEF k, n
    <3>2. [phase[k] EXCEPT ![p] = n + 1] \in [Phases -> Nat \cup {FenceNone}]
      BY <1>4, <2>4 DEF FenceInv, WorkAuthorized, FenceTypeOK
    <3> QED
      BY <2>4, <3>1, <3>2 DEF FenceInv, WorkAuthorized, FenceTypeOK
  <2>7. UNCHANGED <<fenceRow, fenceReceipt, pair, head, granted, standing, flips, now, native,
                    reads, delivered>>
    BY <1>8 DEF CommitPhase, Quiet, authority
  <2> QED
    BY <1>2, <2>3, <2>5, <2>6, <2>7
       DEF FenceInv, WorkAuthorized, FenceTypeOK, Authorized, RefusalEnds, ConfirmedReads, Clean
<1> QED
  BY <1>5, <1>6, <1>7, <1>8

\* A thread's other steps.
LEMMA ThreadStep ==
  ASSUME FenceInv, NEW t \in Threads,
         \/ ClaimCommandAgainst(t) \/ OpenWriter(t) \/ RequirePending(t) \/ NativeEffect(t)
         \/ GiveUp(t) \/ NativeRead(t) \/ ConfirmDispatchBasis(t)
         \/ \E k \in FenceKeys : ReadForDispatch(t, k)
  PROVE  FenceInv'
<1> USE DEF FenceInv, WorkAuthorized, FenceTypeOK, Authorized, RefusalEnds, ConfirmedReads,
           BasisInv
<1>0. FenceIdle.pc = "idle"
  BY DEF FenceIdle
<1>1. CASE ClaimCommandAgainst(t)
  <2>1. th[t] \in FenceServing
    BY <1>0, <1>1 DEF ClaimCommandAgainst
  <2>2. fenceRow' \in [FenceKeys -> FenceRows \cup {FenceNone}]
    BY <1>1, <2>1 DEF ClaimCommandAgainst, ClaimedRow, FenceRows, FenceServing
  <2> QED
    BY <1>1, <2>2 DEF ClaimCommandAgainst, Quiet, authority
<1>2. CASE OpenWriter(t)
  <2>1. th[t] \in FenceServing
    BY <1>0, <1>2 DEF OpenWriter
  <2>2. CASE writer' = t /\ th' = [th EXCEPT ![t].pc = "held"] /\ CheckDispatchBasis(t)
    <3>1. /\ th' \in [Threads -> {FenceIdle} \cup FenceServing]
          /\ \A u \in Threads : u # t => th'[u] = th[u]
          /\ th'[t].head = th[t].head /\ th'[t].pc = "held"
          /\ th'[t].refused = th[t].refused /\ th'[t].ended = th[t].ended
      BY <2>1, <2>2 DEF FenceServing
    <3>2. th[t].head = head /\ writer = FenceNone /\ th[t] # FenceIdle
      BY <1>0, <1>2, <2>2 DEF OpenWriter, CheckDispatchBasis
    <3>3. BasisInv'
      BY <1>2, <2>2, <3>1, <3>2, FenceNoneAssumption DEF OpenWriter, Quiet, authority
    <3> QED
      BY <1>2, <2>2, <3>1, <3>3 DEF OpenWriter, Quiet, authority, fenceTables
  <2>3. CASE th' = [th EXCEPT ![t] = FenceIdle] /\ UNCHANGED writer
    BY <1>2, <2>3 DEF OpenWriter, Quiet, authority, fenceTables
  <2> QED
    BY <1>2, <2>2, <2>3 DEF OpenWriter
<1>3. CASE RequirePending(t)
  <2>1. th[t] \in FenceServing
    BY <1>0, <1>3 DEF RequirePending, Held
  <2>2. /\ th' \in [Threads -> {FenceIdle} \cup FenceServing]
        /\ \A u \in Threads : u # t => th'[u] = th[u]
        /\ th'[t].head = th[t].head /\ th'[t].pc = th[t].pc /\ th'[t].ended
        /\ th'[t].saw = th[t].saw /\ th[t] # FenceIdle
    BY <1>0, <1>3, <2>1 DEF RequirePending, Latch, FenceServing, Held
  <2>3. UNCHANGED <<head, granted, standing, flips, now, native, reads, delivered, writer,
                    fenceWork, links, fenceRow, fenceReceipt, phase, pair>>
    BY <1>3 DEF RequirePending, Quiet, authority, fenceTables
  <2>4. BasisInv'
    BY <1>0, <1>3, <2>2, <2>3
  <2> QED
    BY <2>2, <2>3, <2>4
<1>4. CASE NativeEffect(t)
  <2> DEFINE e == [key |-> th[t].key, granted |-> granted, refused |-> th[t].refused]
  <2>1. /\ e \in [key : FenceKeys, granted : BOOLEAN, refused : BOOLEAN]
        /\ e.granted /\ ~e.refused
    BY <1>4, HandleGrants DEF NativeEffect
  <2>2. native' = native \cup {e}
    BY <1>4 DEF NativeEffect
  <2> HIDE DEF e
  <2> QED
    BY <1>4, <2>1, <2>2 DEF NativeEffect, authority, fenceTables
<1>5. CASE GiveUp(t)
  BY <1>5 DEF GiveUp, Quiet, authority, fenceTables
<1>6. CASE NativeRead(t)
  <2>1. th[t] \in FenceServing
    BY <1>0, <1>6 DEF NativeRead
  <2>2. /\ th' \in [Threads -> {FenceIdle} \cup FenceServing]
        /\ \A u \in Threads : u # t => th'[u] = th[u]
        /\ th'[t].head = th[t].head /\ th'[t].pc = "reading" /\ th'[t].saw = granted
        /\ th'[t].refused = th[t].refused /\ th'[t].ended = th[t].ended /\ th[t] # FenceIdle
    BY <1>0, <1>6, <2>1 DEF NativeRead, FenceServing
  <2>3. UNCHANGED <<head, granted, standing, flips, now, native, reads, delivered, writer,
                    fenceWork, links, fenceRow, fenceReceipt, phase, pair>>
    BY <1>6 DEF NativeRead, Quiet, authority, fenceTables
  <2>4. BasisInv'
    <3> SUFFICES ASSUME NEW u \in Threads, th'[u] # FenceIdle
                 PROVE  /\ th'[u].head <= head /\ (th'[u].head = head => granted)
                        /\ th'[u].pc = "held" => writer = u /\ th'[u].head = head
                        /\ th'[u].pc = "reading" /\ th'[u].head = head => th'[u].saw
                        /\ th'[u].refused => th'[u].ended
      BY <2>3
    <3>1. CASE u # t
      BY <2>2, <3>1
    <3>2. CASE u = t
      <4>1. /\ th[t].head <= head /\ (th[t].head = head => granted)
            /\ th[t].refused => th[t].ended
        BY <2>2
      <4> QED
        BY <2>2, <3>2, <4>1
    <3> QED
      BY <3>1, <3>2
  <2> QED
    BY <2>2, <2>3, <2>4
<1>7. CASE ConfirmDispatchBasis(t)
  <2>1. th[t] \in FenceServing /\ th[t] # FenceIdle
    BY <1>0, <1>7 DEF ConfirmDispatchBasis
  <2>2. th[t].saw = TRUE
    BY <1>7, <2>1 DEF ConfirmDispatchBasis, CheckDispatchBasis, FenceServing
  <2> QED
    BY <1>7, <2>2 DEF ConfirmDispatchBasis, authority, fenceTables
<1>8. ASSUME NEW k \in FenceKeys, ReadForDispatch(t, k) PROVE FenceInv'
  <2> DEFINE v == [pc |-> "based", key |-> k, head |-> head, deadline |-> now + 1,
                   ended |-> FALSE, refused |-> FALSE, saw |-> TRUE]
  <2>1. v \in FenceServing /\ v.pc = "based" /\ v.head = head /\ ~v.refused
    BY DEF FenceServing
  <2>2. th' = [th EXCEPT ![t] = v] /\ granted
    BY <1>8 DEF ReadForDispatch
  <2> HIDE DEF v
  <2> QED
    <3>1. /\ th' \in [Threads -> {FenceIdle} \cup FenceServing] /\ th'[t] = v
          /\ \A u \in Threads : u # t => th'[u] = th[u]
      BY <2>1, <2>2
    <3>2. /\ UNCHANGED <<head, granted, standing, flips, now, writer>>
          /\ UNCHANGED <<fenceWork, links, fenceRow, fenceReceipt, phase, pair>>
          /\ UNCHANGED <<native, reads, delivered>>
      BY <1>8 DEF ReadForDispatch, Quiet, authority, fenceTables
    <3>3. BasisInv'
      BY <2>1, <2>2, <3>1, <3>2
    <3> QED
      BY <3>1, <3>2, <3>3
<1> QED
  BY <1>1, <1>2, <1>3, <1>4, <1>5, <1>6, <1>7, <1>8

\* Everything else: the authority changes only while no handle is open.
LEMMA OtherStep ==
  ASSUME FenceInv,
         \/ ChangeAuthority \/ OtherAppend \/ FlipStanding \/ Tick \/ FenceCrash
         \/ \E k \in FenceKeys : Deliver(k) \/ FailCommand(k)
  PROVE  FenceInv'
<1> USE DEF FenceInv, WorkAuthorized, FenceTypeOK, Authorized, RefusalEnds, ConfirmedReads,
           BasisInv
<1>1. CASE ChangeAuthority
  <2>1. \A t \in Threads : th[t] # FenceIdle => th[t].pc # "held" /\ th[t].head \in Nat
    BY <1>1, FenceNoneAssumption DEF ChangeAuthority, AuthorityWritable, FenceServing
  <2> QED
    <3>1. /\ head \in Nat /\ head' = head + 1 /\ granted' \in BOOLEAN
          /\ UNCHANGED <<standing, flips, now, writer, th, native, reads, delivered>>
          /\ UNCHANGED <<fenceWork, links, fenceRow, fenceReceipt, phase, pair>>
      BY <1>1 DEF ChangeAuthority, fenceTables
    <3>2. \A t \in Threads : th'[t] # FenceIdle =>
            /\ th'[t].head <= head' /\ th'[t].head # head' /\ th'[t].pc # "held"
            /\ th'[t].refused => th'[t].ended
      BY <2>1, <3>1
    <3>3. BasisInv'
      BY <3>2
    <3>4. FenceTypeOK'
      BY <3>1
    <3>5. Authorized' /\ RefusalEnds' /\ ConfirmedReads'
      BY <3>1
    <3> QED
      BY <3>3, <3>4, <3>5
<1>2. CASE OtherAppend
  <2> DEFINE e == [key |-> FenceNone, what |-> "other", granted |-> TRUE, refused |-> FALSE]
  <2>1. e \in FenceEntries /\ e.granted /\ ~e.refused
    BY DEF FenceEntries
  <2>2. fenceWork' = Append(fenceWork, e)
    BY <1>2 DEF OtherAppend
  <2> HIDE DEF e
  <2>3. fenceWork' \in Seq(FenceEntries) /\ Clean(fenceWork')
    BY <2>1, <2>2, CleanAppend DEF Clean
  <2> QED
    BY <1>2, <2>3 DEF OtherAppend, Quiet, authority, Clean
<1>3. CASE FlipStanding
  <2>1. /\ standing' \in BOOLEAN /\ flips' \in Nat
        /\ UNCHANGED <<head, granted, now, writer, th, native, reads, delivered>>
        /\ UNCHANGED <<fenceWork, links, fenceRow, fenceReceipt, phase, pair>>
    BY <1>3 DEF FlipStanding, authority, fenceTables
  <2> QED
    BY <2>1
<1>4. CASE Tick
  <2>1. /\ now' \in Nat
        /\ UNCHANGED <<head, granted, standing, flips, writer, th, native, reads, delivered>>
        /\ UNCHANGED <<fenceWork, links, fenceRow, fenceReceipt, phase, pair>>
    BY <1>4 DEF Tick, authority, fenceTables
  <2> QED
    BY <2>1
<1>5. CASE FenceCrash
  BY <1>5 DEF FenceCrash, Quiet, authority, fenceTables
<1>6. ASSUME NEW k \in FenceKeys, Deliver(k) PROVE FenceInv'
  BY <1>6 DEF Deliver, authority, fenceTables
<1>7. ASSUME NEW k \in FenceKeys, FailCommand(k) PROVE FenceInv'
  <2>1. fenceRow[k] \in FenceRows
    BY <1>7 DEF FailCommand, CanFail
  <2>2. fenceRow' \in [FenceKeys -> FenceRows \cup {FenceNone}]
    BY <1>7, <2>1 DEF FailCommand, FenceRows
  <2> QED
    BY <1>7, <2>2 DEF FailCommand, Quiet, authority
<1> QED
  BY <1>1, <1>2, <1>3, <1>4, <1>5, <1>6, <1>7

LEMMA FenceStep == FenceInv /\ [FenceNext]_fenceVars => FenceInv'
<1> SUFFICES ASSUME FenceInv, [FenceNext]_fenceVars PROVE FenceInv'
  OBVIOUS
<1>1. CASE UNCHANGED fenceVars
  BY <1>1 DEF fenceVars, fenceTables, authority, FenceInv, WorkAuthorized, FenceTypeOK,
             Authorized, RefusalEnds, ConfirmedReads, BasisInv
<1>2. CASE FenceNext
  BY <1>2, HandleStep, ThreadStep, OtherStep DEF FenceNext
<1> QED
  BY <1>1, <1>2

(***************************************************************************)
(* For any number of threads, keys and phases, of authority changes, flips *)
(* of the process guard and crashes: every event written through a handle  *)
(* and every native effect was authorised when it happened, a refused      *)
(* handle never acts again, and a read confirmed without the lock was made *)
(* while its caller was authorised (with_dispatch_record_admission,        *)
(* check_latched_validity, confirm_dispatch_basis).                        *)
(***************************************************************************)
THEOREM FencedWork == FenceSpec => []WorkAuthorized
<1>1. FenceInv => WorkAuthorized
  BY DEF FenceInv
<1> QED
  BY <1>1, FenceStart, FenceStep, PTL DEF FenceSpec

(* ---- dispatch behind its fence: the records of a command ---- *)

Positions(s, k, w) == {i \in 1..Len(s) : s[i].key = k /\ s[i].what = w}
Users(s, k) == {s[i].user : i \in {j \in 1..Len(s) : s[j].key = k}}

\* With what the log says of a command: a receipt stands on a row, and the
\* binding of a marker on a receipt.
ResultInv ==
  /\ ResultsExact
  /\ \A k \in FenceKeys :
       /\ fenceReceipt[k] # FenceNone => fenceRow[k] # FenceNone
       /\ pair[k] # FenceNone => fenceReceipt[k] # FenceNone

LEMMA AtPositions == \A k, w : At(k, w) = Positions(fenceWork, k, w)
BY DEF At, Positions

LEMMA AtPositionsNext == \A k, w : At(k, w)' = Positions(fenceWork', k, w)
BY DEF At, Positions

LEMMA PositionsAppend ==
  ASSUME NEW s \in Seq(FenceEntries), NEW e \in FenceEntries, NEW k, NEW w
  PROVE  Positions(Append(s, e), k, w) =
           IF e.key = k /\ e.what = w THEN Positions(s, k, w) \cup {Len(s) + 1}
           ELSE Positions(s, k, w)
<1>1. 1..(Len(s) + 1) = (1..Len(s)) \cup {Len(s) + 1} /\ Len(s) + 1 \notin 1..Len(s)
  OBVIOUS
<1> QED
  BY <1>1, AppendEntries DEF Positions

LEMMA PositionsInside ==
  ASSUME NEW s \in Seq(FenceEntries), NEW k, NEW w, NEW i \in Positions(s, k, w)
  PROVE  i \in Nat /\ i <= Len(s)
BY DEF Positions

LEMMA UsersAppend ==
  ASSUME NEW s \in Seq([key : FenceKeys, user : Nat]), NEW k, NEW j \in FenceKeys, NEW n \in Nat
  PROVE  Users(Append(s, [key |-> j, user |-> n]), k) =
           IF j = k THEN Users(s, k) \cup {n} ELSE Users(s, k)
<1> DEFINE e == [key |-> j, user |-> n]
<1>1. e.key = j /\ e.user = n /\ e \in [key : FenceKeys, user : Nat]
  OBVIOUS
<1> HIDE DEF e
<1>2. /\ Len(Append(s, e)) = Len(s) + 1 /\ Append(s, e)[Len(s) + 1] = e
      /\ \A i \in 1..Len(s) : Append(s, e)[i] = s[i]
      /\ 1..(Len(s) + 1) = (1..Len(s)) \cup {Len(s) + 1}
      /\ Len(s) \in Nat /\ Len(s) + 1 \notin 1..Len(s)
  BY <1>1
<1>3. \A u : u \in Users(Append(s, e), k) <=> \/ u \in Users(s, k) \/ (j = k /\ u = n)
  BY <1>1, <1>2 DEF Users
<1>4. Users(Append(s, e), k) = IF j = k THEN Users(s, k) \cup {n} ELSE Users(s, k)
  BY <1>3
<1> QED
  BY <1>4 DEF e

(* The same for every key and position. *)
LEMMA UsersAppended ==
  \A s \in Seq([key : FenceKeys, user : Nat]), k \in FenceKeys, j \in FenceKeys, n \in Nat :
    Users(Append(s, [key |-> j, user |-> n]), k) =
      IF j = k THEN Users(s, k) \cup {n} ELSE Users(s, k)
BY UsersAppend

\* Where the entries of a paired result and of a dispatch go.
\* A pair commit appends these three entries, a claimed dispatch these two.
PairAppended(s, z, x, a, b, c) ==
  /\ s \in Seq(FenceEntries) /\ {a, b, c} \subseteq FenceEntries
  /\ a.key = x /\ a.what = "first"
  /\ b.key = x /\ b.what = "second"
  /\ c.key = x /\ c.what = "marker"
  /\ z = s \o <<a, b, c>>

DispatchAppended(s, z, x, a, b) ==
  /\ s \in Seq(FenceEntries) /\ {a, b} \subseteq FenceEntries
  /\ a.key = x /\ a.what = "first"
  /\ b.key = x /\ b.what = "intent"
  /\ z = s \o <<a, b>>

LEMMA PairPositions ==
  ASSUME NEW s, NEW z, NEW x, NEW a, NEW b, NEW c, PairAppended(s, z, x, a, b, c), NEW k, NEW w
  PROVE  Positions(z, k, w) =
           IF k = x /\ w = "first" THEN Positions(s, k, w) \cup {Len(s) + 1}
           ELSE IF k = x /\ w = "second" THEN Positions(s, k, w) \cup {Len(s) + 2}
           ELSE IF k = x /\ w = "marker" THEN Positions(s, k, w) \cup {Len(s) + 3}
           ELSE Positions(s, k, w)
<1>0. /\ s \in Seq(FenceEntries) /\ a \in FenceEntries /\ b \in FenceEntries /\ c \in FenceEntries
      /\ a.key = x /\ a.what = "first" /\ b.key = x /\ b.what = "second"
      /\ c.key = x /\ c.what = "marker" /\ z = s \o <<a, b, c>>
  BY DEF PairAppended
<1> DEFINE s1 == Append(s, a)
           s2 == Append(s1, b)
           s3 == Append(s2, c)
<1>1. s1 \in Seq(FenceEntries) /\ Len(s1) = Len(s) + 1
  BY <1>0, AppendEntries
<1>2. s2 \in Seq(FenceEntries) /\ Len(s2) = Len(s) + 2
  BY <1>0, <1>1, AppendEntries
<1>3. Positions(s1, k, w) =
        IF k = x /\ w = "first" THEN Positions(s, k, w) \cup {Len(s) + 1} ELSE Positions(s, k, w)
  BY <1>0, PositionsAppend
<1>4. Positions(s2, k, w) =
        IF k = x /\ w = "second" THEN Positions(s1, k, w) \cup {Len(s) + 2} ELSE Positions(s1, k, w)
  <2> HIDE DEF s1
  <2> QED
    BY <1>0, <1>1, PositionsAppend
<1>5. Positions(s3, k, w) =
        IF k = x /\ w = "marker" THEN Positions(s2, k, w) \cup {Len(s) + 3} ELSE Positions(s2, k, w)
  <2> HIDE DEF s2
  <2> QED
    BY <1>0, <1>2, PositionsAppend
<1>6. z = s3
  BY <1>0, ConcatEntries
<1> HIDE DEF s1, s2, s3
<1> QED
  BY <1>3, <1>4, <1>5, <1>6

LEMMA DispatchPositions ==
  ASSUME NEW s, NEW z, NEW x, NEW a, NEW b, DispatchAppended(s, z, x, a, b), NEW k, NEW w
  PROVE  Positions(z, k, w) =
           IF k = x /\ w = "first" THEN Positions(s, k, w) \cup {Len(s) + 1}
           ELSE IF k = x /\ w = "intent" THEN Positions(s, k, w) \cup {Len(s) + 2}
           ELSE Positions(s, k, w)
<1>0. /\ s \in Seq(FenceEntries) /\ a \in FenceEntries /\ b \in FenceEntries
      /\ a.key = x /\ a.what = "first" /\ b.key = x /\ b.what = "intent" /\ z = s \o <<a, b>>
  BY DEF DispatchAppended
<1> DEFINE s1 == Append(s, a)
           s2 == Append(s1, b)
<1>1. s1 \in Seq(FenceEntries) /\ Len(s1) = Len(s) + 1
  BY <1>0, AppendEntries
<1>2. Positions(s1, k, w) =
        IF k = x /\ w = "first" THEN Positions(s, k, w) \cup {Len(s) + 1} ELSE Positions(s, k, w)
  BY <1>0, PositionsAppend
<1>3. Positions(s2, k, w) =
        IF k = x /\ w = "intent" THEN Positions(s1, k, w) \cup {Len(s) + 2} ELSE Positions(s1, k, w)
  <2> HIDE DEF s1
  <2> QED
    BY <1>0, <1>1, PositionsAppend
<1>4. z = s2
  BY <1>0, ConcatEntries
<1> HIDE DEF s1, s2
<1> QED
  BY <1>2, <1>3, <1>4

LEMMA ResultStart == FenceInit => ResultInv
<1> SUFFICES ASSUME FenceInit PROVE ResultInv
  OBVIOUS
<1>1. \A k, w : At(k, w) = {}
  BY DEF FenceInit, At
<1>2. \A k : {links[i].user : i \in {j \in 1..Len(links) : links[j].key = k}} = {}
  BY DEF FenceInit
<1> QED
  BY <1>1, <1>2 DEF FenceInit, ResultInv, ResultsExact, PhasesPrecedeResult, OneResult,
                    DeliveredCommitted

\* The records stay when the log, its companions and the receipts do.
LEMMA RecordsStand ==
  ASSUME ResultInv, UNCHANGED <<fenceWork, links, fenceReceipt, phase, pair, delivered>>,
         \A k \in FenceKeys : fenceRow[k] # FenceNone => fenceRow'[k] # FenceNone,
         \A k \in FenceKeys :
           fenceRow'[k] # FenceNone /\ fenceRow'[k].status = "rejected" => fenceReceipt[k] = FenceNone
  PROVE  ResultInv'
<1>1. \A k, w : At(k, w)' = At(k, w)
  BY DEF At
<1> QED
  BY <1>1 DEF ResultInv, ResultsExact, PhasesPrecedeResult, OneResult, DeliveredCommitted

\* A phase is recorded, or answered from its record.
LEMMA PhaseRecorded ==
  ASSUME FenceInv, ResultInv, NEW t \in Threads, NEW p \in Phases, CommitPhase(t, p)
  PROVE  ResultInv'
<1> DEFINE k == th[t].key
           n == Len(fenceWork)
<1>1. Held(t) /\ CheckLatched(t) /\ PendingCommandMatches(k)
  BY DEF CommitPhase
<1>2. /\ Entry(t, p) \in FenceEntries /\ Entry(t, p).key = k /\ Entry(t, p).what = p
      /\ k \in FenceKeys
  BY <1>1, HandleGrants
<1>3. /\ fenceWork \in Seq(FenceEntries) /\ n \in Nat /\ n + 1 \in Nat
      /\ links \in Seq([key : FenceKeys, user : Nat])
      /\ phase \in [FenceKeys -> [Phases -> Nat \cup {FenceNone}]]
  BY DEF FenceInv, WorkAuthorized, FenceTypeOK
<1>4. UNCHANGED <<fenceRow, fenceReceipt, pair, delivered>>
  BY DEF CommitPhase, Quiet
<1>5. CASE phase[k][p] # FenceNone /\ UNCHANGED <<fenceWork, phase, links>>
  BY <1>4, <1>5, RecordsStand DEF ResultInv, ResultsExact, OneResult
<1>6. CASE /\ phase[k][p] = FenceNone
           /\ fenceWork' = Append(fenceWork, Entry(t, p))
           /\ phase' = [phase EXCEPT ![k][p] = n + 1]
           /\ links' = IF p = TaskPhase THEN Append(links, [key |-> k, user |-> n + 1]) ELSE links
  <2>1. \A j, w : At(j, w)' = IF j = k /\ w = p THEN At(j, w) \cup {n + 1} ELSE At(j, w)
    BY <1>2, <1>3, <1>6, PositionsAppend, AtPositions, AtPositionsNext
  <2>2. /\ At(k, p) = {} /\ fenceReceipt[k] = FenceNone /\ At(k, "first") = {}
    BY <1>1, <1>2, <1>6 DEF PendingCommandMatches, ResultInv, ResultsExact, PhasesPrecedeResult,
                            OneResult
  <2>3. \A j \in FenceKeys, q \in Phases :
          phase'[j][q] = IF j = k /\ q = p THEN n + 1 ELSE phase[j][q]
    BY <1>2, <1>3, <1>6
  <2>4. \A j \in FenceKeys : Users(links', j) =
          IF j = k /\ p = TaskPhase THEN Users(links, j) \cup {n + 1} ELSE Users(links, j)
    <3>1. CASE p = TaskPhase
      <4>1. links' = Append(links, [key |-> k, user |-> n + 1])
        BY <1>6, <3>1
      <4>2. ASSUME NEW j \in FenceKeys, NEW x \in FenceKeys, NEW u \in Nat
            PROVE  Users(Append(links, [key |-> x, user |-> u]), j) =
                     IF x = j THEN Users(links, j) \cup {u} ELSE Users(links, j)
        <5>1. PICK s : s = links
          OBVIOUS
        <5>2. s \in Seq([key : FenceKeys, user : Nat])
          BY <1>3, <5>1
        <5>3. \A a \in FenceKeys, b \in FenceKeys, m \in Nat :
                Users(Append(s, [key |-> b, user |-> m]), a) =
                  IF b = a THEN Users(s, a) \cup {m} ELSE Users(s, a)
          BY <5>2, UsersAppended, Zenon
        <5>4. Users(Append(s, [key |-> x, user |-> u]), j) =
                IF x = j THEN Users(s, j) \cup {u} ELSE Users(s, j)
          BY <5>3, Zenon
        <5> QED
          BY <5>1, <5>4, Zenon
      <4>3. \A j \in FenceKeys : Users(Append(links, [key |-> k, user |-> n + 1]), j) =
              IF k = j THEN Users(links, j) \cup {n + 1} ELSE Users(links, j)
        BY <1>2, <1>3, <4>2
      <4> HIDE DEF k, n
      <4> QED
        BY <3>1, <4>1, <4>3
    <3>2. CASE p # TaskPhase
      BY <1>6, <3>2
    <3> QED
      BY <3>1, <3>2
  <2>5. p \notin {"first", "second", "marker", "intent"}
    BY FenceNoneAssumption
  <2>6. n + 1 # FenceNone
    BY <1>3, FenceNoneAssumption
  <2> HIDE DEF k, n
  <2>7. ASSUME NEW j \in FenceKeys, NEW q \in Phases
        PROVE  /\ At(j, q)' = IF phase'[j][q] = FenceNone THEN {} ELSE {phase'[j][q]}
               /\ \A i \in At(j, q)', m \in At(j, "first")' : i < m
               /\ q = TaskPhase => Users(links', j) = At(j, q)'
    <3>1. /\ At(j, q) = IF phase[j][q] = FenceNone THEN {} ELSE {phase[j][q]}
          /\ \A i \in At(j, q), m \in At(j, "first") : i < m
          /\ q = TaskPhase => Users(links, j) = At(j, q)
      BY DEF ResultInv, ResultsExact, PhasesPrecedeResult, Users
    <3>2. At(j, "first")' = At(j, "first")
      BY <2>1, <2>5
    <3>3. CASE j = k /\ q = p
      BY <2>1, <2>2, <2>3, <2>4, <2>6, <3>1, <3>2, <3>3
    <3>4. CASE ~(j = k /\ q = p)
      BY <2>1, <2>3, <2>4, <3>1, <3>2, <3>4
    <3> QED
      BY <3>3, <3>4
  <2>8. PhasesPrecedeResult'
    BY <2>7 DEF PhasesPrecedeResult, Users
  <2>b. \A j, w : w \in {"first", "marker", "intent"} => At(j, w)' = At(j, w)
    BY <2>1, <2>5
  <2>9. OneResult'
    BY <1>4, <2>b DEF OneResult, ResultInv, ResultsExact
  <2>10. DeliveredCommitted'
    BY <1>4, <2>b DEF DeliveredCommitted, ResultInv, ResultsExact
  <2> QED
    BY <1>4, <2>8, <2>9, <2>10 DEF ResultInv, ResultsExact
<1> QED
  BY <1>5, <1>6 DEF CommitPhase

\* A new result: its first entry comes after everything recorded before it.
LEMMA ResultRecorded ==
  ASSUME FenceInv, ResultInv, NEW k \in FenceKeys, NEW n, n = Len(fenceWork),
         NEW m \in {n + 3, FenceNone}, fenceReceipt[k] = FenceNone,
         \A j, w : At(j, w)' =
           IF j = k /\ w = "first" THEN At(j, w) \cup {n + 1}
           ELSE IF j = k /\ w = "marker" /\ m # FenceNone THEN At(j, w) \cup {n + 3}
           ELSE IF j = k /\ w \in {"second", "intent"} THEN At(j, w)'
           ELSE At(j, w),
         \A j : At(j, "intent") \subseteq At(j, "intent")',
         fenceReceipt' = [fenceReceipt EXCEPT ![k] = n + 1],
         pair' = IF m = FenceNone THEN pair ELSE [pair EXCEPT ![k] = m],
         UNCHANGED <<links, phase, delivered>>,
         fenceRow'[k] # FenceNone, fenceRow'[k].status = "applied",
         \A j \in FenceKeys : j # k => fenceRow'[j] = fenceRow[j]
  PROVE  ResultInv'
<1>1. /\ n \in Nat /\ n + 1 # FenceNone /\ n + 3 # FenceNone
      /\ fenceReceipt \in [FenceKeys -> Nat \cup {FenceNone}]
      /\ pair \in [FenceKeys -> Nat \cup {FenceNone}]
  BY FenceNoneAssumption DEF FenceInv, WorkAuthorized, FenceTypeOK
<1>2. At(k, "first") = {} /\ pair[k] = FenceNone /\ At(k, "marker") = {}
  BY DEF ResultInv, ResultsExact, OneResult
<1>3. \A j \in FenceKeys, p \in Phases : At(j, p)' = At(j, p)
  BY FenceNoneAssumption
<1>4. \A j \in FenceKeys, p \in Phases : \A i \in At(j, p) : i \in Nat /\ i < n + 1
  BY <1>1, PositionsInside, AtPositions DEF FenceInv, WorkAuthorized, FenceTypeOK
<1>5. \A j \in FenceKeys : At(j, "first")' = IF j = k THEN {n + 1} ELSE At(j, "first")
  BY <1>2
<1>6. PhasesPrecedeResult'
  BY <1>3, <1>4, <1>5 DEF ResultInv, ResultsExact, PhasesPrecedeResult
<1>7. \A j \in FenceKeys : At(j, "marker")' =
        IF j = k /\ m # FenceNone THEN {n + 3} ELSE At(j, "marker")
  BY <1>2
<1>8. OneResult'
  BY <1>1, <1>2, <1>5, <1>7 DEF ResultInv, ResultsExact, OneResult
<1>9. DeliveredCommitted'
  BY <1>1 DEF ResultInv, ResultsExact, DeliveredCommitted, FenceInv, WorkAuthorized, FenceTypeOK
<1> QED
  BY <1>1, <1>2, <1>6, <1>8, <1>9 DEF ResultInv, ResultsExact

LEMMA PairRecorded ==
  ASSUME FenceInv, ResultInv, NEW t \in Threads, CommitPair(t)
  PROVE  ResultInv'
<1> DEFINE k == th[t].key
           n == Len(fenceWork)
<1>1. Held(t) /\ CheckLatched(t)
  BY DEF CommitPair
<1>2. /\ k \in FenceKeys
      /\ \A w \in {"first", "second", "marker"} :
           Entry(t, w) \in FenceEntries /\ Entry(t, w).key = k /\ Entry(t, w).what = w
  BY <1>1, HandleGrants
<1>3. /\ UNCHANGED <<links, phase, delivered>>
      /\ fenceRow' = [fenceRow EXCEPT ![k] = [fenceRow[k] EXCEPT !.status = "applied"]]
  BY DEF CommitPair, Quiet
<1>4. fenceRow[k] \in FenceRows
  BY <1>2 DEF CommitPair, PendingCommandMatches, FenceRows, FenceInv, WorkAuthorized, FenceTypeOK
<1>5. /\ fenceRow'[k] # FenceNone /\ fenceRow'[k].status = "applied"
      /\ \A j \in FenceKeys : j # k => fenceRow'[j] = fenceRow[j]
  BY <1>2, <1>3, <1>4, FenceNoneAssumption DEF FenceRows, FenceInv, WorkAuthorized, FenceTypeOK
<1>6. CASE UNCHANGED <<fenceWork, fenceReceipt, pair>>
  <2>1. \A j \in FenceKeys : fenceRow[j] # FenceNone => fenceRow'[j] # FenceNone
    BY <1>5
  <2>2. \A j \in FenceKeys :
          fenceRow'[j] # FenceNone /\ fenceRow'[j].status = "rejected" => fenceReceipt[j] = FenceNone
    BY <1>5 DEF ResultInv, ResultsExact, OneResult
  <2> QED
    BY <1>3, <1>6, <2>1, <2>2, RecordsStand
<1>7. CASE /\ PendingCommandMatches(k)
           /\ fenceWork' = fenceWork \o <<Entry(t, "first"), Entry(t, "second"), Entry(t, "marker")>>
           /\ fenceReceipt' = [fenceReceipt EXCEPT ![k] = n + 1]
           /\ pair' = [pair EXCEPT ![k] = n + 3]
  <2>1. fenceWork \in Seq(FenceEntries) /\ n \in Nat
    BY DEF FenceInv, WorkAuthorized, FenceTypeOK
  <2>2. fenceReceipt[k] = FenceNone /\ n + 3 # FenceNone
    BY <1>7, <2>1, FenceNoneAssumption DEF PendingCommandMatches
  <2>3. \A j, w : At(j, w)' =
          IF j = k /\ w = "first" THEN At(j, w) \cup {n + 1}
          ELSE IF j = k /\ w = "second" THEN At(j, w) \cup {n + 2}
          ELSE IF j = k /\ w = "marker" THEN At(j, w) \cup {n + 3}
          ELSE At(j, w)
    <3> DEFINE a == Entry(t, "first")
               b == Entry(t, "second")
               c == Entry(t, "marker")
    <3>1. /\ a \in FenceEntries /\ a.key = k /\ a.what = "first"
          /\ b \in FenceEntries /\ b.key = k /\ b.what = "second"
          /\ c \in FenceEntries /\ c.key = k /\ c.what = "marker"
      BY <1>2
    <3>2. fenceWork' = fenceWork \o <<a, b, c>>
      BY <1>7
    <3>a. PairAppended(fenceWork, fenceWork', k, a, b, c)
      BY <2>1, <3>1, <3>2 DEF PairAppended
    <3> HIDE DEF a, b, c, k
    <3>3. ASSUME NEW j, NEW w
          PROVE  Positions(fenceWork', j, w) =
                   IF j = k /\ w = "first" THEN Positions(fenceWork, j, w) \cup {n + 1}
                   ELSE IF j = k /\ w = "second" THEN Positions(fenceWork, j, w) \cup {n + 2}
                   ELSE IF j = k /\ w = "marker" THEN Positions(fenceWork, j, w) \cup {n + 3}
                   ELSE Positions(fenceWork, j, w)
      BY <3>a, PairPositions
    <3> HIDE DEF n
    <3> QED
      BY <3>2, <3>3, AtPositions, AtPositionsNext
  <2> HIDE DEF k, n
  <2>4. \A j, w : At(j, w)' =
           IF j = k /\ w = "first" THEN At(j, w) \cup {n + 1}
           ELSE IF j = k /\ w = "marker" /\ n + 3 # FenceNone THEN At(j, w) \cup {n + 3}
           ELSE IF j = k /\ w \in {"second", "intent"} THEN At(j, w)'
           ELSE At(j, w)
    BY <2>2, <2>3
  <2>5. \A j : At(j, "intent") \subseteq At(j, "intent")'
    BY <2>3
  <2>6. pair' = IF n + 3 = FenceNone THEN pair ELSE [pair EXCEPT ![k] = n + 3]
    BY <1>7, <2>2
  <2> QED
    BY <1>2, <1>3, <1>5, <1>7, <2>2, <2>4, <2>5, <2>6, ResultRecorded DEF n
<1> QED
  BY <1>6, <1>7 DEF CommitPair

LEMMA DispatchRecorded ==
  ASSUME FenceInv, ResultInv, NEW t \in Threads, CommitDispatch(t)
  PROVE  ResultInv'
<1> DEFINE k == th[t].key
           n == Len(fenceWork)
           r == [path |-> "dispatch", status |-> "applied"]
<1>1. Held(t) /\ CheckLatched(t)
  BY DEF CommitDispatch
<1>2. /\ k \in FenceKeys
      /\ \A w \in {"first", "intent"} :
           Entry(t, w) \in FenceEntries /\ Entry(t, w).key = k /\ Entry(t, w).what = w
  BY <1>1, HandleGrants
<1>3. UNCHANGED <<links, phase, pair, delivered>>
  BY DEF CommitDispatch, Quiet
<1>4. CASE UNCHANGED <<fenceWork, fenceReceipt, fenceRow>>
  BY <1>3, <1>4, RecordsStand DEF ResultInv, ResultsExact, OneResult
<1>5. CASE /\ fenceRow[k] = FenceNone
           /\ fenceWork' = fenceWork \o <<Entry(t, "first"), Entry(t, "intent")>>
           /\ fenceReceipt' = [fenceReceipt EXCEPT ![k] = n + 1]
           /\ fenceRow' = [fenceRow EXCEPT ![k] = r]
  <2>1. fenceWork \in Seq(FenceEntries) /\ n \in Nat
    BY DEF FenceInv, WorkAuthorized, FenceTypeOK
  <2>2. fenceReceipt[k] = FenceNone
    BY <1>2, <1>5 DEF ResultInv
  <2>3. \A j, w : At(j, w)' =
          IF j = k /\ w = "first" THEN At(j, w) \cup {n + 1}
          ELSE IF j = k /\ w = "intent" THEN At(j, w) \cup {n + 2}
          ELSE At(j, w)
    <3> DEFINE a == Entry(t, "first")
               b == Entry(t, "intent")
    <3>1. /\ a \in FenceEntries /\ a.key = k /\ a.what = "first"
          /\ b \in FenceEntries /\ b.key = k /\ b.what = "intent"
      BY <1>2
    <3>2. fenceWork' = fenceWork \o <<a, b>>
      BY <1>5
    <3>a. DispatchAppended(fenceWork, fenceWork', k, a, b)
      BY <2>1, <3>1, <3>2 DEF DispatchAppended
    <3> HIDE DEF a, b, k
    <3>3. ASSUME NEW j, NEW w
          PROVE  Positions(fenceWork', j, w) =
                   IF j = k /\ w = "first" THEN Positions(fenceWork, j, w) \cup {n + 1}
                   ELSE IF j = k /\ w = "intent" THEN Positions(fenceWork, j, w) \cup {n + 2}
                   ELSE Positions(fenceWork, j, w)
      BY <3>a, DispatchPositions
    <3> HIDE DEF n
    <3> QED
      BY <3>2, <3>3, AtPositions, AtPositionsNext
  <2>4. r # FenceNone /\ r.status = "applied"
    BY FenceNoneAssumption DEF FenceRows
  <2> HIDE DEF k, n, r
  <2>5. /\ fenceRow'[k] # FenceNone /\ fenceRow'[k].status = "applied"
        /\ \A j \in FenceKeys : j # k => fenceRow'[j] = fenceRow[j]
    BY <1>2, <1>5, <2>4 DEF FenceInv, WorkAuthorized, FenceTypeOK
  <2>6. \A j, w : At(j, w)' =
           IF j = k /\ w = "first" THEN At(j, w) \cup {n + 1}
           ELSE IF j = k /\ w = "marker" /\ FenceNone # FenceNone THEN At(j, w) \cup {n + 3}
           ELSE IF j = k /\ w \in {"second", "intent"} THEN At(j, w)'
           ELSE At(j, w)
    BY <2>3
  <2>7. \A j : At(j, "intent") \subseteq At(j, "intent")'
    BY <2>3
  <2>8. pair' = IF FenceNone = FenceNone THEN pair ELSE [pair EXCEPT ![k] = FenceNone]
    BY <1>3
  <2> QED
    BY <1>2, <1>3, <1>5, <2>2, <2>5, <2>6, <2>7, <2>8, ResultRecorded DEF n
<1> QED
  BY <1>4, <1>5 DEF CommitDispatch

\* The steps outside the handle that touch the tables.
LEMMA OtherRecorded ==
  ASSUME FenceInv, ResultInv,
         \/ OtherAppend
         \/ \E t \in Threads : ClaimCommandAgainst(t)
         \/ \E k \in FenceKeys : Deliver(k) \/ FailCommand(k)
  PROVE  ResultInv'
<1>1. CASE OtherAppend
  <2> DEFINE e == [key |-> FenceNone, what |-> "other", granted |-> TRUE, refused |-> FALSE]
  <2>1. e \in FenceEntries /\ e.key = FenceNone
    BY DEF FenceEntries
  <2>2. fenceWork' = Append(fenceWork, e) /\ fenceWork \in Seq(FenceEntries)
    BY <1>1 DEF OtherAppend, FenceInv, WorkAuthorized, FenceTypeOK
  <2> HIDE DEF e
  <2>3. \A j \in FenceKeys : \A w : At(j, w)' = At(j, w)
    BY <2>1, <2>2, PositionsAppend, AtPositions, AtPositionsNext, FenceNoneAssumption
  <2>4. UNCHANGED <<links, fenceRow, fenceReceipt, phase, pair, delivered>>
    BY <1>1 DEF OtherAppend, Quiet
  <2>5. delivered \subseteq FenceKeys
    BY DEF FenceInv, WorkAuthorized, FenceTypeOK
  <2> QED
    BY <2>3, <2>4, <2>5
       DEF ResultInv, ResultsExact, PhasesPrecedeResult, OneResult, DeliveredCommitted
<1>2. ASSUME NEW t \in Threads, ClaimCommandAgainst(t) PROVE ResultInv'
  <2>1. ClaimedRow # FenceNone /\ ClaimedRow.status # "rejected"
    BY FenceNoneAssumption DEF ClaimedRow, FenceRows
  <2>2. th[t] \in FenceServing /\ th[t].key \in FenceKeys
    BY <1>2, ServingType
       DEF ClaimCommandAgainst, FenceInv, WorkAuthorized, FenceServing
  <2>3. /\ fenceRow' = [fenceRow EXCEPT ![th[t].key] = ClaimedRow]
        /\ UNCHANGED <<fenceWork, links, fenceReceipt, phase, pair, delivered>>
    BY <1>2 DEF ClaimCommandAgainst, Quiet
  <2>4. \A k \in FenceKeys :
          fenceRow'[k] = IF k = th[t].key THEN ClaimedRow ELSE fenceRow[k]
    BY <2>2, <2>3 DEF FenceInv, WorkAuthorized, FenceTypeOK
  <2> QED
    BY <2>1, <2>3, <2>4, RecordsStand DEF ResultInv, ResultsExact, OneResult
<1>3. ASSUME NEW k \in FenceKeys, Deliver(k) PROVE ResultInv'
  <2>1. delivered' = delivered \cup {k} /\ UNCHANGED fenceTables
    BY <1>3 DEF Deliver
  <2>2. fenceReceipt[k] # FenceNone /\ At(k, "intent") # {}
    <3>1. Cardinality(At(k, "intent")) = 1 /\ fenceReceipt[k] # FenceNone
      BY <1>3 DEF Deliver, Deliverable, At
    <3>2. Cardinality({}) = 0
      BY FS_EmptySet
    <3> QED
      BY <3>1, <3>2
  <2>3. \A j, w : At(j, w)' = At(j, w)
    BY <2>1 DEF At, fenceTables
  <2> QED
    BY <2>1, <2>2, <2>3
       DEF fenceTables, ResultInv, ResultsExact, PhasesPrecedeResult, OneResult,
           DeliveredCommitted
<1>4. ASSUME NEW k \in FenceKeys, FailCommand(k) PROVE ResultInv'
  <2>1. /\ fenceRow[k] \in FenceRows /\ fenceReceipt[k] = FenceNone
        /\ fenceRow' = [fenceRow EXCEPT ![k] = [fenceRow[k] EXCEPT !.status = "rejected"]]
        /\ UNCHANGED <<fenceWork, links, fenceReceipt, phase, pair, delivered>>
    BY <1>4 DEF FailCommand, CanFail, Quiet, FenceInv, WorkAuthorized, FenceTypeOK
  <2>2. [fenceRow[k] EXCEPT !.status = "rejected"] \in FenceRows
    BY <2>1 DEF FenceRows
  <2>3. /\ fenceRow'[k] # FenceNone
        /\ \A j \in FenceKeys : j # k => fenceRow'[j] = fenceRow[j]
    BY <2>1, <2>2, FenceNoneAssumption DEF FenceInv, WorkAuthorized, FenceTypeOK
  <2> QED
    BY <2>1, <2>3, RecordsStand DEF ResultInv, ResultsExact, OneResult
<1> QED
  BY <1>1, <1>2, <1>3, <1>4

LEMMA ResultStep == FenceInv /\ ResultInv /\ [FenceNext]_fenceVars => ResultInv'
<1> SUFFICES ASSUME FenceInv, ResultInv, [FenceNext]_fenceVars PROVE ResultInv'
  OBVIOUS
<1>1. ASSUME UNCHANGED fenceTables, UNCHANGED delivered PROVE ResultInv'
  BY <1>1, RecordsStand DEF fenceTables, ResultInv, ResultsExact, OneResult
<1>2. CASE UNCHANGED fenceVars
  BY <1>1, <1>2 DEF fenceVars
<1>3. CASE \E t \in Threads :
             \/ OpenWriter(t) \/ RequirePending(t) \/ NativeEffect(t) \/ Drop(t) \/ GiveUp(t)
             \/ NativeRead(t) \/ ConfirmDispatchBasis(t)
             \/ \E k \in FenceKeys : ReadForDispatch(t, k)
  <2>1. UNCHANGED fenceTables /\ UNCHANGED delivered
    BY <1>3 DEF OpenWriter, RequirePending, NativeEffect, Drop, GiveUp, NativeRead,
                ConfirmDispatchBasis, ReadForDispatch, Quiet
  <2> QED
    BY <1>1, <2>1
<1>4. CASE ChangeAuthority \/ FlipStanding \/ Tick \/ FenceCrash
  <2>1. UNCHANGED fenceTables /\ UNCHANGED delivered
    BY <1>4 DEF ChangeAuthority, FlipStanding, Tick, FenceCrash, Quiet
  <2> QED
    BY <1>1, <2>1
<1>5. CASE \E t \in Threads :
             CommitPair(t) \/ CommitDispatch(t) \/ \E p \in Phases : CommitPhase(t, p)
  BY <1>5, PairRecorded, DispatchRecorded, PhaseRecorded
<1>6. CASE \/ OtherAppend \/ \E t \in Threads : ClaimCommandAgainst(t)
           \/ \E k \in FenceKeys : Deliver(k) \/ FailCommand(k)
  BY <1>6, OtherRecorded
<1> QED
  BY <1>2, <1>3, <1>4, <1>5, <1>6 DEF FenceNext

(***************************************************************************)
(* What require_recorded_lifecycle_prefix and committed_dispatch read is   *)
(* there, for any number of threads, keys and phases: a command's phases   *)
(* are each in the log once, before its one result, the task phase with    *)
(* its one companion; a failed command has no result; the runtime is       *)
(* handed only intents of committed commands.                              *)
(***************************************************************************)
THEOREM RecordsInOrder == FenceSpec => []ResultsExact
<1>1. ResultInv => ResultsExact
  BY DEF ResultInv
<1> QED
  BY <1>1, FenceStart, FenceStep, ResultStart, ResultStep, PTL DEF FenceSpec

(* ---- record facts under a caller key ---- *)

\* A set of positions that is not empty has a last one.
LEMMA LastOf ==
  ASSUME NEW n \in Nat, NEW T \in SUBSET (1..n), T # {}
  PROVE  \E i \in T : \A j \in T : j <= i
<1> DEFINE U == {n - i : i \in T}
           R == OpToRel(<, Nat)
<1>1. U \subseteq Nat /\ U # {}
  <2>1. \A i \in T : n - i \in Nat
    OBVIOUS
  <2>2. PICK i \in T : TRUE
    OBVIOUS
  <2>3. n - i \in U
    OBVIOUS
  <2> QED
    BY <2>1, <2>3
<1>2. IsWellFoundedOn(R, Nat)
  BY NatLessThanWellFounded
<1>3. PICK x \in U : \A y \in U : ~(<<y, x>> \in R)
  <2> HIDE DEF U, R
  <2> QED
    BY <1>1, <1>2, WFMin
<1>4. \A y \in U : ~(y < x)
  BY <1>1, <1>3 DEF OpToRel
<1>5. PICK i \in T : x = n - i
  OBVIOUS
<1>6. \A j \in T : ~(n - j < n - i)
  BY <1>4, <1>5
<1> QED
  BY <1>6

LEMMA HeadInLog ==
  ASSUME NEW l \in Seq(RecordEntries)
  PROVE  ChainHead(l) \in Nat
<1> DEFINE T == {i \in 1..Len(l) : l[i].kind = "link"}
<1>1. CASE T = {}
  BY <1>1 DEF ChainHead
<1>2. CASE T # {}
  <2>1. Len(l) \in Nat /\ T \subseteq 1..Len(l)
    OBVIOUS
  <2>2. PICK i \in T : \A j \in T : j <= i
    <3> HIDE DEF T
    <3> QED
      BY <1>2, <2>1, LastOf
  <2>3. \E k \in 1..Len(l) : l[k].kind = "link" /\ \A j \in (k + 1)..Len(l) : l[j].kind # "link"
    BY <2>1, <2>2
  <2>4. ChainHead(l) = CHOOSE k \in 1..Len(l) :
          l[k].kind = "link" /\ \A j \in (k + 1)..Len(l) : l[j].kind # "link"
    BY <1>2 DEF ChainHead
  <2>5. ChainHead(l) \in 1..Len(l)
    BY <2>3, <2>4
  <2> QED
    BY <2>1, <2>5
<1> QED
  BY <1>1, <1>2

\* What one transaction does to one scope: f facts of `by`, then perhaps a
\* chained record that links to the last one the transaction saw.
Grown(l, z, f, by, c) ==
  /\ l \in Seq(RecordEntries) /\ z \in Seq(RecordEntries) /\ f \in Nat
  /\ Len(z) = Len(l) + f + (IF c THEN 1 ELSE 0)
  /\ \A i \in 1..Len(l) : z[i] = l[i]
  /\ \A i \in (Len(l) + 1)..(Len(l) + f) : z[i].by = by /\ z[i].kind = "fact"
  /\ c => /\ z[Len(z)].by = by /\ z[Len(z)].kind = "link"
          /\ z[Len(z)].prev = ChainHead(SubSeq(z, 1, Len(z) - 1))

FactsIn(l, k) == {i \in 1..Len(l) : l[i].by = k /\ l[i].kind = "fact"}

LinksLast(l) ==
  \A i \in 1..Len(l) : l[i].kind = "link" => l[i].prev = ChainHead(SubSeq(l, 1, i - 1))

\* f facts appended.
LEMMA FactsGrow ==
  ASSUME NEW l \in Seq(RecordEntries), NEW f \in Nat, NEW by \in RecordKeys \cup {RecordNone},
         NEW e, e = [by |-> by, kind |-> "fact", prev |-> 0]
  PROVE  Grown(l, l \o [i \in 1..f |-> e], f, by, FALSE)
<1>1. e \in RecordEntries /\ e.by = by /\ e.kind = "fact"
  BY DEF RecordEntries
<1> DEFINE r == [i \in 1..f |-> e]
           z == l \o r
<1>2. r \in Seq(RecordEntries) /\ Len(r) = f /\ \A i \in 1..f : r[i] = e
  BY <1>1
<1> HIDE DEF r
<1>3. /\ z \in Seq(RecordEntries) /\ Len(z) = Len(l) + f
      /\ \A i \in 1..(Len(l) + f) : z[i] = IF i <= Len(l) THEN l[i] ELSE r[i - Len(l)]
  BY <1>2
<1>4. Len(l) \in Nat
  OBVIOUS
<1>5. \A i \in (Len(l) + 1)..(Len(l) + f) : z[i] = e
  <2> SUFFICES ASSUME NEW i \in (Len(l) + 1)..(Len(l) + f) PROVE z[i] = e
    OBVIOUS
  <2>1. i - Len(l) \in 1..f /\ i \in 1..(Len(l) + f) /\ ~(i <= Len(l))
    BY <1>4
  <2> QED
    BY <1>2, <1>3, <2>1
<1>6. \A i \in 1..Len(l) : z[i] = l[i]
  BY <1>3, <1>4
<1> HIDE DEF z
<1>7. Grown(l, z, f, by, FALSE)
  BY <1>1, <1>3, <1>4, <1>5, <1>6 DEF Grown
<1> QED
  BY <1>7 DEF z, r

\* A chained record after the facts.
LEMMA LinkGrows ==
  ASSUME NEW l, NEW y, NEW f, NEW by \in RecordKeys \cup {RecordNone},
         Grown(l, y, f, by, FALSE)
  PROVE  Grown(l, Link(y, by), f, by, TRUE)
<1> DEFINE e == [by |-> by, kind |-> "link", prev |-> ChainHead(y)]
           z == Append(y, e)
<1>1. y \in Seq(RecordEntries) /\ l \in Seq(RecordEntries) /\ f \in Nat /\ Len(y) = Len(l) + f
  BY DEF Grown
<1>2. /\ e \in RecordEntries /\ e.by = by /\ e.kind = "link" /\ e.prev = ChainHead(y)
  BY <1>1, HeadInLog DEF RecordEntries
<1>3. z = Link(y, by)
  BY DEF Link, LinkTo
<1> HIDE DEF e
<1>4. /\ z \in Seq(RecordEntries) /\ Len(z) = Len(y) + 1 /\ z[Len(y) + 1] = e
      /\ \A i \in 1..Len(y) : z[i] = y[i]
  BY <1>1, <1>2
<1>5. SubSeq(z, 1, Len(z) - 1) = y
  <2>1. Len(y) \in Nat /\ Len(z) - 1 = Len(y)
    BY <1>1, <1>4
  <2>2. SubSeq(z, 1, Len(y)) = y
    BY <1>1, <1>2
  <2> QED
    BY <2>1, <2>2
<1> HIDE DEF z
<1>6. Len(l) \in Nat /\ Len(z) = Len(l) + f + 1
  BY <1>1, <1>4
<1>7. \A i \in (Len(l) + 1)..(Len(l) + f) : z[i].by = by /\ z[i].kind = "fact"
  BY <1>1, <1>4, <1>6 DEF Grown
<1>8. \A i \in 1..Len(l) : z[i] = l[i]
  BY <1>1, <1>4, <1>6 DEF Grown
<1>9. z[Len(z)] = e
  BY <1>1, <1>4
<1>10. Grown(l, z, f, by, TRUE)
  BY <1>1, <1>2, <1>4, <1>5, <1>6, <1>7, <1>8, <1>9 DEF Grown
<1> QED
  BY <1>3, <1>10

LEMMA NothingGrows ==
  ASSUME NEW l \in Seq(RecordEntries), NEW by
  PROVE  Grown(l, l, 0, by, FALSE)
BY DEF Grown

LEMMA GrownPrefix ==
  ASSUME NEW l, NEW z, NEW f, NEW by, NEW c \in BOOLEAN, Grown(l, z, f, by, c)
  PROVE  /\ Len(l) \in Nat /\ Len(z) \in Nat /\ Len(l) <= Len(z)
         /\ l \in Seq(RecordEntries) /\ z \in Seq(RecordEntries)
         /\ \A i \in 1..Len(l) : z[i] = l[i]
         /\ \A i \in 1..Len(z) : i > Len(l) => z[i].by = by
<1>1. Len(l) \in Nat /\ Len(z) \in Nat /\ f \in Nat
  BY DEF Grown
<1>2. Len(z) = Len(l) + f + (IF c THEN 1 ELSE 0)
  BY DEF Grown
<1>3. Len(l) <= Len(z)
  BY <1>1, <1>2
<1>4. \A i \in 1..Len(z) : i > Len(l) => z[i].by = by
  <2> SUFFICES ASSUME NEW i \in 1..Len(z), i > Len(l) PROVE z[i].by = by
    OBVIOUS
  <2>1. i \in (Len(l) + 1)..(Len(l) + f) \/ (c /\ i = Len(z))
    BY <1>1, <1>2
  <2> QED
    BY <2>1 DEF Grown
<1> QED
  BY <1>1, <1>3, <1>4 DEF Grown

NewFacts(l, f) == (Len(l) + 1)..(Len(l) + f)

LEMMA GrownFacts ==
  ASSUME NEW l, NEW z, NEW f, NEW by, NEW c \in BOOLEAN, Grown(l, z, f, by, c), NEW k
  PROVE  FactsIn(z, k) =
           IF k = by THEN FactsIn(l, k) \cup NewFacts(l, f) ELSE FactsIn(l, k)
<1>0. /\ Len(l) \in Nat /\ Len(z) \in Nat /\ f \in Nat
      /\ Len(z) = Len(l) + f + (IF c THEN 1 ELSE 0)
  BY DEF Grown
<1>1. /\ Len(l) \in Nat /\ Len(z) \in Nat /\ f \in Nat
      /\ Len(l) + f <= Len(z) /\ Len(z) <= Len(l) + f + 1
  <2>1. Len(z) = Len(l) + f + 1 \/ Len(z) = Len(l) + f + 0
    BY <1>0, Zenon
  <2> QED
    BY <1>0, <2>1
<1>2. \A i \in 1..Len(z) : i > Len(l) + f => i = Len(z) /\ c
  <2>1. c \/ Len(z) = Len(l) + f + 0
    BY <1>0, Zenon
  <2>2. \A i \in 1..Len(z) : i > Len(l) + f => i = Len(z)
    BY <1>1
  <2>3. \A i \in 1..Len(z) : Len(z) = Len(l) + f + 0 => ~(i > Len(l) + f)
    BY <1>1
  <2> QED
    BY <2>1, <2>2, <2>3, Zenon
<1>3. \A i : i \in FactsIn(z, k) <=>
        i \in FactsIn(l, k) \/ (k = by /\ i \in (Len(l) + 1)..(Len(l) + f))
  <2> TAKE i
  <2>1. CASE i \in 1..Len(l)
    BY <1>1, <2>1 DEF Grown, FactsIn
  <2>2. CASE i \in (Len(l) + 1)..(Len(l) + f)
    BY <1>1, <2>2 DEF Grown, FactsIn
  <2>3. CASE i \notin 1..Len(l) /\ i \notin (Len(l) + 1)..(Len(l) + f)
    <3>1. i \in 1..Len(z) => i > Len(l) + f
      BY <1>1, <2>3
    <3>2. i \in 1..Len(z) => z[i].kind = "link"
      BY <1>2, <3>1 DEF Grown
    <3> QED
      BY <2>3, <3>2 DEF FactsIn
  <2> QED
    BY <2>1, <2>2, <2>3
<1> QED
  BY <1>3 DEF NewFacts

LEMMA FreshFacts ==
  ASSUME NEW l, NEW z, NEW f, NEW by, NEW c \in BOOLEAN, Grown(l, z, f, by, c), FactsIn(l, by) = {}
  PROVE  Cardinality(FactsIn(z, by)) = f
<1> DEFINE n == Len(l)
<1>1. n \in Nat /\ f \in Nat
  BY DEF Grown
<1>2. FactsIn(z, by) = NewFacts(l, f)
  BY GrownFacts
<1> HIDE DEF n
<1>3. n + 1 \in Int /\ n + f \in Int
  BY <1>1
<1>4. Cardinality((n + 1)..(n + f)) = IF n + 1 > n + f THEN 0 ELSE (n + f) - (n + 1) + 1
  BY <1>3, FS_Interval
<1> QED
  BY <1>1, <1>2, <1>4 DEF NewFacts, n

LEMMA GrownLinks ==
  ASSUME NEW l, NEW z, NEW f, NEW by, NEW c \in BOOLEAN, Grown(l, z, f, by, c), LinksLast(l)
  PROVE  LinksLast(z)
<1>1. /\ Len(l) \in Nat /\ Len(z) \in Nat /\ f \in Nat /\ Len(l) + f <= Len(z)
      /\ l \in Seq(RecordEntries) /\ z \in Seq(RecordEntries) /\ \A i \in 1..Len(l) : z[i] = l[i]
  BY DEF Grown
<1> SUFFICES ASSUME NEW i \in 1..Len(z), z[i].kind = "link"
             PROVE  z[i].prev = ChainHead(SubSeq(z, 1, i - 1))
  BY DEF LinksLast
<1>2. CASE i <= Len(l)
  <2>1. SubSeq(z, 1, i - 1) = SubSeq(l, 1, i - 1)
    <3> DEFINE a == SubSeq(z, 1, i - 1)
               b == SubSeq(l, 1, i - 1)
    <3>1. a \in Seq(RecordEntries) /\ Len(a) = i - 1 /\ \A j \in 1..(i - 1) : a[j] = z[j]
      BY <1>1, <1>2
    <3>2. b \in Seq(RecordEntries) /\ Len(b) = i - 1 /\ \A j \in 1..(i - 1) : b[j] = l[j]
      BY <1>1, <1>2
    <3>3. \A j \in 1..(i - 1) : z[j] = l[j]
      BY <1>1, <1>2
    <3> HIDE DEF a, b
    <3>4. a = b
      BY <3>1, <3>2, <3>3
    <3> QED
      BY <3>4 DEF a, b
  <2>2. i \in 1..Len(l) /\ z[i] = l[i]
    BY <1>1, <1>2
  <2>3. l[i].prev = ChainHead(SubSeq(l, 1, i - 1))
    BY <2>2 DEF LinksLast
  <2> QED
    BY <2>1, <2>2, <2>3
<1>3. CASE i > Len(l) /\ i <= Len(l) + f
  BY <1>1, <1>3 DEF Grown
<1>4. CASE i > Len(l) + f
  <2>1. i = Len(z) /\ c
    BY <1>1, <1>4 DEF Grown
  <2>2. z[Len(z)].prev = ChainHead(SubSeq(z, 1, Len(z) - 1))
    BY <2>1 DEF Grown
  <2> QED
    BY <2>1, <2>2
<1> QED
  BY <1>1, <1>2, <1>3, <1>4

LogGrown(f, by, ch) == \A s \in Scopes : Grown(log[s], log'[s], f[s], by, s \in ch)

\* A key is receipted exactly when its row is applied; only a claimed identity
\* is owned by another key, and it is applied when it is claimed.
KeyRowInv ==
  \A k \in RecordKeys :
    /\ recordReceipt[k] # RecordNone <=> (recordRow[k] # RecordNone /\ recordRow[k].status = "applied")
    /\ recordRow[k] # RecordNone /\ recordRow[k].status # "applied" => recordRow[k].owner = k
    /\ factset[k] # RecordNone => recordReceipt[k] # RecordNone

\* Only a receipted owner has entries, and it has the facts of its snapshot.
WrittenInv ==
  \A s \in Scopes : \A i \in 1..Len(log[s]) : \A k \in RecordKeys :
    log[s][i].by = k => recordReceipt[k] # RecordNone /\ recordRow[k].owner = k

CountInv ==
  \A k \in RecordKeys, s \in Scopes :
    recordReceipt[k] # RecordNone /\ recordRow[k].owner = k =>
      Cardinality(FactsIn(log[s], k)) = Facts[recordRow[k].snap][s]

\* A request answered Ok would be answered Ok again.
ToldInv ==
  /\ \A q \in told : Replayable(q, RecordNone)
  /\ \A d \in committed : d.req \in told

LogFits == \A s \in Scopes : Len(log[s]) <= MaxEvents

RecordInv ==
  /\ RecordTypeOK /\ LogFits /\ KeyRowInv /\ WrittenInv /\ CountInv /\ ToldInv
  /\ ProvenanceExact /\ ~wronged

LEMMA AppendedGrows ==
  ASSUME RecordTypeOK, NEW n \in RecordSnaps, NEW by \in RecordKeys, NEW chained \in BOOLEAN
  PROVE  /\ Appended(n, by, chained) \in [Scopes -> Seq(RecordEntries)]
         /\ \A s \in Scopes : Grown(log[s], Appended(n, by, chained)[s], Facts[n][s], by,
                                    s \in (IF chained THEN {Chain} ELSE {}))
<1> DEFINE w == [s \in Scopes |-> log[s] \o FactRows(n, s, by)]
<1>1. \A s \in Scopes : Grown(log[s], w[s], Facts[n][s], by, FALSE)
  <2> SUFFICES ASSUME NEW s \in Scopes PROVE Grown(log[s], w[s], Facts[n][s], by, FALSE)
    OBVIOUS
  <2> DEFINE e == [by |-> by, kind |-> "fact", prev |-> 0]
             m == Facts[n][s]
  <2>1. log[s] \in Seq(RecordEntries) /\ m \in Nat
    BY RecordAssumption DEF RecordTypeOK
  <2>2. w[s] = log[s] \o [i \in 1..m |-> e]
    BY DEF FactRows
  <2> HIDE DEF e, m, w
  <2>3. Grown(log[s], log[s] \o [i \in 1..m |-> e], m, by, FALSE)
    BY <2>1, FactsGrow DEF e
  <2> QED
    BY <2>2, <2>3 DEF m
<1>2. Grown(log[Chain], Link(w[Chain], by), Facts[n][Chain], by, TRUE)
  <2> HIDE DEF w
  <2> QED
    BY <1>1, LinkGrows, RecordAssumption
<1>3. Appended(n, by, chained) = IF chained THEN [w EXCEPT ![Chain] = Link(w[Chain], by)] ELSE w
  BY DEF Appended
<1>4. w \in [Scopes -> Seq(RecordEntries)]
  BY <1>1 DEF Grown
<1> HIDE DEF w
<1>5. Link(w[Chain], by) \in Seq(RecordEntries)
  BY <1>2 DEF Grown
<1>6. CASE chained
  <2> DEFINE z == [w EXCEPT ![Chain] = Link(w[Chain], by)]
  <2>1. z \in [Scopes -> Seq(RecordEntries)]
    BY <1>4, <1>5, RecordAssumption
  <2>2. z[Chain] = Link(w[Chain], by) /\ \A s \in Scopes : s # Chain => z[s] = w[s]
    BY <1>4, RecordAssumption
  <2> HIDE DEF z
  <2>3. \A s \in Scopes : Grown(log[s], z[s], Facts[n][s], by, s \in {Chain})
    <3> TAKE s \in Scopes
    <3>1. CASE s = Chain
      <4>1. (s \in {Chain}) = TRUE
        BY <3>1
      <4> QED
        BY <3>1, <4>1, <1>2, <2>2
    <3>2. CASE s # Chain
      <4>1. (s \in {Chain}) = FALSE
        BY <3>2
      <4> QED
        BY <3>2, <4>1, <1>1, <2>2
    <3> QED
      BY <3>1, <3>2
  <2>4. Appended(n, by, chained) = z
    BY <1>3, <1>6 DEF z
  <2> QED
    BY <1>6, <2>1, <2>3, <2>4
<1>7. CASE ~chained
  <2>1. \A s \in Scopes : (s \in {}) = FALSE
    OBVIOUS
  <2> QED
    BY <1>1, <1>3, <1>4, <1>7, <2>1
<1> QED
  BY <1>6, <1>7

LEMMA ScopeGrown ==
  ASSUME NEW f, NEW by, NEW ch, LogGrown(f, by, ch), NEW s \in Scopes
  PROVE  \E c \in BOOLEAN : Grown(log[s], log'[s], f[s], by, c)
<1>1. (s \in ch) \in BOOLEAN
  OBVIOUS
<1>2. Grown(log[s], log'[s], f[s], by, s \in ch)
  BY DEF LogGrown
<1> QED
  BY <1>1, <1>2

\* What a transaction leaves of the keys that are not its own.
LEMMA OthersKept ==
  ASSUME RecordTypeOK, NEW f, NEW by, NEW ch, LogGrown(f, by, ch),
         NEW k \in RecordKeys, k # by
  PROVE  /\ \A s \in Scopes : FactsIn(log'[s], k) = FactsIn(log[s], k)
         /\ By(k)' = By(k)
<1>1. \A s \in Scopes : FactsIn(log'[s], k) = FactsIn(log[s], k)
  BY ScopeGrown, GrownFacts
<1>2. ASSUME NEW s \in Scopes, NEW i \in 1..MaxEvents
      PROVE  (i <= Len(log'[s]) /\ log'[s][i].by = k) <=> (i <= Len(log[s]) /\ log[s][i].by = k)
  <2>1. /\ Len(log[s]) \in Nat /\ Len(log'[s]) \in Nat /\ Len(log[s]) <= Len(log'[s])
        /\ \A j \in 1..Len(log[s]) : log'[s][j] = log[s][j]
        /\ \A j \in 1..Len(log'[s]) : j > Len(log[s]) => log'[s][j].by = by
    BY ScopeGrown, GrownPrefix
  <2>2. MaxEvents \in Nat /\ i \in Nat /\ i >= 1
    BY RecordAssumption
  <2>3. CASE i <= Len(log[s])
    BY <2>1, <2>2, <2>3
  <2>4. CASE ~(i <= Len(log[s]))
    BY <2>1, <2>2, <2>4
  <2> QED
    BY <2>3, <2>4
<1>3. By(k)' = By(k)
  BY <1>2 DEF By
<1> QED
  BY <1>1, <1>3

LEMMA RequestTyped ==
  ASSUME NEW q \in RecordRequests
  PROVE  /\ q.key \in RecordKeys /\ q.snap \in RecordSnaps
         /\ \A x \in q.claims : x[1] \in RecordKeys \ {q.key} /\ x[2] \in RecordSnaps
         /\ \A x, y \in q.claims : x[1] = y[1] => x = y
<1>1. PICK k \in RecordKeys : q \in [key : {k}, snap : RecordSnaps, claims : ClaimSets(k)]
  BY DEF RecordRequests
<1>2. q.key = k /\ q.snap \in RecordSnaps /\ q.claims \in ClaimSets(k)
  BY <1>1
<1>3. q.claims \subseteq (RecordKeys \ {k}) \X RecordSnaps
  BY <1>2 DEF ClaimSets
<1>4. \A x, y \in q.claims : x[1] = y[1] => x = y
  BY <1>2 DEF ClaimSets
<1> QED
  BY <1>2, <1>3, <1>4

\* What a step must do to keep the invariant: leave receipted keys alone,
\* append only for a key it receipts, and answer Ok only what it can replay.
LEMMA StepKeeps ==
  ASSUME RecordInv, RecordTypeOK', LogFits', KeyRowInv',
         NEW f \in [Scopes -> Nat], NEW by \in RecordKeys \cup {RecordNone}, NEW ch,
         LogGrown(f, by, ch),
         \A k \in RecordKeys : recordReceipt[k] # RecordNone =>
           k # by /\ recordReceipt'[k] # RecordNone /\ recordRow'[k] = recordRow[k],
         \A k \in RecordKeys : recordReceipt'[k] # RecordNone /\ recordRow'[k].owner = k =>
           recordReceipt[k] # RecordNone \/ (k = by /\ f = Facts[recordRow'[k].snap]),
         by \in RecordKeys => recordReceipt'[by] # RecordNone /\ recordRow'[by].owner = by,
         \A k \in RecordKeys : factset'[k] = factset[k] \/ factset'[k] = By(k)',
         \A q \in told' : q \in told \/ Replayable(q, RecordNone)',
         \A d \in committed' : d.req \in told',
         told \subseteq told', ~wronged'
  PROVE  RecordInv'
<1> USE DEF RecordInv
<1>1. \A k \in RecordKeys : k # by =>
        /\ \A s \in Scopes : FactsIn(log'[s], k) = FactsIn(log[s], k)
        /\ By(k)' = By(k)
  BY OthersKept
<1>2. WrittenInv'
  <2> SUFFICES ASSUME NEW s \in Scopes, NEW i \in 1..Len(log'[s]), NEW k \in RecordKeys,
                      log'[s][i].by = k
               PROVE  recordReceipt'[k] # RecordNone /\ recordRow'[k].owner = k
    BY DEF WrittenInv
  <2>1. /\ Len(log[s]) \in Nat /\ Len(log'[s]) \in Nat /\ Len(log[s]) <= Len(log'[s])
        /\ \A j \in 1..Len(log[s]) : log'[s][j] = log[s][j]
        /\ \A j \in 1..Len(log'[s]) : j > Len(log[s]) => log'[s][j].by = by
    BY ScopeGrown, GrownPrefix
  <2>2. CASE i \in 1..Len(log[s])
    <3>1. log[s][i].by = k
      BY <2>1, <2>2
    <3>2. recordReceipt[k] # RecordNone /\ recordRow[k].owner = k
      BY <2>2, <3>1, Zenon DEF WrittenInv
    <3>3. recordReceipt'[k] # RecordNone /\ recordRow'[k] = recordRow[k]
      BY <3>2, Zenon
    <3> QED
      BY <3>2, <3>3, Zenon
  <2>3. CASE i > Len(log[s])
    BY <2>1, <2>3
  <2> QED
    BY <2>1, <2>2, <2>3
<1>3. CountInv'
  <2> SUFFICES ASSUME NEW k \in RecordKeys, NEW s \in Scopes,
                      recordReceipt'[k] # RecordNone, recordRow'[k].owner = k
               PROVE  Cardinality(FactsIn(log'[s], k)) = Facts[recordRow'[k].snap][s]
    BY DEF CountInv
  <2>1. CASE recordReceipt[k] # RecordNone
    BY <1>1, <2>1 DEF CountInv
  <2>2. CASE recordReceipt[k] = RecordNone
    <3>1. k = by /\ f = Facts[recordRow'[k].snap]
      BY <2>2
    <3>2. FactsIn(log[s], k) = {}
      BY <2>2 DEF WrittenInv, FactsIn
    <3>3. PICK c \in BOOLEAN : Grown(log[s], log'[s], f[s], by, c)
      BY ScopeGrown
    <3>a. k = by
      BY <3>1
    <3>4. Cardinality(FactsIn(log'[s], by)) = f[s]
      BY <3>a, <3>2, <3>3, FreshFacts
    <3> QED
      BY <3>1, <3>4
  <2> QED
    BY <2>1, <2>2
<1>4. ProvenanceExact'
  <2> SUFFICES ASSUME NEW k \in RecordKeys, factset'[k] # RecordNone, factset'[k] = factset[k]
               PROVE  factset'[k] = By(k)'
    BY DEF ProvenanceExact
  <2>1. k # by
    BY DEF KeyRowInv
  <2> QED
    BY <1>1, <2>1 DEF ProvenanceExact
<1>5. ToldInv'
  <2>1. ASSUME NEW q \in told PROVE Replayable(q, RecordNone)'
    <3>1. Replayable(q, RecordNone)
      BY DEF ToldInv
    <3>2. q.key \in RecordKeys /\ \A x \in q.claims : x[1] \in RecordKeys
      BY RequestTyped DEF RecordTypeOK
    <3>3. ~Conflicts(q)'
      BY <3>1, <3>2 DEF Replayable, Replays, Conflicts
    <3>4. \A x \in q.claims : ClaimHeld(q, x)'
      <4> TAKE x \in q.claims
      <4>1. ClaimHeld(q, x) /\ x[1] \in RecordKeys
        BY <3>1, <3>2 DEF Replayable
      <4> QED
        BY <4>1 DEF ClaimHeld
    <3>5. Replays(q)'
      BY <3>1, <3>2, <3>3 DEF Replayable, Replays
    <3> QED
      BY <3>4, <3>5 DEF Replayable, ReplayAllowed
  <2> QED
    BY <2>1 DEF ToldInv
<1> QED
  BY <1>2, <1>3, <1>4, <1>5

Staged(d) ==
  d.basis # RecordNone /\ Facts[d.req.snap][d.basis.scope] > 0 =>
    /\ d.basis.head < Len(log[d.basis.scope])
    /\ log[d.basis.scope][d.basis.head + 1].by = d.req.key

LEMMA OrderKeeps ==
  ASSUME RecordTypeOK, OrderKept, NEW f, NEW by, NEW ch, LogGrown(f, by, ch),
         \A d \in committed' : d \in committed \/ Staged(d)'
  PROVE  OrderKept'
<1>1. ChainLinear'
  <2>1. PICK c \in BOOLEAN : Grown(log[Chain], log'[Chain], f[Chain], by, c)
    BY ScopeGrown, RecordAssumption
  <2>2. LinksLast(log[Chain])
    BY DEF OrderKept, ChainLinear, LinksLast
  <2>3. LinksLast(log'[Chain])
    BY <2>1, <2>2, GrownLinks
  <2> QED
    BY <2>3 DEF ChainLinear, LinksLast
<1>2. ASSUME NEW d \in committed PROVE Staged(d)'
  <2> SUFFICES ASSUME d.basis # RecordNone, Facts[d.req.snap][d.basis.scope] > 0
               PROVE  /\ d.basis.head < Len(log'[d.basis.scope])
                      /\ log'[d.basis.scope][d.basis.head + 1].by = d.req.key
    BY DEF Staged
  <2> DEFINE x == d.basis.scope
             h == d.basis.head
  <2>1. d.basis \in [scope : Scopes, head : Nat]
    BY DEF RecordTypeOK, Bases
  <2>2. x \in Scopes /\ h \in Nat
    BY <2>1
  <2>3. h < Len(log[x]) /\ log[x][h + 1].by = d.req.key
    BY DEF OrderKept, StagedOnBasis
  <2> HIDE DEF x, h
  <2>4. /\ Len(log[x]) \in Nat /\ Len(log'[x]) \in Nat /\ Len(log[x]) <= Len(log'[x])
        /\ \A j \in 1..Len(log[x]) : log'[x][j] = log[x][j]
    BY <2>2, ScopeGrown, GrownPrefix
  <2>5. h < Len(log'[x]) /\ log'[x][h + 1].by = d.req.key
    BY <2>2, <2>3, <2>4
  <2> QED
    BY <2>5 DEF x, h
<1>3. \A d \in committed' : Staged(d)'
  BY <1>2
<1> QED
  BY <1>1, <1>3 DEF OrderKept, StagedOnBasis, Staged

LEMMA StillLog ==
  ASSUME RecordTypeOK, log' = log
  PROVE  LogGrown([s \in Scopes |-> 0], RecordNone, {})
<1> SUFFICES ASSUME NEW s \in Scopes
             PROVE  Grown(log[s], log'[s], 0, RecordNone, s \in {})
  BY DEF LogGrown
<1>1. (s \in {}) = FALSE
  OBVIOUS
<1>2. log[s] \in Seq(RecordEntries)
  BY DEF RecordTypeOK
<1> QED
  BY <1>1, <1>2, NothingGrows

LEMMA RecordStart == RecordInit => RecordInv /\ OrderKept
<1> SUFFICES ASSUME RecordInit PROVE RecordInv /\ OrderKept
  OBVIOUS
<1>1. RecordTypeOK
  <2>1. log \in [Scopes -> Seq(RecordEntries)]
    BY DEF RecordInit
  <2>2. /\ recordRow \in [RecordKeys -> RecordRows \cup {RecordNone}]
        /\ recordReceipt \in [RecordKeys -> Nat \cup {RecordNone}]
        /\ factset \in [RecordKeys -> {RecordNone} \cup SUBSET (Scopes \X Nat)]
    BY DEF RecordInit
  <2> QED
    BY <2>1, <2>2 DEF RecordInit, RecordTypeOK
<1>2. \A s \in Scopes : log[s] = <<>> /\ Len(log[s]) = 0
  BY DEF RecordInit
<1>a. LogFits /\ WrittenInv
  BY <1>2, RecordAssumption DEF LogFits, WrittenInv
<1>b. KeyRowInv /\ CountInv /\ ToldInv
  BY DEF RecordInit, KeyRowInv, CountInv, ToldInv
<1>3. ProvenanceExact /\ ~wronged
  BY DEF RecordInit, ProvenanceExact
<1>4. OrderKept
  BY <1>2, RecordAssumption DEF RecordInit, OrderKept, ChainLinear, StagedOnBasis
<1> QED
  BY <1>1, <1>a, <1>b, <1>3, <1>4 DEF RecordInv

LEMMA PlainStep ==
  ASSUME RecordInv, OrderKept, NEW s \in Scopes, AppendPlainRecord(s)
  PROVE  RecordInv' /\ OrderKept'
<1> DEFINE e == [by |-> RecordNone, kind |-> "fact", prev |-> 0]
           f == [x \in Scopes |-> IF x = s THEN 1 ELSE 0]
<1>1. RecordTypeOK /\ LogFits /\ KeyRowInv /\ ToldInv /\ ~wronged
  BY DEF RecordInv
<1>2. /\ log \in [Scopes -> Seq(RecordEntries)] /\ Len(log[s]) \in Nat /\ Len(log[s]) < MaxEvents
      /\ log' = [log EXCEPT ![s] = Append(log[s], e)]
      /\ UNCHANGED <<recordRow, recordReceipt, factset, committed, told, wronged>>
  BY <1>1 DEF AppendPlainRecord, RecordTypeOK, history
<1>3. e \in RecordEntries /\ e.by = RecordNone /\ e.kind = "fact"
  BY DEF RecordEntries
<1> HIDE DEF e
<1>4. /\ Append(log[s], e) \in Seq(RecordEntries) /\ Len(Append(log[s], e)) = Len(log[s]) + 1
      /\ Append(log[s], e)[Len(log[s]) + 1] = e
      /\ \A i \in 1..Len(log[s]) : Append(log[s], e)[i] = log[s][i]
  BY <1>2, <1>3
<1>5. Grown(log[s], Append(log[s], e), 1, RecordNone, FALSE)
  BY <1>2, <1>3, <1>4 DEF Grown
<1>6. RecordTypeOK' /\ LogFits'
  BY <1>1, <1>2, <1>4, RecordAssumption DEF RecordTypeOK, LogFits
<1>7. LogGrown(f, RecordNone, {})
  <2> SUFFICES ASSUME NEW x \in Scopes
               PROVE  Grown(log[x], log'[x], IF x = s THEN 1 ELSE 0, RecordNone, x \in {})
    BY DEF LogGrown
  <2>1. (x \in {}) = FALSE
    OBVIOUS
  <2>2. CASE x = s
    BY <1>2, <1>5, <2>1, <2>2
  <2>3. CASE x # s
    BY <1>2, <2>1, <2>3, NothingGrows
  <2> QED
    BY <2>2, <2>3
<1>8. f \in [Scopes -> Nat]
  OBVIOUS
<1> HIDE DEF f
<1>9. KeyRowInv'
  BY <1>1, <1>2 DEF KeyRowInv
<1>10. RecordInv'
  BY <1>1, <1>2, <1>6, <1>7, <1>8, <1>9, StepKeeps, RecordNoneAssumption DEF ToldInv
<1>11. OrderKept'
  BY <1>1, <1>2, <1>7, OrderKeeps
<1> QED
  BY <1>10, <1>11

LEMMA ChainedStep ==
  ASSUME RecordInv, OrderKept, AppendChainedRecord
  PROVE  RecordInv' /\ OrderKept'
<1> DEFINE f == [x \in Scopes |-> 0]
           z == Link(log[Chain], RecordNone)
<1>1. RecordTypeOK /\ LogFits /\ KeyRowInv /\ ToldInv /\ ~wronged
  BY DEF RecordInv
<1>2. /\ log \in [Scopes -> Seq(RecordEntries)] /\ Len(log[Chain]) \in Nat /\ Len(log[Chain]) < MaxEvents
      /\ log' = [log EXCEPT ![Chain] = z]
      /\ UNCHANGED <<recordRow, recordReceipt, factset, committed, told, wronged>>
  BY <1>1, RecordAssumption DEF AppendChainedRecord, RecordTypeOK, history
<1>3. Grown(log[Chain], log[Chain], 0, RecordNone, FALSE)
  BY <1>2, NothingGrows, RecordAssumption
<1>4. Grown(log[Chain], z, 0, RecordNone, TRUE)
  BY <1>3, LinkGrows
<1> HIDE DEF z
<1>5. z \in Seq(RecordEntries) /\ Len(z) = Len(log[Chain]) + 1
  BY <1>2, <1>4 DEF Grown
<1>6. RecordTypeOK' /\ LogFits'
  BY <1>1, <1>2, <1>5, RecordAssumption DEF RecordTypeOK, LogFits
<1>7. LogGrown(f, RecordNone, {Chain})
  <2> SUFFICES ASSUME NEW x \in Scopes
               PROVE  Grown(log[x], log'[x], 0, RecordNone, x \in {Chain})
    BY DEF LogGrown
  <2>1. CASE x = Chain
    <3>1. (x \in {Chain}) = TRUE
      BY <2>1
    <3> QED
      BY <1>2, <1>4, <2>1, <3>1
  <2>2. CASE x # Chain
    <3>1. (x \in {Chain}) = FALSE
      BY <2>2
    <3> QED
      BY <1>2, <2>2, <3>1, NothingGrows
  <2> QED
    BY <2>1, <2>2
<1>8. f \in [Scopes -> Nat]
  OBVIOUS
<1> HIDE DEF f
<1>9. KeyRowInv'
  BY <1>1, <1>2 DEF KeyRowInv
<1>10. RecordInv'
  BY <1>1, <1>2, <1>6, <1>7, <1>8, <1>9, StepKeeps, RecordNoneAssumption DEF ToldInv
<1>11. OrderKept'
  BY <1>1, <1>2, <1>7, OrderKeeps
<1> QED
  BY <1>10, <1>11

\* The steps that leave the log and every receipt alone.
LEMMA QuietStep ==
  ASSUME RecordInv, OrderKept, UNCHANGED <<log, recordReceipt, factset, committed>>,
         RecordTypeOK', KeyRowInv',
         \A k \in RecordKeys : recordReceipt[k] # RecordNone => recordRow'[k] = recordRow[k],
         told \subseteq told', \A q \in told' : q \in told \/ Replayable(q, RecordNone)',
         ~wronged'
  PROVE  RecordInv' /\ OrderKept'
<1> DEFINE f == [x \in Scopes |-> 0]
<1>1. RecordTypeOK /\ LogFits /\ KeyRowInv /\ ToldInv
  BY DEF RecordInv
<1>2. f \in [Scopes -> Nat] /\ LogGrown(f, RecordNone, {})
  BY <1>1, StillLog
<1> HIDE DEF f
<1>3. LogFits'
  BY <1>1 DEF LogFits
<1>4. \A d \in committed' : d.req \in told'
  BY <1>1 DEF ToldInv
<1>5. RecordInv'
  BY <1>2, <1>3, <1>4, StepKeeps, RecordNoneAssumption
<1>6. OrderKept'
  BY <1>1, <1>2, OrderKeeps
<1> QED
  BY <1>5, <1>6

LEMMA RowTyped ==
  ASSUME RecordTypeOK, NEW k \in RecordKeys, recordRow[k] # RecordNone
  PROVE  recordRow[k] \in RecordRows
BY DEF RecordTypeOK

LEMMA AppliedTyped ==
  ASSUME RecordTypeOK, NEW n \in RecordSnaps, NEW chained \in BOOLEAN
  PROVE  AppliedAt(n, chained) \in Nat
<1>1. \A s \in Scopes : Head_(s) + 1 \in Nat
  BY DEF Head_, RecordTypeOK
<1>2. CASE \E s \in Scopes : Facts[n][s] > 0
  <2>1. (CHOOSE s \in Scopes : Facts[n][s] > 0) \in Scopes
    BY <1>2
  <2> QED
    BY <1>1, <1>2, <2>1 DEF AppliedAt
<1>3. CASE ~\E s \in Scopes : Facts[n][s] > 0
  BY <1>1, <1>3, RecordAssumption DEF AppliedAt
<1> QED
  BY <1>2, <1>3

LEMMA ReplayStep ==
  ASSUME RecordInv, OrderKept, NEW q \in RecordRequests, NEW basis, AdmitReplay(q, basis)
  PROVE  RecordInv' /\ OrderKept'
<1>1. RecordTypeOK /\ KeyRowInv /\ ~wronged
  BY DEF RecordInv
<1>2. /\ Replays(q) /\ \A x \in q.claims : ClaimHeld(q, x)
      /\ recordRow' = [recordRow EXCEPT ![q.key] =
           [owner |-> q.key, snap |-> q.snap, status |-> "applied"]]
      /\ told' = told \cup {q}
      /\ UNCHANGED <<log, recordReceipt, factset, committed, wronged>>
  BY DEF AdmitReplay, Replayable
<1>3. q.key \in RecordKeys
  BY RequestTyped
<1>4. recordRow[q.key] = [owner |-> q.key, snap |-> q.snap, status |-> "applied"]
  <2>1. /\ recordRow[q.key] # RecordNone /\ recordRow[q.key].status = "applied"
        /\ recordRow[q.key].snap = q.snap /\ recordRow[q.key].owner = q.key
    BY <1>1, <1>2, <1>3 DEF Replays, Conflicts, KeyRowInv
  <2> QED
    BY <1>1, <1>3, <2>1, RowTyped DEF RecordRows
<1>5. recordRow' = recordRow
  BY <1>1, <1>2, <1>3, <1>4 DEF RecordTypeOK
<1>6. RecordTypeOK'
  BY <1>1, <1>2, <1>5 DEF RecordTypeOK
<1>7. KeyRowInv'
  BY <1>1, <1>2, <1>5 DEF KeyRowInv
<1>8. Replayable(q, RecordNone)'
  BY <1>2, <1>5 DEF Replayable, Replays, Conflicts, ClaimHeld, ReplayAllowed
<1> QED
  BY <1>1, <1>2, <1>5, <1>6, <1>7, <1>8, QuietStep

LEMMA RefusedStep ==
  ASSUME RecordInv, OrderKept, NEW q \in RecordRequests, NEW basis, AdmitRefused(q, basis)
  PROVE  RecordInv' /\ OrderKept'
<1>1. RecordTypeOK /\ KeyRowInv /\ ToldInv /\ ~wronged
  BY DEF RecordInv
<1>2. UNCHANGED <<log, recordRow, recordReceipt, factset, committed, told>>
  BY DEF AdmitRefused, recordTables
<1>3. ~\E d \in committed : d.req = q
  BY <1>1 DEF AdmitRefused, ToldInv, Replayable, ReplayAllowed
<1>4. ~wronged'
  BY <1>1, <1>3 DEF AdmitRefused
<1>a. wronged' \in BOOLEAN
  BY DEF AdmitRefused
<1>5. RecordTypeOK' /\ KeyRowInv'
  BY <1>1, <1>2, <1>a DEF RecordTypeOK, KeyRowInv
<1> QED
  BY <1>2, <1>4, <1>5, QuietStep

LEMMA ClaimCommandStep ==
  ASSUME RecordInv, OrderKept, NEW k \in RecordKeys, NEW n \in RecordSnaps, ClaimCommand(k, n)
  PROVE  RecordInv' /\ OrderKept'
<1> DEFINE r == [owner |-> k, snap |-> n, status |-> "processing"]
<1>1. RecordTypeOK /\ KeyRowInv /\ ~wronged
  BY DEF RecordInv
<1>2. /\ recordRow[k] = RecordNone /\ recordRow' = [recordRow EXCEPT ![k] = r]
      /\ UNCHANGED <<log, recordReceipt, factset, committed, told, wronged>>
  BY DEF ClaimCommand, history
<1>3. r \in RecordRows /\ r.owner = k /\ r.status = "processing"
  BY DEF RecordRows, RecordStatuses
<1> HIDE DEF r
<1>4. /\ recordRow'[k] = r /\ recordReceipt[k] = RecordNone
      /\ \A j \in RecordKeys : j # k => recordRow'[j] = recordRow[j]
  BY <1>1, <1>2 DEF KeyRowInv, RecordTypeOK
<1>5. RecordTypeOK'
  BY <1>1, <1>2, <1>3 DEF RecordTypeOK
<1>6. KeyRowInv'
  BY <1>1, <1>2, <1>3, <1>4 DEF KeyRowInv
<1> QED
  BY <1>1, <1>2, <1>4, <1>5, <1>6, QuietStep

LEMMA FailStep ==
  ASSUME RecordInv, OrderKept, NEW k \in RecordKeys, FailClaimed(k)
  PROVE  RecordInv' /\ OrderKept'
<1> DEFINE r == [recordRow[k] EXCEPT !.status = "rejected"]
<1>1. RecordTypeOK /\ KeyRowInv /\ ~wronged
  BY DEF RecordInv
<1>2. /\ recordRow[k] # RecordNone /\ recordRow[k].status = "processing"
      /\ recordReceipt[k] = RecordNone /\ recordRow' = [recordRow EXCEPT ![k] = r]
      /\ UNCHANGED <<log, recordReceipt, factset, committed, told, wronged>>
  BY DEF FailClaimed, history
<1>3. recordRow[k] \in RecordRows
  BY <1>1, <1>2, RowTyped
<1>4. r \in RecordRows /\ r.owner = recordRow[k].owner /\ r.status = "rejected"
  BY <1>3 DEF RecordRows, RecordStatuses
<1> HIDE DEF r
<1>5. recordRow'[k] = r /\ \A j \in RecordKeys : j # k => recordRow'[j] = recordRow[j]
  BY <1>1, <1>2 DEF RecordTypeOK
<1>6. RecordTypeOK'
  BY <1>1, <1>2, <1>4 DEF RecordTypeOK
<1>7. KeyRowInv'
  BY <1>1, <1>2, <1>4, <1>5 DEF KeyRowInv
<1> QED
  BY <1>1, <1>2, <1>5, <1>6, <1>7, QuietStep

\* A shell that finishes the key it claimed.
LEMMA CommitStep ==
  ASSUME RecordInv, OrderKept, NEW k \in RecordKeys, RecordCommitClaimed(k)
  PROVE  RecordInv' /\ OrderKept'
<1> DEFINE n == recordRow[k].snap
           r == [recordRow[k] EXCEPT !.status = "applied"]
           at == AppliedAt(n, FALSE)
           f == Facts[n]
<1>1. RecordTypeOK /\ KeyRowInv /\ ToldInv /\ ~wronged
  BY DEF RecordInv
<1>2. /\ recordRow[k] # RecordNone /\ recordRow[k].status = "processing"
      /\ Fits(Appended(n, k, FALSE)) /\ log' = Appended(n, k, FALSE)
      /\ recordReceipt' = [recordReceipt EXCEPT ![k] = at]
      /\ recordRow' = [recordRow EXCEPT ![k] = r]
      /\ UNCHANGED <<factset, committed, told, wronged>>
  BY DEF RecordCommitClaimed, history
<1>3. recordRow[k] \in RecordRows /\ recordRow[k].owner = k /\ recordReceipt[k] = RecordNone
  BY <1>1, <1>2, RowTyped DEF KeyRowInv
<1>4. n \in RecordSnaps /\ r \in RecordRows /\ r.owner = k /\ r.status = "applied" /\ r.snap = n
  BY <1>3 DEF RecordRows, RecordStatuses
<1>5. f \in [Scopes -> Nat]
  BY <1>4, RecordAssumption
<1> HIDE DEF n, r, at
<1>6. at \in Nat /\ at # RecordNone
  BY <1>1, <1>4, AppliedTyped, RecordNoneAssumption DEF at
<1>7. log' \in [Scopes -> Seq(RecordEntries)] /\ LogGrown(f, k, {})
  <2>1. /\ Appended(n, k, FALSE) \in [Scopes -> Seq(RecordEntries)]
        /\ \A s \in Scopes : Grown(log[s], Appended(n, k, FALSE)[s], Facts[n][s], k,
                                   s \in (IF FALSE THEN {Chain} ELSE {}))
    BY <1>1, <1>4, AppendedGrows
  <2> QED
    BY <1>2, <2>1 DEF LogGrown
<1> HIDE DEF f
<1>8. /\ recordRow'[k] = r /\ recordReceipt'[k] = at
      /\ \A j \in RecordKeys : j # k => recordRow'[j] = recordRow[j] /\ recordReceipt'[j] = recordReceipt[j]
  BY <1>1, <1>2 DEF RecordTypeOK
<1>9. RecordTypeOK' /\ LogFits'
  <2>1. recordRow' \in [RecordKeys -> RecordRows \cup {RecordNone}]
    BY <1>1, <1>2, <1>4 DEF RecordTypeOK
  <2>2. recordReceipt' \in [RecordKeys -> Nat \cup {RecordNone}]
    BY <1>1, <1>2, <1>6 DEF RecordTypeOK
  <2> QED
    BY <1>1, <1>2, <1>7, <2>1, <2>2 DEF RecordTypeOK, LogFits, Fits
<1>10. KeyRowInv'
  BY <1>1, <1>2, <1>3, <1>4, <1>6, <1>8, RecordNoneAssumption DEF KeyRowInv
<1>11. /\ \A j \in RecordKeys : recordReceipt[j] # RecordNone =>
            j # k /\ recordReceipt'[j] # RecordNone /\ recordRow'[j] = recordRow[j]
       /\ \A j \in RecordKeys : recordReceipt'[j] # RecordNone /\ recordRow'[j].owner = j =>
            recordReceipt[j] # RecordNone \/ (j = k /\ f = Facts[recordRow'[j].snap])
       /\ recordReceipt'[k] # RecordNone /\ recordRow'[k].owner = k
  BY <1>3, <1>4, <1>6, <1>8 DEF f
<1>12. RecordInv'
  BY <1>1, <1>2, <1>5, <1>7, <1>9, <1>10, <1>11, StepKeeps DEF ToldInv
<1>13. OrderKept'
  BY <1>1, <1>2, <1>7, OrderKeeps
<1> QED
  BY <1>12, <1>13

\* The positions of a command's facts in a scope, and of its chained record.
FactsOf(n, s) == {<<s, Head_(s) + i>> : i \in 1..Facts[n][s]}
LinkOf(n, chained) == IF chained THEN {<<Chain, Head_(Chain) + Facts[n][Chain] + 1>>} ELSE {}

LEMMA RefsOf ==
  ASSUME NEW n, NEW chained
  PROVE  \A e : e \in FactRefs(n, chained) <=>
           ((\E s \in Scopes : e \in FactsOf(n, s)) \/ e \in LinkOf(n, chained))
BY DEF FactRefs, FactsOf, LinkOf

\* The positions recorded for a first admission are the ones it was assigned.
LEMMA RefsExact ==
  ASSUME RecordTypeOK, LogFits', NEW k \in RecordKeys, NEW n \in RecordSnaps, NEW chained \in BOOLEAN,
         log' = Appended(n, k, chained),
         \A s \in Scopes : \A i \in 1..Len(log[s]) : log[s][i].by # k
  PROVE  FactRefs(n, chained) = By(k)'
<1> DEFINE c(s) == chained /\ s = Chain
<1>1. ASSUME NEW s \in Scopes
      PROVE  /\ Len(log[s]) \in Nat /\ Facts[n][s] \in Nat /\ Len(log'[s]) \in Nat
             /\ Len(log'[s]) = Len(log[s]) + Facts[n][s] + (IF c(s) THEN 1 ELSE 0)
             /\ \A i \in 1..Len(log'[s]) : log'[s][i].by = k <=> i > Len(log[s])
  <2>3. Grown(log[s], log'[s], Facts[n][s], k, c(s))
    <3>1. Grown(log[s], log'[s], Facts[n][s], k, s \in (IF chained THEN {Chain} ELSE {}))
      BY AppendedGrows
    <3>2. CASE c(s)
      <4>1. (s \in (IF chained THEN {Chain} ELSE {})) = TRUE /\ c(s) = TRUE
        BY <3>2
      <4> HIDE DEF c
      <4> QED
        BY <3>1, <4>1
    <3>a. CASE ~c(s)
      <4>1. (s \in (IF chained THEN {Chain} ELSE {})) = FALSE /\ c(s) = FALSE
        BY <3>a
      <4> HIDE DEF c
      <4> QED
        BY <3>1, <4>1
    <3> QED
      BY <3>2, <3>a
  <2>4. c(s) \in BOOLEAN
    OBVIOUS
  <2> HIDE DEF c
  <2>5. /\ Len(log[s]) \in Nat /\ Len(log'[s]) \in Nat /\ Len(log[s]) <= Len(log'[s])
        /\ \A i \in 1..Len(log[s]) : log'[s][i] = log[s][i]
        /\ \A i \in 1..Len(log'[s]) : i > Len(log[s]) => log'[s][i].by = k
    BY <2>3, <2>4, GrownPrefix
  <2>6. /\ Facts[n][s] \in Nat
        /\ Len(log'[s]) = Len(log[s]) + Facts[n][s] + (IF c(s) THEN 1 ELSE 0)
    BY <2>3 DEF Grown
  <2>7. \A i \in 1..Len(log'[s]) : log'[s][i].by = k => i > Len(log[s])
    BY <2>5
  <2> QED
    BY <2>5, <2>6, <2>7
<1> HIDE DEF c
<1>2. ASSUME NEW s \in Scopes, NEW i \in Nat
      PROVE  <<s, i>> \in By(k)' <=> (i > Len(log[s]) /\ i <= Len(log'[s]))
  <2>1. <<s, i>> \in By(k)' <=> (i \in 1..MaxEvents /\ i <= Len(log'[s]) /\ log'[s][i].by = k)
    BY DEF By
  <2>2. Len(log'[s]) <= MaxEvents /\ MaxEvents \in Nat
    BY RecordAssumption DEF LogFits
  <2> QED
    BY <1>1, <2>1, <2>2
<1>3. ASSUME NEW s \in Scopes, NEW i \in Nat
      PROVE  <<s, i>> \in FactRefs(n, chained) <=> (i > Len(log[s]) /\ i <= Len(log'[s]))
  <2>1. <<s, i>> \in FactRefs(n, chained) <=>
          \/ \E j \in 1..Facts[n][s] : i = Len(log[s]) + j
          \/ (c(s) /\ i = Len(log[Chain]) + Facts[n][Chain] + 1)
    <3> DEFINE P(x) == FactsOf(n, x)
               B == LinkOf(n, chained)
    <3>1. <<s, i>> \in FactRefs(n, chained) <=>
            ((\E x \in Scopes : <<s, i>> \in P(x)) \/ <<s, i>> \in B)
      BY RefsOf
    <3>3. ASSUME NEW x \in Scopes
          PROVE  <<s, i>> \in P(x) <=> (x = s /\ \E j \in 1..Facts[n][s] : i = Len(log[s]) + j)
      <4>1. <<s, i>> \in P(x) <=> \E j \in 1..Facts[n][x] : <<s, i>> = <<x, Len(log[x]) + j>>
        BY DEF Head_, FactsOf
      <4>2. \A j : <<s, i>> = <<x, Len(log[x]) + j>> <=> (s = x /\ i = Len(log[x]) + j)
        OBVIOUS
      <4> HIDE DEF P
      <4> QED
        BY <4>1, <4>2
    <3>4. <<s, i>> \in B <=> (c(s) /\ i = Len(log[Chain]) + Facts[n][Chain] + 1)
      <4>1. <<s, i>> \in B <=> (chained /\ <<s, i>> = <<Chain, Len(log[Chain]) + Facts[n][Chain] + 1>>)
        BY DEF Head_, LinkOf
      <4> HIDE DEF B
      <4> QED
        BY <4>1 DEF c
    <3> HIDE DEF B, P
    <3> QED
      BY <3>1, <3>3, <3>4
  <2>2. (\E j \in 1..Facts[n][s] : i = Len(log[s]) + j) <=>
          (i > Len(log[s]) /\ i <= Len(log[s]) + Facts[n][s])
    <3>1. Len(log[s]) \in Nat /\ Facts[n][s] \in Nat
      BY <1>1
    <3>2. ASSUME i > Len(log[s]), i <= Len(log[s]) + Facts[n][s]
          PROVE  \E j \in 1..Facts[n][s] : i = Len(log[s]) + j
      <4>1. i - Len(log[s]) \in 1..Facts[n][s] /\ i = Len(log[s]) + (i - Len(log[s]))
        BY <3>1, <3>2
      <4> QED
        BY <4>1
    <3>3. ASSUME NEW j \in 1..Facts[n][s], i = Len(log[s]) + j
          PROVE  i > Len(log[s]) /\ i <= Len(log[s]) + Facts[n][s]
      BY <3>1, <3>3
    <3> QED
      BY <3>2, <3>3
  <2>3. c(s) => Len(log[Chain]) + Facts[n][Chain] + 1 = Len(log[s]) + Facts[n][s] + 1
    BY DEF c
  <2>4. /\ Len(log[s]) \in Nat /\ Facts[n][s] \in Nat
        /\ Len(log'[s]) = Len(log[s]) + Facts[n][s] + (IF c(s) THEN 1 ELSE 0)
    BY <1>1
  <2>5. CASE c(s)
    <3>1. Len(log'[s]) = Len(log[s]) + Facts[n][s] + 1
      BY <2>4, <2>5
    <3>2. \A a, f, x \in Nat :
            ((x > a /\ x <= a + f) \/ x = a + f + 1) <=> (x > a /\ x <= a + f + 1)
      OBVIOUS
    <3>3. ((i > Len(log[s]) /\ i <= Len(log[s]) + Facts[n][s]) \/ i = Len(log[s]) + Facts[n][s] + 1)
            <=> (i > Len(log[s]) /\ i <= Len(log[s]) + Facts[n][s] + 1)
      BY <2>4, <3>2
    <3> QED
      BY <2>1, <2>2, <2>3, <2>5, <3>1, <3>3
  <2>6. CASE ~c(s)
    BY <2>1, <2>2, <2>4, <2>6
  <2> QED
    BY <2>5, <2>6
<1>4. ASSUME NEW e \in By(k)' PROVE e \in FactRefs(n, chained)
  <2>1. e[1] \in Scopes /\ e[2] \in Nat /\ e = <<e[1], e[2]>>
    BY RecordAssumption DEF By
  <2> QED
    BY <1>2, <1>3, <2>1
<1>5. ASSUME NEW e \in FactRefs(n, chained) PROVE e \in By(k)'
  <2>1. \E s \in Scopes, i \in Nat : e = <<s, i>>
    <3>1. \A s \in Scopes : \A j \in 1..Facts[n][s] : Head_(s) + j \in Nat
      BY <1>1 DEF Head_
    <3>2. Head_(Chain) + Facts[n][Chain] + 1 \in Nat /\ Chain \in Scopes
      BY <1>1, RecordAssumption DEF Head_
    <3>3. (\E x \in Scopes : e \in FactsOf(n, x)) \/ e \in LinkOf(n, chained)
      BY RefsOf
    <3>4. CASE e \in LinkOf(n, chained)
      BY <3>2, <3>4 DEF LinkOf
    <3>5. CASE \E x \in Scopes : e \in FactsOf(n, x)
      <4>1. PICK x \in Scopes : e \in FactsOf(n, x)
        BY <3>5
      <4>2. PICK j \in 1..Facts[n][x] : e = <<x, Head_(x) + j>>
        BY <4>1 DEF FactsOf
      <4> QED
        BY <3>1, <4>2
    <3> QED
      BY <3>3, <3>4, <3>5
  <2> QED
    BY <1>2, <1>3, <2>1
<1> QED
  BY <1>4, <1>5

\* What the planned head was, and where the first fact goes.
LEMMA BasisTyped ==
  ASSUME RecordTypeOK, NEW basis \in Planned
  PROVE  basis \in Bases
<1>1. CASE basis = RecordNone
  BY <1>1 DEF Bases
<1>2. CASE basis # RecordNone
  <2>1. PICK s \in Scopes : basis \in [scope : {s}, head : 0..Head_(s)]
    BY <1>2 DEF Planned
  <2>2. Head_(s) \in Nat
    BY DEF Head_, RecordTypeOK
  <2> QED
    BY <2>1, <2>2 DEF Bases
<1> QED
  BY <1>1, <1>2

LEMMA FreshStep ==
  ASSUME RecordInv, OrderKept, NEW q \in RecordRequests, NEW basis \in Planned, AdmitFresh(q, basis)
  PROVE  RecordInv' /\ OrderKept'
<1> DEFINE k == q.key
           n == q.snap
           g == n \in Governed
           at == AppliedAt(n, g)
           owned == {k} \cup {x[1] : x \in q.claims}
           row(j) == IF j = k THEN [owner |-> j, snap |-> n, status |-> "applied"]
                     ELSE IF j \in owned THEN ClaimRow(q, CHOOSE x \in q.claims : x[1] = j)
                     ELSE recordRow[j]
           f == Facts[n]
           ch == IF g THEN {Chain} ELSE {}
<1>1. RecordTypeOK /\ KeyRowInv /\ WrittenInv /\ ToldInv /\ ~wronged
  BY DEF RecordInv
<1>2. /\ k \in RecordKeys /\ n \in RecordSnaps
      /\ \A x \in q.claims : x[1] \in RecordKeys /\ x[1] # k /\ x[2] \in RecordSnaps
      /\ \A x, y \in q.claims : x[1] = y[1] => x = y
  BY RequestTyped
<1>3. /\ Admissible(q, basis) /\ Fits(Appended(n, k, g)) /\ log' = Appended(n, k, g)
      /\ recordRow' = [j \in RecordKeys |-> row(j)]
      /\ recordReceipt' = [j \in RecordKeys |-> IF j \in owned THEN at ELSE recordReceipt[j]]
      /\ factset' = [factset EXCEPT ![k] = FactRefs(n, g)]
      /\ committed' = committed \cup {[req |-> q, basis |-> basis]}
      /\ told' = told \cup {q} /\ wronged' = wronged
  BY DEF AdmitFresh
<1>4. /\ recordReceipt[k] = RecordNone
      /\ \A x \in q.claims : recordRow[x[1]] = RecordNone /\ recordReceipt[x[1]] = RecordNone
  BY <1>1, <1>2, <1>3 DEF Admissible, ClaimsFree, KeyRowInv
<1>5. \A j \in owned : j \in RecordKeys /\ recordReceipt[j] = RecordNone
  BY <1>2, <1>4
<1>6. recordRow'[k] = [owner |-> k, snap |-> n, status |-> "applied"] /\ recordReceipt'[k] = at
  BY <1>2, <1>3
<1>7. \A x \in q.claims :
        recordRow'[x[1]] = [owner |-> k, snap |-> x[2], status |-> "applied"] /\ recordReceipt'[x[1]] = at
  <2> TAKE x \in q.claims
  <2>1. (CHOOSE y \in q.claims : y[1] = x[1]) = x
    BY <1>2
  <2>2. recordRow'[x[1]] = ClaimRow(q, x)
    BY <1>2, <1>3, <2>1
  <2> QED
    BY <1>2, <1>3, <2>2 DEF ClaimRow
<1>8. \A j \in RecordKeys : j \notin owned =>
        recordRow'[j] = recordRow[j] /\ recordReceipt'[j] = recordReceipt[j]
  BY <1>3
<1>9. g \in BOOLEAN
  OBVIOUS
<1>10. /\ log' \in [Scopes -> Seq(RecordEntries)] /\ LogGrown(f, k, ch)
  <2> HIDE DEF g, k, n
  <2> QED
    BY <1>1, <1>2, <1>3, <1>9, AppendedGrows DEF LogGrown
<1>11. at \in Nat /\ at # RecordNone
  <2> HIDE DEF g, k, n
  <2> QED
    BY <1>1, <1>2, <1>9, AppliedTyped, RecordNoneAssumption
<1>12. f \in [Scopes -> Nat]
  BY <1>2, RecordAssumption
<1>13. LogFits'
  BY <1>3 DEF LogFits, Fits
<1>14. FactRefs(n, g) = By(k)'
  <2>1. \A s \in Scopes : \A i \in 1..Len(log[s]) : log[s][i].by # k
    BY <1>1, <1>2, <1>4 DEF WrittenInv
  <2> HIDE DEF g, k, n
  <2> QED
    BY <1>1, <1>2, <1>3, <1>9, <1>13, <2>1, RefsExact
<1>15. \A j \in owned : recordRow'[j] \in RecordRows /\ recordRow'[j].status = "applied" /\ recordRow'[j].owner = k
  <2> SUFFICES ASSUME NEW j \in owned
               PROVE  /\ recordRow'[j] \in RecordRows /\ recordRow'[j].status = "applied"
                      /\ recordRow'[j].owner = k
    OBVIOUS
  <2>1. PICK m \in RecordSnaps : recordRow'[j] = [owner |-> k, snap |-> m, status |-> "applied"]
    BY <1>2, <1>6, <1>7
  <2> HIDE DEF k
  <2> QED
    BY <1>2, <2>1 DEF RecordRows, RecordStatuses
<1>16. /\ recordRow' \in [RecordKeys -> RecordRows \cup {RecordNone}]
       /\ recordReceipt' \in [RecordKeys -> Nat \cup {RecordNone}]
       /\ \A j \in owned : recordReceipt'[j] = at
  <2>1. DOMAIN recordRow' = RecordKeys /\ recordRow' = [j \in RecordKeys |-> recordRow'[j]]
    BY <1>3
  <2>2. \A j \in owned : recordReceipt'[j] = at
    BY <1>3, <1>5
  <2> HIDE DEF owned
  <2>3. \A j \in RecordKeys : recordRow'[j] \in RecordRows \cup {RecordNone}
    BY <1>1, <1>8, <1>15 DEF RecordTypeOK
  <2>4. recordReceipt' \in [RecordKeys -> Nat \cup {RecordNone}]
    BY <1>1, <1>3, <1>11 DEF RecordTypeOK
  <2> QED
    BY <2>1, <2>2, <2>3, <2>4
<1>17. factset' \in [RecordKeys -> {RecordNone} \cup SUBSET (Scopes \X Nat)]
  <2>1. By(k)' \in SUBSET (Scopes \X Nat)
    BY RecordAssumption DEF By
  <2> HIDE DEF k, n, g
  <2> QED
    BY <1>1, <1>2, <1>3, <1>14, <2>1 DEF RecordTypeOK
<1>18. RecordTypeOK'
  <2>1. [req |-> q, basis |-> basis] \in [req : RecordRequests, basis : Bases]
    BY <1>1, BasisTyped
  <2> QED
    BY <1>1, <1>3, <1>10, <1>16, <1>17, <2>1 DEF RecordTypeOK
<1> HIDE DEF row
<1>19. KeyRowInv'
  <2> SUFFICES ASSUME NEW j \in RecordKeys
        PROVE  /\ recordReceipt'[j] # RecordNone <=>
                    (recordRow'[j] # RecordNone /\ recordRow'[j].status = "applied")
               /\ recordRow'[j] # RecordNone /\ recordRow'[j].status # "applied" => recordRow'[j].owner = j
               /\ factset'[j] # RecordNone => recordReceipt'[j] # RecordNone
    BY DEF KeyRowInv
  <2>1. k \in owned
    OBVIOUS
  <2> HIDE DEF owned, at, k
  <2>2. CASE j \in owned
    BY <1>11, <1>15, <1>16, <2>2, RecordNoneAssumption
  <2>3. CASE j \notin owned
    <3>1. recordRow'[j] = recordRow[j] /\ recordReceipt'[j] = recordReceipt[j] /\ factset'[j] = factset[j]
      BY <1>1, <1>3, <1>8, <2>1, <2>3 DEF RecordTypeOK
    <3> QED
      BY <1>1, <3>1 DEF KeyRowInv
  <2> QED
    BY <2>2, <2>3
<1>20. Replayable(q, RecordNone)'
  <2>1. ~Conflicts(q)' /\ Replays(q)'
    BY <1>6, <1>11 DEF Conflicts, Replays
  <2>2. \A x \in q.claims : ClaimHeld(q, x)'
    <3> TAKE x \in q.claims
    <3>1. x[1] \in owned
      OBVIOUS
    <3>2. recordRow'[x[1]] # RecordNone
      BY <1>15, <3>1, RecordNoneAssumption
    <3> DEFINE r == [owner |-> k, snap |-> x[2], status |-> "applied"]
    <3>a. recordRow'[x[1]] = r /\ recordReceipt'[x[1]] = at
      BY <1>7
    <3>b. r.owner = q.key /\ r.snap = x[2]
      OBVIOUS
    <3> HIDE DEF r
    <3>3. /\ recordRow'[x[1]].owner = q.key /\ recordRow'[x[1]].snap = x[2]
          /\ recordReceipt'[x[1]] = at
      BY <3>a, <3>b
    <3> HIDE DEF at
    <3> QED
      BY <1>11, <3>2, <3>3 DEF ClaimHeld
  <2> QED
    BY <2>1, <2>2 DEF Replayable, ReplayAllowed
<1>21. /\ \A j \in RecordKeys : recordReceipt[j] # RecordNone =>
            j # k /\ recordReceipt'[j] # RecordNone /\ recordRow'[j] = recordRow[j]
       /\ \A j \in RecordKeys : recordReceipt'[j] # RecordNone /\ recordRow'[j].owner = j =>
            recordReceipt[j] # RecordNone \/ (j = k /\ f = Facts[recordRow'[j].snap])
       /\ recordReceipt'[k] # RecordNone /\ recordRow'[k].owner = k
  <2>1. recordReceipt'[k] # RecordNone /\ recordRow'[k].owner = k /\ f = Facts[recordRow'[k].snap]
    BY <1>6, <1>11
  <2> HIDE DEF owned, at, k, f
  <2> QED
    BY <1>4, <1>5, <1>8, <1>15, <2>1
<1>22. \A j \in RecordKeys : factset'[j] = factset[j] \/ factset'[j] = By(j)'
  <2> HIDE DEF k, n, g
  <2> QED
    BY <1>1, <1>3, <1>14 DEF RecordTypeOK
<1>23. \A d \in committed' : d.req \in told'
  BY <1>1, <1>3 DEF ToldInv
<1> DEFINE d == [req |-> q, basis |-> basis]
<1>24. Staged(d)'
  <2> SUFFICES ASSUME basis # RecordNone, Facts[n][basis.scope] > 0
               PROVE  /\ basis.head < Len(log'[basis.scope])
                      /\ log'[basis.scope][basis.head + 1].by = k
    BY DEF Staged
  <2> DEFINE s == basis.scope
             h == Len(log[s])
  <2>1. s \in Scopes
    BY <1>1, BasisTyped DEF Bases
  <2>2. basis.head = h
    BY <1>3 DEF Admissible, BasisHolds, Head_
  <2>3. PICK c \in BOOLEAN : Grown(log[s], log'[s], f[s], k, c)
    <3> HIDE DEF s, f, k, ch
    <3> QED
      BY <1>10, <2>1, ScopeGrown
  <2>4. h \in Nat /\ f[s] \in Nat /\ f[s] > 0
    BY <1>1, <1>12, <2>1 DEF RecordTypeOK
  <2> HIDE DEF s, h, f, k
  <2>a. /\ Len(log'[s]) = h + f[s] + (IF c THEN 1 ELSE 0)
        /\ \A i \in (h + 1)..(h + f[s]) : log'[s][i].by = k
    BY <2>3 DEF Grown, h
  <2>5. h < Len(log'[s]) /\ log'[s][h + 1].by = k
    BY <2>4, <2>a
  <2> QED
    BY <2>2, <2>5 DEF s
<1> HIDE DEF k, n, g, at, owned, f, ch, d
<1>a. \A p \in told' : p \in told \/ Replayable(p, RecordNone)'
  BY <1>3, <1>20
<1>b. told \subseteq told' /\ ~wronged'
  BY <1>1, <1>3
<1>c. k \in RecordKeys \cup {RecordNone}
  BY <1>2
<1>25. RecordInv'
  BY <1>a, <1>b, <1>c, <1>10, <1>12, <1>13, <1>18, <1>19, <1>21, <1>22, <1>23, StepKeeps
<1>26. \A y \in committed' : y \in committed \/ Staged(y)'
  BY <1>3, <1>24 DEF d
<1>27. OrderKept'
  BY <1>1, <1>10, <1>26, OrderKeeps
<1> QED
  BY <1>25, <1>27

LEMMA RecordStep == RecordInv /\ OrderKept /\ [RecordNext]_recordVars => RecordInv' /\ OrderKept'
<1> SUFFICES ASSUME RecordInv, OrderKept, [RecordNext]_recordVars
             PROVE  RecordInv' /\ OrderKept'
  OBVIOUS
<1>1. CASE UNCHANGED recordVars
  <2>1. UNCHANGED <<log, recordRow, recordReceipt, factset, committed, told, wronged>>
    BY <1>1 DEF recordVars, recordTables, history
  <2>2. RecordTypeOK' /\ KeyRowInv' /\ ~wronged'
    BY <2>1 DEF RecordInv, RecordTypeOK, KeyRowInv
  <2> QED
    BY <2>1, <2>2, QuietStep
<1>2. CASE \E q \in RecordRequests, basis \in Planned :
             AdmitFresh(q, basis) \/ AdmitReplay(q, basis) \/ AdmitRefused(q, basis)
  BY <1>2, FreshStep, ReplayStep, RefusedStep
<1>3. CASE \E s \in Scopes : AppendPlainRecord(s)
  BY <1>3, PlainStep
<1>4. CASE AppendChainedRecord
  BY <1>4, ChainedStep
<1>5. CASE \E k \in RecordKeys : RecordCommitClaimed(k) \/ FailClaimed(k)
  BY <1>5, CommitStep, FailStep
<1>6. CASE \E k \in RecordKeys, n \in RecordSnaps : ClaimCommand(k, n)
  BY <1>6, ClaimCommandStep
<1> QED
  BY <1>1, <1>2, <1>3, <1>4, <1>5, <1>6 DEF RecordNext

LEMMA RecordInvExact == RecordInv => FactsExact
<1> SUFFICES ASSUME RecordInv PROVE FactsExact
  OBVIOUS
<1> USE DEF RecordInv
<1>1. ASSUME NEW q \in told
      PROVE  /\ q \in RecordRequests /\ q.key \in RecordKeys
             /\ recordReceipt[q.key] # RecordNone /\ recordRow[q.key].owner = q.key
             /\ recordRow[q.key].snap = q.snap
             /\ \A x \in q.claims : x[1] \in RecordKeys /\ x[1] # q.key /\ recordRow[x[1]].owner = q.key
  <2>1. q \in RecordRequests /\ Replayable(q, RecordNone)
    BY DEF RecordTypeOK, ToldInv
  <2>2. /\ q.key \in RecordKeys
        /\ \A x \in q.claims : x[1] \in RecordKeys /\ x[1] # q.key
    BY <2>1, RequestTyped
  <2> QED
    BY <2>1, <2>2 DEF Replayable, Replays, Conflicts, ClaimHeld, KeyRowInv
<1>2. AnswerTrue
  <2> SUFFICES ASSUME NEW q \in told, NEW s \in Scopes
               PROVE  Cardinality(FactsIn(log[s], q.key)) = Facts[q.snap][s]
    BY DEF AnswerTrue, FactsIn
  <2> QED
    BY <1>1 DEF CountInv
<1>3. ClaimsExclusive
  <2> SUFFICES ASSUME NEW q \in told, NEW x \in q.claims
               PROVE  /\ By(x[1]) = {}
                      /\ \A p \in told :
                           /\ p.key # x[1]
                           /\ (\E y \in p.claims : y[1] = x[1]) => p.key = q.key
    BY DEF ClaimsExclusive
  <2>1. x[1] \in RecordKeys /\ recordRow[x[1]].owner # x[1]
    BY <1>1
  <2>2. By(x[1]) = {}
    <3> SUFFICES ASSUME NEW e \in By(x[1]) PROVE FALSE
      OBVIOUS
    <3>1. e[1] \in Scopes /\ e[2] \in 1..MaxEvents /\ e[2] <= Len(log[e[1]]) /\ log[e[1]][e[2]].by = x[1]
      BY DEF By
    <3>2. e[2] \in 1..Len(log[e[1]])
      BY <3>1, RecordAssumption DEF RecordTypeOK
    <3> QED
      BY <2>1, <3>1, <3>2 DEF WrittenInv
  <2> QED
    BY <1>1, <2>1, <2>2
<1> QED
  BY <1>2, <1>3 DEF FactsExact, RetryReplays

(***************************************************************************)
(* What admit_record_facts answers stays true, for any keys, snapshots and *)
(* scopes: the facts of an answered request are in the log exactly once,   *)
(* the recorded fact map is exactly what the key appended, a claimed       *)
(* identity has no effects and no second owner, and the exact retry of an  *)
(* admitted request is never refused.                                      *)
(***************************************************************************)
THEOREM AnswersExact == RecordSpec => []FactsExact
<1> QED
  BY RecordStart, RecordStep, RecordInvExact, PTL DEF RecordSpec

(***************************************************************************)
(* Where facts land: the audit chain never forks, and the first fact of a  *)
(* command staged against a head is directly behind that head.             *)
(***************************************************************************)
THEOREM AppendsInOrder == RecordSpec => []OrderKept
<1> QED
  BY RecordStart, RecordStep, PTL DEF RecordSpec

-----------------------------------------------------------------------------
(* Erasure and checkpoints (FoldCheckpoint), for every lifecycle, release, *)
(* interval and number of folds in flight.                                 *)

(* What one fold in flight contributes to the invariant, over a history h. *)
Told(f, e, h) ==
  /\ f.pc \in {"anchor", "tail", "done"} => (f.shut => e)
  /\ f.pc = "done" =>
       /\ f.seen \in 0..Len(h)
       /\ f.shut => \A i \in 1..f.seen : h[i].kind \notin Protected

(* A longer history leaves what a fold saw as it was. *)
LEMMA LongerHistory ==
  ASSUME rows \in Seq(Rows), NEW batch \in Seq(Rows), rows' = rows \o batch,
         NEW f, Told(f, erased, rows)
  PROVE  Told(f, erased, rows')
<1>1. Len(rows') = Len(rows) + Len(batch) /\ Len(rows) \in Nat /\ Len(batch) \in Nat
  OBVIOUS
<1>2. \A i \in 1..Len(rows) : rows'[i] = rows[i]
  OBVIOUS
<1> QED
  BY <1>1, <1>2 DEF Told

(* Every step keeps what the folds were told true. *)
LEMMA ShutStep == ShutInv /\ [Next]_vars => ShutInv'
<1> SUFFICES ASSUME ShutInv, [Next]_vars PROVE ShutInv'
  OBVIOUS
<1>0. /\ rows \in Seq(Rows) /\ disk.rows \in Seq(Rows) /\ (erased => Codec)
      /\ reader = [r \in Readers |-> reader[r]]
      /\ \A r \in Readers : Told(reader[r], erased, rows)
  BY DEF ShutInv, ErasedRefuses, Told
<1>a. SUFFICES /\ rows' \in Seq(Rows) /\ disk'.rows \in Seq(Rows) /\ (erased' => Codec)
               /\ reader' = [r \in Readers |-> reader'[r]]
               /\ \A r \in Readers : Told(reader'[r], erased', rows')
  BY DEF ShutInv, ErasedRefuses, Told
<1>1. CASE UNCHANGED vars
  BY <1>0, <1>1 DEF vars
<1>2. ASSUME NEW r \in Readers, NEW g, reader' = [reader EXCEPT ![r] = g],
             Told(g, erased, rows), UNCHANGED <<rows, disk, erased>>
      PROVE  /\ reader' = [u \in Readers |-> reader'[u]]
             /\ \A u \in Readers : Told(reader'[u], erased', rows')
  <2>1. reader' = [u \in Readers |-> IF u = r THEN g ELSE reader[u]]
    BY <1>0, <1>2
  <2>2. \A u \in Readers : reader'[u] = IF u = r THEN g ELSE reader[u]
    BY <2>1
  <2> HIDE DEF Told
  <2>3. \A u \in Readers : Told(reader'[u], erased', rows')
    BY <1>0, <1>2, <2>2
  <2> QED
    BY <2>1, <2>3
<1>3. ASSUME NEW r \in Readers, LoadRow(r)
      PROVE  /\ reader' = [u \in Readers |-> reader'[u]]
             /\ \A u \in Readers : Told(reader'[u], erased', rows')
  <2> DEFINE g == IF Selected(snap)
                    THEN [pc |-> "anchor", row |-> snap, shut |-> erased]
                    ELSE [pc |-> "tail", state |-> L0, after |-> 0, shut |-> erased]
  <2>1. Told(g, erased, rows)
    BY DEF Told
  <2>2. reader' = [reader EXCEPT ![r] = g] /\ UNCHANGED <<rows, disk, erased>>
    BY <1>3 DEF LoadRow
  <2> HIDE DEF g
  <2> QED
    BY <1>2, <2>1, <2>2
<1>4. ASSUME NEW r \in Readers, LoadAnchor(r)
      PROVE  /\ reader' = [u \in Readers |-> reader'[u]]
             /\ \A u \in Readers : Told(reader'[u], erased', rows')
  <2> DEFINE row == reader[r].row
             g == IF Valid(row)
                    THEN [pc |-> "tail", state |-> row.state, after |-> row.position,
                          shut |-> reader[r].shut]
                    ELSE [pc |-> "tail", state |-> L0, after |-> 0, shut |-> reader[r].shut]
  <2>1. Told(g, erased, rows)
    BY <1>0, <1>4 DEF Told, LoadAnchor
  <2>2. reader' = [reader EXCEPT ![r] = g] /\ UNCHANGED <<rows, disk, erased>>
    BY <1>4 DEF LoadAnchor
  <2> HIDE DEF g
  <2> QED
    BY <1>2, <2>1, <2>2
<1>5. ASSUME NEW r \in Readers, ReadTail(r)
      PROVE  /\ reader' = [u \in Readers |-> reader'[u]]
             /\ \A u \in Readers : Told(reader'[u], erased', rows')
  <2> DEFINE after == reader[r].after
             answer == Evolved(build, reader[r].state, Rest(after))
             g == IF Unavailable(after)
                    THEN [pc |-> "refused"]
                    ELSE [pc |-> "done", seen |-> Len(rows), shut |-> reader[r].shut,
                          state |-> answer]
  <2>1. reader' = [reader EXCEPT ![r] = g] /\ UNCHANGED <<rows, disk, erased>>
    BY <1>5 DEF ReadTail
  <2>2. Told(g, erased, rows)
    <3>1. reader[r].shut => erased /\ Codec
      BY <1>0, <1>5 DEF Told, ReadTail
    <3>2. ~Unavailable(after) /\ erased /\ Codec
            => \A i \in 1..Len(rows) : rows[i].kind \notin Protected
      BY DEF Unavailable, Opens
    <3>3. Len(rows) \in 0..Len(rows)
      BY <1>0
    <3> HIDE DEF answer
    <3> QED
      BY <3>1, <3>2, <3>3 DEF Told
  <2> HIDE DEF g
  <2> QED
    BY <1>2, <2>1, <2>2
<1>6. ASSUME NEW r \in Readers, Answer(r)
      PROVE  /\ reader' = [u \in Readers |-> reader'[u]]
             /\ \A u \in Readers : Told(reader'[u], erased', rows')
  <2>1. Told(Idle, erased, rows)
    BY DEF Told, Idle
  <2> QED
    BY <1>2, <1>6, <2>1 DEF Answer
<1>7. CASE \E r \in Readers : LoadRow(r) \/ LoadAnchor(r) \/ ReadTail(r) \/ Answer(r)
  <2>1. UNCHANGED <<rows, disk, erased>>
    BY <1>7 DEF LoadRow, LoadAnchor, ReadTail, Answer
  <2> QED
    BY <1>0, <1>3, <1>4, <1>5, <1>6, <1>7, <2>1
<1>8. ASSUME NEW batch \in Seq(Rows), rows' = rows \o batch,
             UNCHANGED <<disk, erased, reader>>
      PROVE  /\ rows' \in Seq(Rows) /\ disk'.rows \in Seq(Rows) /\ (erased' => Codec)
             /\ reader' = [r \in Readers |-> reader'[r]]
             /\ \A r \in Readers : Told(reader'[r], erased', rows')
  <2>1. rows' \in Seq(Rows)
    BY <1>0, <1>8
  <2>2. \A r \in Readers : Told(reader[r], erased, rows')
    BY <1>0, <1>8, LongerHistory
  <2> QED
    BY <1>0, <1>8, <2>1, <2>2
<1>9. ASSUME NEW n \in 0..MaxBatch,
             NEW batch \in [1..n -> [kind : {"lifecycle"}, event : Events]], Admit(batch)
      PROVE  /\ rows' \in Seq(Rows) /\ disk'.rows \in Seq(Rows) /\ (erased' => Codec)
             /\ reader' = [r \in Readers |-> reader'[r]]
             /\ \A r \in Readers : Told(reader'[r], erased', rows')
  <2>1. batch \in Seq(Rows)
    <3>1. n \in Nat
      BY CheckpointAssumption
    <3>2. [kind : {"lifecycle"}, event : Events] \subseteq Rows
      BY DEF Rows
    <3> QED
      BY <3>1, <3>2
  <2> QED
    BY <1>8, <1>9, <2>1 DEF Admit
<1>10. CASE AppendRecord
  <2>1. <<Record>> \in Seq(Rows)
    BY DEF Record, Rows
  <2>2. rows' = rows \o <<Record>>
    BY <1>0, <1>10 DEF AppendRecord
  <2> QED
    BY <1>8, <1>10, <2>1, <2>2 DEF AppendRecord
<1>11. CASE Erase
  BY <1>0, <1>11 DEF Erase, Told
<1>12. CASE Sync
  BY <1>0, <1>12 DEF Sync
<1>13. ASSUME NEW b \in Builds, NEW gone \in BOOLEAN, Start(b, gone)
       PROVE  /\ rows' \in Seq(Rows) /\ disk'.rows \in Seq(Rows) /\ (erased' => Codec)
              /\ reader' = [r \in Readers |-> reader'[r]]
              /\ \A r \in Readers : Told(reader'[r], erased', rows')
  <2>1. \A r \in Readers : reader'[r] = Idle
    BY <1>13 DEF Start
  <2>2. Told(Idle, erased', rows')
    BY DEF Told, Idle
  <2>3. reader' = [r \in Readers |-> reader'[r]]
    BY <1>13 DEF Start
  <2> QED
    BY <1>0, <1>13, <2>1, <2>2, <2>3 DEF Start
<1> QED
  BY <1>1, <1>7, <1>9, <1>10, <1>11, <1>12, <1>13 DEF Next

(* Once the scope's key is destroyed no fold that begins answers over a    *)
(* history with a sealed row, from a checkpoint or not (`snapshot::fold`). *)
THEOREM ErasedHistoryRefuses == Spec => []ErasedRefuses
<1>1. Init => ShutInv
  BY DEF Init, ShutInv, ErasedRefuses, Idle
<1>2. ShutInv => ErasedRefuses
  BY DEF ShutInv
<1> QED
  BY <1>1, <1>2, ShutStep, PTL DEF Spec

(* ---- folds and checkpoints ---- *)

(* A set of numbers that is not empty has a least element. *)
LEMMA LeastNumber ==
  ASSUME NEW I \in SUBSET Nat, I # {}
  PROVE  \E x \in I : \A y \in I : x <= y
<1> DEFINE R == OpToRel(<, Nat)
<1>1. IsWellFoundedOn(R, Nat)
  BY NatLessThanWellFounded
<1>2. PICK x \in I : \A y \in I : ~(<<y, x>> \in R)
  <2> HIDE DEF R
  <2>1. I \subseteq Nat /\ I # {}
    OBVIOUS
  <2> QED
    BY <1>1, <2>1, WFMin
<1>3. \A y \in I : ~(y < x)
  BY <1>2 DEF OpToRel
<1>4. \A y \in I : x <= y
  BY <1>3
<1> QED
  BY <1>4

(* One row of a fold. *)
OneStep(b, st, row) ==
  IF row.kind = "lifecycle" THEN Evolve[b][<<st, row.event>>] ELSE st

(* The states a fold of h from st goes through. *)
IsRun(b, st, h, f) ==
  /\ f \in [0..Len(h) -> LState]
  /\ f[0] = st
  /\ \A i \in 1..Len(h) : f[i] = OneStep(b, f[i - 1], h[i])

(* A row of a history. *)
LEMMA RowOf ==
  ASSUME NEW h \in Seq(Rows), NEW i \in 1..Len(h)
  PROVE  h[i] \in Rows
OBVIOUS

(* A reducer yields states. *)
LEMMA StepType ==
  ASSUME NEW b \in Builds, NEW st \in LState, NEW row \in Rows
  PROVE  OneStep(b, st, row) \in LState
<1>1. CASE row.kind = "lifecycle"
  <2>1. row.event \in Events
    BY <1>1 DEF Rows
  <2> QED
    BY <1>1, <2>1, CheckpointAssumption DEF OneStep
<1>2. CASE row.kind # "lifecycle"
  BY <1>2 DEF OneStep
<1> QED
  BY <1>1, <1>2

(* Every history has a run. *)
LEMMA RunExists ==
  ASSUME NEW b \in Builds, NEW st \in LState, NEW h \in Seq(Rows)
  PROVE  \E f : IsRun(b, st, h, f)
<1> DEFINE P(n, f) == /\ f \in [0..n -> LState]
                      /\ f[0] = st
                      /\ \A i \in 1..n : f[i] = OneStep(b, f[i - 1], h[i])
           Bad == {n \in 0..Len(h) : \A f : ~P(n, f)}
<1>1. Len(h) \in Nat
  OBVIOUS
<1>2. ASSUME Bad # {} PROVE FALSE
  <2>1. PICK n \in Bad : \A y \in Bad : n <= y
    <3>1. Bad \in SUBSET Nat
      BY <1>1
    <3> HIDE DEF Bad
    <3> QED
      BY <1>2, <3>1, LeastNumber
  <2>2. n \in 0..Len(h) /\ \A f : ~P(n, f)
    BY <2>1
  <2>3. n # 0
    <3>1. [i \in 0..0 |-> st] \in [0..0 -> LState]
      OBVIOUS
    <3>2. [i \in 0..0 |-> st][0] = st
      OBVIOUS
    <3>3. P(0, [i \in 0..0 |-> st])
      BY <3>1, <3>2
    <3> HIDE DEF P
    <3> QED
      BY <2>2, <3>3
  <2>4. n - 1 \in 0..Len(h) /\ ~(n <= n - 1) /\ n \in 1..Len(h)
    BY <1>1, <2>2, <2>3
  <2>5. n - 1 \notin Bad
    BY <2>1, <2>4
  <2>6. PICK g : P(n - 1, g)
    BY <2>4, <2>5
  <2> DEFINE f == [i \in 0..n |-> IF i = n THEN OneStep(b, g[n - 1], h[n]) ELSE g[i]]
  <2>7. \A i \in 0..n : i # n => i \in 0..(n - 1)
    BY <2>4
  <2>8. g[n - 1] \in LState /\ OneStep(b, g[n - 1], h[n]) \in LState
    <3>1. n - 1 \in 0..(n - 1)
      BY <2>4
    <3>2. g[n - 1] \in LState
      BY <2>6, <3>1
    <3>3. h[n] \in Rows
      BY <2>4, RowOf
    <3> QED
      BY <3>2, <3>3, StepType
  <2>9. f \in [0..n -> LState]
    BY <2>6, <2>7, <2>8
  <2>10. f[0] = st
    BY <2>3, <2>4, <2>6
  <2>11. \A i \in 1..n : f[i] = OneStep(b, f[i - 1], h[i])
    <3> SUFFICES ASSUME NEW i \in 1..n PROVE f[i] = OneStep(b, f[i - 1], h[i])
      OBVIOUS
    <3>1. i - 1 \in 0..n /\ i - 1 # n /\ i \in 0..n /\ (i # n => i \in 1..(n - 1))
      BY <2>4
    <3>2. f[i - 1] = g[i - 1]
      BY <3>1
    <3>3. CASE i = n
      BY <3>1, <3>2, <3>3
    <3>4. CASE i # n
      <4>1. f[i] = g[i] /\ g[i] = OneStep(b, g[i - 1], h[i])
        BY <2>6, <3>1, <3>4
      <4> QED
        BY <3>2, <4>1
    <3> QED
      BY <3>3, <3>4
  <2>12. P(n, f)
    BY <2>9, <2>10, <2>11
  <2> HIDE DEF P, f
  <2> QED
    BY <2>2, <2>12
<1>3. Len(h) \in 0..Len(h)
  BY <1>1
<1>4. PICK f : P(Len(h), f)
  BY <1>2, <1>3
<1> QED
  BY <1>4 DEF IsRun

(* The fold is the last state of the run. *)
LEMMA EvolvedIs ==
  ASSUME NEW b \in Builds, NEW st \in LState, NEW h \in Seq(Rows), NEW f,
         IsRun(b, st, h, f)
  PROVE  Evolved(b, st, h) = f[Len(h)]
<1> DEFINE Body(g) == [i \in 0..Len(h) |->
                         IF i = 0 THEN st
                         ELSE IF h[i].kind = "lifecycle" THEN Evolve[b][<<g[i - 1], h[i].event>>]
                         ELSE g[i - 1]]
           F == CHOOSE g : g = Body(g)
<1>1. Len(h) \in Nat /\ Len(h) \in 0..Len(h)
  OBVIOUS
<1>2. Evolved(b, st, h) = F[Len(h)]
  BY DEF Evolved
<1>3. f = Body(f)
  <2>1. \A i \in 0..Len(h) : f[i] = Body(f)[i]
    <3> SUFFICES ASSUME NEW i \in 0..Len(h) PROVE f[i] = Body(f)[i]
      OBVIOUS
    <3>1. CASE i = 0
      BY <3>1 DEF IsRun
    <3>2. CASE i # 0
      <4>1. i \in 1..Len(h)
        BY <3>2
      <4> QED
        BY <3>2, <4>1 DEF IsRun, OneStep
    <3> QED
      BY <3>1, <3>2
  <2> HIDE DEF Body
  <2>2. f = [i \in 0..Len(h) |-> f[i]]
    BY DEF IsRun
  <2>3. Body(f) = [i \in 0..Len(h) |-> Body(f)[i]]
    BY DEF Body
  <2> QED
    BY <2>1, <2>2, <2>3
<1>4. F = Body(F)
  <2> HIDE DEF Body
  <2> QED
    BY <1>3
<1>5. ASSUME NEW g, g = Body(g) PROVE \A i \in 0..Len(h) : g[i] = f[i]
  <2> DEFINE Bad == {i \in 0..Len(h) : g[i] # f[i]}
  <2>1. ASSUME Bad # {} PROVE FALSE
    <3>1. PICK n \in Bad : \A y \in Bad : n <= y
      <4>1. Bad \in SUBSET Nat
        BY <1>1
      <4> HIDE DEF Bad
      <4> QED
        BY <2>1, <4>1, LeastNumber
    <3>2. n \in 0..Len(h) /\ g[n] # f[n]
      BY <3>1
    <3>3. g[n] = IF n = 0 THEN st
                 ELSE IF h[n].kind = "lifecycle" THEN Evolve[b][<<g[n - 1], h[n].event>>]
                 ELSE g[n - 1]
      BY <1>5, <3>2
    <3>4. n # 0
      BY <3>2, <3>3 DEF IsRun
    <3>5. n - 1 \in 0..Len(h) /\ ~(n <= n - 1) /\ n \in 1..Len(h)
      BY <1>1, <3>2, <3>4
    <3>6. g[n - 1] = f[n - 1]
      BY <3>1, <3>5
    <3>7. f[n] = OneStep(b, f[n - 1], h[n])
      BY <3>5 DEF IsRun
    <3> HIDE DEF Bad, Body, F
    <3> QED
      BY <3>2, <3>3, <3>4, <3>6, <3>7 DEF OneStep
  <2> QED
    BY <2>1
<1>6. F[Len(h)] = f[Len(h)]
  <2> HIDE DEF F, Body
  <2> QED
    BY <1>1, <1>4, <1>5
<1> QED
  BY <1>2, <1>6

(* A stretch of a history. *)
LEMMA Stretch ==
  ASSUME NEW h \in Seq(Rows), NEW m \in 0..Len(h), NEW n \in m..Len(h)
  PROVE  /\ SubSeq(h, m + 1, n) \in Seq(Rows)
         /\ Len(SubSeq(h, m + 1, n)) = n - m
         /\ n - m \in Nat
         /\ \A i \in 1..(n - m) : SubSeq(h, m + 1, n)[i] = h[m + i]
OBVIOUS

(* A run over a stretch of a history is that stretch of its run. *)
LEMMA RunPart ==
  ASSUME NEW b \in Builds, NEW st, NEW h \in Seq(Rows), NEW f, IsRun(b, st, h, f),
         NEW m \in 0..Len(h), NEW n \in m..Len(h)
  PROVE  Evolved(b, f[m], SubSeq(h, m + 1, n)) = f[n]
<1> DEFINE t == SubSeq(h, m + 1, n)
           g == [i \in 0..(n - m) |-> f[m + i]]
<1>1. t \in Seq(Rows) /\ Len(t) = n - m /\ n - m \in Nat /\ \A i \in 1..(n - m) : t[i] = h[m + i]
  BY Stretch
<1>2. Len(h) \in Nat /\ m \in Nat /\ n \in Nat
  OBVIOUS
<1>3. f \in [0..Len(h) -> LState] /\ \A i \in 1..Len(h) : f[i] = OneStep(b, f[i - 1], h[i])
  BY DEF IsRun
<1> HIDE DEF t
<1>4. \A i \in 0..(n - m) : m + i \in 0..Len(h)
  BY <1>2
<1>5. g \in [0..(n - m) -> LState]
  BY <1>3, <1>4
<1>6. g[0] = f[m] /\ g[n - m] = f[n]
  <2>1. 0 \in 0..(n - m) /\ n - m \in 0..(n - m) /\ m + 0 = m /\ m + (n - m) = n
    BY <1>1, <1>2
  <2> QED
    BY <2>1
<1>7. \A i \in 1..(n - m) : g[i] = OneStep(b, g[i - 1], t[i])
  <2> SUFFICES ASSUME NEW i \in 1..(n - m) PROVE g[i] = OneStep(b, g[i - 1], t[i])
    OBVIOUS
  <2>1. /\ i \in 0..(n - m) /\ i - 1 \in 0..(n - m) /\ m + i \in 1..Len(h)
        /\ m + (i - 1) = (m + i) - 1
    BY <1>2
  <2>2. g[i] = f[m + i] /\ g[i - 1] = f[(m + i) - 1]
    BY <2>1
  <2>3. f[m + i] = OneStep(b, f[(m + i) - 1], h[m + i])
    BY <1>3, <2>1
  <2> HIDE DEF g
  <2> QED
    BY <1>1, <2>2, <2>3
<1> HIDE DEF g
<1>8. IsRun(b, f[m], t, g)
  BY <1>1, <1>5, <1>6, <1>7 DEF IsRun
<1>9. f[m] \in LState
  BY <1>3
<1>10. Evolved(b, f[m], t) = g[Len(t)]
  BY <1>1, <1>8, <1>9, EvolvedIs
<1> QED
  BY <1>1, <1>6, <1>10 DEF t

(* A run up to a position. *)
LEMMA RunPrefix ==
  ASSUME NEW b \in Builds, NEW st, NEW h \in Seq(Rows), NEW f, IsRun(b, st, h, f),
         NEW n \in 0..Len(h)
  PROVE  Evolved(b, st, SubSeq(h, 1, n)) = f[n]
<1>1. PICK m \in 0..Len(h) : m = 0 /\ m + 1 = 1
  OBVIOUS
<1>2. n \in m..Len(h)
  BY <1>1
<1>3. Evolved(b, f[m], SubSeq(h, m + 1, n)) = f[n]
  BY <1>2, RunPart
<1>4. f[m] = st
  BY <1>1 DEF IsRun
<1> QED
  BY <1>1, <1>3, <1>4, Zenon

(* A fold is a state of the lifecycle. *)
LEMMA EvolvedType ==
  ASSUME NEW b \in Builds, NEW st \in LState, NEW h \in Seq(Rows)
  PROVE  Evolved(b, st, h) \in LState
<1>1. PICK f : IsRun(b, st, h, f)
  BY RunExists
<1>2. f[Len(h)] \in LState
  BY <1>1 DEF IsRun
<1> QED
  BY <1>1, <1>2, EvolvedIs

(* A replay continued from one of its positions is the replay. *)
LEMMA ReplayOn ==
  ASSUME NEW b \in Builds, NEW h \in Seq(Rows), NEW m \in 0..Len(h), NEW n \in m..Len(h)
  PROVE  Evolved(b, Evolved(b, L0, SubSeq(h, 1, m)), SubSeq(h, m + 1, n))
           = Evolved(b, L0, SubSeq(h, 1, n))
<1>1. L0 \in LState
  BY CheckpointAssumption
<1>2. PICK f : IsRun(b, L0, h, f)
  BY <1>1, RunExists
<1>4. m \in 0..Len(h) /\ n \in 0..Len(h)
  OBVIOUS
<1>5. Evolved(b, L0, SubSeq(h, 1, m)) = f[m]
  BY <1>2, <1>4, RunPrefix
<1>6. Evolved(b, L0, SubSeq(h, 1, n)) = f[n]
  BY <1>2, <1>4, RunPrefix
<1>7. Evolved(b, f[m], SubSeq(h, m + 1, n)) = f[n]
  BY <1>2, RunPart
<1> QED
  BY <1>5, <1>6, <1>7, Zenon

(* Rows of other kinds at the end do not change a replay. *)
LEMMA ReplaySkips ==
  ASSUME NEW b \in Builds, NEW h \in Seq(Rows), NEW m \in 0..Len(h), NEW n \in m..Len(h),
         \A i \in (m + 1)..n : h[i].kind # "lifecycle"
  PROVE  Evolved(b, L0, SubSeq(h, 1, m)) = Evolved(b, L0, SubSeq(h, 1, n))
<1>1. L0 \in LState
  BY CheckpointAssumption
<1>2. PICK f : IsRun(b, L0, h, f)
  BY <1>1, RunExists
<1>4. m \in 0..Len(h) /\ n \in 0..Len(h)
  OBVIOUS
<1>5. Evolved(b, L0, SubSeq(h, 1, m)) = f[m]
  BY <1>2, <1>4, RunPrefix
<1>6. Evolved(b, L0, SubSeq(h, 1, n)) = f[n]
  BY <1>2, <1>4, RunPrefix
<1> DEFINE Bad == {i \in m..n : f[i] # f[m]}
<1>7. ASSUME Bad # {} PROVE FALSE
  <2>1. PICK k \in Bad : \A y \in Bad : k <= y
    <3>1. Bad \in SUBSET Nat
      OBVIOUS
    <3> HIDE DEF Bad
    <3> QED
      BY <1>7, <3>1, LeastNumber
  <2>2. k \in m..n /\ f[k] # f[m]
    BY <2>1
  <2>3. k # m
    BY <2>2
  <2>4. k - 1 \in m..n /\ ~(k <= k - 1) /\ k \in 1..Len(h) /\ k \in (m + 1)..n
    BY <2>2, <2>3
  <2>5. f[k - 1] = f[m]
    BY <2>1, <2>4
  <2>6. f[k] = OneStep(b, f[k - 1], h[k])
    BY <1>2, <2>4 DEF IsRun
  <2>7. h[k].kind # "lifecycle"
    BY <2>4
  <2> HIDE DEF Bad
  <2> QED
    BY <2>2, <2>5, <2>6, <2>7 DEF OneStep
<1>8. f[n] = f[m]
  <2>1. n \in m..n
    OBVIOUS
  <2> QED
    BY <1>7, <2>1
<1> QED
  BY <1>5, <1>6, <1>8, Zenon

(* What was appended later does not change a stretch. *)
LEMMA PrefixKept ==
  ASSUME NEW h \in Seq(Rows), NEW t \in Seq(Rows), NEW n \in 0..Len(h)
  PROVE  /\ h \o t \in Seq(Rows) /\ Len(h \o t) = Len(h) + Len(t)
         /\ SubSeq(h \o t, 1, n) = SubSeq(h, 1, n)
         /\ SubSeq(h \o t, Len(h) + 1, Len(h \o t)) = t
         /\ SubSeq(h, 1, Len(h)) = h
OBVIOUS

(* A set of numbers up to n that is not empty has a greatest element. *)
LEMMA GreatestNumber ==
  ASSUME NEW n \in Nat, NEW I \in SUBSET (0..n), I # {}
  PROVE  \E x \in I : \A y \in I : y <= x
<1> DEFINE J == {j \in 0..n : n - j \in I}
<1>1. J \in SUBSET Nat
  OBVIOUS
<1>2. J # {}
  <2>1. PICK i : i \in I
    OBVIOUS
  <2>2. n - i \in 0..n /\ n - (n - i) = i
    BY <2>1
  <2> QED
    BY <2>1, <2>2
<1>3. PICK k \in J : \A y \in J : k <= y
  <2> HIDE DEF J
  <2> QED
    BY <1>1, <1>2, LeastNumber
<1>4. ASSUME NEW y \in I PROVE y <= n - k
  <2>1. n - y \in 0..n /\ n - (n - y) = y
    OBVIOUS
  <2>2. k <= n - y
    BY <1>3, <2>1
  <2> QED
    BY <1>3, <2>2
<1> QED
  BY <1>3, <1>4

(* A checkpoint row is the replay, by its release, of the history up to it. *)
Sound(h, s) ==
  s # NoSnap =>
    /\ s.position \in 1..Len(h)
    /\ s.state = Evolved(s.build, L0, SubSeq(h, 1, s.position))

(* What a fold in flight holds is the replay up to where it stands. *)
FoldOK(x, h, b) ==
  /\ x \in Folds
  /\ x.pc = "anchor" => Sound(h, x.row) /\ x.row.build = b
  /\ x.pc = "tail" => /\ x.after \in 0..Len(h)
                      /\ x.state = Evolved(b, L0, SubSeq(h, 1, x.after))
  /\ x.pc = "done" => /\ x.seen \in 0..Len(h)
                      /\ x.state = Evolved(b, L0, SubSeq(h, 1, x.seen))

(* The inductive invariant behind FoldsTrue. *)
FoldInv ==
  /\ rows \in Seq(Rows) /\ snap \in Snaps /\ Sound(rows, snap)
  /\ disk \in [rows : Seq(Rows), snap : Snaps] /\ Sound(disk.rows, disk.snap)
  /\ erased \in BOOLEAN /\ build \in Builds
  /\ reader = [r \in Readers |-> reader[r]]
  /\ \A r \in Readers : FoldOK(reader[r], rows, build)

(* The fields of a checkpoint row. *)
LEMMA SnapFields ==
  ASSUME NEW s \in Snaps, s # NoSnap
  PROVE  s.position \in Nat \ {0} /\ s.build \in Builds /\ s.anchor \in Rows /\ s.state \in LState
BY DEF Snaps

(* The fields of a fold in flight. *)
LEMMA FoldFields ==
  ASSUME NEW x \in Folds
  PROVE  /\ x.pc \in {"idle", "anchor", "tail", "done", "refused"}
         /\ x.pc = "anchor" => x.row \in Snaps /\ x.row # NoSnap /\ x.shut \in BOOLEAN
         /\ x.pc = "tail" => x.state \in LState /\ x.after \in Nat /\ x.shut \in BOOLEAN
         /\ x.pc = "done" => x.state \in LState /\ x.seen \in Nat /\ x.shut \in BOOLEAN
<1>1. CASE x = Idle
  BY <1>1 DEF Idle
<1>2. CASE x \in [pc : {"anchor"}, row : Snaps \ {NoSnap}, shut : BOOLEAN]
  BY <1>2
<1>3. CASE x \in [pc : {"tail"}, state : LState, after : Nat, shut : BOOLEAN]
  BY <1>3
<1>4. CASE x \in [pc : {"done"}, state : LState, seen : Nat, shut : BOOLEAN]
  BY <1>4
<1>5. CASE x \in [pc : {"refused"}]
  BY <1>5
<1> QED
  BY <1>1, <1>2, <1>3, <1>4, <1>5 DEF Folds

(* Rows appended later leave a checkpoint sound. *)
LEMMA SoundGrows ==
  ASSUME NEW h \in Seq(Rows), NEW t \in Seq(Rows), NEW s \in Snaps, Sound(h, s)
  PROVE  Sound(h \o t, s)
<1> SUFFICES ASSUME s # NoSnap PROVE Sound(h \o t, s)
  BY DEF Sound
<1>1. s.position \in 1..Len(h) /\ s.state = Evolved(s.build, L0, SubSeq(h, 1, s.position))
  BY DEF Sound
<1>2. s.position \in 0..Len(h) /\ Len(h) \in Nat /\ Len(t) \in Nat
  BY <1>1
<1>3. /\ Len(h \o t) = Len(h) + Len(t)
      /\ SubSeq(h \o t, 1, s.position) = SubSeq(h, 1, s.position)
  BY <1>2, PrefixKept
<1>4. s.position \in 1..Len(h \o t)
  BY <1>1, <1>2, <1>3
<1> QED
  BY <1>1, <1>3, <1>4 DEF Sound

(* And a fold in flight right. *)
LEMMA FoldGrows ==
  ASSUME NEW h \in Seq(Rows), NEW t \in Seq(Rows), NEW x, NEW b, FoldOK(x, h, b)
  PROVE  FoldOK(x, h \o t, b)
<1>1. x \in Folds
  BY DEF FoldOK
<1>2. Len(h) \in Nat /\ Len(t) \in Nat /\ Len(h \o t) = Len(h) + Len(t)
  BY PrefixKept
<1>3. \A n \in 0..Len(h) : n \in 0..Len(h \o t) /\ SubSeq(h \o t, 1, n) = SubSeq(h, 1, n)
  BY <1>2, PrefixKept
<1>4. x.pc = "anchor" => Sound(h \o t, x.row) /\ x.row.build = b
  BY <1>1, FoldFields, SoundGrows DEF FoldOK
<1> QED
  BY <1>1, <1>3, <1>4 DEF FoldOK

(* One fold moves on. *)
LEMMA ReaderMoves ==
  ASSUME FoldInv, NEW r \in Readers, NEW x, FoldOK(x, rows, build),
         reader' = [reader EXCEPT ![r] = x], UNCHANGED <<rows, snap, disk, erased, build>>
  PROVE  FoldInv'
<1>1. reader' = [q \in Readers |-> IF q = r THEN x ELSE reader[q]]
  BY DEF FoldInv
<1>2. \A q \in Readers : FoldOK(reader'[q], rows, build)
  BY <1>1 DEF FoldInv
<1>3. reader' = [q \in Readers |-> reader'[q]]
  BY <1>1
<1> QED
  BY <1>2, <1>3 DEF FoldInv

(* What a fold begins with when there is no checkpoint to begin from. *)
LEMMA FromTheStart ==
  ASSUME NEW h \in Seq(Rows), NEW b \in Builds, NEW z \in BOOLEAN
  PROVE  FoldOK([pc |-> "tail", state |-> L0, after |-> 0, shut |-> z], h, b)
<1> DEFINE x == [pc |-> "tail", state |-> L0, after |-> 0, shut |-> z]
<1>1. L0 \in LState
  BY CheckpointAssumption
<1>2. x \in Folds
  BY <1>1 DEF Folds
<1>3. Evolved(b, L0, SubSeq(h, 1, 0)) = L0
  <2>1. PICK f : IsRun(b, L0, h, f)
    BY <1>1, RunExists
  <2>2. 0 \in 0..Len(h)
    OBVIOUS
  <2>3. Evolved(b, L0, SubSeq(h, 1, 0)) = f[0]
    BY <2>1, <2>2, RunPrefix
  <2> QED
    BY <2>1, <2>3 DEF IsRun
<1>4. 0 \in 0..Len(h)
  OBVIOUS
<1> QED
  BY <1>2, <1>3, <1>4 DEF FoldOK

(* Every step of a fold. *)
LEMMA ReaderStep ==
  ASSUME FoldInv, NEW r \in Readers, LoadRow(r) \/ LoadAnchor(r) \/ ReadTail(r) \/ Answer(r)
  PROVE  FoldInv'
<1>1. /\ rows \in Seq(Rows) /\ snap \in Snaps /\ Sound(rows, snap) /\ erased \in BOOLEAN
      /\ build \in Builds /\ FoldOK(reader[r], rows, build) /\ reader[r] \in Folds
  BY DEF FoldInv, FoldOK
<1>2. CASE LoadRow(r)
  <2>1. CASE Selected(snap)
    <3> DEFINE x == [pc |-> "anchor", row |-> snap, shut |-> erased]
    <3>1. x \in Folds
      BY <1>1, <2>1 DEF Folds, Selected
    <3>2. FoldOK(x, rows, build)
      BY <1>1, <2>1, <3>1 DEF FoldOK, Selected
    <3>3. reader' = [reader EXCEPT ![r] = x] /\ UNCHANGED <<rows, snap, disk, erased, build>>
      BY <1>2, <2>1 DEF LoadRow
    <3> HIDE DEF x
    <3> QED
      BY <3>2, <3>3, ReaderMoves
  <2>2. CASE ~Selected(snap)
    <3> DEFINE x == [pc |-> "tail", state |-> L0, after |-> 0, shut |-> erased]
    <3>1. FoldOK(x, rows, build)
      BY <1>1, FromTheStart
    <3>2. reader' = [reader EXCEPT ![r] = x] /\ UNCHANGED <<rows, snap, disk, erased, build>>
      BY <1>2, <2>2 DEF LoadRow
    <3> HIDE DEF x
    <3> QED
      BY <3>1, <3>2, ReaderMoves
  <2> QED
    BY <2>1, <2>2
<1>3. CASE LoadAnchor(r)
  <2> DEFINE row == reader[r].row
             z == reader[r].shut
  <2>1. row \in Snaps /\ row # NoSnap /\ z \in BOOLEAN /\ Sound(rows, row) /\ row.build = build
    BY <1>1, <1>3, FoldFields DEF LoadAnchor, FoldOK
  <2>2. CASE Valid(row)
    <3> DEFINE x == [pc |-> "tail", state |-> row.state, after |-> row.position, shut |-> z]
    <3>1. x \in Folds
      BY <2>1, SnapFields DEF Folds
    <3>2. row.position \in 0..Len(rows)
          /\ row.state = Evolved(build, L0, SubSeq(rows, 1, row.position))
      BY <2>1 DEF Sound
    <3>3. FoldOK(x, rows, build)
      BY <3>1, <3>2 DEF FoldOK
    <3>4. reader' = [reader EXCEPT ![r] = x] /\ UNCHANGED <<rows, snap, disk, erased, build>>
      BY <1>3, <2>2 DEF LoadAnchor
    <3> HIDE DEF x
    <3> QED
      BY <3>3, <3>4, ReaderMoves
  <2>3. CASE ~Valid(row)
    <3> DEFINE x == [pc |-> "tail", state |-> L0, after |-> 0, shut |-> z]
    <3>1. FoldOK(x, rows, build)
      BY <1>1, <2>1, FromTheStart
    <3>2. reader' = [reader EXCEPT ![r] = x] /\ UNCHANGED <<rows, snap, disk, erased, build>>
      BY <1>3, <2>3 DEF LoadAnchor
    <3> HIDE DEF x
    <3> QED
      BY <3>1, <3>2, ReaderMoves
  <2> QED
    BY <2>2, <2>3
<1>4. CASE ReadTail(r)
  <2> DEFINE after == reader[r].after
             z == reader[r].shut
             st == reader[r].state
  <2>1. /\ z \in BOOLEAN /\ after \in 0..Len(rows)
        /\ st = Evolved(build, L0, SubSeq(rows, 1, after))
    BY <1>1, <1>4, FoldFields DEF ReadTail, FoldOK
  <2>2. CASE Unavailable(after)
    <3> DEFINE x == [pc |-> "refused"]
    <3>1. FoldOK(x, rows, build)
      BY DEF FoldOK, Folds
    <3>2. reader' = [reader EXCEPT ![r] = x] /\ UNCHANGED <<rows, snap, disk, erased, build>>
      BY <1>4, <2>2 DEF ReadTail
    <3> HIDE DEF x
    <3> QED
      BY <3>1, <3>2, ReaderMoves
  <2>3. CASE ~Unavailable(after)
    <3> DEFINE e == Evolved(build, st, Rest(after))
               x == [pc |-> "done", seen |-> Len(rows), shut |-> z, state |-> e]
    <3>1. Len(rows) \in Nat /\ Len(rows) \in after..Len(rows) /\ Len(rows) \in 0..Len(rows)
      BY <1>1, <2>1
    <3>2. e = Evolved(build, L0, SubSeq(rows, 1, Len(rows)))
      <4> HIDE DEF after, st
      <4>1. Evolved(build, Evolved(build, L0, SubSeq(rows, 1, after)), SubSeq(rows, after + 1, Len(rows)))
              = Evolved(build, L0, SubSeq(rows, 1, Len(rows)))
        BY <1>1, <2>1, <3>1, ReplayOn
      <4> QED
        BY <2>1, <4>1 DEF Rest
    <3>3. e \in LState
      <4>1. SubSeq(rows, 1, Len(rows)) = rows
        BY <1>1, PrefixKept
      <4>2. Evolved(build, L0, rows) \in LState
        BY <1>1, CheckpointAssumption, EvolvedType
      <4> QED
        BY <3>2, <4>1, <4>2
    <3> HIDE DEF e
    <3>4. x \in Folds
      BY <2>1, <3>1, <3>3 DEF Folds
    <3>5. FoldOK(x, rows, build)
      BY <3>1, <3>2, <3>4 DEF FoldOK
    <3>6. reader' = [reader EXCEPT ![r] = x] /\ UNCHANGED <<rows, snap, disk, erased, build>>
      BY <1>4, <2>3 DEF ReadTail, e
    <3> HIDE DEF x
    <3> QED
      BY <3>5, <3>6, ReaderMoves
  <2> QED
    BY <2>2, <2>3
<1>5. CASE Answer(r)
  <2>1. FoldOK(Idle, rows, build)
    BY DEF FoldOK, Folds, Idle
  <2>2. reader' = [reader EXCEPT ![r] = Idle] /\ UNCHANGED <<rows, snap, disk, erased, build>>
    BY <1>5 DEF Answer
  <2> QED
    BY <2>1, <2>2, ReaderMoves
<1> QED
  BY <1>2, <1>3, <1>4, <1>5

(* The checkpoint an admission leaves behind. *)
LEMMA CheckpointSound ==
  ASSUME FoldInv, NEW batch \in Seq(Rows), rows' = rows \o batch,
         Checkpoint(Evolved(build, L0, rows'))
  PROVE  snap' \in Snaps /\ Sound(rows', snap')
<1>1. rows \in Seq(Rows) /\ snap \in Snaps /\ Sound(rows, snap) /\ build \in Builds
  BY DEF FoldInv
<1>2. CASE UNCHANGED snap
  BY <1>1, <1>2, SoundGrows
<1>3. CASE ~UNCHANGED snap
  <2>0. rows \o batch \in Seq(Rows)
    BY <1>1
  <2>1. PICK h \in Seq(Rows) : h = rows'
    BY <2>0
  <2> DEFINE previous == IF Selected(snap) THEN snap.position ELSE 0
             since    == {i \in (previous + 1)..Len(h) : h[i].kind = "lifecycle"}
             top      == CHOOSE i \in since : \A j \in since : j <= i
             st       == Evolved(build, L0, h)
             x        == [position |-> top, build |-> build, anchor |-> h[top], state |-> st]
  <2>2. Cardinality(since) >= Every /\ snap' = x
    BY <1>3, <2>1 DEF Checkpoint
  <2>3. previous \in Nat /\ Len(h) \in Nat
    BY <1>1, SnapFields DEF Selected
  <2>4. since \in SUBSET (0..Len(h)) /\ \A i \in 1..Len(h) : i > previous /\ h[i].kind = "lifecycle" => i \in since
    BY <2>3
  <2>5. since # {}
    <3>1. Cardinality({}) = 0
      BY FS_EmptySet
    <3>2. ~(0 >= Every)
      BY CheckpointAssumption
    <3> HIDE DEF since
    <3> QED
      BY <2>2, <3>1, <3>2
  <2>6. top \in since /\ \A j \in since : j <= top
    <3>1. \E i \in since : \A j \in since : j <= i
      <4> HIDE DEF since
      <4> QED
        BY <2>3, <2>4, <2>5, GreatestNumber
    <3> HIDE DEF since
    <3> QED
      BY <3>1
  <2>7. top \in 1..Len(h) /\ top > previous
    <3>1. top \in (previous + 1)..Len(h)
      BY <2>6
    <3> HIDE DEF top, since, previous
    <3> QED
      BY <2>3, <3>1
  <2> HIDE DEF top, since
  <2>8. \A i \in (top + 1)..Len(h) : h[i].kind # "lifecycle"
    <3> SUFFICES ASSUME NEW i \in (top + 1)..Len(h), h[i].kind = "lifecycle" PROVE FALSE
      OBVIOUS
    <3> HIDE DEF previous
    <3>1. i \in 1..Len(h) /\ i > previous /\ ~(i <= top)
      BY <2>3, <2>7
    <3> QED
      BY <2>4, <2>6, <3>1
  <2>9. Evolved(build, L0, SubSeq(h, 1, top)) = st
    <3>1. top \in 0..Len(h) /\ Len(h) \in top..Len(h)
      BY <2>3, <2>7
    <3>2. SubSeq(h, 1, Len(h)) = h
      BY PrefixKept
    <3>3. Evolved(build, L0, SubSeq(h, 1, top)) = Evolved(build, L0, SubSeq(h, 1, Len(h)))
      BY <1>1, <2>8, <3>1, ReplaySkips
    <3> QED
      BY <3>2, <3>3
  <2>10. h[top] \in Rows /\ st \in LState /\ top \in Nat \ {0}
    BY <1>1, <2>7, RowOf, EvolvedType, CheckpointAssumption
  <2> HIDE DEF st
  <2>11. x \in Snaps
    BY <1>1, <2>10 DEF Snaps
  <2>12. Sound(h, x)
    BY <2>7, <2>9, <2>11 DEF Sound
  <2> HIDE DEF x
  <2> QED
    BY <2>1, <2>2, <2>11, <2>12
<1> QED
  BY <1>2, <1>3

(* The fold inside an admission is the whole replay. *)
LEMMA FoldNowReplays ==
  ASSUME FoldInv
  PROVE  FoldNow = Evolved(build, L0, rows)
<1>1. rows \in Seq(Rows) /\ snap \in Snaps /\ Sound(rows, snap) /\ build \in Builds
  BY DEF FoldInv
<1>2. CASE Selected(snap) /\ Valid(snap)
  <2> DEFINE p == snap.position
  <2>1. p \in 1..Len(rows) /\ snap.state = Evolved(build, L0, SubSeq(rows, 1, p))
    BY <1>1, <1>2 DEF Sound, Selected
  <2> HIDE DEF p
  <2>2. p \in 0..Len(rows) /\ Len(rows) \in p..Len(rows)
    BY <1>1, <2>1
  <2>3. Evolved(build, Evolved(build, L0, SubSeq(rows, 1, p)), SubSeq(rows, p + 1, Len(rows)))
          = Evolved(build, L0, SubSeq(rows, 1, Len(rows)))
    BY <1>1, <2>2, ReplayOn
  <2>4. SubSeq(rows, 1, Len(rows)) = rows
    BY <1>1, PrefixKept
  <2>5. FoldNow = Evolved(build, snap.state, Rest(p))
    BY <1>2 DEF FoldNow, p
  <2> QED
    BY <2>1, <2>3, <2>4, <2>5 DEF Rest
<1>3. CASE ~(Selected(snap) /\ Valid(snap))
  BY <1>3 DEF FoldNow
<1> QED
  BY <1>2, <1>3

(* A batch evolved on top of a replay is the replay of both. *)
LEMMA ReplayBatch ==
  ASSUME NEW b \in Builds, NEW h \in Seq(Rows), NEW t \in Seq(Rows)
  PROVE  Evolved(b, Evolved(b, L0, h), t) = Evolved(b, L0, h \o t)
<1> DEFINE m == Len(h)
           n == Len(h \o t)
<1>1. m \in Nat /\ Len(t) \in Nat /\ m \in 0..Len(h)
  OBVIOUS
<1>2. /\ h \o t \in Seq(Rows) /\ n = m + Len(t)
      /\ SubSeq(h \o t, 1, m) = h /\ SubSeq(h \o t, m + 1, n) = t
  BY <1>1, PrefixKept
<1>3. SubSeq(h \o t, 1, n) = h \o t
  BY <1>2, PrefixKept
<1>4. m \in 0..n /\ n \in m..n
  BY <1>1, <1>2
<1>5. Evolved(b, Evolved(b, L0, SubSeq(h \o t, 1, m)), SubSeq(h \o t, m + 1, n))
        = Evolved(b, L0, SubSeq(h \o t, 1, n))
  BY <1>2, <1>4, ReplayOn
<1> HIDE DEF m, n
<1> QED
  BY <1>2, <1>3, <1>5

(* Every step keeps the invariant. *)
LEMMA FoldStep == FoldInv /\ [Next]_vars => FoldInv'
<1> SUFFICES ASSUME FoldInv, [Next]_vars PROVE FoldInv'
  OBVIOUS
<1>1. /\ rows \in Seq(Rows) /\ snap \in Snaps /\ Sound(rows, snap)
      /\ disk \in [rows : Seq(Rows), snap : Snaps] /\ Sound(disk.rows, disk.snap)
      /\ erased \in BOOLEAN /\ build \in Builds
      /\ reader = [r \in Readers |-> reader[r]]
      /\ \A r \in Readers : FoldOK(reader[r], rows, build)
  BY DEF FoldInv
<1>2. CASE UNCHANGED vars
  BY <1>1, <1>2 DEF vars, FoldInv
<1>3. ASSUME NEW r \in Readers, LoadRow(r) \/ LoadAnchor(r) \/ ReadTail(r) \/ Answer(r)
      PROVE  FoldInv'
  BY <1>3, ReaderStep
<1>4. ASSUME NEW t \in Seq(Rows), rows' = rows \o t, snap' \in Snaps, Sound(rows', snap'),
             UNCHANGED <<disk, erased, build, reader>>
      PROVE  FoldInv'
  <2>1. rows' \in Seq(Rows) /\ \A r \in Readers : FoldOK(reader[r], rows', build)
    BY <1>1, <1>4, PrefixKept, FoldGrows
  <2> QED
    BY <1>1, <1>4, <2>1 DEF FoldInv
<1>5. ASSUME NEW n \in 0..MaxBatch, NEW batch \in [1..n -> [kind : {"lifecycle"}, event : Events]],
             Admit(batch)
      PROVE  FoldInv'
  <2>1. batch \in Seq(Rows)
    <3>1. n \in Nat
      BY CheckpointAssumption
    <3>2. batch \in [1..n -> Rows]
      BY DEF Rows
    <3> QED
      BY <3>1, <3>2
  <2>2. rows' = rows \o batch /\ UNCHANGED <<disk, erased, build, reader>>
    BY <1>5 DEF Admit
  <2>3. Evolved(build, FoldNow, batch) = Evolved(build, L0, rows')
    BY <1>1, <2>1, <2>2, FoldNowReplays, ReplayBatch
  <2>4. Checkpoint(Evolved(build, L0, rows'))
    BY <1>5, <2>3 DEF Admit, NewState
  <2>5. snap' \in Snaps /\ Sound(rows', snap')
    BY <2>1, <2>2, <2>4, CheckpointSound
  <2> QED
    BY <1>4, <2>1, <2>2, <2>5
<1>6. CASE AppendRecord
  <2>1. <<Record>> \in Seq(Rows)
    <3>1. Record \in Rows
      BY DEF Record, Rows
    <3> QED
      BY <3>1
  <2>2. Append(rows, Record) = rows \o <<Record>>
    BY <1>1
  <2>3. rows' = rows \o <<Record>> /\ UNCHANGED <<snap, disk, erased, build, reader>>
    BY <1>6, <2>2 DEF AppendRecord
  <2>4. Sound(rows', snap)
    BY <1>1, <2>1, <2>3, SoundGrows
  <2> QED
    BY <1>1, <1>4, <2>1, <2>3, <2>4
<1>7. CASE Erase
  BY <1>1, <1>7 DEF Erase, FoldInv
<1>8. CASE Sync
  <2>1. disk' = [rows |-> rows, snap |-> snap] /\ UNCHANGED <<rows, snap, erased, build, reader>>
    BY <1>8 DEF Sync
  <2>2. disk' \in [rows : Seq(Rows), snap : Snaps] /\ Sound(disk'.rows, disk'.snap)
    BY <1>1, <2>1
  <2> QED
    BY <1>1, <2>1, <2>2 DEF FoldInv
<1>9. ASSUME NEW b \in Builds, NEW gone \in BOOLEAN, Start(b, gone) PROVE FoldInv'
  <2>1. /\ build' = b /\ reader' = [r \in Readers |-> Idle] /\ UNCHANGED <<disk, erased>>
        /\ \/ rows' = disk.rows /\ snap' = disk.snap
           \/ UNCHANGED <<rows, snap>>
    BY <1>9 DEF Start
  <2>2. rows' \in Seq(Rows) /\ snap' \in Snaps /\ Sound(rows', snap')
    BY <1>1, <2>1
  <2>3. \A h : FoldOK(Idle, h, b)
    BY DEF FoldOK, Folds, Idle
  <2>4. reader' = [r \in Readers |-> reader'[r]] /\ \A r \in Readers : reader'[r] = Idle
    BY <2>1
  <2> QED
    BY <1>1, <2>1, <2>2, <2>3, <2>4 DEF FoldInv
<1> QED
  BY <1>2, <1>3, <1>5, <1>6, <1>7, <1>8, <1>9 DEF Next

(* A fold (`Store::fold`, and the fold inside an admission's transaction)  *)
(* answers the replay of every row its last read saw, and a checkpoint row *)
(* is the replay up to it by the release that wrote it, for every reducer, *)
(* every number of releases, readers and rows, through appends and new     *)
(* checkpoints between a fold's reads, power losses and restarts.          *)
THEOREM FoldsAreReplays == Spec => []FoldsTrue
<1>1. Init => FoldInv
  <2> SUFFICES ASSUME Init PROVE FoldInv
    OBVIOUS
  <2>1. Sound(<<>>, NoSnap) /\ NoSnap \in Snaps /\ <<>> \in Seq(Rows)
    BY DEF Sound, Snaps
  <2>2. \A h, b : FoldOK(Idle, h, b)
    BY DEF FoldOK, Folds, Idle
  <2> QED
    BY <2>1, <2>2 DEF Init, FoldInv
<1>2. FoldInv => FoldsTrue
  <2> SUFFICES ASSUME FoldInv PROVE FoldsTrue
    OBVIOUS
  <2>1. TypeOK
    <3>1. reader \in [Readers -> Folds]
      BY DEF FoldInv, FoldOK
    <3> QED
      BY <3>1 DEF FoldInv, TypeOK
  <2>2. FoldAgrees
    BY DEF FoldAgrees, FoldInv, FoldOK, Replay
  <2>3. CheckpointAgrees
    BY DEF CheckpointAgrees, FoldInv, Sound, Replay
  <2> QED
    BY <2>1, <2>2, <2>3 DEF FoldsTrue
<1> QED
  BY <1>1, <1>2, FoldStep, PTL DEF Spec
=============================================================================
