--------------------------- MODULE AdmissionProofs ---------------------------
(***************************************************************************)
(* Theorems about keyed admission, for every set of scopes, keys, callers  *)
(* and lifecycle, with any number of faults, and about the lifecycle of    *)
(* reviews over it, for every set of authorities.                          *)
(***************************************************************************)
EXTENDS MCAdmission, TLAPS

(* The rows of an append loop are well formed, one per event. *)
LEMMA BatchType ==
  ASSUME NEW s \in Scopes, log \in [Scopes -> Seq(Entries)],
         NEW events \in Seq(LState), NEW by \in Ids \cup {None}
  PROVE  /\ Batch(s, events, by) \in Seq(Entries)
         /\ Len(Batch(s, events, by)) = Len(events)
         /\ \A i \in 1..Len(events) :
              Batch(s, events, by)[i] = [state |-> events[i], by |-> by, base |-> Len(log[s])]
<1>1. Len(events) \in Nat /\ Len(log[s]) \in Nat
  OBVIOUS
<1>2. \A i \in 1..Len(events) : events[i] \in LState
  OBVIOUS
<1>3. \A i \in 1..Len(events) :
        [state |-> events[i], by |-> by, base |-> Len(log[s])] \in Entries
  BY <1>1, <1>2 DEF Entries
<1> QED
  BY <1>1, <1>3 DEF Batch

(* `fold` answers a lifecycle state. *)
LEMMA FoldType ==
  ASSUME log \in [Scopes -> Seq(Entries)], NEW s \in Scopes
  PROVE  Fold(s) \in LState
<1>1. CASE log[s] = <<>>
  BY <1>1, LifecycleAssumption DEF Fold
<1>2. CASE log[s] # <<>>
  <2>1. Len(log[s]) \in 1..Len(log[s])
    BY <1>2
  <2>2. log[s][Len(log[s])] \in Entries
    BY <2>1
  <2> QED
    BY <1>2, <2>2 DEF Fold, Entries
<1> QED
  BY <1>1, <1>2

(* A decision's events are a sequence of lifecycle states. *)
LEMMA DecideType ==
  ASSUME NEW st \in LState, NEW c \in Commands
  PROVE  Decide[<<st, c>>] \in [ok : BOOLEAN, events : Seq(LState)]
BY LifecycleAssumption

-----------------------------------------------------------------------------
(* Type correctness *)

(* What a database image is, in memory (`tables`) and on disk. *)
Images == [log : [Scopes -> Seq(Entries)],
           status : [Ids -> Statuses \cup {None}],
           snapshot : [Ids -> Snapshots \cup {None}],
           receipts : [Ids -> Nat \cup {None}]]

(* A commit leaves a well-formed image on disk. *)
LEMMA CommitType ==
  ASSUME TypeOK, Commit,
         log' \in [Scopes -> Seq(Entries)],
         status' \in [Ids -> Statuses \cup {None}],
         snapshot' \in [Ids -> Snapshots \cup {None}],
         receipts' \in [Ids -> Nat \cup {None}]
  PROVE  disk' \in Images
BY DEF Commit, TypeOK, Images, Db

(* Appending a decided batch keeps the logs well formed. *)
LEMMA AppendType ==
  ASSUME log \in [Scopes -> Seq(Entries)], NEW s \in Scopes,
         NEW events \in Seq(LState), NEW by \in Ids \cup {None},
         AppendEvents(s, events, by)
  PROVE  /\ log' \in [Scopes -> Seq(Entries)]
         /\ log'[s] = log[s] \o Batch(s, events, by)
         /\ \A t \in Scopes \ {s} : log'[t] = log[t]
<1>1. Batch(s, events, by) \in Seq(Entries)
  BY BatchType
<1>2. log[s] \o Batch(s, events, by) \in Seq(Entries)
  BY <1>1
<1> HIDE DEF Entries, Batch
<1> QED
  BY <1>2 DEF AppendEvents

(* `set_command_status` keeps the table of commands well formed. *)
LEMMA StatusType ==
  ASSUME TypeOK, NEW id \in Ids, NEW st \in Statuses, SetCommandStatus(id, st)
  PROVE  status' \in [Ids -> Statuses \cup {None}]
BY DEF TypeOK, SetCommandStatus

(* A receipt records a position of the scope's log. *)
LEMMA ReceiptType ==
  ASSUME TypeOK, NEW id \in Ids, WriteReceipt(id)
  PROVE  receipts' \in [Ids -> Nat \cup {None}]
<1>1. id[1] \in Scopes
  BY DEF Ids
<1>2. Len(log[id[1]]) \in Nat
  BY <1>1 DEF TypeOK
<1> QED
  BY <1>2 DEF TypeOK, WriteReceipt

(* A call past its claim has the fields of the shell's local variables. *)
LEMMA CallType ==
  ASSUME TypeOK, NEW w \in Workers, call[w].pc # "idle"
  PROVE  /\ call[w].id \in Ids
         /\ call[w].cmd \in Commands
         /\ call[w].pc # "finish" => call[w] \in InFlight({"check", "repair", "admit"}, {""})
         /\ call[w].pc = "finish" => call[w] \in InFlight({"finish"}, {"applied", "rejected", "expired"})
<1>1. call[w] \in Calls /\ call[w] # Idle
  BY DEF TypeOK, Idle
<1>2. CASE call[w] \in InFlight({"check", "repair", "admit"}, {""})
  BY <1>2 DEF InFlight
<1>3. CASE call[w] \in InFlight({"finish"}, {"applied", "rejected", "expired"})
  BY <1>3 DEF InFlight
<1> QED
  BY <1>1, <1>2, <1>3 DEF Calls

(* The shell moves on to its next transaction. *)
LEMMA CallMoveType ==
  ASSUME TypeOK, NEW w \in Workers, call[w].pc \notin {"idle", "finish"},
         NEW p \in {"check", "repair", "admit"}, call' = [call EXCEPT ![w].pc = p]
  PROVE  call' \in [Workers -> Calls]
<1>1. call[w] \in InFlight({"check", "repair", "admit"}, {""})
  BY CallType
<1>2. [call[w] EXCEPT !.pc = p] \in InFlight({"check", "repair", "admit"}, {""})
  BY <1>1 DEF InFlight
<1>3. [call[w] EXCEPT !.pc = p] \in Calls
  BY <1>2 DEF Calls
<1> QED
  BY <1>3 DEF TypeOK

(* The shell learns its outcome and goes to the last status update. *)
LEMMA CallFinishType ==
  ASSUME TypeOK, NEW w \in Workers, call[w].pc \notin {"idle", "finish"},
         NEW o \in {"applied", "rejected", "expired"},
         call' = [call EXCEPT ![w].pc = "finish", ![w].outcome = o]
  PROVE  call' \in [Workers -> Calls]
<1>1. call[w] \in InFlight({"check", "repair", "admit"}, {""})
  BY CallType
<1>2. [call[w] EXCEPT !.pc = "finish", !.outcome = o]
        \in InFlight({"finish"}, {"applied", "rejected", "expired"})
  BY <1>1 DEF InFlight
<1>3. [call[w] EXCEPT !.pc = "finish", !.outcome = o] \in Calls
  BY <1>2 DEF Calls
<1>4. call' = [call EXCEPT ![w] = [call[w] EXCEPT !.pc = "finish", !.outcome = o]]
  BY DEF TypeOK
<1> QED
  BY <1>3, <1>4 DEF TypeOK

(* A call that returns leaves its worker idle. *)
LEMMA ReturnType ==
  ASSUME TypeOK, NEW w \in Workers, Return(w)
  PROVE  call' \in [Workers -> Calls]
BY DEF TypeOK, Return, Calls

(* The decision inside the admission transaction. *)
LEMMA DecisionType ==
  ASSUME TypeOK, NEW s \in Scopes, NEW c \in Commands
  PROVE  /\ Decide[<<Fold(s), c>>].ok \in BOOLEAN
         /\ Decide[<<Fold(s), c>>].events \in Seq(LState)
<1>1. Fold(s) \in LState
  BY FoldType DEF TypeOK
<1> QED
  BY <1>1, DecideType

(* Every operation of the store keeps every variable in its type. *)
LEMMA TypeStep ==
  ASSUME TypeOK, [Next]_vars
  PROVE  TypeOK'
<1> USE DEF Images
<1>1. ASSUME NEW w \in Workers, NEW id \in Ids, NEW c \in Commands, Claim(w, id, c)
      PROVE  TypeOK'
  <2> DEFINE mine    == [api |-> "materialized", intent |-> c]
             first   == IF status[id] = None THEN mine ELSE snapshot[id]
             found   == IF status[id] = None THEN "received" ELSE status[id]
             claimed == first = mine /\ Claimable(found)
             now     == IF claimed THEN "processing" ELSE found
             started == [pc |-> "check", id |-> id, cmd |-> c, claimed |-> claimed,
                         seen |-> now, outcome |-> ""]
  <2>1. mine \in Snapshots /\ first \in Snapshots \cup {None}
    BY DEF TypeOK, Snapshots
  <2>2. now \in Statuses
    BY DEF TypeOK, Statuses
  <2>3. started \in Calls
    <3>1. claimed \in BOOLEAN
      OBVIOUS
    <3> HIDE DEF claimed, now
    <3>2. started \in InFlight({"check", "repair", "admit"}, {""})
      BY <2>2, <3>1 DEF InFlight
    <3> QED
      BY <3>2 DEF Calls
  <2>4. status' \in [Ids -> Statuses \cup {None}]
    <3>1. SetCommandStatus(id, now)
      BY <1>1 DEF Claim
    <3> HIDE DEF now
    <3> QED
      BY <3>1, <2>2, StatusType
  <2>5. snapshot' \in [Ids -> Snapshots \cup {None}]
    <3>1. snapshot' = [snapshot EXCEPT ![id] = first]
      BY <1>1 DEF Claim
    <3> HIDE DEF first
    <3> QED
      BY <3>1, <2>1 DEF TypeOK
  <2>6. call' \in [Workers -> Calls]
    <3>1. call' = [call EXCEPT ![w] = IF ~SameInput(first, mine) THEN Idle ELSE started]
      BY <1>1 DEF Claim
    <3>2. Idle \in Calls
      BY DEF Calls
    <3> HIDE DEF first, mine, started
    <3> QED
      BY <2>3, <3>1, <3>2 DEF TypeOK
  <2>7. UNCHANGED <<log, receipts, up, unkeyed, faults, acked, refused>> /\ Commit
    BY <1>1 DEF Claim
  <2>8. log' \in [Scopes -> Seq(Entries)] /\ receipts' \in [Ids -> Nat \cup {None}]
    BY <2>7 DEF TypeOK
  <2>9. disk' \in Images
    BY <2>4, <2>5, <2>7, <2>8, CommitType
  <2> QED
    BY <2>4, <2>5, <2>6, <2>7, <2>8, <2>9 DEF TypeOK
<1>2. ASSUME NEW w \in Workers, CheckReceipt(w)
      PROVE  TypeOK'
  <2>1. call' \in [Workers -> Calls]
    <3>1. call[w].pc \notin {"idle", "finish"}
      BY <1>2 DEF CheckReceipt
    <3>2. \/ call' = [call EXCEPT ![w].pc = "repair"]
          \/ call' = [call EXCEPT ![w].pc = "admit"]
          \/ Return(w)
      BY <1>2 DEF CheckReceipt
    <3> QED
      BY <3>1, <3>2, CallMoveType, ReturnType
  <2>2. refused' \subseteq Ids
    <3>1. call[w].id \in Ids
      BY <1>2, CallType DEF CheckReceipt
    <3> QED
      BY <1>2, <3>1 DEF CheckReceipt, TypeOK
  <2>3. UNCHANGED <<tables, disk, up, unkeyed, faults, acked>>
    BY <1>2 DEF CheckReceipt
  <2> QED
    BY <2>1, <2>2, <2>3 DEF TypeOK, tables
<1>3. ASSUME NEW w \in Workers, Repair(w)
      PROVE  TypeOK'
  <2>1. call[w].id \in Ids /\ call[w].cmd \in Commands
    BY <1>3, CallType DEF Repair
  <2>2. status' \in [Ids -> Statuses \cup {None}]
    BY <1>3, <2>1, StatusType DEF Repair, Statuses
  <2>3. call' \in [Workers -> Calls]
    BY <1>3, ReturnType DEF Repair
  <2>4. acked' \subseteq (Ids \X (Commands \cup Intents))
    BY <1>3, <2>1 DEF Repair, TypeOK
  <2>5. UNCHANGED <<log, snapshot, receipts, up, unkeyed, faults, refused>> /\ Commit
    BY <1>3 DEF Repair
  <2>6. /\ log' \in [Scopes -> Seq(Entries)] /\ receipts' \in [Ids -> Nat \cup {None}]
        /\ snapshot' \in [Ids -> Snapshots \cup {None}]
    BY <2>5 DEF TypeOK
  <2>7. disk' \in Images
    BY <2>2, <2>5, <2>6, CommitType
  <2> QED
    BY <2>2, <2>3, <2>4, <2>5, <2>6, <2>7 DEF TypeOK
<1>4. ASSUME NEW w \in Workers, AdmitWithKey(w)
      PROVE  TypeOK'
  <2> DEFINE id == call[w].id
             s  == id[1]
             d  == Decide[<<Fold(s), call[w].cmd>>]
  <2>1. call[w].pc \notin {"idle", "finish"} /\ id \in Ids /\ call[w].cmd \in Commands
    BY <1>4, CallType DEF AdmitWithKey
  <2>2. s \in Scopes
    BY <2>1 DEF Ids
  <2>3. d.events \in Seq(LState)
    BY <2>1, <2>2, DecisionType
  <2>4. \/ UNCHANGED <<log, receipts>>
        \/ AppendEvents(s, d.events, id) /\ WriteReceipt(id)
    BY <1>4 DEF AdmitWithKey
  <2>5. \/ call' = [call EXCEPT ![w].pc = "finish", ![w].outcome = "applied"]
        \/ call' = [call EXCEPT ![w].pc = "finish", ![w].outcome = "rejected"]
    BY <1>4 DEF AdmitWithKey
  <2>6. UNCHANGED <<status, snapshot, up, unkeyed, faults, acked, refused>> /\ Commit
    BY <1>4 DEF AdmitWithKey
  <2> HIDE DEF d, s, id
  <2>7. log' \in [Scopes -> Seq(Entries)]
    BY <2>1, <2>2, <2>3, <2>4, AppendType DEF TypeOK
  <2>8. receipts' \in [Ids -> Nat \cup {None}]
    BY <2>1, <2>4, ReceiptType DEF TypeOK
  <2>9. call' \in [Workers -> Calls]
    BY <2>1, <2>5, CallFinishType
  <2>10. /\ status' \in [Ids -> Statuses \cup {None}]
         /\ snapshot' \in [Ids -> Snapshots \cup {None}]
    BY <2>6 DEF TypeOK
  <2>11. disk' \in Images
    BY <2>6, <2>7, <2>8, <2>10, CommitType
  <2> QED
    BY <2>6, <2>7, <2>8, <2>9, <2>10, <2>11 DEF TypeOK
<1>5. ASSUME NEW w \in Workers, AdmitWithKeyFails(w)
      PROVE  TypeOK'
  <2>1. call' \in [Workers -> Calls]
    BY <1>5, CallFinishType DEF AdmitWithKeyFails
  <2>2. UNCHANGED <<tables, disk, up, unkeyed, acked, refused>> /\ faults' = faults + 1
    BY <1>5 DEF AdmitWithKeyFails, Fault
  <2> QED
    BY <2>1, <2>2 DEF TypeOK, tables
<1>6. ASSUME NEW w \in Workers, Finish(w)
      PROVE  TypeOK'
  <2>1. call[w].id \in Ids /\ call[w].cmd \in Commands
    BY <1>6, CallType DEF Finish
  <2>2. call[w].outcome \in {"applied", "rejected", "expired"}
    BY <1>6, CallType DEF Finish, InFlight
  <2>3. status' \in [Ids -> Statuses \cup {None}]
    BY <1>6, <2>1, <2>2, StatusType DEF Finish, FinalStatus, Statuses
  <2>4. call' \in [Workers -> Calls]
    BY <1>6, ReturnType DEF Finish
  <2>5. acked' \subseteq (Ids \X (Commands \cup Intents))
    BY <1>6, <2>1 DEF Finish, TypeOK
  <2>6. UNCHANGED <<log, snapshot, receipts, up, unkeyed, faults, refused>> /\ Commit
    BY <1>6 DEF Finish
  <2>7. /\ log' \in [Scopes -> Seq(Entries)] /\ receipts' \in [Ids -> Nat \cup {None}]
        /\ snapshot' \in [Ids -> Snapshots \cup {None}]
    BY <2>6 DEF TypeOK
  <2>8. disk' \in Images
    BY <2>3, <2>6, <2>7, CommitType
  <2> QED
    BY <2>3, <2>4, <2>5, <2>6, <2>7, <2>8 DEF TypeOK
<1>7. ASSUME NEW w \in Workers, StatementFails(w)
      PROVE  TypeOK'
  <2>1. call' \in [Workers -> Calls]
    BY <1>7, ReturnType DEF StatementFails
  <2>2. UNCHANGED <<tables, disk, up, unkeyed, acked, refused>> /\ faults' = faults + 1
    BY <1>7 DEF StatementFails, Fault
  <2> QED
    BY <2>1, <2>2 DEF TypeOK, tables
<1>8. ASSUME NEW id \in Ids, NEW c \in Commands, AdmitDirect(id, c)
      PROVE  TypeOK'
  <2> DEFINE s == id[1]
             d == Decide[<<Fold(s), c>>]
  <2>1. s \in Scopes
    BY DEF Ids
  <2>2. d.events \in Seq(LState)
    BY <2>1, DecisionType
  <2>3. AppendEvents(s, d.events, id) /\ WriteReceipt(id) /\ Commit
    BY <1>8 DEF AdmitDirect
  <2>4. UNCHANGED <<status, snapshot, call, up, unkeyed, faults, acked, refused>>
    BY <1>8 DEF AdmitDirect
  <2> HIDE DEF d, s
  <2>5. log' \in [Scopes -> Seq(Entries)]
    BY <2>1, <2>2, <2>3, AppendType DEF TypeOK
  <2>6. receipts' \in [Ids -> Nat \cup {None}]
    BY <2>3, ReceiptType
  <2>7. /\ status' \in [Ids -> Statuses \cup {None}]
        /\ snapshot' \in [Ids -> Snapshots \cup {None}]
    BY <2>4 DEF TypeOK
  <2>8. disk' \in Images
    BY <2>3, <2>5, <2>6, <2>7, CommitType
  <2> QED
    BY <2>4, <2>5, <2>6, <2>7, <2>8 DEF TypeOK
<1>9. ASSUME NEW s \in Scopes, NEW c \in Commands, AdmitUnkeyed(s, c)
      PROVE  TypeOK'
  <2> DEFINE d == Decide[<<Fold(s), c>>]
  <2>1. d.events \in Seq(LState)
    BY DecisionType
  <2>2. AppendEvents(s, d.events, None) /\ unkeyed' = unkeyed + 1 /\ Commit
    BY <1>9 DEF AdmitUnkeyed
  <2>3. UNCHANGED <<status, snapshot, receipts, call, up, faults, acked, refused>>
    BY <1>9 DEF AdmitUnkeyed
  <2> HIDE DEF d
  <2>4. log' \in [Scopes -> Seq(Entries)]
    BY <2>1, <2>2, AppendType DEF TypeOK
  <2>5. /\ status' \in [Ids -> Statuses \cup {None}]
        /\ snapshot' \in [Ids -> Snapshots \cup {None}]
        /\ receipts' \in [Ids -> Nat \cup {None}]
    BY <2>3 DEF TypeOK
  <2>6. disk' \in Images
    BY <2>2, <2>4, <2>5, CommitType
  <2> QED
    BY <2>2, <2>3, <2>4, <2>5, <2>6 DEF TypeOK
<1>10. ASSUME NEW id \in Ids, NEW r \in Intents, NEW c \in Commands \cup {None},
              RequestFresh(id, r, c)
       PROVE  TypeOK'
  <2> DEFINE s == id[1]
             d == IF c = None THEN [ok |-> FALSE, events |-> <<>>]
                              ELSE Decide[<<Fold(s), c>>]
  <2>1. s \in Scopes
    BY DEF Ids
  <2>2. d.ok => d.events \in Seq(LState)
    BY <2>1, DecisionType
  <2>3. /\ snapshot' = [snapshot EXCEPT ![id] = [api |-> "request", intent |-> r]]
        /\ UNCHANGED <<call, up, unkeyed, faults, refused>> /\ Commit
    BY <1>10 DEF RequestFresh
  <2>4. \/ /\ d.ok /\ SetCommandStatus(id, "applied") /\ WriteReceipt(id)
           /\ AppendEvents(s, d.events, id) /\ acked' = acked \cup {<<id, r>>}
        \/ SetCommandStatus(id, "rejected") /\ UNCHANGED <<log, receipts, acked>>
    BY <1>10 DEF RequestFresh
  <2> HIDE DEF d, s
  <2>5. log' \in [Scopes -> Seq(Entries)]
    BY <2>1, <2>2, <2>4, AppendType DEF TypeOK
  <2>6. receipts' \in [Ids -> Nat \cup {None}]
    BY <2>4, ReceiptType DEF TypeOK
  <2>7. status' \in [Ids -> Statuses \cup {None}]
    BY <2>4, StatusType DEF Statuses
  <2>8. [api |-> "request", intent |-> r] \in Snapshots
    BY DEF Snapshots
  <2>9. snapshot' \in [Ids -> Snapshots \cup {None}]
    BY <2>3, <2>8 DEF TypeOK
  <2>10. acked' \subseteq (Ids \X (Commands \cup Intents))
    BY <2>4 DEF TypeOK
  <2>11. disk' \in Images
    BY <2>3, <2>5, <2>6, <2>7, <2>9, CommitType
  <2> QED
    BY <2>3, <2>5, <2>6, <2>7, <2>9, <2>10, <2>11 DEF TypeOK
<1>11. ASSUME NEW id \in Ids, NEW r \in Intents, RequestAgain(id, r)
       PROVE  TypeOK'
  <2>1. /\ acked' \subseteq (Ids \X (Commands \cup Intents))
        /\ refused' \subseteq Ids
    BY <1>11 DEF RequestAgain, TypeOK
  <2>2. UNCHANGED <<tables, disk, call, up, unkeyed, faults>>
    BY <1>11 DEF RequestAgain
  <2> QED
    BY <2>1, <2>2 DEF TypeOK, tables
<1>12. ASSUME Crash \/ PowerLoss
       PROVE  TypeOK'
  <2>1. call' \in [Workers -> Calls]
    BY <1>12 DEF Crash, PowerLoss, Calls
  <2>2. /\ up' = FALSE /\ faults' = faults + 1
        /\ UNCHANGED <<disk, unkeyed, acked, refused>>
        /\ \/ UNCHANGED tables
           \/ /\ log' = disk.log /\ status' = disk.status
              /\ snapshot' = disk.snapshot /\ receipts' = disk.receipts
    BY <1>12 DEF Crash, PowerLoss, Fault
  <2>3. disk \in Images
    BY DEF TypeOK
  <2>4. /\ log' \in [Scopes -> Seq(Entries)]
        /\ status' \in [Ids -> Statuses \cup {None}]
        /\ snapshot' \in [Ids -> Snapshots \cup {None}]
        /\ receipts' \in [Ids -> Nat \cup {None}]
    BY <2>2, <2>3 DEF TypeOK, tables
  <2>5. disk' \in Images
    BY <2>2, <2>3
  <2>6. faults' \in Nat /\ unkeyed' \in Nat
    BY <2>2 DEF TypeOK
  <2>7. /\ up' \in BOOLEAN
        /\ acked' \subseteq (Ids \X (Commands \cup Intents))
        /\ refused' \subseteq Ids
    BY <2>2, Zenon DEF TypeOK
  <2> QED
    BY <2>1, <2>4, <2>5, <2>6, <2>7 DEF TypeOK
<1>13. CASE Sync
  BY <1>13 DEF Sync, TypeOK, tables, Db
<1>14. CASE Restart
  <2>1. status' \in [Ids -> Statuses \cup {None}]
    BY <1>14 DEF Restart, ReconcileCommands, TypeOK, Statuses
  <2>2. /\ up' = TRUE /\ Commit
        /\ UNCHANGED <<log, snapshot, receipts, call, unkeyed, faults, acked, refused>>
    BY <1>14 DEF Restart
  <2>3. /\ log' \in [Scopes -> Seq(Entries)] /\ receipts' \in [Ids -> Nat \cup {None}]
        /\ snapshot' \in [Ids -> Snapshots \cup {None}]
    BY <2>2 DEF TypeOK
  <2>4. disk' \in Images
    BY <2>1, <2>2, <2>3, CommitType
  <2> QED
    BY <2>1, <2>2, <2>3, <2>4 DEF TypeOK
<1>15. CASE UNCHANGED vars
  BY <1>15 DEF TypeOK, vars, tables
<1> QED
  BY <1>1, <1>2, <1>3, <1>4, <1>5, <1>6, <1>7, <1>8, <1>9, <1>10, <1>11, <1>12,
     <1>13, <1>14, <1>15 DEF Next

(* Every variable keeps its type: in particular the last status update of  *)
(* `admit_materialized` writes one of the statuses the schema knows.       *)
THEOREM TypeCorrect == Spec => []TypeOK
<1>1. Init => TypeOK
  <2> SUFFICES ASSUME Init PROVE TypeOK
    OBVIOUS
  <2>1. <<>> \in Seq(Entries)
    OBVIOUS
  <2>2. Idle \in Calls
    BY DEF Calls
  <2>3. /\ log \in [Scopes -> Seq(Entries)]
        /\ status \in [Ids -> Statuses \cup {None}]
        /\ snapshot \in [Ids -> Snapshots \cup {None}]
        /\ receipts \in [Ids -> Nat \cup {None}]
    BY <2>1 DEF Init
  <2>4. disk \in Images
    BY <2>3 DEF Init, Db, Images
  <2>5. call \in [Workers -> Calls]
    BY <2>2 DEF Init
  <2> QED
    BY <2>3, <2>4, <2>5 DEF Init, TypeOK, Images
<1>2. TypeOK /\ [Next]_vars => TypeOK'
  BY TypeStep
<1> QED
  BY <1>1, <1>2, PTL DEF Spec
-----------------------------------------------------------------------------
(* At most once *)

(* An event row names the identity and the position of its batch. *)
LEMMA EntryType ==
  ASSUME log \in [Scopes -> Seq(Entries)], NEW t \in Scopes, NEW i \in 1..Len(log[t])
  PROVE  log[t][i] \in Entries /\ log[t][i].base \in Nat
<1>1. log[t] \in Seq(Entries)
  OBVIOUS
<1>2. log[t][i] \in Entries
  BY <1>1
<1> QED
  BY <1>2 DEF Entries

(* The rows of a concatenation. *)
LEMMA ConcatRows ==
  ASSUME NEW S, NEW a \in Seq(S), NEW b \in Seq(S)
  PROVE  /\ Len(a \o b) = Len(a) + Len(b)
         /\ \A i \in 1..Len(a) : (a \o b)[i] = a[i]
         /\ \A i \in (Len(a) + 1)..(Len(a) + Len(b)) : (a \o b)[i] = b[i - Len(a)]
OBVIOUS

(* What an append does to the rows of its scope. *)
LEMMA AppendRows ==
  ASSUME log \in [Scopes -> Seq(Entries)], NEW s \in Scopes,
         NEW events \in Seq(LState), NEW by \in Ids \cup {None},
         AppendEvents(s, events, by)
  PROVE  /\ \A t \in Scopes \ {s} : log'[t] = log[t]
         /\ Len(log[s]) \in Nat
         /\ Len(log'[s]) = Len(log[s]) + Len(events)
         /\ \A i \in 1..Len(log[s]) : log'[s][i] = log[s][i]
         /\ \A i \in (Len(log[s]) + 1)..Len(log'[s]) :
              log'[s][i].by = by /\ log'[s][i].base = Len(log[s])
<1> DEFINE b == Batch(s, events, by)
<1>1. /\ b \in Seq(Entries) /\ Len(b) = Len(events)
      /\ \A i \in 1..Len(events) : b[i].by = by /\ b[i].base = Len(log[s])
  <2>1. /\ b \in Seq(Entries) /\ Len(b) = Len(events)
        /\ \A i \in 1..Len(events) :
             b[i] = [state |-> events[i], by |-> by, base |-> Len(log[s])]
    BY BatchType
  <2>2. ASSUME NEW i \in 1..Len(events)
        PROVE  b[i].by = by /\ b[i].base = Len(log[s])
    <3>1. b[i] = [state |-> events[i], by |-> by, base |-> Len(log[s])]
      BY <2>1
    <3> HIDE DEF b
    <3> QED
      BY <3>1
  <2> QED
    BY <2>1, <2>2
<1>2. log'[s] = log[s] \o b /\ \A t \in Scopes \ {s} : log'[t] = log[t]
  BY AppendType
<1>3. log[s] \in Seq(Entries) /\ Len(log[s]) \in Nat /\ Len(events) \in Nat
  OBVIOUS
<1> HIDE DEF b, Entries
<1>4. /\ Len(log'[s]) = Len(log[s]) + Len(b)
      /\ \A i \in 1..Len(log[s]) : log'[s][i] = log[s][i]
      /\ \A i \in (Len(log[s]) + 1)..Len(log'[s]) : log'[s][i] = b[i - Len(log[s])]
  <2>1. /\ Len(log[s] \o b) = Len(log[s]) + Len(b)
        /\ \A i \in 1..Len(log[s]) : (log[s] \o b)[i] = log[s][i]
        /\ \A i \in (Len(log[s]) + 1)..(Len(log[s]) + Len(b)) :
             (log[s] \o b)[i] = b[i - Len(log[s])]
    <3>1. b \in Seq(Entries)
      BY <1>1
    <3> QED
      BY <3>1, <1>3, ConcatRows, Zenon
  <2> QED
    BY <1>2, <2>1
<1>5. \A i \in (Len(log[s]) + 1)..Len(log'[s]) : i - Len(log[s]) \in 1..Len(events)
  BY <1>1, <1>3, <1>4
<1> QED
  BY <1>1, <1>2, <1>3, <1>4, <1>5

(* The steps that touch the log or the receipts. *)
LEMMA StepKinds ==
  ASSUME [Next]_vars
  PROVE  \/ UNCHANGED <<log, receipts>>
         \/ PowerLoss
         \/ \E w \in Workers : AdmitWithKey(w)
         \/ \E id \in Ids, c \in Commands : AdmitDirect(id, c)
         \/ \E s \in Scopes, c \in Commands : AdmitUnkeyed(s, c)
         \/ \E id \in Ids, r \in Intents, c \in Commands \cup {None} : RequestFresh(id, r, c)
<1>1. CASE UNCHANGED vars
  BY <1>1 DEF vars, tables
<1>2. ASSUME NEW w, NEW id, NEW c, Claim(w, id, c) PROVE UNCHANGED <<log, receipts>>
  BY <1>2, Zenon DEF Claim
<1>3. ASSUME NEW w, CheckReceipt(w) PROVE UNCHANGED <<log, receipts>>
  BY <1>3, Zenon DEF CheckReceipt, tables
<1>4. ASSUME NEW w, Repair(w) PROVE UNCHANGED <<log, receipts>>
  BY <1>4, Zenon DEF Repair
<1>5. ASSUME NEW w, AdmitWithKeyFails(w) PROVE UNCHANGED <<log, receipts>>
  BY <1>5, Zenon DEF AdmitWithKeyFails, tables
<1>6. ASSUME NEW w, Finish(w) PROVE UNCHANGED <<log, receipts>>
  BY <1>6, Zenon DEF Finish
<1>7. ASSUME NEW w, StatementFails(w) PROVE UNCHANGED <<log, receipts>>
  BY <1>7, Zenon DEF StatementFails, tables
<1>8. ASSUME NEW id, NEW r, RequestAgain(id, r) PROVE UNCHANGED <<log, receipts>>
  BY <1>8, Zenon DEF RequestAgain, tables
<1>9. ASSUME Crash \/ Sync \/ Restart PROVE UNCHANGED <<log, receipts>>
  BY <1>9, Zenon DEF Crash, Sync, Restart, tables
<1> QED
  BY <1>1, <1>2, <1>3, <1>4, <1>5, <1>6, <1>7, <1>8, <1>9, Zenon DEF Next

(* Every step commits what it wrote, or writes nothing, apart from a power *)
(* loss and a checkpoint of the write-ahead log.                           *)
LEMMA CommitKinds ==
  ASSUME Next
  PROVE  Commit \/ UNCHANGED <<tables, disk>> \/ PowerLoss \/ Sync
<1>1. ASSUME NEW w, NEW id, NEW c, Claim(w, id, c) PROVE Commit
  BY <1>1, Zenon DEF Claim
<1>2. ASSUME NEW w, CheckReceipt(w) PROVE UNCHANGED <<tables, disk>>
  BY <1>2, Zenon DEF CheckReceipt
<1>3. ASSUME NEW w, Repair(w) PROVE Commit
  BY <1>3, Zenon DEF Repair
<1>4. ASSUME NEW w, AdmitWithKey(w) PROVE Commit
  BY <1>4, Zenon DEF AdmitWithKey
<1>5. ASSUME NEW w, AdmitWithKeyFails(w) PROVE UNCHANGED <<tables, disk>>
  BY <1>5, Zenon DEF AdmitWithKeyFails
<1>6. ASSUME NEW w, Finish(w) PROVE Commit
  BY <1>6, Zenon DEF Finish
<1>7. ASSUME NEW w, StatementFails(w) PROVE UNCHANGED <<tables, disk>>
  BY <1>7, Zenon DEF StatementFails
<1>8. ASSUME NEW id, NEW c, AdmitDirect(id, c) PROVE Commit
  BY <1>8, Zenon DEF AdmitDirect
<1>9. ASSUME NEW id, NEW r, RequestAgain(id, r) PROVE UNCHANGED <<tables, disk>>
  BY <1>9, Zenon DEF RequestAgain
<1>10. ASSUME NEW s, NEW c, AdmitUnkeyed(s, c) PROVE Commit
  BY <1>10, Zenon DEF AdmitUnkeyed
<1>11. ASSUME NEW id, NEW r, NEW c, RequestFresh(id, r, c) PROVE Commit
  BY <1>11, Zenon DEF RequestFresh
<1>12. ASSUME Crash PROVE UNCHANGED <<tables, disk>>
  BY <1>12, Zenon DEF Crash
<1>13. ASSUME Restart PROVE Commit
  BY <1>13, Zenon DEF Restart
<1> QED
  BY <1>1, <1>2, <1>3, <1>4, <1>5, <1>6, <1>7, <1>8, <1>9, <1>10, <1>11, <1>12, <1>13,
     Zenon DEF Next

(* A step writes one receipt, none, or loses the power. *)
LEMMA ReceiptKinds ==
  ASSUME [Next]_vars, \A w \in Workers : AdmitWithKey(w) => call[w].id \in Ids
  PROVE  receipts' = receipts \/ PowerLoss \/ \E x \in Ids : WriteReceipt(x)
<1>1. ASSUME NEW w, AdmitWithKey(w) PROVE receipts' = receipts \/ WriteReceipt(call[w].id)
  BY <1>1, Zenon DEF AdmitWithKey
<1>2. ASSUME NEW id, NEW c, AdmitDirect(id, c) PROVE WriteReceipt(id)
  BY <1>2, Zenon DEF AdmitDirect
<1>3. ASSUME NEW s, NEW c, AdmitUnkeyed(s, c) PROVE receipts' = receipts
  BY <1>3, Zenon DEF AdmitUnkeyed
<1>4. ASSUME NEW id, NEW r, NEW c, RequestFresh(id, r, c)
      PROVE  receipts' = receipts \/ WriteReceipt(id)
  BY <1>4, Zenon DEF RequestFresh
<1> QED
  BY <1>1, <1>2, <1>3, <1>4, StepKinds, Zenon

(* A batch admitted under an identity without a receipt, together with its *)
(* receipt, keeps one batch per identity.                                  *)
LEMMA KeyedAppend ==
  ASSUME TypeOK, OneBatch(log, receipts), NEW id \in Ids, receipts[id] = None,
         NEW events \in Seq(LState), AppendEvents(id[1], events, id), WriteReceipt(id)
  PROVE  OneBatch(log', receipts')
<1> DEFINE s == id[1]
<1>1. s \in Scopes /\ id \in {s} \X Keys
  BY DEF Ids
<1>2. /\ \A t \in Scopes \ {s} : log'[t] = log[t]
      /\ Len(log[s]) \in Nat
      /\ \A i \in 1..Len(log[s]) : log'[s][i] = log[s][i]
      /\ \A i \in (Len(log[s]) + 1)..Len(log'[s]) :
           log'[s][i].by = id /\ log'[s][i].base = Len(log[s])
  BY <1>1, AppendRows DEF TypeOK
<1>3. receipts'[id] = Len(log[s]) /\ \A x \in Ids \ {id} : receipts'[x] = receipts[x]
  BY DEF WriteReceipt, TypeOK
<1> HIDE DEF s
<1> SUFFICES ASSUME NEW t \in Scopes, NEW i \in 1..Len(log'[t]), log'[t][i].by # None
             PROVE  /\ log'[t][i].by \in {t} \X Keys
                    /\ receipts'[log'[t][i].by] = log'[t][i].base
                    /\ log'[t][i].base < i
                    /\ \A j \in (log'[t][i].base + 1)..i : log'[t][j].by = log'[t][i].by
  BY DEF OneBatch
<1>4. CASE t = s /\ i > Len(log[s])
  <2>1. i \in (Len(log[s]) + 1)..Len(log'[s])
    BY <1>2, <1>4
  <2>2. log'[s][i].by = id /\ log'[s][i].base = Len(log[s])
    BY <1>2, <2>1
  <2>3. \A j \in (Len(log[s]) + 1)..i : j \in (Len(log[s]) + 1)..Len(log'[s])
    BY <1>2, <2>1, <1>4
  <2> QED
    BY <1>1, <1>2, <1>3, <1>4, <2>2, <2>3
<1>5. CASE t # s \/ i <= Len(log[s])
  <2>1. i \in 1..Len(log[t]) /\ log'[t][i] = log[t][i]
    BY <1>2, <1>5
  <2>2. log[t][i] \in Entries /\ log[t][i].base \in Nat
    BY <2>1, EntryType DEF TypeOK
  <2>3. /\ log[t][i].by \in {t} \X Keys
        /\ receipts[log[t][i].by] = log[t][i].base
        /\ log[t][i].base < i
        /\ \A j \in (log[t][i].base + 1)..i : log[t][j].by = log[t][i].by
    BY <2>1 DEF OneBatch
  <2>4. log[t][i].by # id /\ log[t][i].by \in Ids
    BY <2>2, <2>3, NoneAssumption DEF Ids
  <2>5. \A j \in (log[t][i].base + 1)..i : log'[t][j] = log[t][j]
    <3> TAKE j \in (log[t][i].base + 1)..i
    <3>1. j \in 1..i
      BY <2>1, <2>2
    <3>2. CASE t # s
      BY <1>2, <3>2
    <3>3. CASE t = s /\ i <= Len(log[s])
      <4>1. j \in 1..Len(log[s])
        BY <1>2, <3>1, <3>3
      <4> QED
        BY <1>2, <3>3, <4>1
    <3> QED
      BY <1>5, <3>2, <3>3
  <2>6. receipts'[log[t][i].by] = receipts[log[t][i].by]
    BY <1>3, <2>4
  <2>7. \A j \in (log[t][i].base + 1)..i : log'[t][j].by = log[t][i].by
    BY <2>3, <2>5
  <2> QED
    BY <2>1, <2>3, <2>6, <2>7
<1> QED
  BY <1>2, <1>4, <1>5

(* An unkeyed batch belongs to no identity. *)
LEMMA UnkeyedAppend ==
  ASSUME TypeOK, OneBatch(log, receipts), NEW s \in Scopes,
         NEW events \in Seq(LState), AppendEvents(s, events, None), UNCHANGED receipts
  PROVE  OneBatch(log', receipts')
<1>1. /\ \A t \in Scopes \ {s} : log'[t] = log[t]
      /\ Len(log[s]) \in Nat
      /\ \A i \in 1..Len(log[s]) : log'[s][i] = log[s][i]
      /\ \A i \in (Len(log[s]) + 1)..Len(log'[s]) : log'[s][i].by = None
  BY AppendRows DEF TypeOK
<1> SUFFICES ASSUME NEW t \in Scopes, NEW i \in 1..Len(log'[t]), log'[t][i].by # None
             PROVE  /\ log'[t][i].by \in {t} \X Keys
                    /\ receipts'[log'[t][i].by] = log'[t][i].base
                    /\ log'[t][i].base < i
                    /\ \A j \in (log'[t][i].base + 1)..i : log'[t][j].by = log'[t][i].by
  BY DEF OneBatch
<1>2. t # s \/ i <= Len(log[s])
  BY <1>1
<1>3. i \in 1..Len(log[t]) /\ log'[t][i] = log[t][i]
  BY <1>1, <1>2
<1>4. log[t][i].base \in Nat
  BY <1>3, EntryType DEF TypeOK
<1>5. \A j \in (log[t][i].base + 1)..i : log'[t][j] = log[t][j]
  <2> TAKE j \in (log[t][i].base + 1)..i
  <2>1. j \in 1..i
    BY <1>3, <1>4
  <2> QED
    BY <1>1, <1>2, <1>3, <2>1
<1>6. /\ log[t][i].by \in {t} \X Keys
      /\ receipts[log[t][i].by] = log[t][i].base
      /\ log[t][i].base < i
      /\ \A j \in (log[t][i].base + 1)..i : log[t][j].by = log[t][i].by
  BY <1>3 DEF OneBatch
<1> QED
  BY <1>3, <1>5, <1>6

(* The image a power loss returns to is an earlier or the present one. *)
LEMMA DiskStep ==
  ASSUME [Next]_vars
  PROVE  disk' = disk \/ (disk'.log = log' /\ disk'.receipts = receipts'
                          /\ disk'.status = status' /\ disk'.snapshot = snapshot')
<1>1. Commit => \/ disk' = disk
                \/ (disk'.log = log' /\ disk'.receipts = receipts'
                    /\ disk'.status = status' /\ disk'.snapshot = snapshot')
  BY DEF Commit, Db
<1>2. CASE Sync
  BY <1>2 DEF Sync, Db, tables
<1>3. CASE Next /\ ~Sync
  <2>1. Commit \/ UNCHANGED disk
    BY <1>3, CommitKinds, Zenon DEF tables, PowerLoss
  <2> QED
    BY <1>1, <2>1
<1>4. CASE UNCHANGED vars
  BY <1>4 DEF vars
<1> QED
  BY <1>2, <1>3, <1>4

(* The same fact about the database and about the image a power loss       *)
(* returns to: without the second the first would not survive one.         *)
BatchInv ==
  /\ OneBatch(log, receipts)
  /\ OneBatch(disk.log, disk.receipts)

(* Every step keeps one batch per identity, in the tables and on disk. *)
LEMMA BatchStep ==
  ASSUME TypeOK, BatchInv, [Next]_vars
  PROVE  BatchInv'
<1>1. OneBatch(log, receipts) /\ OneBatch(disk.log, disk.receipts)
  BY DEF BatchInv
<1>2. OneBatch(log', receipts')
  <2>1. CASE UNCHANGED <<log, receipts>>
    BY <1>1, <2>1
  <2>2. CASE PowerLoss
    BY <1>1, <2>2 DEF PowerLoss
  <2>3. ASSUME NEW w \in Workers, AdmitWithKey(w), ~UNCHANGED <<log, receipts>>
        PROVE  OneBatch(log', receipts')
    <3> DEFINE id == call[w].id
               d  == Decide[<<Fold(id[1]), call[w].cmd>>]
    <3>1. id \in Ids /\ call[w].cmd \in Commands
      BY <2>3, CallType DEF AdmitWithKey
    <3>2. id[1] \in Scopes
      BY <3>1 DEF Ids
    <3>3. d.events \in Seq(LState)
      BY <3>1, <3>2, DecisionType
    <3>4. /\ receipts[id] = None
          /\ AppendEvents(id[1], d.events, id) /\ WriteReceipt(id)
      BY <2>3 DEF AdmitWithKey, ReceiptSeen
    <3> HIDE DEF id, d
    <3> QED
      BY <1>1, <3>1, <3>3, <3>4, KeyedAppend
  <2>4. ASSUME NEW id \in Ids, NEW c \in Commands, AdmitDirect(id, c)
        PROVE  OneBatch(log', receipts')
    <3> DEFINE d == Decide[<<Fold(id[1]), c>>]
    <3>1. d.events \in Seq(LState)
      BY DecisionType DEF Ids
    <3>2. /\ receipts[id] = None
          /\ AppendEvents(id[1], d.events, id) /\ WriteReceipt(id)
      BY <2>4 DEF AdmitDirect, ReceiptSeen
    <3> HIDE DEF d
    <3> QED
      BY <1>1, <3>1, <3>2, KeyedAppend
  <2>5. ASSUME NEW s \in Scopes, NEW c \in Commands, AdmitUnkeyed(s, c)
        PROVE  OneBatch(log', receipts')
    <3> DEFINE d == Decide[<<Fold(s), c>>]
    <3>1. d.events \in Seq(LState)
      BY DecisionType
    <3>2. AppendEvents(s, d.events, None) /\ UNCHANGED receipts
      BY <2>5 DEF AdmitUnkeyed
    <3> HIDE DEF d
    <3> QED
      BY <1>1, <3>1, <3>2, UnkeyedAppend
  <2>6. ASSUME NEW id \in Ids, NEW r \in Intents, NEW c \in Commands \cup {None},
               RequestFresh(id, r, c), ~UNCHANGED <<log, receipts>>
        PROVE  OneBatch(log', receipts')
    <3> DEFINE d == Decide[<<Fold(id[1]), c>>]
    <3>1. c # None
      BY <2>6 DEF RequestFresh
    <3>2. d.events \in Seq(LState)
      BY <3>1, DecisionType DEF Ids
    <3>3. /\ receipts[id] = None
          /\ AppendEvents(id[1], d.events, id) /\ WriteReceipt(id)
      BY <2>6, <3>1 DEF RequestFresh, ReceiptSeen
    <3> HIDE DEF d
    <3> QED
      BY <1>1, <3>2, <3>3, KeyedAppend
  <2>7. CASE UNCHANGED vars
    BY <1>1, <2>7 DEF vars, tables
  <2>8. \/ UNCHANGED <<log, receipts>>
        \/ PowerLoss
        \/ \E w \in Workers : AdmitWithKey(w)
        \/ \E id \in Ids, c \in Commands : AdmitDirect(id, c)
        \/ \E s \in Scopes, c \in Commands : AdmitUnkeyed(s, c)
        \/ \E id \in Ids, r \in Intents, c \in Commands \cup {None} : RequestFresh(id, r, c)
    BY StepKinds, Zenon
  <2> QED
    BY <2>1, <2>2, <2>3, <2>4, <2>5, <2>6, <2>8
<1>3. OneBatch(disk'.log, disk'.receipts)
  BY <1>1, <1>2, DiskStep
<1> QED
  BY <1>2, <1>3 DEF BatchInv, OneBatch

(* INV-19 / AT_MOST_ONCE for every store: however calls are retried, raced *)
(* over connections, crashed or cut off by a power loss under either       *)
(* synchronous mode, an identity's events are one contiguous batch at the  *)
(* position its receipt records.                                           *)
THEOREM AtMostOnce == Spec => []EffectsOnce
<1>1. Init => BatchInv
  BY DEF Init, BatchInv, OneBatch, Db
<1>2. TypeOK /\ BatchInv /\ [Next]_vars => BatchInv'
  BY BatchStep
<1>3. BatchInv => EffectsOnce
  BY DEF BatchInv, EffectsOnce
<1> QED
  BY <1>1, <1>2, <1>3, TypeCorrect, PTL DEF Spec
-----------------------------------------------------------------------------
(* The store implements the at-most-once log *)

(* The abstract history of a scope is the states of its rows. *)
LEMMA HistType ==
  ASSUME NEW l \in [Scopes -> Seq(Entries)]
  PROVE  /\ Hist(l) \in [Scopes -> Seq(LState)]
         /\ \A s \in Scopes :
              /\ Len(Hist(l)[s]) = Len(l[s])
              /\ \A i \in 1..Len(l[s]) : Hist(l)[s][i] = l[s][i].state
<1>1. ASSUME NEW s \in Scopes
      PROVE  /\ Hist(l)[s] = [i \in 1..Len(l[s]) |-> l[s][i].state]
             /\ Len(l[s]) \in Nat /\ \A i \in 1..Len(l[s]) : l[s][i].state \in LState
  <2>1. l[s] \in Seq(Entries)
    OBVIOUS
  <2>2. \A i \in 1..Len(l[s]) : l[s][i] \in Entries
    BY <2>1
  <2> QED
    BY <2>1, <2>2 DEF Hist, Entries
<1>2. ASSUME NEW s \in Scopes
      PROVE  /\ Hist(l)[s] \in Seq(LState) /\ Len(Hist(l)[s]) = Len(l[s])
             /\ \A i \in 1..Len(l[s]) : Hist(l)[s][i] = l[s][i].state
  <2> DEFINE n == Len(l[s])
             h == Hist(l)[s]
             e(i) == l[s][i].state
  <2>1. h = [i \in 1..n |-> e(i)] /\ n \in Nat /\ \A i \in 1..n : e(i) \in LState
    BY <1>1
  <2> HIDE DEF n, h, e
  <2>2. h \in Seq(LState) /\ Len(h) = n /\ \A i \in 1..n : h[i] = e(i)
    BY <2>1
  <2> QED
    BY <2>2 DEF n, h, e
<1>3. Hist(l) = [s \in Scopes |-> Hist(l)[s]]
  BY DEF Hist
<1> QED
  BY <1>2, <1>3

(* An append grows one scope of the abstract log, at its end. *)
LEMMA AppendGrows ==
  ASSUME TypeOK, log' \in [Scopes -> Seq(Entries)], NEW s \in Scopes,
         NEW events \in Seq(LState), NEW by \in Ids \cup {None}, AppendEvents(s, events, by)
  PROVE  Abs!Grow(s)
<1>1. /\ \A t \in Scopes \ {s} : log'[t] = log[t]
      /\ Len(log[s]) \in Nat /\ Len(log'[s]) = Len(log[s]) + Len(events)
      /\ \A i \in 1..Len(log[s]) : log'[s][i] = log[s][i]
  BY AppendRows DEF TypeOK
<1>2. /\ Hist(log) \in [Scopes -> Seq(LState)]
      /\ \A t \in Scopes : /\ Len(Hist(log)[t]) = Len(log[t])
                           /\ \A i \in 1..Len(log[t]) : Hist(log)[t][i] = log[t][i].state
  BY HistType DEF TypeOK
<1>3. /\ Hist(log') \in [Scopes -> Seq(LState)]
      /\ \A t \in Scopes : /\ Len(Hist(log')[t]) = Len(log'[t])
                           /\ \A i \in 1..Len(log'[t]) : Hist(log')[t][i] = log'[t][i].state
  BY HistType
<1>4. \A t \in Scopes \ {s} : Hist(log')[t] = Hist(log)[t]
  BY <1>1 DEF Hist
<1>5. Len(events) \in Nat
  OBVIOUS
<1>6. Len(Hist(log)[s]) <= Len(Hist(log')[s])
  BY <1>1, <1>2, <1>3, <1>5
<1>7. \A i \in 1..Len(Hist(log)[s]) : Hist(log')[s][i] = Hist(log)[s][i]
  <2> SUFFICES ASSUME NEW i \in 1..Len(log[s]) PROVE Hist(log')[s][i] = Hist(log)[s][i]
    BY <1>2
  <2>1. i \in 1..Len(log'[s]) /\ log'[s][i] = log[s][i]
    BY <1>1, <1>5
  <2> QED
    BY <1>2, <1>3, <2>1
<1> QED
  BY <1>3, <1>4, <1>6, <1>7 DEF Abs!Grow

(* A batch and its receipt, in one transaction. *)
LEMMA KeyedApplies ==
  ASSUME TypeOK, TypeOK', NEW id \in Ids, receipts[id] = None,
         NEW events \in Seq(LState), AppendEvents(id[1], events, id), WriteReceipt(id)
  PROVE  Abs!Apply(id)
<1>1. id[1] \in Scopes
  BY DEF Ids
<1>2. Abs!Grow(id[1])
  BY <1>1, AppendGrows DEF TypeOK
<1>3. id \notin Applied(receipts)
  BY DEF Applied
<1>4. Applied(receipts') = Applied(receipts) \cup {id}
  <2>1. receipts'[id] # None /\ \A x \in Ids \ {id} : receipts'[x] = receipts[x]
    BY <1>1, NoneAssumption DEF WriteReceipt, TypeOK
  <2> QED
    BY <2>1 DEF Applied
<1> QED
  BY <1>2, <1>3, <1>4 DEF Abs!Apply

(* Every step of the store is a step of the abstract log or a stutter. *)
LEMMA AbsStep ==
  ASSUME TypeOK, TypeOK', [Next]_vars
  PROVE  [Abs!Next]_(Abs!vars)
<1> DEFINE past == [history |-> Hist(disk.log), applied |-> Applied(disk.receipts)]
           next == [history |-> Hist(disk'.log), applied |-> Applied(disk'.receipts)]
           now  == [history |-> Hist(log'), applied |-> Applied(receipts')]
<1>1. next = past \/ next = now
  BY DiskStep
<1>2. CASE UNCHANGED <<log, receipts>>
  <2>1. Hist(log') = Hist(log) /\ Applied(receipts') = Applied(receipts)
    BY <1>2 DEF Hist, Applied
  <2> HIDE DEF past, next, now
  <2>2. CASE next = past
    BY <2>1, <2>2 DEF Abs!vars, past, next
  <2>3. CASE next = now
    BY <2>1, <2>3 DEF Abs!Next, Abs!Harden, Abs!Now, next, now
  <2> QED
    BY <1>1, <2>2, <2>3
<1>3. CASE PowerLoss
  BY <1>3 DEF PowerLoss, Abs!Next, Abs!Lose
<1>4. ASSUME NEW id \in Ids, Abs!Apply(id)
      PROVE  [Abs!Next]_(Abs!vars)
  BY <1>1, <1>4 DEF Abs!Next, Abs!Now
<1>5. ASSUME NEW w \in Workers, AdmitWithKey(w), ~UNCHANGED <<log, receipts>>
      PROVE  [Abs!Next]_(Abs!vars)
  <2> DEFINE id == call[w].id
             d  == Decide[<<Fold(id[1]), call[w].cmd>>]
  <2>1. id \in Ids /\ call[w].cmd \in Commands
    BY <1>5, CallType DEF AdmitWithKey
  <2>2. id[1] \in Scopes
    BY <2>1 DEF Ids
  <2>3. d.events \in Seq(LState)
    BY <2>1, <2>2, DecisionType
  <2>4. /\ receipts[id] = None
        /\ AppendEvents(id[1], d.events, id) /\ WriteReceipt(id)
    BY <1>5 DEF AdmitWithKey, ReceiptSeen
  <2> HIDE DEF id, d
  <2> QED
    BY <1>4, <2>1, <2>3, <2>4, KeyedApplies
<1>6. ASSUME NEW id \in Ids, NEW c \in Commands, AdmitDirect(id, c)
      PROVE  [Abs!Next]_(Abs!vars)
  <2> DEFINE d == Decide[<<Fold(id[1]), c>>]
  <2>1. d.events \in Seq(LState)
    BY DecisionType DEF Ids
  <2>2. /\ receipts[id] = None
        /\ AppendEvents(id[1], d.events, id) /\ WriteReceipt(id)
    BY <1>6 DEF AdmitDirect, ReceiptSeen
  <2> HIDE DEF d
  <2> QED
    BY <1>4, <2>1, <2>2, KeyedApplies
<1>7. ASSUME NEW s \in Scopes, NEW c \in Commands, AdmitUnkeyed(s, c)
      PROVE  [Abs!Next]_(Abs!vars)
  <2> DEFINE d == Decide[<<Fold(s), c>>]
  <2>1. d.events \in Seq(LState)
    BY DecisionType
  <2>2. AppendEvents(s, d.events, None) /\ UNCHANGED receipts
    BY <1>7 DEF AdmitUnkeyed
  <2> HIDE DEF d
  <2>3. Abs!Grow(s) /\ Applied(receipts') = Applied(receipts)
    BY <2>1, <2>2, AppendGrows DEF TypeOK
  <2> QED
    BY <1>1, <2>3 DEF Abs!Next, Abs!Now, Abs!Extend
<1>8. ASSUME NEW id \in Ids, NEW r \in Intents, NEW c \in Commands \cup {None},
             RequestFresh(id, r, c), ~UNCHANGED <<log, receipts>>
      PROVE  [Abs!Next]_(Abs!vars)
  <2> DEFINE d == Decide[<<Fold(id[1]), c>>]
  <2>1. c # None
    BY <1>8 DEF RequestFresh
  <2>2. d.events \in Seq(LState)
    BY <2>1, DecisionType DEF Ids
  <2>3. /\ receipts[id] = None
        /\ AppendEvents(id[1], d.events, id) /\ WriteReceipt(id)
    BY <1>8, <2>1 DEF RequestFresh, ReceiptSeen
  <2> HIDE DEF d
  <2> QED
    BY <1>4, <2>2, <2>3, KeyedApplies
<1>9. \/ UNCHANGED <<log, receipts>>
      \/ PowerLoss
      \/ \E w \in Workers : AdmitWithKey(w)
      \/ \E id \in Ids, c \in Commands : AdmitDirect(id, c)
      \/ \E s \in Scopes, c \in Commands : AdmitUnkeyed(s, c)
      \/ \E id \in Ids, r \in Intents, c \in Commands \cup {None} : RequestFresh(id, r, c)
  BY StepKinds, Zenon
<1> HIDE DEF past, next, now
<1> QED
  BY <1>2, <1>3, <1>5, <1>6, <1>7, <1>8, <1>9

(* The store refines the at-most-once log for every set of scopes, keys    *)
(* and callers, under either synchronous mode and with any number of       *)
(* faults: batch and receipt appear together at the end of their scope,    *)
(* and a power loss moves both back to one earlier state.                  *)
THEOREM RefinesAtMostOnce == Spec => ImplementsAtMostOnce
<1>1. Init => Abs!Init
  BY DEF Init, Abs!Init, Abs!Now, Hist, Applied, Db
<1>2. TypeOK /\ TypeOK' /\ [Next]_vars => [Abs!Next]_(Abs!vars)
  BY AbsStep
<1> QED
  BY <1>1, <1>2, TypeCorrect, PTL DEF Spec, ImplementsAtMostOnce, Abs!Spec
-----------------------------------------------------------------------------
(* What callers are told *)

(* Every commit is on disk when it is answered, and a key is used through  *)
(* the shells that bind its input. Under synchronous = NORMAL a power loss *)
(* takes back an answered commit, and `admit_with_key` on its own admits   *)
(* under a key whose row says rejected.                                    *)
Durable == Full /\ ~DirectCalls

Failed == {"rejected", "expired"}
Standing == {"processing", "applied"}

(* A row and the receipt of its key. *)
RowInv ==
  \A id \in Ids :
    /\ status[id] = None <=> snapshot[id] = None
    /\ status[id] # "received"
    /\ receipts[id] # None => status[id] \in Standing
    /\ status[id] = "applied" => receipts[id] # None
    /\ snapshot[id] # None /\ snapshot[id].api = "request" => status[id] \in {"applied", "rejected"}

(* A call in flight: its key is bound to its input; a claim stands until   *)
(* its call ends; what the call is about to write is still so.             *)
CallInv(c) ==
  /\ up
  /\ snapshot[c.id] = [api |-> "materialized", intent |-> c.cmd]
  /\ c.claimed => status[c.id] \in Standing
  /\ c.pc = "repair" => receipts[c.id] # None
  /\ c.pc \in {"admit", "finish"} => c.claimed
  /\ c.pc = "admit" => receipts[c.id] = None
  /\ c.pc = "finish" => (receipts[c.id] # None <=> c.outcome = "applied")
  /\ c.seen \in Failed => status[c.id] \in Failed

CallsInv == \A w \in Workers : call[w].pc # "idle" => CallInv(call[w])

OneClaim ==
  \A v, w \in Workers :
    /\ call[v].pc # "idle" /\ call[v].claimed
    /\ call[w].pc # "idle" /\ call[w].claimed
    /\ call[v].id = call[w].id
    => v = w

(* What was answered stands: receipts and bindings are not taken back, and *)
(* a refused key stays failed.                                             *)
ToldInv == AckTruth /\ \A id \in refused : status[id] \in Failed

AnswerInv == TypeOK /\ disk = Db /\ RowInv /\ CallsInv /\ OneClaim /\ ToldInv

LEMMA AnswerStart == Init => AnswerInv
<1> SUFFICES ASSUME Init PROVE AnswerInv
  OBVIOUS
<1>1. TypeOK
  <2>1. <<>> \in Seq(Entries) /\ Idle \in Calls
    BY DEF Calls
  <2>2. /\ log \in [Scopes -> Seq(Entries)]
        /\ status \in [Ids -> Statuses \cup {None}]
        /\ snapshot \in [Ids -> Snapshots \cup {None}]
        /\ receipts \in [Ids -> Nat \cup {None}]
    BY <2>1 DEF Init
  <2>3. disk \in Images
    BY <2>2 DEF Init, Db, Images
  <2>4. call \in [Workers -> Calls]
    BY <2>1 DEF Init
  <2> QED
    BY <2>2, <2>3, <2>4 DEF Init, TypeOK, Images
<1>2. RowInv
  BY NoneAssumption DEF Init, RowInv
<1>3. CallsInv /\ OneClaim /\ ToldInv
  BY DEF Init, CallsInv, OneClaim, ToldInv, AckTruth, Idle
<1> QED
  BY <1>1, <1>2, <1>3 DEF AnswerInv, Init

(* With synchronous = FULL the disk holds every committed transaction. *)
LEMMA DiskCurrent ==
  ASSUME Durable, TypeOK, disk = Db, [Next]_vars
  PROVE  disk' = Db'
<1>1. Commit => disk' = Db'
  BY DEF Commit, Durable
<1>2. UNCHANGED <<tables, disk>> => disk' = Db'
  BY DEF tables, Db
<1>3. CASE PowerLoss
  BY <1>3 DEF PowerLoss, Db
<1>4. CASE Sync
  BY <1>4 DEF Sync, tables, Db
<1>5. CASE UNCHANGED vars
  BY <1>2, <1>5 DEF vars
<1>6. CASE Next /\ ~PowerLoss /\ ~Sync
  <2>1. Commit \/ UNCHANGED <<tables, disk>>
    BY <1>6, CommitKinds, Zenon
  <2> QED
    BY <1>1, <1>2, <2>1
<1> QED
  BY <1>3, <1>4, <1>5, <1>6

LEMMA OneClaimKept ==
  ASSUME OneClaim,
         \A v \in Workers : call'[v].pc # "idle" =>
           call[v].pc # "idle" /\ call'[v].id = call[v].id /\ call'[v].claimed = call[v].claimed
  PROVE  OneClaim'
BY DEF OneClaim

(* What was told stands while nothing told is taken back. *)
LEMMA ToldKept ==
  ASSUME AnswerInv,
         \A id \in Ids :
           /\ receipts[id] # None => receipts'[id] # None
           /\ snapshot[id] # None => snapshot'[id] = snapshot[id]
           /\ status[id] \in Failed => status'[id] = status[id],
         \A x \in acked' : x \in acked \/
           (receipts'[x[1]] # None /\ snapshot'[x[1]] # None /\ snapshot'[x[1]].intent = x[2]),
         \A id \in refused' : id \in refused \/ status'[id] \in Failed
  PROVE  ToldInv'
<1>1. acked \subseteq (Ids \X (Commands \cup Intents)) /\ refused \subseteq Ids
  BY DEF AnswerInv, TypeOK
<1>2. \A x \in acked : x[1] \in Ids
  BY <1>1
<1>3. \A x \in acked :
        receipts'[x[1]] # None /\ snapshot'[x[1]] # None /\ snapshot'[x[1]].intent = x[2]
  BY <1>2 DEF AnswerInv, ToldInv, AckTruth
<1>4. AckTruth'
  BY <1>3 DEF AckTruth
<1>5. \A id \in refused' : status'[id] \in Failed
  BY <1>1 DEF AnswerInv, ToldInv
<1> QED
  BY <1>4, <1>5 DEF ToldInv

(* A call moves on, or ends. *)
Moved(r, p) == [r EXCEPT !.pc = p]
Decided(r, o) == [r EXCEPT !.pc = "finish", !.outcome = o]

LEMMA MovedFields ==
  ASSUME NEW r \in InFlight({"check", "repair", "admit"}, {""}), NEW p
  PROVE  /\ Moved(r, p).pc = p /\ Moved(r, p).id = r.id /\ Moved(r, p).cmd = r.cmd
         /\ Moved(r, p).claimed = r.claimed /\ Moved(r, p).seen = r.seen
BY DEF InFlight, Moved

LEMMA DecidedFields ==
  ASSUME NEW r \in InFlight({"check", "repair", "admit"}, {""}), NEW o
  PROVE  /\ Decided(r, o).pc = "finish" /\ Decided(r, o).outcome = o
         /\ Decided(r, o).id = r.id /\ Decided(r, o).cmd = r.cmd
         /\ Decided(r, o).claimed = r.claimed /\ Decided(r, o).seen = r.seen
BY DEF InFlight, Decided

LEMMA MoveFields ==
  ASSUME TypeOK, NEW w \in Workers, call[w].pc \notin {"idle", "finish"},
         NEW p, call' = [call EXCEPT ![w].pc = p]
  PROVE  /\ \A v \in Workers : v # w => call'[v] = call[v]
         /\ call'[w].pc = p /\ call'[w].id = call[w].id /\ call'[w].cmd = call[w].cmd
         /\ call'[w].claimed = call[w].claimed /\ call'[w].seen = call[w].seen
<1>1. call[w] \in InFlight({"check", "repair", "admit"}, {""})
  BY CallType
<1>2. call'[w] = Moved(call[w], p) /\ \A v \in Workers : v # w => call'[v] = call[v]
  BY DEF TypeOK, Moved
<1>3. PICK r \in InFlight({"check", "repair", "admit"}, {""}) : r = call[w]
  BY <1>1
<1>4. call'[w] = Moved(r, p)
  BY <1>2, <1>3
<1>5. /\ Moved(r, p).pc = p /\ Moved(r, p).id = r.id /\ Moved(r, p).cmd = r.cmd
      /\ Moved(r, p).claimed = r.claimed /\ Moved(r, p).seen = r.seen
  BY MovedFields
<1> QED
  BY <1>2, <1>3, <1>4, <1>5

LEMMA FinishFields ==
  ASSUME TypeOK, NEW w \in Workers, call[w].pc \notin {"idle", "finish"},
         NEW o, call' = [call EXCEPT ![w].pc = "finish", ![w].outcome = o]
  PROVE  /\ \A v \in Workers : v # w => call'[v] = call[v]
         /\ call'[w].pc = "finish" /\ call'[w].outcome = o
         /\ call'[w].id = call[w].id /\ call'[w].cmd = call[w].cmd
         /\ call'[w].claimed = call[w].claimed /\ call'[w].seen = call[w].seen
<1>1. call[w] \in InFlight({"check", "repair", "admit"}, {""})
  BY CallType
<1>2. call'[w] = Decided(call[w], o) /\ \A v \in Workers : v # w => call'[v] = call[v]
  BY DEF TypeOK, Decided
<1>3. PICK r \in InFlight({"check", "repair", "admit"}, {""}) : r = call[w]
  BY <1>1
<1>4. call'[w] = Decided(r, o)
  BY <1>2, <1>3
<1>5. /\ Decided(r, o).pc = "finish" /\ Decided(r, o).outcome = o
      /\ Decided(r, o).id = r.id /\ Decided(r, o).cmd = r.cmd
      /\ Decided(r, o).claimed = r.claimed /\ Decided(r, o).seen = r.seen
  BY DecidedFields
<1> QED
  BY <1>2, <1>3, <1>4, <1>5

LEMMA ReturnFields ==
  ASSUME TypeOK, NEW w \in Workers, Return(w)
  PROVE  (\A v \in Workers : v # w => call'[v] = call[v]) /\ call'[w].pc = "idle"
BY DEF TypeOK, Return, Idle

LEMMA CheckAnswers ==
  ASSUME AnswerInv, NEW w \in Workers, CheckReceipt(w)
  PROVE  RowInv' /\ CallsInv' /\ OneClaim' /\ ToldInv'
<1> DEFINE id == call[w].id
<1>1. /\ up' = up /\ UNCHANGED <<log, status, snapshot, receipts, acked>>
      /\ call[w].pc = "check"
  BY DEF CheckReceipt, tables
<1>2. TypeOK /\ RowInv /\ CallsInv /\ OneClaim /\ CallInv(call[w]) /\ id \in Ids
  BY <1>1, CallType DEF AnswerInv, CallsInv
<1>3. RowInv'
  BY <1>1, <1>2 DEF RowInv
<1>4. \/ /\ receipts[id] # None /\ call' = [call EXCEPT ![w].pc = "repair"] /\ refused' = refused
      \/ /\ receipts[id] = None /\ call[w].claimed /\ call' = [call EXCEPT ![w].pc = "admit"]
         /\ refused' = refused
      \/ /\ Return(w)
         /\ refused' = refused \/ (refused' = refused \cup {id} /\ call[w].seen \in Failed)
  <2>1. \/ /\ receipts[id] # None /\ call' = [call EXCEPT ![w].pc = "repair"] /\ refused' = refused
        \/ /\ receipts[id] = None /\ call[w].claimed /\ call' = [call EXCEPT ![w].pc = "admit"]
           /\ refused' = refused
        \/ /\ Return(w)
           /\ refused' = IF NewKeyAdvised(call[w].seen) THEN refused \cup {id} ELSE refused
    BY Zenon DEF CheckReceipt, ReceiptSeen
  <2> QED
    BY <2>1 DEF NewKeyAdvised, Failed
<1> HIDE DEF id
<1>5. /\ \A v \in Workers : v # w => call'[v] = call[v]
      /\ \/ call'[w].pc = "idle"
         \/ /\ call'[w].pc = "repair" /\ receipts[id] # None
            /\ call'[w].id = call[w].id /\ call'[w].cmd = call[w].cmd
            /\ call'[w].claimed = call[w].claimed /\ call'[w].seen = call[w].seen
         \/ /\ call'[w].pc = "admit" /\ receipts[id] = None /\ call[w].claimed
            /\ call'[w].id = call[w].id /\ call'[w].cmd = call[w].cmd
            /\ call'[w].claimed = call[w].claimed /\ call'[w].seen = call[w].seen
  <2>1. CASE receipts[id] # None /\ call' = [call EXCEPT ![w].pc = "repair"]
    BY <1>1, <1>2, <2>1, MoveFields
  <2>2. CASE receipts[id] = None /\ call[w].claimed /\ call' = [call EXCEPT ![w].pc = "admit"]
    BY <1>1, <1>2, <2>2, MoveFields
  <2>3. CASE Return(w)
    BY <1>2, <2>3, ReturnFields
  <2> QED
    BY <1>4, <2>1, <2>2, <2>3
<1>6. CallsInv'
  <2> SUFFICES ASSUME NEW v \in Workers, call'[v].pc # "idle" PROVE CallInv(call[v])'
    BY DEF CallsInv
  <2>1. CASE v # w
    BY <1>1, <1>2, <1>5, <2>1 DEF CallsInv, CallInv
  <2>2. CASE v = w
    BY <1>1, <1>2, <1>5, <2>2 DEF CallInv, id
  <2> QED
    BY <2>1, <2>2
<1>7. OneClaim'
  BY <1>1, <1>2, <1>5, OneClaimKept
<1>8. \A x \in refused' : x \in refused \/ status'[x] \in Failed
  BY <1>1, <1>2, <1>4 DEF CallInv, id
<1>9. ToldInv'
  BY <1>1, <1>8, ToldKept
<1> QED
  BY <1>3, <1>6, <1>7, <1>9

(* A call that ends settles its row as st: the receipt says which. *)
Settling(w, st) ==
  /\ call[w].pc # "idle" /\ Return(w)
  /\ SetCommandStatus(call[w].id, st)
  /\ status[call[w].id] \in Standing
  /\ st \in {"applied", "rejected", "expired"}
  /\ receipts[call[w].id] # None <=> st = "applied"
  /\ st = "applied" \/ call[w].claimed
  /\ acked' = IF st = "applied" THEN acked \cup {<<call[w].id, call[w].cmd>>} ELSE acked
  /\ UNCHANGED <<snapshot, receipts, up, refused>>

LEMMA SettleAnswers ==
  ASSUME AnswerInv, NEW w \in Workers, NEW st, Settling(w, st)
  PROVE  RowInv' /\ CallsInv' /\ OneClaim' /\ ToldInv'
<1> DEFINE id == call[w].id
<1>1. TypeOK /\ RowInv /\ CallsInv /\ OneClaim /\ CallInv(call[w]) /\ id \in Ids
  BY CallType DEF AnswerInv, CallsInv, Settling
<1>2. /\ status' = [status EXCEPT ![id] = st] /\ status[id] \in Standing
      /\ st \in {"applied", "rejected", "expired"}
      /\ receipts[id] # None <=> st = "applied"
      /\ snapshot' = snapshot /\ receipts' = receipts /\ up' = up /\ refused' = refused
      /\ up
      /\ snapshot[id] = [api |-> "materialized", intent |-> call[w].cmd]
  BY <1>1 DEF Settling, SetCommandStatus, CallInv
<1>3. status'[id] = st /\ \A x \in Ids : x # id => status'[x] = status[x]
  BY <1>1, <1>2 DEF TypeOK
<1>4. (\A v \in Workers : v # w => call'[v] = call[v]) /\ call'[w].pc = "idle"
  BY <1>1, ReturnFields DEF Settling
<1>5. st = "applied" \/ call[w].claimed
  BY DEF Settling
<1>6. snapshot[id] # None /\ snapshot[id].api = "materialized" /\ snapshot[id].intent = call[w].cmd
  <2>1. call[w].cmd \in Commands
    BY <1>1, CallType DEF Settling
  <2>2. [api |-> "materialized", intent |-> call[w].cmd] \in Snapshots
    BY <2>1 DEF Snapshots
  <2> QED
    BY <1>2, <2>2, NoneAssumption DEF Snapshots
<1> HIDE DEF id
<1>7. RowInv'
  <2> SUFFICES ASSUME NEW x \in Ids
               PROVE  /\ status'[x] = None <=> snapshot'[x] = None
                      /\ status'[x] # "received"
                      /\ receipts'[x] # None => status'[x] \in Standing
                      /\ status'[x] = "applied" => receipts'[x] # None
                      /\ (snapshot'[x] # None /\ snapshot'[x].api = "request")
                           => status'[x] \in {"applied", "rejected"}
    BY DEF RowInv
  <2>1. CASE x # id
    BY <1>1, <1>2, <1>3, <2>1 DEF RowInv
  <2>2. CASE x = id
    BY <1>2, <1>3, <1>6, <2>2, NoneAssumption DEF Standing
  <2> QED
    BY <2>1, <2>2
<1>8. CallsInv'
  <2> SUFFICES ASSUME NEW v \in Workers, call'[v].pc # "idle" PROVE CallInv(call[v])'
    BY DEF CallsInv
  <2>1. v # w /\ call'[v] = call[v] /\ call[v].pc # "idle"
    BY <1>4
  <2>2. CallInv(call[v]) /\ call[v].id \in Ids
    BY <1>1, <2>1, CallType DEF CallsInv
  <2>3. CASE call[v].id # id
    BY <1>2, <1>3, <2>1, <2>2, <2>3 DEF CallInv
  <2>4. CASE call[v].id = id /\ call[w].claimed
    <3>1. ~call[v].claimed \/ v = w
      BY <1>1, <2>1, <2>4 DEF OneClaim, Settling, id
    <3>2. call[v].seen \notin Failed
      BY <1>2, <2>2, <2>4 DEF CallInv, Failed, Standing
    <3> QED
      BY <1>2, <1>3, <2>1, <2>2, <2>4, <3>1, <3>2 DEF CallInv
  <2>5. CASE call[v].id = id /\ st = "applied"
    <3>1. call[v].seen \notin Failed
      BY <1>2, <2>2, <2>5 DEF CallInv, Failed, Standing
    <3> QED
      BY <1>2, <1>3, <2>1, <2>2, <2>5, <3>1 DEF CallInv, Standing
  <2> QED
    BY <1>5, <2>3, <2>4, <2>5
<1>9. OneClaim'
  BY <1>1, <1>4, OneClaimKept
<1>10. \A x \in acked' : x \in acked \/
         (receipts'[x[1]] # None /\ snapshot'[x[1]] # None /\ snapshot'[x[1]].intent = x[2])
  <2>1. acked' = IF st = "applied" THEN acked \cup {<<id, call[w].cmd>>} ELSE acked
    BY DEF Settling, id
  <2> QED
    BY <1>2, <1>6, <2>1
<1>11. \A x \in Ids : status[x] \in Failed => status'[x] = status[x]
  BY <1>2, <1>3 DEF Failed, Standing
<1>12. ToldInv'
  BY <1>2, <1>10, <1>11, ToldKept
<1> QED
  BY <1>7, <1>8, <1>9, <1>12

LEMMA RepairAnswers ==
  ASSUME AnswerInv, NEW w \in Workers, Repair(w)
  PROVE  RowInv' /\ CallsInv' /\ OneClaim' /\ ToldInv'
<1>1. call[w].pc = "repair"
  BY DEF Repair
<1>2. CallInv(call[w]) /\ call[w].id \in Ids
  BY <1>1, CallType DEF AnswerInv, CallsInv
<1>3. receipts[call[w].id] # None /\ status[call[w].id] \in Standing
  BY <1>1, <1>2 DEF CallInv, AnswerInv, RowInv
<1>4. Settling(w, "applied")
  BY <1>1, <1>3 DEF Repair, Settling
<1> QED
  BY <1>4, SettleAnswers

LEMMA FinishSettles ==
  ASSUME AnswerInv, NEW w \in Workers, Finish(w)
  PROVE  Settling(w, call[w].outcome)
<1>1. call[w].pc = "finish"
  BY DEF Finish
<1>2. CallInv(call[w]) /\ call[w].outcome \in {"applied", "rejected", "expired"}
  BY <1>1, CallType DEF AnswerInv, CallsInv, InFlight
<1>3. status[call[w].id] \in Standing /\ (receipts[call[w].id] # None <=> call[w].outcome = "applied")
  BY <1>1, <1>2 DEF CallInv
<1>4. call[w].claimed
  BY <1>1, <1>2 DEF CallInv
<1> QED
  BY <1>1, <1>2, <1>3, <1>4 DEF Finish, Settling, FinalStatus

LEMMA FinishAnswers ==
  ASSUME AnswerInv, NEW w \in Workers, Finish(w)
  PROVE  RowInv' /\ CallsInv' /\ OneClaim' /\ ToldInv'
BY FinishSettles, SettleAnswers

(* The shell's call fails between its transactions. *)
LEMMA FailAnswers ==
  ASSUME AnswerInv, NEW w \in Workers, StatementFails(w)
  PROVE  RowInv' /\ CallsInv' /\ OneClaim' /\ ToldInv'
<1>1. /\ Return(w) /\ UNCHANGED <<log, status, snapshot, receipts, up, acked, refused>>
      /\ call[w].pc # "idle"
  BY DEF StatementFails, tables
<1>2. (\A v \in Workers : v # w => call'[v] = call[v]) /\ call'[w].pc = "idle"
  BY <1>1, ReturnFields DEF AnswerInv
<1>3. RowInv'
  BY <1>1 DEF AnswerInv, RowInv
<1>4. CallsInv'
  <2> SUFFICES ASSUME NEW v \in Workers, call'[v].pc # "idle" PROVE CallInv(call[v])'
    BY DEF CallsInv
  <2> QED
    BY <1>1, <1>2 DEF AnswerInv, CallsInv, CallInv
<1>5. OneClaim'
  BY <1>2, OneClaimKept DEF AnswerInv
<1>6. ToldInv'
  BY <1>1, ToldKept
<1> QED
  BY <1>3, <1>4, <1>5, <1>6

(* The call that holds the claim learns its outcome; the receipt, if any,  *)
(* is that outcome.                                                        *)
Deciding(w, o) ==
  /\ call[w].pc = "admit"
  /\ call' = [call EXCEPT ![w].pc = "finish", ![w].outcome = o]
  /\ \/ o # "applied" /\ receipts' = receipts
     \/ o = "applied" /\ WriteReceipt(call[w].id)
  /\ UNCHANGED <<status, snapshot, up, acked, refused>>

LEMMA DecideAnswers ==
  ASSUME AnswerInv, NEW w \in Workers, NEW o, Deciding(w, o)
  PROVE  RowInv' /\ CallsInv' /\ OneClaim' /\ ToldInv'
<1> DEFINE id == call[w].id
<1>1. /\ TypeOK /\ RowInv /\ CallsInv /\ OneClaim /\ CallInv(call[w]) /\ id \in Ids
      /\ call[w].pc = "admit"
  BY CallType DEF AnswerInv, CallsInv, Deciding
<1>2. /\ call[w].claimed /\ status[id] \in Standing /\ receipts[id] = None /\ up
      /\ snapshot[id] = [api |-> "materialized", intent |-> call[w].cmd]
  BY <1>1 DEF CallInv
<1>3. UNCHANGED <<status, snapshot, up, acked, refused>>
  BY DEF Deciding
<1>4. /\ \A v \in Workers : v # w => call'[v] = call[v]
      /\ call'[w].pc = "finish" /\ call'[w].outcome = o
      /\ call'[w].id = id /\ call'[w].cmd = call[w].cmd
      /\ call'[w].claimed = call[w].claimed /\ call'[w].seen = call[w].seen
  BY <1>1, FinishFields DEF Deciding
<1>5. /\ \A x \in Ids : x # id => receipts'[x] = receipts[x]
      /\ receipts'[id] # None <=> o = "applied"
  <2>1. id[1] \in Scopes
    BY <1>1 DEF Ids
  <2>2. Len(log[id[1]]) \in Nat
    BY <1>1, <2>1 DEF TypeOK
  <2>3. CASE o # "applied" /\ receipts' = receipts
    BY <1>2, <2>3
  <2>4. CASE o = "applied" /\ receipts' = [receipts EXCEPT ![id] = Len(log[id[1]])]
    BY <1>1, <2>2, <2>4, NoneAssumption DEF TypeOK
  <2> QED
    BY <2>3, <2>4 DEF Deciding, WriteReceipt
<1> HIDE DEF id
<1>6. RowInv'
  <2> SUFFICES ASSUME NEW x \in Ids
               PROVE  /\ status'[x] = None <=> snapshot'[x] = None
                      /\ status'[x] # "received"
                      /\ receipts'[x] # None => status'[x] \in Standing
                      /\ status'[x] = "applied" => receipts'[x] # None
                      /\ (snapshot'[x] # None /\ snapshot'[x].api = "request")
                           => status'[x] \in {"applied", "rejected"}
    BY DEF RowInv
  <2>1. CASE x # id
    BY <1>1, <1>3, <1>5, <2>1 DEF RowInv
  <2>2. CASE x = id
    BY <1>1, <1>2, <1>3, <1>5, <2>2 DEF RowInv
  <2> QED
    BY <2>1, <2>2
<1>7. CallsInv'
  <2> SUFFICES ASSUME NEW v \in Workers, call'[v].pc # "idle" PROVE CallInv(call[v])'
    BY DEF CallsInv
  <2>1. CASE v = w
    BY <1>1, <1>2, <1>3, <1>4, <1>5, <2>1 DEF CallInv, id
  <2>2. CASE v # w
    <3>1. CallInv(call[v]) /\ call[v].id \in Ids /\ call'[v] = call[v] /\ call[v].pc # "idle"
      BY <1>1, <1>4, <2>2, CallType DEF CallsInv
    <3>2. CASE call[v].id # id
      BY <1>3, <1>5, <3>1, <3>2 DEF CallInv
    <3>3. CASE call[v].id = id
      <4>1. ~call[v].claimed
        BY <1>1, <1>2, <2>2, <3>1, <3>3 DEF OneClaim, id
      <4>2. call[v].pc # "admit" /\ call[v].pc # "finish" /\ call[v].pc # "repair"
        BY <1>2, <3>1, <3>3, <4>1 DEF CallInv
      <4> QED
        BY <1>3, <3>1, <4>1, <4>2 DEF CallInv
    <3> QED
      BY <3>2, <3>3
  <2> QED
    BY <2>1, <2>2
<1>8. OneClaim'
  BY <1>1, <1>4, OneClaimKept DEF id
<1>9. \A x \in Ids : receipts[x] # None => receipts'[x] # None
  BY <1>2, <1>5
<1>10. ToldInv'
  BY <1>3, <1>9, ToldKept
<1> QED
  BY <1>6, <1>7, <1>8, <1>10

LEMMA AdmitAnswers ==
  ASSUME AnswerInv, NEW w \in Workers, AdmitWithKey(w) \/ AdmitWithKeyFails(w)
  PROVE  RowInv' /\ CallsInv' /\ OneClaim' /\ ToldInv'
<1>1. CASE AdmitWithKeyFails(w)
  <2>1. Deciding(w, "expired")
    BY <1>1 DEF AdmitWithKeyFails, Deciding, tables
  <2> QED
    BY <2>1, DecideAnswers
<1>2. CASE AdmitWithKey(w)
  <2>1. call[w].pc = "admit"
    BY <1>2 DEF AdmitWithKey
  <2>2. receipts[call[w].id] = None
    BY <2>1 DEF AnswerInv, CallsInv, CallInv
  <2>3. Deciding(w, "rejected") \/ Deciding(w, "applied")
    BY <1>2, <2>1, <2>2 DEF AdmitWithKey, ReceiptSeen, Deciding
  <2> QED
    BY <2>3, DecideAnswers
<1> QED
  BY <1>1, <1>2

(* Steps that leave rows, receipts and calls alone. *)
LEMMA IdleAnswers ==
  ASSUME AnswerInv, UNCHANGED <<status, snapshot, receipts, call, up, acked, refused>>
  PROVE  RowInv' /\ CallsInv' /\ OneClaim' /\ ToldInv'
BY DEF AnswerInv, RowInv, CallsInv, CallInv, OneClaim, ToldInv, AckTruth

(* The process is gone, and every call with it. *)
LEMMA DownAnswers ==
  ASSUME AnswerInv, UNCHANGED <<status, snapshot, receipts, acked, refused>>,
         call' = [w \in Workers |-> Idle]
  PROVE  RowInv' /\ CallsInv' /\ OneClaim' /\ ToldInv'
<1>1. \A w \in Workers : call'[w].pc = "idle"
  BY DEF Idle
<1>2. CallsInv' /\ OneClaim'
  BY <1>1 DEF CallsInv, OneClaim
<1> QED
  BY <1>2 DEF AnswerInv, RowInv, ToldInv, AckTruth

(* Recovery settles what no call is executing any more. *)
LEMMA RestartAnswers ==
  ASSUME AnswerInv, Restart
  PROVE  RowInv' /\ CallsInv' /\ OneClaim' /\ ToldInv'
<1>1. ~up /\ UNCHANGED <<snapshot, receipts, call, acked, refused>>
  BY DEF Restart
<1>2. \A w \in Workers : call'[w].pc = "idle"
  BY <1>1 DEF AnswerInv, CallsInv, CallInv
<1>3. CallsInv' /\ OneClaim'
  BY <1>2 DEF CallsInv, OneClaim
<1>4. \A id \in Ids :
        \/ status'[id] = status[id]
        \/ /\ status[id] \in {"received", "processing"}
           /\ status'[id] = (IF receipts[id] # None THEN "applied" ELSE "expired")
  BY DEF Restart, ReconcileCommands, Interrupted, ReceiptSeen, AnswerInv, TypeOK
<1>5. RowInv'
  <2> SUFFICES ASSUME NEW x \in Ids
               PROVE  /\ status'[x] = None <=> snapshot'[x] = None
                      /\ status'[x] # "received"
                      /\ receipts'[x] # None => status'[x] \in Standing
                      /\ status'[x] = "applied" => receipts'[x] # None
                      /\ (snapshot'[x] # None /\ snapshot'[x].api = "request")
                           => status'[x] \in {"applied", "rejected"}
    BY DEF RowInv
  <2>1. CASE status'[x] = status[x]
    BY <1>1, <2>1 DEF AnswerInv, RowInv
  <2>2. CASE /\ status[x] \in {"received", "processing"}
             /\ status'[x] = (IF receipts[x] # None THEN "applied" ELSE "expired")
    BY <1>1, <2>2, NoneAssumption DEF AnswerInv, RowInv, Standing
  <2> QED
    BY <1>4, <2>1, <2>2
<1>6. \A x \in Ids : status[x] \in Failed => status'[x] = status[x]
  BY <1>4 DEF Failed
<1>7. ToldInv'
  BY <1>1, <1>6, ToldKept
<1> QED
  BY <1>3, <1>5, <1>7

(* No call is in flight on a key without a row. *)
LEMMA FreshKey ==
  ASSUME AnswerInv, NEW id \in Ids, status[id] = None, NEW w \in Workers, call[w].pc # "idle"
  PROVE  call[w].id # id
<1>1. snapshot[id] = None
  BY DEF AnswerInv, RowInv
<1>2. snapshot[call[w].id] = [api |-> "materialized", intent |-> call[w].cmd]
  BY DEF AnswerInv, CallsInv, CallInv
<1>3. [api |-> "materialized", intent |-> call[w].cmd] \in Snapshots
  BY CallType DEF AnswerInv, Snapshots
<1> QED
  BY <1>1, <1>2, <1>3, NoneAssumption DEF Snapshots

LEMMA FreshAnswers ==
  ASSUME AnswerInv, NEW id \in Ids, NEW r \in Intents, NEW c \in Commands \cup {None},
         RequestFresh(id, r, c)
  PROVE  RowInv' /\ CallsInv' /\ OneClaim' /\ ToldInv'
<1> DEFINE bound == [api |-> "request", intent |-> r]
<1>1. /\ status[id] = None /\ receipts[id] = None
      /\ snapshot' = [snapshot EXCEPT ![id] = bound]
      /\ UNCHANGED <<call, up, refused>>
      /\ \/ /\ SetCommandStatus(id, "applied") /\ WriteReceipt(id)
            /\ acked' = acked \cup {<<id, r>>}
         \/ SetCommandStatus(id, "rejected") /\ UNCHANGED <<receipts, acked>>
  BY DEF RequestFresh, ReceiptSeen
<1>2. bound \in Snapshots /\ bound.api = "request" /\ bound.intent = r /\ bound # None
  <2>1. bound \in Snapshots
    BY DEF Snapshots
  <2> QED
    BY <2>1, NoneAssumption DEF Snapshots
<1>3. /\ snapshot'[id] = bound /\ snapshot[id] = None
      /\ \A x \in Ids : x # id =>
           /\ snapshot'[x] = snapshot[x] /\ status'[x] = status[x] /\ receipts'[x] = receipts[x]
  BY <1>1 DEF AnswerInv, RowInv, TypeOK, SetCommandStatus, WriteReceipt
<1>4. Len(log[id[1]]) \in Nat
  BY DEF AnswerInv, TypeOK, Ids
<1>5. \/ /\ status'[id] = "applied" /\ receipts'[id] # None
         /\ acked' = acked \cup {<<id, r>>}
      \/ status'[id] = "rejected" /\ receipts'[id] = None /\ acked' = acked
  BY <1>1, <1>4, NoneAssumption DEF AnswerInv, TypeOK, SetCommandStatus, WriteReceipt
<1> HIDE DEF bound
<1>6. RowInv'
  <2> SUFFICES ASSUME NEW x \in Ids
               PROVE  /\ status'[x] = None <=> snapshot'[x] = None
                      /\ status'[x] # "received"
                      /\ receipts'[x] # None => status'[x] \in Standing
                      /\ status'[x] = "applied" => receipts'[x] # None
                      /\ (snapshot'[x] # None /\ snapshot'[x].api = "request")
                           => status'[x] \in {"applied", "rejected"}
    BY DEF RowInv
  <2>1. CASE x # id
    BY <1>3, <2>1 DEF AnswerInv, RowInv
  <2>2. CASE x = id
    BY <1>2, <1>3, <1>5, <2>2, NoneAssumption DEF Standing
  <2> QED
    BY <2>1, <2>2
<1>7. CallsInv'
  <2> SUFFICES ASSUME NEW v \in Workers, call'[v].pc # "idle" PROVE CallInv(call[v])'
    BY DEF CallsInv
  <2>1. call'[v] = call[v] /\ call[v].pc # "idle" /\ up' = up
    BY <1>1
  <2>2. CallInv(call[v]) /\ call[v].id \in Ids /\ call[v].id # id
    BY <1>1, <2>1, CallType, FreshKey DEF AnswerInv, CallsInv
  <2> QED
    BY <1>3, <2>1, <2>2 DEF CallInv
<1>8. OneClaim'
  BY <1>1 DEF AnswerInv, OneClaim
<1>9. \A x \in acked' : x \in acked \/
        (receipts'[x[1]] # None /\ snapshot'[x[1]] # None /\ snapshot'[x[1]].intent = x[2])
  BY <1>2, <1>3, <1>5
<1>10. \A x \in Ids :
         /\ receipts[x] # None => receipts'[x] # None
         /\ snapshot[x] # None => snapshot'[x] = snapshot[x]
         /\ status[x] \in Failed => status'[x] = status[x]
  BY <1>1, <1>3, NoneAssumption DEF Failed
<1>11. ToldInv'
  BY <1>1, <1>9, <1>10, ToldKept
<1> QED
  BY <1>6, <1>7, <1>8, <1>11

LEMMA AgainAnswers ==
  ASSUME AnswerInv, NEW id \in Ids, NEW r \in Intents, RequestAgain(id, r)
  PROVE  RowInv' /\ CallsInv' /\ OneClaim' /\ ToldInv'
<1> DEFINE bound == [api |-> "request", intent |-> r]
<1>1. /\ UNCHANGED <<status, snapshot, receipts, call, up>> /\ snapshot[id] = bound
      /\ \/ receipts[id] # None /\ acked' = acked \cup {<<id, r>>} /\ refused' = refused
         \/ /\ ~(receipts[id] # None /\ status[id] = "applied")
            /\ refused' = refused \cup {id} /\ acked' = acked
  BY DEF RequestAgain, ReceiptSeen, tables
<1>2. bound.api = "request" /\ bound.intent = r /\ bound # None
  <2>1. bound \in Snapshots
    BY DEF Snapshots
  <2> QED
    BY <2>1, NoneAssumption DEF Snapshots
<1> HIDE DEF bound
<1>3. RowInv' /\ CallsInv' /\ OneClaim'
  BY <1>1 DEF AnswerInv, RowInv, CallsInv, CallInv, OneClaim
<1>4. receipts[id] # None \/ status[id] # "applied"
  BY DEF AnswerInv, RowInv
<1>5. status[id] \in {"applied", "rejected"}
  BY <1>1, <1>2 DEF AnswerInv, RowInv
<1>6. \A x \in refused' : x \in refused \/ status'[x] \in Failed
  BY <1>1, <1>4, <1>5 DEF Failed
<1>7. \A x \in acked' : x \in acked \/
        (receipts'[x[1]] # None /\ snapshot'[x[1]] # None /\ snapshot'[x[1]].intent = x[2])
  BY <1>1, <1>2
<1>8. ToldInv'
  BY <1>1, <1>6, <1>7, ToldKept
<1> QED
  BY <1>3, <1>8

(* A claim: a fresh row is this call's, any other row is left as it is. *)
LEMMA ClaimAnswers ==
  ASSUME AnswerInv, NEW w \in Workers, NEW id \in Ids, NEW c \in Commands, Claim(w, id, c)
  PROVE  RowInv' /\ CallsInv' /\ OneClaim' /\ ToldInv'
<1> DEFINE mine == [api |-> "materialized", intent |-> c]
           first == IF status[id] = None THEN mine ELSE snapshot[id]
           fresh == status[id] = None
           now == IF fresh THEN "processing" ELSE status[id]
           begun == [pc |-> "check", id |-> id, cmd |-> c, claimed |-> fresh,
                     seen |-> now, outcome |-> ""]
<1>1. status[id] # "received" /\ (status[id] = None <=> snapshot[id] = None)
      /\ (receipts[id] # None => status[id] # None)
  BY NoneAssumption DEF AnswerInv, RowInv, Standing
<1>2. /\ up /\ call[w].pc = "idle" /\ UNCHANGED <<receipts, up, acked, refused>>
      /\ status' = [status EXCEPT ![id] = now]
      /\ snapshot' = [snapshot EXCEPT ![id] = first]
      /\ call' = [call EXCEPT ![w] = IF first # mine THEN Idle ELSE begun]
  <2>1. (first = mine /\ Claimable(IF status[id] = None THEN "received" ELSE status[id])) = fresh
    BY <1>1 DEF Claimable
  <2> QED
    BY <1>1, <2>1 DEF Claim, SetCommandStatus, SameInput
<1>3. mine \in Snapshots /\ mine.api = "materialized" /\ mine.intent = c /\ mine # None
  <2>1. mine \in Snapshots
    BY DEF Snapshots
  <2> QED
    BY <2>1, NoneAssumption DEF Snapshots
<1>4. /\ \A x \in Ids : x # id => status'[x] = status[x] /\ snapshot'[x] = snapshot[x]
      /\ ~fresh => status'[id] = status[id] /\ snapshot'[id] = snapshot[id]
      /\ fresh => status'[id] = "processing" /\ snapshot'[id] = mine
  BY <1>2 DEF AnswerInv, TypeOK
<1>5. /\ \A v \in Workers : v # w => call'[v] = call[v]
      /\ first # mine => call'[w].pc = "idle"
      /\ first = mine => call'[w] = begun
  BY <1>2 DEF AnswerInv, TypeOK, Idle
<1>6. fresh \in BOOLEAN /\ (fresh => receipts[id] = None)
  BY <1>1
<1>7. begun.pc = "check" /\ begun.id = id /\ begun.cmd = c /\ begun.claimed = fresh /\ begun.seen = now
  OBVIOUS
<1>8. \A v \in Workers : v # w /\ call[v].pc # "idle" /\ call[v].id = id => ~fresh
  BY FreshKey
<1>9. first = mine => snapshot'[id] = mine
  BY <1>4
<1>10. first = mine => status'[id] = now
  BY <1>2 DEF AnswerInv, TypeOK
<1>11. fresh => now = "processing"
  OBVIOUS
<1>13. fresh <=> status[id] = None
  OBVIOUS
<1> HIDE DEF mine, first, fresh, now, begun
<1>12. RowInv'
  <2> SUFFICES ASSUME NEW x \in Ids
               PROVE  /\ status'[x] = None <=> snapshot'[x] = None
                      /\ status'[x] # "received"
                      /\ receipts'[x] # None => status'[x] \in Standing
                      /\ status'[x] = "applied" => receipts'[x] # None
                      /\ (snapshot'[x] # None /\ snapshot'[x].api = "request")
                           => status'[x] \in {"applied", "rejected"}
    BY DEF RowInv
  <2>1. CASE x # id \/ ~fresh
    BY <1>2, <1>4, <2>1 DEF AnswerInv, RowInv
  <2>2. CASE x = id /\ fresh
    BY <1>2, <1>3, <1>4, <1>6, <2>2, NoneAssumption DEF Standing
  <2> QED
    BY <2>1, <2>2
<1>14. CallsInv'
  <2> SUFFICES ASSUME NEW v \in Workers, call'[v].pc # "idle" PROVE CallInv(call[v])'
    BY DEF CallsInv
  <2>1. CASE v # w
    <3>1. CallInv(call[v]) /\ call[v].id \in Ids /\ call'[v] = call[v] /\ call[v].pc # "idle"
      BY <1>5, <2>1, CallType DEF AnswerInv, CallsInv
    <3>2. status'[call[v].id] = status[call[v].id] /\ snapshot'[call[v].id] = snapshot[call[v].id]
      BY <1>4, <1>8, <2>1, <3>1
    <3> QED
      BY <1>2, <3>1, <3>2 DEF CallInv
  <2>2. CASE v = w
    <3>1. first = mine /\ call'[v] = begun
      BY <1>5, <2>2
    <3>2. snapshot'[id] = mine /\ status'[id] = now /\ up'
      BY <1>2, <1>9, <1>10, <3>1
    <3> QED
      BY <1>7, <1>11, <3>1, <3>2 DEF CallInv, Standing, mine
  <2> QED
    BY <2>1, <2>2
<1>15. OneClaim'
  <2> SUFFICES ASSUME NEW u \in Workers, NEW v \in Workers,
                      call'[u].pc # "idle", call'[u].claimed,
                      call'[v].pc # "idle", call'[v].claimed,
                      call'[u].id = call'[v].id, u # v
               PROVE  FALSE
    BY DEF OneClaim
  <2>1. CASE u # w /\ v # w
    BY <1>5, <2>1 DEF AnswerInv, OneClaim
  <2>2. CASE u = w
    BY <1>5, <1>7, <1>8, <2>2
  <2>3. CASE v = w
    BY <1>5, <1>7, <1>8, <2>3
  <2> QED
    BY <2>1, <2>2, <2>3
<1>16. \A x \in Ids :
         /\ snapshot[x] # None => snapshot'[x] = snapshot[x]
         /\ status[x] \in Failed => status'[x] = status[x]
  BY <1>1, <1>4, <1>13, NoneAssumption DEF Failed
<1>17. ToldInv'
  BY <1>2, <1>16, ToldKept
<1> QED
  BY <1>12, <1>14, <1>15, <1>17

LEMMA AnswerStep ==
  ASSUME Durable, AnswerInv, [Next]_vars
  PROVE  AnswerInv'
<1> SUFFICES RowInv' /\ CallsInv' /\ OneClaim' /\ ToldInv'
  BY TypeStep, DiskCurrent DEF AnswerInv
<1>1. ASSUME NEW w \in Workers, NEW id \in Ids, NEW c \in Commands, Claim(w, id, c)
      PROVE  RowInv' /\ CallsInv' /\ OneClaim' /\ ToldInv'
  BY <1>1, ClaimAnswers
<1>2. ASSUME NEW w \in Workers,
             CheckReceipt(w) \/ Repair(w) \/ AdmitWithKey(w) \/ AdmitWithKeyFails(w)
               \/ Finish(w) \/ StatementFails(w)
      PROVE  RowInv' /\ CallsInv' /\ OneClaim' /\ ToldInv'
  BY <1>2, CheckAnswers, RepairAnswers, AdmitAnswers, FinishAnswers, FailAnswers
<1>3. ASSUME NEW id \in Ids, NEW c \in Commands, AdmitDirect(id, c)
      PROVE  FALSE
  BY <1>3 DEF AdmitDirect, Durable
<1>4. ASSUME NEW id \in Ids, NEW r \in Intents, RequestAgain(id, r)
      PROVE  RowInv' /\ CallsInv' /\ OneClaim' /\ ToldInv'
  BY <1>4, AgainAnswers
<1>5. ASSUME NEW s \in Scopes, NEW c \in Commands, AdmitUnkeyed(s, c)
      PROVE  RowInv' /\ CallsInv' /\ OneClaim' /\ ToldInv'
  <2>1. UNCHANGED <<status, snapshot, receipts, call, up, acked, refused>>
    BY <1>5 DEF AdmitUnkeyed
  <2> QED
    BY <2>1, IdleAnswers
<1>6. ASSUME NEW id \in Ids, NEW r \in Intents, NEW c \in Commands \cup {None},
             RequestFresh(id, r, c)
      PROVE  RowInv' /\ CallsInv' /\ OneClaim' /\ ToldInv'
  BY <1>6, FreshAnswers
<1>7. CASE Crash
  BY <1>7, DownAnswers DEF Crash, tables
<1>8. CASE PowerLoss
  <2>1. UNCHANGED <<status, snapshot, receipts, acked, refused>>
    BY <1>8 DEF PowerLoss, AnswerInv, Db
  <2> QED
    BY <1>8, <2>1, DownAnswers DEF PowerLoss
<1>9. CASE Sync
  BY <1>9, IdleAnswers DEF Sync, tables
<1>10. CASE Restart
  BY <1>10, RestartAnswers
<1>11. CASE UNCHANGED vars
  BY <1>11, IdleAnswers DEF vars, tables
<1> QED
  BY <1>1, <1>2, <1>3, <1>4, <1>5, <1>6, <1>7, <1>8, <1>9, <1>10, <1>11 DEF Next

(* What the shells answer stands: a caller told Ok has its receipt under   *)
(* its own input, and a caller told to submit with a new key never finds   *)
(* the refused one in effect, through every crash, power loss, failed      *)
(* statement and retry, for every number of calls in flight.               *)
THEOREM AnswersStand ==
  ASSUME Durable
  PROVE  Spec => []AnswersTrue
<1>1. AnswerInv => AnswersTrue
  <2> SUFFICES ASSUME AnswerInv PROVE AnswersTrue
    OBVIOUS
  <2>1. AckTruth /\ AppliedHasReceipt
    BY DEF AnswerInv, ToldInv, RowInv, AppliedHasReceipt
  <2>2. RefusalFinal
    <3> SUFFICES ASSUME NEW id \in refused PROVE receipts[id] = None
      BY DEF RefusalFinal
    <3>1. id \in Ids
      BY DEF AnswerInv, TypeOK
    <3> QED
      BY <3>1 DEF AnswerInv, ToldInv, RowInv, Failed, Standing
  <2> QED
    BY <2>1, <2>2 DEF AnswersTrue
<1>2. AnswerInv /\ [Next]_vars => AnswerInv'
  BY AnswerStep
<1> QED
  BY <1>1, <1>2, AnswerStart, PTL DEF Spec

(* A row settled as applied is not taken back. *)
LEMMA AppliedKept ==
  ASSUME Durable, AnswerInv, AnswerInv', [Next]_vars, NEW id \in Ids, status[id] = "applied"
  PROVE  status'[id] = "applied"
<1>1. receipts[id] # None
  BY DEF AnswerInv, RowInv
<1>2. status'[id] \in {"processing", "applied"} => status'[id] = "applied"
  <2>1. CASE UNCHANGED status
    BY <2>1
  <2>2. ASSUME NEW w \in Workers, NEW x \in Ids, NEW c \in Commands, Claim(w, x, c)
        PROVE  status'[id] = "applied"
    BY <2>2, NoneAssumption DEF Claim, SetCommandStatus, Claimable, AnswerInv, TypeOK
  <2>3. ASSUME NEW w \in Workers, Repair(w)
        PROVE  status'[id] = "applied"
    BY <2>3 DEF Repair, SetCommandStatus, AnswerInv, TypeOK
  <2>4. ASSUME NEW w \in Workers, Finish(w), status'[id] \in {"processing", "applied"}
        PROVE  status'[id] = "applied"
    <3>1. Settling(w, call[w].outcome)
      BY <2>4, FinishSettles
    <3> QED
      BY <2>4, <3>1 DEF Settling, SetCommandStatus, AnswerInv, TypeOK
  <2>5. ASSUME NEW x \in Ids, NEW r \in Intents, NEW c \in Commands \cup {None}, RequestFresh(x, r, c)
        PROVE  status'[id] = "applied"
    <3>1. x # id
      BY <2>5, NoneAssumption DEF RequestFresh
    <3> QED
      BY <2>5, <3>1 DEF RequestFresh, SetCommandStatus, AnswerInv, TypeOK
  <2>6. CASE PowerLoss
    BY <2>6 DEF PowerLoss, AnswerInv, Db
  <2>7. CASE Restart
    BY <2>7 DEF Restart, ReconcileCommands, Interrupted, AnswerInv, TypeOK
  <2>8. \/ UNCHANGED status
        \/ \E w \in Workers, x \in Ids, c \in Commands : Claim(w, x, c)
        \/ \E w \in Workers : Repair(w) \/ Finish(w)
        \/ \E x \in Ids, r \in Intents, c \in Commands \cup {None} : RequestFresh(x, r, c)
        \/ PowerLoss \/ Restart
    BY Zenon
       DEF Next, vars, tables, CheckReceipt, AdmitWithKey, AdmitWithKeyFails, StatementFails,
           AdmitDirect, AdmitUnkeyed, RequestAgain, Crash, Sync
  <2> QED
    BY <2>1, <2>2, <2>3, <2>4, <2>5, <2>6, <2>7, <2>8
<1>3. status'[id] \in Standing
  <2>1. receipts'[id] # None
    <3>1. CASE receipts' = receipts
      BY <1>1, <3>1
    <3>2. ASSUME NEW x \in Ids, WriteReceipt(x)
          PROVE  receipts'[id] # None
      <4>1. Len(log[x[1]]) \in Nat
        BY DEF AnswerInv, TypeOK, Ids
      <4> QED
        BY <1>1, <3>2, <4>1, NoneAssumption DEF WriteReceipt, AnswerInv, TypeOK
    <3>3. CASE PowerLoss
      BY <1>1, <3>3 DEF PowerLoss, AnswerInv, Db
    <3>4. \A w \in Workers : AdmitWithKey(w) => call[w].id \in Ids
      BY CallType DEF AdmitWithKey, AnswerInv
    <3>5. receipts' = receipts \/ PowerLoss \/ \E x \in Ids : WriteReceipt(x)
      BY <3>4, ReceiptKinds, Zenon
    <3> QED
      BY <3>1, <3>2, <3>3, <3>5
  <2> QED
    BY <2>1 DEF AnswerInv, RowInv
<1> QED
  BY <1>2, <1>3 DEF Standing

(* One call executes a key at a time, on a row not settled as a failure,   *)
(* and no slower call's status update takes an applied row back.           *)
THEOREM ClaimsHold ==
  ASSUME Durable
  PROVE  Spec => ClaimsStand
<1>1. AnswerInv => ClaimExclusive
  BY DEF AnswerInv, CallsInv, CallInv, OneClaim, ClaimExclusive, Claims, Standing
<1>2. AnswerInv /\ [Next]_vars => AnswerInv'
  BY AnswerStep
<1>3. AnswerInv /\ AnswerInv' /\ [Next]_vars =>
        [\A id \in Ids : status[id] = "applied" => status'[id] = "applied"]_vars
  BY AppliedKept
<1> QED
  BY <1>1, <1>2, <1>3, AnswerStart, PTL DEF Spec, ClaimsStand, AppliedSticks

-----------------------------------------------------------------------------
(* Safe release: the store over the review lifecycle *)

(* The states the append loop of at most two events goes through. *)
LEMMA OutcomeRows ==
  ASSUME NEW st, NEW c, NEW ev, ev = ReviewDecide(st, c).events, Len(ev) \in 0..2,
         NEW out, out = ReviewOutcome(st, c).events
  PROVE  /\ Len(out) = Len(ev)
         /\ Len(ev) >= 1 => out[1] = ReviewEvolve(st, ev[1])
         /\ Len(ev) = 2 => out[2] = ReviewEvolve(out[1], ev[2])
<1> DEFINE Body(g) == [i \in 0..Len(ev) |-> IF i = 0 THEN st ELSE ReviewEvolve(g[i - 1], ev[i])]
           F == CHOOSE g : g = Body(g)
           first == ReviewEvolve(st, ev[1])
           f == [i \in 0..Len(ev) |-> IF i = 0 THEN st
                                      ELSE IF i = 1 THEN first ELSE ReviewEvolve(first, ev[2])]
<1>1. out = [i \in 1..Len(ev) |-> F[i]]
  BY DEF ReviewOutcome
<1>2. f = Body(f)
  <2> HIDE DEF first
  <2>1. \A i \in 0..Len(ev) : f[i] = Body(f)[i]
    <3> SUFFICES ASSUME NEW i \in 0..Len(ev) PROVE f[i] = Body(f)[i]
      OBVIOUS
    <3>1. i = 0 \/ i = 1 \/ i = 2
      <4>1. PICK n : n = Len(ev)
        OBVIOUS
      <4>2. n \in 0..2 /\ i \in 0..n
        BY <4>1, Zenon
      <4> QED
        BY ONLY <4>2
    <3>2. i # 0 => i - 1 \in 0..Len(ev)
      BY <3>1
    <3>3. CASE i = 0
      <4>1. f[i] = st
        BY <3>3
      <4>2. Body(f)[i] = st
        BY <3>3
      <4> QED
        BY <4>1, <4>2
    <3>4. CASE i = 1
      <4>1. f[0] = st /\ 1 - 1 = 0
        BY <3>4, <3>2
      <4>2. Body(f)[i] = ReviewEvolve(f[0], ev[1])
        BY <3>4, <4>1
      <4>3. f[i] = first
        BY <3>4
      <4> QED
        BY <4>1, <4>2, <4>3 DEF first
    <3>5. CASE i = 2
      <4>1. f[1] = first /\ 2 - 1 = 1
        BY <3>5, <3>2
      <4>2. Body(f)[i] = ReviewEvolve(f[1], ev[2])
        BY <3>5, <4>1
      <4>3. f[i] = ReviewEvolve(first, ev[2])
        BY <3>5
      <4> QED
        BY <4>1, <4>2, <4>3
    <3> QED
      BY <3>1, <3>3, <3>4, <3>5
  <2>2. f = [i \in 0..Len(ev) |-> f[i]]
    OBVIOUS
  <2> HIDE DEF f
  <2>3. Body(f) = [i \in 0..Len(ev) |-> Body(f)[i]]
    OBVIOUS
  <2> HIDE DEF Body
  <2> QED
    BY <2>1, <2>2, <2>3
<1> HIDE DEF f
<1>3. F = Body(F)
  <2> HIDE DEF Body
  <2> QED
    BY <1>2
<1> HIDE DEF F
<1>4. ASSUME NEW i \in 1..Len(ev) PROVE F[i] = ReviewEvolve(F[i - 1], ev[i])
  <2>1. i \in 0..Len(ev) /\ i # 0
    BY <1>4
  <2>2. F[i] = Body(F)[i]
    BY <1>3
  <2>3. Body(F)[i] = ReviewEvolve(F[i - 1], ev[i])
    BY <2>1
  <2> QED
    BY <2>2, <2>3
<1>5. F[0] = st
  <2>1. F[0] = Body(F)[0]
    BY <1>3
  <2>2. Body(F)[0] = st
    OBVIOUS
  <2> QED
    BY <2>1, <2>2
<1> HIDE DEF Body
<1>6. Len(out) = Len(ev)
  BY <1>1
<1>7. ASSUME Len(ev) >= 1 PROVE out[1] = ReviewEvolve(st, ev[1])
  <2>1. 1 \in 1..Len(ev) /\ 1 - 1 = 0
    BY <1>7
  <2>2. out[1] = F[1]
    BY <1>1, <2>1
  <2>3. F[1] = ReviewEvolve(F[0], ev[1])
    BY <1>4, <2>1
  <2> QED
    BY <1>5, <2>2, <2>3
<1>8. ASSUME Len(ev) = 2 PROVE out[2] = ReviewEvolve(out[1], ev[2])
  <2>1. 1 \in 1..Len(ev) /\ 2 \in 1..Len(ev) /\ 2 - 1 = 1
    BY <1>8
  <2>2. out[1] = F[1] /\ out[2] = F[2]
    BY <1>1, <2>1
  <2>3. F[2] = ReviewEvolve(F[1], ev[2])
    BY <1>4, <2>1
  <2> QED
    BY <2>2, <2>3
<1> QED
  BY <1>6, <1>7, <1>8

(* A review that is cleared or released has every required consent. *)
Sound(x) ==
  /\ x \in ReviewState
  /\ x.phase \in {"Cleared", "Released"} => x.required = x.consented

(* What a decision may append: sound states, and a release only as its     *)
(* first event, on a cleared review.                                       *)
SoundEvents(st, out) ==
  \A i \in 1..Len(out) :
    Sound(out[i]) /\ (out[i].phase = "Released" => i = 1 /\ st.phase = "Cleared")

(* A decision of one event. *)
LEMMA OneEvent ==
  ASSUME NEW st, NEW c, NEW e, NEW out, out = ReviewOutcome(st, c).events,
         ReviewDecide(st, c).events = <<e>>, Sound(ReviewEvolve(st, e)),
         ReviewEvolve(st, e).phase = "Released" => st.phase = "Cleared"
  PROVE  SoundEvents(st, out)
<1>0. PICK ev : ev = ReviewDecide(st, c).events
  OBVIOUS
<1>1. Len(ev) = 1 /\ Len(ev) \in 0..2 /\ ev[1] = e
  <2>1. Len(<<e>>) = 1 /\ 1 \in 0..2 /\ <<e>>[1] = e
    OBVIOUS
  <2> QED
    BY <1>0, <2>1, Zenon
<1>2. Len(out) = Len(ev) /\ (Len(ev) >= 1 => out[1] = ReviewEvolve(st, ev[1]))
  BY <1>0, <1>1, OutcomeRows
<1>3. Len(out) = 1 /\ out[1] = ReviewEvolve(st, e)
  BY <1>1, <1>2
<1> QED
  BY <1>3 DEF SoundEvents

(* The decision of a review command keeps reviews sound: the phases that   *)
(* `decide` requires before it clears or releases, and what `evolve` makes *)
(* of a withdrawn consent.                                                 *)
LEMMA ReviewSound ==
  ASSUME NEW st, Sound(st), NEW c \in ReviewCommand,
         NEW out, out = ReviewOutcome(st, c).events
  PROVE  SoundEvents(st, out)
<1> DEFINE d == ReviewDecide(st, c)
<1>0. st \in ReviewState /\ (st.phase \in {"Cleared", "Released"} => st.required = st.consented)
  BY DEF Sound
<1>1. st.phase \in ReviewPhase /\ st.required \subseteq Authorities /\ st.consented \subseteq Authorities
  BY <1>0 DEF ReviewState
<1>2. CASE d.events = <<>>
  <2>0. PICK ev : ev = ReviewDecide(st, c).events
    OBVIOUS
  <2>1. Len(ev) = 0 /\ Len(ev) \in 0..2
    BY <1>2, <2>0
  <2>2. Len(out) = Len(ev)
    BY <2>0, <2>1, OutcomeRows
  <2>3. 1..Len(out) = {}
    BY <2>1, <2>2
  <2> QED
    BY <2>3, Zenon DEF SoundEvents
<1>3. CASE c.op = "Propose" /\ d.events # <<>>
  <2> DEFINE e == [ev |-> "Proposed", required |-> c.required]
  <2>1. d.events = <<e>>
    BY <1>3 DEF ReviewDecide, When, Accept, Reject
  <2>2. c.required \subseteq Authorities
    BY <1>3 DEF ReviewCommand
  <2>3. ReviewEvolve(st, e) = [phase |-> "Proposed", required |-> c.required, consented |-> {}]
    BY DEF ReviewEvolve
  <2>4. Sound(ReviewEvolve(st, e)) /\ ReviewEvolve(st, e).phase # "Released"
    BY <2>2, <2>3 DEF Sound, ReviewState, ReviewPhase
  <2> HIDE DEF e
  <2> QED
    BY <2>1, <2>4, OneEvent, Zenon
<1>4. CASE c.op = "Consent" /\ d.events # <<>>
  <2> DEFINE a == c.by
             e == [ev |-> "Consented", by |-> a]
             x == [st EXCEPT !.consented = st.consented \cup {a}]
  <2>1. a \in Authorities
    BY <1>4 DEF ReviewCommand
  <2>2. /\ st.phase = "Proposed"
        /\ d.events = <<e>> \o IF st.consented \cup {a} = st.required
                                 THEN <<[ev |-> "Cleared"]>> ELSE <<>>
    BY <1>4 DEF ReviewDecide, DecideConsent, When, Accept, Reject
  <2>3. ReviewEvolve(st, e) = x
    BY DEF ReviewEvolve
  <2>4. /\ x \in ReviewState /\ x.phase = "Proposed"
        /\ x.required = st.required /\ x.consented = st.consented \cup {a}
    BY <1>0, <1>1, <2>1, <2>2 DEF ReviewState
  <2>5. Sound(x)
    BY <2>4, Zenon DEF Sound
  <2> HIDE DEF x, a
  <2>6. CASE st.consented \cup {a} # st.required
    <3>1. d.events = <<e>>
      <4>1. d.events = <<e>> \o <<>>
        BY <2>2, <2>6, Zenon
      <4>2. \A u : <<u>> \o <<>> = <<u>>
        OBVIOUS
      <4> QED
        BY <4>1, <4>2, Zenon
    <3> HIDE DEF e
    <3> QED
      BY <3>1, <2>3, <2>4, <2>5, OneEvent
  <2>7. CASE st.consented \cup {a} = st.required
    <3> DEFINE cl == [ev |-> "Cleared"]
    <3>1. PICK ev : ev = ReviewDecide(st, c).events
      OBVIOUS
    <3>2. ev = <<e>> \o <<cl>>
      BY <2>2, <2>7, <3>1, Zenon
    <3>3. ReviewEvolve(x, cl) = [x EXCEPT !.phase = "Cleared"]
      BY DEF ReviewEvolve
    <3>4. Sound(ReviewEvolve(x, cl)) /\ ReviewEvolve(x, cl).phase = "Cleared"
      BY <2>4, <2>7, <3>3 DEF Sound, ReviewState, ReviewPhase
    <3> HIDE DEF e, cl
    <3>5. Len(ev) = 2 /\ Len(ev) \in 0..2 /\ ev[1] = e /\ ev[2] = cl
      <4>1. PICK u, v : u = <<e>> /\ v = <<cl>>
        OBVIOUS
      <4>2. /\ u \in Seq({e, cl}) /\ v \in Seq({e, cl})
            /\ Len(u) = 1 /\ Len(v) = 1 /\ u[1] = e /\ v[1] = cl
        BY <4>1
      <4>3. ev = u \o v
        BY <3>2, <4>1, Zenon
      <4>4. /\ Len(ev) = Len(u) + Len(v)
            /\ \A i \in 1..Len(u) : ev[i] = u[i]
            /\ \A i \in (Len(u) + 1)..(Len(u) + Len(v)) : ev[i] = v[i - Len(u)]
        <5>1. PICK T : T = {e, cl}
          OBVIOUS
        <5>2. u \in Seq(T) /\ v \in Seq(T)
          BY <4>2, <5>1, Zenon
        <5>3. /\ Len(u \o v) = Len(u) + Len(v)
              /\ \A i \in 1..Len(u) : (u \o v)[i] = u[i]
              /\ \A i \in (Len(u) + 1)..(Len(u) + Len(v)) : (u \o v)[i] = v[i - Len(u)]
          BY <5>2, ConcatRows, Zenon
        <5> QED
          BY <4>3, <5>3, Zenon
      <4>5. Len(u) = 1 /\ Len(v) = 1 /\ 1 \in 1..1 /\ 2 \in (1 + 1)..(1 + 1) /\ 2 - 1 = 1
        BY <4>2
      <4>6. ev[1] = u[1]
        BY <4>4, <4>5
      <4>7. ev[2] = v[2 - 1] /\ 2 - 1 = 1
        BY <4>4, <4>5
      <4>8. Len(ev) = 2
        BY <4>4, <4>5
      <4>9. v[1] = cl /\ u[1] = e
        BY <4>2, Zenon
      <4> QED
        BY <4>6, <4>7, <4>8, <4>9
    <3>6. /\ Len(out) = Len(ev)
          /\ Len(ev) >= 1 => out[1] = ReviewEvolve(st, ev[1])
          /\ Len(ev) = 2 => out[2] = ReviewEvolve(out[1], ev[2])
      BY <3>1, <3>5, OutcomeRows
    <3>7. Len(out) = 2 /\ out[1] = x /\ out[2] = ReviewEvolve(x, cl)
      BY <3>5, <3>6, <2>3
    <3>8. \A i \in 1..2 : i = 1 \/ i = 2
      OBVIOUS
    <3> QED
      BY <2>4, <2>5, <3>4, <3>7, <3>8 DEF SoundEvents
  <2> QED
    BY <2>6, <2>7
<1>5. CASE c.op \in {"Reject", "Cancel"} /\ d.events # <<>>
  <2>1. PICK e : d.events = <<e>> /\ e.ev \in {"Rejected", "Withheld"}
    BY <1>5 DEF ReviewDecide, When, Accept, Reject
  <2>2. ReviewEvolve(st, e) = [st EXCEPT !.phase = "Withheld"]
    BY <2>1 DEF ReviewEvolve
  <2>3. Sound(ReviewEvolve(st, e)) /\ ReviewEvolve(st, e).phase # "Released"
    BY <1>0, <2>2 DEF Sound, ReviewState, ReviewPhase
  <2> QED
    BY <2>1, <2>3, OneEvent, Zenon
<1>6. CASE c.op = "Revoke" /\ d.events # <<>>
  <2> DEFINE e == [ev |-> "ConsentRevoked", by |-> c.by]
  <2>1. d.events = <<e>>
    BY <1>6 DEF ReviewDecide, When, Accept, Reject
  <2>2. ReviewEvolve(st, e) = [st EXCEPT !.consented = st.consented \ {c.by}, !.phase = "Proposed"]
    BY DEF ReviewEvolve, RevokeConsent
  <2>3. Sound(ReviewEvolve(st, e)) /\ ReviewEvolve(st, e).phase # "Released"
    BY <1>0, <1>1, <2>2 DEF Sound, ReviewState, ReviewPhase
  <2> HIDE DEF e
  <2> QED
    BY <2>1, <2>3, OneEvent, Zenon
<1>7. CASE c.op = "Release" /\ d.events # <<>>
  <2> DEFINE e == [ev |-> "Released"]
  <2>1. d.events = <<e>> /\ st.phase = "Cleared"
    BY <1>7 DEF ReviewDecide, When, Accept, Reject
  <2>2. ReviewEvolve(st, e) = [st EXCEPT !.phase = "Released"]
    BY DEF ReviewEvolve
  <2>3. Sound(ReviewEvolve(st, e))
    BY <1>0, <1>1, <2>1, <2>2 DEF Sound, ReviewState, ReviewPhase
  <2> HIDE DEF e
  <2> QED
    BY <2>1, <2>3, OneEvent, Zenon
<1>8. c.op \in {"Propose", "Consent", "Reject", "Cancel", "Revoke", "Release"}
  BY DEF ReviewCommand
<1> QED
  BY <1>2, <1>3, <1>4, <1>5, <1>6, <1>7, <1>8

(* A log of reviews: sound states, a release right after a clearance. *)
SoundLog(l) ==
  \A i \in 1..Len(l) :
    /\ Sound(l[i].state)
    /\ l[i].state.phase = "Released" => i > 1 /\ l[i - 1].state.phase = "Cleared"

(* Sound events after a sound log are a sound log. *)
LEMMA SoundConcat ==
  ASSUME NEW l \in Seq(Entries), NEW b \in Seq(Entries), NEW out, NEW st,
         SoundLog(l), st = IF l = <<>> THEN L0 ELSE l[Len(l)].state,
         L0.phase # "Cleared", SoundEvents(st, out), Len(out) = Len(b),
         \A i \in 1..Len(b) : b[i].state = out[i]
  PROVE  SoundLog(l \o b)
<1>1. Len(l) \in Nat /\ Len(b) \in Nat
  OBVIOUS
<1>2. /\ Len(l \o b) = Len(l) + Len(b)
      /\ \A i \in 1..Len(l) : (l \o b)[i] = l[i]
      /\ \A i \in (Len(l) + 1)..(Len(l) + Len(b)) : (l \o b)[i] = b[i - Len(l)]
  BY ConcatRows
<1> SUFFICES ASSUME NEW i \in 1..Len(l \o b)
             PROVE  LET r == (l \o b)[i].state IN
                    /\ Sound(r)
                    /\ r.phase = "Released" => i > 1 /\ (l \o b)[i - 1].state.phase = "Cleared"
  BY DEF SoundLog
<1>3. CASE i <= Len(l)
  <2>1. i \in 1..Len(l) /\ (i > 1 => i - 1 \in 1..Len(l))
    BY <1>1, <1>2, <1>3
  <2>2. (l \o b)[i] = l[i] /\ (i > 1 => (l \o b)[i - 1] = l[i - 1])
    BY <1>2, <2>1
  <2>3. /\ Sound(l[i].state)
        /\ l[i].state.phase = "Released" => i > 1 /\ l[i - 1].state.phase = "Cleared"
    BY <2>1 DEF SoundLog
  <2> QED
    BY <2>2, <2>3
<1>4. CASE i > Len(l)
  <2>1. i \in (Len(l) + 1)..(Len(l) + Len(b)) /\ i - Len(l) \in 1..Len(b)
    BY <1>1, <1>2, <1>4
  <2>2. (l \o b)[i] = b[i - Len(l)] /\ b[i - Len(l)].state = out[i - Len(l)]
    BY <1>2, <2>1
  <2>3. /\ Sound(out[i - Len(l)])
        /\ out[i - Len(l)].phase = "Released" => i - Len(l) = 1 /\ st.phase = "Cleared"
    BY <2>1 DEF SoundEvents
  <2>4. ASSUME out[i - Len(l)].phase = "Released"
        PROVE  i > 1 /\ (l \o b)[i - 1].state.phase = "Cleared"
    <3>1. i - Len(l) = 1 /\ st.phase = "Cleared"
      BY <2>3, <2>4
    <3>2. l # <<>> /\ st = l[Len(l)].state
      BY <3>1
    <3>3. Len(l) \in 1..Len(l) /\ i - 1 = Len(l) /\ i > 1
      BY <1>1, <3>1, <3>2, <2>1
    <3>4. (l \o b)[i - 1] = l[Len(l)]
      BY <1>2, <3>3
    <3> QED
      BY <3>1, <3>2, <3>3, <3>4
  <2> QED
    BY <2>2, <2>3, <2>4
<1> QED
  BY <1>1, <1>2, <1>3, <1>4

(* The reviews of the tables and of the image a power loss returns to. *)
ReleaseInv ==
  /\ \A s \in Scopes : SoundLog(log[s])
  /\ \A s \in Scopes : SoundLog(disk.log[s])

(* The folded review is sound. *)
LEMMA SoundFold ==
  ASSUME log \in [Scopes -> Seq(Entries)], NEW s \in Scopes, SoundLog(log[s])
  PROVE  Sound(Fold(s))
<1>1. CASE log[s] = <<>>
  <2>1. Fold(s) = ReviewDefault
    BY <1>1, ReviewAssumption DEF Fold
  <2> QED
    BY <2>1 DEF Sound, ReviewDefault, ReviewState, ReviewPhase
<1>2. CASE log[s] # <<>>
  <2>1. Len(log[s]) \in 1..Len(log[s])
    BY <1>2
  <2> QED
    BY <1>2, <2>1 DEF Fold, SoundLog
<1> QED
  BY <1>1, <1>2

(* An admitted review command keeps every log sound. *)
LEMMA SoundAppend ==
  ASSUME TypeOK, \A t \in Scopes : SoundLog(log[t]), NEW s \in Scopes, NEW c \in Commands,
         NEW by \in Ids \cup {None}, AppendEvents(s, Decide[<<Fold(s), c>>].events, by)
  PROVE  \A t \in Scopes : SoundLog(log'[t])
<1>1. PICK out : out = Decide[<<Fold(s), c>>].events
  OBVIOUS
<1>2. out \in Seq(LState) /\ log \in [Scopes -> Seq(Entries)] /\ log[s] \in Seq(Entries)
  BY <1>1, DecisionType DEF TypeOK
<1>3. AppendEvents(s, out, by)
  BY <1>1
<1>4. PICK b : b = Batch(s, out, by)
  OBVIOUS
<1>5. /\ b \in Seq(Entries) /\ Len(b) = Len(out)
      /\ \A i \in 1..Len(out) : b[i] = [state |-> out[i], by |-> by, base |-> Len(log[s])]
  BY <1>2, <1>4, BatchType
<1>6. log'[s] = log[s] \o b /\ \A t \in Scopes \ {s} : log'[t] = log[t]
  BY <1>2, <1>3, <1>4, AppendType
<1>7. Sound(Fold(s)) /\ Fold(s) \in ReviewState
  BY <1>2, SoundFold DEF Sound
<1>8. out = ReviewOutcome(Fold(s), c).events /\ c \in ReviewCommand
  BY <1>1, <1>7, ReviewAssumption
<1>9. SoundEvents(Fold(s), out)
  BY <1>7, <1>8, ReviewSound
<1>10. L0.phase # "Cleared"
  BY ReviewAssumption DEF ReviewDefault
<1>11. SoundLog(log[s] \o b)
  <2>1. ASSUME NEW i \in 1..Len(b) PROVE b[i].state = out[i]
    <3>1. PICK r : r = b[i] /\ r = [state |-> out[i], by |-> by, base |-> Len(log[s])]
      BY <1>5
    <3>2. r.state = out[i]
      BY <3>1
    <3> QED
      BY <3>1, <3>2, Zenon
  <2>2. PICK l : l = log[s]
    OBVIOUS
  <2>3. PICK st : st = Fold(s)
    OBVIOUS
  <2>4. st = IF l = <<>> THEN L0 ELSE l[Len(l)].state
    BY <2>2, <2>3 DEF Fold
  <2>5. l \in Seq(Entries) /\ SoundLog(l) /\ SoundEvents(st, out) /\ Len(out) = Len(b)
    BY <1>2, <1>5, <1>9, <2>2, <2>3
  <2>6. SoundLog(l \o b)
    BY <1>5, <1>10, <2>1, <2>4, <2>5, SoundConcat
  <2> QED
    BY <2>2, <2>6
<1> QED
  BY <1>6, <1>11

(* Every step of the store keeps the reviews sound. *)
LEMMA ReleaseStep ==
  ASSUME TypeOK, ReleaseInv, [Next]_vars
  PROVE  ReleaseInv'
<1>1. /\ \A s \in Scopes : SoundLog(log[s])
      /\ \A s \in Scopes : SoundLog(disk.log[s])
  BY DEF ReleaseInv
<1>2. \A s \in Scopes : SoundLog(log'[s])
  <2>1. CASE UNCHANGED <<log, receipts>>
    BY <1>1, <2>1
  <2>2. CASE PowerLoss
    BY <1>1, <2>2 DEF PowerLoss
  <2>3. ASSUME NEW w \in Workers, AdmitWithKey(w), ~UNCHANGED <<log, receipts>>
        PROVE  \A s \in Scopes : SoundLog(log'[s])
    <3>1. call[w].id \in Ids /\ call[w].cmd \in Commands
      BY <2>3, CallType DEF AdmitWithKey
    <3>2. call[w].id[1] \in Scopes
      BY <3>1 DEF Ids
    <3>3. AppendEvents(call[w].id[1], Decide[<<Fold(call[w].id[1]), call[w].cmd>>].events, call[w].id)
      BY <2>3 DEF AdmitWithKey
    <3> QED
      BY <1>1, <3>1, <3>2, <3>3, SoundAppend
  <2>4. ASSUME NEW id \in Ids, NEW c \in Commands, AdmitDirect(id, c)
        PROVE  \A s \in Scopes : SoundLog(log'[s])
    <3>1. id[1] \in Scopes
      BY DEF Ids
    <3>2. AppendEvents(id[1], Decide[<<Fold(id[1]), c>>].events, id)
      BY <2>4 DEF AdmitDirect
    <3> QED
      BY <1>1, <3>1, <3>2, SoundAppend
  <2>5. ASSUME NEW s \in Scopes, NEW c \in Commands, AdmitUnkeyed(s, c)
        PROVE  \A t \in Scopes : SoundLog(log'[t])
    <3>1. AppendEvents(s, Decide[<<Fold(s), c>>].events, None)
      BY <2>5 DEF AdmitUnkeyed
    <3> QED
      BY <1>1, <3>1, SoundAppend
  <2>6. ASSUME NEW id \in Ids, NEW r \in Intents, NEW c \in Commands \cup {None},
               RequestFresh(id, r, c), ~UNCHANGED <<log, receipts>>
        PROVE  \A s \in Scopes : SoundLog(log'[s])
    <3>1. c # None /\ id[1] \in Scopes
      BY <2>6 DEF RequestFresh, Ids
    <3>2. AppendEvents(id[1], Decide[<<Fold(id[1]), c>>].events, id)
      BY <2>6, <3>1 DEF RequestFresh
    <3> QED
      BY <1>1, <3>1, <3>2, SoundAppend
  <2>7. \/ UNCHANGED <<log, receipts>>
        \/ PowerLoss
        \/ \E w \in Workers : AdmitWithKey(w)
        \/ \E id \in Ids, c \in Commands : AdmitDirect(id, c)
        \/ \E s \in Scopes, c \in Commands : AdmitUnkeyed(s, c)
        \/ \E id \in Ids, r \in Intents, c \in Commands \cup {None} : RequestFresh(id, r, c)
    BY StepKinds, Zenon
  <2> QED
    BY <2>1, <2>2, <2>3, <2>4, <2>5, <2>6, <2>7
<1>3. \A s \in Scopes : SoundLog(disk'.log[s])
  BY <1>1, <1>2, DiskStep
<1> QED
  BY <1>2, <1>3 DEF ReleaseInv

(* SAFE_RELEASE (INV-16) for every set of authorities, scopes, keys and    *)
(* callers: through the keyed and unkeyed shells of the store, with calls  *)
(* racing, retried, interrupted or undone by a power loss, a review is     *)
(* released only from the cleared state right before it, with every        *)
(* required consent standing.                                              *)
THEOREM ReleasesAreSafe == Spec => []SafeRelease
<1>1. Init => ReleaseInv
  <2> SUFFICES ASSUME Init PROVE ReleaseInv
    OBVIOUS
  <2>1. SoundLog(<<>>)
    BY DEF SoundLog
  <2>2. \A s \in Scopes : log[s] = <<>> /\ disk.log[s] = <<>>
    BY DEF Init, Db
  <2> QED
    BY <2>1, <2>2 DEF ReleaseInv
<1>2. TypeOK /\ ReleaseInv /\ [Next]_vars => ReleaseInv'
  BY ReleaseStep
<1>3. ReleaseInv => SafeRelease
  BY DEF ReleaseInv, SoundLog, Sound, SafeRelease
<1> QED
  BY <1>1, <1>2, <1>3, TypeCorrect, PTL DEF Spec
=============================================================================
