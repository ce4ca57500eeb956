---------------------------- MODULE JournalProofs ---------------------------
(***************************************************************************)
(* Proofs about ReferenceJournal, for any number of items, passes, sealers *)
(* and epochs.  The invariants of the runs are not inductive: a roster is  *)
(* carried by a finalization before it is a seal, and what a pass read in  *)
(* one step decides what its next one may write.  IInv adds both.          *)
(***************************************************************************)
EXTENDS ReferenceJournal, TLAPS

Places ==
  {"idle", "register", "write", "complete", "commit", "revalidate", "recommit",
   "retained", "bind", "pin", "acknowledge", "use"}
Names == Items \union {NoVersion}
Pins == [kind : {"none", "exact", "legacy"}, op : Names, ver : Versions, epoch : Nat]
Rosters == SUBSET (Items \X Rows)
PassRecords ==
  [at : Places, item : Names, op : Names, gate : AnyBasis, ver : Versions,
   cur : AnyBasis, checked : Nat, row : Rows]

Types ==
  /\ epoch \in Nat \ {0}
  /\ rows \in [Items -> Rows]
  /\ seals \in [1 .. MaxEpoch -> [status : {"none", "pending", "final"}, roster : Rosters]]
  /\ pins \in [Items -> Pins]
  /\ catalog \in {"none", "bound", "ready"}
  /\ file \in {"none", "partial", "whole", "broken"}
  /\ acks \in [Items -> [pin : Pins, inc : Nat]]
  /\ gate \in Bases
  /\ target \in [inc : Nat, ev : [Items -> Versions], inst : [Items -> Versions]]
  /\ pass \in [Passes -> PassRecords]
  /\ sealer \in [Sealers -> [at : {"idle", "read"}, epoch : Nat, roster : Rosters]]
  /\ used \subseteq [item : Items, inc : Nat, ver : Versions]

RowOK(r) ==
  /\ r.at = "none" => r = NoRow
  /\ r.at = "done" <=> r.done # 0
  /\ r.done <= epoch /\ r.reg <= epoch
  /\ r.at = "pending" => r.reval = NoBasis
  /\ r.at = "done" => r.checked = r.done /\ (r.reg # r.done <=> r.reval # NoBasis)

RowInv == \A i \in Items : RowOK(rows[i])

\* A seal, or a roster on its way to one, is of a past epoch and is exact.
SealInv ==
  /\ \A e \in 1 .. MaxEpoch : seals[e].status # "none" => e < epoch
  /\ SealsFrozen
  /\ \A s \in Sealers : sealer[s].at = "read" =>
       /\ sealer[s].epoch \in 1 .. MaxEpoch /\ sealer[s].epoch < epoch
       /\ sealer[s].roster = CompletedThrough(sealer[s].epoch)

\* Work and acknowledgments exist only where a ready journal has been opened.
FileInv ==
  /\ file # "whole" => Stopped
  /\ catalog = "ready" => file \in {"whole", "none"}
  /\ \A w \in Passes : pass[w].at # "idle" => catalog = "ready"
  /\ \A i \in Items : acks[i] # NoAck => catalog = "ready"

PinInv ==
  \A i \in Items : pins[i].kind = "exact" =>
    /\ pins[i].op \in Items
    /\ rows[pins[i].op].at = "done" /\ rows[pins[i].op].ver = pins[i].ver

PassOK(p) ==
  /\ p.at # "idle" => p.item \in Items /\ p.op \in Items
  /\ p.at \in {"commit", "revalidate", "recommit"} => rows[p.op].at # "none"
  /\ p.at = "commit" => rows[p.op].reg <= p.checked /\ p.checked <= epoch
  /\ p.at = "recommit" =>
       /\ rows[p.op].reg < p.checked /\ p.checked <= epoch
       /\ p.cur # NoBasis
  /\ p.at = "pin" => /\ p.row.at = "done" /\ p.row.ver = p.ver
                     /\ p.row.inc = target.inc
  /\ p.at \in {"acknowledge", "use"} =>
       /\ pins[p.item].kind = "exact" /\ pins[p.item].ver = p.ver
       /\ rows[pins[p.item].op].inc = target.inc
  /\ p.at = "use" => acks[p.item] = [pin |-> pins[p.item], inc |-> target.inc]

PassInv == \A w \in Passes : PassOK(pass[w])

AckInv ==
  \A i \in Items : acks[i] # NoAck =>
    /\ acks[i].pin.kind = "exact"
    /\ file = "whole" => /\ pins[i] = acks[i].pin
                         /\ acks[i].inc = rows[acks[i].pin.op].inc

IInv ==
  Types /\ RowInv /\ SealInv /\ FileInv /\ PinInv /\ PassInv /\ AckInv /\ AdmittedUse

-----------------------------------------------------------------------------
(* The parameters and constants of the records. *)

LEMMA Constants ==
  /\ NoBasis \in AnyBasis /\ NoVersion \in Versions /\ NoVersion \in Names
  /\ NoRow \in Rows /\ NoPin \in Pins /\ NoAck \in [pin : Pins, inc : Nat]
  /\ NoSeal \in [status : {"none", "pending", "final"}, roster : Rosters]
  /\ Idle \in PassRecords /\ MaxEpoch \in Nat
  /\ Resting \in [at : {"idle", "read"}, epoch : Nat, roster : Rosters]
<1>1. NoBasis \in AnyBasis /\ NoVersion \in Versions /\ NoVersion \in Names
  BY DEF AnyBasis, Versions, Names
<1>2. NoRow \in Rows
  BY <1>1 DEF NoRow, Rows
<1>3. NoPin \in Pins
  BY <1>1 DEF NoPin, Pins
<1>4. NoAck \in [pin : Pins, inc : Nat]
  BY <1>3 DEF NoAck
<1>5. Idle \in PassRecords
  BY <1>1, <1>2 DEF Idle, PassRecords, Places
<1>6. MaxEpoch \in Nat
  BY JournalAssumption
<1>. QED
  BY <1>1, <1>2, <1>3, <1>4, <1>5, <1>6 DEF NoSeal, Resting, Rosters

LEMMA Updated ==
  ASSUME NEW D, NEW T, NEW g \in [D -> T], NEW x \in D, NEW v \in T
  PROVE  /\ [g EXCEPT ![x] = v] \in [D -> T]
         /\ [g EXCEPT ![x] = v][x] = v
         /\ \A y \in D : y # x => [g EXCEPT ![x] = v][y] = g[y]
OBVIOUS

LEMMA TypesInit == Init => Types
<1>. SUFFICES ASSUME Init PROVE Types
  OBVIOUS
<1>1. gate \in Sources \X Envelopes /\ gate[1] \in Versions
  BY DEF Init, Bases, Versions
<1>. QED
  BY <1>1, Constants DEF Init, Types, Bases

\* What Goto and Stop do to the passes.
LEMMA Went ==
  ASSUME pass \in [Passes -> PassRecords], NEW w \in Passes, NEW at \in Places,
         Goto(w, at)
  PROVE  /\ pass' \in [Passes -> PassRecords]
         /\ \A v \in Passes : v # w => pass'[v] = pass[v]
         /\ pass'[w].at = at /\ pass'[w].item = pass[w].item /\ pass'[w].op = pass[w].op
         /\ pass'[w].ver = pass[w].ver /\ pass'[w].cur = pass[w].cur
         /\ pass'[w].checked = pass[w].checked /\ pass'[w].row = pass[w].row
BY DEF Goto, PassRecords

LEMMA Halted ==
  ASSUME pass \in [Passes -> PassRecords], NEW w \in Passes, Stop(w)
  PROVE  /\ pass' \in [Passes -> PassRecords]
         /\ \A v \in Passes : v # w => pass'[v] = pass[v]
         /\ pass'[w].at = "idle"
BY Constants DEF Stop, Idle

\* The row a step may put in the place of another that was not completed.
Replaces(i, R) ==
  /\ rows' = [rows EXCEPT ![i] = R]
  /\ epoch' = epoch
  /\ rows[i].at # "done"
  /\ RowOK(R)
  /\ R.at = "done" => R.done = epoch
  /\ rows[i].at # "none" => R.at # "none" /\ R.reg = rows[i].reg /\ R.inc = rows[i].inc

LEMMA RegisterRow ==
  ASSUME IInv, NEW w \in Passes, Register(w)
  PROVE  rows' = rows \/ \E i \in Items, R \in Rows : Replaces(i, R)
<1>. DEFINE i == pass[w].item
            R == [NoRow EXCEPT !.at = "pending", !.inc = target.inc,
                               !.basis = pass[w].gate, !.reg = epoch]
<1>1. CASE rows' = rows
  BY <1>1
<1>2. CASE rows' # rows
  <2>1. i \in Items
    BY DEF Register, IInv, PassInv, PassOK
  <2>2. rows[i] = NoRow /\ rows' = [rows EXCEPT ![i] = R] /\ epoch' = epoch
    BY <1>2 DEF Register
  <2>3. pass[w].gate \in AnyBasis /\ target.inc \in Nat /\ epoch \in Nat \ {0}
    BY DEF IInv, Types, PassRecords
  <2>4. R \in Rows
    BY <2>3, Constants DEF NoRow, Rows
  <2>5. RowOK(R) /\ R.at = "pending" /\ rows[i].at = "none"
    BY <2>2, <2>3 DEF RowOK, NoRow
  <2>6. Replaces(i, R)
    BY <2>2, <2>5 DEF Replaces
  <2>. QED
    BY <2>1, <2>4, <2>6
<1>. QED
  BY <1>1, <1>2

\* A completion is dated by the current epoch, which is the one of its check.
LEMMA SettleRow ==
  ASSUME IInv, NEW w \in Passes, CompleteCommit(w) \/ RevalidateCommit(w)
  PROVE  rows' = rows \/ \E i \in Items, R \in Rows : Replaces(i, R)
<1>. DEFINE i == pass[w].op
<1>1. CASE rows' = rows
  BY <1>1
<1>2. CASE rows' # rows
  <2>1. PICK b \in AnyBasis :
          /\ rows[i].at = "pending" /\ rows' = Completed(w, b)
          /\ \/ pass[w].at = "commit" /\ rows[i].reg = epoch /\ b = NoBasis
             \/ pass[w].at = "recommit" /\ pass[w].checked = epoch /\ b = pass[w].cur
    <3>1. pass[w].cur \in AnyBasis
      BY DEF IInv, Types, PassRecords
    <3>2. CASE CompleteCommit(w)
      BY <1>2, <3>2, Constants DEF CompleteCommit, Settle
    <3>3. CASE RevalidateCommit(w)
      BY <1>2, <3>1, <3>3 DEF RevalidateCommit, Settle
    <3>. QED
      BY <3>2, <3>3
  <2>2. i \in Items /\ PassOK(pass[w]) /\ RowOK(rows[i]) /\ rows[i] \in Rows
    BY <2>1 DEF IInv, PassInv, PassOK, RowInv, Types
  <2>3. epoch' = epoch /\ epoch \in Nat \ {0} /\ pass[w].checked \in Nat
        /\ pass[w].ver \in Versions
    BY DEF CompleteCommit, RevalidateCommit, IInv, Types, PassRecords
  <2>. DEFINE R == [rows[i] EXCEPT !.at = "done", !.done = epoch, !.ver = pass[w].ver,
                                   !.reval = b, !.checked = pass[w].checked]
  <2>4. rows' = [rows EXCEPT ![i] = R]
    BY <2>1, <2>2 DEF Completed, IInv, Types
  <2>5. R \in Rows /\ R.at = "done" /\ R.done = epoch /\ R.reg = rows[i].reg
        /\ R.inc = rows[i].inc /\ R.reval = b /\ R.checked = pass[w].checked
    BY <2>2, <2>3 DEF Rows
  <2>6. rows[i].reg \in Nat /\ rows[i].reg <= epoch
    BY <2>2 DEF Rows, RowOK
  <2>7. RowOK(R)
    <3>1. CASE pass[w].at = "commit" /\ rows[i].reg = epoch /\ b = NoBasis
      BY <2>2, <2>3, <2>5, <2>6, <3>1 DEF PassOK, RowOK
    <3>2. CASE pass[w].at = "recommit" /\ pass[w].checked = epoch /\ b = pass[w].cur
      BY <2>2, <2>3, <2>5, <2>6, <3>2 DEF PassOK, RowOK
    <3>. QED
      BY <2>1, <3>1, <3>2
  <2>8. Replaces(i, R)
    BY <2>1, <2>3, <2>4, <2>5, <2>7 DEF Replaces
  <2>. HIDE DEF R
  <2>. QED
    BY <2>2, <2>5, <2>8
<1>. QED
  BY <1>1, <1>2

LEMMA RefuseRow ==
  ASSUME IInv, NEW i \in Items, Refuse(i)
  PROVE  \E R \in Rows : Replaces(i, R)
<1>. DEFINE R == [rows[i] EXCEPT !.at = "refused"]
<1>1. rows[i] \in Rows /\ rows[i].at = "pending" /\ RowOK(rows[i])
      /\ rows' = [rows EXCEPT ![i] = R] /\ epoch' = epoch
  BY DEF Refuse, IInv, Types, RowInv
<1>2. R \in Rows /\ R.at = "refused" /\ R.reg = rows[i].reg /\ R.inc = rows[i].inc
      /\ R.done = rows[i].done
  BY <1>1 DEF Rows
<1>3. RowOK(R)
  BY <1>1, <1>2 DEF RowOK
<1>4. Replaces(i, R)
  BY <1>1, <1>2, <1>3 DEF Replaces
<1>. QED
  BY <1>2, <1>4

\* The actions that replace the journal's tables by empty ones.
Resets == CommitFile \/ LoseFile

LEMMA RowsStep ==
  ASSUME IInv, [Next]_vars, ~ Resets
  PROVE  /\ epoch' \in Nat \ {0} /\ epoch <= epoch'
         /\ rows' = rows \/ \E i \in Items, R \in Rows : Replaces(i, R)
<1>0. epoch \in Nat \ {0}
  BY DEF IInv, Types
<1>. DEFINE Goal == /\ epoch' \in Nat \ {0} /\ epoch <= epoch'
                    /\ rows' = rows \/ \E i \in Items, R \in Rows : Replaces(i, R)
<1>1. ASSUME NEW w \in Passes, Register(w) PROVE Goal
  <2>1. epoch' = epoch
    BY <1>1 DEF Register
  <2>. QED
    BY <1>0, <1>1, <2>1, RegisterRow
<1>2. ASSUME NEW w \in Passes, CompleteCommit(w) \/ RevalidateCommit(w) PROVE Goal
  <2>1. epoch' = epoch
    BY <1>2 DEF CompleteCommit, RevalidateCommit
  <2>. QED
    BY <1>0, <1>2, <2>1, SettleRow
<1>3. ASSUME NEW i \in Items, Refuse(i) PROVE Goal
  <2>1. epoch' = epoch
    BY <1>3 DEF Refuse
  <2>. QED
    BY <1>0, <1>3, <2>1, RefuseRow
<1>4. CASE Cut
  BY <1>0, <1>4 DEF Cut
<1>5. CASE \/ RegisterHomeJournal \/ CreateFile \/ AbandonFile \/ MarkReady
           \/ ReplaceTarget \/ \E g \in Bases : EditGate(g)
           \/ UNCHANGED vars
  BY <1>0, <1>5 DEF RegisterHomeJournal, CreateFile, AbandonFile, MarkReady,
     ReplaceTarget, EditGate, vars, journal
<1>6. ASSUME NEW w \in Passes,
             \/ \E i \in Items : Start(w, i)
             \/ Write(w) \/ CompleteRead(w) \/ RevalidateRead(w) \/ Retained(w)
             \/ BindRead(w) \/ BindCommit(w) \/ Acknowledge(w) \/ Use(w) \/ Crash(w)
      PROVE Goal
  <2>1. epoch' = epoch /\ rows' = rows
    <3>1. CASE (\E i \in Items : Start(w, i)) \/ Write(w)
      BY <3>1 DEF Start, Write, journal
    <3>2. CASE CompleteRead(w) \/ RevalidateRead(w) \/ BindRead(w)
      BY <3>2 DEF CompleteRead, RevalidateRead, BindRead, journal
    <3>3. CASE Retained(w) \/ BindCommit(w) \/ Acknowledge(w) \/ Use(w) \/ Crash(w)
      BY <3>3 DEF Retained, BindCommit, Acknowledge, Use, Crash, journal
    <3>. QED
      BY <1>6, <3>1, <3>2, <3>3
  <2>. QED
    BY <1>0, <2>1
<1>7. CASE \E s \in Sealers : \/ \E e \in 1 .. MaxEpoch : FinalizeRead(s, e)
                              \/ FinalizeCommit(s) \/ SealerCrash(s)
  BY <1>0, <1>7 DEF FinalizeRead, FinalizeCommit, SealerCrash, journal
<1>. QED
  BY <1>1, <1>2, <1>3, <1>4, <1>5, <1>6, <1>7 DEF Next, Resets

\* Replacing a row keeps the table and dates what it completes by this epoch.
LEMMA ReplaceFacts ==
  ASSUME IInv, NEW i \in Items, NEW R \in Rows, Replaces(i, R)
  PROVE  /\ rows' \in [Items -> Rows] /\ epoch' = epoch
         /\ rows'[i] = R /\ \A j \in Items : j # i => rows'[j] = rows[j]
BY DEF IInv, Types, Replaces

LEMMA RowInvStep ==
  ASSUME IInv, [Next]_vars
  PROVE  RowInv' /\ rows' \in [Items -> Rows] /\ epoch' \in Nat \ {0}
<1>1. CASE Resets
  BY <1>1, Constants
     DEF Resets, CommitFile, LoseFile, EmptyJournal, RowInv, RowOK, NoRow
<1>2. CASE ~ Resets
  <2>1. CASE rows' = rows
    <3>1. ASSUME NEW j \in Items PROVE RowOK(rows[j])'
      <4>1. RowOK(rows[j]) /\ rows[j] \in Rows /\ epoch \in Nat /\ epoch' \in Nat
            /\ epoch <= epoch'
        BY <1>2, RowsStep DEF IInv, RowInv, Types
      <4>. QED
        BY <2>1, <4>1 DEF RowOK, Rows
    <3>. QED
      BY <1>2, <2>1, <3>1, RowsStep DEF RowInv, IInv, Types
  <2>2. ASSUME NEW i \in Items, NEW R \in Rows, Replaces(i, R)
        PROVE  RowInv' /\ rows' \in [Items -> Rows]
    <3>1. ASSUME NEW j \in Items PROVE RowOK(rows[j])'
      <4>1. RowOK(R) /\ RowOK(rows[j]) /\ epoch' = epoch
            /\ (rows'[j] = R \/ rows'[j] = rows[j])
        BY <2>2, ReplaceFacts DEF Replaces, IInv, RowInv
      <4>. QED
        BY <4>1 DEF RowOK
    <3>. QED
      BY <2>2, <3>1, ReplaceFacts DEF RowInv
  <2>. QED
    BY <1>2, <2>1, <2>2, RowsStep
<1>. QED
  BY <1>1, <1>2

\* Completed rows never change, and no row is completed in a past epoch: what
\* has completed through a past epoch is settled.
LEMMA RosterSettled ==
  ASSUME IInv, [Next]_vars, ~ Resets, NEW e \in Nat, e < epoch
  PROVE  CompletedThrough(e)' = CompletedThrough(e)
<1>1. CASE rows' = rows
  BY <1>1 DEF CompletedThrough
<1>2. ASSUME NEW i \in Items, NEW R \in Rows, Replaces(i, R)
      PROVE  CompletedThrough(e)' = CompletedThrough(e)
  <2>1. epoch \in Nat /\ R.done \in Nat
    BY DEF IInv, Types, Rows
  <2>2. ~ (R.at = "done" /\ R.done <= e) /\ rows[i].at # "done"
    BY <1>2, <2>1 DEF Replaces
  <2>3. \A j \in Items :
          /\ rows'[j].at = "done" /\ rows'[j].done <= e
             <=> rows[j].at = "done" /\ rows[j].done <= e
          /\ rows[j].at = "done" => rows'[j] = rows[j]
    BY <1>2, <2>2, ReplaceFacts
  <2>. QED
    BY <2>3 DEF CompletedThrough
<1>. QED
  BY <1>1, <1>2, RowsStep

SealTypes ==
  /\ seals \in [1 .. MaxEpoch -> [status : {"none", "pending", "final"}, roster : Rosters]]
  /\ sealer \in [Sealers -> [at : {"idle", "read"}, epoch : Nat, roster : Rosters]]

LEMMA RosterType == ASSUME Types, NEW e \in Nat PROVE CompletedThrough(e) \in Rosters
BY DEF Types, CompletedThrough, Rosters

\* The actions that touch neither seals nor finalizations.
Sealing == Cut \/ \E s \in Sealers : \/ \E e \in 1 .. MaxEpoch : FinalizeRead(s, e)
                                     \/ FinalizeCommit(s) \/ SealerCrash(s)

LEMMA NoSealing ==
  ASSUME [Next]_vars, ~ Resets, ~ Sealing
  PROVE  seals' = seals /\ sealer' = sealer
<1>1. CASE \/ RegisterHomeJournal \/ CreateFile \/ AbandonFile \/ MarkReady
           \/ ReplaceTarget \/ (\E g \in Bases : EditGate(g))
           \/ (\E i \in Items : Refuse(i)) \/ UNCHANGED vars
  BY <1>1 DEF RegisterHomeJournal, CreateFile, AbandonFile, MarkReady,
     ReplaceTarget, EditGate, Refuse, vars, journal
<1>2. ASSUME NEW w \in Passes,
             (\E i \in Items : Start(w, i)) \/ Register(w) \/ Write(w)
      PROVE  seals' = seals /\ sealer' = sealer
  BY <1>2 DEF Start, Register, Write, journal
<1>3. ASSUME NEW w \in Passes,
             CompleteRead(w) \/ RevalidateRead(w) \/ BindRead(w)
      PROVE  seals' = seals /\ sealer' = sealer
  BY <1>3 DEF CompleteRead, RevalidateRead, BindRead, journal
<1>4. ASSUME NEW w \in Passes,
             \/ CompleteCommit(w) \/ RevalidateCommit(w)
             \/ Retained(w) \/ BindCommit(w) \/ Acknowledge(w) \/ Use(w) \/ Crash(w)
      PROVE  seals' = seals /\ sealer' = sealer
  BY <1>4 DEF CompleteCommit, RevalidateCommit, Retained, BindCommit, Acknowledge,
     Use, Crash, journal
<1>. QED
  BY <1>1, <1>2, <1>3, <1>4 DEF Next, Resets, Sealing

LEMMA SealStep == ASSUME IInv, [Next]_vars PROVE SealInv' /\ SealTypes'
<1>0. /\ SealTypes /\ SealInv /\ SealsFrozen /\ MaxEpoch \in Nat
      /\ epoch \in Nat \ {0} /\ Types
  BY Constants DEF IInv, Types, SealTypes, SealInv
<1>1. CASE Resets
  <2>1. Stopped /\ sealer' = sealer
    BY <1>1 DEF Resets, CommitFile, LoseFile, IInv, FileInv
  <2>2. \A s \in Sealers : sealer'[s].at = "idle"
    BY <2>1 DEF Stopped, Resting
  <2>3. seals' = [e \in 1 .. MaxEpoch |-> NoSeal]
    BY <1>1 DEF Resets, CommitFile, LoseFile, EmptyJournal
  <2>4. \A e \in 1 .. MaxEpoch : seals'[e].status = "none"
    BY <2>3 DEF NoSeal
  <2>. QED
    BY <1>0, <2>1, <2>2, <2>3, <2>4, Constants DEF SealInv, SealsFrozen, SealTypes
<1>2. ASSUME ~ Resets PROVE SealInv' /\ SealTypes'
  <2>0. \A e \in Nat : e < epoch => CompletedThrough(e)' = CompletedThrough(e)
    BY <1>2, RosterSettled
  <2>00. epoch' \in Nat \ {0} /\ epoch <= epoch'
    BY <1>2, RowsStep
  <2>1. CASE seals' = seals /\ sealer' = sealer
    BY <1>0, <2>0, <2>00, <2>1 DEF SealInv, SealsFrozen, SealTypes
  <2>2. CASE Cut
    <3>1. epoch \in 1 .. MaxEpoch /\ epoch' = epoch + 1 /\ sealer' = sealer
          /\ seals' = [seals EXCEPT ![epoch].status = "pending"]
      BY <1>0, <2>2 DEF Cut
    <3>2. SealTypes'
      BY <1>0, <3>1 DEF SealTypes
    <3>3. /\ seals'[epoch].status = "pending"
          /\ \A e \in 1 .. MaxEpoch : e # epoch => seals'[e] = seals[e]
      BY <1>0, <3>1 DEF SealTypes
    <3>. QED
      BY <1>0, <2>0, <3>1, <3>2, <3>3 DEF SealInv, SealsFrozen, SealTypes
  <2>3. ASSUME NEW s \in Sealers, NEW e \in 1 .. MaxEpoch, FinalizeRead(s, e)
        PROVE SealInv' /\ SealTypes'
    <3>1. e < epoch /\ e \in Nat /\ seals' = seals
          /\ sealer' = [sealer EXCEPT ![s] =
                [at |-> "read", epoch |-> e, roster |-> CompletedThrough(e)]]
      BY <1>0, <2>3 DEF FinalizeRead, journal
    <3>2. CompletedThrough(e) \in Rosters
      BY <1>0, <3>1, RosterType
    <3>3. SealTypes'
      BY <1>0, <3>1, <3>2 DEF SealTypes
    <3>4. /\ sealer'[s].epoch = e /\ sealer'[s].roster = CompletedThrough(e)
          /\ \A t \in Sealers : t # s => sealer'[t] = sealer[t]
      BY <1>0, <3>1 DEF SealTypes
    <3>. QED
      BY <1>0, <2>0, <2>00, <3>1, <3>3, <3>4 DEF SealInv, SealsFrozen, SealTypes
  <2>4. ASSUME NEW s \in Sealers, FinalizeCommit(s)
        PROVE SealInv' /\ SealTypes'
    <3>. DEFINE f == sealer[s]
    <3>1. f.epoch \in 1 .. MaxEpoch /\ f.epoch < epoch
          /\ f.roster = CompletedThrough(f.epoch) /\ f.roster \in Rosters
      BY <1>0, <2>4 DEF FinalizeCommit, SealInv, SealTypes
    <3>2. sealer' = [sealer EXCEPT ![s] = Resting]
      BY <2>4 DEF FinalizeCommit
    <3>3. /\ sealer'[s].at = "idle" /\ \A t \in Sealers : t # s => sealer'[t] = sealer[t]
          /\ sealer' \in [Sealers -> [at : {"idle", "read"}, epoch : Nat, roster : Rosters]]
      BY <1>0, <3>2, Constants DEF SealTypes, Resting
    <3>4. \/ seals' = seals
          \/ seals' = [seals EXCEPT ![f.epoch] = [status |-> "final", roster |-> f.roster]]
      BY <2>4 DEF FinalizeCommit
    <3>. DEFINE S == [status |-> "final", roster |-> f.roster]
    <3>5. S \in [status : {"none", "pending", "final"}, roster : Rosters]
          /\ S.roster = f.roster
      BY <3>1
    <3>6. seals' = seals \/ seals' = [seals EXCEPT ![f.epoch] = S]
      BY <3>4
    <3>. HIDE DEF S, f
    <3>7. /\ SealTypes'
          /\ \A e \in 1 .. MaxEpoch : seals'[e] = seals[e] \/ (e = f.epoch /\ seals'[e] = S)
      <4>. DEFINE T == [status : {"none", "pending", "final"}, roster : Rosters]
                  D == 1 .. MaxEpoch
      <4>1. seals \in [D -> T] /\ f.epoch \in D /\ S \in T
        BY <1>0, <3>1, <3>5 DEF SealTypes
      <4>. HIDE DEF T, D
      <4>2. /\ seals' \in [D -> T]
            /\ \A e \in D : seals'[e] = seals[e] \/ (e = f.epoch /\ seals'[e] = S)
        BY <3>6, <4>1, Updated
      <4>. QED
        BY <3>3, <4>2 DEF SealTypes, T, D
    <3>8. \A e \in 1 .. MaxEpoch :
            /\ seals'[e].status # "none" => e < epoch'
            /\ seals'[e].status = "final" => seals'[e].roster = CompletedThrough(e)'
      BY <1>0, <2>0, <2>00, <3>1, <3>5, <3>7 DEF SealInv, SealsFrozen
    <3>9. (\A t \in Sealers : sealer[t].at = "read" =>
             /\ sealer[t].epoch \in 1 .. MaxEpoch /\ sealer[t].epoch < epoch
             /\ sealer[t].roster = CompletedThrough(sealer[t].epoch))'
      BY <1>0, <2>0, <2>00, <3>3 DEF SealInv, SealTypes
    <3>10. SealsFrozen'
      BY <3>8 DEF SealsFrozen
    <3>. QED
      BY <3>7, <3>8, <3>9, <3>10 DEF SealInv
  <2>5. ASSUME NEW s \in Sealers, SealerCrash(s)
        PROVE SealInv' /\ SealTypes'
    <3>1. sealer' = [sealer EXCEPT ![s] = Resting] /\ seals' = seals
      BY <2>5 DEF SealerCrash, journal
    <3>2. /\ sealer'[s].at = "idle" /\ \A t \in Sealers : t # s => sealer'[t] = sealer[t]
          /\ sealer' \in [Sealers -> [at : {"idle", "read"}, epoch : Nat, roster : Rosters]]
      BY <1>0, <3>1, Constants DEF SealTypes, Resting
    <3>. QED
      BY <1>0, <2>0, <2>00, <3>1, <3>2 DEF SealInv, SealsFrozen, SealTypes
  <2>. QED
    BY <1>2, <2>1, <2>2, <2>3, <2>4, <2>5, NoSealing DEF Sealing
<1>. QED
  BY <1>1, <1>2

\* What a step leaves of the rows, the pins and the acknowledgments.
LEMMA RowsKept ==
  ASSUME IInv, [Next]_vars, ~ Resets, NEW i \in Items
  PROVE  /\ rows[i].at # "none" =>
              rows'[i].at # "none" /\ rows'[i].reg = rows[i].reg /\ rows'[i].inc = rows[i].inc
         /\ rows[i].at = "done" => rows'[i] = rows[i]
<1>1. CASE rows' = rows
  BY <1>1
<1>2. ASSUME NEW j \in Items, NEW R \in Rows, Replaces(j, R)
      PROVE  /\ rows[i].at # "none" =>
                  /\ rows'[i].at # "none" /\ rows'[i].reg = rows[i].reg
                  /\ rows'[i].inc = rows[i].inc
             /\ rows[i].at = "done" => rows'[i] = rows[i]
  BY <1>2, ReplaceFacts DEF Replaces
<1>. QED
  BY <1>1, <1>2, RowsStep

Binding == \E w \in Passes : Retained(w) \/ BindCommit(w)

LEMMA NoBinding ==
  ASSUME [Next]_vars, ~ Resets, ~ Binding
  PROVE  pins' = pins
<1>1. CASE \/ RegisterHomeJournal \/ CreateFile \/ AbandonFile \/ MarkReady
           \/ ReplaceTarget \/ (\E g \in Bases : EditGate(g))
           \/ (\E i \in Items : Refuse(i)) \/ UNCHANGED vars \/ Cut
  BY <1>1 DEF RegisterHomeJournal, CreateFile, AbandonFile, MarkReady,
     ReplaceTarget, EditGate, Refuse, Cut, vars, journal
<1>2. ASSUME NEW w \in Passes,
             (\E i \in Items : Start(w, i)) \/ Register(w) \/ Write(w)
      PROVE  pins' = pins
  BY <1>2 DEF Start, Register, Write, journal
<1>3. ASSUME NEW w \in Passes,
             CompleteRead(w) \/ RevalidateRead(w) \/ BindRead(w)
      PROVE  pins' = pins
  BY <1>3 DEF CompleteRead, RevalidateRead, BindRead, journal
<1>4. ASSUME NEW w \in Passes,
             \/ CompleteCommit(w) \/ RevalidateCommit(w)
             \/ Acknowledge(w) \/ Use(w) \/ Crash(w)
      PROVE  pins' = pins
  BY <1>4 DEF CompleteCommit, RevalidateCommit, Acknowledge, Use, Crash, journal
<1>5. ASSUME NEW s \in Sealers,
             \/ \E e \in 1 .. MaxEpoch : FinalizeRead(s, e)
             \/ FinalizeCommit(s) \/ SealerCrash(s)
      PROVE  pins' = pins
  BY <1>5 DEF FinalizeRead, FinalizeCommit, SealerCrash, journal
<1>. QED
  BY <1>1, <1>2, <1>3, <1>4, <1>5 DEF Next, Resets, Binding

\* A new pin is exact only for a completed operation and its version.
NewPin(P) ==
  P.kind = "exact" => P.op \in Items /\ rows[P.op].at = "done" /\ rows[P.op].ver = P.ver

LEMMA PinsStep ==
  ASSUME IInv, [Next]_vars, ~ Resets
  PROVE  \/ pins' = pins
         \/ \E i \in Items, P \in Pins :
              pins[i] = NoPin /\ pins' = [pins EXCEPT ![i] = P] /\ NewPin(P)
<1>1. ASSUME NEW w \in Passes, Retained(w), pins' # pins
      PROVE  \E i \in Items, P \in Pins :
               pins[i] = NoPin /\ pins' = [pins EXCEPT ![i] = P] /\ NewPin(P)
  <2>. DEFINE i == pass[w].item
              P == [kind |-> "legacy", op |-> NoVersion, ver |-> pass[w].ver, epoch |-> epoch]
  <2>1. i \in Items /\ pass[w].ver \in Versions /\ epoch \in Nat
    BY <1>1 DEF Retained, IInv, PassInv, PassOK, Types, PassRecords
  <2>2. pins[i] = NoPin /\ pins' = [pins EXCEPT ![i] = P]
    BY <1>1 DEF Retained
  <2>3. P \in Pins /\ NewPin(P)
    BY <2>1, Constants DEF Pins, NewPin
  <2>. QED
    BY <2>1, <2>2, <2>3
<1>2. ASSUME NEW w \in Passes, BindCommit(w), pins' # pins
      PROVE  \E i \in Items, P \in Pins :
               pins[i] = NoPin /\ pins' = [pins EXCEPT ![i] = P] /\ NewPin(P)
  <2>. DEFINE i == pass[w].item
              P == [kind |-> "exact", op |-> pass[w].op, ver |-> pass[w].ver, epoch |-> epoch]
  <2>1. pass[w].at = "pin" /\ PassOK(pass[w])
    BY <1>2 DEF BindCommit, IInv, PassInv
  <2>2. i \in Items /\ pass[w].op \in Items /\ pass[w].ver \in Versions /\ epoch \in Nat
        /\ pass[w].op \in Names
    BY <2>1 DEF PassOK, IInv, Types, PassRecords, Names
  <2>3. pins[i] = NoPin /\ pins' = [pins EXCEPT ![i] = P] /\ rows[pass[w].op] = pass[w].row
    BY <1>2 DEF BindCommit, Pin
  <2>4. P \in Pins
    BY <2>2 DEF Pins
  <2>5. NewPin(P)
    BY <2>1, <2>2, <2>3 DEF NewPin, PassOK
  <2>. QED
    BY <2>2, <2>3, <2>4, <2>5
<1>. QED
  BY <1>1, <1>2, NoBinding DEF Binding

LEMMA PinsKept ==
  ASSUME IInv, [Next]_vars, ~ Resets
  PROVE  /\ pins' \in [Items -> Pins]
         /\ \A i \in Items : pins[i].kind = "exact" => pins'[i] = pins[i]
         /\ PinInv'
<1>0. pins \in [Items -> Pins] /\ PinInv /\ NoPin.kind = "none"
  BY DEF IInv, Types, NoPin
<1>1. CASE pins' = pins
  BY <1>0, <1>1, RowsKept DEF PinInv
<1>2. ASSUME NEW i \in Items, NEW P \in Pins,
             pins[i] = NoPin, pins' = [pins EXCEPT ![i] = P], NewPin(P)
      PROVE  /\ pins' \in [Items -> Pins]
             /\ \A j \in Items : pins[j].kind = "exact" => pins'[j] = pins[j]
             /\ PinInv'
  <2>1. /\ pins' \in [Items -> Pins] /\ pins'[i] = P
        /\ \A j \in Items : j # i => pins'[j] = pins[j]
    BY <1>0, <1>2
  <2>2. \A j \in Items : NewPin(pins'[j])
    BY <1>0, <1>2, <2>1 DEF NewPin, PinInv
  <2>3. PinInv'
    BY <2>2, RowsKept DEF NewPin, PinInv
  <2>. QED
    BY <1>0, <1>2, <2>1, <2>3
<1>. QED
  BY <1>1, <1>2, PinsStep

\* The acknowledgment a pass asks for.
AckOf(i) == [pin |-> pins[i], inc |-> rows[pins[i].op].inc]

LEMMA NoAcknowledging ==
  ASSUME [Next]_vars, ~ \E w \in Passes : Acknowledge(w)
  PROVE  acks' = acks
<1>1. CASE \/ RegisterHomeJournal \/ CreateFile \/ AbandonFile \/ MarkReady
           \/ CommitFile \/ LoseFile
           \/ ReplaceTarget \/ (\E g \in Bases : EditGate(g))
           \/ (\E i \in Items : Refuse(i)) \/ UNCHANGED vars \/ Cut
  BY <1>1 DEF RegisterHomeJournal, CreateFile, AbandonFile, MarkReady, CommitFile,
     LoseFile, ReplaceTarget, EditGate, Refuse, Cut, vars
<1>2. ASSUME NEW w \in Passes,
             \/ \E i \in Items : Start(w, i)
             \/ Register(w) \/ Write(w) \/ CompleteRead(w) \/ RevalidateRead(w) \/ BindRead(w)
      PROVE  acks' = acks
  BY <1>2 DEF Start, Register, Write, CompleteRead, RevalidateRead, BindRead
<1>3. ASSUME NEW w \in Passes,
             \/ CompleteCommit(w) \/ RevalidateCommit(w) \/ Retained(w)
             \/ BindCommit(w) \/ Use(w) \/ Crash(w)
      PROVE  acks' = acks
  BY <1>3 DEF CompleteCommit, RevalidateCommit, Retained, BindCommit, Use, Crash
<1>4. ASSUME NEW s \in Sealers,
             \/ \E e \in 1 .. MaxEpoch : FinalizeRead(s, e)
             \/ FinalizeCommit(s) \/ SealerCrash(s)
      PROVE  acks' = acks
  BY <1>4 DEF FinalizeRead, FinalizeCommit, SealerCrash
<1>. QED
  BY <1>1, <1>2, <1>3, <1>4 DEF Next

LEMMA AcksStep ==
  ASSUME IInv, [Next]_vars
  PROVE  /\ acks' \in [Items -> [pin : Pins, inc : Nat]]
         /\ \A i \in Items : acks[i] # NoAck => acks'[i] = acks[i]
         /\ \A i \in Items : acks'[i] # acks[i] =>
              /\ acks'[i] = AckOf(i) /\ pins[i].kind = "exact"
              /\ catalog' = "ready" /\ pins' = pins /\ rows' = rows /\ file' = file
<1>0. acks \in [Items -> [pin : Pins, inc : Nat]]
  BY DEF IInv, Types
<1>1. ASSUME NEW w \in Passes, Acknowledge(w)
      PROVE  /\ acks' \in [Items -> [pin : Pins, inc : Nat]]
             /\ \A i \in Items : acks[i] # NoAck => acks'[i] = acks[i]
             /\ \A i \in Items : acks'[i] # acks[i] =>
                  /\ acks'[i] = AckOf(i) /\ pins[i].kind = "exact"
                  /\ catalog' = "ready" /\ pins' = pins /\ rows' = rows /\ file' = file
  <2>. DEFINE i == pass[w].item
  <2>1. pass[w].at = "acknowledge" /\ PassOK(pass[w]) /\ catalog = "ready"
    BY <1>1 DEF Acknowledge, IInv, PassInv, FileInv
  <2>2. i \in Items /\ pins[i].kind = "exact"
    BY <2>1 DEF PassOK
  <2>3. pins[i].op \in Items /\ pins[i] \in Pins
    BY <2>2 DEF IInv, PinInv, Types
  <2>4. AckOf(i) \in [pin : Pins, inc : Nat]
    BY <2>3 DEF AckOf, IInv, Types, Rows
  <2>5. /\ catalog' = "ready" /\ pins' = pins /\ rows' = rows /\ file' = file
        /\ \/ acks' = acks
           \/ acks[i] \in {NoAck, AckOf(i)} /\ acks' = [acks EXCEPT ![i] = AckOf(i)]
    BY <1>1, <2>1 DEF Acknowledge, AckOf, journal, storage
  <2>6. /\ acks' \in [Items -> [pin : Pins, inc : Nat]]
        /\ \A j \in Items : j # i => acks'[j] = acks[j]
        /\ acks'[i] = acks[i] \/ (acks[i] \in {NoAck, AckOf(i)} /\ acks'[i] = AckOf(i))
    BY <1>0, <2>2, <2>4, <2>5
  <2>. QED
    BY <2>2, <2>5, <2>6
<1>. QED
  BY <1>0, <1>1, NoAcknowledging

\* Only the replacement of a stopped Home's store changes its incarnation.
LEMMA TargetStep ==
  ASSUME IInv, [Next]_vars
  PROVE  /\ target' \in [inc : Nat, ev : [Items -> Versions], inst : [Items -> Versions]]
         /\ ~ ReplaceTarget => target'.inc = target.inc
         /\ gate' \in Bases
<1>0. target \in [inc : Nat, ev : [Items -> Versions], inst : [Items -> Versions]]
      /\ gate \in Bases
  BY DEF IInv, Types
<1>1. CASE ReplaceTarget
  BY <1>0, <1>1, Constants DEF ReplaceTarget, project
<1>2. ASSUME NEW g \in Bases, EditGate(g)
      PROVE  target' = target /\ gate' \in Bases
  BY <1>2 DEF EditGate
<1>3. ASSUME NEW w \in Passes, Write(w) \/ Use(w)
      PROVE  /\ target' \in [inc : Nat, ev : [Items -> Versions], inst : [Items -> Versions]]
             /\ target'.inc = target.inc /\ gate' \in Bases
  <2>1. pass[w].item \in Items /\ pass[w].ver \in Versions
    BY <1>3 DEF Write, Use, IInv, PassInv, PassOK, Types, PassRecords
  <2>2. gate' = gate
    BY <1>3 DEF Write, Use, project
  <2>3. \/ target' = target
        \/ target' = [target EXCEPT !.ev[pass[w].item] = pass[w].ver]
        \/ target' = [target EXCEPT !.inst[pass[w].item] = pass[w].ver]
    BY <1>3 DEF Write, Use
  <2>. QED
    BY <1>0, <2>1, <2>2, <2>3
<1>4. CASE \/ RegisterHomeJournal \/ CreateFile \/ AbandonFile \/ MarkReady
           \/ CommitFile \/ LoseFile
           \/ (\E i \in Items : Refuse(i)) \/ UNCHANGED vars \/ Cut
  BY <1>0, <1>4 DEF RegisterHomeJournal, CreateFile, AbandonFile, MarkReady, CommitFile,
     LoseFile, Refuse, Cut, vars, project
<1>5. ASSUME NEW w \in Passes,
             \/ \E i \in Items : Start(w, i)
             \/ Register(w) \/ CompleteRead(w) \/ RevalidateRead(w) \/ BindRead(w)
      PROVE  target' = target /\ gate' = gate
  BY <1>5 DEF Start, Register, CompleteRead, RevalidateRead, BindRead, project
<1>6. ASSUME NEW w \in Passes,
             \/ CompleteCommit(w) \/ RevalidateCommit(w) \/ Retained(w)
             \/ BindCommit(w) \/ Acknowledge(w) \/ Crash(w)
      PROVE  target' = target /\ gate' = gate
  BY <1>6 DEF CompleteCommit, RevalidateCommit, Retained, BindCommit, Acknowledge, Crash,
     project
<1>7. ASSUME NEW s \in Sealers,
             \/ \E e \in 1 .. MaxEpoch : FinalizeRead(s, e)
             \/ FinalizeCommit(s) \/ SealerCrash(s)
      PROVE  target' = target /\ gate' = gate
  BY <1>7 DEF FinalizeRead, FinalizeCommit, SealerCrash, project
<1>. QED
  BY <1>0, <1>1, <1>2, <1>3, <1>4, <1>5, <1>6, <1>7 DEF Next

\* What a pass relies on survives the steps of everyone else.
LEMMA PassKept ==
  ASSUME IInv, [Next]_vars, ~ Resets, ~ ReplaceTarget, NEW p \in PassRecords, PassOK(p)
  PROVE  PassOK(p)'
<1>1. /\ epoch' \in Nat /\ epoch \in Nat /\ epoch <= epoch' /\ target'.inc = target.inc
      /\ p.checked \in Nat
  BY RowsStep, TargetStep DEF IInv, Types, PassRecords
<1>2. CASE p.at = "idle"
  BY <1>2 DEF PassOK
<1>3. CASE p.at \in {"commit", "revalidate", "recommit"}
  <2>1. p.op \in Items /\ rows[p.op].at # "none"
    BY <1>3 DEF PassOK
  <2>2. rows'[p.op].at # "none" /\ rows'[p.op].reg = rows[p.op].reg
    BY <2>1, RowsKept
  <2>. QED
    BY <1>1, <1>3, <2>2 DEF PassOK
<1>4. CASE p.at \in {"acknowledge", "use"}
  <2>1. p.item \in Items /\ pins[p.item].kind = "exact"
    BY <1>4 DEF PassOK
  <2>2. pins[p.item].op \in Items /\ rows[pins[p.item].op].at = "done"
        /\ pins'[p.item] = pins[p.item]
    BY <2>1, PinsKept DEF IInv, PinInv
  <2>3. rows'[pins[p.item].op] = rows[pins[p.item].op]
    BY <2>2, RowsKept
  <2>4. p.at = "use" => acks'[p.item] = acks[p.item]
    <3>. SUFFICES ASSUME p.at = "use" PROVE acks'[p.item] = acks[p.item]
      OBVIOUS
    <3>1. acks[p.item].pin = pins[p.item] /\ NoAck.pin.kind = "none"
      BY DEF PassOK, NoAck, NoPin
    <3>. QED
      BY <2>1, <3>1, AcksStep
  <2>. QED
    BY <1>1, <1>4, <2>1, <2>2, <2>3, <2>4 DEF PassOK
<1>5. CASE p.at \in {"register", "write", "complete", "retained", "bind", "pin"}
  BY <1>1, <1>5 DEF PassOK
<1>. QED
  BY <1>2, <1>3, <1>4, <1>5 DEF PassRecords, Places

LEMMA MovedPass ==
  ASSUME IInv, [Next]_vars, ~ Resets, ~ ReplaceTarget, NEW w \in Passes,
         NEW q \in PassRecords, pass' = [pass EXCEPT ![w] = q], PassOK(q)'
  PROVE  PassInv' /\ pass' \in [Passes -> PassRecords]
<1>1. pass \in [Passes -> PassRecords]
  BY DEF IInv, Types
<1>2. /\ pass' \in [Passes -> PassRecords] /\ pass'[w] = q
      /\ \A v \in Passes : v # w => pass'[v] = pass[v]
  BY <1>1
<1>3. ASSUME NEW v \in Passes PROVE PassOK(pass[v])'
  <2>1. CASE v = w
    BY <1>2, <2>1 DEF PassOK
  <2>2. CASE v # w
    <3>1. pass[v] \in PassRecords /\ PassOK(pass[v]) /\ pass'[v] = pass[v]
      BY <1>1, <1>2, <2>2 DEF IInv, PassInv
    <3>2. PICK p \in PassRecords : p = pass[v] /\ p = pass'[v]
      BY <3>1
    <3>3. PassOK(p)'
      BY <3>1, <3>2, PassKept
    <3>. QED
      BY <3>2, <3>3 DEF PassOK
  <2>. QED
    BY <2>1, <2>2
<1>. QED
  BY <1>2, <1>3 DEF PassInv

\* A pass that stops relies on nothing.
LEMMA StoppedPass ==
  ASSUME IInv, [Next]_vars, ~ Resets, ~ ReplaceTarget, NEW w \in Passes, Stop(w)
  PROVE  PassInv' /\ pass' \in [Passes -> PassRecords]
<1>1. PassOK(Idle)'
  BY DEF PassOK, Idle
<1>. QED
  BY <1>1, Constants, MovedPass DEF Stop

\* Going on at a place where only the item and the operation matter.
LEMMA WentPass ==
  ASSUME IInv, [Next]_vars, ~ Resets, ~ ReplaceTarget, NEW w \in Passes,
         NEW at \in {"write", "complete", "bind"}, Goto(w, at), pass[w].at # "idle"
  PROVE  PassInv' /\ pass' \in [Passes -> PassRecords]
<1>. DEFINE q == [pass[w] EXCEPT !.at = at]
<1>1. pass[w] \in PassRecords /\ PassOK(pass[w]) /\ pass \in [Passes -> PassRecords]
  BY DEF IInv, Types, PassInv
<1>2. PICK c \in PassRecords :
        c = q /\ c.at = at /\ c.item = pass[w].item /\ c.op = pass[w].op
  <2>1. q \in PassRecords /\ q.at = at /\ q.item = pass[w].item /\ q.op = pass[w].op
    BY <1>1 DEF PassRecords, Places
  <2>. HIDE DEF q
  <2>. QED
    BY <2>1
<1>3. pass' = [pass EXCEPT ![w] = c]
  BY <1>1, <1>2 DEF Goto
<1>4. PassOK(c)'
  BY <1>1, <1>2 DEF PassOK
<1>. QED
  BY <1>2, <1>3, <1>4, MovedPass

LEMMA ReadStep ==
  ASSUME IInv, [Next]_vars, ~ Resets, ~ ReplaceTarget, NEW w \in Passes,
         CompleteRead(w) \/ RevalidateRead(w) \/ BindRead(w)
  PROVE  PassInv' /\ pass' \in [Passes -> PassRecords]
<1>. DEFINE p == pass[w]  r == rows[p.op]
<1>0. /\ p \in PassRecords /\ p.op \in Items /\ p.item \in Items
      /\ r \in Rows /\ RowOK(r) /\ epoch \in Nat \ {0} /\ gate \in Bases
      /\ target \in [inc : Nat, ev : [Items -> Versions], inst : [Items -> Versions]]
      /\ pass \in [Passes -> PassRecords]
  BY DEF CompleteRead, RevalidateRead, BindRead, IInv, Types, PassInv, PassOK, RowInv
<1>1. rows' = rows /\ target' = target /\ epoch' = epoch
  BY DEF CompleteRead, RevalidateRead, BindRead, journal
<1>2. CASE CompleteRead(w)
  <2>1. CASE Stop(w)
    BY <2>1, StoppedPass
  <2>2. CASE ~ Stop(w)
    <3>. DEFINE v == target.ev[p.op]
                at == IF r.at = "done" THEN "bind" ELSE "commit"
                q == [p EXCEPT !.at = at, !.ver = v, !.checked = epoch]
    <3>1. Evidence(p.op) /\ <<v, p.gate[2]>> = r.basis
          /\ pass' = [pass EXCEPT ![w].at = at, ![w].ver = v, ![w].checked = epoch]
      BY <1>2, <2>2 DEF CompleteRead
    <3>2. r.at # "none"
      BY <1>0, <3>1 DEF RowOK, NoRow, NoBasis, Evidence
    <3>3. v \in Versions /\ pass' = [pass EXCEPT ![w] = q]
      BY <1>0, <3>1
    <3>4. PICK c \in PassRecords :
            /\ c = q /\ c.at \in {"bind", "commit"} /\ c.op = p.op
            /\ c.item = p.item /\ c.checked = epoch
      <4>1. /\ q \in PassRecords /\ q.at \in {"bind", "commit"} /\ q.op = p.op
            /\ q.item = p.item /\ q.checked = epoch
        BY <1>0, <3>3 DEF PassRecords, Places
      <4>. HIDE DEF q
      <4>. QED
        BY <4>1
    <3>. HIDE DEF q
    <3>5. PassOK(c)'
      BY <1>0, <1>1, <3>2, <3>4 DEF PassOK, RowOK, Rows
    <3>. QED
      BY <3>3, <3>4, <3>5, MovedPass
  <2>. QED
    BY <2>1, <2>2
<1>3. CASE RevalidateRead(w)
  <2>1. CASE Stop(w)
    BY <2>1, StoppedPass
  <2>2. CASE ~ Stop(w)
    <3>. DEFINE v == target.ev[p.op]
                at == IF r.at = "done" THEN "bind" ELSE "recommit"
                c == <<v, gate[2]>>
                q == [p EXCEPT !.at = at, !.ver = v, !.cur = c, !.checked = epoch]
    <3>1. Evidence(p.op) /\ (r.at = "pending" => r.reg # epoch) /\ r.at # "refused"
          /\ pass' = [pass EXCEPT ![w].at = at, ![w].ver = v, ![w].cur = c,
                                  ![w].checked = epoch]
      BY <1>3, <2>2 DEF RevalidateRead
    <3>2. r.at \in {"pending", "done"}
      BY <1>0, <1>3, <3>1 DEF IInv, PassInv, PassOK, RevalidateRead, Rows
    <3>3. v \in Versions /\ pass' = [pass EXCEPT ![w] = q]
      BY <1>0, <3>1
    <3>4. c \in AnyBasis /\ c # NoBasis
      BY <1>0, <3>1 DEF Evidence, AnyBasis, Bases, Versions, NoBasis
    <3>5. PICK d \in PassRecords :
            /\ d = q /\ d.at = at /\ d.op = p.op
            /\ d.item = p.item /\ d.checked = epoch /\ d.cur = c
      <4>1. /\ q \in PassRecords /\ q.at = at /\ q.op = p.op
            /\ q.item = p.item /\ q.checked = epoch /\ q.cur = c
        BY <1>0, <3>3, <3>4 DEF PassRecords, Places
      <4>. HIDE DEF q
      <4>. QED
        BY <4>1
    <3>. HIDE DEF q
    <3>6. PassOK(d)'
      BY <1>0, <1>1, <3>1, <3>2, <3>4, <3>5 DEF PassOK, RowOK, Rows
    <3>. QED
      BY <3>3, <3>5, <3>6, MovedPass
  <2>. QED
    BY <2>1, <2>2
<1>4. CASE BindRead(w)
  <2>1. CASE Stop(w)
    BY <2>1, StoppedPass
  <2>2. CASE ~ Stop(w)
    <3>. DEFINE q == [p EXCEPT !.at = "pin", !.row = r]
    <3>1. /\ r.at = "done" /\ Evidence(p.op) /\ r.ver = p.ver
          /\ pass' = [pass EXCEPT ![w].at = "pin", ![w].row = r]
      BY <1>4, <2>2 DEF BindRead
    <3>2. pass' = [pass EXCEPT ![w] = q]
      BY <1>0, <3>1
    <3>3. PICK c \in PassRecords :
            /\ c = q /\ c.at = "pin" /\ c.op = p.op /\ c.item = p.item
            /\ c.row = r /\ c.ver = p.ver
      <4>1. /\ q \in PassRecords /\ q.at = "pin" /\ q.op = p.op /\ q.item = p.item
            /\ q.row = r /\ q.ver = p.ver
        BY <1>0 DEF PassRecords, Places
      <4>. HIDE DEF q
      <4>. QED
        BY <4>1
    <3>. HIDE DEF q
    <3>4. PassOK(c)'
      BY <1>0, <1>1, <3>1, <3>3 DEF PassOK, Evidence
    <3>. QED
      BY <3>2, <3>3, <3>4, MovedPass
  <2>. QED
    BY <2>1, <2>2
<1>. QED
  BY <1>2, <1>3, <1>4

\* The steps that end a pass, or move it without its having read anything new.
LEMMA PlainStep ==
  ASSUME IInv, [Next]_vars, ~ Resets, ~ ReplaceTarget, NEW w \in Passes,
         \/ Register(w) \/ Write(w) \/ RevalidateCommit(w) \/ Use(w) \/ Crash(w)
  PROVE  PassInv' /\ pass' \in [Passes -> PassRecords]
<1>1. CASE Stop(w)
  BY <1>1, StoppedPass
<1>2. CASE ~ Stop(w)
  <2>1. pass[w].at # "idle" /\ (Goto(w, "write") \/ Goto(w, "complete") \/ Goto(w, "bind"))
    BY <1>2 DEF Register, Write, RevalidateCommit, Settle, Use, Crash
  <2>. QED
    BY <2>1, WentPass
<1>. QED
  BY <1>1, <1>2

LEMMA StartStep ==
  ASSUME IInv, [Next]_vars, ~ Resets, ~ ReplaceTarget, NEW w \in Passes, NEW i \in Items,
         Start(w, i)
  PROVE  PassInv' /\ pass' \in [Passes -> PassRecords]
<1>. DEFINE q == [Idle EXCEPT
       !.at = IF target.inst[i] = NoVersion THEN "register" ELSE "retained",
       !.item = i, !.op = i, !.gate = gate,
       !.ver = IF target.inst[i] = NoVersion THEN gate[1] ELSE target.inst[i]]
<1>1. gate \in AnyBasis /\ gate[1] \in Versions /\ i \in Names
      /\ target.inst[i] \in Versions
  BY DEF IInv, Types, Bases, AnyBasis, Versions, Names
<1>2. q \in PassRecords /\ q.at \in {"register", "retained"} /\ q.item = i /\ q.op = i
  BY <1>1, Constants DEF Idle, PassRecords, Places
<1>3. pass' = [pass EXCEPT ![w] = q]
  BY DEF Start
<1>. HIDE DEF q
<1>4. PICK c \in PassRecords : c = q
  BY <1>2
<1>5. PassOK(c)'
  BY <1>2, <1>4 DEF PassOK
<1>. QED
  BY <1>3, <1>4, <1>5, MovedPass

LEMMA CommitStep ==
  ASSUME IInv, [Next]_vars, ~ Resets, ~ ReplaceTarget, NEW w \in Passes, CompleteCommit(w)
  PROVE  PassInv' /\ pass' \in [Passes -> PassRecords]
<1>1. CASE Stop(w)
  BY <1>1, StoppedPass
<1>2. CASE Goto(w, "bind")
  BY <1>2, WentPass DEF CompleteCommit
<1>3. CASE Goto(w, "revalidate") /\ rows[pass[w].op].at = "pending" /\ rows' = rows
  <2>. DEFINE q == [pass[w] EXCEPT !.at = "revalidate"]
  <2>1. pass[w] \in PassRecords /\ PassOK(pass[w]) /\ pass \in [Passes -> PassRecords]
        /\ pass[w].at = "commit"
    BY DEF IInv, Types, PassInv, CompleteCommit
  <2>2. q \in PassRecords /\ q.at = "revalidate" /\ q.item = pass[w].item
        /\ q.op = pass[w].op
    BY <2>1 DEF PassRecords, Places
  <2>3. pass' = [pass EXCEPT ![w] = q]
    BY <1>3, <2>1 DEF Goto
  <2>. HIDE DEF q
  <2>4. PICK c \in PassRecords : c = q
    BY <2>2
  <2>5. PassOK(c)'
    BY <1>3, <2>1, <2>2, <2>4 DEF PassOK
  <2>. QED
    BY <2>3, <2>4, <2>5, MovedPass
<1>. QED
  BY <1>1, <1>2, <1>3 DEF CompleteCommit, Settle

LEMMA RetainedStep ==
  ASSUME IInv, [Next]_vars, ~ Resets, ~ ReplaceTarget, NEW w \in Passes, Retained(w)
  PROVE  PassInv' /\ pass' \in [Passes -> PassRecords]
<1>1. CASE Stop(w)
  BY <1>1, StoppedPass
<1>2. CASE ~ Stop(w)
  <2>1. PICK op \in Items : pass' = [pass EXCEPT ![w].at = "bind", ![w].op = op]
    <3>0. pass[w].item \in Items
      BY DEF Retained, IInv, PassInv, PassOK
    <3>1. \A j \in Items : pins[j].kind = "exact" => pins[j].op \in Items
      BY DEF IInv, PinInv
    <3>2. Origins(pass[w].ver) \subseteq Items
      BY <3>1 DEF Origins
    <3>. QED
      BY <1>2, <3>0, <3>1, <3>2 DEF Retained
  <2>. DEFINE q == [pass[w] EXCEPT !.at = "bind", !.op = op]
  <2>2. pass[w] \in PassRecords /\ PassOK(pass[w]) /\ pass \in [Passes -> PassRecords]
        /\ pass[w].at = "retained" /\ op \in Names
    BY DEF IInv, Types, PassInv, Retained, Names
  <2>3. q \in PassRecords /\ q.at = "bind" /\ q.item = pass[w].item /\ q.op = op
    BY <2>2 DEF PassRecords, Places
  <2>4. pass' = [pass EXCEPT ![w] = q]
    BY <2>1, <2>2
  <2>. HIDE DEF q
  <2>5. PICK c \in PassRecords : c = q
    BY <2>3
  <2>6. PassOK(c)'
    BY <2>2, <2>3, <2>5 DEF PassOK
  <2>. QED
    BY <2>4, <2>5, <2>6, MovedPass
<1>. QED
  BY <1>1, <1>2

\* A pass that reaches the acknowledgment has the exact pin of its version.
LEMMA PinnedStep ==
  ASSUME IInv, [Next]_vars, ~ Resets, ~ ReplaceTarget, NEW w \in Passes,
         BindCommit(w) \/ Acknowledge(w)
  PROVE  PassInv' /\ pass' \in [Passes -> PassRecords]
<1>. DEFINE p == pass[w]
<1>0. p \in PassRecords /\ PassOK(p) /\ pass \in [Passes -> PassRecords]
      /\ p.item \in Items /\ p.op \in Items /\ rows' = rows /\ target' = target
      /\ pins \in [Items -> Pins]
  BY DEF IInv, Types, PassInv, PassOK, BindCommit, Acknowledge, journal
<1>1. CASE Stop(w)
  BY <1>1, StoppedPass
<1>2. CASE BindCommit(w) /\ Goto(w, "acknowledge")
  <2>. DEFINE q == [p EXCEPT !.at = "acknowledge"]
  <2>1. rows[p.op] = p.row /\ p.at = "pin" /\ rows[p.op].inc = target.inc
    BY <1>0, <1>2 DEF BindCommit, PassOK, Stop, Goto, Idle, PassRecords
  <2>2. pins'[p.item].kind = "exact" /\ pins'[p.item].ver = p.ver /\ pins'[p.item].op = p.op
    <3>1. Pin(w)
      BY <1>2, <2>1 DEF BindCommit
    <3>2. pass'[w].at = "acknowledge"
      BY <1>0, <1>2, Went DEF Places
    <3>3. ~ Stop(w)
      BY <1>0, <3>2, Halted
    <3>. QED
      BY <1>0, <3>1, <3>3 DEF Pin
  <2>3. q \in PassRecords /\ q.at = "acknowledge" /\ q.item = p.item /\ q.op = p.op
        /\ q.ver = p.ver
    BY <1>0 DEF PassRecords, Places
  <2>4. pass' = [pass EXCEPT ![w] = q]
    BY <1>0, <1>2 DEF Goto
  <2>. HIDE DEF q
  <2>5. PICK c \in PassRecords : c = q
    BY <2>3
  <2>6. PassOK(c)'
    BY <1>0, <2>1, <2>2, <2>3, <2>5 DEF PassOK
  <2>. QED
    BY <2>4, <2>5, <2>6, MovedPass
<1>3. CASE Acknowledge(w) /\ Goto(w, "use") /\ p.at = "acknowledge" /\ ~ Stop(w)
  <2>. DEFINE q == [p EXCEPT !.at = "use"]
  <2>1. pins[p.item].kind = "exact" /\ pins[p.item].ver = p.ver
        /\ rows[pins[p.item].op].inc = target.inc /\ pins' = pins
    BY <1>0, <1>3 DEF PassOK, Acknowledge, journal
  <2>2. acks' = [acks EXCEPT ![p.item] = [pin |-> pins[p.item], inc |-> target.inc]]
    BY <1>3, <2>1 DEF Acknowledge
  <2>3. acks'[p.item] = [pin |-> pins[p.item], inc |-> target.inc]
    BY <1>0, <2>2 DEF IInv, Types
  <2>4. q \in PassRecords /\ q.at = "use" /\ q.item = p.item /\ q.op = p.op
        /\ q.ver = p.ver
    BY <1>0 DEF PassRecords, Places
  <2>5. pass' = [pass EXCEPT ![w] = q]
    BY <1>0, <1>3 DEF Goto
  <2>. HIDE DEF q
  <2>6. PICK c \in PassRecords : c = q
    BY <2>4
  <2>7. PassOK(c)'
    BY <1>0, <2>1, <2>3, <2>4, <2>6 DEF PassOK
  <2>. QED
    BY <2>5, <2>6, <2>7, MovedPass
<1>. QED
  BY <1>1, <1>2, <1>3 DEF BindCommit, Acknowledge, Pin

Passing ==
  \E w \in Passes :
    \/ \E i \in Items : Start(w, i)
    \/ Register(w) \/ Write(w) \/ CompleteRead(w) \/ CompleteCommit(w)
    \/ RevalidateRead(w) \/ RevalidateCommit(w) \/ Retained(w)
    \/ BindRead(w) \/ BindCommit(w) \/ Acknowledge(w) \/ Use(w) \/ Crash(w)

LEMMA NoPassing ==
  ASSUME [Next]_vars, ~ Passing
  PROVE  pass' = pass /\ used' = used
<1>1. CASE \/ RegisterHomeJournal \/ CreateFile \/ AbandonFile \/ MarkReady
           \/ CommitFile \/ LoseFile
           \/ ReplaceTarget \/ (\E g \in Bases : EditGate(g))
           \/ (\E i \in Items : Refuse(i)) \/ UNCHANGED vars \/ Cut
  BY <1>1 DEF RegisterHomeJournal, CreateFile, AbandonFile, MarkReady, CommitFile,
     LoseFile, ReplaceTarget, EditGate, Refuse, Cut, vars
<1>2. ASSUME NEW s \in Sealers,
             \/ \E e \in 1 .. MaxEpoch : FinalizeRead(s, e)
             \/ FinalizeCommit(s) \/ SealerCrash(s)
      PROVE  pass' = pass /\ used' = used
  BY <1>2 DEF FinalizeRead, FinalizeCommit, SealerCrash
<1>. QED
  BY <1>1, <1>2 DEF Next, Passing

\* A stopped Home has no pass that could be wrong about the journal.
LEMMA StoppedHome ==
  ASSUME IInv, [Next]_vars, Resets \/ ReplaceTarget
  PROVE  /\ pass' = pass /\ sealer' = sealer /\ used' = used /\ acks' = acks
         /\ Stopped /\ \A w \in Passes : pass[w].at = "idle"
<1>1. pass' = pass /\ sealer' = sealer /\ used' = used /\ acks' = acks
  BY DEF Resets, CommitFile, LoseFile, ReplaceTarget
<1>2. Stopped
  BY DEF Resets, CommitFile, LoseFile, ReplaceTarget, IInv, FileInv
<1>. QED
  BY <1>1, <1>2 DEF Stopped, Idle

LEMMA PassStep ==
  ASSUME IInv, [Next]_vars
  PROVE  PassInv' /\ pass' \in [Passes -> PassRecords]
<1>0. pass \in [Passes -> PassRecords] /\ PassInv
  BY DEF IInv, Types
<1>1. CASE Resets \/ ReplaceTarget
  BY <1>0, <1>1, StoppedHome DEF PassInv, PassOK
<1>2. ASSUME ~ Resets, ~ ReplaceTarget, NEW w \in Passes,
             \/ \E i \in Items : Start(w, i)
             \/ Register(w) \/ Write(w) \/ CompleteRead(w) \/ CompleteCommit(w)
             \/ RevalidateRead(w) \/ RevalidateCommit(w) \/ Retained(w)
             \/ BindRead(w) \/ BindCommit(w) \/ Acknowledge(w) \/ Use(w) \/ Crash(w)
      PROVE  PassInv' /\ pass' \in [Passes -> PassRecords]
  BY <1>2, StartStep, PlainStep, ReadStep, CommitStep, RetainedStep, PinnedStep
<1>3. ASSUME ~ Resets, ~ ReplaceTarget, ~ Passing
      PROVE  PassInv' /\ pass' \in [Passes -> PassRecords]
  <2>1. pass' = pass
    BY <1>3, NoPassing
  <2>2. ASSUME NEW v \in Passes PROVE PassOK(pass[v])'
    <3>1. PICK p \in PassRecords : p = pass[v] /\ p = pass'[v]
      BY <1>0, <2>1
    <3>2. PassOK(p)
      BY <1>0, <3>1 DEF PassInv
    <3>3. PassOK(p)'
      BY <1>3, <3>2, PassKept
    <3>. QED
      BY <3>1, <3>3 DEF PassOK
  <2>. QED
    BY <1>0, <2>1, <2>2 DEF PassInv
<1>. QED
  BY <1>1, <1>2, <1>3 DEF Passing

\* Where there is no whole journal, nobody is at work and nobody starts.
LEMMA NoJournal ==
  ASSUME IInv, [Next]_vars, file # "whole"
  PROVE  pass' = pass /\ sealer' = sealer /\ Stopped
<1>1. Stopped
  BY DEF IInv, FileInv
<1>2. \A w \in Passes : pass[w].at = "idle" /\ pass[w] = Idle
  BY <1>1 DEF Stopped, Idle
<1>3. \A s \in Sealers : sealer[s].at = "idle" /\ sealer[s] = Resting
  BY <1>1 DEF Stopped, Resting
<1>4. ~ Passing
  <2>. SUFFICES ASSUME NEW w \in Passes,
         \/ \E i \in Items : Start(w, i)
         \/ Register(w) \/ Write(w) \/ CompleteRead(w) \/ CompleteCommit(w)
         \/ RevalidateRead(w) \/ RevalidateCommit(w) \/ Retained(w)
         \/ BindRead(w) \/ BindCommit(w) \/ Acknowledge(w) \/ Use(w) \/ Crash(w)
       PROVE FALSE
    BY DEF Passing
  <2>. QED
    BY <1>2 DEF Start, Open, Register, Write, CompleteRead, CompleteCommit, RevalidateRead,
       RevalidateCommit, Retained, BindRead, BindCommit, Acknowledge, Use, Crash
<1>5. ~ Sealing
  BY <1>3 DEF Sealing, Cut, Open, FinalizeRead, FinalizeCommit, SealerCrash
<1>6. Resets => sealer' = sealer
  BY DEF Resets, CommitFile, LoseFile
<1>. QED
  BY <1>1, <1>4, <1>5, <1>6, NoPassing, NoSealing

\* The file and its readiness change only through their own actions.
LEMMA StorageStep ==
  ASSUME [Next]_vars
  PROVE  \/ RegisterHomeJournal \/ CreateFile \/ CommitFile \/ AbandonFile
         \/ MarkReady \/ LoseFile
         \/ catalog' = catalog /\ file' = file
<1>1. CASE \/ ReplaceTarget \/ (\E g \in Bases : EditGate(g))
           \/ (\E i \in Items : Refuse(i)) \/ UNCHANGED vars \/ Cut
  BY <1>1 DEF ReplaceTarget, EditGate, Refuse, Cut, vars, storage
<1>2. ASSUME NEW w \in Passes,
             \/ \E i \in Items : Start(w, i)
             \/ Register(w) \/ Write(w) \/ CompleteRead(w) \/ RevalidateRead(w) \/ BindRead(w)
      PROVE  catalog' = catalog /\ file' = file
  BY <1>2 DEF Start, Register, Write, CompleteRead, RevalidateRead, BindRead, storage
<1>3. ASSUME NEW w \in Passes,
             \/ CompleteCommit(w) \/ RevalidateCommit(w) \/ Retained(w)
             \/ BindCommit(w) \/ Acknowledge(w) \/ Use(w) \/ Crash(w)
      PROVE  catalog' = catalog /\ file' = file
  BY <1>3 DEF CompleteCommit, RevalidateCommit, Retained, BindCommit, Acknowledge, Use,
     Crash, storage
<1>4. ASSUME NEW s \in Sealers,
             \/ \E e \in 1 .. MaxEpoch : FinalizeRead(s, e)
             \/ FinalizeCommit(s) \/ SealerCrash(s)
      PROVE  catalog' = catalog /\ file' = file
  BY <1>4 DEF FinalizeRead, FinalizeCommit, SealerCrash, storage
<1>. QED
  BY <1>1, <1>2, <1>3, <1>4 DEF Next

LEMMA FileStep ==
  ASSUME IInv, [Next]_vars
  PROVE  /\ FileInv'
         /\ catalog' \in {"none", "bound", "ready"}
         /\ file' \in {"none", "partial", "whole", "broken"}
<1>0. /\ catalog \in {"none", "bound", "ready"} /\ FileInv
      /\ file \in {"none", "partial", "whole", "broken"}
  BY DEF IInv, Types
<1>1. /\ catalog' \in {"none", "bound", "ready"}
      /\ file' \in {"none", "partial", "whole", "broken"}
      /\ catalog = "ready" => catalog' = "ready"
      /\ catalog' = "ready" => file' \in {"whole", "none"}
  BY <1>0, StorageStep DEF RegisterHomeJournal, CreateFile, MayCreate, CommitFile,
     AbandonFile, MarkReady, LoseFile, FileInv
<1>2. file' # "whole" => Stopped'
  <2>1. CASE file # "whole"
    BY <2>1, NoJournal DEF Stopped
  <2>2. CASE file = "whole" /\ file' # "whole"
    <3>1. LoseFile
      BY <2>2, StorageStep DEF RegisterHomeJournal, CreateFile, MayCreate, CommitFile,
         AbandonFile, MarkReady
    <3>. QED
      BY <3>1 DEF LoseFile, Stopped
  <2>. QED
    BY <2>1, <2>2
<1>3. ASSUME NEW v \in Passes, pass'[v].at # "idle" PROVE catalog' = "ready"
  <2>1. CASE pass[v].at # "idle"
    BY <1>0, <1>1, <2>1 DEF FileInv
  <2>2. CASE pass[v].at = "idle"
    <3>1. catalog = "ready"
      <4>1. CASE file # "whole"
        BY <1>3, <2>2, <4>1, NoJournal
      <4>2. CASE \E w \in Passes : pass[w].at # "idle"
        BY <1>0, <4>2 DEF FileInv
      <4>3. CASE \E w \in Passes, i \in Items : Start(w, i)
        BY <4>3 DEF Start, Open
      <4>4. CASE ~ Passing
        BY <1>3, <2>2, <4>4, NoPassing
      <4>5. ASSUME NEW w \in Passes, pass[w].at = "idle",
                   \/ Register(w) \/ Write(w) \/ CompleteRead(w) \/ CompleteCommit(w)
                   \/ RevalidateRead(w) \/ RevalidateCommit(w) \/ Retained(w)
                   \/ BindRead(w) \/ BindCommit(w) \/ Acknowledge(w) \/ Use(w)
            PROVE FALSE
        BY <4>5 DEF Register, Write, CompleteRead, CompleteCommit, RevalidateRead,
           RevalidateCommit, Retained, BindRead, BindCommit, Acknowledge, Use
      <4>6. ASSUME NEW w \in Passes, Crash(w) PROVE pass'[v].at = "idle" \/ pass'[v] = pass[v]
        BY <4>6, Halted DEF Crash, IInv, Types
      <4>. QED
        BY <1>3, <2>2, <4>2, <4>3, <4>4, <4>5, <4>6 DEF Passing
    <3>. QED
      BY <1>1, <3>1
  <2>. QED
    BY <2>1, <2>2
<1>4. ASSUME NEW i \in Items, acks'[i] # NoAck PROVE catalog' = "ready"
  BY <1>0, <1>1, <1>4, AcksStep DEF FileInv
<1>. QED
  BY <1>1, <1>2, <1>3, <1>4 DEF FileInv

LEMMA AckStep == ASSUME IInv, [Next]_vars PROVE AckInv'
<1>. SUFFICES ASSUME NEW i \in Items, acks'[i] # NoAck
              PROVE  /\ acks'[i].pin.kind = "exact"
                     /\ file' = "whole" => /\ pins'[i] = acks'[i].pin
                                           /\ acks'[i].inc = rows'[acks'[i].pin.op].inc
  BY DEF AckInv
<1>1. CASE CommitFile
  <2>1. catalog # "ready" /\ acks' = acks
    BY <1>1 DEF CommitFile, IInv, FileInv
  <2>. QED
    BY <2>1 DEF IInv, FileInv
<1>2. CASE LoseFile
  BY <1>2 DEF LoseFile, IInv, AckInv
<1>3. CASE ~ Resets /\ acks'[i] = acks[i]
  <2>1. acks[i].pin.kind = "exact"
    BY <1>3 DEF IInv, AckInv
  <2>2. ASSUME file' = "whole"
        PROVE  pins'[i] = acks[i].pin /\ acks[i].inc = rows'[acks[i].pin.op].inc
    <3>1. file = "whole"
      BY <1>3, <2>2, StorageStep DEF Resets, RegisterHomeJournal, CreateFile, AbandonFile,
         MarkReady
    <3>2. pins[i] = acks[i].pin /\ acks[i].inc = rows[acks[i].pin.op].inc
      BY <1>3, <3>1 DEF IInv, AckInv
    <3>3. pins[i].op \in Items /\ rows[pins[i].op].at = "done" /\ pins'[i] = pins[i]
      BY <1>3, <2>1, <3>2, PinsKept DEF IInv, PinInv
    <3>4. rows'[pins[i].op] = rows[pins[i].op]
      BY <1>3, <3>3, RowsKept
    <3>. QED
      BY <3>2, <3>3, <3>4
  <2>. QED
    BY <1>3, <2>1, <2>2
<1>4. CASE ~ Resets /\ acks'[i] # acks[i]
  <2>1. /\ acks'[i] = AckOf(i) /\ pins[i].kind = "exact"
        /\ pins' = pins /\ rows' = rows
    BY <1>4, AcksStep
  <2>2. AckOf(i).pin = pins[i] /\ AckOf(i).inc = rows[pins[i].op].inc
    BY DEF AckOf
  <2>. QED
    BY <2>1, <2>2
<1>. QED
  BY <1>1, <1>2, <1>3, <1>4 DEF Resets

\* Effects run after the acknowledgment, which is never taken back.
LEMMA UseStep ==
  ASSUME IInv, [Next]_vars
  PROVE  AdmittedUse' /\ used' \subseteq [item : Items, inc : Nat, ver : Versions]
<1>0. used \subseteq [item : Items, inc : Nat, ver : Versions] /\ AdmittedUse
  BY DEF IInv, Types
<1>1. ASSUME NEW u \in used
      PROVE  /\ u.item \in Items /\ acks'[u.item].pin.kind = "exact"
             /\ acks'[u.item].pin.ver = u.ver /\ acks'[u.item].inc = u.inc
  <2>1. u.item \in Items /\ acks[u.item].pin.kind = "exact"
        /\ acks[u.item].pin.ver = u.ver /\ acks[u.item].inc = u.inc
    BY <1>0 DEF AdmittedUse
  <2>2. acks[u.item] # NoAck
    BY <2>1 DEF NoAck, NoPin
  <2>. QED
    BY <2>1, <2>2, AcksStep
<1>2. CASE used' = used
  BY <1>0, <1>1, <1>2 DEF AdmittedUse
<1>3. ASSUME NEW w \in Passes, Use(w)
      PROVE  AdmittedUse' /\ used' \subseteq [item : Items, inc : Nat, ver : Versions]
  <2>. DEFINE p == pass[w]
              u == [item |-> p.item, inc |-> target.inc, ver |-> p.ver]
  <2>1. /\ p.item \in Items /\ p.ver \in Versions /\ target.inc \in Nat
        /\ pins[p.item].kind = "exact" /\ pins[p.item].ver = p.ver
        /\ acks[p.item] = [pin |-> pins[p.item], inc |-> target.inc]
    BY <1>3 DEF Use, IInv, PassInv, PassOK, Types, PassRecords
  <2>2. acks' = acks /\ used' = used \union {u}
    BY <1>3 DEF Use
  <2>. QED
    BY <1>0, <1>1, <2>1, <2>2 DEF AdmittedUse
<1>4. used' = used \/ \E w \in Passes : Use(w)
  <2>1. ASSUME NEW w \in Passes,
               \/ \E i \in Items : Start(w, i)
               \/ Register(w) \/ Write(w) \/ CompleteRead(w) \/ RevalidateRead(w)
               \/ BindRead(w)
        PROVE  used' = used
    BY <2>1 DEF Start, Register, Write, CompleteRead, RevalidateRead, BindRead
  <2>2. ASSUME NEW w \in Passes,
               \/ CompleteCommit(w) \/ RevalidateCommit(w) \/ Retained(w)
               \/ BindCommit(w) \/ Acknowledge(w) \/ Crash(w)
        PROVE  used' = used
    BY <2>2 DEF CompleteCommit, RevalidateCommit, Retained, BindCommit, Acknowledge, Crash
  <2>. QED
    BY <2>1, <2>2, NoPassing DEF Passing
<1>. QED
  BY <1>2, <1>3, <1>4

LEMMA InitInv == Init => IInv
<1>. SUFFICES ASSUME Init PROVE IInv
  OBVIOUS
<1>1. Types
  BY TypesInit
<1>2. RowInv
  BY DEF Init, RowInv, RowOK, NoRow
<1>3. SealInv
  BY DEF Init, SealInv, SealsFrozen, NoSeal, Resting
<1>4. FileInv
  BY DEF Init, FileInv, Stopped, Idle
<1>5. PinInv
  BY DEF Init, PinInv, NoPin
<1>6. PassInv
  BY DEF Init, PassInv, PassOK, Idle
<1>7. AckInv /\ AdmittedUse
  BY DEF Init, AckInv, AdmittedUse
<1>. QED
  BY <1>1, <1>2, <1>3, <1>4, <1>5, <1>6, <1>7 DEF IInv

LEMMA InvStep == IInv /\ [Next]_vars => IInv'
<1>. SUFFICES ASSUME IInv, [Next]_vars PROVE IInv'
  OBVIOUS
<1>1. pins' \in [Items -> Pins] /\ PinInv'
  <2>1. CASE Resets
    BY <2>1, Constants DEF Resets, CommitFile, LoseFile, EmptyJournal, PinInv, NoPin
  <2>2. CASE ~ Resets
    BY <2>2, PinsKept
  <2>. QED
    BY <2>1, <2>2
<1>2. Types'
  BY <1>1, RowInvStep, SealStep, FileStep, AcksStep, TargetStep, PassStep, UseStep
     DEF Types, SealTypes
<1>. QED
  BY <1>1, <1>2, RowInvStep, SealStep, FileStep, PassStep, AckStep, UseStep DEF IInv

LEMMA Inductive == Spec => []IInv
BY InitInv, InvStep, PTL DEF Spec

\* The journal's tables keep their types and CHECKs: exactly the completed
\* operations are dated, and none after the current epoch.
THEOREM TypeCorrect == Spec => []TypeOK
<1>1. IInv => TypeOK
  <2>. SUFFICES ASSUME IInv PROVE TypeOK
    OBVIOUS
  <2>1. Types /\ RowInv
    BY DEF IInv
  <2>2. \A i \in Items : /\ rows[i].at = "done" <=> rows[i].done # 0
                         /\ rows[i].done <= epoch /\ rows[i].reg <= epoch
    BY <2>1 DEF RowInv, RowOK
  <2>. QED
    BY <2>1, <2>2 DEF Types, TypeOK
<1>. QED
  BY <1>1, Inductive, PTL

\* A finalized seal's roster is forever what completed through its epoch, with
\* any number of passes, finalizations, crashes and later epochs.
THEOREM SealsStayFrozen == Spec => []SealsFrozen
<1>1. IInv => SealsFrozen
  BY DEF IInv, SealInv
<1>. QED
  BY <1>1, Inductive, PTL

\* A completion carries the epoch its evidence was verified in, and a
\* revalidated basis exactly when a seal had overtaken its registration.
THEOREM CompletionsVerified == Spec => []VerifiedInEpoch
<1>1. IInv => VerifiedInEpoch
  BY DEF IInv, RowInv, RowOK, VerifiedInEpoch
<1>. QED
  BY <1>1, Inductive, PTL

\* No effect runs but in the store and under the version acknowledged for its
\* item, whatever is edited, replaced, lost or retried.
THEOREM UsesAdmitted == Spec => []AdmittedUse
<1>1. IInv => AdmittedUse
  BY DEF IInv
<1>. QED
  BY <1>1, Inductive, PTL

\* A journal that opens still has every acknowledged pin and its completed
\* operation.
THEOREM AcksHonoured == Spec => []AckHonoured
<1>1. IInv => AckHonoured
  BY DEF IInv, AckInv, PinInv, AckHonoured, Open
<1>. QED
  BY <1>1, Inductive, PTL
=============================================================================
