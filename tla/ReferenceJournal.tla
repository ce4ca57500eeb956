------------------------- MODULE ReferenceJournal --------------------------
(***************************************************************************)
(* A Home's journal of accepting operations and the gate passes that use   *)
(* it: src/crates/store/src/home_reference_journal.rs with its storage and *)
(* catalog, and home_gate_use in src/crates/app/src/gate_service.rs.       *)
(*                                                                         *)
(* A pass over one item registers an operation, writes evidence into the   *)
(* target's runtime store, completes the operation, pins the item to it,   *)
(* has the product store acknowledge the pin, and only then runs effects.  *)
(* Target evidence is verified outside the journal's transactions.  A seal *)
(* cuts an epoch in one transaction and materializes its roster later.     *)
(* Passes stop anywhere, authors edit the gate, an operator may replace    *)
(* the target store or lose the journal's file while the Home is stopped.  *)
(*                                                                         *)
(* One project, one target; the operation of an item is the item.  A gate  *)
(* is its source, which fixes the version, and its envelope.  Epochs count *)
(* from 1 here and from 0 in the code.                                     *)
(***************************************************************************)
EXTENDS Naturals, FiniteSets

CONSTANTS
  Items,
  Legacy,      \* items the target ran before the journal existed
  Passes,      \* gate passes that can be in flight at once
  Sealers,     \* finalizations that can be in flight at once
  Sources, Envelopes,
  MaxEpoch,    \* bound on seals
  MaxEdits,    \* bound on edits of the gate
  MaxInc,      \* bound on replacements of the target store
  MaxRefusals  \* bound on refusals

ASSUME JournalAssumption ==
  /\ Legacy \subseteq Items
  /\ {MaxEpoch, MaxEdits, MaxInc, MaxRefusals} \subseteq Nat

VARIABLES
  epoch, rows, seals, pins,   \* the journal
  catalog, file,              \* the product's binding of it, and its file
  acks,                       \* the product's acknowledgments
  gate, edits,                \* the project's current gate
  target,                     \* the runtime store: incarnation, evidence, instances
  pass, sealer,               \* work in flight
  refusals,
  used                        \* history: effects that ran

journal == <<epoch, rows, seals, pins>>
storage == <<catalog, file>>
project == <<gate, edits>>
vars == <<journal, storage, acks, project, target, pass, sealer, refusals, used>>

NoVersion == "none"
NoBasis == <<NoVersion, NoVersion>>
Bases == (Sources \X Envelopes)

\* done is the completed epoch, 0 when there is none; checked is a history
\* field, the epoch in which the recorded evidence was verified.
NoRow == [at |-> "none", inc |-> 0, basis |-> NoBasis, reg |-> 0, done |-> 0,
          ver |-> NoVersion, reval |-> NoBasis, checked |-> 0]
NoPin == [kind |-> "none", op |-> NoVersion, ver |-> NoVersion, epoch |-> 0]
NoAck == [pin |-> NoPin, inc |-> 0]
NoSeal == [status |-> "none", roster |-> {}]
Idle == [at |-> "idle", item |-> NoVersion, op |-> NoVersion,
         gate |-> NoBasis, ver |-> NoVersion, cur |-> NoBasis, checked |-> 0,
         row |-> NoRow]
Resting == [at |-> "idle", epoch |-> 0, roster |-> {}]

EmptyJournal ==
  /\ epoch' = 1
  /\ rows' = [i \in Items |-> NoRow]
  /\ seals' = [e \in 1 .. MaxEpoch |-> NoSeal]
  /\ pins' = [i \in Items |-> NoPin]

Init ==
  /\ epoch = 1
  /\ rows = [i \in Items |-> NoRow]
  /\ seals = [e \in 1 .. MaxEpoch |-> NoSeal]
  /\ pins = [i \in Items |-> NoPin]
  /\ catalog = "none" /\ file = "none"
  /\ acks = [i \in Items |-> NoAck]
  /\ gate \in Bases /\ edits = 0
  /\ target = [inc |-> 1, ev |-> [i \in Items |-> NoVersion],
               inst |-> [i \in Items |-> IF i \in Legacy THEN gate[1] ELSE NoVersion]]
  /\ pass = [w \in Passes |-> Idle]
  /\ sealer = [s \in Sealers |-> Resting]
  /\ refusals = 0 /\ used = {}

(* ---- the journal's file: binding, creation, readiness ---- *)

RegisterHomeJournal ==
  /\ catalog = "none" /\ catalog' = "bound"
  /\ UNCHANGED <<journal, file, acks, project, target, pass, sealer, refusals, used>>

\* A ready registration only reopens: a missing file is not created again.
MayCreate_Missing == catalog # "none" /\ file = "none"

MayCreate == catalog = "bound" /\ file = "none"

\* create: the file first, then its schema and binding in one transaction.
CreateFile ==
  /\ MayCreate
  /\ file' = "partial"
  /\ UNCHANGED <<journal, catalog, acks, project, target, pass, sealer, refusals, used>>

CommitFile ==
  /\ file = "partial" /\ file' = "whole"
  /\ EmptyJournal
  /\ UNCHANGED <<catalog, acks, project, target, pass, sealer, refusals, used>>

\* The creating process died: the partial file is refused from now on.
AbandonFile ==
  /\ file = "partial" /\ file' = "broken"
  /\ UNCHANGED <<journal, catalog, acks, project, target, pass, sealer, refusals, used>>

MarkReady ==
  /\ catalog = "bound" /\ file = "whole" /\ catalog' = "ready"
  /\ UNCHANGED <<journal, file, acks, project, target, pass, sealer, refusals, used>>

\* Files are replaced or lost while the Home is stopped.
Stopped ==
  /\ \A w \in Passes : pass[w] = Idle
  /\ \A s \in Sealers : sealer[s] = Resting

LoseFile ==
  /\ file = "whole" /\ Stopped
  /\ file' = "none" /\ EmptyJournal
  /\ UNCHANGED <<catalog, acks, project, target, pass, sealer, refusals, used>>

\* open_home_journal
Open == catalog = "ready" /\ file = "whole"

(* ---- a pass over one item ---- *)

Goto(w, at) == pass' = [pass EXCEPT ![w].at = at]
Stop(w) == pass' = [pass EXCEPT ![w] = Idle]

\* The pass opens the target store and finds the item's instance, or none.
Start(w, i) ==
  /\ Open /\ pass[w] = Idle
  /\ pass' = [pass EXCEPT ![w] =
       [Idle EXCEPT !.at = IF target.inst[i] = NoVersion THEN "register" ELSE "retained",
                    !.item = i, !.op = i, !.gate = gate,
                    !.ver = IF target.inst[i] = NoVersion THEN gate[1] ELSE target.inst[i]]]
  /\ UNCHANGED <<journal, storage, acks, project, target, sealer, refusals, used>>

\* register_checked_program_request: an exact retry returns the row.
Register(w) ==
  LET p == pass[w]  r == rows[p.item] IN
  /\ p.at = "register"
  /\ \/ /\ r = NoRow
        /\ rows' = [rows EXCEPT ![p.item] =
             [NoRow EXCEPT !.at = "pending", !.inc = target.inc, !.basis = p.gate, !.reg = epoch]]
        /\ Goto(w, "write")
     \/ /\ r # NoRow /\ UNCHANGED rows
        /\ IF r.inc = target.inc /\ r.basis = p.gate THEN Goto(w, "write") ELSE Stop(w)
  /\ UNCHANGED <<epoch, seals, pins, storage, acks, project, target, sealer, refusals, used>>

\* The target keeps one version per operation id.
Write(w) ==
  LET p == pass[w]  found == target.ev[p.item] IN
  /\ p.at = "write"
  /\ \/ /\ found \in {NoVersion, p.ver}
        /\ target' = [target EXCEPT !.ev[p.item] = p.ver]
        /\ Goto(w, "complete")
     \/ /\ found \notin {NoVersion, p.ver}
        /\ Stop(w) /\ UNCHANGED target
  /\ UNCHANGED <<journal, storage, acks, project, sealer, refusals, used>>

\* verify_gate_import_operation on the store the path names now.
Evidence(op) == target.ev[op] # NoVersion /\ target.inc = rows[op].inc

CompleteRead(w) ==
  LET p == pass[w]  r == rows[p.op] IN
  /\ p.at = "complete"
  /\ IF /\ r.at # "refused" /\ Evidence(p.op)
        /\ <<target.ev[p.op], p.gate[2]>> = r.basis
        /\ r.at = "done" => r.ver = target.ev[p.op]
       THEN pass' = [pass EXCEPT ![w].at = IF r.at = "done" THEN "bind" ELSE "commit",
                                 ![w].ver = target.ev[p.op], ![w].checked = epoch]
       ELSE Stop(w)
  /\ UNCHANGED <<journal, storage, acks, project, target, sealer, refusals, used>>

Completed(w, reval) ==
  [rows EXCEPT ![pass[w].op].at = "done", ![pass[w].op].done = epoch,
               ![pass[w].op].ver = pass[w].ver, ![pass[w].op].reval = reval,
               ![pass[w].op].checked = pass[w].checked]

\* The transaction of both completions: refused, already done, overtaken by a
\* seal (the pass goes on at `late`), or completed in the current epoch.
Settle(w, stale, reval, late) ==
  LET p == pass[w]  r == rows[p.op] IN
  \/ r.at = "refused" /\ Stop(w) /\ UNCHANGED rows
  \/ /\ r.at = "done" /\ UNCHANGED rows
     /\ IF r.ver = p.ver /\ (late = "idle" => r.reval = reval)
          THEN Goto(w, "bind") ELSE Stop(w)
  \/ /\ r.at = "pending" /\ stale /\ UNCHANGED rows
     /\ IF late = "idle" THEN Stop(w) ELSE Goto(w, late)
  \/ /\ r.at = "pending" /\ ~ stale
     /\ rows' = Completed(w, reval) /\ Goto(w, "bind")

CompleteCommit(w) ==
  /\ pass[w].at = "commit"
  /\ Settle(w, rows[pass[w].op].reg # epoch, NoBasis, "revalidate")
  /\ UNCHANGED <<epoch, seals, pins, storage, acks, project, target, sealer, refusals, used>>

\* The project's gate is read again; the epoch is read before the evidence.
RevalidateRead(w) ==
  LET p == pass[w]  r == rows[p.op] IN
  /\ p.at = "revalidate"
  /\ IF /\ r.at # "refused" /\ Evidence(p.op)
        /\ r.at = "pending" => r.reg # epoch
        /\ r.at = "done" => r.ver = target.ev[p.op]
       THEN pass' = [pass EXCEPT ![w].at = IF r.at = "done" THEN "bind" ELSE "recommit",
                                 ![w].ver = target.ev[p.op],
                                 ![w].cur = <<target.ev[p.op], gate[2]>>,
                                 ![w].checked = epoch]
       ELSE Stop(w)
  /\ UNCHANGED <<journal, storage, acks, project, target, sealer, refusals, used>>

RevalidateCommit(w) ==
  /\ pass[w].at = "recommit"
  /\ Settle(w, pass[w].checked # epoch, pass[w].cur, "idle")
  /\ UNCHANGED <<epoch, seals, pins, storage, acks, project, target, sealer, refusals, used>>

\* A retained item: its pin, the one origin of its version, or a legacy pin.
Origins(ver) ==
  {pins[j].op : j \in {k \in Items : pins[k].kind = "exact" /\ pins[k].ver = ver}}

Retained(w) ==
  LET p == pass[w]  pin == pins[p.item] IN
  /\ p.at = "retained"
  /\ \/ /\ pin # NoPin /\ UNCHANGED pins
        /\ IF pin.ver = p.ver /\ pin.kind = "exact"
             THEN pass' = [pass EXCEPT ![w].at = "bind", ![w].op = pin.op]
             ELSE Stop(w)
     \/ /\ pin = NoPin /\ Origins(p.ver) = {}
        /\ pins' = [pins EXCEPT ![p.item] =
             [kind |-> "legacy", op |-> NoVersion, ver |-> p.ver, epoch |-> epoch]]
        /\ Stop(w)
     \/ /\ pin = NoPin /\ UNCHANGED pins
        /\ \E op \in Origins(p.ver) :
             IF Origins(p.ver) = {op}
               THEN pass' = [pass EXCEPT ![w].at = "bind", ![w].op = op]
               ELSE Stop(w)
  /\ UNCHANGED <<epoch, rows, seals, storage, acks, project, target, sealer, refusals, used>>

AdmittedBasis(r) == IF r.reval = NoBasis THEN r.basis ELSE r.reval

BindRead(w) ==
  LET p == pass[w]  r == rows[p.op] IN
  /\ p.at = "bind"
  /\ IF /\ r.at = "done" /\ Evidence(p.op)
        /\ <<target.ev[p.op], gate[2]>> = AdmittedBasis(r)
        /\ target.ev[p.op] = p.ver /\ r.ver = p.ver
       THEN pass' = [pass EXCEPT ![w].at = "pin", ![w].row = r]
       ELSE Stop(w)
  /\ UNCHANGED <<journal, storage, acks, project, target, sealer, refusals, used>>

\* Mutant: effects follow the pin, whatever the product store says.
Pin_NoAcknowledgment(w) ==
  LET p == pass[w] IN
  /\ pins[p.item] = NoPin
  /\ pins' = [pins EXCEPT ![p.item] =
       [kind |-> "exact", op |-> p.op, ver |-> p.ver, epoch |-> epoch]]
  /\ Goto(w, "use")

Pin(w) ==
  LET p == pass[w]  pin == pins[p.item] IN
  \/ /\ pin = NoPin
     /\ pins' = [pins EXCEPT ![p.item] =
          [kind |-> "exact", op |-> p.op, ver |-> p.ver, epoch |-> epoch]]
     /\ Goto(w, "acknowledge")
  \/ /\ pin # NoPin /\ UNCHANGED pins
     /\ IF pin.kind = "exact" /\ pin.op = p.op /\ pin.ver = p.ver
          THEN Goto(w, "acknowledge") ELSE Stop(w)

BindCommit(w) ==
  /\ pass[w].at = "pin"
  /\ IF rows[pass[w].op] = pass[w].row THEN Pin(w) ELSE Stop(w) /\ UNCHANGED pins
  /\ UNCHANGED <<epoch, rows, seals, storage, acks, project, target, sealer, refusals, used>>

\* acknowledge_home_reference_use, in the product store.
Acknowledge(w) ==
  LET i == pass[w].item  ack == [pin |-> pins[i], inc |-> rows[pins[i].op].inc] IN
  /\ pass[w].at = "acknowledge"
  /\ IF acks[i] \in {NoAck, ack}
       THEN acks' = [acks EXCEPT ![i] = ack] /\ Goto(w, "use")
       ELSE Stop(w) /\ UNCHANGED acks
  /\ UNCHANGED <<journal, storage, project, target, sealer, refusals, used>>

\* The instance is created or resumed in the store the pass opened.
Use(w) ==
  LET p == pass[w] IN
  /\ p.at = "use"
  /\ used' = used \union {[item |-> p.item, inc |-> target.inc, ver |-> p.ver]}
  /\ target' = [target EXCEPT !.inst[p.item] = p.ver]
  /\ Stop(w)
  /\ UNCHANGED <<journal, storage, acks, project, sealer, refusals>>

Crash(w) ==
  /\ pass[w] # Idle /\ Stop(w)
  /\ UNCHANGED <<journal, storage, acks, project, target, sealer, refusals, used>>

(* ---- refusals and seals ---- *)

Refuse(i) ==
  /\ Open /\ refusals < MaxRefusals
  /\ rows[i].at = "pending"
  /\ rows' = [rows EXCEPT ![i].at = "refused"]
  /\ refusals' = refusals + 1
  /\ UNCHANGED <<epoch, seals, pins, storage, acks, project, target, pass, sealer, used>>

CompletedThrough(e) ==
  {<<i, rows[i]>> : i \in {j \in Items : rows[j].at = "done" /\ rows[j].done <= e}}

\* seal_reference_epoch: the cut, a pending seal and the next epoch at once.
Cut ==
  /\ Open /\ epoch <= MaxEpoch
  /\ seals' = [seals EXCEPT ![epoch].status = "pending"]
  /\ epoch' = epoch + 1
  /\ UNCHANGED <<rows, pins, storage, acks, project, target, pass, sealer, refusals, used>>

\* Mutant: the roster is whatever has completed by now.
FinalizeRead_Now(s, e) ==
  /\ Open /\ sealer[s] = Resting /\ seals[e].status = "pending" /\ e < epoch
  /\ sealer' = [sealer EXCEPT ![s] =
       [at |-> "read", epoch |-> e, roster |-> CompletedThrough(epoch)]]
  /\ UNCHANGED <<journal, storage, acks, project, target, pass, refusals, used>>

\* finalize_reference_seal: the roster is read without the writer.
FinalizeRead(s, e) ==
  /\ Open /\ sealer[s] = Resting /\ seals[e].status = "pending" /\ e < epoch
  /\ sealer' = [sealer EXCEPT ![s] =
       [at |-> "read", epoch |-> e, roster |-> CompletedThrough(e)]]
  /\ UNCHANGED <<journal, storage, acks, project, target, pass, refusals, used>>

\* Another finalization may have won: its seal is no longer the one read.
FinalizeCommit(s) ==
  LET f == sealer[s] IN
  /\ f.at = "read"
  /\ seals' = IF seals[f.epoch].status = "pending"
                THEN [seals EXCEPT ![f.epoch] = [status |-> "final", roster |-> f.roster]]
                ELSE seals
  /\ sealer' = [sealer EXCEPT ![s] = Resting]
  /\ UNCHANGED <<epoch, rows, pins, storage, acks, project, target, pass, refusals, used>>

SealerCrash(s) ==
  /\ sealer[s] # Resting
  /\ sealer' = [sealer EXCEPT ![s] = Resting]
  /\ UNCHANGED <<journal, storage, acks, project, target, pass, refusals, used>>

(* ---- the environment ---- *)

EditGate(g) ==
  /\ edits < MaxEdits /\ g # gate
  /\ gate' = g /\ edits' = edits + 1
  /\ UNCHANGED <<journal, storage, acks, target, pass, sealer, refusals, used>>

ReplaceTarget ==
  /\ Stopped /\ target.inc < MaxInc
  /\ target' = [inc |-> target.inc + 1, ev |-> [i \in Items |-> NoVersion],
                inst |-> [i \in Items |-> NoVersion]]
  /\ UNCHANGED <<journal, storage, acks, project, pass, sealer, refusals, used>>

Next ==
  \/ RegisterHomeJournal \/ CreateFile \/ CommitFile \/ AbandonFile
  \/ MarkReady \/ LoseFile
  \/ \E w \in Passes :
       \/ \E i \in Items : Start(w, i)
       \/ Register(w) \/ Write(w) \/ CompleteRead(w) \/ CompleteCommit(w)
       \/ RevalidateRead(w) \/ RevalidateCommit(w) \/ Retained(w)
       \/ BindRead(w) \/ BindCommit(w) \/ Acknowledge(w) \/ Use(w) \/ Crash(w)
  \/ \E i \in Items : Refuse(i)
  \/ Cut
  \/ \E s \in Sealers : \/ \E e \in 1 .. MaxEpoch : FinalizeRead(s, e)
                        \/ FinalizeCommit(s) \/ SealerCrash(s)
  \/ \E g \in Bases : EditGate(g)
  \/ ReplaceTarget

Spec == Init /\ [][Next]_vars

(* ---- properties ---- *)

Versions == Sources \union {NoVersion}
AnyBasis == Bases \union {NoBasis}
Rows ==
  [at : {"none", "pending", "done", "refused"}, inc : Nat, basis : AnyBasis,
   reg : Nat, done : Nat, ver : Versions, reval : AnyBasis, checked : Nat]

\* The types of the journal, and what its CHECKs and triggers enforce: only a
\* completed operation has an epoch, and none is dated after the current one.
TypeOK ==
  /\ epoch \in Nat \ {0}
  /\ rows \in [Items -> Rows]
  /\ \A i \in Items :
       /\ rows[i].at = "done" <=> rows[i].done # 0
       /\ rows[i].done <= epoch /\ rows[i].reg <= epoch
  /\ catalog \in {"none", "bound", "ready"}
  /\ file \in {"none", "partial", "whole", "broken"}

\* "Later admissions do not change its digest": the roster of a final seal is
\* at every later moment what the completed rows through its epoch give, so
\* sealed_reference_epoch never refuses it.
SealsFrozen ==
  \A e \in 1 .. MaxEpoch :
    seals[e].status = "final" => seals[e].roster = CompletedThrough(e)

\* A completion is dated by the epoch in which its evidence was verified, and
\* carries a revalidated basis exactly when a seal had overtaken it.
VerifiedInEpoch ==
  \A i \in Items : rows[i].at = "done" =>
    /\ rows[i].checked = rows[i].done
    /\ rows[i].reg # rows[i].done <=> rows[i].reval # NoBasis

\* Effects of an item run only in the store and under the version the product
\* acknowledged for it, once and for all: across retries, edits of the gate,
\* replaced target stores and a lost journal (home_gate_use before effects).
AdmittedUse ==
  \A u \in used :
    /\ acks[u.item].pin.kind = "exact"
    /\ acks[u.item].pin.ver = u.ver /\ acks[u.item].inc = u.inc

\* A journal that opens still has every pin the product acknowledged, with its
\* operation completed: a lost file is never replaced by an empty journal.
AckHonoured ==
  Open => \A i \in Items : acks[i] # NoAck =>
    /\ pins[i] = acks[i].pin
    /\ rows[pins[i].op].at = "done" /\ rows[pins[i].op].ver = pins[i].ver
=============================================================================
