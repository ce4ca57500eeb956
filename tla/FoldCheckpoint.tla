--------------------------- MODULE FoldCheckpoint ---------------------------
(***************************************************************************)
(* Folding one lifecycle of one scope from its newest checkpoint           *)
(* (crates/store/src/snapshot.rs), across releases whose reducers differ,  *)
(* power losses and the erasure of the scope's key.                        *)
(*                                                                         *)
(* `Store::fold` runs outside a transaction: the checkpoint row, the event *)
(* it is anchored at and the tail are three reads, and other connections   *)
(* may commit in between.  An admission folds inside its own transaction.  *)
(***************************************************************************)
EXTENDS Naturals, Sequences, FiniteSets

CONSTANTS
  Builds,       \* releases: a codec version and a reducer build
  Events,       \* events of the lifecycle
  LState, L0,   \* its states and its default
  Evolve,       \* Evolve[b][<<st, e>>]: the reducer of release b
  Every,        \* events between checkpoints (SnapshotCodec::every)
  Codec,        \* has the store a content codec
  Protected,    \* the kinds the codec seals
  Readers,      \* calls of `Store::fold` that may be in flight at once
  MaxRows,      \* bound: rows of the scope
  MaxBatch      \* bound: events of one admission

Kinds == {"lifecycle", "record"}

ASSUME CheckpointAssumption ==
  /\ L0 \in LState
  /\ Evolve \in [Builds -> [LState \X Events -> LState]]
  /\ Every \in Nat \ {0}
  /\ Codec \in BOOLEAN
  /\ Protected \subseteq Kinds
  /\ MaxRows \in Nat
  /\ MaxBatch \in Nat

VARIABLES
  rows,      \* table events, this scope: rows[i] is the row at position i - 1
  snap,      \* table scope_snapshots: this lifecycle's row
  disk,      \* rows and snap after a power loss
  erased,    \* is the scope's key destroyed
  build,     \* the release that is running
  reader     \* reader[r]: a fold in flight; `shut` is history: was the key
             \* destroyed when it began

vars == <<rows, snap, disk, erased, build, reader>>

Rows == [kind : {"lifecycle"}, event : Events] \cup [kind : {"record"}]
Record == [kind |-> "record"]

(* The hash of the anchored row stands for the row. *)
NoSnap == [position |-> 0]
Snaps == {NoSnap} \cup [position : Nat \ {0}, build : Builds, anchor : Rows, state : LState]

Idle == [pc |-> "idle"]
Folds ==
  {Idle}
    \cup [pc : {"anchor"}, row : Snaps \ {NoSnap}, shut : BOOLEAN]
    \cup [pc : {"tail"}, state : LState, after : Nat, shut : BOOLEAN]
    \cup [pc : {"done"}, state : LState, seen : Nat, shut : BOOLEAN]
    \cup [pc : {"refused"}]

TypeOK ==
  /\ rows \in Seq(Rows)
  /\ snap \in Snaps
  /\ disk \in [rows : Seq(Rows), snap : Snaps]
  /\ erased \in BOOLEAN
  /\ build \in Builds
  /\ reader \in [Readers -> Folds]

Init ==
  /\ rows = <<>>
  /\ snap = NoSnap
  /\ disk = [rows |-> <<>>, snap |-> NoSnap]
  /\ erased = FALSE
  /\ build \in Builds
  /\ reader = [r \in Readers |-> Idle]

-----------------------------------------------------------------------------
(* Folding *)

(* `codec.decode`: a row of a kind that is not sealed passes through. *)
Opens(kind) == ~(Codec /\ erased /\ kind \in Protected)

(* `evolve` by release b over a stretch of rows: other kinds are skipped. *)
Evolved(b, st, h) ==
  LET f[i \in 0..Len(h)] ==
        IF i = 0 THEN st
        ELSE IF h[i].kind = "lifecycle" THEN Evolve[b][<<f[i - 1], h[i].event>>]
        ELSE f[i - 1]
  IN f[Len(h)]

Rest(after) == SubSeq(rows, after + 1, Len(rows))

(* Mutant: the reducer build is not part of the key. *)
Selected_AnyBuild(row) == row # NoSnap

(* The key `load` and `checkpoint` select by. *)
Selected(row) == row # NoSnap /\ row.build = build

(* The rest of `load`: the anchor still stands and the codec opens it. *)
Valid(row) ==
  /\ row.position \in 1..Len(rows)
  /\ rows[row.position].kind = "lifecycle"
  /\ rows[row.position] = row.anchor
  /\ Opens("lifecycle")

(* Mutant: the checkpointed prefix is not opened. *)
Unavailable_Tail(after) == \E i \in (after + 1)..Len(rows) : ~Opens(rows[i].kind)

(* With a codec the fold opens every retained row, checkpointed or not. *)
Unavailable(after) == \E i \in 1..Len(rows) : ~Opens(rows[i].kind)

(* The checkpoint row; without one the whole history is the tail. *)
LoadRow(r) ==
  /\ reader[r].pc = "idle"
  /\ reader' = [reader EXCEPT ![r] =
       IF Selected(snap)
         THEN [pc |-> "anchor", row |-> snap, shut |-> erased]
         ELSE [pc |-> "tail", state |-> L0, after |-> 0, shut |-> erased]]
  /\ UNCHANGED <<rows, snap, disk, erased, build>>

LoadAnchor(r) ==
  LET row == reader[r].row
  IN /\ reader[r].pc = "anchor"
     /\ reader' = [reader EXCEPT ![r] =
          IF Valid(row)
            THEN [pc |-> "tail", state |-> row.state, after |-> row.position,
                  shut |-> reader[r].shut]
            ELSE [pc |-> "tail", state |-> L0, after |-> 0, shut |-> reader[r].shut]]
     /\ UNCHANGED <<rows, snap, disk, erased, build>>

(* The tail is one statement: it sees one state of the table. *)
ReadTail(r) ==
  LET after == reader[r].after
  IN /\ reader[r].pc = "tail"
     /\ reader' = [reader EXCEPT ![r] =
          IF Unavailable(after)
            THEN [pc |-> "refused"]
            ELSE [pc |-> "done", seen |-> Len(rows), shut |-> reader[r].shut,
                  state |-> Evolved(build, reader[r].state, Rest(after))]]
     /\ UNCHANGED <<rows, snap, disk, erased, build>>

Answer(r) ==
  /\ reader[r].pc \in {"done", "refused"}
  /\ reader' = [reader EXCEPT ![r] = Idle]
  /\ UNCHANGED <<rows, snap, disk, erased, build>>

-----------------------------------------------------------------------------
(* Appending *)

(* The fold inside an admission's transaction. *)
FoldNow ==
  IF Selected(snap) /\ Valid(snap)
    THEN Evolved(build, snap.state, Rest(snap.position))
    ELSE Evolved(build, L0, rows)

(* `new_state`: the decided batch evolved as it was appended. *)
NewState(st, batch) == Evolved(build, st, batch)

(* `checkpoint`: once the interval is crossed, a row of this release       *)
(* replaces whatever row there was.  A state or a codec that cannot encode *)
(* it leaves the old one.                                                  *)
Checkpoint(st) ==
  LET previous == IF Selected(snap) THEN snap.position ELSE 0
      since    == {i \in (previous + 1)..Len(rows') : rows'[i].kind = "lifecycle"}
      head     == CHOOSE i \in since : \A j \in since : j <= i
  IN \/ UNCHANGED snap
     \/ /\ Cardinality(since) >= Every
        /\ snap' = [position |-> head, build |-> build, anchor |-> rows'[head],
                    state |-> st]

(* `admit`, `admit_with_key` and `admit_request`: fold, decide, append and *)
(* checkpoint in one transaction; a refusal or a rollback changes nothing. *)
Admit(batch) ==
  /\ Len(rows) + Len(batch) <= MaxRows
  /\ ~Unavailable(0) /\ Opens("lifecycle")
  /\ rows' = rows \o batch
  /\ Checkpoint(NewState(FoldNow, batch))
  /\ UNCHANGED <<disk, erased, build, reader>>

(* `append_record`: a row of another kind in the same scope. *)
AppendRecord ==
  /\ Len(rows) < MaxRows /\ Opens("record")
  /\ rows' = Append(rows, Record)
  /\ UNCHANGED <<snap, disk, erased, build, reader>>

-----------------------------------------------------------------------------
(* The environment *)

(* The vault destroys the scope's key. *)
Erase ==
  /\ Codec /\ ~erased
  /\ erased' = TRUE
  /\ UNCHANGED <<rows, snap, disk, build, reader>>

(* The write-ahead log reaches the disk. *)
Sync ==
  /\ disk # [rows |-> rows, snap |-> snap]
  /\ disk' = [rows |-> rows, snap |-> snap]
  /\ UNCHANGED <<rows, snap, erased, build, reader>>

(* The desk is started again, as any release, after a stop or a power loss. *)
Start(b, lost) ==
  /\ build' = b
  /\ reader' = [r \in Readers |-> Idle]
  /\ IF lost THEN rows' = disk.rows /\ snap' = disk.snap ELSE UNCHANGED <<rows, snap>>
  /\ UNCHANGED <<disk, erased>>

Next ==
  \/ \E r \in Readers : LoadRow(r) \/ LoadAnchor(r) \/ ReadTail(r) \/ Answer(r)
  \/ \E n \in 0..MaxBatch : \E batch \in [1..n -> [kind : {"lifecycle"}, event : Events]] :
       Admit(batch)
  \/ AppendRecord \/ Erase \/ Sync
  \/ \E b \in Builds, lost \in BOOLEAN : Start(b, lost)

Spec == Init /\ [][Next]_vars

-----------------------------------------------------------------------------
(* Correctness *)

Replay(b, n) == Evolved(b, L0, SubSeq(rows, 1, n))

(* INV-8, "Anything else ... is a full replay": whatever was appended,     *)
(* checkpointed or replaced between its reads, a fold answers the replay,  *)
(* by the running release, of all the rows its last read saw.              *)
FoldAgrees ==
  \A r \in Readers :
    reader[r].pc = "done" => reader[r].state = Replay(build, reader[r].seen)

(* "Events remain the only authority": a stored checkpoint is the replay   *)
(* of the history up to it by the release that wrote it, through power     *)
(* losses, changes of release and admissions that started from it.         *)
CheckpointAgrees ==
  snap # NoSnap =>
    /\ snap.position <= Len(rows)
    /\ snap.state = Replay(snap.build, snap.position)

(* A checkpoint is only ever a shortcut (`load`, `fold`, `checkpoint`).    *)
FoldsTrue == TypeOK /\ FoldAgrees /\ CheckpointAgrees

(* "Unavailable protected history must refuse a lifecycle fold rather than *)
(* vanish behind a checkpoint": once the key is destroyed no fold that     *)
(* begins answers over a history with a sealed row.                        *)
ErasedRefuses ==
  \A r \in Readers :
    reader[r].pc = "done" /\ reader[r].shut
      => \A i \in 1..reader[r].seen : rows[i].kind \notin Protected

-----------------------------------------------------------------------------
(* The inductive invariant behind ErasedRefuses: the key once destroyed    *)
(* stays destroyed, and what a fold saw is still there while its process   *)
(* runs.                                                                   *)
ShutInv ==
  /\ rows \in Seq(Rows) /\ disk.rows \in Seq(Rows)
  /\ erased => Codec
  /\ reader = [r \in Readers |-> reader[r]]
  /\ \A r \in Readers :
       /\ reader[r].pc \in {"anchor", "tail", "done"} => (reader[r].shut => erased)
       /\ reader[r].pc = "done" => reader[r].seen \in 0..Len(rows)
  /\ ErasedRefuses
=============================================================================
