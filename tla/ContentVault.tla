---------------------------- MODULE ContentVault ----------------------------
(***************************************************************************)
(* Per-scope content keys and their destruction                            *)
(* (crates/app/src/content_vault.rs, content_vault/scope_key.rs), with the *)
(* store's memory of folded scopes (`read_stamp`, `remember` in            *)
(* crates/store/src/lib.rs), whose validity rests on the vault's epoch.    *)
(*                                                                         *)
(* A scope's key is a generation number, 0 when its `.dek` file is absent. *)
(* A thread holds the scope's file lock across steps only while it erases  *)
(* (exclusively) or publishes under `retain` (shared): both are read off   *)
(* its program counter.  Scopes are outside every project, so custody      *)
(* delegation (`acting`, `holds`) plays no part.                           *)
(***************************************************************************)
EXTENDS Naturals, Sequences

CONSTANTS
  Scopes,       \* scopes outside every project
  Threads,      \* threads using the vault
  Hosted,       \* is an edge ledger configured (EdgeErasureLedger)
  MaxKeys,      \* bound: keys minted per scope
  MaxRows,      \* bound: rows per scope
  MaxFaults,    \* bound: crashes and failed file, network or KMS calls
  None          \* no scope

ASSUME VaultAssumption ==
  /\ Hosted \in BOOLEAN
  /\ MaxKeys \in Nat
  /\ MaxRows \in Nat
  /\ MaxFaults \in Nat
  /\ None \notin Scopes

VARIABLES
  disk,       \* the data root: key files, tombstones, local ledger, rows
  image,      \* the last backup of the data root
  edge,       \* key ids in the object-locked edge store
  up,         \* is the process serving
  linked,     \* did the sweep of this open reach the edge ledger
  fence,      \* erased_key_ids of this process
  cache,      \* cache[s]: unwrapped key in memory, 0 when absent
  op,         \* op[t]: what thread t is doing
  pushes,     \* detached pushes to the edge still running
  read,       \* the `remember` call in flight on the connection
  memo,       \* memo[s]: the remembered fold
  minted,     \* minted[s]: keys generated so far
  faults,     \* faults so far
  acked,      \* history: erasures `crypto_erase` recorded in its ledger
  confirmed,  \* history: erasures `erase_scope_key` confirmed
  rolled      \* history: recorded erasures a whole-root restore took back

memory == <<fence, cache, op, pushes, read, memo>>
history == <<acked, confirmed, rolled>>
vars == <<disk, image, edge, up, linked, memory, minted, faults, history>>

(* `disk.rows[s]` lists the generation each stored row was sealed under. *)
Disks == [key : [Scopes -> Nat], tomb : SUBSET Scopes,
          ledger : SUBSET Scopes, rows : [Scopes -> Seq(Nat)]]

Idle == [pc |-> "idle", scope |-> None, gen |-> 0, confirm |-> FALSE]
Sealing == [pc : {"append", "prepared", "publish"}, scope : Scopes,
            gen : Nat \ {0}, confirm : BOOLEAN]
Waiting == [pc : {"create", "confirmed"}, scope : Scopes, gen : {0}, confirm : BOOLEAN]
Erasing == [pc : {"marked", "fenced", "record", "push"}, scope : Scopes, gen : {0},
            confirm : BOOLEAN]
Ops == {Idle} \cup Sealing \cup Waiting \cup Erasing

(* A remembered answer: the rows that opened, the head of its stamp and    *)
(* whether the epoch of its stamp is still the vault's.                    *)
Memos == [value : SUBSET Nat, head : Nat, current : BOOLEAN, held : BOOLEAN]
NoMemo == [value |-> {}, head |-> 0, current |-> FALSE, held |-> FALSE]
NoRead == [pc |-> "idle", scope |-> None, value |-> {}, head |-> 0,
           current |-> FALSE]
Reads == {NoRead} \cup [pc : {"fold", "keep"}, scope : Scopes, value : SUBSET Nat,
                        head : Nat, current : BOOLEAN]

TypeOK ==
  /\ disk \in Disks
  /\ image \in Disks
  /\ edge \subseteq Scopes
  /\ up \in BOOLEAN
  /\ linked \in BOOLEAN
  /\ fence \subseteq Scopes
  /\ cache \in [Scopes -> Nat]
  /\ op \in [Threads -> Ops]
  /\ pushes \subseteq Scopes
  /\ read \in Reads
  /\ memo \in [Scopes -> Memos]
  /\ minted \in [Scopes -> Nat]
  /\ faults \in Nat
  /\ acked \subseteq Scopes
  /\ confirmed \subseteq Scopes
  /\ rolled \subseteq Scopes

FreshRoot == [key |-> [s \in Scopes |-> 0], tomb |-> {}, ledger |-> {},
              rows |-> [s \in Scopes |-> <<>>]]

(* Memory of a process that has just started. *)
FreshMemory ==
  /\ cache' = [s \in Scopes |-> 0]
  /\ op' = [t \in Threads |-> Idle]
  /\ pushes' = {}
  /\ read' = NoRead
  /\ memo' = [s \in Scopes |-> NoMemo]

Init ==
  /\ disk = FreshRoot
  /\ image = FreshRoot
  /\ edge = {}
  /\ up = TRUE
  /\ linked = TRUE
  /\ fence = {}
  /\ cache = [s \in Scopes |-> 0]
  /\ op = [t \in Threads |-> Idle]
  /\ pushes = {}
  /\ read = NoRead
  /\ memo = [s \in Scopes |-> NoMemo]
  /\ minted = [s \in Scopes |-> 0]
  /\ faults = 0
  /\ acked = {}
  /\ confirmed = {}
  /\ rolled = {}

-----------------------------------------------------------------------------
(* Locks, keys and the epoch *)

Fault == faults < MaxFaults /\ faults' = faults + 1

Exclusive(s) == \E t \in Threads : op[t].scope = s /\ op[t].pc \in {"marked", "fenced"}
Retained(s) == \E t \in Threads : op[t].scope = s /\ op[t].pc = "publish"

(* `shared`: granted unless an eraser holds the lock. *)
CanShare(s) == ~Exclusive(s)

(* `exclusive`: granted when nobody holds the lock. *)
CanExclude(s) == ~Exclusive(s) /\ ~Retained(s)

(* `available`: no tombstone. *)
Available(s) == s \notin disk.tomb

(* `with_legacy_key` on an existing key file: a cached key must be the one *)
(* on disk; an uncached one is unwrapped and cached unless fenced.         *)
Resolves(s) ==
  /\ Available(s)
  /\ disk.key[s] # 0
  /\ \/ cache[s] = disk.key[s]
     \/ cache[s] = 0 /\ s \notin fence

Goto(t, s, p, g, c) ==
  op' = [op EXCEPT ![t] = [pc |-> p, scope |-> s, gen |-> g, confirm |-> c]]
Return(t) == op' = [op EXCEPT ![t] = Idle]

(* `advance_epoch`: no stamp taken before now will be matched again. *)
AdvanceEpoch ==
  /\ memo' = [s \in Scopes |-> [memo[s] EXCEPT !.current = FALSE]]
  /\ read' = [read EXCEPT !.current = FALSE]

-----------------------------------------------------------------------------
(* Appending a protected record *)

(* `encode` with the key on disk, or the first half when it is absent: the *)
(* shared lock is dropped before the exclusive one is asked for.           *)
Encode(t, s) ==
  /\ up /\ op[t].pc = "idle" /\ CanShare(s)
  /\ Len(disk.rows[s]) < MaxRows
  /\ \/ /\ Resolves(s)
        /\ cache' = [cache EXCEPT ![s] = disk.key[s]]
        /\ Goto(t, s, "append", disk.key[s], FALSE)
     \/ /\ Available(s) /\ disk.key[s] = 0
        /\ Goto(t, s, "create", 0, FALSE)
        /\ UNCHANGED cache
  /\ UNCHANGED <<disk, image, edge, up, linked, fence, pushes, read, memo, minted,
                 faults, history>>

(* Mutant: the tombstone is not looked at again under the exclusive lock. *)
StillAvailable_Skipped(s) == TRUE

(* The second look at the tombstone, under the exclusive lock. *)
StillAvailable(s) == Available(s)

(* `existing_or_new_key(create)`: the key on disk, else a generated one. *)
KeyFor(s) == IF disk.key[s] # 0 THEN disk.key[s] ELSE minted[s] + 1

(* The second half: under the exclusive lock, a key another thread created *)
(* meanwhile is used, else one is minted; the fence is checked last.  The  *)
(* write is refused when the scope is erased, when making or storing the   *)
(* key fails, and, with the key now on disk, when unwrapping it fails.     *)
EncodeCreate(t) ==
  LET s == op[t].scope
  IN /\ up /\ op[t].pc = "create" /\ CanExclude(s)
     /\ \/ Return(t) /\ UNCHANGED <<disk, cache, minted>>
        \/ /\ StillAvailable(s)
           /\ KeyFor(s) <= MaxKeys
           /\ disk' = [disk EXCEPT !.key[s] = KeyFor(s)]
           /\ minted' = [minted EXCEPT ![s] = IF disk.key[s] = 0 THEN @ + 1 ELSE @]
           /\ \/ Return(t) /\ UNCHANGED cache
              \/ /\ s \notin fence
                 /\ cache' = [cache EXCEPT ![s] = KeyFor(s)]
                 /\ Goto(t, s, "append", KeyFor(s), FALSE)
     /\ UNCHANGED <<image, edge, up, linked, fence, pushes, read, memo, faults, history>>

(* The row commits, or its transaction rolls back. *)
Append_(t) ==
  LET s == op[t].scope
  IN /\ up /\ op[t].pc = "append"
     /\ Return(t)
     /\ \/ disk' = [disk EXCEPT !.rows[s] = Append(@, op[t].gen)]
        \/ UNCHANGED disk
     /\ UNCHANGED <<image, edge, up, linked, fence, cache, pushes, read, memo, minted,
                    faults, history>>

-----------------------------------------------------------------------------
(* Remembered folds *)

Opened(s, g) == {i \in 1..Len(disk.rows[s]) : disk.rows[s][i] = g}

(* `remember`: a hit answers from memory and changes nothing; otherwise    *)
(* the stamp is taken and the fold begins.                                 *)
Remember(s) ==
  /\ up /\ read.pc = "idle"
  /\ ~(memo[s].held /\ memo[s].current /\ memo[s].head = Len(disk.rows[s]))
  /\ read' = [pc |-> "fold", scope |-> s, value |-> {},
              head |-> Len(disk.rows[s]), current |-> TRUE]
  /\ UNCHANGED <<disk, image, edge, up, linked, fence, cache, op, pushes, memo,
                 minted, faults, history>>

(* The fold's `decode_scope`: one resolution of the key for every row, the *)
(* rows it cannot open dropped; an unresolved key moves the epoch.         *)
FoldRead ==
  LET s == read.scope
  IN /\ up /\ read.pc = "fold"
     /\ \/ /\ disk.rows[s] = <<>>
           /\ read' = [read EXCEPT !.pc = "keep"]
           /\ UNCHANGED <<cache, memo>>
        \/ /\ disk.rows[s] # <<>> /\ CanShare(s) /\ Resolves(s)
           /\ cache' = [cache EXCEPT ![s] = disk.key[s]]
           /\ read' = [read EXCEPT !.pc = "keep", !.value = Opened(s, disk.key[s])]
           /\ UNCHANGED memo
        \/ /\ disk.rows[s] # <<>> /\ CanShare(s) /\ ~Resolves(s)
           /\ read' = [read EXCEPT !.pc = "keep", !.current = FALSE]
           /\ memo' = [r \in Scopes |-> [memo[r] EXCEPT !.current = FALSE]]
           /\ UNCHANGED cache
     /\ UNCHANGED <<disk, image, edge, up, linked, fence, op, pushes, minted, faults,
                    history>>

(* Key custody is unavailable just now: the rows read as absent. *)
FoldReadFails ==
  /\ up /\ read.pc = "fold" /\ CanShare(read.scope)
  /\ disk.rows[read.scope] # <<>> /\ cache[read.scope] = 0
  /\ Fault
  /\ read' = [read EXCEPT !.pc = "keep", !.current = FALSE]
  /\ memo' = [r \in Scopes |-> [memo[r] EXCEPT !.current = FALSE]]
  /\ UNCHANGED <<disk, image, edge, up, linked, fence, cache, op, pushes, minted,
                 history>>

(* The answer is kept under the stamp taken before the fold. *)
Keep ==
  /\ up /\ read.pc = "keep"
  /\ memo' = [memo EXCEPT ![read.scope] =
       [value |-> read.value, head |-> read.head, current |-> read.current, held |-> TRUE]]
  /\ read' = NoRead
  /\ UNCHANGED <<disk, image, edge, up, linked, fence, cache, op, pushes, minted,
                 faults, history>>

-----------------------------------------------------------------------------
(* Prepared keys *)

(* `recorded_confirmed`: the local ledger together with the edge's. *)
Recorded == disk.ledger \cup IF Hosted THEN edge ELSE {}

(* `confirmed_scope`: the ledgers do not know the scope as erased.  An     *)
(* unreachable edge refuses, which changes nothing.                        *)
ConfirmScope(t, s) ==
  /\ up /\ op[t].pc = "idle"
  /\ s \notin Recorded
  /\ Goto(t, s, "confirmed", 0, FALSE)
  /\ UNCHANGED <<disk, image, edge, up, linked, fence, cache, pushes, read, memo,
                 minted, faults, history>>

(* `prepare_scope_key` on an existing key, `initialize_scope_key` creating *)
(* it; both look at the tombstone under the lock, and refuse an erased     *)
(* scope, a missing key or one that cannot be made or unwrapped.           *)
PrepareScopeKey(t) ==
  LET s == op[t].scope
  IN /\ up /\ op[t].pc = "confirmed"
     /\ \/ CanShare(s) /\ Return(t) /\ UNCHANGED <<disk, minted>>
        \/ /\ CanShare(s) /\ Available(s) /\ disk.key[s] # 0
           /\ Goto(t, s, "prepared", disk.key[s], FALSE)
           /\ UNCHANGED <<disk, minted>>
        \/ /\ CanExclude(s) /\ Available(s) /\ disk.key[s] = 0
           /\ KeyFor(s) <= MaxKeys
           /\ disk' = [disk EXCEPT !.key[s] = KeyFor(s)]
           /\ minted' = [minted EXCEPT ![s] = @ + 1]
           /\ Goto(t, s, "prepared", KeyFor(s), FALSE) \/ Return(t)
     /\ UNCHANGED <<image, edge, up, linked, fence, cache, pushes, read, memo, faults,
                    history>>

(* `retain`: the shared lock, then tombstone and key file are checked; the *)
(* publication runs under the lock.  A refused or finished caller drops    *)
(* the prepared key.                                                       *)
Retain(t) ==
  LET s == op[t].scope
  IN /\ up /\ op[t].pc = "prepared" /\ CanShare(s)
     /\ IF Available(s) /\ disk.key[s] = op[t].gen /\ Len(disk.rows[s]) < MaxRows
          THEN Goto(t, s, "publish", op[t].gen, FALSE)
          ELSE Return(t)
     /\ UNCHANGED <<disk, image, edge, up, linked, fence, cache, pushes, read, memo,
                    minted, faults, history>>

(* The publication commits a row sealed under the retained key, or rolls   *)
(* back; the lock is released and the key stays prepared.                  *)
Publish(t) ==
  LET s == op[t].scope
  IN /\ up /\ op[t].pc = "publish"
     /\ Goto(t, s, "prepared", op[t].gen, FALSE)
     /\ \/ disk' = [disk EXCEPT !.rows[s] = Append(@, op[t].gen)]
        \/ UNCHANGED disk
     /\ UNCHANGED <<image, edge, up, linked, fence, cache, pushes, read, memo, minted,
                    faults, history>>

-----------------------------------------------------------------------------
(* Erasure *)

(* `erase_local_scope`: exclusive lock, then the durable tombstone.  With  *)
(* confirm the caller is `erase_scope_key`, else `crypto_erase`.           *)
EraseMark(t, s, confirm) ==
  /\ up /\ op[t].pc = "idle" /\ CanExclude(s)
  /\ disk' = [disk EXCEPT !.tomb = @ \cup {s}]
  /\ Goto(t, s, "marked", 0, confirm)
  /\ UNCHANGED <<image, edge, up, linked, fence, cache, pushes, read, memo, minted,
                 faults, history>>

(* Mutant: the remembered folds are left alone. *)
EraseEpoch_Kept == UNCHANGED <<memo, read>>

EraseEpoch == AdvanceEpoch

(* The fence goes up and the live key is dropped under one mutex. *)
EraseFence(t) ==
  LET s == op[t].scope
  IN /\ up /\ op[t].pc = "marked"
     /\ fence' = fence \cup {s}
     /\ cache' = [cache EXCEPT ![s] = 0]
     /\ EraseEpoch
     /\ Goto(t, s, "fenced", 0, op[t].confirm)
     /\ UNCHANGED <<disk, image, edge, up, linked, pushes, minted, faults, history>>

(* The key file goes and the lock is released. *)
EraseUnlink(t) ==
  LET s == op[t].scope
  IN /\ up /\ op[t].pc = "fenced"
     /\ disk' = [disk EXCEPT !.key[s] = 0]
     /\ Goto(t, s, "record", 0, op[t].confirm)
     /\ UNCHANGED <<image, edge, up, linked, fence, cache, pushes, read, memo, minted,
                    faults, history>>

(* The local ledger is appended and synced.  `crypto_erase` is done: under *)
(* an edge ledger a detached thread pushes the id.                         *)
EraseRecord(t) ==
  LET s == op[t].scope
  IN /\ up /\ op[t].pc = "record"
     /\ disk' = [disk EXCEPT !.ledger = @ \cup {s}]
     /\ \/ /\ op[t].confirm /\ Hosted
           /\ Goto(t, s, "push", 0, TRUE)
           /\ UNCHANGED <<pushes, acked, confirmed>>
        \/ /\ op[t].confirm /\ ~Hosted
           /\ Return(t)
           /\ confirmed' = confirmed \cup {s}
           /\ UNCHANGED <<pushes, acked>>
        \/ /\ ~op[t].confirm
           /\ Return(t)
           /\ acked' = acked \cup {s}
           /\ pushes' = IF Hosted THEN pushes \cup {s} ELSE pushes
           /\ UNCHANGED confirmed
     /\ UNCHANGED <<image, edge, up, linked, fence, cache, read, memo, minted, faults,
                    rolled>>

(* Mutant: the push is queued, not waited for. *)
ConfirmedPush_Queued(s) == UNCHANGED edge

(* `record_confirmed` pushes and reads the id back before it answers Ok. *)
ConfirmedPush(s) == edge' = edge \cup {s}

ErasePush(t) ==
  LET s == op[t].scope
  IN /\ up /\ op[t].pc = "push"
     /\ ConfirmedPush(s)
     /\ confirmed' = confirmed \cup {s}
     /\ Return(t)
     /\ UNCHANGED <<disk, image, up, linked, fence, cache, pushes, read, memo, minted,
                    faults, acked, rolled>>

(* A file or network call of an erasure fails: the caller is told (or, for *)
(* the ledger write of `crypto_erase`, a warning is logged), the lock is   *)
(* released and what was done stays done: a tombstone whose directory      *)
(* could not be synced stands without a fence.                             *)
EraseFails(t) ==
  /\ up /\ op[t].pc \in {"marked", "fenced", "record", "push"}
  /\ Fault
  /\ Return(t)
  /\ UNCHANGED <<disk, image, edge, up, linked, fence, cache, pushes, read, memo,
                 minted, history>>

(* A detached push reaches the edge or gives up. *)
PushEnds(s) ==
  /\ s \in pushes
  /\ pushes' = pushes \ {s}
  /\ \/ edge' = edge \cup {s} /\ UNCHANGED faults
     \/ Fault /\ UNCHANGED edge
  /\ UNCHANGED <<disk, image, up, linked, fence, cache, op, read, memo, minted, history>>

-----------------------------------------------------------------------------
(* Crash, backup, restore and the sweep at every open *)

Crash ==
  /\ up /\ Fault
  /\ up' = FALSE
  /\ fence' = {}
  /\ FreshMemory
  /\ UNCHANGED <<disk, image, edge, linked, minted, history>>

Backup ==
  /\ image # disk
  /\ image' = disk
  /\ UNCHANGED <<disk, edge, up, linked, memory, minted, faults, history>>

(* The whole data root is put back, tombstones and local ledger included. *)
RestoreRoot ==
  /\ ~up /\ disk # image
  /\ disk' = image
  /\ rolled' = rolled \cup (acked \ image.ledger)
  /\ UNCHANGED <<image, edge, up, linked, memory, minted, faults, acked, confirmed>>

(* Key files are put back beside the current ledger, as when a keyring is  *)
(* copied from a backup, over the present tombstones or in their place.    *)
RestoreKeys(tomb) ==
  /\ ~up
  /\ tomb \in {disk.tomb, image.tomb}
  /\ disk.key # image.key \/ disk.tomb # tomb
  /\ disk' = [disk EXCEPT !.key = image.key, !.tomb = tomb]
  /\ UNCHANGED <<image, edge, up, linked, memory, minted, faults, history>>

(* `recorded` of the configured ledger: an unreachable edge leaves the     *)
(* local records alone.                                                    *)
RecordedAtOpen(reach) == disk.ledger \cup IF Hosted /\ reach THEN edge ELSE {}

(* `local_erasure_in_force`: the sweep skips such a scope. *)
InForce(s) == s \in disk.tomb /\ disk.key[s] = 0

(* Mutant: only the scopes swept with success are fenced. *)
SweepFence_Swept(recorded, swept) == recorded \cap swept

(* Every recorded scope is fenced, before and whether or not its files go. *)
SweepFence(recorded, swept) == recorded

(* Opening the store: `reerase_recorded` fences every recorded scope, then *)
(* erases the ones not in force.  Of these, `marked` get their tombstone   *)
(* and `swept` lose their key file too; the rest fail and are logged.  A   *)
(* reachable edge is sent the local ids it lacks, `sent` of them arrive.   *)
Open(reach, marked, swept, sent) ==
  LET recorded == RecordedAtOpen(reach)
      todo     == {s \in recorded : ~InForce(s)}
      unsent   == IF Hosted /\ reach THEN disk.ledger \ edge ELSE {}
      clean    == reach /\ swept = todo /\ sent = unsent
  IN /\ ~up
     /\ reach \/ Hosted
     /\ swept \subseteq marked /\ marked \subseteq todo /\ sent \subseteq unsent
     /\ IF clean THEN UNCHANGED faults ELSE Fault
     /\ up' = TRUE
     /\ linked' = reach
     /\ fence' = SweepFence(recorded, swept)
     /\ disk' = [disk EXCEPT !.tomb = @ \cup marked,
                             !.key = [s \in Scopes |-> IF s \in swept THEN 0 ELSE @[s]]]
     /\ edge' = edge \cup sent
     /\ UNCHANGED <<image, cache, op, pushes, read, memo, minted, history>>

-----------------------------------------------------------------------------
Next ==
  \/ \E t \in Threads, s \in Scopes : Encode(t, s) \/ ConfirmScope(t, s)
  \/ \E t \in Threads, s \in Scopes, confirm \in BOOLEAN : EraseMark(t, s, confirm)
  \/ \E t \in Threads :
       EncodeCreate(t) \/ Append_(t) \/ PrepareScopeKey(t) \/ Retain(t) \/ Publish(t)
         \/ EraseFence(t) \/ EraseUnlink(t) \/ EraseRecord(t) \/ ErasePush(t)
         \/ EraseFails(t)
  \/ \E s \in Scopes : Remember(s) \/ PushEnds(s)
  \/ FoldRead \/ FoldReadFails \/ Keep
  \/ Crash \/ Backup \/ RestoreRoot
  \/ \E tomb \in SUBSET Scopes : RestoreKeys(tomb)
  \/ \E reach \in BOOLEAN, marked, swept, sent \in SUBSET Scopes :
       Open(reach, marked, swept, sent)

Spec == Init /\ [][Next]_vars

-----------------------------------------------------------------------------
(* Correctness *)

(* A row of the scope can be opened: by the codec, or through a key        *)
(* prepared from here on.                                                  *)
Readable(s) ==
  up /\ Opened(s, disk.key[s]) # {}
     /\ (Resolves(s) \/ (Available(s) /\ disk.key[s] # 0 /\ s \notin Recorded))

(* SECAUD-6, DR-0086: an erasure `crypto_erase` recorded is never undone   *)
(* by a crash, a writer or reader already under way, a failed sweep or a   *)
(* restored keyring; only a restore of the whole root can (see `rolled`).  *)
AckedStaysErased == \A s \in acked \ rolled : ~Readable(s)

(* An erasure `erase_scope_key` answered Ok survives even a restore of the *)
(* whole root on a Hosted deployment, at every open that reaches the edge. *)
ConfirmedStaysErased == Hosted /\ linked => \A s \in confirmed : ~Readable(s)

(* `read_stamp`: "Two equal stamps of the same scopes mean every read of   *)
(* those scopes between them would have answered the same": a remembered   *)
(* fold still matched is what the fold would answer now, unless an eraser  *)
(* holds the scope or gave up between its tombstone and its fence.         *)
MemoAgrees ==
  \A s \in Scopes :
    memo[s].held /\ memo[s].current /\ memo[s].head = Len(disk.rows[s])
        /\ ~Exclusive(s) /\ (Available(s) \/ s \in fence)
      => memo[s].value = IF Resolves(s) THEN Opened(s, disk.key[s]) ELSE {}

(* `PreparedScopeKey::retain`: "Retain through the callback's commit": no  *)
(* publication is under way on a scope that is erased or rekeyed, so what  *)
(* it commits can be opened when it commits.                               *)
RetainedKeyLive ==
  \A t \in Threads :
    op[t].pc = "publish" => Available(op[t].scope) /\ disk.key[op[t].scope] = op[t].gen

(* `with_legacy_key`: "minting a replacement key after erasure would       *)
(* resurrect the scope": in a running process no key file appears for a    *)
(* scope that carries a tombstone, also when the writer found the key      *)
(* missing before the erasure took the lock.                               *)
NoReplacementKey ==
  [][\A s \in disk.tomb : up /\ up' /\ disk.key[s] = 0 => disk'.key[s] = 0]_vars

(* EdgeErasureLedger: an erasure is recorded out of band "so an erasure    *)
(* survives a whole-disk restore of the hosted Hub", but for a restore and *)
(* an unreachable edge "at that boot".                                     *)
AckedSurvivesRestore == Hosted /\ linked => \A s \in acked : ~Readable(s)

-----------------------------------------------------------------------------
(* The inductive invariant behind the erasure properties.  What keeps a    *)
(* recorded scope shut is the fence, not the files: it covers the whole    *)
(* local ledger while the process serves, and a fenced scope is never      *)
(* cached.                                                                 *)
FenceInv ==
  /\ \A s \in fence : cache[s] = 0
  /\ \A t \in Threads :
       op[t].pc \in {"fenced", "record", "push"} => op[t].scope \in fence
  /\ up => disk.ledger \subseteq fence
  /\ ~up => /\ \A s \in Scopes : cache[s] = 0
            /\ \A t \in Threads : op[t] = Idle
  /\ acked \ rolled \subseteq disk.ledger
  /\ Hosted => confirmed \subseteq edge
  /\ Hosted /\ up /\ linked => confirmed \subseteq fence

(* An eraser's scope carries its tombstone, a publication's scope does not: *)
(* the two never hold the lock together.                                   *)
LockInv ==
  /\ \A t \in Threads :
       op[t].pc \in {"marked", "fenced"} => op[t].scope \in disk.tomb
  /\ RetainedKeyLive
  /\ ~up => \A t \in Threads : op[t] = Idle
=============================================================================
