---------------------------- MODULE StreamedUpload ----------------------------
(***************************************************************************)
(* One streamed upload (crates/app/src/resource_store.rs:                  *)
(* post_context_stream): a caller, a key and a file name, attempted as     *)
(* often as the client likes.                                              *)
(*                                                                         *)
(* The bytes gather in one staging file. `RECEIVING` holds the path while  *)
(* a request is alive; a request that ends, dropped by its client too,     *)
(* releases it. The file operations run on the runtime's blocking threads: *)
(* the one in flight when a request is dropped may still happen, later.    *)
(* The claim of the command comes after the transfer, with the digest of   *)
(* everything staged, then the file moves into the worktree and the        *)
(* resource is published with the receipt.                                 *)
(*                                                                         *)
(* The client's file is the chunks 1..Chunks in order; 0 is a hole.          *)
(***************************************************************************)
EXTENDS Naturals, Sequences, SequencesExt, FiniteSets, FiniteSetsExt

CONSTANTS
  Requests,   \* attempts
  Chunks,       \* chunks of the client's file
  Inodes,     \* bound: files created, in order
  Detached,   \* file operations that may outlive their request
  UploadNone

ASSUME UploadAssumption ==
  /\ Chunks \in Nat \ {0}
  /\ Inodes \in Nat
  /\ Detached \subseteq {"create", "write"}

ASSUME UploadNoneAssumption ==
  /\ UploadNone \notin Nat /\ UploadNone \notin Requests
  /\ UploadNone \notin Seq(0..Chunks)
  /\ UploadNone \notin
       [digest : Seq(0..Chunks), status : {"processing", "applied", "rejected", "expired"}]

VARIABLES
  uploadDisk,       \* contents of the files created so far
  staged,     \* the file at the staging path, or None
  placed,     \* the file moved into the worktree, or None
  receiving,  \* the request in RECEIVING, or None
  req,        \* Waiting, or the attempt under way
  late,       \* operations whose request was dropped, still to happen
  row,        \* table commands: digest and status of the key, or None
  published   \* the content the receipt published, or None

uploadVars == <<uploadDisk, staged, placed, receiving, req, late, row, published>>

File == [i \in 1..Chunks |-> i]
Contents == Seq(0..Chunks)
UploadIdle == [pc |-> "idle"]
Gone == [pc |-> "gone"]
Attempts ==
  [pc : {"opening", "receiving", "digesting", "digested", "claimed", "placed"},
   inode : 1..Inodes \cup {UploadNone}, append : BOOLEAN, from : 0..Chunks,
   got : 0..Chunks, out : 0..Chunks, digest : Contents, cut : Contents]
Writes == [op : {"write"}, inode : 1..Inodes, append : BOOLEAN, pos : 0..Chunks]
Creates == {[op |-> "create"]}

UploadTypeOK ==
  /\ uploadDisk \in Seq(Contents) /\ Len(uploadDisk) <= Inodes
  /\ staged \in 1..Len(uploadDisk) \cup {UploadNone}
  /\ placed \in 1..Len(uploadDisk) \cup {UploadNone}
  /\ receiving \in Requests \cup {UploadNone}
  /\ req \in [Requests -> {UploadIdle, Gone} \cup Attempts]
  /\ late \subseteq Writes \cup Creates
  /\ row = UploadNone \/ row \in
       [digest : Contents, status : {"processing", "applied", "rejected", "expired"}]
  /\ published \in Contents \cup {UploadNone}

UploadInit ==
  /\ uploadDisk = <<>>
  /\ staged = UploadNone /\ placed = UploadNone /\ receiving = UploadNone
  /\ req = [q \in Requests |-> UploadIdle]
  /\ late = {}
  /\ row = UploadNone /\ published = UploadNone

-----------------------------------------------------------------------------
(* The staging file *)

Length == IF staged = UploadNone THEN 0 ELSE Len(uploadDisk[staged])

(* File::create: truncate what is there, or make a new file. *)
Created ==
  IF staged = UploadNone THEN Append(uploadDisk, <<>>) ELSE [uploadDisk EXCEPT ![staged] = <<>>]
CreatedAs == IF staged = UploadNone THEN Len(uploadDisk) + 1 ELSE staged

(* A write at the writer's position, or at the end for a resumed transfer. *)
Written(content, append, pos) ==
  LET at == IF append THEN Len(content) + 1 ELSE pos + 1
      old(i) == IF i <= Len(content) THEN content[i] ELSE 0
  IN [i \in 1..Max({at, Len(content)}) |-> IF i = at THEN pos + 1 ELSE old(i)]

End(q) == /\ req' = [req EXCEPT ![q] = Gone]
          /\ receiving' = UploadNone

Began(o) ==
  [pc |-> "opening", inode |-> UploadNone, append |-> o # 0, from |-> o,
   got |-> o, out |-> o, digest |-> <<>>, cut |-> <<>>]

MayReceive == receiving = UploadNone

OffsetHeld(o) == o = Length

(* RECEIVING, then the offset against the length held. *)
Start(q, o) ==
  /\ req[q] = UploadIdle
  /\ MayReceive
  /\ OffsetHeld(o)
  /\ receiving' = q
  /\ req' = [req EXCEPT ![q] = Began(o)]
  /\ UNCHANGED <<uploadDisk, staged, placed, late, row, published>>

(* Answered 409 with what is held, or that the upload is under way. *)
Turned(q, o) ==
  /\ req[q] = UploadIdle
  /\ ~MayReceive \/ ~OffsetHeld(o)
  /\ req' = [req EXCEPT ![q] = Gone]
  /\ UNCHANGED <<uploadDisk, staged, placed, receiving, late, row, published>>

UploadOpen(q) ==
  /\ req[q].pc = "opening"
  /\ IF req[q].append
     THEN /\ staged # UploadNone
          /\ req' = [req EXCEPT ![q].pc = "receiving", ![q].inode = staged]
          /\ UNCHANGED <<uploadDisk, staged>>
     ELSE /\ CreatedAs <= Inodes
          /\ uploadDisk' = Created
          /\ staged' = CreatedAs
          /\ req' = [req EXCEPT ![q].pc = "receiving", ![q].inode = CreatedAs]
  /\ UNCHANGED <<placed, receiving, late, row, published>>

(* A resumed file swept away before it was opened. *)
OpenFails(q) ==
  /\ req[q].pc = "opening" /\ req[q].append /\ staged = UploadNone
  /\ End(q)
  /\ UNCHANGED <<uploadDisk, staged, placed, late, row, published>>

(* A chunk is taken from the body into the writer's buffer. *)
Accept(q) ==
  /\ req[q].pc = "receiving" /\ req[q].got < Chunks
  /\ req' = [req EXCEPT ![q].got = @ + 1]
  /\ UNCHANGED <<uploadDisk, staged, placed, receiving, late, row, published>>

WriteOut(q) ==
  /\ req[q].pc = "receiving" /\ req[q].out < req[q].got
  /\ uploadDisk' = [uploadDisk EXCEPT ![req[q].inode] =
       Written(@, req[q].append, req[q].out)]
  /\ req' = [req EXCEPT ![q].out = @ + 1]
  /\ UNCHANGED <<staged, placed, receiving, late, row, published>>

(* The body ends in an error: what was taken is flushed and kept. *)
Interrupted(q) ==
  /\ req[q].pc = "receiving" /\ req[q].out = req[q].got
  /\ End(q)
  /\ UNCHANGED <<uploadDisk, staged, placed, late, row, published>>

(* Mutant: a body that breaks off is taken for its end. *)
BodyEnds_BrokenOff(q) ==
  /\ req[q].pc = "receiving" /\ req[q].out = req[q].got
  /\ req' = [req EXCEPT ![q].pc = "digesting"]
  /\ UNCHANGED <<uploadDisk, staged, placed, receiving, late, row, published>>

BodyEnds(q) ==
  /\ req[q].pc = "receiving" /\ req[q].got = Chunks /\ req[q].out = Chunks
  /\ req' = [req EXCEPT ![q].pc = "digesting"]
  /\ UNCHANGED <<uploadDisk, staged, placed, receiving, late, row, published>>

(* staged_upload_sha256 reads the path, not the writer's file. *)
Digest(q) ==
  /\ req[q].pc = "digesting" /\ staged # UploadNone
  /\ req' = [req EXCEPT ![q].pc = "digested", ![q].digest = uploadDisk[staged]]
  /\ UNCHANGED <<uploadDisk, staged, placed, receiving, late, row, published>>

DigestFails(q) ==
  /\ req[q].pc = "digesting" /\ staged = UploadNone
  /\ End(q)
  /\ UNCHANGED <<uploadDisk, staged, placed, late, row, published>>

-----------------------------------------------------------------------------
(* The claim and the admission: no await from here on *)

Claim(q) ==
  /\ req[q].pc = "digested"
  /\ row = UploadNone
  /\ row' = [digest |-> req[q].digest, status |-> "processing"]
  /\ req' = [req EXCEPT ![q].pc = "claimed"]
  /\ UNCHANGED <<uploadDisk, staged, placed, receiving, late, published>>

(* A changed input, or "already applied": the bytes go no further. *)
Refused(q) ==
  /\ req[q].pc = "digested"
  /\ row # UploadNone
  /\ staged' = UploadNone
  /\ End(q)
  /\ UNCHANGED <<uploadDisk, placed, late, row, published>>

(* ingest_streamed_file_into_engagement: the file itself moves into the    *)
(* worktree and is committed there.                                        *)
Ingest(q) ==
  /\ req[q].pc = "claimed" /\ staged # UploadNone
  /\ placed' = staged
  /\ staged' = UploadNone
  /\ req' = [req EXCEPT ![q].pc = "placed", ![q].cut = uploadDisk[staged]]
  /\ UNCHANGED <<uploadDisk, receiving, late, row, published>>

(* The chat is moving, its target is unavailable, or the file is gone. *)
IngestFails(q) ==
  /\ req[q].pc = "claimed"
  /\ staged' = UploadNone
  /\ row' = [row EXCEPT !.status = "rejected"]
  /\ End(q)
  /\ UNCHANGED <<uploadDisk, placed, late, published>>

(* recorded_streamed_file_hash: the length this request counted, the bytes *)
(* in the worktree and the bytes of the cut.                               *)
Witnessed(q) ==
  /\ Len(uploadDisk[placed]) = req[q].out
  /\ uploadDisk[placed] = req[q].digest
  /\ req[q].cut = req[q].digest

(* Mutant: the failed publication is settled as an applied command. *)
PublishFails_Applied(q) ==
  /\ req[q].pc = "placed"
  /\ row' = [row EXCEPT !.status = "applied"]
  /\ End(q)
  /\ UNCHANGED <<uploadDisk, staged, placed, late, published>>

(* publish_streamed_context: the resource, the receipt and the row. *)
UploadPublish(q) ==
  /\ req[q].pc = "placed"
  /\ Witnessed(q)
  /\ published' = req[q].cut
  /\ row' = [row EXCEPT !.status = "applied"]
  /\ End(q)
  /\ UNCHANGED <<uploadDisk, staged, placed, late>>

(* No exact witness, or the store refuses the publication. *)
PublishFails(q) ==
  /\ req[q].pc = "placed"
  /\ \E s \in {"rejected", "expired"} :
       /\ s = "expired" => Witnessed(q)
       /\ row' = [row EXCEPT !.status = s]
  /\ End(q)
  /\ UNCHANGED <<uploadDisk, staged, placed, late, published>>

-----------------------------------------------------------------------------
(* What happens around an attempt *)

InFlight(q) ==
  CASE req[q].pc = "opening" /\ ~req[q].append /\ "create" \in Detached ->
         {[op |-> "create"]}
    [] req[q].pc = "receiving" /\ req[q].out < req[q].got /\ "write" \in Detached ->
         {[op |-> "write", inode |-> req[q].inode, append |-> req[q].append,
           pos |-> req[q].out]}
    [] OTHER -> {}

(* The client goes away: the future is dropped, RECEIVING released. *)
DropRequest(q) ==
  /\ req[q].pc \in {"opening", "receiving", "digesting"}
  /\ late' \in {late, late \cup InFlight(q)}
  /\ End(q)
  /\ UNCHANGED <<uploadDisk, staged, placed, row, published>>

LateWrite(w) ==
  /\ w.op = "write"
  /\ late' = late \ {w}
  /\ uploadDisk' = [uploadDisk EXCEPT ![w.inode] = Written(@, w.append, w.pos)]
  /\ UNCHANGED <<staged, placed, receiving, req, row, published>>

LateCreate(w) ==
  /\ w.op = "create"
  /\ CreatedAs <= Inodes
  /\ late' = late \ {w}
  /\ uploadDisk' = Created
  /\ staged' = CreatedAs
  /\ UNCHANGED <<placed, receiving, req, row, published>>

(* sweep_staged_uploads of any transfer, once the file is a day old. *)
Sweep ==
  /\ staged # UploadNone
  /\ staged' = UploadNone
  /\ UNCHANGED <<uploadDisk, placed, receiving, req, late, row, published>>

UploadCrash ==
  /\ receiving # UploadNone
  /\ receiving' = UploadNone
  /\ req' = [req EXCEPT ![receiving] = Gone]
  /\ late' = {}
  /\ UNCHANGED <<uploadDisk, staged, placed, row, published>>

UploadNext ==
  \/ \E q \in Requests :
       \/ \E o \in 0..Chunks : Start(q, o) \/ Turned(q, o)
       \/ UploadOpen(q) \/ OpenFails(q) \/ Accept(q) \/ WriteOut(q)
       \/ Interrupted(q) \/ BodyEnds(q) \/ Digest(q) \/ DigestFails(q)
       \/ Claim(q) \/ Refused(q) \/ Ingest(q) \/ IngestFails(q)
       \/ UploadPublish(q) \/ PublishFails(q) \/ DropRequest(q)
  \/ \E w \in late : LateWrite(w) \/ LateCreate(w)
  \/ Sweep
  \/ UploadCrash

UploadSpec == UploadInit /\ [][UploadNext]_uploadVars

-----------------------------------------------------------------------------
(* Properties *)

(* "Two attempts that overlap would otherwise seek to the same offsets in  *)
(* one file and interleave, and the result would hash to something neither *)
(* of them sent": what is published under the key is the client's file,    *)
(* however often the transfer was interrupted, dropped, swept or resumed.  *)
PublishedExact == published = UploadNone \/ published = File

(* The row says `applied` exactly when the resource was published.         *)
AppliedPublished ==
  (published # UploadNone) <=> (row # UploadNone /\ row.status = "applied")

(* However an attempt ends, also with file operations of dropped attempts  *)
(* still to come, the row and the resource agree (post_context_stream).    *)
UploadSafe == UploadTypeOK /\ AppliedPublished
=============================================================================
