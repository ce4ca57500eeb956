------------------------------- MODULE MCDesk -------------------------------
(***************************************************************************)
(* What a desk keeps on its own disk for its people, for TLC: the content  *)
(* vault, resumable uploads and the staff lease.  They share no state, so  *)
(* a behaviour is of one of them, chosen at the start, and the run's state *)
(* space is the sum of theirs.  Only the vault's operations never run out. *)
(***************************************************************************)
EXTENDS ContentVault, StreamedUpload, OfficeLease, TLC

CONSTANTS alice
VARIABLE part

MCNever == 20
LoosePolicy == [abs |-> MCNever, idle |-> MCNever]
TightPolicy == [abs |-> 3, idle |-> 2]
OnePolicy == {LoosePolicy}
TwoPolicies == {LoosePolicy, TightPolicy}
Symmetry == Permutations(Threads) \union Permutations(Identities)

MCInit ==
  /\ part \in {"vault", "upload", "lease"}
  /\ Init /\ UploadInit /\ LeaseInit
  /\ part # "lease" => policy = LoosePolicy /\ hub = alice

\* The lease meets a restart or a change of the organization, not both.
LeaseSlice == epoch' + orgHead' <= 1

MCNext ==
  \/ part = "vault" /\ Next /\ UNCHANGED <<part, uploadVars, leaseVars>>
  \/ part = "upload" /\ UploadNext /\ UNCHANGED <<part, vars, leaseVars>>
  \/ part = "lease" /\ LeaseNext /\ LeaseSlice /\ UNCHANGED <<part, vars, uploadVars>>
  \/ part # "vault" /\ UNCHANGED <<part, vars, uploadVars, leaseVars>>

MCSpec == MCInit /\ [][MCNext]_<<part, vars, uploadVars, leaseVars>>
=============================================================================
