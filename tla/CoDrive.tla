------------------------------ MODULE CoDrive ------------------------------
(***************************************************************************)
(* Runs an operator places on a project another Home hosts:                *)
(* src/crates/app/src/federation.rs, from post_run_place to the result.    *)
(*                                                                         *)
(* The host executes a placed run at once under a standing allow, else     *)
(* queues it for a person, who denies it or admits this one run.  The      *)
(* workbench lock is released while a run executes, and the answer or the  *)
(* pushed result carries the run's signed observations.  The operator      *)
(* admits each of them through a delivery scope named after the project    *)
(* and the observation's index in its batch (the lifecycle of              *)
(* FederatedDelivery), and records it as run evidence.                     *)
(*                                                                         *)
(* Identity, the placement floor and the envelope set accept or refuse by  *)
(* choice; all runs here are of one project.                               *)
(***************************************************************************)
EXTENDS Naturals, FiniteSets

CONSTANTS
  Runs,       \* correlations of placed runs
  Callers,    \* concurrent admit-once requests at the host
  ObsCount,   \* observations each run returns
  MaxCrashes  \* bound on crashes

ASSUME CoDriveAssumption ==
  /\ ObsCount \in [Runs -> Nat \ {0}]
  /\ MaxCrashes \in Nat

VARIABLES
  allow,      \* the standing per-project allow for the operator
  place,      \* what became of each placement, as host and operator see it
  queue,      \* the host's admission queue, latest event per correlation
  admit,      \* each admit-once request: the run it read and how far it is
  ran,        \* how often each run executed at the host
  pushed,     \* results on their way to the operator
  delivery,   \* phase of each observation-delivery scope at the operator
  evidence,   \* observations recorded as run evidence
  result,     \* runs whose result the operator has
  crashes

hostVars == <<allow, queue, admit, ran>>
operatorVars == <<delivery, evidence, result>>
driveVars == <<allow, place, queue, admit, ran, pushed, delivery, evidence, result, crashes>>

Indexes == UNION {1..ObsCount[r] : r \in Runs}
DeliveryPhases == {"Draft", "Authorized", "Queued", "Delivered", "TargetAdmitted"}
Idle == [run |-> "none", at |-> "idle"]

DriveInit ==
  /\ allow \in BOOLEAN
  /\ place = [r \in Runs |-> "new"] /\ queue = [r \in Runs |-> "none"]
  /\ admit = [k \in Callers |-> Idle]
  /\ ran = [r \in Runs |-> 0]
  /\ pushed = {}
  /\ delivery = [i \in Indexes |-> "Draft"]
  /\ evidence = {} /\ result = {}
  /\ crashes = 0

(* ---- the host ---- *)

\* admit_run_place: decide under the lock; an allowed run executes after it.
AdmitRunPlace(r) ==
  /\ place[r] = "new"
  /\ \/ allow /\ place' = [place EXCEPT ![r] = "executing"] /\ UNCHANGED queue
     \/ ~allow /\ place' = [place EXCEPT ![r] = "pending"]
        /\ queue' = [queue EXCEPT ![r] = "placed"]
     \/ place' = [place EXCEPT ![r] = "refused"] /\ UNCHANGED queue
  /\ UNCHANGED <<allow, admit, ran, pushed, crashes>> /\ UNCHANGED operatorVars

ExecutePlaced(r) ==
  /\ place[r] = "executing"
  /\ place' = [place EXCEPT ![r] = "answered"]
  /\ ran' = [ran EXCEPT ![r] = @ + 1]
  /\ UNCHANGED <<allow, queue, admit, pushed, crashes>> /\ UNCHANGED operatorVars

\* post_run_allow.
SetAllow ==
  /\ allow' = ~allow
  /\ UNCHANGED <<place, queue, admit, ran, pushed, crashes>> /\ UNCHANGED operatorVars

\* post_run_deny: whatever the queue holds for the correlation.
Deny(r) ==
  /\ queue' = [queue EXCEPT ![r] = "denied"]
  /\ UNCHANGED <<allow, place, admit, ran, pushed, crashes>> /\ UNCHANGED operatorVars

\* post_run_admit_once: read the queue, execute without the lock, resolve.
AdmitOnce(k, r) ==
  /\ admit[k] = Idle /\ queue[r] = "placed"
  /\ admit' = [admit EXCEPT ![k] = [run |-> r, at |-> "read"]]
  /\ UNCHANGED <<allow, place, queue, ran, pushed, crashes>> /\ UNCHANGED operatorVars

ExecuteOnce(k) ==
  /\ admit[k].at = "read"
  /\ ran' = [ran EXCEPT ![admit[k].run] = @ + 1]
  /\ admit' = [admit EXCEPT ![k].at = "executed"]
  /\ UNCHANGED <<allow, place, queue, pushed, crashes>> /\ UNCHANGED operatorVars

\* Mutant: the entry stays in the queue.
ResolveOnce_Queued(k) ==
  /\ admit[k].at = "executed"
  /\ admit' = [admit EXCEPT ![k] = Idle]
  /\ pushed' = pushed \union {admit[k].run}
  /\ UNCHANGED <<allow, place, queue, ran, crashes>> /\ UNCHANGED operatorVars

ResolveOnce(k) ==
  /\ admit[k].at = "executed"
  /\ queue' = [queue EXCEPT ![admit[k].run] = "admitted-once"]
  /\ admit' = [admit EXCEPT ![k] = Idle]
  /\ pushed' = pushed \union {admit[k].run}
  /\ UNCHANGED <<allow, place, ran, crashes>> /\ UNCHANGED operatorVars

(* ---- the operator: admit_observations ---- *)

\* Mutant: an observation whose delivery was refused is recorded all the same.
Fresh_Any(i) == delivery[i] \in DeliveryPhases

\* Binding and authorizing need a draft delivery; one that is not is skipped.
Fresh(i) == delivery[i] = "Draft"

\* The observations of the batch up to n go through their deliveries in turn.
AdmitObservations(r, n) ==
  /\ delivery' = [i \in Indexes |-> IF i <= n /\ Fresh(i) THEN "TargetAdmitted" ELSE delivery[i]]
  /\ evidence' = evidence \union {<<r, i>> : i \in {j \in 1..n : Fresh(j)}}

\* A crash leaves one delivery part of the way, or admitted and not recorded.
TornObservations(r) ==
  \E n \in 1..ObsCount[r], p \in DeliveryPhases \ {"Draft"} :
    /\ Fresh(n)
    /\ delivery' = [i \in Indexes |->
         IF i = n THEN p ELSE IF i < n /\ Fresh(i) THEN "TargetAdmitted" ELSE delivery[i]]
    /\ evidence' = evidence \union {<<r, i>> : i \in {j \in 1..(n - 1) : Fresh(j)}}

\* The answer to the placement itself.
ReceiveAnswer(r) ==
  /\ place[r] = "answered"
  /\ place' = [place EXCEPT ![r] = "done"]
  /\ AdmitObservations(r, ObsCount[r])
  /\ result' = result \union {r}
  /\ UNCHANGED hostVars /\ UNCHANGED <<pushed, crashes>>

\* run_result_serve_once: a pushed result.
ReceiveResult(r) ==
  /\ r \in pushed
  /\ pushed' = pushed \ {r}
  /\ AdmitObservations(r, ObsCount[r])
  /\ result' = result \union {r}
  /\ UNCHANGED hostVars /\ UNCHANGED <<place, crashes>>

(* ---- losses and crashes ---- *)

\* The answer is lost with its connection; nobody sends it again.
DriveLoseAnswer(r) ==
  /\ place[r] = "answered"
  /\ place' = [place EXCEPT ![r] = "lost"]
  /\ UNCHANGED hostVars /\ UNCHANGED operatorVars /\ UNCHANGED <<pushed, crashes>>

\* push_run_result is best effort.
LoseResult(r) ==
  /\ r \in pushed
  /\ pushed' = pushed \ {r}
  /\ UNCHANGED hostVars /\ UNCHANGED operatorVars /\ UNCHANGED <<place, crashes>>

HostCrash ==
  /\ crashes < MaxCrashes /\ crashes' = crashes + 1
  /\ admit' = [k \in Callers |-> Idle] /\ pushed' = {}
  /\ place' = [r \in Runs |-> IF place[r] \in {"executing", "answered"} THEN "lost" ELSE place[r]]
  /\ UNCHANGED <<allow, queue, ran>> /\ UNCHANGED operatorVars

OperatorCrash(r) ==
  /\ crashes < MaxCrashes /\ crashes' = crashes + 1
  /\ \/ place[r] = "answered" /\ place' = [place EXCEPT ![r] = "lost"] /\ UNCHANGED pushed
     \/ r \in pushed /\ pushed' = pushed \ {r} /\ UNCHANGED place
  /\ TornObservations(r)
  /\ UNCHANGED hostVars /\ UNCHANGED result

DriveNext ==
  \/ SetAllow \/ HostCrash
  \/ \E r \in Runs :
       \/ AdmitRunPlace(r) \/ ExecutePlaced(r) \/ Deny(r)
       \/ ReceiveAnswer(r) \/ ReceiveResult(r)
       \/ DriveLoseAnswer(r) \/ LoseResult(r) \/ OperatorCrash(r)
       \/ \E k \in Callers : AdmitOnce(k, r)
  \/ \E k \in Callers : ExecuteOnce(k) \/ ResolveOnce(k)

DriveSpec == DriveInit /\ [][DriveNext]_driveVars

(* ---- properties ---- *)

\* Every variable has its type.
DriveTypeOK ==
  /\ allow \in BOOLEAN
  /\ place \in [Runs -> {"new", "executing", "answered", "pending", "refused", "done", "lost"}]
  /\ queue \in [Runs -> {"none", "placed", "denied", "admitted-once"}]
  /\ admit \in [Callers -> [run : Runs \union {"none"}, at : {"idle", "read", "executed"}]]
  /\ ran \in [Runs -> Nat]
  /\ pushed \subseteq Runs
  /\ delivery \in [Indexes -> DeliveryPhases]
  /\ evidence \subseteq Runs \X Indexes
  /\ result \subseteq Runs
  /\ crashes \in 0..MaxCrashes

\* One delivery becomes at most one observation of the run, however often
\* results arrive and whatever crashes in between, and only of a run that
\* executed (INV-4: NONCE_NOT_REUSED at the level of the project's evidence).
EvidenceOnce ==
  /\ \A i \in Indexes : Cardinality({r \in Runs : <<r, i>> \in evidence}) <= 1
  /\ \A e \in evidence : ran[e[1]] > 0

\* Through crashes of both Homes and lost or repeated results the operator's
\* evidence is of runs that happened (ReceiveResult, admit observations).
EvidenceSafe == DriveTypeOK /\ EvidenceOnce

\* A queued run executes once: "Single-run" (post_run_admit_once).
SingleRun == \A r \in Runs : ran[r] <= 1
=============================================================================
