------------------------- MODULE FederatedDelivery -------------------------
(***************************************************************************)
(* The lifecycle of one bridge-carried message: the commands of            *)
(* src/crates/core/src/federated_delivery.rs over the folded state.  A     *)
(* command that is refused changes nothing and is not a step.  Handles,    *)
(* correlation and the relay's rights never change and are left out; a     *)
(* signature verifies or not by choice.                                    *)
(***************************************************************************)
EXTENDS Naturals, FiniteSets

CONSTANTS
  Grants,      \* bridge grants a delivery can be bound to, each with its device
  Default,     \* the grant a delivery is bound to before BindDelivery
  Nonces,      \* envelope nonces
  MaxRetries   \* bound on RetryFederatedDelivery

ASSUME DeliveryAssumption == Default \in Grants /\ MaxRetries \in Nat

VARIABLES
  phase,        \* DeliveryPhase
  authorized,   \* source_authorized
  expired,      \* expired
  bound,        \* bound_bridge_grant_id and its device
  seen,         \* seen_nonces
  active,       \* grants that have not been revoked
  retries,      \* retries so far
  said,         \* what the source authorized: the grant bound then, or none
  admissions    \* envelopes admitted: grant, nonce and whether the grant was active

deliveryVars == <<phase, authorized, expired, bound, seen, active, retries, said, admissions>>

InFlight == {"Authorized", "Queued", "Delivered"}
DeliveryRetryable == {"Failed", "Expired", "Canceled"}
MessagePhases ==
  {"Draft", "TargetAdmitted", "TargetRejected"} \union InFlight \union DeliveryRetryable

DeliveryInit ==
  /\ phase = "Draft" /\ authorized = FALSE /\ expired = FALSE
  /\ bound = Default /\ seen = {} /\ active = Grants
  /\ retries = 0 /\ said = {} /\ admissions = {}

BindDelivery(g) ==
  /\ phase = "Draft"
  /\ bound' = g
  /\ UNCHANGED <<phase, authorized, expired, seen, active, retries, said, admissions>>

AuthorizeFederatedMessage ==
  /\ phase = "Draft"
  /\ phase' = "Authorized" /\ authorized' = TRUE /\ said' = {bound}
  /\ UNCHANGED <<expired, bound, seen, active, retries, admissions>>

EnqueueFederatedMessage ==
  /\ phase = "Authorized" /\ authorized /\ ~expired
  /\ phase' = "Queued"
  /\ UNCHANGED <<authorized, expired, bound, seen, active, retries, said, admissions>>

RecordRelayDelivery ==
  /\ phase = "Queued" /\ ~expired
  /\ phase' = "Delivered"
  /\ UNCHANGED <<authorized, expired, bound, seen, active, retries, said, admissions>>

\* Mutant: the device's grant is not looked at again when the receipt is admitted.
CheckDeviceBinding_KeyOnly(g) == g = bound

\* The envelope presents the bound device, whose grant is still active.
CheckDeviceBinding(g) == g = bound /\ g \in active

\* The envelope verifies, is of the bound grant and device, and its nonce is fresh.
AdmitTargetReceipt(g, n) ==
  /\ phase = "Delivered"
  /\ CheckDeviceBinding(g)
  /\ n \notin seen
  /\ phase' = "TargetAdmitted" /\ seen' = seen \union {n}
  /\ admissions' = admissions \union {[grant |-> g, nonce |-> n, live |-> g \in active]}
  /\ UNCHANGED <<authorized, expired, bound, active, retries, said>>

RejectTargetReceipt ==
  /\ phase = "Delivered"
  /\ phase' = "TargetRejected"
  /\ UNCHANGED <<authorized, expired, bound, seen, active, retries, said, admissions>>

RecordDeliveryFailure ==
  /\ phase \in InFlight
  /\ phase' = "Failed"
  /\ UNCHANGED <<authorized, expired, bound, seen, active, retries, said, admissions>>

ExpireFederatedDelivery ==
  /\ phase \in {"Draft"} \union InFlight
  /\ phase' = "Expired" /\ expired' = TRUE
  /\ UNCHANGED <<authorized, bound, seen, active, retries, said, admissions>>

CancelFederatedDelivery ==
  /\ phase \in {"Draft"} \union InFlight
  /\ phase' = "Canceled"
  /\ UNCHANGED <<authorized, expired, bound, seen, active, retries, said, admissions>>

\* The retry goes back to Authorized and says the source has authorized it.
RetryFederatedDelivery ==
  /\ phase \in DeliveryRetryable /\ retries < MaxRetries
  /\ phase' = "Authorized" /\ authorized' = TRUE /\ expired' = FALSE
  /\ retries' = retries + 1
  /\ UNCHANGED <<bound, seen, active, said, admissions>>

\* The shell's view of the grants: one is revoked for good.
Revoke(g) ==
  /\ active' = active \ {g} /\ g \in active
  /\ UNCHANGED <<phase, authorized, expired, bound, seen, retries, said, admissions>>

DeliveryNext ==
  \/ AuthorizeFederatedMessage \/ EnqueueFederatedMessage \/ RecordRelayDelivery
  \/ RejectTargetReceipt \/ RecordDeliveryFailure \/ ExpireFederatedDelivery
  \/ CancelFederatedDelivery \/ RetryFederatedDelivery
  \/ \E g \in Grants : BindDelivery(g) \/ Revoke(g)
  \/ \E g \in Grants, n \in Nonces : AdmitTargetReceipt(g, n)

DeliverySpec == DeliveryInit /\ [][DeliveryNext]_deliveryVars

(* ---- properties ---- *)

\* Every variable has its type.
DeliveryTypeOK ==
  /\ phase \in MessagePhases /\ authorized \in BOOLEAN /\ expired \in BOOLEAN
  /\ bound \in Grants /\ seen \subseteq Nonces /\ active \subseteq Grants
  /\ retries \in 0..MaxRetries /\ said \subseteq Grants
  /\ admissions \subseteq [grant : Grants, nonce : Nonces, live : BOOLEAN]

\* What the target admitted is what the source authorized: the envelope's
\* grant is the one bound at authorization, over every retry, and was active
\* (BRIDGE_GRANT_MATCHES, DEVICE_BINDING_MATCHES).
AdmittedAsAuthorized == \A a \in admissions : said \subseteq {a.grant} /\ a.live

\* A retried attempt starts afresh: no attempt in flight is an expired one, so
\* a retry is never stuck behind the expiry of the attempt before it.
FreshAttempt == phase \in InFlight => ~expired

\* Over every cancellation, expiry and retry, an attempt is its own and what
\* it delivers is what was authorized.
DeliverySafe == DeliveryTypeOK /\ AdmittedAsAuthorized /\ FreshAttempt
=============================================================================
