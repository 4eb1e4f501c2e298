---------------------------- MODULE WebhookRules ----------------------------
(***************************************************************************)
(* What processWebhookEvent reads off an event: whether it moves the       *)
(* subscription and where to, and when two events are the same charge.     *)
(* Shared by the promise (WebhookBook) and the program (Webhooks).         *)
(***************************************************************************)
EXTENDS Integers

CONSTANTS
  Events,       \* 1..n: the events, in the order the provider raises them
  Type,         \* Type[e]: what event e says happened
  Payment,      \* Payment[e]: the payment it carries, or NoPayment
  NoPayment

\* Mutated form: a status the column's CHECK does not know.
StateMapMisspelt ==
  [activated |-> "ACTIVE", charged |-> "ACTIVE", resumed |-> "ACTIVE",
   halted |-> "PAUSED", paused |-> "PAUSED",
   cancelled |-> "CANCELED", completed |-> "EXPIRED"]

\* stateMap: the events that move a subscription, and where to.
StateMap ==
  [activated |-> "ACTIVE", charged |-> "ACTIVE", resumed |-> "ACTIVE",
   halted |-> "PAUSED", paused |-> "PAUSED",
   cancelled |-> "CANCELLED", completed |-> "EXPIRED"]

Mapped(e) == Type[e] \in DOMAIN StateMap

\* The key the billing history is searched for: the payment and the kind of
\* event, of events that carry a payment.
SameCharge(e, f) ==
  Payment[e] # NoPayment /\ Payment[f] = Payment[e] /\ Type[f] = Type[e]
=============================================================================
