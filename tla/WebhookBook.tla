---------------------------- MODULE WebhookBook -----------------------------
(***************************************************************************)
(* What the webhooks promise the provider and the baker: an event that has *)
(* been raised takes effect at once and as a whole, and only on a baker    *)
(* that has carried the subscription's id; a charge is entered once,       *)
(* however often it is applied; and an event is answered with 200 only     *)
(* after it took effect.  No deliveries, no marks, no failures: Webhooks   *)
(* has those and implements this, however its deliveries overlap and       *)
(* break.  At least once is all that is promised: an event may be applied  *)
(* again, and moves the status each time, even of a baker that has begun   *)
(* another checkout meanwhile.                                             *)
(***************************************************************************)
EXTENDS WebhookRules

VARIABLES
  raised,              \* events the provider has raised
  answered,            \* events it has had a 200 for
  known,               \* a baker carries, or has carried, the subscription's id
  subscriptionStatus,  \* of the baker
  history              \* history[e]: entries in the billing history for e

vars == <<raised, answered, known, subscriptionStatus, history>>

Init ==
  /\ raised = {} /\ answered = {} /\ known = FALSE
  /\ subscriptionStatus = "TRIAL"
  /\ history = [e \in Events |-> 0]

\* The charge of event e is in the history, under an id or another.
Entered(e) == \E f \in Events : history[f] > 0 /\ SameCharge(e, f)

Raise(e) ==
  /\ e \notin raised
  /\ \A f \in Events : f < e => f \in raised
  /\ raised' = raised \cup {e}
  /\ UNCHANGED <<answered, known, subscriptionStatus, history>>

\* The baker's checkout of this subscription, and any later one.
Checkout ==
  /\ known' = TRUE
  /\ subscriptionStatus' = "PENDING"
  /\ UNCHANGED <<raised, answered, history>>

\* The status and the history move together.
TakeEffect(e) ==
  /\ e \in raised /\ known /\ Mapped(e)
  /\ subscriptionStatus' = StateMap[Type[e]]
  /\ history' = IF Entered(e) THEN history ELSE [history EXCEPT ![e] = @ + 1]
  /\ UNCHANGED <<raised, answered, known>>

Answer(e) ==
  /\ e \in raised
  /\ Mapped(e) => history[e] > 0 \/ Entered(e)
  /\ answered' = answered \cup {e}
  /\ UNCHANGED <<raised, known, subscriptionStatus, history>>

Next == Checkout \/ \E e \in Events : Raise(e) \/ TakeEffect(e) \/ Answer(e)

Spec == Init /\ [][Next]_vars
=============================================================================
