------------------------------ MODULE Webhooks ------------------------------
(***************************************************************************)
(* The Razorpay webhooks of one subscription: the provider delivers every  *)
(* event any number of times until it has a 200 for it, and promises no    *)
(* order; several deliveries, of one event too, can run at once            *)
(* (processWebhookEvent).  The baker's row carries the subscription's id   *)
(* from the commit of its checkout, if that commits, until the commit of   *)
(* a later one.                                                            *)
(*                                                                         *)
(* Inside its transaction a delivery reads the event's row and the baker's *)
(* without a lock, and then updates the baker's row by id.  That update    *)
(* holds the row lock until the commit, every delivery of the subscription *)
(* needs it, and the look for a duplicate in the billing history comes     *)
(* after it: from the update to the commit is one step here.  The record   *)
(* of a failure is written outside the transaction, later, and on its own. *)
(* (Names that Subscriptions, the other half of billing, has too begin     *)
(* with Webhooks here: BillingProofs extends both.)                        *)
(***************************************************************************)
EXTENDS WebhookRules

CONSTANTS
  Deliveries,   \* deliveries that can run at the same time
  MaxTrouble    \* bound: transactions broken, answers lost, processes killed

ASSUME EventsAssumption ==
  /\ Events \subseteq Nat \ {0}
  /\ Type \in [Events -> STRING]
  /\ MaxTrouble \in Nat

VARIABLES
  raised,     \* events the provider has raised
  answered,   \* events the provider has had a 200 for
  link,       \* how the baker's row stands to the subscription, see Linked
  subscriptionStatus,  \* of the baker's row
  history,    \* history[e]: billing_history rows written for event e
  row,        \* row[e]: the status of e's webhook_events row
  delivery,   \* delivery[d]: where delivery d is
  trouble     \* what has gone wrong so far, see MaxTrouble

webhooksVars == <<raised, answered, link, subscriptionStatus, history, row,
                  delivery, trouble>>
tables == <<link, subscriptionStatus, history, row>>
provider == <<raised, answered>>

Free == [at |-> "free"]
Running == [at : {"check", "find", "apply", "failed", "refuse", "accept"},
            event : Events]

WebhooksTypeOK ==
  /\ raised \subseteq Events /\ answered \subseteq raised
  /\ link \in {"none", "lost", "linked", "replacing", "replaced"}
  /\ subscriptionStatus \in {"TRIAL", "PENDING", "ACTIVE", "PAUSED", "CANCELLED", "EXPIRED"}
  /\ history \in [Events -> Nat]
  /\ row \in [Events -> {"none", "SUCCESS", "FAILED"}]
  /\ delivery \in [Deliveries -> Running \cup {Free}]
  /\ trouble \in 0..MaxTrouble

WebhooksInit ==
  /\ raised = {} /\ answered = {}
  /\ link = "none" /\ subscriptionStatus = "TRIAL"
  /\ history = [e \in Events |-> 0]
  /\ row = [e \in Events |-> "none"]
  /\ delivery = [d \in Deliveries |-> Free]
  /\ trouble = 0

AtPlace(d, place) == delivery[d].at = place
Event(d) == delivery[d].event
Goto(d, place) ==
  delivery' = [delivery EXCEPT ![d] = [at |-> place, event |-> Event(d)]]

Trouble == trouble < MaxTrouble /\ trouble' = trouble + 1

-----------------------------------------------------------------------------
(***************************************************************************)
(* The provider.                                                           *)
(***************************************************************************)
Raise(e) ==
  /\ e \notin raised
  /\ \A f \in Events : f < e => f \in raised
  /\ raised' = raised \cup {e}
  /\ UNCHANGED <<answered, delivery, trouble, tables>>

Deliver(d, e) ==
  /\ delivery[d] = Free
  /\ e \in raised \ answered
  /\ delivery' = [delivery EXCEPT ![d] = [at |-> "check", event |-> e]]
  /\ UNCHANGED <<trouble, provider, tables>>

\* The 200, which may get lost; a 404 or 500 only ends the delivery.
Answer(d) ==
  /\ \/ /\ AtPlace(d, "accept")
        /\ \/ answered' = answered \cup {Event(d)} /\ UNCHANGED trouble
           \/ Trouble /\ UNCHANGED answered
     \/ /\ AtPlace(d, "refuse")
        /\ UNCHANGED <<answered, trouble>>
  /\ delivery' = [delivery EXCEPT ![d] = Free]
  /\ UNCHANGED <<raised, tables>>

-----------------------------------------------------------------------------
(***************************************************************************)
(* processWebhookEvent                                                     *)
(***************************************************************************)
\* Mutated form: any row of the event, a FAILED one too, counts as processed.
CheckAnyRow(d) ==
  /\ AtPlace(d, "check")
  /\ Goto(d, IF Mapped(Event(d)) /\ row[Event(d)] = "none"
               THEN "find" ELSE "accept")
  /\ UNCHANGED <<trouble, provider, tables>>

\* Nothing to do for an event that moves nothing, or is already processed.
Check(d) ==
  /\ AtPlace(d, "check")
  /\ Goto(d, IF Mapped(Event(d)) /\ row[Event(d)] # "SUCCESS"
               THEN "find" ELSE "accept")
  /\ UNCHANGED <<trouble, provider, tables>>

\* The baker's row carries the id, though a later checkout may be under way;
\* it does now, or did once.
Linked == link \in {"linked", "replacing"}
WasLinked == Linked \/ link = "replaced"

\* Mutated form: the event is marked before its effects are committed.
FindAndMark(d) ==
  /\ AtPlace(d, "find")
  /\ Goto(d, IF Linked THEN "apply" ELSE "failed")
  /\ row' = [row EXCEPT ![Event(d)] = "SUCCESS"]
  /\ UNCHANGED <<link, subscriptionStatus, history, trouble, provider>>

\* "Baker not found" unless some baker carries the subscription's id.
Find(d) ==
  /\ AtPlace(d, "find")
  /\ Goto(d, IF Linked THEN "apply" ELSE "failed")
  /\ UNCHANGED <<trouble, provider, tables>>

\* Mutated form: a duplicate is one of the same event id.
DuplicateById(e) == Payment[e] # NoPayment /\ history[e] > 0

\* A row for the same payment and the same kind of event is already there.
Duplicate(e) == \E f \in Events : history[f] > 0 /\ SameCharge(e, f)

\* Mutated form: the baker is updated and the event marked, the history is not
\* written.
ApplyUnlogged(d) ==
  /\ AtPlace(d, "apply")
  /\ subscriptionStatus' = StateMap[Type[Event(d)]]
  /\ row' = [row EXCEPT ![Event(d)] = "SUCCESS"]
  /\ Goto(d, "accept")
  /\ UNCHANGED <<link, history, trouble, provider>>

\* The update of the baker, the history, the event's row, the commit.
Apply(d) ==
  /\ AtPlace(d, "apply")
  /\ LET e == Event(d) IN
       /\ subscriptionStatus' = StateMap[Type[e]]
       /\ history' = IF Duplicate(e) THEN history
                     ELSE [history EXCEPT ![e] = @ + 1]
       /\ row' = [row EXCEPT ![e] = "SUCCESS"]
  /\ Goto(d, "accept")
  /\ UNCHANGED <<link, trouble, provider>>

\* The transaction rolls back: a timeout, a lost connection, a database error.
Break(d) ==
  /\ AtPlace(d, "check") \/ AtPlace(d, "find") \/ AtPlace(d, "apply")
  /\ Trouble
  /\ Goto(d, "failed")
  /\ UNCHANGED <<provider, tables>>

\* The catch block notes the failure, over whatever the row says; failing at
\* that too is ignored.
NoteFailure(d) ==
  /\ AtPlace(d, "failed")
  /\ \/ row' = [row EXCEPT ![Event(d)] = "FAILED"] /\ UNCHANGED trouble
     \/ Trouble /\ UNCHANGED row
  /\ Goto(d, "refuse")
  /\ UNCHANGED <<link, subscriptionStatus, history, provider>>

\* The process is killed.
Crash(d) ==
  /\ delivery[d] # Free
  /\ Trouble
  /\ delivery' = [delivery EXCEPT ![d] = Free]
  /\ UNCHANGED <<provider, tables>>

-----------------------------------------------------------------------------
(***************************************************************************)
(* createSubscription, which module Subscriptions has in full.             *)
(***************************************************************************)
\* The transaction commits the id the provider gave it, which the events can
\* outrun; or it is rolled back after the call, and no row ever carries the id.
LinkSubscription ==
  /\ link = "none"
  /\ \/ link' = "linked" /\ subscriptionStatus' = "PENDING"
     \/ link' = "lost" /\ UNCHANGED subscriptionStatus
  /\ UNCHANGED <<history, row, delivery, trouble, provider>>

\* A later checkout of the baker is let in.
StartReplacing ==
  /\ link = "linked" /\ subscriptionStatus # "ACTIVE"
  /\ link' = "replacing"
  /\ UNCHANGED <<subscriptionStatus, history, row, delivery, trouble, provider>>

\* It writes its own id over this one, whatever a webhook has made of the
\* status meanwhile; or it is rolled back.
EndReplacing ==
  /\ link = "replacing"
  /\ \/ link' = "replaced" /\ subscriptionStatus' = "PENDING"
     \/ link' = "linked" /\ UNCHANGED subscriptionStatus
  /\ UNCHANGED <<history, row, delivery, trouble, provider>>

Checkout == LinkSubscription \/ StartReplacing \/ EndReplacing

Step(d) == Check(d) \/ Find(d) \/ Apply(d) \/ NoteFailure(d) \/ Answer(d)

WebhooksNext ==
  \/ \E e \in Events : Raise(e)
  \/ \E d \in Deliveries, e \in Events : Deliver(d, e)
  \/ \E d \in Deliveries : Step(d) \/ Break(d) \/ Crash(d)
  \/ Checkout

WebhooksSpec == WebhooksInit /\ [][WebhooksNext]_webhooksVars

\* A running handler runs on.  Nothing is assumed of the provider or the
\* checkouts.
Fairness == \A d \in Deliveries : WF_webhooksVars(Step(d))

WebhooksFairSpec == WebhooksSpec /\ Fairness

-----------------------------------------------------------------------------
(***************************************************************************)
(* Properties.                                                             *)
(***************************************************************************)
\* The history has what event e stands for, from e or from a twin of it.
Covered(e) == history[e] > 0 \/ Duplicate(e)

\* One charge is one row of the billing history, however many event ids the
\* provider gives it and however their deliveries overlap.
ChargedOnce ==
  \A e, f \in Events :
    /\ history[e] > 0 /\ history[f] > 0
    /\ SameCharge(e, f)
    => e = f /\ history[e] = 1

\* A row that says SUCCESS stands for effects that are there: neither a crash
\* nor a failing twin leaves the mark without them.
SuccessIsBacked == \A e \in Events : row[e] = "SUCCESS" => Covered(e)

\* The provider stops retrying only what has been applied.
AnsweredIsApplied == \A e \in answered : Mapped(e) => Covered(e)

\* However deliveries overlap, repeat and break: events take effect at once, a
\* charge is entered once, and 200 is answered only after that.
Book == INSTANCE WebhookBook WITH known <- WasLinked
BookSpec == Book!Spec

\* As long as the provider has no 200 for event e it delivers it, again and
\* again.
KeepsDelivering(e) ==
  []<>(e \in raised =>
         e \in answered \/ \E d \in Deliveries : delivery[d] # Free /\ Event(d) = e)

\* An event the provider does not give up on, of a subscription that comes to
\* be the baker's and stays it, is applied in the end: no failed attempt, lost
\* answer or crash leaves behind anything a retry stumbles over.
EventuallyApplied ==
  \A e \in Events : Mapped(e) =>
    (KeepsDelivering(e) /\ <>[]Linked => (e \in raised ~> Covered(e)))

-----------------------------------------------------------------------------
(***************************************************************************)
(* The inductive invariant behind the safety properties.  The history only *)
(* grows, so what is Covered stays covered; a delivery past the idempotency *)
(* check carries an event that moves something, and one about to be        *)
(* answered with 200 an event that is covered.                             *)
(***************************************************************************)
DeliveryInv(d) ==
  /\ AtPlace(d, "find") \/ AtPlace(d, "apply") => Mapped(Event(d))
  /\ AtPlace(d, "accept") /\ Mapped(Event(d)) => Covered(Event(d))
  /\ delivery[d] # Free => Event(d) \in raised

WebhooksInv ==
  /\ WebhooksTypeOK
  /\ ChargedOnce
  /\ SuccessIsBacked
  /\ AnsweredIsApplied
  /\ \A d \in Deliveries : DeliveryInv(d)

\* A delivery about to write has found the baker, under this id.
BakerFound == \A d \in Deliveries : AtPlace(d, "apply") => WasLinked

-----------------------------------------------------------------------------
(***************************************************************************)
(* What the comments and decision records promise and the code does not.   *)
(***************************************************************************)
\* "This prevents duplicate processing".
OneRowPerEvent == \A e \in Events : history[e] <= 1

\* "Idempotent, safe to retry": an event already applied and delivered again
\* leaves the subscription as it is.
RetryIsSafe ==
  [][\A d \in Deliveries :
       AtPlace(d, "apply") /\ delivery'[d].at = "accept" /\ history[Event(d)] > 0
         => subscriptionStatus' = subscriptionStatus]_webhooksVars
=============================================================================
