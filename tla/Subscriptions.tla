---------------------------- MODULE Subscriptions ----------------------------
(***************************************************************************)
(* Bakers subscribing: createSubscription and cancelSubscription, the      *)
(* webhooks that move a baker's subscription status, and the provider      *)
(* (Razorpay) whose mandates they are about.                               *)
(*                                                                         *)
(* createSubscription is one transaction that takes a per-baker advisory   *)
(* lock, then a global one for the price, then calls the provider over     *)
(* HTTP, and writes the baker's row at the end; advisory locks taken in a  *)
(* transaction are given back when it ends.  The transaction is rolled     *)
(* back after 15 s, the call to the provider knows no timeout: it can go   *)
(* on after the transaction and its locks are gone, and what comes back is *)
(* then written nowhere.  The webhooks take neither lock.                  *)
(* How one webhook is delivered, retried and recorded is module Webhooks;  *)
(* here an event is delivered once, at any time and in any order.          *)
(***************************************************************************)
EXTENDS Integers, FiniteSets

CONSTANTS
  Bakers,
  Excluded,     \* bakers with excludeFromSubscriberCount
  Subs,         \* subscriptions the provider may come to hold (a bound)
  Requests,     \* handlers that can run at the same time
  Threshold,    \* EARLY_ADOPTER_THRESHOLD
  MaxEvents,    \* bound: events that can be on their way at once
  None          \* NULL, nobody

ASSUME SubscriptionsAssumption ==
  /\ Excluded \subseteq Bakers
  /\ Threshold \in Nat /\ MaxEvents \in Nat
  /\ None \notin Subs /\ None \notin Requests

Plans == {"EARLY_ADOPTER", "STANDARD"}
Statuses == {"TRIAL", "PENDING", "ACTIVE", "PAUSED", "CANCELLED", "EXPIRED"}

VARIABLES
  status,      \* status[b]: subscriptionStatus
  plan,        \* plan[b]: subscriptionPlan, and with it lockedMonthlyPrice
  sub,         \* sub[b]: razorpaySubscriptionId
  abandoned,   \* abandoned[b]: subscriptionPendingSince is 30 minutes old
  bakerLock,   \* bakerLock[b]: the request that holds b's advisory lock
  countLock,   \* the request that holds SUBSCRIBER_COUNT_LOCK_KEY
  request,     \* request[r]: where request r is
  mandate,     \* the provider: what became of each subscription
  events,      \* the provider: events on their way
  strayed      \* history: a webhook wrote a row that meanwhile had changed hands

bakerRow == <<status, plan, sub, abandoned>>
locks == <<bakerLock, countLock>>
world == <<mandate, events>>
vars == <<status, plan, sub, abandoned, bakerLock, countLock, request, mandate,
          events, strayed>>

Idle == [at |-> "idle", baker |-> None, plan |-> None, sub |-> None,
         says |-> None]

Request == [at : {"idle", "price", "provider", "write", "late", "cancel", "apply"},
            baker : Bakers \cup {None}, plan : Plans \cup {None},
            sub : Subs \cup {None}, says : Statuses \cup {None}]

(***************************************************************************)
(* A mandate: whose it is, at which price, where it stands; whether its    *)
(* checkout reached the baker (offered) and how long ago (lapsed: longer   *)
(* than the 30 minutes), and whether it was ever authorised.               *)
(***************************************************************************)
NoMandate == [state |-> "none", owner |-> None, plan |-> None, offered |-> FALSE,
              lapsed |-> FALSE, authorised |-> FALSE, ending |-> FALSE]

Mandate == [state : {"none", "awaiting", "active", "paused", "ended"},
            owner : Bakers \cup {None}, plan : Plans \cup {None},
            offered : BOOLEAN, lapsed : BOOLEAN, authorised : BOOLEAN,
            ending : BOOLEAN]

TypeOK ==
  /\ status \in [Bakers -> Statuses]
  /\ plan \in [Bakers -> Plans \cup {None}]
  /\ sub \in [Bakers -> Subs \cup {None}]
  /\ abandoned \in [Bakers -> BOOLEAN]
  /\ bakerLock \in [Bakers -> Requests \cup {None}]
  /\ countLock \in Requests \cup {None}
  /\ request \in [Requests -> Request]
  /\ mandate \in [Subs -> Mandate]
  /\ events \subseteq [sub : Subs, says : Statuses]
  /\ strayed \in [Bakers -> BOOLEAN]

Init ==
  /\ status = [b \in Bakers |-> "TRIAL"]
  /\ plan = [b \in Bakers |-> None]
  /\ sub = [b \in Bakers |-> None]
  /\ abandoned = [b \in Bakers |-> FALSE]
  /\ bakerLock = [b \in Bakers |-> None]
  /\ countLock = None
  /\ request = [r \in Requests |-> Idle]
  /\ mandate = [s \in Subs |-> NoMandate]
  /\ events = {}
  /\ strayed = [b \in Bakers |-> FALSE]

At(r, place) == request[r].at = place

-----------------------------------------------------------------------------
(***************************************************************************)
(* createSubscription                                                      *)
(***************************************************************************)
\* A baker may subscribe unless ACTIVE or PENDING for less than 30 minutes.
MaySubscribe(b) ==
  /\ status[b] # "ACTIVE"
  /\ status[b] = "PENDING" => abandoned[b]

\* Bound: the provider has a subscription left for everyone who will ask.
Supply ==
  Cardinality({s \in Subs : mandate[s].state = "none"})
    > Cardinality({r \in Requests : At(r, "price") \/ At(r, "provider") \/ At(r, "late")})

\* Mutated form: no advisory lock on the baker.
StartCreateUnlocked(r, b) ==
  /\ request[r] = Idle /\ Supply
  /\ MaySubscribe(b)
  /\ request' = [request EXCEPT ![r] = [Idle EXCEPT !.at = "price", !.baker = b]]
  /\ UNCHANGED <<bakerRow, locks, world, strayed>>

\* The baker's lock, then the guard.
StartCreate(r, b) ==
  /\ request[r] = Idle /\ Supply
  /\ bakerLock[b] = None
  /\ MaySubscribe(b)
  /\ bakerLock' = [bakerLock EXCEPT ![b] = r]
  /\ request' = [request EXCEPT ![r] = [Idle EXCEPT !.at = "price", !.baker = b]]
  /\ UNCHANGED <<bakerRow, countLock, world, strayed>>

\* priceForCount, of the early adopters now ACTIVE.
Counted == {b \in Bakers \ Excluded :
              status[b] = "ACTIVE" /\ plan[b] = "EARLY_ADOPTER"}

\* Mutated form: a plan code the column's CHECK does not know.
OfferMisspelt ==
  IF Cardinality(Counted) < Threshold THEN "EARLY_ADOPTER" ELSE "REGULAR"

Offer == IF Cardinality(Counted) < Threshold THEN "EARLY_ADOPTER" ELSE "STANDARD"

\* The count lock, then the price.
Price(r) ==
  /\ At(r, "price")
  /\ countLock = None
  /\ countLock' = r
  /\ request' = [request EXCEPT ![r].at = "provider", ![r].plan = Offer]
  /\ UNCHANGED <<bakerRow, bakerLock, world, strayed>>

\* The provider creates subscription s for the request.
Make(r, s) ==
  /\ mandate[s].state = "none"
  /\ mandate' = [mandate EXCEPT ![s] =
       [NoMandate EXCEPT !.state = "awaiting", !.owner = request[r].baker,
                         !.plan = request[r].plan]]

CallProvider(r) ==
  /\ At(r, "provider")
  /\ \E s \in Subs :
       /\ Make(r, s)
       /\ request' = [request EXCEPT ![r].at = "write", ![r].sub = s]
  /\ UNCHANGED <<bakerRow, locks, events, strayed>>

\* The locks go with the transaction.
GiveBack(r) ==
  /\ bakerLock' = [b \in Bakers |-> IF bakerLock[b] = r THEN None ELSE bakerLock[b]]
  /\ countLock' = IF countLock = r THEN None ELSE countLock

Release(r) == GiveBack(r) /\ request' = [request EXCEPT ![r] = Idle]

\* The transaction times out while the callback awaits the provider.
Expire(r) ==
  /\ At(r, "provider")
  /\ GiveBack(r)
  /\ request' = [request EXCEPT ![r].at = "late"]
  /\ UNCHANGED <<bakerRow, world, strayed>>

\* The late answer: a refusal, or a subscription that is then not written, the
\* transaction being closed.
AnswerLate(r) ==
  /\ At(r, "late")
  /\ UNCHANGED mandate \/ \E s \in Subs : Make(r, s)
  /\ request' = [request EXCEPT ![r] = Idle]
  /\ UNCHANGED <<bakerRow, locks, events, strayed>>

\* Mutated forms: the count lock is a session's and outlives the transaction;
\* the price is decided again when the row is written; the status is left to
\* the webhooks.
CommitCreateSessionLock(r) ==
  /\ At(r, "write")
  /\ LET b == request[r].baker IN
       /\ status' = [status EXCEPT ![b] = "PENDING"]
       /\ plan' = [plan EXCEPT ![b] = request[r].plan]
       /\ sub' = [sub EXCEPT ![b] = request[r].sub]
       /\ abandoned' = [abandoned EXCEPT ![b] = FALSE]
       /\ mandate' = [mandate EXCEPT ![request[r].sub].offered = TRUE]
       /\ bakerLock' = [bakerLock EXCEPT ![b] = None]
  /\ request' = [request EXCEPT ![r] = Idle]
  /\ UNCHANGED <<countLock, events, strayed>>

CommitCreateRepriced(r) ==
  /\ At(r, "write")
  /\ LET b == request[r].baker IN
       /\ status' = [status EXCEPT ![b] = "PENDING"]
       /\ plan' = [plan EXCEPT ![b] = Offer]
       /\ sub' = [sub EXCEPT ![b] = request[r].sub]
       /\ abandoned' = [abandoned EXCEPT ![b] = FALSE]
       /\ mandate' = [mandate EXCEPT ![request[r].sub].offered = TRUE]
  /\ Release(r)
  /\ UNCHANGED <<events, strayed>>

CommitCreateNotPending(r) ==
  /\ At(r, "write")
  /\ LET b == request[r].baker IN
       /\ plan' = [plan EXCEPT ![b] = request[r].plan]
       /\ sub' = [sub EXCEPT ![b] = request[r].sub]
       /\ abandoned' = [abandoned EXCEPT ![b] = FALSE]
       /\ mandate' = [mandate EXCEPT ![request[r].sub].offered = TRUE]
  /\ Release(r)
  /\ UNCHANGED <<status, events, strayed>>

\* The baker's row, whatever it holds by now; the commit; the checkout link.
CommitCreate(r) ==
  /\ At(r, "write")
  /\ LET b == request[r].baker IN
       /\ status' = [status EXCEPT ![b] = "PENDING"]
       /\ plan' = [plan EXCEPT ![b] = request[r].plan]
       /\ sub' = [sub EXCEPT ![b] = request[r].sub]
       /\ abandoned' = [abandoned EXCEPT ![b] = FALSE]
       /\ mandate' = [mandate EXCEPT ![request[r].sub].offered = TRUE]
  /\ Release(r)
  /\ UNCHANGED <<events, strayed>>

\* The provider refuses, a statement fails, the transaction times out where no
\* call is out, the process dies; what the provider has created stays there.
\* (A call the process has left behind is as good as late.)
AbortCreate(r) ==
  /\ At(r, "price") \/ At(r, "provider") \/ At(r, "write")
  /\ Release(r)
  /\ UNCHANGED <<bakerRow, world, strayed>>

-----------------------------------------------------------------------------
(***************************************************************************)
(* cancelSubscription: read, then ask the provider, no lock or transaction *)
(* and nothing written; the provider refuses what is not running.          *)
(***************************************************************************)
StartCancel(r, b) ==
  /\ request[r] = Idle
  /\ sub[b] # None /\ status[b] \notin {"CANCELLED", "EXPIRED"}
  /\ request' = [request EXCEPT ![r] =
                   [Idle EXCEPT !.at = "cancel", !.baker = b, !.sub = sub[b]]]
  /\ UNCHANGED <<bakerRow, locks, world, strayed>>

FinishCancel(r) ==
  /\ At(r, "cancel")
  /\ mandate' = IF mandate[request[r].sub].state \in {"active", "paused"}
                THEN [mandate EXCEPT ![request[r].sub].ending = TRUE]
                ELSE mandate
  /\ request' = [request EXCEPT ![r] = Idle]
  /\ UNCHANGED <<bakerRow, locks, events, strayed>>

-----------------------------------------------------------------------------
(***************************************************************************)
(* A webhook: find the baker by subscription id, update it by its own id.  *)
(* An event of a subscription no baker has is answered 404 and comes back. *)
(***************************************************************************)
StartWebhook(r) ==
  /\ request[r] = Idle
  /\ \E e \in events : \E b \in Bakers :
       /\ sub[b] = e.sub
       /\ request' = [request EXCEPT ![r] =
            [Idle EXCEPT !.at = "apply", !.baker = b, !.sub = e.sub, !.says = e.says]]
       /\ events' = events \ {e}
  /\ UNCHANGED <<bakerRow, locks, mandate, strayed>>

ApplyWebhook(r) ==
  /\ At(r, "apply")
  /\ LET b == request[r].baker IN
       /\ status' = [status EXCEPT ![b] = request[r].says]
       /\ strayed' = [strayed EXCEPT ![b] = @ \/ sub[b] # request[r].sub]
  /\ request' = [request EXCEPT ![r] = Idle]
  /\ UNCHANGED <<plan, sub, abandoned, locks, world>>

-----------------------------------------------------------------------------
(***************************************************************************)
(* The provider and the clock.                                             *)
(***************************************************************************)
Move(s, from, to, says) ==
  /\ mandate[s].state \in from
  /\ Cardinality(events) < MaxEvents
  /\ mandate' = [mandate EXCEPT ![s].state = to,
                                ![s].authorised = @ \/ to = "active",
                                ![s].ending = @ /\ to # "ended"]
  /\ events' = events \cup {[sub |-> s, says |-> says]}
  /\ UNCHANGED <<bakerRow, locks, request, strayed>>

Provider(s) ==
  \/ Move(s, {"awaiting", "active", "paused"}, "active", "ACTIVE")
                                            \* activated, charged, resumed
  \/ Move(s, {"active"}, "paused", "PAUSED")             \* halted, paused
  \/ Move(s, {"active", "paused"}, "ended", "CANCELLED") \* cycle ended, revoked
  \/ Move(s, {"active"}, "ended", "EXPIRED")             \* completed

\* Thirty minutes after the checkout was offered.
Lapse(b) ==
  /\ status[b] = "PENDING" /\ ~abandoned[b]
  /\ abandoned' = [abandoned EXCEPT ![b] = TRUE]
  /\ mandate' = [mandate EXCEPT ![sub[b]].lapsed = TRUE]
  /\ UNCHANGED <<status, plan, sub, locks, request, events, strayed>>

Create(r) == Price(r) \/ CallProvider(r) \/ CommitCreate(r)

Next ==
  \/ \E r \in Requests :
       \/ \E b \in Bakers : StartCreate(r, b) \/ StartCancel(r, b)
       \/ Create(r) \/ AbortCreate(r) \/ Expire(r) \/ AnswerLate(r)
       \/ FinishCancel(r) \/ StartWebhook(r) \/ ApplyWebhook(r)
  \/ \E s \in Subs : Provider(s)
  \/ \E b \in Bakers : Lapse(b)

Spec == Init /\ [][Next]_vars

(***************************************************************************)
(* A transaction runs on or ends at its timeout, whatever the provider     *)
(* does; PostgreSQL queues those who wait for a lock, none of them for     *)
(* ever.                                                                   *)
(***************************************************************************)
FairSpec ==
  Spec /\ \A r \in Requests :
            /\ SF_vars(Price(r))
            /\ WF_vars(CallProvider(r) \/ Expire(r) \/ CommitCreate(r))

-----------------------------------------------------------------------------
(***************************************************************************)
(* Properties.                                                             *)
(***************************************************************************)
\* The price the database shows a baker is the price of the mandate it
\* tracks, whoever else subscribed or cancelled in between.
PriceIsCharged ==
  \A b \in Bakers : sub[b] # None => plan[b] = mandate[sub[b]].plan

\* A baker never has two checkouts open that are both younger than the 30
\* minutes, whatever is clicked twice, retried or rolled back - until a
\* webhook strays.
Open(s) == /\ mandate[s].state = "awaiting"
           /\ mandate[s].offered /\ ~mandate[s].lapsed

OneOpenCheckout ==
  \A s \in Subs : Open(s) /\ ~strayed[mandate[s].owner]
    => sub[mandate[s].owner] = s /\ status[mandate[s].owner] = "PENDING"

\* A baker is ACTIVE only on a mandate that was authorised - until a webhook
\* strays.
UnstrayedIsAuthorised ==
  \A b \in Bakers : ~strayed[b] /\ status[b] = "ACTIVE"
    => mandate[sub[b]].authorised

\* Nobody is inside the transaction for ever: the two locks are taken in one
\* order and given back, even if the provider never answers.
CheckoutsEnd ==
  \A r \in Requests : (At(r, "price") \/ At(r, "provider") \/ At(r, "write"))
    ~> (At(r, "idle") \/ At(r, "late"))

-----------------------------------------------------------------------------
(***************************************************************************)
(* The inductive invariant behind them.  Whoever subscribes holds its      *)
(* baker's lock, and while it does no open checkout of the baker is left;  *)
(* the mandate it has made stays its own until it is offered, and what a   *)
(* late call makes is never offered.  A webhook tells of a mandate the     *)
(* provider has moved.                                                     *)
(***************************************************************************)
Subscribing(r) == request[r].at \in {"price", "provider", "write"}

CreatingInv(r) ==
  /\ Subscribing(r) =>
       LET b == request[r].baker IN
         /\ b \in Bakers /\ bakerLock[b] = r
         /\ ~strayed[b] => \A s \in Subs : Open(s) => mandate[s].owner # b
  /\ At(r, "provider") \/ At(r, "late") => request[r].plan \in Plans
  /\ At(r, "late") => request[r].baker \in Bakers
  /\ At(r, "write") =>
       LET s == request[r].sub IN
         /\ s \in Subs /\ mandate[s].state # "none" /\ ~mandate[s].offered
         /\ mandate[s].owner = request[r].baker /\ mandate[s].plan = request[r].plan

Told(s, says) ==
  /\ mandate[s].state \notin {"none", "awaiting"}
  /\ says = "ACTIVE" => mandate[s].authorised

WebhookInv(r) ==
  At(r, "apply") => /\ request[r].baker \in Bakers /\ request[r].sub \in Subs
                    /\ request[r].says \in Statuses
                    /\ Told(request[r].sub, request[r].says)

MandateInv(s) ==
  /\ mandate[s].state = "none" => ~mandate[s].offered
  /\ mandate[s].state # "none" => mandate[s].owner \in Bakers /\ mandate[s].plan \in Plans

\* What a baker's row tracks; a baker nothing has strayed to is not ACTIVE on
\* nothing.
RowInv(b) ==
  /\ sub[b] # None =>
       /\ mandate[sub[b]].state # "none" /\ mandate[sub[b]].offered
       /\ mandate[sub[b]].owner = b /\ mandate[sub[b]].plan = plan[b]
       /\ abandoned[b] => mandate[sub[b]].lapsed
  /\ ~strayed[b] /\ status[b] = "ACTIVE" => sub[b] # None

IInv ==
  /\ TypeOK
  /\ \A r \in Requests : CreatingInv(r) /\ WebhookInv(r)
  /\ \A s \in Subs : MandateInv(s)
  /\ \A b \in Bakers : RowInv(b)
  /\ \A e \in events : Told(e.sub, e.says)
  /\ OneOpenCheckout
  /\ UnstrayedIsAuthorised

-----------------------------------------------------------------------------
(***************************************************************************)
(* What the comments promise and the code does not do.                     *)
(***************************************************************************)
\* No live mandate "that our DB stops tracking": a mandate the baker was
\* offered and authorised is the one on the baker's row.
LiveIsTracked ==
  \A s \in Subs : mandate[s].state = "active" /\ mandate[s].offered
    => sub[mandate[s].owner] = s
=============================================================================
