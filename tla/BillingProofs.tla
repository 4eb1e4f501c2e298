--------------------------- MODULE BillingProofs ---------------------------
(***************************************************************************)
(* Theorems about the two halves of billing: about Subscriptions, for any  *)
(* number of bakers, subscriptions and handlers, any threshold, and        *)
(* webhooks in any order; and about Webhooks, for any events, of any types *)
(* and payments, and any number of deliveries and failures.  The two share *)
(* no variable.  Only safety: fairness plays no part in them.              *)
(***************************************************************************)
EXTENDS Subscriptions, Webhooks, TLAPS

-----------------------------------------------------------------------------
(* What a statement does to a mandate.                                     *)

Fields(s) ==
  /\ mandate[s].state \in {"none", "awaiting", "active", "paused", "ended"}
  /\ mandate[s].owner \in Bakers \cup {None}
  /\ mandate[s].plan \in Plans \cup {None}

LEMMA MandateFields ==
  ASSUME TypeOK, NEW s \in Subs
  PROVE  mandate[s] \in Mandate /\ Fields(s)
  BY DEF TypeOK, Mandate, Fields

\* The fields the properties are about are as they were.
Kept(s) ==
  /\ mandate'[s].state = mandate[s].state
  /\ mandate'[s].owner = mandate[s].owner
  /\ mandate'[s].plan = mandate[s].plan
  /\ mandate'[s].offered <=> mandate[s].offered
  /\ mandate'[s].lapsed <=> mandate[s].lapsed
  /\ mandate'[s].authorised <=> mandate[s].authorised

LEMMA Made ==
  ASSUME TypeOK, NEW s \in Subs, NEW b \in Bakers, NEW p \in Plans,
         mandate' = [mandate EXCEPT ![s] =
            [NoMandate EXCEPT !.state = "awaiting", !.owner = b, !.plan = p]]
  PROVE  /\ mandate' \in [Subs -> Mandate]
         /\ mandate'[s].state = "awaiting" /\ mandate'[s].owner = b
         /\ mandate'[s].plan = p /\ ~mandate'[s].offered
         /\ \A t \in Subs \ {s} : Kept(t)
<1> DEFINE m == [NoMandate EXCEPT !.state = "awaiting", !.owner = b, !.plan = p]
<1>1. /\ m \in Mandate /\ m.state = "awaiting" /\ m.owner = b /\ m.plan = p
      /\ m.offered = FALSE
  BY DEF NoMandate, Mandate
<1>2. mandate' \in [Subs -> Mandate] /\ mandate'[s] = m
  BY <1>1 DEF TypeOK
<1>3. \A t \in Subs \ {s} : mandate'[t] = mandate[t]
  BY DEF TypeOK
<1> QED BY <1>1, <1>2, <1>3 DEF Kept

LEMMA Offered ==
  ASSUME TypeOK, NEW s \in Subs,
         mandate' = [mandate EXCEPT ![s].offered = TRUE]
  PROVE  /\ mandate' \in [Subs -> Mandate]
         /\ mandate'[s].state = mandate[s].state /\ mandate'[s].owner = mandate[s].owner
         /\ mandate'[s].plan = mandate[s].plan /\ mandate'[s].offered
         /\ mandate'[s].authorised <=> mandate[s].authorised
         /\ \A t \in Subs \ {s} : Kept(t)
<1> DEFINE m == [mandate[s] EXCEPT !.offered = TRUE]
<1>0. mandate[s] \in Mandate
  BY DEF TypeOK
<1>1. /\ m \in Mandate /\ m.state = mandate[s].state /\ m.owner = mandate[s].owner
      /\ m.plan = mandate[s].plan /\ m.offered = TRUE
      /\ m.authorised = mandate[s].authorised
  BY <1>0 DEF Mandate
<1>2. mandate' \in [Subs -> Mandate] /\ mandate'[s] = m
  BY <1>1 DEF TypeOK
<1>3. \A t \in Subs \ {s} : mandate'[t] = mandate[t]
  BY DEF TypeOK
<1> QED BY <1>1, <1>2, <1>3 DEF Kept

LEMMA Ended ==
  ASSUME TypeOK, NEW s,
         mandate' = [mandate EXCEPT ![s].ending = TRUE]
  PROVE  /\ mandate' \in [Subs -> Mandate]
         /\ \A t \in Subs : Kept(t)
<1>1. \A t \in Subs \ {s} : mandate'[t] = mandate[t]
  BY DEF TypeOK
<1>2. CASE s \in Subs
  <2> DEFINE m == [mandate[s] EXCEPT !.ending = TRUE]
  <2>0. mandate[s] \in Mandate
    BY <1>2 DEF TypeOK
  <2>1. /\ m \in Mandate /\ m.state = mandate[s].state /\ m.owner = mandate[s].owner
        /\ m.plan = mandate[s].plan /\ m.offered = mandate[s].offered
        /\ m.lapsed = mandate[s].lapsed /\ m.authorised = mandate[s].authorised
    BY <2>0 DEF Mandate
  <2>2. mandate' \in [Subs -> Mandate] /\ mandate'[s] = m
    BY <1>2, <2>1 DEF TypeOK
  <2> QED BY <1>1, <2>1, <2>2 DEF Kept
<1>3. CASE s \notin Subs
  BY <1>1, <1>3 DEF TypeOK, Kept
<1> QED BY <1>2, <1>3

LEMMA Lapsed ==
  ASSUME TypeOK, NEW s,
         mandate' = [mandate EXCEPT ![s].lapsed = TRUE]
  PROVE  /\ mandate' \in [Subs -> Mandate]
         /\ \A t \in Subs \ {s} : Kept(t)
         /\ s \in Subs =>
              /\ mandate'[s].state = mandate[s].state /\ mandate'[s].owner = mandate[s].owner
              /\ mandate'[s].plan = mandate[s].plan /\ mandate'[s].lapsed
              /\ mandate'[s].offered <=> mandate[s].offered
              /\ mandate'[s].authorised <=> mandate[s].authorised
<1>1. \A t \in Subs \ {s} : mandate'[t] = mandate[t]
  BY DEF TypeOK
<1>2. CASE s \in Subs
  <2> DEFINE m == [mandate[s] EXCEPT !.lapsed = TRUE]
  <2>0. mandate[s] \in Mandate
    BY <1>2 DEF TypeOK
  <2>1. /\ m \in Mandate /\ m.state = mandate[s].state /\ m.owner = mandate[s].owner
        /\ m.plan = mandate[s].plan /\ m.offered = mandate[s].offered
        /\ m.lapsed = TRUE /\ m.authorised = mandate[s].authorised
    BY <2>0 DEF Mandate
  <2>2. mandate' \in [Subs -> Mandate] /\ mandate'[s] = m
    BY <1>2, <2>1 DEF TypeOK
  <2> QED BY <1>1, <2>1, <2>2 DEF Kept
<1>3. CASE s \notin Subs
  BY <1>1, <1>3 DEF TypeOK, Kept
<1> QED BY <1>2, <1>3

LEMMA Moved ==
  ASSUME TypeOK, NEW s \in Subs, NEW from, NEW to, NEW says, Move(s, from, to, says),
         to \in {"active", "paused", "ended"}
  PROVE  /\ mandate' \in [Subs -> Mandate]
         /\ mandate'[s].state = to /\ mandate'[s].owner = mandate[s].owner
         /\ mandate'[s].plan = mandate[s].plan
         /\ mandate'[s].offered <=> mandate[s].offered
         /\ mandate'[s].lapsed <=> mandate[s].lapsed
         /\ mandate'[s].authorised <=> (mandate[s].authorised \/ to = "active")
         /\ \A t \in Subs \ {s} : Kept(t)
<1> DEFINE m == [mandate[s] EXCEPT !.state = to,
                                   !.authorised = @ \/ to = "active",
                                   !.ending = @ /\ to # "ended"]
<1>0. mandate[s] \in Mandate
  BY DEF TypeOK
<1>1. /\ m \in Mandate /\ m.state = to /\ m.owner = mandate[s].owner
      /\ m.plan = mandate[s].plan /\ m.offered = mandate[s].offered
      /\ m.lapsed = mandate[s].lapsed
      /\ m.authorised = (mandate[s].authorised \/ to = "active")
  BY <1>0 DEF Mandate
<1>2. mandate' \in [Subs -> Mandate] /\ mandate'[s] = m
  BY <1>1 DEF TypeOK, Move
<1>3. \A t \in Subs \ {s} : mandate'[t] = mandate[t]
  BY DEF TypeOK, Move
<1> QED BY <1>1, <1>2, <1>3 DEF Kept

-----------------------------------------------------------------------------
(* What a statement does to the acting request; the others stay.           *)

OthersStay(r) == \A q \in Requests \ {r} : request'[q] = request[q]

LEMMA RequestFields ==
  ASSUME TypeOK, NEW r \in Requests
  PROVE  /\ request[r] \in Request
         /\ request[r].baker \in Bakers \cup {None} /\ request[r].sub \in Subs \cup {None}
         /\ request[r].plan \in Plans \cup {None} /\ request[r].says \in Statuses \cup {None}
  BY DEF TypeOK, Request

LEMMA Starts ==
  ASSUME TypeOK, NEW r \in Requests, NEW b \in Bakers,
         request' = [request EXCEPT ![r] = [Idle EXCEPT !.at = "price", !.baker = b]]
  PROVE  /\ request' \in [Requests -> Request]
         /\ request'[r].at = "price" /\ request'[r].baker = b /\ OthersStay(r)
<1> DEFINE q == [Idle EXCEPT !.at = "price", !.baker = b]
<1>1. q \in Request /\ q.at = "price" /\ q.baker = b
  BY DEF Idle, Request
<1> QED BY <1>1 DEF TypeOK, OthersStay

LEMMA Cancels ==
  ASSUME TypeOK, NEW r \in Requests, NEW b \in Bakers, NEW s \in Subs,
         request' = [request EXCEPT ![r] =
                       [Idle EXCEPT !.at = "cancel", !.baker = b, !.sub = s]]
  PROVE  /\ request' \in [Requests -> Request]
         /\ request'[r].at = "cancel" /\ OthersStay(r)
<1> DEFINE q == [Idle EXCEPT !.at = "cancel", !.baker = b, !.sub = s]
<1>1. q \in Request /\ q.at = "cancel"
  BY DEF Idle, Request
<1> QED BY <1>1 DEF TypeOK, OthersStay

LEMMA Hears ==
  ASSUME TypeOK, NEW r \in Requests, NEW b \in Bakers, NEW s \in Subs, NEW says \in Statuses,
         request' = [request EXCEPT ![r] =
            [Idle EXCEPT !.at = "apply", !.baker = b, !.sub = s, !.says = says]]
  PROVE  /\ request' \in [Requests -> Request]
         /\ request'[r].at = "apply" /\ request'[r].baker = b /\ request'[r].sub = s
         /\ request'[r].says = says /\ OthersStay(r)
<1> DEFINE q == [Idle EXCEPT !.at = "apply", !.baker = b, !.sub = s, !.says = says]
<1>1. q \in Request /\ q.at = "apply" /\ q.baker = b /\ q.sub = s /\ q.says = says
  BY DEF Idle, Request
<1> QED BY <1>1 DEF TypeOK, OthersStay

LEMMA Prices ==
  ASSUME TypeOK, NEW r \in Requests, NEW p \in Plans,
         request' = [request EXCEPT ![r].at = "provider", ![r].plan = p]
  PROVE  /\ request' \in [Requests -> Request]
         /\ request'[r].at = "provider" /\ request'[r].baker = request[r].baker
         /\ request'[r].plan = p /\ OthersStay(r)
<1> DEFINE q == [request[r] EXCEPT !.at = "provider", !.plan = p]
<1>0. request[r] \in Request
  BY RequestFields
<1>1. q \in Request /\ q.at = "provider" /\ q.baker = request[r].baker /\ q.plan = p
  BY <1>0 DEF Request
<1>2. request' = [request EXCEPT ![r] = q]
  BY DEF TypeOK
<1> QED BY <1>1, <1>2 DEF TypeOK, OthersStay

LEMMA Calls ==
  ASSUME TypeOK, NEW r \in Requests, NEW s \in Subs,
         request' = [request EXCEPT ![r].at = "write", ![r].sub = s]
  PROVE  /\ request' \in [Requests -> Request]
         /\ request'[r].at = "write" /\ request'[r].baker = request[r].baker
         /\ request'[r].plan = request[r].plan /\ request'[r].sub = s /\ OthersStay(r)
<1> DEFINE q == [request[r] EXCEPT !.at = "write", !.sub = s]
<1>0. request[r] \in Request
  BY RequestFields
<1>1. /\ q \in Request /\ q.at = "write" /\ q.baker = request[r].baker
      /\ q.plan = request[r].plan /\ q.sub = s
  BY <1>0 DEF Request
<1>2. request' = [request EXCEPT ![r] = q]
  BY DEF TypeOK
<1> QED BY <1>1, <1>2 DEF TypeOK, OthersStay

LEMMA Rests ==
  ASSUME TypeOK, NEW r \in Requests, request' = [request EXCEPT ![r] = Idle]
  PROVE  /\ request' \in [Requests -> Request]
         /\ request'[r].at = "idle" /\ OthersStay(r)
<1>1. Idle \in Request /\ Idle.at = "idle"
  BY DEF Idle, Request
<1> QED BY <1>1 DEF TypeOK, OthersStay

LEMMA Expires ==
  ASSUME TypeOK, NEW r \in Requests, request' = [request EXCEPT ![r].at = "late"]
  PROVE  /\ request' \in [Requests -> Request]
         /\ request'[r].at = "late" /\ request'[r].baker = request[r].baker
         /\ request'[r].plan = request[r].plan /\ OthersStay(r)
<1> DEFINE q == [request[r] EXCEPT !.at = "late"]
<1>0. request[r] \in Request
  BY RequestFields
<1>1. /\ q \in Request /\ q.at = "late" /\ q.baker = request[r].baker
      /\ q.plan = request[r].plan
  BY <1>0 DEF Request
<1>2. request' = [request EXCEPT ![r] = q]
  BY DEF TypeOK
<1> QED BY <1>1, <1>2 DEF TypeOK, OthersStay

\* A transaction that ends gives back its own locks and no others.
LEMMA GivesBack ==
  ASSUME TypeOK, NEW r \in Requests, GiveBack(r)
  PROVE  /\ bakerLock' \in [Bakers -> Requests \cup {None}]
         /\ countLock' \in Requests \cup {None}
         /\ \A b \in Bakers : bakerLock[b] # r => bakerLock'[b] = bakerLock[b]
  BY DEF TypeOK, GiveBack

LEMMA Releases ==
  ASSUME TypeOK, NEW r \in Requests, Release(r)
  PROVE  /\ request' \in [Requests -> Request] /\ request'[r].at = "idle" /\ OthersStay(r)
         /\ bakerLock' \in [Bakers -> Requests \cup {None}]
         /\ countLock' \in Requests \cup {None}
         /\ \A b \in Bakers : bakerLock[b] # r => bakerLock'[b] = bakerLock[b]
  BY Rests, GivesBack DEF Release

\* Nobody else holds the lock of the baker a request subscribes.
LEMMA Exclusive ==
  ASSUME IInv, NEW r \in Requests, NEW q \in Requests \ {r}, Subscribing(r), Subscribing(q)
  PROVE  request[q].baker # request[r].baker
  BY DEF IInv, CreatingInv

-----------------------------------------------------------------------------
(* What keeps the invariant, part by part.                                 *)

LEMMA ToldKept ==
  ASSUME NEW s, NEW says, Kept(s), Told(s, says)
  PROVE  Told(s, says)'
  BY DEF Kept, Told

LEMMA MandateKept ==
  ASSUME NEW s, Kept(s), MandateInv(s)
  PROVE  MandateInv(s)'
  BY DEF Kept, MandateInv

LEMMA OpenKept ==
  ASSUME NEW s, Kept(s)
  PROVE  Open(s)' <=> Open(s)
  BY DEF Kept, Open

\* A request that stays where it is: what others do must leave it its lock,
\* its mandate, and no new checkout that its baker could still pay.
LEMMA CreatingStays ==
  ASSUME IInv, NEW q \in Requests, request'[q] = request[q],
         Subscribing(q) => bakerLock'[request[q].baker] = q,
         \A b \in Bakers : strayed[b] => strayed'[b],
         \A s \in Subs : mandate[s].state # "none" =>
            /\ mandate'[s].state # "none" /\ mandate'[s].owner = mandate[s].owner
            /\ mandate'[s].plan = mandate[s].plan,
         Subscribing(q) => \A s \in Subs :
            Open(s)' => Open(s) \/ mandate'[s].owner # request[q].baker,
         \A s \in Subs : mandate[s].state = "none" => ~Open(s),
         At(q, "write") => \A s \in Subs :
            s = request[q].sub => (mandate'[s].offered <=> mandate[s].offered)
  PROVE  CreatingInv(q)'
<1>1. CreatingInv(q)
  BY DEF IInv
<1>2. Subscribing(q)' <=> Subscribing(q)
  BY DEF Subscribing
<1>3. ASSUME Subscribing(q)
      PROVE  LET b == request'[q].baker IN
               /\ b \in Bakers /\ bakerLock'[b] = q
               /\ ~strayed'[b] => \A s \in Subs : Open(s)' => mandate'[s].owner # b
  <2>1. /\ request[q].baker \in Bakers
        /\ ~strayed[request[q].baker] =>
             \A s \in Subs : Open(s) => mandate[s].owner # request[q].baker
    BY <1>1, <1>3 DEF CreatingInv
  <2>2. ASSUME ~strayed'[request[q].baker], NEW s \in Subs, Open(s)'
        PROVE  mandate'[s].owner # request[q].baker
    <3>1. ~strayed[request[q].baker]
      BY <2>1, <2>2
    <3>2. CASE Open(s)
      <4>1. mandate[s].state # "none"
        BY <3>2
      <4>2. mandate[s].owner # request[q].baker
        BY <2>1, <3>1, <3>2
      <4> QED BY <4>1, <4>2
    <3>3. CASE ~Open(s)
      BY <1>3, <2>2, <3>3
    <3> QED BY <3>2, <3>3
  <2>3. bakerLock'[request[q].baker] = q
    BY <1>3
  <2> QED BY <2>1, <2>2, <2>3
<1>4. /\ At(q, "provider")' \/ At(q, "late")' => request'[q].plan \in Plans
      /\ At(q, "late")' => request'[q].baker \in Bakers
  BY <1>1 DEF CreatingInv, At
<1>5. ASSUME At(q, "write")
      PROVE  LET s == request'[q].sub IN
               /\ s \in Subs /\ mandate'[s].state # "none" /\ ~mandate'[s].offered
               /\ mandate'[s].owner = request'[q].baker /\ mandate'[s].plan = request'[q].plan
  <2>1. LET s == request[q].sub IN
          /\ s \in Subs /\ mandate[s].state # "none" /\ ~mandate[s].offered
          /\ mandate[s].owner = request[q].baker /\ mandate[s].plan = request[q].plan
    BY <1>1, <1>5 DEF CreatingInv
  <2> QED BY <1>5, <2>1
<1>6. At(q, "write")' <=> At(q, "write")
  BY DEF At
<1> QED BY <1>2, <1>3, <1>4, <1>5, <1>6 DEF CreatingInv

LEMMA WebhookStays ==
  ASSUME IInv, NEW q \in Requests, request'[q] = request[q],
         \A s \in Subs : \A says : Told(s, says) => Told(s, says)'
  PROVE  WebhookInv(q)'
<1>1. WebhookInv(q)
  BY DEF IInv
<1> QED BY <1>1 DEF WebhookInv, At

LEMMA NoneIsNotOpen ==
  ASSUME IInv
  PROVE  \A s \in Subs : mandate[s].state = "none" => ~Open(s)
  BY DEF Open, IInv, MandateInv

\* A step of one request that leaves the bakers' rows and what counts of the
\* mandates alone.
LEMMA QuietStep ==
  ASSUME IInv, TypeOK', NEW r \in Requests, OthersStay(r), UNCHANGED <<bakerRow, strayed>>,
         \A s \in Subs : Kept(s), events' \subseteq events,
         CreatingInv(r)', WebhookInv(r)',
         \A q \in Requests \ {r} : Subscribing(q) => bakerLock'[request[q].baker] = q
  PROVE  IInv'
<1>0. TypeOK /\ UNCHANGED <<status, plan, sub, abandoned, strayed>>
  BY DEF IInv, bakerRow
<1>1. ASSUME NEW q \in Requests PROVE CreatingInv(q)' /\ WebhookInv(q)'
  <2>1. CASE q = r
    BY <2>1
  <2>2. CASE q # r
    <3>1. request'[q] = request[q]
      BY <2>2 DEF OthersStay
    <3>2. \A s \in Subs : mandate[s].state # "none" =>
            /\ mandate'[s].state # "none" /\ mandate'[s].owner = mandate[s].owner
            /\ mandate'[s].plan = mandate[s].plan
      BY DEF Kept
    <3>3. \A s \in Subs : mandate'[s].offered <=> mandate[s].offered
      BY DEF Kept
    <3>4. \A s \in Subs : Open(s)' => Open(s)
      BY OpenKept
    <3>5. CreatingInv(q)'
      BY <1>0, <2>2, <3>1, <3>2, <3>3, <3>4, NoneIsNotOpen, CreatingStays
    <3>6. WebhookInv(q)'
      BY <3>1, ToldKept, WebhookStays
    <3> QED BY <3>5, <3>6
  <2> QED BY <2>1, <2>2
<1>2. \A s \in Subs : MandateInv(s)'
  BY MandateKept DEF IInv
<1>3. ASSUME NEW b \in Bakers PROVE RowInv(b)'
  <2>1. RowInv(b) /\ sub[b] \in Subs \cup {None}
    BY <1>0 DEF IInv, TypeOK
  <2>2. sub[b] # None => Kept(sub[b])
    BY <2>1
  <2> QED BY <1>0, <2>1, <2>2 DEF RowInv, Kept
<1>4. \A e \in events' : Told(e.sub, e.says)'
  <2> SUFFICES ASSUME NEW e \in events' PROVE Told(e.sub, e.says)'
    OBVIOUS
  <2>1. Told(e.sub, e.says) /\ e.sub \in Subs
    BY <1>0 DEF IInv, TypeOK
  <2> QED BY <2>1, ToldKept
<1>5. OneOpenCheckout'
  <2> SUFFICES ASSUME NEW s \in Subs, Open(s)', ~strayed'[mandate'[s].owner]
               PROVE  /\ sub'[mandate'[s].owner] = s
                      /\ status'[mandate'[s].owner] = "PENDING"
    BY DEF OneOpenCheckout
  <2>1. Open(s) /\ mandate'[s].owner = mandate[s].owner
    BY OpenKept DEF Kept
  <2> QED BY <1>0, <2>1 DEF IInv, OneOpenCheckout
<1>6. UnstrayedIsAuthorised'
  <2> SUFFICES ASSUME NEW b \in Bakers, ~strayed[b], status[b] = "ACTIVE"
               PROVE  mandate'[sub[b]].authorised
    BY <1>0 DEF UnstrayedIsAuthorised
  <2>1. sub[b] \in Subs
    BY <1>0 DEF IInv, RowInv, TypeOK
  <2>2. mandate[sub[b]].authorised
    BY DEF IInv, UnstrayedIsAuthorised
  <2> QED BY <2>1, <2>2 DEF Kept
<1> QED BY <1>1, <1>2, <1>3, <1>4, <1>5, <1>6 DEF IInv

LEMMA UnchangedIsKept ==
  ASSUME UNCHANGED mandate
  PROVE  \A s \in Subs : Kept(s)
  BY DEF Kept

LEMMA Nowhere ==
  ASSUME NEW r, request[r].at \in {"idle", "cancel"}
  PROVE  CreatingInv(r) /\ WebhookInv(r)
  BY DEF CreatingInv, WebhookInv, Subscribing, At

\* Others keep their locks when a request takes or gives back its own.
LEMMA LocksStay ==
  ASSUME IInv, NEW q \in Requests, UNCHANGED bakerLock, Subscribing(q)
  PROVE  bakerLock'[request[q].baker] = q
  BY DEF IInv, CreatingInv

-----------------------------------------------------------------------------
(* Action by action.                                                       *)

LEMMA StartCreateStep ==
  ASSUME IInv, NEW r \in Requests, NEW b \in Bakers, StartCreate(r, b)
  PROVE  IInv'
<1>0. /\ TypeOK /\ UNCHANGED <<bakerRow, countLock, mandate, events, strayed>>
      /\ UNCHANGED <<status, plan, sub, abandoned>>
      /\ bakerLock[b] = None /\ bakerLock' = [bakerLock EXCEPT ![b] = r] /\ MaySubscribe(b)
  BY DEF IInv, StartCreate, bakerRow, world
<1>1. /\ request' \in [Requests -> Request]
      /\ request'[r].at = "price" /\ request'[r].baker = b /\ OthersStay(r)
  BY <1>0, Starts DEF StartCreate
<1>2. TypeOK'
  BY <1>0, <1>1 DEF TypeOK
\* The guard: what the baker could still have paid would be its row's, young.
<1>3. ASSUME ~strayed[b], NEW s \in Subs, Open(s), mandate[s].owner = b PROVE FALSE
  <2>1. sub[b] = s /\ status[b] = "PENDING"
    BY <1>3 DEF IInv, OneOpenCheckout
  <2>2. abandoned[b]
    BY <1>0, <2>1 DEF MaySubscribe
  <2>3. sub[b] # None
    BY <2>1, SubscriptionsAssumption
  <2>4. mandate[s].lapsed
    BY <2>1, <2>2, <2>3 DEF IInv, RowInv
  <2> QED BY <1>3, <2>4 DEF Open
<1>4. CreatingInv(r)'
  <2>1. bakerLock'[b] = r
    BY <1>0 DEF TypeOK
  <2>2. ~strayed'[b] => \A s \in Subs : Open(s)' => mandate'[s].owner # b
    BY <1>0, <1>3 DEF Open
  <2> QED BY <1>1, <2>1, <2>2 DEF CreatingInv, At
<1>5. WebhookInv(r)'
  BY <1>1 DEF WebhookInv, At
<1>6. ASSUME NEW q \in Requests \ {r}, Subscribing(q)
      PROVE  bakerLock'[request[q].baker] = q
  <2>1. request[q].baker \in Bakers /\ bakerLock[request[q].baker] = q
    BY <1>6 DEF IInv, CreatingInv
  <2>2. request[q].baker # b
    BY <1>0, <2>1, SubscriptionsAssumption
  <2> QED BY <1>0, <2>1, <2>2 DEF TypeOK
<1> QED BY <1>0, <1>1, <1>2, <1>4, <1>5, <1>6, UnchangedIsKept, QuietStep

LEMMA OfferIsAPlan == Offer \in Plans
  BY DEF Offer, Plans

LEMMA PriceStep ==
  ASSUME IInv, NEW r \in Requests, Price(r)
  PROVE  IInv'
<1>0. /\ TypeOK /\ UNCHANGED <<bakerRow, bakerLock, mandate, events, strayed>>
      /\ UNCHANGED <<status, plan, sub, abandoned>> /\ Subscribing(r) /\ countLock' = r
  BY DEF IInv, Price, bakerRow, world, Subscribing, At
<1>1. /\ request' \in [Requests -> Request]
      /\ request'[r].at = "provider" /\ request'[r].baker = request[r].baker
      /\ request'[r].plan \in Plans /\ OthersStay(r)
  <2>1. request' = [request EXCEPT ![r].at = "provider", ![r].plan = Offer]
    BY DEF Price
  <2> QED BY <1>0, <2>1, OfferIsAPlan, Prices
<1>2. TypeOK'
  BY <1>0, <1>1 DEF TypeOK
<1>3. CreatingInv(r)'
  <2>1. LET b == request[r].baker IN
          /\ b \in Bakers /\ bakerLock[b] = r
          /\ ~strayed[b] => \A s \in Subs : Open(s) => mandate[s].owner # b
    BY <1>0 DEF IInv, CreatingInv
  <2> QED BY <1>0, <1>1, <2>1 DEF CreatingInv, At, Open
<1>4. WebhookInv(r)'
  BY <1>1 DEF WebhookInv, At
<1> QED BY <1>0, <1>1, <1>2, <1>3, <1>4, UnchangedIsKept, LocksStay, QuietStep

LEMMA AbortCreateStep ==
  ASSUME IInv, NEW r \in Requests, AbortCreate(r)
  PROVE  IInv'
<1>0. /\ TypeOK /\ UNCHANGED <<bakerRow, mandate, events, strayed>>
      /\ UNCHANGED <<status, plan, sub, abandoned>> /\ Subscribing(r) /\ Release(r)
  BY DEF IInv, AbortCreate, bakerRow, world, Subscribing, At
<1>1. /\ request' \in [Requests -> Request] /\ request'[r].at = "idle" /\ OthersStay(r)
      /\ bakerLock' \in [Bakers -> Requests \cup {None}]
      /\ countLock' \in Requests \cup {None}
      /\ \A b \in Bakers : bakerLock[b] # r => bakerLock'[b] = bakerLock[b]
  BY <1>0, Releases
<1>2. TypeOK'
  BY <1>0, <1>1 DEF TypeOK
<1>3. CreatingInv(r)' /\ WebhookInv(r)'
  BY <1>1 DEF CreatingInv, WebhookInv, Subscribing, At
<1>4. ASSUME NEW q \in Requests \ {r}, Subscribing(q)
      PROVE  bakerLock'[request[q].baker] = q
  BY <1>1, <1>4 DEF IInv, CreatingInv
<1> QED BY <1>0, <1>1, <1>2, <1>3, <1>4, UnchangedIsKept, QuietStep

LEMMA ExpireStep ==
  ASSUME IInv, NEW r \in Requests, Expire(r)
  PROVE  IInv'
<1>0. /\ TypeOK /\ UNCHANGED <<bakerRow, mandate, events, strayed>>
      /\ UNCHANGED <<status, plan, sub, abandoned>> /\ GiveBack(r)
      /\ request[r].baker \in Bakers /\ request[r].plan \in Plans
  BY DEF IInv, Expire, bakerRow, world, Subscribing, At, CreatingInv
<1>1. /\ request' \in [Requests -> Request]
      /\ request'[r].at = "late" /\ request'[r].baker = request[r].baker
      /\ request'[r].plan = request[r].plan /\ OthersStay(r)
  BY <1>0, Expires DEF Expire
<1>2. /\ bakerLock' \in [Bakers -> Requests \cup {None}]
      /\ countLock' \in Requests \cup {None}
      /\ \A b \in Bakers : bakerLock[b] # r => bakerLock'[b] = bakerLock[b]
  BY <1>0, GivesBack
<1>3. TypeOK'
  BY <1>0, <1>1, <1>2 DEF TypeOK
<1>4. CreatingInv(r)' /\ WebhookInv(r)'
  BY <1>0, <1>1 DEF CreatingInv, WebhookInv, Subscribing, At
<1>5. ASSUME NEW q \in Requests \ {r}, Subscribing(q)
      PROVE  bakerLock'[request[q].baker] = q
  BY <1>2, <1>5 DEF IInv, CreatingInv
<1> QED BY <1>0, <1>1, <1>3, <1>4, <1>5, UnchangedIsKept, QuietStep

LEMMA StartCancelStep ==
  ASSUME IInv, NEW r \in Requests, NEW b \in Bakers, StartCancel(r, b)
  PROVE  IInv'
<1>0. /\ TypeOK /\ UNCHANGED <<bakerRow, bakerLock, countLock, mandate, events, strayed>>
      /\ UNCHANGED <<status, plan, sub, abandoned>> /\ sub[b] \in Subs
  BY DEF IInv, TypeOK, StartCancel, bakerRow, world, locks
<1>1. /\ request' \in [Requests -> Request] /\ request'[r].at = "cancel" /\ OthersStay(r)
  BY <1>0, Cancels DEF StartCancel
<1>2. TypeOK'
  BY <1>0, <1>1 DEF TypeOK
<1>3. CreatingInv(r)' /\ WebhookInv(r)'
  BY <1>1 DEF CreatingInv, WebhookInv, Subscribing, At
<1> QED BY <1>0, <1>1, <1>2, <1>3, UnchangedIsKept, LocksStay, QuietStep

LEMMA FinishCancelStep ==
  ASSUME IInv, NEW r \in Requests, FinishCancel(r)
  PROVE  IInv'
<1>0. /\ TypeOK /\ UNCHANGED <<bakerRow, bakerLock, countLock, events, strayed>>
      /\ UNCHANGED <<status, plan, sub, abandoned>>
  BY DEF IInv, FinishCancel, bakerRow, locks
<1>1. /\ request' \in [Requests -> Request] /\ request'[r].at = "idle" /\ OthersStay(r)
  BY <1>0, Rests DEF FinishCancel
<1>2. mandate' \in [Subs -> Mandate] /\ \A s \in Subs : Kept(s)
  <2>1. CASE mandate[request[r].sub].state \in {"active", "paused"}
    <3>1. mandate' = [mandate EXCEPT ![request[r].sub].ending = TRUE]
      BY <2>1 DEF FinishCancel
    <3> QED BY <1>0, <3>1, Ended
  <2>2. CASE ~(mandate[request[r].sub].state \in {"active", "paused"})
    <3>1. mandate' = mandate
      BY <2>2 DEF FinishCancel
    <3> QED BY <1>0, <3>1, UnchangedIsKept DEF TypeOK
  <2> QED BY <2>1, <2>2
<1>3. TypeOK'
  BY <1>0, <1>1, <1>2 DEF TypeOK
<1>4. CreatingInv(r)' /\ WebhookInv(r)'
  BY <1>1 DEF CreatingInv, WebhookInv, Subscribing, At
<1> QED BY <1>0, <1>1, <1>2, <1>3, <1>4, LocksStay, QuietStep

LEMMA StartWebhookStep ==
  ASSUME IInv, NEW r \in Requests, StartWebhook(r)
  PROVE  IInv'
<1>0. /\ TypeOK /\ UNCHANGED <<bakerRow, bakerLock, countLock, mandate, strayed>>
      /\ UNCHANGED <<status, plan, sub, abandoned>>
  BY DEF IInv, StartWebhook, bakerRow, locks
<1>1. PICK e \in events, b \in Bakers :
        /\ request' = [request EXCEPT ![r] =
             [Idle EXCEPT !.at = "apply", !.baker = b, !.sub = e.sub, !.says = e.says]]
        /\ events' = events \ {e}
  BY DEF StartWebhook
<1>2. e.sub \in Subs /\ e.says \in Statuses /\ Told(e.sub, e.says)
  BY <1>0 DEF IInv, TypeOK
<1>3. /\ request' \in [Requests -> Request]
      /\ request'[r].at = "apply" /\ request'[r].baker = b /\ request'[r].sub = e.sub
      /\ request'[r].says = e.says /\ OthersStay(r)
  BY <1>0, <1>1, <1>2, Hears
<1>4. TypeOK'
  BY <1>0, <1>1, <1>3 DEF TypeOK
<1>5. CreatingInv(r)'
  BY <1>3 DEF CreatingInv, Subscribing, At
<1>6. WebhookInv(r)'
  <2>1. /\ mandate'[e.sub].state \notin {"none", "awaiting"}
        /\ e.says = "ACTIVE" => mandate'[e.sub].authorised
    BY <1>0, <1>2 DEF Told
  <2> QED BY <1>2, <1>3, <2>1 DEF WebhookInv, Told
<1> QED BY <1>0, <1>1, <1>3, <1>4, <1>5, <1>6, UnchangedIsKept, LocksStay, QuietStep

\* The new mandate was nobody's, and nobody can pay it yet.
\* A subscription the provider creates is nobody's open checkout yet, whether
\* the request that asked for it still has its locks or not.
LEMMA MakeStep ==
  ASSUME IInv, NEW r \in Requests, NEW s \in Subs, Make(r, s),
         request[r].baker \in Bakers, request[r].plan \in Plans,
         request' \in [Requests -> Request], OthersStay(r),
         UNCHANGED <<bakerRow, bakerLock, countLock, events, strayed>>,
         \/ request'[r].at = "idle"
         \/ /\ Subscribing(r) /\ request'[r].at = "write"
            /\ request'[r].baker = request[r].baker /\ request'[r].plan = request[r].plan
            /\ request'[r].sub = s
  PROVE  IInv'
<1>0. /\ TypeOK /\ UNCHANGED <<status, plan, sub, abandoned>>
      /\ Subscribing(r) =>
           /\ bakerLock[request[r].baker] = r
           /\ ~strayed[request[r].baker] =>
                \A t \in Subs : Open(t) => mandate[t].owner # request[r].baker
  BY DEF IInv, bakerRow, CreatingInv
<1>1. /\ mandate[s].state = "none"
      /\ mandate' = [mandate EXCEPT ![s] =
           [NoMandate EXCEPT !.state = "awaiting", !.owner = request[r].baker,
                             !.plan = request[r].plan]]
  BY DEF Make
<1>2. /\ mandate' \in [Subs -> Mandate]
      /\ mandate'[s].state = "awaiting" /\ mandate'[s].owner = request[r].baker
      /\ mandate'[s].plan = request[r].plan /\ ~mandate'[s].offered
      /\ \A t \in Subs \ {s} : Kept(t)
  BY <1>0, <1>1, Made
<1>4. TypeOK'
  BY <1>0, <1>2 DEF TypeOK
<1>5. /\ \A t \in Subs : Open(t)' => Open(t) /\ mandate'[t].owner = mandate[t].owner
      /\ \A t \in Subs : mandate[t].state # "none" => Kept(t)
  BY <1>1, <1>2, OpenKept DEF Open, Kept
<1>6. ASSUME NEW q \in Requests PROVE CreatingInv(q)' /\ WebhookInv(q)'
  <2>1. CASE q = r
    <3>1. CASE request'[r].at = "idle"
      BY <2>1, <3>1 DEF CreatingInv, WebhookInv, Subscribing, At
    <3>2. CASE Subscribing(r) /\ request'[r].at = "write"
      <4>1. ~strayed'[request[r].baker] =>
               \A t \in Subs : Open(t)' => mandate'[t].owner # request[r].baker
        BY <1>0, <1>5, <3>2
      <4> QED BY <1>0, <1>2, <2>1, <3>2, <4>1 DEF CreatingInv, WebhookInv, At
    <3> QED BY <3>1, <3>2
  <2>2. CASE q # r
    <3>1. request'[q] = request[q]
      BY <2>2 DEF OthersStay
    <3>2. \A t \in Subs : mandate[t].state # "none" =>
            /\ mandate'[t].state # "none" /\ mandate'[t].owner = mandate[t].owner
            /\ mandate'[t].plan = mandate[t].plan
      BY <1>5 DEF Kept
    <3>3. At(q, "write") => \A t \in Subs :
            t = request[q].sub => (mandate'[t].offered <=> mandate[t].offered)
      BY <1>5 DEF IInv, CreatingInv, Kept
    <3>4. Subscribing(q) => bakerLock'[request[q].baker] = q
      BY <1>0, LocksStay
    <3>5. CreatingInv(q)'
      BY <1>0, <1>5, <3>1, <3>2, <3>3, <3>4, NoneIsNotOpen, CreatingStays
    <3>6. \A t \in Subs : \A says : Told(t, says) => Told(t, says)'
      BY <1>5, ToldKept DEF Told
    <3> QED BY <3>1, <3>5, <3>6, WebhookStays
  <2> QED BY <2>1, <2>2
<1>7. ASSUME NEW t \in Subs PROVE MandateInv(t)'
  <2>1. CASE t = s
    BY <1>0, <1>2, <2>1 DEF MandateInv
  <2>2. CASE t # s
    BY <1>2, <2>2, MandateKept DEF IInv
  <2> QED BY <2>1, <2>2
<1>8. ASSUME NEW b \in Bakers PROVE RowInv(b)'
  <2>1. RowInv(b) /\ sub[b] \in Subs \cup {None}
    BY <1>0 DEF IInv, TypeOK
  <2>2. sub[b] # None => Kept(sub[b])
    BY <1>5, <2>1 DEF RowInv
  <2> QED BY <1>0, <2>1, <2>2 DEF RowInv, Kept
<1>9. \A e \in events' : Told(e.sub, e.says)'
  <2> SUFFICES ASSUME NEW e \in events PROVE Told(e.sub, e.says)'
    BY <1>0
  <2>1. Told(e.sub, e.says) /\ e.sub \in Subs
    BY <1>0 DEF IInv, TypeOK
  <2>2. Kept(e.sub)
    BY <1>5, <2>1 DEF Told
  <2> QED BY <2>1, <2>2, ToldKept
<1>10. OneOpenCheckout'
  <2> SUFFICES ASSUME NEW t \in Subs, Open(t)', ~strayed'[mandate'[t].owner]
               PROVE  /\ sub'[mandate'[t].owner] = t
                      /\ status'[mandate'[t].owner] = "PENDING"
    BY DEF OneOpenCheckout
  <2>1. Open(t) /\ mandate'[t].owner = mandate[t].owner
    BY <1>5
  <2> QED BY <1>0, <2>1 DEF IInv, OneOpenCheckout
<1>11. UnstrayedIsAuthorised'
  <2> SUFFICES ASSUME NEW b \in Bakers, ~strayed[b], status[b] = "ACTIVE"
               PROVE  mandate'[sub[b]].authorised
    BY <1>0 DEF UnstrayedIsAuthorised
  <2>1. sub[b] \in Subs /\ mandate[sub[b]].state # "none"
    BY <1>0 DEF IInv, RowInv, TypeOK
  <2>2. mandate[sub[b]].authorised
    BY DEF IInv, UnstrayedIsAuthorised
  <2> QED BY <1>5, <2>1, <2>2 DEF Kept
<1> QED BY <1>4, <1>6, <1>7, <1>8, <1>9, <1>10, <1>11 DEF IInv

LEMMA CallProviderStep ==
  ASSUME IInv, NEW r \in Requests, CallProvider(r)
  PROVE  IInv'
<1>1. /\ UNCHANGED <<bakerRow, bakerLock, countLock, events, strayed>>
      /\ TypeOK /\ Subscribing(r) /\ request[r].baker \in Bakers /\ request[r].plan \in Plans
  BY DEF IInv, CallProvider, locks, Subscribing, At, CreatingInv
<1>2. PICK s \in Subs :
        Make(r, s) /\ request' = [request EXCEPT ![r].at = "write", ![r].sub = s]
  BY DEF CallProvider
<1>3. /\ request' \in [Requests -> Request]
      /\ request'[r].at = "write" /\ request'[r].baker = request[r].baker
      /\ request'[r].plan = request[r].plan /\ request'[r].sub = s /\ OthersStay(r)
  BY <1>1, <1>2, Calls
<1> QED BY <1>1, <1>2, <1>3, MakeStep

\* What a late answer brings is nobody's either, and the row is not written.
LEMMA AnswerLateStep ==
  ASSUME IInv, NEW r \in Requests, AnswerLate(r)
  PROVE  IInv'
<1>1. /\ UNCHANGED <<bakerRow, bakerLock, countLock, events, strayed>>
      /\ UNCHANGED <<status, plan, sub, abandoned>>
      /\ TypeOK /\ request[r].baker \in Bakers /\ request[r].plan \in Plans
  BY DEF IInv, AnswerLate, locks, bakerRow, At, CreatingInv
<1>2. request' \in [Requests -> Request] /\ request'[r].at = "idle" /\ OthersStay(r)
  BY <1>1, Rests DEF AnswerLate
<1>3. CASE UNCHANGED mandate
  <2>1. TypeOK'
    BY <1>1, <1>2, <1>3 DEF TypeOK
  <2>2. CreatingInv(r)' /\ WebhookInv(r)'
    BY <1>2 DEF CreatingInv, WebhookInv, Subscribing, At
  <2> QED BY <1>1, <1>2, <1>3, <2>1, <2>2, LocksStay, UnchangedIsKept, QuietStep
<1>4. CASE \E s \in Subs : Make(r, s)
  BY <1>1, <1>2, <1>4, MakeStep
<1> QED BY <1>3, <1>4 DEF AnswerLate

\* The row takes the new mandate; no older checkout was left, so it is the
\* only one open.
LEMMA CommitCreateStep ==
  ASSUME IInv, NEW r \in Requests, CommitCreate(r)
  PROVE  IInv'
<1> DEFINE b == request[r].baker
           s == request[r].sub
<1>0. /\ TypeOK /\ UNCHANGED <<events, strayed>> /\ Subscribing(r) /\ At(r, "write")
      /\ Release(r)
      /\ status' = [status EXCEPT ![b] = "PENDING"]
      /\ plan' = [plan EXCEPT ![b] = request[r].plan]
      /\ sub' = [sub EXCEPT ![b] = s]
      /\ abandoned' = [abandoned EXCEPT ![b] = FALSE]
      /\ mandate' = [mandate EXCEPT ![s].offered = TRUE]
  BY DEF IInv, CommitCreate, Subscribing, At
<1>1. /\ b \in Bakers /\ bakerLock[b] = r
      /\ ~strayed[b] => \A t \in Subs : Open(t) => mandate[t].owner # b
      /\ s \in Subs /\ mandate[s].state # "none" /\ ~mandate[s].offered
      /\ mandate[s].owner = b /\ mandate[s].plan = request[r].plan
      /\ request[r].plan \in Plans \cup {None}
  BY <1>0, RequestFields DEF IInv, CreatingInv
<1>2. /\ request' \in [Requests -> Request] /\ request'[r].at = "idle" /\ OthersStay(r)
      /\ bakerLock' \in [Bakers -> Requests \cup {None}]
      /\ countLock' \in Requests \cup {None}
      /\ \A c \in Bakers : bakerLock[c] # r => bakerLock'[c] = bakerLock[c]
  BY <1>0, Releases
<1>3. /\ mandate' \in [Subs -> Mandate]
      /\ mandate'[s].state = mandate[s].state /\ mandate'[s].owner = mandate[s].owner
      /\ mandate'[s].plan = mandate[s].plan /\ mandate'[s].offered
      /\ mandate'[s].authorised <=> mandate[s].authorised
      /\ \A t \in Subs \ {s} : Kept(t)
  BY <1>0, <1>1, Offered
<1>4. TypeOK'
  BY <1>0, <1>1, <1>2, <1>3 DEF TypeOK, Statuses
<1>5. /\ status'[b] = "PENDING" /\ plan'[b] = request[r].plan /\ sub'[b] = s
      /\ ~abandoned'[b]
      /\ \A c \in Bakers \ {b} : /\ status'[c] = status[c] /\ plan'[c] = plan[c]
                                /\ sub'[c] = sub[c] /\ abandoned'[c] = abandoned[c]
  BY <1>0, <1>1 DEF TypeOK
<1>6. ASSUME NEW q \in Requests PROVE CreatingInv(q)' /\ WebhookInv(q)'
  <2>1. CASE q = r
    BY <1>2, <2>1 DEF CreatingInv, WebhookInv, Subscribing, At
  <2>2. CASE q # r
    <3>1. request'[q] = request[q]
      BY <1>2, <2>2 DEF OthersStay
    <3>2. \A t \in Subs : mandate[t].state # "none" =>
            /\ mandate'[t].state # "none" /\ mandate'[t].owner = mandate[t].owner
            /\ mandate'[t].plan = mandate[t].plan
      BY <1>3 DEF Kept
    <3>3. Subscribing(q) => request[q].baker # b /\ bakerLock'[request[q].baker] = q
      BY <1>0, <1>2, <2>2, Exclusive DEF IInv, CreatingInv
    <3>4. At(q, "write") => request[q].sub # s
      BY <1>1, <3>3 DEF IInv, CreatingInv, Subscribing, At
    <3>5. At(q, "write") => \A t \in Subs :
            t = request[q].sub => (mandate'[t].offered <=> mandate[t].offered)
      BY <1>3, <3>4 DEF Kept
    <3>6. Subscribing(q) => \A t \in Subs :
            Open(t)' => Open(t) \/ mandate'[t].owner # request[q].baker
      <4> SUFFICES ASSUME Subscribing(q), NEW t \in Subs, Open(t)', ~Open(t)
                   PROVE  mandate'[t].owner # request[q].baker
        OBVIOUS
      <4>1. t = s
        BY <1>3, OpenKept
      <4> QED BY <1>1, <1>3, <3>3, <4>1
    <3>7. CreatingInv(q)'
      BY <1>0, <3>1, <3>2, <3>3, <3>5, <3>6, NoneIsNotOpen, CreatingStays
    <3>8. \A t \in Subs : \A says : Told(t, says) => Told(t, says)'
      <4> SUFFICES ASSUME NEW t \in Subs, NEW says, Told(t, says) PROVE Told(t, says)'
        OBVIOUS
      <4>1. CASE t = s
        BY <1>3, <4>1 DEF Told
      <4>2. CASE t # s
        BY <1>3, <4>2, ToldKept
      <4> QED BY <4>1, <4>2
    <3> QED BY <3>1, <3>7, <3>8, WebhookStays
  <2> QED BY <2>1, <2>2
<1>7. ASSUME NEW t \in Subs PROVE MandateInv(t)'
  <2>0. MandateInv(t)
    BY DEF IInv
  <2>1. CASE t = s
    BY <1>1, <1>3, <2>0, <2>1 DEF MandateInv
  <2>2. CASE t # s
    BY <1>3, <2>0, <2>2, MandateKept
  <2> QED BY <2>1, <2>2
<1>8. ASSUME NEW c \in Bakers PROVE RowInv(c)'
  <2>0. RowInv(c) /\ sub[c] \in Subs \cup {None}
    BY <1>0 DEF IInv, TypeOK
  <2>1. CASE c = b
    BY <1>1, <1>3, <1>5, <2>1, SubscriptionsAssumption DEF RowInv
  <2>2. CASE c # b
    <3>1. sub[c] # None => Kept(sub[c])
      BY <1>1, <1>3, <2>0, <2>2 DEF RowInv
    <3> QED BY <1>0, <1>5, <2>0, <2>2, <3>1 DEF RowInv, Kept
  <2> QED BY <2>1, <2>2
<1>9. \A e \in events' : Told(e.sub, e.says)'
  <2> SUFFICES ASSUME NEW e \in events PROVE Told(e.sub, e.says)'
    BY <1>0
  <2>1. Told(e.sub, e.says) /\ e.sub \in Subs
    BY <1>0 DEF IInv, TypeOK
  <2>2. CASE e.sub = s
    BY <1>3, <2>1, <2>2 DEF Told
  <2>3. CASE e.sub # s
    BY <1>3, <2>1, <2>3, ToldKept
  <2> QED BY <2>2, <2>3
<1>10. OneOpenCheckout'
  <2> SUFFICES ASSUME NEW t \in Subs, Open(t)', ~strayed'[mandate'[t].owner]
               PROVE  /\ sub'[mandate'[t].owner] = t
                      /\ status'[mandate'[t].owner] = "PENDING"
    BY DEF OneOpenCheckout
  <2>1. CASE t = s
    BY <1>1, <1>3, <1>5, <2>1
  <2>2. CASE t # s
    <3>1. Open(t) /\ mandate'[t].owner = mandate[t].owner
      BY <1>3, <2>2, OpenKept DEF Kept
    <3>2. /\ mandate[t].owner # b
          /\ sub[mandate[t].owner] = t /\ status[mandate[t].owner] = "PENDING"
      BY <1>0, <1>1, <3>1 DEF IInv, OneOpenCheckout
    <3>3. mandate[t].owner \in Bakers
      BY <3>1 DEF IInv, MandateInv, Open
    <3> QED BY <1>5, <3>1, <3>2, <3>3
  <2> QED BY <2>1, <2>2
<1>11. UnstrayedIsAuthorised'
  <2> SUFFICES ASSUME NEW c \in Bakers, ~strayed[c], status'[c] = "ACTIVE"
               PROVE  mandate'[sub'[c]].authorised
    BY <1>0 DEF UnstrayedIsAuthorised
  <2>1. c # b /\ status[c] = "ACTIVE" /\ sub'[c] = sub[c]
    BY <1>5
  <2>2. sub[c] \in Subs /\ sub[c] # s
    BY <1>0, <1>1, <2>1 DEF IInv, RowInv, TypeOK
  <2>3. mandate[sub[c]].authorised
    BY <2>1 DEF IInv, UnstrayedIsAuthorised
  <2> QED BY <1>3, <2>1, <2>2, <2>3 DEF Kept
<1> QED BY <1>4, <1>6, <1>7, <1>8, <1>9, <1>10, <1>11 DEF IInv

\* A status told of a mandate that had moved: it was not an open checkout.
LEMMA ApplyWebhookStep ==
  ASSUME IInv, NEW r \in Requests, ApplyWebhook(r)
  PROVE  IInv'
<1> DEFINE b == request[r].baker
           s == request[r].sub
<1>0. /\ TypeOK /\ UNCHANGED <<plan, sub, abandoned, bakerLock, countLock, mandate, events>>
      /\ At(r, "apply") /\ status' = [status EXCEPT ![b] = request[r].says]
      /\ strayed' = [strayed EXCEPT ![b] = @ \/ sub[b] # s]
      /\ request' = [request EXCEPT ![r] = Idle]
  BY DEF IInv, ApplyWebhook, locks, world
<1>1. /\ b \in Bakers /\ s \in Subs /\ request[r].says \in Statuses
      /\ mandate[s].state \notin {"none", "awaiting"}
      /\ request[r].says = "ACTIVE" => mandate[s].authorised
  BY <1>0 DEF IInv, WebhookInv, Told
<1>2. /\ request' \in [Requests -> Request] /\ request'[r].at = "idle" /\ OthersStay(r)
  BY <1>0, Rests
<1>3. /\ strayed' \in [Bakers -> BOOLEAN]
      /\ ~strayed'[b] => ~strayed[b] /\ sub[b] = s
      /\ \A c \in Bakers \ {b} : strayed'[c] = strayed[c]
  BY <1>0, <1>1 DEF TypeOK
<1>4. /\ status' \in [Bakers -> Statuses] /\ status'[b] = request[r].says
      /\ \A c \in Bakers \ {b} : status'[c] = status[c]
  BY <1>0, <1>1 DEF TypeOK
<1>5. TypeOK'
  BY <1>0, <1>2, <1>3, <1>4 DEF TypeOK
<1>6. ASSUME NEW q \in Requests PROVE CreatingInv(q)' /\ WebhookInv(q)'
  <2>1. CASE q = r
    BY <1>2, <2>1 DEF CreatingInv, WebhookInv, Subscribing, At
  <2>2. CASE q # r
    <3>1. request'[q] = request[q]
      BY <1>2, <2>2 DEF OthersStay
    <3>2. \A c \in Bakers : strayed[c] => strayed'[c]
      BY <1>3
    <3>3. \A t \in Subs : Open(t)' <=> Open(t)
      BY <1>0 DEF Open
    <3>4. \A t \in Subs : \A says : Told(t, says) => Told(t, says)'
      BY <1>0 DEF Told
    <3>5. CreatingInv(q)'
      BY <1>0, <3>1, <3>2, <3>3, LocksStay, NoneIsNotOpen, CreatingStays
    <3> QED BY <3>1, <3>4, <3>5, WebhookStays
  <2> QED BY <2>1, <2>2
<1>7. \A t \in Subs : MandateInv(t)'
  BY <1>0 DEF IInv, MandateInv
<1>8. ASSUME NEW c \in Bakers PROVE RowInv(c)'
  <2>0. RowInv(c)
    BY DEF IInv
  <2>1. ~strayed'[c] /\ status'[c] = "ACTIVE" => sub[c] # None
    BY <1>1, <1>3, <1>4, <2>0, SubscriptionsAssumption DEF RowInv
  <2> QED BY <1>0, <2>0, <2>1 DEF RowInv
<1>9. \A e \in events' : Told(e.sub, e.says)'
  BY <1>0 DEF IInv, Told
<1>10. OneOpenCheckout'
  <2> SUFFICES ASSUME NEW t \in Subs, Open(t), ~strayed'[mandate[t].owner]
               PROVE  /\ sub[mandate[t].owner] = t
                      /\ status'[mandate[t].owner] = "PENDING"
    BY <1>0 DEF OneOpenCheckout, Open
  <2>1. mandate[t].owner \in Bakers /\ mandate[t].state = "awaiting"
    BY DEF IInv, MandateInv, Open
  <2>2. ~strayed[mandate[t].owner]
    BY <1>3, <2>1
  <2>3. sub[mandate[t].owner] = t /\ status[mandate[t].owner] = "PENDING"
    BY <2>2 DEF IInv, OneOpenCheckout
  <2>4. mandate[t].owner # b
    BY <1>1, <1>3, <2>1, <2>3
  <2> QED BY <1>4, <2>1, <2>3, <2>4
<1>11. UnstrayedIsAuthorised'
  <2> SUFFICES ASSUME NEW c \in Bakers, ~strayed'[c], status'[c] = "ACTIVE"
               PROVE  mandate[sub[c]].authorised
    BY <1>0 DEF UnstrayedIsAuthorised
  <2>1. CASE c = b
    BY <1>1, <1>3, <1>4, <2>1
  <2>2. CASE c # b
    BY <1>3, <1>4, <2>2 DEF IInv, UnstrayedIsAuthorised
  <2> QED BY <2>1, <2>2
<1> QED BY <1>5, <1>6, <1>7, <1>8, <1>9, <1>10, <1>11 DEF IInv

\* Where no request moves and nothing strays, requests keep their part of the
\* invariant if no checkout opens and no mandate changes hands.
LEMMA RequestsStay ==
  ASSUME IInv, UNCHANGED <<request, bakerLock, strayed>>,
         \A s \in Subs :
            /\ mandate[s].state # "none" =>
                 /\ mandate'[s].state # "none" /\ mandate'[s].owner = mandate[s].owner
                 /\ mandate'[s].plan = mandate[s].plan
            /\ mandate'[s].offered <=> mandate[s].offered
            /\ Open(s)' => Open(s),
         \A s \in Subs : \A says : Told(s, says) => Told(s, says)'
  PROVE  \A r \in Requests : CreatingInv(r)' /\ WebhookInv(r)'
<1> SUFFICES ASSUME NEW r \in Requests PROVE CreatingInv(r)' /\ WebhookInv(r)'
  OBVIOUS
<1>1. CreatingInv(r)'
  BY LocksStay, NoneIsNotOpen, CreatingStays
<1>2. WebhookInv(r)'
  BY WebhookStays
<1> QED BY <1>1, <1>2

\* The provider moves a mandate and tells: an authorised one, no longer open.
LEMMA MoveStep ==
  ASSUME IInv, NEW s \in Subs, NEW from, NEW to, NEW says, Move(s, from, to, says),
         from \subseteq {"awaiting", "active", "paused"}, to \in {"active", "paused", "ended"},
         says \in Statuses, says = "ACTIVE" => to = "active"
  PROVE  IInv'
<1>0. /\ TypeOK /\ UNCHANGED <<bakerLock, countLock, request, strayed>>
      /\ UNCHANGED <<status, plan, sub, abandoned>>
      /\ mandate[s].state # "none"
      /\ events' = events \cup {[sub |-> s, says |-> says]}
  BY DEF IInv, Move, bakerRow, locks
<1>1. /\ mandate' \in [Subs -> Mandate]
      /\ mandate'[s].state = to /\ mandate'[s].owner = mandate[s].owner
      /\ mandate'[s].plan = mandate[s].plan
      /\ mandate'[s].offered <=> mandate[s].offered
      /\ mandate'[s].lapsed <=> mandate[s].lapsed
      /\ mandate'[s].authorised <=> (mandate[s].authorised \/ to = "active")
      /\ \A t \in Subs \ {s} : Kept(t)
  BY <1>0, Moved
<1>2. TypeOK'
  BY <1>0, <1>1 DEF TypeOK
<1>3. ASSUME NEW t \in Subs
      PROVE  /\ mandate[t].state # "none" =>
                  /\ mandate'[t].state # "none" /\ mandate'[t].owner = mandate[t].owner
                  /\ mandate'[t].plan = mandate[t].plan
             /\ mandate'[t].offered <=> mandate[t].offered
             /\ mandate'[t].lapsed <=> mandate[t].lapsed
             /\ mandate'[t].owner = mandate[t].owner
             /\ mandate[t].authorised => mandate'[t].authorised
             /\ Open(t)' => Open(t)
             /\ MandateInv(t)'
  <2>0. MandateInv(t)
    BY DEF IInv
  <2>1. CASE t = s
    BY <1>0, <1>1, <2>0, <2>1 DEF Open, MandateInv
  <2>2. CASE t # s
    <3>1. Kept(t)
      BY <1>1, <2>2
    <3> QED BY <2>0, <3>1, OpenKept, MandateKept DEF Kept
  <2> QED BY <2>1, <2>2
<1>4. \A t \in Subs : \A told : Told(t, told) => Told(t, told)'
  <2> SUFFICES ASSUME NEW t \in Subs, NEW told, Told(t, told) PROVE Told(t, told)'
    OBVIOUS
  <2>1. CASE t = s
    BY <1>1, <2>1 DEF Told
  <2>2. CASE t # s
    BY <1>1, <2>2, ToldKept
  <2> QED BY <2>1, <2>2
<1>5. \A r \in Requests : CreatingInv(r)' /\ WebhookInv(r)'
  BY <1>0, <1>3, <1>4, RequestsStay
<1>6. ASSUME NEW b \in Bakers PROVE RowInv(b)'
  <2>1. RowInv(b) /\ sub[b] \in Subs \cup {None}
    BY <1>0 DEF IInv, TypeOK
  <2> QED BY <1>0, <1>3, <2>1 DEF RowInv
<1>7. \A e \in events' : Told(e.sub, e.says)'
  <2> SUFFICES ASSUME NEW e \in events' PROVE Told(e.sub, e.says)'
    OBVIOUS
  <2>1. CASE e \in events
    <3>1. Told(e.sub, e.says) /\ e.sub \in Subs
      BY <1>0, <2>1 DEF IInv, TypeOK
    <3> QED BY <1>4, <3>1
  <2>2. CASE e = [sub |-> s, says |-> says]
    <3>1. e.sub = s /\ e.says = says
      BY <2>2
    <3> QED BY <1>1, <3>1 DEF Told
  <2> QED BY <1>0, <2>1, <2>2
<1>8. OneOpenCheckout'
  <2> SUFFICES ASSUME NEW t \in Subs, Open(t)', ~strayed'[mandate'[t].owner]
               PROVE  /\ sub'[mandate'[t].owner] = t
                      /\ status'[mandate'[t].owner] = "PENDING"
    BY DEF OneOpenCheckout
  <2> QED BY <1>0, <1>3 DEF IInv, OneOpenCheckout
<1>9. UnstrayedIsAuthorised'
  <2> SUFFICES ASSUME NEW b \in Bakers, ~strayed[b], status[b] = "ACTIVE"
               PROVE  mandate'[sub[b]].authorised
    BY <1>0 DEF UnstrayedIsAuthorised
  <2>1. sub[b] \in Subs
    BY <1>0 DEF IInv, RowInv, TypeOK
  <2>2. mandate[sub[b]].authorised
    BY DEF IInv, UnstrayedIsAuthorised
  <2> QED BY <1>3, <2>1, <2>2
<1> QED BY <1>2, <1>3, <1>5, <1>6, <1>7, <1>8, <1>9 DEF IInv

LEMMA ProviderStep ==
  ASSUME IInv, NEW s \in Subs, Provider(s)
  PROVE  IInv'
<1>1. CASE Move(s, {"awaiting", "active", "paused"}, "active", "ACTIVE")
  BY <1>1, MoveStep DEF Statuses
<1>2. CASE Move(s, {"active"}, "paused", "PAUSED")
  BY <1>2, MoveStep DEF Statuses
<1>3. CASE Move(s, {"active", "paused"}, "ended", "CANCELLED")
  BY <1>3, MoveStep DEF Statuses
<1>4. CASE Move(s, {"active"}, "ended", "EXPIRED")
  BY <1>4, MoveStep DEF Statuses
<1> QED BY <1>1, <1>2, <1>3, <1>4 DEF Provider

LEMMA LapseStep ==
  ASSUME IInv, NEW b \in Bakers, Lapse(b)
  PROVE  IInv'
<1> DEFINE s == sub[b]
<1>0. /\ TypeOK /\ UNCHANGED <<bakerLock, countLock, request, events, strayed>>
      /\ UNCHANGED <<status, plan, sub>>
      /\ abandoned' = [abandoned EXCEPT ![b] = TRUE]
      /\ mandate' = [mandate EXCEPT ![s].lapsed = TRUE]
  BY DEF IInv, Lapse, locks
<1>1. /\ mandate' \in [Subs -> Mandate]
      /\ \A t \in Subs \ {s} : Kept(t)
      /\ s \in Subs =>
           /\ mandate'[s].state = mandate[s].state /\ mandate'[s].owner = mandate[s].owner
           /\ mandate'[s].plan = mandate[s].plan /\ mandate'[s].lapsed
           /\ mandate'[s].offered <=> mandate[s].offered
           /\ mandate'[s].authorised <=> mandate[s].authorised
  BY <1>0, Lapsed
<1>2. /\ abandoned' \in [Bakers -> BOOLEAN]
      /\ \A c \in Bakers \ {b} : abandoned'[c] = abandoned[c]
  BY <1>0 DEF TypeOK
<1>3. TypeOK'
  BY <1>0, <1>1, <1>2 DEF TypeOK
<1>4. ASSUME NEW t \in Subs
      PROVE  /\ mandate'[t].state = mandate[t].state
             /\ mandate'[t].owner = mandate[t].owner
             /\ mandate'[t].plan = mandate[t].plan
             /\ mandate'[t].offered <=> mandate[t].offered
             /\ mandate[t].lapsed => mandate'[t].lapsed
             /\ mandate'[t].authorised <=> mandate[t].authorised
             /\ Open(t)' => Open(t)
             /\ MandateInv(t)'
  <2>0. MandateInv(t)
    BY DEF IInv
  <2>1. CASE t = s
    BY <1>1, <2>0, <2>1 DEF Open, MandateInv
  <2>2. CASE t # s
    <3>1. Kept(t)
      BY <1>1, <2>2
    <3> QED BY <2>0, <3>1, OpenKept, MandateKept DEF Kept
  <2> QED BY <2>1, <2>2
<1>5. \A t \in Subs : \A told : Told(t, told) => Told(t, told)'
  BY <1>4 DEF Told
<1>6. \A r \in Requests : CreatingInv(r)' /\ WebhookInv(r)'
  BY <1>0, <1>4, <1>5, RequestsStay
<1>7. ASSUME NEW c \in Bakers PROVE RowInv(c)'
  <2>1. RowInv(c) /\ sub[c] \in Subs \cup {None}
    BY <1>0 DEF IInv, TypeOK
  <2>2. CASE c = b
    BY <1>0, <1>1, <1>4, <2>1, <2>2 DEF RowInv
  <2>3. CASE c # b
    BY <1>0, <1>2, <1>4, <2>1, <2>3 DEF RowInv
  <2> QED BY <2>2, <2>3
<1>8. \A e \in events' : Told(e.sub, e.says)'
  <2> SUFFICES ASSUME NEW e \in events PROVE Told(e.sub, e.says)'
    BY <1>0
  <2>1. Told(e.sub, e.says) /\ e.sub \in Subs
    BY <1>0 DEF IInv, TypeOK
  <2> QED BY <1>5, <2>1
<1>9. OneOpenCheckout'
  <2> SUFFICES ASSUME NEW t \in Subs, Open(t)', ~strayed'[mandate'[t].owner]
               PROVE  /\ sub'[mandate'[t].owner] = t
                      /\ status'[mandate'[t].owner] = "PENDING"
    BY DEF OneOpenCheckout
  <2> QED BY <1>0, <1>4 DEF IInv, OneOpenCheckout
<1>10. UnstrayedIsAuthorised'
  <2> SUFFICES ASSUME NEW c \in Bakers, ~strayed[c], status[c] = "ACTIVE"
               PROVE  mandate'[sub[c]].authorised
    BY <1>0 DEF UnstrayedIsAuthorised
  <2>1. sub[c] \in Subs
    BY <1>0 DEF IInv, RowInv, TypeOK
  <2>2. mandate[sub[c]].authorised
    BY DEF IInv, UnstrayedIsAuthorised
  <2> QED BY <1>4, <2>1, <2>2
<1> QED BY <1>3, <1>4, <1>6, <1>7, <1>8, <1>9, <1>10 DEF IInv

-----------------------------------------------------------------------------
LEMMA InitInv == Init => IInv
<1> SUFFICES ASSUME Init PROVE IInv
  OBVIOUS
<1>0. /\ NoMandate \in Mandate /\ NoMandate.state = "none" /\ NoMandate.offered = FALSE
      /\ Idle \in Request /\ Idle.at = "idle"
  BY DEF NoMandate, Mandate, Idle, Request
<1>1. TypeOK
  BY <1>0 DEF Init, TypeOK, Statuses
<1>2. \A r \in Requests : request[r].at = "idle"
  BY <1>0 DEF Init
<1>3. \A s \in Subs : mandate[s].state = "none" /\ ~mandate[s].offered
  BY <1>0 DEF Init
<1>4. \A r \in Requests : CreatingInv(r) /\ WebhookInv(r)
  BY <1>2, Nowhere
<1>5. \A s \in Subs : MandateInv(s)
  BY <1>3 DEF MandateInv
<1>6. \A b \in Bakers : RowInv(b)
  BY DEF Init, RowInv
<1>7. \A e \in events : Told(e.sub, e.says)
  BY DEF Init
<1>8. OneOpenCheckout
  BY <1>3 DEF OneOpenCheckout, Open
<1>9. UnstrayedIsAuthorised
  BY DEF Init, UnstrayedIsAuthorised
<1> QED BY <1>1, <1>4, <1>5, <1>6, <1>7, <1>8, <1>9 DEF IInv

LEMMA Stutter == IInv /\ UNCHANGED vars => IInv'
<1> SUFFICES ASSUME IInv, UNCHANGED vars PROVE IInv'
  OBVIOUS
<1>1. UNCHANGED <<status, plan, sub, abandoned, bakerLock, countLock, request, mandate,
                  events, strayed>>
  BY DEF vars
<1>2. TypeOK'
  BY <1>1 DEF IInv, TypeOK
<1>3. \A r \in Requests : CreatingInv(r)' /\ WebhookInv(r)'
  BY <1>1, RequestsStay DEF Told, Open
<1>4. (\A s \in Subs : MandateInv(s))' /\ (\A b \in Bakers : RowInv(b))'
  BY <1>1 DEF IInv, MandateInv, RowInv
<1>5. (\A e \in events : Told(e.sub, e.says))'
  BY <1>1 DEF IInv, Told
<1>6. OneOpenCheckout' /\ UnstrayedIsAuthorised'
  BY <1>1 DEF IInv, OneOpenCheckout, UnstrayedIsAuthorised, Open
<1> QED BY <1>2, <1>3, <1>4, <1>5, <1>6 DEF IInv

LEMMA NextInv == IInv /\ [Next]_vars => IInv'
<1> SUFFICES ASSUME IInv, [Next]_vars PROVE IInv'
  OBVIOUS
<1>1. ASSUME NEW r \in Requests, NEW b \in Bakers, StartCreate(r, b) PROVE IInv'
  BY <1>1, StartCreateStep
<1>2. ASSUME NEW r \in Requests, NEW b \in Bakers, StartCancel(r, b) PROVE IInv'
  BY <1>2, StartCancelStep
<1>3. ASSUME NEW r \in Requests, Create(r) PROVE IInv'
  BY <1>3, PriceStep, CallProviderStep, CommitCreateStep DEF Create
<1>4. ASSUME NEW r \in Requests, AbortCreate(r) PROVE IInv'
  BY <1>4, AbortCreateStep
<1>11. ASSUME NEW r \in Requests, Expire(r) \/ AnswerLate(r) PROVE IInv'
  BY <1>11, ExpireStep, AnswerLateStep
<1>5. ASSUME NEW r \in Requests, FinishCancel(r) PROVE IInv'
  BY <1>5, FinishCancelStep
<1>6. ASSUME NEW r \in Requests, StartWebhook(r) PROVE IInv'
  BY <1>6, StartWebhookStep
<1>7. ASSUME NEW r \in Requests, ApplyWebhook(r) PROVE IInv'
  BY <1>7, ApplyWebhookStep
<1>8. ASSUME NEW s \in Subs, Provider(s) PROVE IInv'
  BY <1>8, ProviderStep
<1>9. ASSUME NEW b \in Bakers, Lapse(b) PROVE IInv'
  BY <1>9, LapseStep
<1>10. CASE UNCHANGED vars
  BY <1>10, Stutter
<1> QED
  BY <1>1, <1>2, <1>3, <1>4, <1>5, <1>6, <1>7, <1>8, <1>9, <1>10, <1>11 DEF Next

-----------------------------------------------------------------------------
(* The theorems.                                                           *)

\* The inductive invariant behind what the subscriptions promise.
THEOREM Invariance == Spec => []IInv
  BY InitInv, NextInv, PTL DEF Spec

\* Every row, lock, request, mandate and event stays within its type.
THEOREM TypeCorrect == Spec => []TypeOK
<1>1. IInv => TypeOK
  BY DEF IInv
<1> QED BY <1>1, Invariance, PTL

\* No two handlers whose transaction is still open are inside createSubscription
\* for one baker, from the guard to the commit: whatever a checkout reads of the
\* baker's row, no other checkout writes before it does.  A handler whose
\* transaction timed out while the provider was called is not among them: it
\* has no lock any more and nothing of it reaches the row (billing.service.ts
\* 146, 235-262).
THEOREM CreatesAlone ==
  Spec => [](\A r \in Requests : \A q \in Requests \ {r} :
               Subscribing(r) /\ Subscribing(q) => request[r].baker # request[q].baker)
<1>1. IInv => \A r \in Requests : \A q \in Requests \ {r} :
                Subscribing(r) /\ Subscribing(q) => request[r].baker # request[q].baker
  BY DEF IInv, CreatingInv
<1> QED BY <1>1, Invariance, PTL

\* The price on a baker's row is the price of the mandate the row tracks.
THEOREM PriceCorrect == Spec => []PriceIsCharged
<1>1. IInv => PriceIsCharged
  BY DEF IInv, RowInv, PriceIsCharged
<1> QED BY <1>1, Invariance, PTL

\* Until a webhook strays to a baker, no checkout younger than the 30 minutes
\* is open besides the one on its PENDING row.
THEOREM CheckoutCorrect == Spec => []OneOpenCheckout
<1>1. IInv => OneOpenCheckout
  BY DEF IInv
<1> QED BY <1>1, Invariance, PTL

\* Until a webhook strays to a baker, it is ACTIVE only on a mandate the
\* provider has seen authorised.
THEOREM ActiveCorrect == Spec => []UnstrayedIsAuthorised
<1>1. IInv => UnstrayedIsAuthorised
  BY DEF IInv
<1> QED BY <1>1, Invariance, PTL

-----------------------------------------------------------------------------
(* The two locks.                                                          *)

\* The locks request r holds can be told from where it is: those and no others.
HeldBy(r) ==
  /\ countLock = r <=> At(r, "provider") \/ At(r, "write")
  /\ \A b \in Bakers : bakerLock[b] = r <=> Subscribing(r) /\ request[r].baker = b

LocksHeld == \A r \in Requests : HeldBy(r)

\* A request that is not in createSubscription, before and after, holds none.
LEMMA OutsideHoldsNothing ==
  ASSUME TypeOK, LocksHeld, NEW r \in Requests, ~Subscribing(r),
         NEW new, new.at \notin {"price", "provider", "write"},
         request' = [request EXCEPT ![r] = new], UNCHANGED locks
  PROVE  LocksHeld'
<1> SUFFICES ASSUME NEW q \in Requests PROVE HeldBy(q)'
  BY DEF LocksHeld
<1>1. HeldBy(q) /\ HeldBy(r)
  BY DEF LocksHeld
<1>2. CASE q = r
  <2>1. request'[q].at \notin {"price", "provider", "write"}
    BY <1>2 DEF TypeOK
  <2> QED BY <1>1, <1>2, <2>1 DEF HeldBy, At, Subscribing, locks
<1>3. CASE q # r
  <2>1. request'[q] = request[q]
    BY <1>3 DEF TypeOK
  <2> QED BY <1>1, <2>1 DEF HeldBy, At, Subscribing, locks
<1> QED BY <1>2, <1>3

\* The end of a transaction frees both, whether the request ends with it or
\* waits on for the provider.
LEMMA EndFreesBoth ==
  ASSUME TypeOK, LocksHeld, NEW r \in Requests, GiveBack(r), OthersStay(r),
         request'[r].at \notin {"price", "provider", "write"}
  PROVE  LocksHeld'
<1> SUFFICES ASSUME NEW q \in Requests PROVE HeldBy(q)'
  BY DEF LocksHeld
<1>1. HeldBy(q) /\ None # q /\ None # r
  BY SubscriptionsAssumption DEF LocksHeld
<1>2. CASE q = r
  BY <1>1, <1>2 DEF HeldBy, At, Subscribing, GiveBack
<1>3. CASE q # r
  <2>1. request'[q] = request[q]
    BY <1>3 DEF OthersStay
  <2>2. /\ countLock' = q <=> countLock = q
        /\ \A b \in Bakers : bakerLock'[b] = q <=> bakerLock[b] = q
    BY <1>1, <1>3 DEF GiveBack
  <2> QED BY <1>1, <2>1, <2>2 DEF HeldBy, At, Subscribing
<1> QED BY <1>2, <1>3

LEMMA LocksNext ==
  ASSUME TypeOK, LocksHeld, [Next]_vars
  PROVE  LocksHeld'
<1>1. ASSUME NEW r \in Requests, NEW b \in Bakers, StartCreate(r, b) PROVE LocksHeld'
  <2> SUFFICES ASSUME NEW q \in Requests PROVE HeldBy(q)'
    BY DEF LocksHeld
  <2>1. HeldBy(q) /\ HeldBy(r) /\ None # q /\ None # r
    BY SubscriptionsAssumption DEF LocksHeld
  <2>2. /\ request[r].at = "idle" /\ bakerLock[b] = None
        /\ bakerLock' = [bakerLock EXCEPT ![b] = r] /\ countLock' = countLock
    BY <1>1 DEF StartCreate, Idle
  <2>3. CASE q = r
    <3>1. request'[q].at = "price" /\ request'[q].baker = b
      BY <1>1, <2>3 DEF StartCreate, TypeOK, Idle
    <3> QED BY <2>1, <2>2, <2>3, <3>1 DEF HeldBy, At, Subscribing, TypeOK
  <2>4. CASE q # r
    <3>1. request'[q] = request[q]
      BY <1>1, <2>4 DEF StartCreate, TypeOK
    <3> QED BY <2>1, <2>2, <2>4, <3>1 DEF HeldBy, At, Subscribing, TypeOK
  <2> QED BY <2>3, <2>4
<1>2. ASSUME NEW r \in Requests, NEW b \in Bakers, StartCancel(r, b) PROVE LocksHeld'
  <2>1. ~Subscribing(r)
    BY <1>2 DEF StartCancel, Idle, Subscribing
  <2>2. request' = [request EXCEPT ![r] = [Idle EXCEPT !.at = "cancel", !.baker = b,
                                                       !.sub = sub[b]]]
        /\ UNCHANGED locks
    BY <1>2 DEF StartCancel
  <2>3. [Idle EXCEPT !.at = "cancel", !.baker = b, !.sub = sub[b]].at = "cancel"
    BY DEF Idle
  <2> QED BY <2>1, <2>2, <2>3, OutsideHoldsNothing
<1>3. ASSUME NEW r \in Requests, Price(r) PROVE LocksHeld'
  <2> SUFFICES ASSUME NEW q \in Requests PROVE HeldBy(q)'
    BY DEF LocksHeld
  <2>1. HeldBy(q) /\ None # q
    BY SubscriptionsAssumption DEF LocksHeld
  <2>2. countLock = None /\ countLock' = r /\ bakerLock' = bakerLock /\ request[r].at = "price"
    BY <1>3 DEF Price, At
  <2>3. CASE q = r
    <3>1. request'[q].at = "provider" /\ request'[q].baker = request[q].baker
      BY <1>3, <2>3 DEF Price, TypeOK, Request
    <3> QED BY <2>1, <2>2, <2>3, <3>1 DEF HeldBy, At, Subscribing
  <2>4. CASE q # r
    <3>1. request'[q] = request[q]
      BY <1>3, <2>4 DEF Price, TypeOK
    <3> QED BY <2>1, <2>2, <2>4, <3>1 DEF HeldBy, At, Subscribing
  <2> QED BY <2>3, <2>4
<1>4. ASSUME NEW r \in Requests, CallProvider(r) PROVE LocksHeld'
  <2> SUFFICES ASSUME NEW q \in Requests PROVE HeldBy(q)'
    BY DEF LocksHeld
  <2>1. HeldBy(q)
    BY DEF LocksHeld
  <2>2. UNCHANGED locks /\ request[r].at = "provider"
    BY <1>4 DEF CallProvider, At
  <2>3. CASE q = r
    <3>1. PICK s \in Subs : request' = [request EXCEPT ![r].at = "write", ![r].sub = s]
      BY <1>4 DEF CallProvider
    <3>2. request'[q].at = "write" /\ request'[q].baker = request[q].baker
      BY <2>3, <3>1 DEF TypeOK, Request
    <3> QED BY <2>1, <2>2, <2>3, <3>2 DEF HeldBy, At, Subscribing, locks
  <2>4. CASE q # r
    <3>1. request'[q] = request[q]
      BY <1>4, <2>4 DEF CallProvider, TypeOK
    <3> QED BY <2>1, <2>2, <3>1 DEF HeldBy, At, Subscribing, locks
  <2> QED BY <2>3, <2>4
<1>5. ASSUME NEW r \in Requests, CommitCreate(r) \/ AbortCreate(r) \/ Expire(r)
      PROVE  LocksHeld'
  <2>1. GiveBack(r) /\ OthersStay(r) /\ request'[r].at \in {"idle", "late"}
    BY <1>5, Rests, Expires DEF CommitCreate, AbortCreate, Expire, Release
  <2> QED BY <2>1, EndFreesBoth
<1>6. ASSUME NEW r \in Requests, FinishCancel(r) \/ ApplyWebhook(r) \/ AnswerLate(r)
      PROVE  LocksHeld'
  <2>1. ~Subscribing(r) /\ UNCHANGED locks /\ request' = [request EXCEPT ![r] = Idle]
    BY <1>6 DEF FinishCancel, ApplyWebhook, AnswerLate, At, Subscribing
  <2> QED BY <2>1, OutsideHoldsNothing DEF Idle
<1>7. ASSUME NEW r \in Requests, StartWebhook(r) PROVE LocksHeld'
  <2>1. PICK e \in events, b \in Bakers :
          request' = [request EXCEPT ![r] =
            [Idle EXCEPT !.at = "apply", !.baker = b, !.sub = e.sub, !.says = e.says]]
    BY <1>7 DEF StartWebhook
  <2>2. ~Subscribing(r) /\ UNCHANGED locks
    BY <1>7 DEF StartWebhook, Idle, Subscribing
  <2>3. [Idle EXCEPT !.at = "apply", !.baker = b, !.sub = e.sub, !.says = e.says].at = "apply"
    BY DEF Idle
  <2> QED BY <2>1, <2>2, <2>3, OutsideHoldsNothing
<1>8. ASSUME UNCHANGED <<locks, request>> PROVE LocksHeld'
  BY <1>8 DEF LocksHeld, HeldBy, At, Subscribing, locks
<1>9. ASSUME NEW s \in Subs, Provider(s) PROVE LocksHeld'
  BY <1>8, <1>9 DEF Provider, Move
<1>10. ASSUME NEW b \in Bakers, Lapse(b) PROVE LocksHeld'
  BY <1>8, <1>10 DEF Lapse
<1>11. CASE UNCHANGED vars
  BY <1>8, <1>11 DEF vars, locks
<1> QED
  BY <1>1, <1>2, <1>3, <1>4, <1>5, <1>6, <1>7, <1>9, <1>10, <1>11 DEF Next, Create

\* Checkouts cannot wait for each other in a circle: whoever holds the count
\* lock is calling the provider or committing and waits for no lock
\* (billing.service.ts 219), whoever waits for it holds its baker's lock alone,
\* and a handler that has ended, failed or not, has left neither behind.
THEOREM LocksCorrect == Spec => []LocksHeld
<1>1. Init => LocksHeld
  BY SubscriptionsAssumption DEF Init, LocksHeld, HeldBy, At, Subscribing, Idle
<1>2. TypeOK /\ LocksHeld /\ [Next]_vars => LocksHeld'
  BY LocksNext
<1> QED BY <1>1, <1>2, TypeCorrect, PTL DEF Spec

-----------------------------------------------------------------------------
(* The webhooks: where a delivery can be.                                  *)

Places == {"check", "find", "apply", "failed", "refuse", "accept"}
-----------------------------------------------------------------------------
(* Deliveries.                                                             *)

\* A status comes out of the map.
LEMMA MapRange ==
  ASSUME NEW e, Mapped(e)
  PROVE  StateMap[Type[e]] \in {"PENDING", "ACTIVE", "PAUSED", "CANCELLED",
                                "EXPIRED"}
  BY DEF Mapped, StateMap

\* A delivery at work has an event; moving it keeps the event and the others.
LEMMA Working ==
  ASSUME WebhooksTypeOK, NEW d \in Deliveries, delivery[d] # Free
  PROVE  delivery[d] \in Running /\ Event(d) \in Events
  BY DEF WebhooksTypeOK, Running, Event

LEMMA NotFree ==
  ASSUME NEW d, NEW place \in Places, AtPlace(d, place)
  PROVE  delivery[d] # Free
  BY DEF AtPlace, Free, Places

LEMMA GotoMoves ==
  ASSUME WebhooksTypeOK, NEW d \in Deliveries, NEW place \in Places,
         delivery[d] # Free, Goto(d, place)
  PROVE  /\ delivery' \in [Deliveries -> Running \cup {Free}]
         /\ delivery'[d].at = place /\ delivery'[d].event = Event(d)
         /\ delivery'[d] # Free
         /\ \A c \in Deliveries : c # d => delivery'[c] = delivery[c]
<1>1. Event(d) \in Events
  BY Working
<1>2. [at |-> place, event |-> Event(d)] \in Running
  BY <1>1 DEF Running, Places
<1>3. [at |-> place, event |-> Event(d)] # Free
  BY DEF Free, Places
<1> QED BY <1>2, <1>3 DEF Goto, WebhooksTypeOK

LEMMA FreeMoves ==
  ASSUME WebhooksTypeOK, NEW d \in Deliveries, delivery' = [delivery EXCEPT ![d] = Free]
  PROVE  /\ delivery' \in [Deliveries -> Running \cup {Free}]
         /\ delivery'[d] = Free
         /\ \A c \in Deliveries : c # d => delivery'[c] = delivery[c]
  BY DEF WebhooksTypeOK

-----------------------------------------------------------------------------
(* The inductive invariant.                                                *)

\* The history only grows, and what is covered stays covered.
LEMMA CoveredStays ==
  ASSUME \A f \in Events : history[f] > 0 => history'[f] > 0,
         NEW e \in Events, Covered(e)
  PROVE  Covered(e)'
  BY DEF Covered, Duplicate

\* What has to be said of a step that writes neither the history nor a mark.
LEMMA DeliveryQuiet ==
  ASSUME WebhooksInv, UNCHANGED <<history, row>>
  PROVE  ChargedOnce' /\ SuccessIsBacked'
  BY DEF WebhooksInv, ChargedOnce, SuccessIsBacked, Covered, Duplicate

LEMMA AnswersStay ==
  ASSUME WebhooksInv, UNCHANGED answered,
         \A f \in Events : history[f] > 0 => history'[f] > 0
  PROVE  AnsweredIsApplied'
<1> SUFFICES ASSUME NEW e \in answered, Mapped(e) PROVE Covered(e)'
  BY DEF AnsweredIsApplied, Mapped
<1>1. e \in Events /\ Covered(e)
  BY DEF WebhooksInv, WebhooksTypeOK, AnsweredIsApplied
<1> QED BY <1>1, CoveredStays

\* A delivery that is left alone keeps what is said of it.
LEMMA DeliveriesStay ==
  ASSUME WebhooksInv, NEW c \in Deliveries, delivery'[c] = delivery[c],
         raised \subseteq raised',
         \A f \in Events : history[f] > 0 => history'[f] > 0
  PROVE  DeliveryInv(c)'
<1>1. CASE delivery[c] = Free
  BY <1>1 DEF DeliveryInv, AtPlace, Free
<1>2. CASE delivery[c] # Free
  <2>1. Event(c) \in Events /\ DeliveryInv(c)
    BY <1>2, Working DEF WebhooksInv
  <2>2. Covered(Event(c)) => Covered(Event(c))'
    BY <2>1, CoveredStays DEF Event
  <2> QED BY <1>2, <2>1, <2>2 DEF DeliveryInv, AtPlace, Event, Mapped
<1> QED BY <1>1, <1>2

LEMMA WebhooksBegins == WebhooksInit => WebhooksInv
<1> SUFFICES ASSUME WebhooksInit PROVE WebhooksInv
  OBVIOUS
<1>1. /\ raised = {} /\ answered = {} /\ link = "none" /\ subscriptionStatus = "TRIAL"
      /\ \A e \in Events : history[e] = 0 /\ row[e] = "none"
      /\ \A d \in Deliveries : delivery[d] = Free
  BY DEF WebhooksInit
<1>2. WebhooksTypeOK
  <2>1. /\ history \in [Events -> Nat]
        /\ row \in [Events -> {"none", "SUCCESS", "FAILED"}]
        /\ delivery \in [Deliveries -> Running \cup {Free}]
    BY DEF WebhooksInit
  <2>2. trouble \in 0..MaxTrouble
    BY EventsAssumption DEF WebhooksInit
  <2> QED BY <1>1, <2>1, <2>2 DEF WebhooksTypeOK
<1>3. ChargedOnce /\ SuccessIsBacked /\ AnsweredIsApplied
  BY <1>1 DEF ChargedOnce, SuccessIsBacked, AnsweredIsApplied
<1>4. \A d \in Deliveries : DeliveryInv(d)
  BY <1>1 DEF DeliveryInv, AtPlace, Free
<1> QED BY <1>2, <1>3, <1>4 DEF WebhooksInv

LEMMA RaiseInv ==
  ASSUME WebhooksInv, NEW e \in Events, Raise(e)
  PROVE  WebhooksInv'
<1>1. UNCHANGED <<history, row, answered, delivery, link, subscriptionStatus, trouble>>
      /\ raised \subseteq raised'
  BY DEF Raise, tables
<1>2. WebhooksTypeOK'
  BY DEF WebhooksInv, WebhooksTypeOK, Raise, tables
<1>3. ChargedOnce' /\ SuccessIsBacked'
  BY <1>1, DeliveryQuiet
<1>4. AnsweredIsApplied'
  BY <1>1, AnswersStay
<1>5. \A c \in Deliveries : DeliveryInv(c)'
  BY <1>1, DeliveriesStay
<1> QED BY <1>2, <1>3, <1>4, <1>5 DEF WebhooksInv

LEMMA DeliverInv ==
  ASSUME WebhooksInv, NEW d \in Deliveries, NEW e \in Events, Deliver(d, e)
  PROVE  WebhooksInv'
<1>1. UNCHANGED <<history, row, answered, raised, link, subscriptionStatus, trouble>>
  BY DEF Deliver, tables, provider
<1>2. WebhooksTypeOK'
  BY <1>1 DEF WebhooksInv, WebhooksTypeOK, Deliver, Running
<1>3. ChargedOnce' /\ SuccessIsBacked' /\ AnsweredIsApplied'
  BY <1>1, DeliveryQuiet, AnswersStay
<1>4. ASSUME NEW c \in Deliveries PROVE DeliveryInv(c)'
  <2>1. CASE c = d
    BY <1>1, <2>1 DEF Deliver, DeliveryInv, AtPlace, Event, WebhooksInv, WebhooksTypeOK
  <2>2. CASE c # d
    BY <1>1, <2>2, DeliveriesStay DEF Deliver, WebhooksInv, WebhooksTypeOK
  <2> QED BY <2>1, <2>2
<1> QED BY <1>2, <1>3, <1>4 DEF WebhooksInv

\* Steps of a delivery that leave the tables and the provider alone.
LEMMA MoveInv ==
  ASSUME WebhooksInv, NEW d \in Deliveries, delivery[d] # Free,
         NEW place \in Places, Goto(d, place),
         UNCHANGED <<raised, answered, history, link, subscriptionStatus>>,
         row' = row \/ place = "refuse",
         row' \in [Events -> {"none", "SUCCESS", "FAILED"}],
         \A e \in Events : row'[e] = "SUCCESS" => row[e] = "SUCCESS",
         trouble' \in 0..MaxTrouble,
         place \in {"find", "apply"} => Mapped(Event(d)),
         place = "accept" /\ Mapped(Event(d)) => Covered(Event(d))
  PROVE  WebhooksInv'
<1>1. WebhooksTypeOK'
  BY GotoMoves DEF WebhooksInv, WebhooksTypeOK
<1>2. ChargedOnce' /\ SuccessIsBacked'
  BY DEF WebhooksInv, ChargedOnce, SuccessIsBacked, Covered, Duplicate
<1>3. AnsweredIsApplied'
  BY AnswersStay
<1>4. ASSUME NEW c \in Deliveries PROVE DeliveryInv(c)'
  <2>1. CASE c = d
    <3>1. /\ delivery'[d].at = place /\ delivery'[d].event = Event(d)
          /\ Event(d) \in raised
      BY GotoMoves DEF WebhooksInv, DeliveryInv
    <3>2. Event(d)' = Event(d) /\ Event(d) \in Events
      BY <3>1 DEF Event, WebhooksInv, WebhooksTypeOK
    <3>3. Covered(Event(d)) => Covered(Event(d))'
      BY <3>2 DEF Covered, Duplicate, SameCharge
    <3>4. /\ AtPlace(d, "find")' \/ AtPlace(d, "apply")' => Mapped(Event(d))'
          /\ AtPlace(d, "accept")' /\ Mapped(Event(d))' => Covered(Event(d))'
      BY <3>1, <3>2, <3>3 DEF AtPlace, Mapped
    <3> QED BY <2>1, <3>1, <3>2, <3>4 DEF DeliveryInv
  <2>2. CASE c # d
    BY <2>2, GotoMoves, DeliveriesStay DEF WebhooksInv
  <2> QED BY <2>1, <2>2
<1> QED BY <1>1, <1>2, <1>3, <1>4 DEF WebhooksInv

LEMMA CheckInv ==
  ASSUME WebhooksInv, NEW d \in Deliveries, Check(d)
  PROVE  WebhooksInv'
<1>1. /\ delivery[d] # Free /\ Event(d) \in Events
      /\ UNCHANGED <<raised, answered, history, link, subscriptionStatus, row, trouble>>
  BY NotFree, Working DEF Check, Places, WebhooksInv, provider, tables
<1>2. CASE Mapped(Event(d)) /\ row[Event(d)] # "SUCCESS"
  <2>1. Goto(d, "find")
    BY <1>2 DEF Check
  <2> QED BY <1>1, <1>2, <2>1, MoveInv DEF Places, WebhooksInv, WebhooksTypeOK
<1>3. CASE ~(Mapped(Event(d)) /\ row[Event(d)] # "SUCCESS")
  <2>1. Goto(d, "accept")
    BY <1>3 DEF Check
  <2>2. Mapped(Event(d)) => Covered(Event(d))
    BY <1>1, <1>3 DEF WebhooksInv, SuccessIsBacked
  <2> QED BY <1>1, <2>1, <2>2, MoveInv DEF Places, WebhooksInv, WebhooksTypeOK
<1> QED BY <1>2, <1>3

LEMMA FindInv ==
  ASSUME WebhooksInv, NEW d \in Deliveries, Find(d)
  PROVE  WebhooksInv'
<1>1. /\ delivery[d] # Free /\ Mapped(Event(d))
      /\ UNCHANGED <<raised, answered, history, link, subscriptionStatus, row, trouble>>
  BY NotFree DEF Find, Places, WebhooksInv, DeliveryInv, provider, tables
<1>2. CASE Linked
  <2>1. Goto(d, "apply")
    BY <1>2 DEF Find
  <2> QED BY <1>1, <2>1, MoveInv DEF Places, WebhooksInv, WebhooksTypeOK
<1>3. CASE ~Linked
  <2>1. Goto(d, "failed")
    BY <1>3 DEF Find
  <2> QED BY <1>1, <2>1, MoveInv DEF Places, WebhooksInv, WebhooksTypeOK
<1> QED BY <1>2, <1>3

LEMMA BreakInv ==
  ASSUME WebhooksInv, NEW d \in Deliveries, Break(d)
  PROVE  WebhooksInv'
<1>1. /\ delivery[d] # Free /\ Goto(d, "failed")
      /\ UNCHANGED <<raised, answered, history, link, subscriptionStatus, row>>
  BY NotFree DEF Break, Places, provider, tables
<1>2. trouble' \in 0..MaxTrouble
  BY EventsAssumption DEF Break, Trouble, WebhooksInv, WebhooksTypeOK
<1> QED BY <1>1, <1>2, MoveInv DEF Places, WebhooksInv, WebhooksTypeOK

LEMMA NoteFailureInv ==
  ASSUME WebhooksInv, NEW d \in Deliveries, NoteFailure(d)
  PROVE  WebhooksInv'
<1>1. /\ delivery[d] # Free /\ Goto(d, "refuse")
      /\ UNCHANGED <<raised, answered, history, link, subscriptionStatus>>
  BY NotFree DEF NoteFailure, Places, provider
<1>2. trouble' \in 0..MaxTrouble
  BY EventsAssumption DEF NoteFailure, Trouble, WebhooksInv, WebhooksTypeOK
<1>3. /\ row' \in [Events -> {"none", "SUCCESS", "FAILED"}]
      /\ \A e \in Events : row'[e] = "SUCCESS" => row[e] = "SUCCESS"
  BY DEF NoteFailure, WebhooksInv, WebhooksTypeOK
<1> QED BY <1>1, <1>2, <1>3, MoveInv DEF Places

\* The end of a delivery, answered, refused or killed.
LEMMA EndInv ==
  ASSUME WebhooksInv, NEW d \in Deliveries, delivery' = [delivery EXCEPT ![d] = Free],
         UNCHANGED <<raised, history, row, link, subscriptionStatus>>,
         trouble' \in 0..MaxTrouble,
         \/ UNCHANGED answered
         \/ /\ AtPlace(d, "accept") /\ delivery[d] # Free
            /\ answered' = answered \cup {Event(d)}
  PROVE  WebhooksInv'
<1>1. delivery[d] # Free => Event(d) \in raised
  BY DEF WebhooksInv, DeliveryInv
<1>2. WebhooksTypeOK'
  BY <1>1, FreeMoves DEF WebhooksInv, WebhooksTypeOK
<1>3. ChargedOnce' /\ SuccessIsBacked'
  BY DeliveryQuiet
<1>4. AnsweredIsApplied'
  <2>1. CASE UNCHANGED answered
    BY <2>1, AnswersStay
  <2>2. CASE AtPlace(d, "accept") /\ answered' = answered \cup {Event(d)}
    <3>1. \A e \in answered' : Mapped(e) => Covered(e)
      BY <2>2 DEF WebhooksInv, AnsweredIsApplied, DeliveryInv
    <3> QED BY <3>1 DEF AnsweredIsApplied, Covered, Duplicate, Mapped
  <2> QED BY <2>1, <2>2
<1>5. ASSUME NEW c \in Deliveries PROVE DeliveryInv(c)'
  <2>1. CASE c = d
    BY <2>1, FreeMoves DEF WebhooksInv, DeliveryInv, AtPlace, Free
  <2>2. CASE c # d
    BY <2>2, FreeMoves, DeliveriesStay DEF WebhooksInv
  <2> QED BY <2>1, <2>2
<1> QED BY <1>2, <1>3, <1>4, <1>5 DEF WebhooksInv

LEMMA AnswerInv ==
  ASSUME WebhooksInv, NEW d \in Deliveries, Answer(d)
  PROVE  WebhooksInv'
<1>1. /\ delivery' = [delivery EXCEPT ![d] = Free]
      /\ UNCHANGED <<raised, history, row, link, subscriptionStatus>>
      /\ \/ UNCHANGED answered
         \/ AtPlace(d, "accept") /\ answered' = answered \cup {Event(d)}
  BY DEF Answer, tables
<1>2. trouble' \in 0..MaxTrouble
  BY EventsAssumption DEF Answer, Trouble, WebhooksInv, WebhooksTypeOK
<1> QED BY <1>1, <1>2, NotFree, EndInv DEF Places

LEMMA CrashInv ==
  ASSUME WebhooksInv, NEW d \in Deliveries, Crash(d)
  PROVE  WebhooksInv'
<1>1. trouble' \in 0..MaxTrouble
  BY EventsAssumption DEF Crash, Trouble, WebhooksInv, WebhooksTypeOK
<1> QED BY <1>1, EndInv DEF Crash, provider, tables

LEMMA CheckoutInv ==
  ASSUME WebhooksInv, Checkout
  PROVE  WebhooksInv'
<1>1. UNCHANGED <<history, row, answered, raised, delivery, trouble>>
  BY DEF Checkout, LinkSubscription, StartReplacing, EndReplacing, provider
<1>2. /\ link' \in {"none", "lost", "linked", "replacing", "replaced"}
      /\ subscriptionStatus' \in {"TRIAL", "PENDING", "ACTIVE", "PAUSED", "CANCELLED",
                                  "EXPIRED"}
  BY DEF Checkout, LinkSubscription, StartReplacing, EndReplacing, WebhooksInv,
         WebhooksTypeOK
<1>3. WebhooksTypeOK'
  BY <1>1, <1>2 DEF WebhooksInv, WebhooksTypeOK
<1>4. ChargedOnce' /\ SuccessIsBacked' /\ AnsweredIsApplied'
  BY <1>1, DeliveryQuiet, AnswersStay
<1>5. \A c \in Deliveries : DeliveryInv(c)'
  BY <1>1, DeliveriesStay
<1> QED BY <1>3, <1>4, <1>5 DEF WebhooksInv

-----------------------------------------------------------------------------
(* The transaction of a delivery, which is where a charge could be billed  *)
(* twice: it adds a row only when no event with the same charge has one.   *)

LEMMA ApplyTables ==
  ASSUME WebhooksInv, NEW d \in Deliveries, Apply(d)
  PROVE  /\ delivery[d] # Free /\ Event(d) \in Events /\ Mapped(Event(d))
         /\ history' \in [Events -> Nat]
         /\ \A f \in Events : f # Event(d) => history'[f] = history[f]
         /\ Duplicate(Event(d)) => history' = history
         /\ ~Duplicate(Event(d)) => history'[Event(d)] = history[Event(d)] + 1
         /\ row' \in [Events -> {"none", "SUCCESS", "FAILED"}]
         /\ \A f \in Events : f # Event(d) => row'[f] = row[f]
<1>1. delivery[d] # Free /\ AtPlace(d, "apply")
  BY NotFree DEF Apply, Places
<1>2. Event(d) \in Events /\ Mapped(Event(d))
  BY <1>1, Working DEF WebhooksInv, DeliveryInv
<1>3. /\ history \in [Events -> Nat]
      /\ row \in [Events -> {"none", "SUCCESS", "FAILED"}]
  BY DEF WebhooksInv, WebhooksTypeOK
<1>4. /\ history' = IF Duplicate(Event(d)) THEN history
                    ELSE [history EXCEPT ![Event(d)] = @ + 1]
      /\ row' = [row EXCEPT ![Event(d)] = "SUCCESS"]
  BY DEF Apply
<1> QED BY <1>1, <1>2, <1>3, <1>4

\* What the transaction leaves behind covers its event.
LEMMA ApplyCovers ==
  ASSUME WebhooksInv, NEW d \in Deliveries, Apply(d)
  PROVE  /\ \A f \in Events : history[f] > 0 => history'[f] > 0
         /\ Event(d)' = Event(d) /\ Covered(Event(d))'
<1> DEFINE e == Event(d)
<1>1. \A f \in Events : history[f] \in Nat
  BY DEF WebhooksInv, WebhooksTypeOK
<1>2. e \in Events /\ \A f \in Events : history[f] > 0 => history'[f] > 0
  BY <1>1, ApplyTables
<1>3. Event(d)' = Event(d)
  BY ApplyTables, GotoMoves DEF Apply, Event, WebhooksInv, Places
<1>4. \/ history'[e] > 0
      \/ \E f \in Events : history'[f] > 0 /\ SameCharge(e, f)
  BY <1>1, <1>2, ApplyTables DEF Duplicate
<1>5. Covered(Event(d))'
  BY <1>3, <1>4 DEF Covered, Duplicate, SameCharge
<1> QED BY <1>2, <1>3, <1>5

LEMMA ApplyChargedOnce ==
  ASSUME WebhooksInv, NEW d \in Deliveries, Apply(d)
  PROVE  ChargedOnce'
<1> DEFINE a == Event(d)
<1>1. \A f \in Events : history[f] \in Nat
  BY DEF WebhooksInv, WebhooksTypeOK
<1>2. CASE Duplicate(a)
  BY <1>2, ApplyTables DEF WebhooksInv, ChargedOnce, SameCharge
<1>3. CASE ~Duplicate(a)
  <2> SUFFICES ASSUME NEW e \in Events, NEW f \in Events,
                      history'[e] > 0, history'[f] > 0, SameCharge(e, f)
               PROVE  e = f /\ history'[e] = 1
    BY DEF ChargedOnce, SameCharge
  <2>1. \A g \in Events : history[g] > 0 => ~SameCharge(a, g)
    BY <1>3 DEF Duplicate
  <2>2. CASE e # a /\ f # a
    BY <2>2, ApplyTables DEF WebhooksInv, ChargedOnce
  <2>3. CASE e = a /\ f # a
    BY <2>1, <2>3, ApplyTables
  <2>4. CASE e # a /\ f = a
    BY <2>1, <2>4, ApplyTables DEF SameCharge
  <2>5. CASE e = a /\ f = a
    <3>1. history[a] = 0
      BY <1>1, <2>1, <2>5, ApplyTables
    <3> QED BY <1>3, <2>5, <3>1, ApplyTables
  <2> QED BY <2>2, <2>3, <2>4, <2>5
<1> QED BY <1>2, <1>3

LEMMA ApplyInv ==
  ASSUME WebhooksInv, NEW d \in Deliveries, Apply(d)
  PROVE  WebhooksInv'
<1>1. /\ UNCHANGED <<raised, answered, link, trouble>>
      /\ Goto(d, "accept") /\ subscriptionStatus' = StateMap[Type[Event(d)]]
  BY DEF Apply, provider
<1>2. WebhooksTypeOK'
  BY <1>1, ApplyTables, GotoMoves, MapRange DEF WebhooksInv, WebhooksTypeOK, Places
<1>3. SuccessIsBacked'
  <2>1. ASSUME NEW e \in Events, row'[e] = "SUCCESS" PROVE Covered(e)'
    <3>1. CASE e = Event(d)
      BY <3>1, ApplyCovers DEF Covered, Duplicate
    <3>2. CASE e # Event(d)
      <4>1. Covered(e)
        BY <2>1, <3>2, ApplyTables DEF WebhooksInv, SuccessIsBacked
      <4> QED BY <4>1, ApplyCovers, CoveredStays
    <3> QED BY <3>1, <3>2
  <2> QED BY <2>1 DEF SuccessIsBacked
<1>4. AnsweredIsApplied'
  BY <1>1, ApplyCovers, AnswersStay
<1>5. ASSUME NEW c \in Deliveries PROVE DeliveryInv(c)'
  <2>1. CASE c = d
    <3>1. /\ delivery'[d].at = "accept" /\ Event(d) \in raised
      BY <1>1, ApplyTables, GotoMoves DEF WebhooksInv, DeliveryInv, Places
    <3>2. Event(d)' = Event(d) /\ Covered(Event(d))'
      BY ApplyCovers
    <3> QED BY <1>1, <2>1, <3>1, <3>2 DEF DeliveryInv, AtPlace
  <2>2. CASE c # d
    <3>1. delivery'[c] = delivery[c]
      BY <1>1, <2>2, ApplyTables, GotoMoves DEF WebhooksInv, Places
    <3> QED BY <1>1, <3>1, ApplyCovers, DeliveriesStay
  <2> QED BY <2>1, <2>2
<1> QED BY <1>2, <1>3, <1>4, <1>5, ApplyChargedOnce DEF WebhooksInv

-----------------------------------------------------------------------------
(* The theorems.                                                           *)

\* Every state of the delivery protocol satisfies the inductive invariant.
THEOREM WebhooksInvariance == WebhooksSpec => []WebhooksInv
<1>1. WebhooksInit => WebhooksInv
  BY WebhooksBegins
<1>2. WebhooksInv /\ [WebhooksNext]_webhooksVars => WebhooksInv'
  <2> SUFFICES ASSUME WebhooksInv, [WebhooksNext]_webhooksVars PROVE WebhooksInv'
    OBVIOUS
  <2>1. ASSUME NEW e \in Events, Raise(e) PROVE WebhooksInv'
    BY <2>1, RaiseInv
  <2>2. ASSUME NEW d \in Deliveries, NEW e \in Events, Deliver(d, e) PROVE WebhooksInv'
    BY <2>2, DeliverInv
  <2>3. ASSUME NEW d \in Deliveries, Step(d) \/ Break(d) \/ Crash(d) PROVE WebhooksInv'
    BY <2>3, CheckInv, FindInv, ApplyInv, NoteFailureInv, AnswerInv, BreakInv,
       CrashInv DEF Step
  <2>4. CASE Checkout
    BY <2>4, CheckoutInv
  <2>5. CASE UNCHANGED webhooksVars
    <3>1. UNCHANGED <<raised, answered, link, subscriptionStatus, history, row, delivery,
                      trouble>>
      BY <2>5 DEF webhooksVars
    <3>2. WebhooksTypeOK'
      BY <3>1 DEF WebhooksInv, WebhooksTypeOK
    <3>3. ChargedOnce' /\ SuccessIsBacked' /\ AnsweredIsApplied'
      BY <3>1, DeliveryQuiet, AnswersStay
    <3>4. \A c \in Deliveries : DeliveryInv(c)'
      BY <3>1, DeliveriesStay
    <3> QED BY <3>2, <3>3, <3>4 DEF WebhooksInv
  <2> QED BY <2>1, <2>2, <2>3, <2>4, <2>5 DEF WebhooksNext
<1> QED BY <1>1, <1>2, PTL DEF WebhooksSpec

\* Type correctness of processWebhookEvent's tables and deliveries.
THEOREM WebhooksTypeCorrect == WebhooksSpec => []WebhooksTypeOK
<1>1. WebhooksInv => WebhooksTypeOK
  BY DEF WebhooksInv
<1> QED BY <1>1, WebhooksInvariance, PTL

\* However many deliveries of however many event ids carry one charge, and
\* however they overlap, break or are retried, it is billed once.
THEOREM ChargedCorrect == WebhooksSpec => []ChargedOnce
<1>1. WebhooksInv => ChargedOnce
  BY DEF WebhooksInv
<1> QED BY <1>1, WebhooksInvariance, PTL

\* A webhook_events row that says SUCCESS has its effects in the history.
THEOREM BackedCorrect == WebhooksSpec => []SuccessIsBacked
<1>1. WebhooksInv => SuccessIsBacked
  BY DEF WebhooksInv
<1> QED BY <1>1, WebhooksInvariance, PTL

\* The provider is never told 200 for an event that was to move the
\* subscription and is not applied.
THEOREM AnsweredCorrect == WebhooksSpec => []AnsweredIsApplied
<1>1. WebhooksInv => AnsweredIsApplied
  BY DEF WebhooksInv
<1> QED BY <1>1, WebhooksInvariance, PTL

-----------------------------------------------------------------------------
(* The promise is kept: every step is a step of WebhookBook or invisible.  *)

LEMMA BakerFoundStays ==
  ASSUME WebhooksInv, BakerFound, [WebhooksNext]_webhooksVars
  PROVE  BakerFound'
<1> SUFFICES ASSUME NEW c \in Deliveries, delivery'[c].at = "apply" PROVE WasLinked'
  BY DEF BakerFound, AtPlace
<1>0. link' = link => (WasLinked' <=> WasLinked) /\ (Linked' <=> Linked)
  BY DEF WasLinked, Linked
<1>1. ASSUME delivery'[c] = delivery[c], WasLinked => WasLinked' PROVE WasLinked'
  BY <1>1 DEF BakerFound, AtPlace
<1>2. ASSUME NEW d \in Deliveries, NEW place \in Places, delivery[d] # Free, Goto(d, place),
             place = "apply" => WasLinked', WasLinked => WasLinked'
      PROVE  WasLinked'
  BY <1>1, <1>2, GotoMoves DEF WebhooksInv
<1>3. ASSUME NEW d \in Deliveries, delivery' = [delivery EXCEPT ![d] = Free], link' = link
      PROVE  WasLinked'
  BY <1>0, <1>1, <1>3, FreeMoves DEF WebhooksInv, Free
<1>4. ASSUME NEW e \in Events, Raise(e) PROVE WasLinked'
  BY <1>0, <1>1, <1>4 DEF Raise, tables
<1>5. ASSUME NEW d \in Deliveries, NEW e \in Events, Deliver(d, e) PROVE WasLinked'
  BY <1>0, <1>1, <1>5 DEF Deliver, tables, WebhooksInv, WebhooksTypeOK
<1>6. ASSUME NEW d \in Deliveries, Check(d) PROVE WasLinked'
  <2>1. delivery[d] # Free /\ link' = link
    BY <1>6, NotFree DEF Check, Places, tables
  <2>2. Goto(d, "find") \/ Goto(d, "accept")
    BY <1>6 DEF Check
  <2> QED BY <2>1, <2>2, <1>0, <1>2 DEF Places
<1>7. ASSUME NEW d \in Deliveries, Find(d) PROVE WasLinked'
  <2>1. delivery[d] # Free /\ link' = link
    BY <1>7, NotFree DEF Find, Places, tables
  <2>2. (Goto(d, "apply") /\ WasLinked) \/ Goto(d, "failed")
    BY <1>7 DEF Find, WasLinked
  <2> QED BY <2>1, <2>2, <1>0, <1>2 DEF Places
<1>8. ASSUME NEW d \in Deliveries, Apply(d) PROVE WasLinked'
  <2>1. delivery[d] # Free /\ link' = link /\ Goto(d, "accept")
    BY <1>8, NotFree DEF Apply, Places
  <2> QED BY <2>1, <1>0, <1>2 DEF Places
<1>9. ASSUME NEW d \in Deliveries, NoteFailure(d) PROVE WasLinked'
  <2>1. delivery[d] # Free /\ link' = link /\ Goto(d, "refuse")
    BY <1>9, NotFree DEF NoteFailure, Places
  <2> QED BY <2>1, <1>0, <1>2 DEF Places
<1>10. ASSUME NEW d \in Deliveries, Break(d) PROVE WasLinked'
  <2>1. delivery[d] # Free /\ link' = link /\ Goto(d, "failed")
    BY <1>10, NotFree DEF Break, Places, tables
  <2> QED BY <2>1, <1>0, <1>2 DEF Places
<1>11. ASSUME NEW d \in Deliveries, Answer(d) \/ Crash(d) PROVE WasLinked'
  BY <1>3, <1>11 DEF Answer, Crash, tables
<1>12. CASE Checkout
  <2>1. WasLinked => WasLinked'
    BY <1>12 DEF Checkout, LinkSubscription, StartReplacing, EndReplacing, WasLinked, Linked
  <2>2. delivery' = delivery
    BY <1>12 DEF Checkout, LinkSubscription, StartReplacing, EndReplacing
  <2> QED BY <1>1, <2>1, <2>2
<1>13. CASE UNCHANGED webhooksVars
  BY <1>0, <1>1, <1>13 DEF webhooksVars
<1> QED
  BY <1>4, <1>5, <1>6, <1>7, <1>8, <1>9, <1>10, <1>11, <1>12, <1>13 DEF WebhooksNext, Step

LEMMA SameEventRules ==
  /\ Book!StateMap = StateMap
  /\ \A e : Book!Mapped(e) <=> Mapped(e)
  /\ \A e, f : Book!SameCharge(e, f) <=> SameCharge(e, f)
  /\ \A e : Book!Entered(e) <=> Duplicate(e)
<1>1. Book!StateMap = StateMap
  BY DEF Book!StateMap, StateMap
<1>2. \A e : Book!Mapped(e) <=> Mapped(e)
  BY <1>1, Zenon DEF Book!Mapped, Mapped
<1>3. \A e, f : Book!SameCharge(e, f) <=> SameCharge(e, f)
  BY Zenon DEF Book!SameCharge, SameCharge
<1>4. \A e : Book!Entered(e) <=> Duplicate(e)
  BY <1>3, Zenon DEF Book!Entered, Duplicate
<1> QED BY <1>1, <1>2, <1>3, <1>4

\* The commit is where an event takes effect.
LEMMA ApplyTakesEffect ==
  ASSUME WebhooksInv, BakerFound, NEW d \in Deliveries, Apply(d)
  PROVE  \E e \in Events : Book!TakeEffect(e)
<1> PICK e \in Events : e = Event(d)
  BY ApplyTables
<1>1. e \in raised /\ WasLinked /\ Mapped(e)
  BY NotFree DEF Apply, Places, WebhooksInv, DeliveryInv, BakerFound
<1>2. /\ subscriptionStatus' = StateMap[Type[e]]
      /\ history' = IF Duplicate(e) THEN history ELSE [history EXCEPT ![e] = @ + 1]
      /\ UNCHANGED <<raised, answered, link>>
  BY DEF Apply, provider
<1>3. WasLinked' <=> WasLinked
  BY <1>2 DEF WasLinked, Linked
<1>4. Book!TakeEffect(e)
  BY <1>1, <1>2, <1>3, SameEventRules, Zenon DEF Book!TakeEffect
<1> QED BY <1>4

\* The 200 is the answer, unless it gets lost.
LEMMA AnswerAnswers ==
  ASSUME WebhooksInv, NEW d \in Deliveries, Answer(d)
  PROVE  (\E e \in Events : Book!Answer(e)) \/ UNCHANGED Book!vars
<1>1. UNCHANGED <<raised, link, subscriptionStatus, history>>
  BY DEF Answer, tables
<1>2. CASE UNCHANGED answered
  BY <1>1, <1>2 DEF Book!vars, WasLinked, Linked
<1>3. CASE AtPlace(d, "accept") /\ answered' = answered \cup {Event(d)}
  <2>1. delivery[d] # Free /\ Event(d) \in Events
    BY <1>3, NotFree, Working DEF Places, WebhooksInv
  <2> PICK e \in Events : e = Event(d)
    BY <2>1
  <2>2. e \in raised /\ (Mapped(e) => history[e] > 0 \/ Duplicate(e))
    BY <1>3, <2>1 DEF WebhooksInv, DeliveryInv, Covered
  <2>3. WasLinked' <=> WasLinked
    BY <1>1 DEF WasLinked, Linked
  <2>4. Book!Answer(e)
    BY <1>1, <1>3, <2>2, <2>3, SameEventRules, Zenon DEF Book!Answer
  <2> QED BY <2>4
<1> QED BY <1>2, <1>3 DEF Answer

\* A checkout shows when it is committed.
LEMMA CheckoutIsPromised ==
  ASSUME Checkout
  PROVE  Book!Checkout \/ UNCHANGED Book!vars
<1>1. UNCHANGED <<raised, answered, history>>
  BY DEF Checkout, LinkSubscription, StartReplacing, EndReplacing, provider
<1>2. CASE link' \in {"linked", "replaced"} /\ subscriptionStatus' = "PENDING"
  BY <1>1, <1>2 DEF Book!Checkout, WasLinked, Linked
<1>3. CASE UNCHANGED subscriptionStatus /\ (WasLinked' <=> WasLinked)
  BY <1>1, <1>3 DEF Book!vars
<1>4. \/ link' \in {"linked", "replaced"} /\ subscriptionStatus' = "PENDING"
      \/ UNCHANGED subscriptionStatus /\ (WasLinked' <=> WasLinked)
  BY DEF Checkout, LinkSubscription, StartReplacing, EndReplacing, WasLinked, Linked
<1> QED BY <1>2, <1>3, <1>4

LEMMA StepIsPromised ==
  ASSUME WebhooksInv, BakerFound, [WebhooksNext]_webhooksVars
  PROVE  [Book!Next]_(Book!vars)
<1>1. ASSUME NEW e \in Events, Raise(e) PROVE Book!Next
  <2>1. Book!Raise(e)
    BY <1>1 DEF Raise, Book!Raise, tables, WasLinked, Linked
  <2> QED BY <2>1 DEF Book!Next
<1>2. ASSUME NEW d \in Deliveries, NEW e \in Events, Deliver(d, e)
      PROVE  UNCHANGED Book!vars
  BY <1>2 DEF Deliver, tables, provider, Book!vars, WasLinked, Linked
<1>3. ASSUME NEW d \in Deliveries, Check(d) \/ Find(d) \/ NoteFailure(d) \/ Break(d) \/ Crash(d)
      PROVE  UNCHANGED Book!vars
  BY <1>3 DEF Check, Find, NoteFailure, Break, Crash, tables, provider, Book!vars, WasLinked, Linked
<1>4. ASSUME NEW d \in Deliveries, Apply(d) PROVE Book!Next
  BY <1>4, ApplyTakesEffect DEF Book!Next
<1>5. ASSUME NEW d \in Deliveries, Answer(d) PROVE Book!Next \/ UNCHANGED Book!vars
  BY <1>5, AnswerAnswers DEF Book!Next
<1>6. ASSUME Checkout PROVE Book!Next \/ UNCHANGED Book!vars
  BY <1>6, CheckoutIsPromised DEF Book!Next
<1>7. ASSUME UNCHANGED webhooksVars PROVE UNCHANGED Book!vars
  BY <1>7 DEF webhooksVars, Book!vars, WasLinked, Linked
<1> QED BY <1>1, <1>2, <1>3, <1>4, <1>5, <1>6, <1>7 DEF WebhooksNext, Step

\* However deliveries overlap, repeat, break and are killed, processWebhookEvent
\* lets every event take effect at once, enters a charge once and answers 200
\* only after that.
THEOREM PromiseKept == WebhooksSpec => BookSpec
<1>1. WebhooksInit => Book!Init /\ BakerFound
  BY DEF WebhooksInit, Book!Init, BakerFound, AtPlace, Free, WasLinked, Linked
<1>2. WebhooksInv /\ BakerFound /\ [WebhooksNext]_webhooksVars => BakerFound'
  BY BakerFoundStays
<1>3. WebhooksInv /\ BakerFound /\ [WebhooksNext]_webhooksVars => [Book!Next]_(Book!vars)
  BY StepIsPromised
<1> QED
  BY <1>1, <1>2, <1>3, WebhooksInvariance, PTL DEF WebhooksSpec, BookSpec, Book!Spec
=============================================================================
