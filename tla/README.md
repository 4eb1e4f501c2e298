# Verification of the Kamai backend

TLA+ specifications of the Kamai backend (Fastify, Prisma, PostgreSQL,
Razorpay), the TLC configurations that model-check them, and TLAPS proofs of the
theorems about them. Paths below are relative to the repository.

The backend is a set of request handlers over one PostgreSQL database, run by
one or more Node.js processes at PostgreSQL's default isolation, READ COMMITTED.
Two facts about it shape every model here:

* `findFirst` and `findUnique` take no row lock. A handler that reads, decides
  and writes decides on values that may have changed by the time it writes,
  inside `prisma.$transaction` too.
* An `UPDATE` holds its row lock until the commit. So from the first update of
  a contended row to the commit is one atomic step, as long as what is written
  does not depend on reads made before it; a handler is therefore split at its
  reads and at its first write, and nowhere else.

## 1. Inventory

| Part | Source (src/) | State | Operations |
|---|---|---|---|
| Orders and payments | `modules/orders`, `modules/finance` | `orders`, `payment_events` | create, status, payment, edit, cancel |
| Sessions | `modules/auth/auth.service.ts`, `auth.controller.ts`, `jwt.service.ts` | `refresh_tokens`, cookies | sign in, refresh, logout, revoke all |
| Razorpay webhooks | `modules/webhooks` | `webhook_events`, `billing_history`, `bakers.subscription_status` | process event, record failure |
| Billing | `modules/billing`, `shared/payment` | subscription columns of `bakers`, two advisory locks, Razorpay's subscriptions | create, cancel, status |
| One-time passwords | `modules/auth/otp.service.ts`, `verification.repository.ts` | `email_verifications` | request, verify |
| Tenants, Google sign-in | `modules/auth/tenant.service.ts`, `google-auth.service.ts` | `bakers` | find or create by e-mail |
| Customers | `modules/customers` | `customers` | upsert by phone, update, merge |
| Menu items, menu slug | `modules/menu-items`, `modules/baker/menu-slug.service.ts` | `menu_items`, `bakers.menu_slug` | CRUD, reorder, publish, edit once |
| Profile, payment settings | `modules/baker` | `bakers` | update |
| Inventory, investments | `modules/inventory`, `modules/investments` | `inventory_items`, `investments` | CRUD, soft delete |
| Uploads, receipt images | `modules/uploads`, `modules/orders/receipt-image`, `shared/storage` | paths on `bakers`, objects in storage | sign, confirm, verify, upload a receipt |
| Dashboard, analytics | `modules/dashboard`, `modules/analytics` | none (reads) | sums over days, weeks, months |
| Plugins | `plugins/authenticate.ts`, `plugins/write-access.ts` | none (reads) | authenticate, paywall |
| Audit | `shared/audit` | `audit_logs` | log event, outside every transaction |

How they interact. Orders calls Customers and Finance inside its transaction.
Billing and Webhooks share the baker's row and nothing else: Billing writes
`PENDING` and the subscription id under advisory locks, Webhooks finds the baker
by that id and writes every other status without them; Razorpay is between the
two, creating subscriptions when called and sending events when it likes. The
write-access plugin reads the status both write. The sign-ins of OTP and Google
end in `createSession`, which Sessions owns. Everything calls Audit, through the
global client and so outside the caller's transaction.

What is hard, and what makes each part correct:

* **Orders.** Overlapping handlers lose updates, and the amounts are doubles in
  the handlers and decimals in the columns. What must survive both: the columns
  of a row keep telling one story, the ledger holds all the money the row claims,
  a request whose read is still current is as good as atomic, and a settled order
  stays settled once the requests that saw it open are done.
* **Sessions.** No transaction at all; four to six statements per refresh with
  every other request, a crash or a lost reply in between. One request may
  rotate a token, those that lose the race must not be taken for thieves, and a
  thief must not be taken for a racer.
* **Webhooks.** At least once, out of order, several at a time. Nothing charged
  may be recorded twice, no mark may stand without its effects, no 200 may come
  before them, and a failed attempt may leave nothing behind that a later one
  stumbles over.
* **Billing.** A transaction of at most 15 s around an HTTP call that has no such
  limit. One open checkout per baker, the price shown is the price charged, and
  two locks that must not block everybody for ever.
* **Signing in.** Every limit is read before the row it counts is written, and
  outside `provisionTenant` nothing is in a transaction. The limits can be
  overshot; what must hold is by how much, whatever the requests do.
* **Customers.** A merge moves an order to another customer and deletes the one
  it leaves, with `ON DELETE CASCADE` on the orders: no order may ever go with
  it, no customer may stay behind empty, and an order saved with a phone must
  end up with the customer of that phone.
* **Menu.** Positions, links and the one-time edit are all looked up first and
  written later, with a unique key behind one of them only. An item never
  appears without a link to show it under, a link that has been edited stays,
  and an order the baker has asked for is the order that is shown.
* **Reports.** Five queries count "this month" with five ranges of their own, in
  India's time over dates at midnight UTC. They must mean the same month, pages
  of a list must not lose an order the sorting tells from the others, and the
  dashboard must not pass over an order between its queries.
* **Profile, uploads, investments, inventory.** The paywall is asked once, on the
  way in; a bucket that cannot be asked must not count as one without the file;
  the path is whatever the client sends; every audit record wants a second
  connection, inside transactions too.

`PROJECT.json` lists every hazard with its line under `hazards`, and every
component, those not modelled too, under `components`.

## 2. Modules

`OrderRules` <- `OrderBook`, `Orders`; `WebhookRules` <- `WebhookBook`, `Webhooks`;
`Calendar` <- `Reports`; the others stand alone. Each `MC*` module instantiates one of them for TLC, and each has its
theorems in the module of its name with `Proofs` behind; `Subscriptions` and
`Webhooks`, the two sides of billing, share `BillingProofs`. They have no variable
in common, and what both would call the same (`TypeOK`, `Spec`, ...) begins with
`Webhooks` in the second.

**`OrderRules`**: the pure rules. `PaymentLabel`, `DerivedStatus` and `PricedRow`
are `derivePaymentState`; `Transitions` is the table of `assertValidTransition`;
`Recorded` is `recordTransaction`, with the ledger of an order kept as the sum of
its entries and the number of them that are advances. Money is kept twice, as in
the program. A column is a number of paise. An amount in a handler is a double, a
number of *grains*, `Paisa` of them to the paisa: `Plus` and `Minus` come out as
the result or one of its two neighbours, whichever the double happens to be,
`PaymentLabel` compares what came out with `===`, and only what is stored is
rounded (`Stored`, half up as PostgreSQL does) and read back exactly (`Read`). A
request may also carry a fraction of a paisa, which no schema refuses; that an
order ever saw one is the history `fractional`.

**`OrderBook`** is the abstract specification: one atomic action per operation of
the orders API, no requests. **`Orders`** is the API as it runs. `txn[r]` is what
request r has read (`seen`), the columns it has computed (`next`) and the amount.
`Start*` is a handler up to its first write, `Commit*` the rest. `createOrder`
reads nothing of the order and is one action. `updateOrderStatus` and
`cancelOrder` write one column (`CommitStatus`), `recordPayment` all but the
price (`CommitPayment`), `updateOrder` all of them and no ledger entry
(`CommitEdit`). The database's CHECKs (`advance_paid <= total_price`,
`total_price > 0`, a ledger entry's `amount > 0`) are guards where the amounts are
written; a transaction they refuse can only `Abort`. Cake, delivery and notes are left out, and so is the customer, whose
conflicts are one more reason to `Abort` (see `Customers`). The migration's CHECK also knows
`In Progress` and `Ready`; nothing writes them.

**`Sessions`**: one baker. A session, its refresh token and its row are one
element of `Tokens` (the row's key is the session id, the hash is unique).
`request[r].at` is the next statement of the handler: `Claim` is the conditional
`updateMany`, `Examine` the winner's expiry check, `Judge` the loser's grace
window, `Vet` the suspension check, `Mint` `createSession`, `Link`
`rotatedToTokenId`, `Reply` the cookies. `Fail` may end a request at any point:
a process that dies, a statement that fails, a reply that is lost. Rows are never
deleted, so the branch for a verified token without a row (auth.service.ts
355-365) cannot be reached and is not modelled. `now` is the clock, `Grace`
stands for the 60 s. `endedBy` and `request[r].doomed` are history, read by
properties alone. Logout needs an unexpired access token, bounded by
`AccessLife`. OTP and Google sign-in end in the same statements and share the
action `SignIn`; what precedes them is the module `SignIn`.

**`Webhooks`**: the events of one subscription and the tables they touch.
`Check`, `Find` and `Apply` are the three parts of the transaction of
`processWebhookEvent`: the reads of the event's row and of the baker, then, from
the update of the baker to the commit, everything else (the look for a duplicate
charge comes after that update, under its row lock, and is atomic with it).
`NoteFailure` is the catch block, a separate write. `Answer` is the controller's
reply, whose 200 can get lost. The provider is external: `Raise` in order,
`Deliver` what has not been answered, any number of times, at once, or never.
`link` is how the baker's row stands to the subscription: `createSubscription`
commits its id, which events can outrun, or is rolled back after the provider has
made it (`LinkSubscription`); a later checkout is let in unless the row is ACTIVE
(`StartReplacing`) and writes its own id over this one whatever a webhook has set
meanwhile, or is rolled back itself (`EndReplacing`). The signature check is taken
as passed. **`WebhookRules`** has
what the handler reads off an event, and **`WebhookBook`** is the abstract
specification: no deliveries, marks or failures, an event that is raised takes
effect at once and as a whole (`TakeEffect`), a charge is entered once, and a 200
comes after that (`Answer`). It promises at least once: an event may be applied
again, and by a delivery that had found the baker before another checkout took
the row over.

**`Subscriptions`**: several bakers, `createSubscription` and
`cancelSubscription`, and the provider with its mandates. `StartCreate` takes the
baker's advisory lock and checks the guard, `Price` takes the global lock and
decides the tier, `CallProvider` is the HTTP call, `CommitCreate` the update and
the commit; `Release` gives both locks back, at a commit and at an abort alike.
`AbortCreate` can come after `CallProvider`: what the provider created stays. The
transaction may also end while the provider is being called: `Expire` gives the
locks back and leaves the handler waiting, `late`; `AnswerLate` is the refusal or
the subscription that comes back then and is written nowhere, other checkouts of
the same baker having run, or running, beside it.
A webhook is `StartWebhook` (find the baker) and `ApplyWebhook` (update by id,
whatever the row holds by then); delivery, retries and the tables of the webhooks
are left to `Webhooks`. `abandoned` and `lapsed` stand for the 30 minutes of
`PENDING_ABANDONMENT_THRESHOLD_MS`. The ghost variable `strayed` records that a
webhook wrote the row of a baker whose subscription had changed since the find.

**`SignIn`**: one e-mail address (addresses share nothing). A row of
`EmailVerification` is an element of `Codes`; the five queries of
`VerificationRepository` are operators on the table and `request[r].at` is the
next statement of `requestOtp`, `verifyOtp`, `verifyEmailOtp` or
`signInWithGoogle`. Times a handler computes once (`new Date()` at its start) are
`request[r].arrived`; `createdAt` is the database's own clock. `findFirst` with
`orderBy createdAt desc` picks any of the rows of the same instant. Two codes with
the same digits are left out (one in a million), and so is the order in which
audit records are written. `opened[c]`, the sessions opened with code c, is
history.

**`Customers`**: the customers of one baker, the orders' `customer_id`, and three
operations. `createOrder` and `updateOrder` are interactive transactions, one
action per statement; `phone` and `holder` are what is committed and `txn[r]`
what transaction r has read and written. What PostgreSQL does at READ COMMITTED is
part of the steps: who holds which row lock is told from what a transaction has
done (`Exclusive`, `Updated`, `Refers`), a statement is enabled when the locks it
needs are free, and the unique key on `(bakerId, phone)` makes it wait for an
uncommitted entry (`Settled`) or fail. A failure, a timeout and a broken deadlock
are `Abort`. `updateCustomer` reads twice without a transaction and then updates.
Of a customer's columns only the phone is kept; an order's money is in `Orders`.
History: `strayed` (a customer that lost an order to an edit that had read the
order before it was the customer's) and `txn[r].moved`.

**`Menu`**: several bakers whose business names give the same link, so that
`Links` are 1, 2, ... for `name`, `name-2`, ...; the unique key is over all of
them. `request[r]` is at its next statement; the first read of a handler is made
in the action that begins it, as nothing happens before. `findFreeSlug` looks one
candidate up per step, and the outer loop begins again when the unique key turns
the update away. `asked[b]`, the order last asked for, and `request[r].late`, the
baker's edit as it stood when the request came, are history.

**`Calendar`** has the dates: an instant is a number of half hours, a delivery
date a number of days, `DateUTC` is `Date.UTC` with its running over, and
`GetISTCalendarDate`, `GetMonthBounds` and `GetWeekBounds` are the program's.
**`Reports`** has the reads: `GetCalendar`, `GetCalendarMonthsOverview`,
`GetAnalyticsSummary`, `GetOrders`, `CustomerRow` and the others are functions of
the tables; the dashboard, whose queries depend on each other, is a sequence of
steps with orders saved between them. Orders change in any way here. The wall
clock is kept by an almanac of its own (`NextDay`), which is what the dates are
compared with: `Shows(w, t)` is that the wall clock w is right at instant t, which
the starts have to be. ORDER BY is any of the sequences in which no row comes
before an earlier one (`Orderings`): PostgreSQL may answer with a different one
for each page when rows tie, and nothing is assumed of `Created`, the instants the
orders were created at.

**`Assets`**: one baker's own rows and the way in and out of a handler, which is
the same for all handlers: `RequireWriteAccess`, the statements, the transaction
with its audit record, and the pool (`ConnectionFree`, `PoolTimeout`,
`TransactionExpires`). The bucket is `stored`: what clients put to a signed URL
(`Put`) and the receipt images the server puts there itself (`UploadObject`).
`confirmUpload` and `createInvestment` take any path of `Paths`, issued or not. A
`list()` that answers is `VerifyObjectExists`: it looks among the `Entries`, the
objects and the folders they are in, and is content with either; one that fails is
`StorageFails`. `saved` has every path that was ever stored in a row; which
investments, items and orders there are is not followed, so a row that is looked
for may or may not be found. The names in one folder never begin with one another
(they are generated), so that `limit: 1` beside `search` hides nothing. A
transaction that has expired has given its connection back while the handler still
waits; its next statement fails. Founders, whom the gate always lets through, are
left out, and `trialEndsAt` is set, as the schema's constraint demands of a trial.

## 3. Runs

| Run | Shows |
|---|---|
| `orders_concurrent` | two requests on one order, amounts of less than half a paisa, one and two paise, every outcome of the doubles, every interleaving: `LabelsAgree`, `UneditedBalance`, `UneditedLedgerCovers`, `SettledOnceDrained`, `CurrentIsAtomic` |
| `sessions_all` | two tokens, two requests, clock to 4 past a grace window of 1 and a lifetime of 3 |
| `webhooks_all` | three events, two of them one charge under two ids; two deliveries at a time; one trouble; checkouts that are rolled back or replace the subscription; `Webhooks` implements `WebhookBook` (`BookSpec`), and an event the provider keeps delivering, of a subscription that stays the baker's, is applied (`EventuallyApplied`) |
| `subscriptions_all` | two bakers, one of them not counted, a threshold of 1, two subscriptions, two handlers; safety, and under fairness that checkouts end |
| `signin_all` | four codes, two requests, limits of 2 per hour of 2 and 2 attempts, a code that lives 1, clock to 2: `GuessesBounded`, `SendsBounded`, `OpensOverlapOnly` |
| `customers_all` | two customers, two orders, two phones, two transactions: `NoOrderLost`, `NoOrphan`, `SavedUnderItsPhone` |
| `menu_all` | two bakers with one name, room for two items, two links, two requests: `LinkIsFinal`, `ItemsArePublished`, `ReorderStands` |
| `reports_all` | two orders and an expense on days around the end of February 2028 and the new year, three starts of the clock: `ViewsAgree`, `UpcomingIsNearest`; the orders tie |
| `assets_all` | two requests, two connections, a file, the folder it is in and a receipt image, two attempts, a trial that ends; `VerdictsHold`, `PaywalledWritesNothing`, and under fairness `RequestsEnd` |
| `orders_lostpayment` | `LedgerIsExact`, violated once two payments overlap, in whole paise |
| `orders_unsettled` | one request at a time, whole paise: `PaidWhenCovered`, violated when a sum of doubles comes out next to the price |
| `subscriptions_untracked` | a checkout taken for abandoned and replaced is authorised: a live mandate no baker's row names |

The three runs that are expected to be violated each check one statement of a
comment; `findings` quotes it. `orders_unsettled` is the program's `0.7 + 0.1`: on
an order of 0.80, payments of 0.70 and 0.10 make 0.7999999999999999, the row says
0.80 paid and 0.00 due and 'Partially Paid', and since nothing is due no further
payment can set that right. The other way round, 0.10 + 0.20 is more than 0.30 to
`derivePaymentState`, and what is still due cannot be paid in one sum: it is
refused as exceeding the price (`StartPayment`, the guard on `paid`).

Further disagreements. The following definitions are in the modules, state what
a comment or a document says, and are violated; each has a counterexample of a
few steps, found by putting it into the run's configuration instead of the
properties there:

| Definition | Run | What the code does | What is said |
|---|---|---|---|
| `TerminalIsFinal` (Orders) | `orders_concurrent` | a status decided from an unlocked read overwrites Delivered or Cancelled (orders.service.ts 322, 398, 554) | status-validation.service.ts 18: "terminal and immutable" |
| `BalanceIsDue` (Orders) | `orders_concurrent` | `recordPayment` writes a balance computed from the price before an edit (402) | schema.prisma 251: "total_price - advance_paid" |
| `ReuseForcesSignIn` (Sessions) | `sessions_all` | a token reuse detection has revoked less than 60 s ago is exchanged (auth.service.ts 369) | auth.service.ts 88: "every device is forced to re-authenticate" |
| `OneRowPerEvent` (Webhooks) | `webhooks_all` | two overlapping deliveries of an event without a payment both write history (webhooks.service.ts 128) | ARCHITECTURE_DECISIONS.md 116: "This prevents duplicate processing" |
| `RetryIsSafe` (Webhooks) | `webhooks_all` | a retry that overlapped the first delivery puts its status over a newer one (97) | ARCHITECTURE_DECISIONS.md 115: "safe to retry" |
| `SingleUse` (SignIn) | `signin_all` | two verifications of one code that overlap both open a session (otp.service.ts 162) | AUTH_MIGRATION.md 119: "Single-use OTP" |

`TerminalIsFinal`, `BalanceIsDue` and `LedgerIsExact` hold in the configuration of
`orders_unsettled`, where requests on one order do not overlap, and so does `SingleUse`
with one request; both are proved (section 4). `OneRowPerEvent` does not: with
`Deliveries = {d1}` a 200 that gets lost, a second delivery that breaks at its first
read, and whose catch block writes FAILED over SUCCESS (196), and a third write a
second row.

Also met while modelling, without a definition of their own: editing a
force-confirmed order without an advance puts it back to Pending
(orders.service.ts 545); a token revoked by a logout less than 60 s ago is
exchanged too (auth.service.ts 369); a failing delivery marks FAILED what its twin
applied (webhooks.service.ts 196); the "deliberately narrow" count lock is held
through the provider call (billing.service.ts 219); editing an order without
naming a phone sets its customer's phone to null (orders.service.ts 527), and an
edit that read the customer before it had a phone can merge that customer away
after it got one (493); two overlapping edits of one anonymous order leave a
customer without orders (`strayed`); the analytics count Pending orders into the
revenue and the dashboard does not (dashboard.service.ts 202), so the comment at
analytics.service.ts 34-36, that the numbers always match the dashboard's, is
wrong whenever something is Pending, and `ViewsAgree` does not claim it: it says of
each what it adds up; the orders' and the customer's lists sort by delivery date
and creation time, and of two rows that tie in both pages may show one twice and
the other never (`ListsAgree` is about the rows that do not tie); a path that names
a folder of the bucket passes for a file (supabase.storage.ts 87 compares names
alone), although storage-provider.interface.ts promises "True if the object exists",
and a path that was never issued to the baker is taken, too; the lock of a checkout
does not block "until the first call's entire operation, including its Razorpay
round-trip, has committed" (billing.service.ts 141-146) once that round-trip takes
longer than the 15 s of the transaction; the customers' list is sorted by name last
(customers.service.ts 35 calls it a stable tie-break), which need not be unique,
from a query without an order, so paging may repeat or skip one; a reorder may
name an item twice and pass (menu-items.service.ts 173 compares sets, its message
says no duplicates); the dashboard's upcoming month can come with an empty list
when its only order is moved between the two queries; `LPAD(..., 4)` in the
triggers of the display ids cuts off numbers beyond 9999. A stray webhook is
visible in `subscriptions_all`, whose `OneOpenCheckout` and `UnstrayedIsAuthorised`
exempt it by name.

Bounds. The amounts are 2, 5 and 10 grains with 5 to the paisa: nothing, one and
two paise once stored, which give an unpaid, a partly paid and a fully paid order,
an edit to a lower price, and amounts that vanish in the rounding; `MaxCollected`
bounds the ledger. One
order is enough because no action relates two orders. Two requests are enough for
every lost update: what a third could do between the read and the write of one,
the second can do by running several times. In `Sessions` the clock runs past
`Lifetime`, so that expiry, the grace window and reuse after it all happen. In
`Webhooks` `MaxTrouble` bounds broken transactions, lost answers and crashes
together.
`MaxEvents` bounds the events on their way at once in `Subscriptions`, and
`Supply` keeps a subscription in stock for every checkout that has started. With
two subscriptions each baker can have one, or one baker two: the second checkout
after an abandoned one. In `SignIn` the limits are 2 where the code has 5, since
what the properties bound is the overshoot, which two requests in flight produce
in full; the clock runs past the cooldown, the life of a code and to the end of
the hour. In `Customers` one customer can have both orders, so that a clean-up
finds one left while the other request moves it, or finds none while the other
request is inserting one (the theorems are for any number of orders), and two
phones let a customer be found, merged into and renumbered; ids are never used again, so two customers bound what can be inserted.
In `Menu` two candidates per search and two tries make both loops run out; one
baker has room for two items, which a reorder needs; the other has none and is
there to take the link. In `Reports` the starts are half an hour before midnight in India, on the last
day of a leap February and of the year, and at five in the morning of 1 March, when
it is still February in UTC; `MaxTicks` lets the clock cross the month's end in India
or in UTC. In `Assets` the client can name the file and its folder, and nobody names
the receipt image, whose part is that the bucket is not filled by signed URLs alone;
`VerdictsCorrect` is for any paths and folders. As many connections as requests is the tightest pool
in which all of them can be inside a transaction, each waiting for one more.

Deadlock is checked in `signin_all`, `customers_all`, `menu_all`, `reports_all`
and `assets_all`, where a request can always begin. It is not checked in the
others, which stop by design, when the orders are settled, the clock has reached
its bound or the provider has nothing left to send.

Fairness. Safety runs assume none. `webhooks_all` assumes weak fairness of a
running handler's next step: Node.js runs on unless the process dies, which is
`Crash`. Nothing is assumed of the provider, whose retries are bounded, nor of the
checkouts, which may be rolled back or replaced. What the program then owes is a
conditional, and that is what `EventuallyApplied` states: *if* the provider does not
give up on an event (`KeepsDelivering`) and the row comes to carry the subscription
and keeps it (`<>[]Linked`), the event is applied. Without the first premise an event
can be dropped, without the second no attempt ever finds the baker.
`subscriptions_all` assumes weak fairness of what ends a transaction, the answer of
the provider or the 15 s, whichever is first (`CallProvider`, `Expire`,
`CommitCreate`), and strong fairness of taking the count lock, since PostgreSQL
queues those who wait for it; that the provider ever answers is not assumed, and
`CheckoutsEnd` is about the transaction, not about a handler that waits for it.
`assets_all` assumes weak fairness of a handler that can go on or whose transaction
can expire (15 s, shared/database/prisma.ts 27): no fairness is assumed of the
bucket's answers being any good, of a free connection or of the pool.

Mutated forms. Next to a definition stands the form a plausible bug would give it
(`ClaimUnconditional` drops `revokedAt: null` from the update, `CreateUnlogged`
forgets the ledger entry, and so on). They are no part of any specification;
`PROJECT.json` pairs each with the property it breaks, so that every property is
known to be able to fail.

## 4. Proofs

For every number of orders, requests, tokens and every bound:

* `OrdersProofs`: `TypeCorrect`, `LabelsCorrect`, `BalanceCorrect`,
  `LedgerCorrect`, `SettledCorrect`, `CurrentCorrect` and, of one request at a time,
  `SerialRefinement`, `SerialBooks` and `SerialTerminal`, for any amounts and any
  number of grains to the paisa above 4 (two rounding errors make less than half a
  paisa, `PaisaAssumption`; doubles do as long as an amount fits its column), and
  whichever neighbour a sum comes out as. The properties are not
  inductive: what a commit writes was decided at the read. `IInv` adds what a
  request in flight plans to write (`Planned`: columns that agree with each other,
  because they come from `PricedRow` of a row that was open) and how far its read
  can lag behind (`Fresh`: until an edit the price it saw is the price, and the
  advance it saw is covered by the ledger, which only grows). `LabelsCorrect` is what
  the doubles leave of the labels: 'Paid' has nothing due and 'Unpaid' no advance,
  not the other way round (`PaidWhenCovered`). `CurrentCorrect` is the refinement
  request by request: one whose read is still current when it ends is a step of the
  order book, whatever else is in flight. `SerialRefinement` assumes that there is a
  single request, strengthens with `SeenIsCurrent` (then what it saw is still there),
  and so has every step current.
  `SerialBooks` is what `orders_lostpayment` shows to need the assumption: the row
  says what the ledger holds (`LedgerIsExact`) and the balance is what is due
  (`BalanceIsDue`), by `Balanced`, which a payment preserves because its read is
  current. `SerialTerminal` is `SettledCorrect` where no read is stale.
  The assumptions on the constants are `AmountsAssumption`, `PaisaAssumption` and
  `BoundsAssumption`.
* `SessionsProofs`: `TypeCorrect`, `RotationCorrect`, `DoomedCorrect`,
  `RevocationCorrect`, `RacesSpareOthers`. `IInv` says of each place a request has
  reached what it knows of its token (`Carries`), and that a doomed request is
  held back (`HeldBack`). The key is that `Late` is for ever: a revocation never
  moves and the clock only advances, so a decision taken on it stays right while
  the request goes on. The assumption is `SessionAssumption`.

* `BillingProofs`, of `Webhooks`: `WebhooksTypeCorrect`, `ChargedCorrect`,
  `BackedCorrect`, `AnsweredCorrect` and the refinement `PromiseKept`. `ChargedOnce` and `SuccessIsBacked` carry
  themselves, because the search for a duplicate, the insert and the mark are one
  step under the row lock; `AnsweredIsApplied` needs `DeliveryInv`, what a delivery
  at each place knows of its event. The key is that the history only grows, so what
  is `Covered` stays covered while a delivery waits to be answered. `MoveInv`,
  `EndInv` and `DeliveriesStay` say once what the moves of a delivery share.
  `PromiseKept` maps the commit to `TakeEffect` and the 200 to `Answer` and everything
  else to a stutter or to `Checkout`; a delivery about to write must know that its
  baker carries the subscription's id or has carried it (`BakerFound`). `AnsweredIsApplied` follows from it as from the invariant.
  The assumption is `EventsAssumption`.

* `SignInProofs`: `TypeCorrect`, `GuessesCorrect`, `SendsCorrect`, `OpensCorrect`
  and, where requests do not overlap, `SerialSingleUse`,
  for any limits, lifetimes and number of requests. Each is an argument by
  counting, and none is inductive alone: a request that has passed a limit and has
  not written yet counts as well. `GuessesBounded` and `OpensOverlapOnly` carry such
  requests in their statements (`Guessing`, `Holding`). `SendsBounded` does not:
  `WindowInv` adds to the rows of a window the requests that are past the limit
  and arrived early enough to put a row into it (`Bound`). `Carries` says that what
  a request has found exists, and is consumed by the time it opens anything. The
  assumption is `SignInAssumption`; `Cooldown <= Hour` is the code's 60 s and 3600 s.
* `BillingProofs`, of `Subscriptions`: `TypeCorrect`, `CreatesAlone`, `PriceCorrect`,
  `CheckoutCorrect`, `ActiveCorrect`, for any bakers, plans counted, threshold and
  webhooks. The key is the advisory lock of the baker: `CreatingInv` says that who
  is between the guard and the commit holds it, that no open checkout of the baker
  is left while it does, and that the mandate it was given at the provider is its
  own until it is offered. `RowInv` is what a row knows of the mandate it tracks,
  `Told` that a webhook only tells what the provider had done. `CreatesAlone` is
  the lock's own promise: one transaction of `createSubscription` per baker at a time.
  It does not say that the provider is called by one at a time, which is not so after
  a timeout; that a late call does no harm to the rows is in `CheckoutCorrect` and
  `PriceCorrect`, since what it creates is never offered. The global
  lock is needed by none of the four: it orders the count, which no property bounds.
  `LocksCorrect` is about both: they are held by exactly those between taking and
  committing (`HeldBy`), so whoever holds the global one waits for no lock and no
  handler leaves a lock behind. It is the safety half of `CheckoutsEnd`.
* `AssetsProofs`: `TypeCorrect`, `VerdictsCorrect`, `PaywallCorrect` and `OneAnswer`,
  for any paths a client names, any folders, and a bucket the server writes to as
  well. A saved path need not be an object: `VerdictsHold` says that it is one or a
  folder that holds one.
  `Carries` says what a request at each place knows of its path (looked for before
  anything is made of it; objects are never removed, so what was there on arrival
  stays) and that who is past the gate was welcome. `OneAnswer`: the gate compares
  instants, the app shows days rounded up, and they turn at the same moment for
  every length of a day and every end of the trial.
* `MenuProofs`: `TypeCorrect`, `ItemsCorrect`, `LinkCorrect`, `ReorderCorrect`, for
  any bakers and names and any number of attempts and items. `LinkInv` has the
  unique key and that a menu with items, or a spent edit, has a link, which in turn
  needs that whoever is about to append has seen to a link and that links are never
  taken back (`Carries`). `OrderInv` says where a reorder has left each item it
  named: at its last place in the list, if it is still there. That new items go
  behind those needs a maximum to exist, and that `GetMenuItems` lists anything
  needs a sorted sequence to exist for all positions; both are proved by taking a
  smallest set for which they fail (`Smallest`, `Peak`, `Sortable`).
* `CustomersProofs`: `TypeCorrect`, `OrdersKept`, `OrphansCorrect`, `PhoneCorrect`
  and `ReferencesHold`, for any customers, orders, phones and transactions at once.
  `IInv` is the row locks at work. `Shape` is what a transaction at each statement
  can have resolved, written and locked; `Holds` that what it has read and written
  is there; `Phoned` that its customer has the phone it names, or will at the commit,
  or, if that phone was only read, was renumbered by somebody else (a row it has
  updated itself it has locked: an update in place has no such excuse, nor has
  `updateCustomer` where it writes the phone); `Counted` that what a merge counted stays so
  until it commits; `Apart` that two transactions save different orders and that
  nobody is about to attach an order to a customer who is locked for the clean-up.
  A deletion finds nothing to cascade to because the count came after the lock
  (`GonerHasNothing`), and an order that a transaction moves away from a customer
  was that customer's when it was read, unless it has `strayed` (`CommitLeaves`).
  `Referenced`, which no run checks alone, is part of `IInv`. The assumption only
  tells the markers for missing rows apart.
* `ReportsProofs`: `ReportsTypeCorrect`, `UpcomingCorrect` and `ViewsCorrect`, for
  any orders, customers, expenses and amounts, any clock from 1970 on and
  any saves between the queries; orders may be created at one instant, and tie. The
  lists are leafed through in pages of one and of two (`ListsAgree`). There are two kinds of argument.

  `UpcomingIsNearest` needs an invariant of the dashboard, `IInv`: what its queries
  have found so far (`TodayListed`, `SearchGoesOn`, `MonthFound`, `UpcomingListed`)
  was right when they ran, and a row nobody has saved since is still so. With it goes
  that the wall clock is right (`Shows`), which is the calendar's own theorem: a civil
  date names one day (`CivilUnique`), the almanac's next day is the next number
  (`DayAfter`), so `Tick` turns the wall clock at midnight in India, over month ends,
  years and leap years (`WallTurns`). From there a month's bounds in UTC dates are
  the days of that month (`BoundsAreTheMonth`), and months do not overlap
  (`MonthsGrow`).

  `ViewsAgree` holds of every state that satisfies `IInv`. `MonthCorrect`: the
  calendar's cells, the months overview, the dashboard and the analytics count and
  add up the same month. `ListsCorrect`: the whole list holds each order once, and whichever answer the
  database gives to each page, an order that ties with no other is on one and the
  same page of all (`PageSpec`; its place is settled by how many come before it), and a customer's row is the sum of
  the customer's history (`RowAndHistory`). Both rest on facts about data of any size
  for which no induction rule can be used: that a sum over a finite set exists, is
  one, and adds up over parts (`SumExists`, `SumUnique`, `SumAdds`,
  `TotalOfUnion`), and that a finite set of rows has a sequence in ORDER BY's order
  (`SortingExists`). Each is proved by taking a smallest set for which it fails
  (`Smallest`). `ReportsAssumption` asks that the starts of the clock show the right
  date and that the markers `NoMonth` and `Absent` are neither a month nor a number.

What the attempts have found about the models. In `Assets.FirstStep` and in
`Customers.Commit` a `CASE` had guards that overlap, so that nothing could be
proved of its value: TLC takes the first branch, the language does not say. Both
now choose in order, as the code does. `Menu.GetMenuItems` was `SortSeq`, which the
prover has no definition of; it is now the sequence of the items in which each is
before the next by position and age, and the lists of `Reports` are those in which
none is before an earlier one (`Orderings`).
Its starts of the clock had been pairs nothing tied together: that the wall clock
is right has become a part of `ReportsAssumption`, which TLC evaluates on the
starts chosen. `IInv` of each module was checked by TLC on
its run's configuration before it was proved.

Only model-checked: liveness (`RequestsEnd`, `CheckoutsEnd`, `EventuallyApplied`),
which is out of the prover's reach, as is ENABLED. Every other property of a passing
run is stated by a theorem.

## 5. Plan

Done: all components that keep state are modelled, and every invariant and action
property of the runs is proved. Left for proofs:

1. An abstract specification of what the sessions promise, and that it is
   implemented, as it is for the orders and the webhooks.
2. A serial form of the menus, where a link and an order of items are set at once,
   as the order book is for the orders.

## 6. Not modelled

* The picture on a receipt, and the signed URLs files are read by. Its upload and
  its audit record are in `Assets`.
* Which investments, items and orders exist beside `Assets`: whether one is found is
  left open there.
* Rounding of the sums in reports: they are added as exact numbers, where the code
  adds doubles of decimals and shows them as they come.
* Notifications and support: text and links; no state but the audit record, whose
  way through the pool is that of `Assets`.
* Request schemas, routes, wiring, error mapping, logging, configuration, and the
  cache, which does nothing. What the schemas let through is taken into account
  where inputs are chosen.
* Seeds, migration scripts and the import of historical orders: run by hand, not
  by the service.
* The reads of a single row (`getOrderDetails`, the profile, the settings), which
  return it as it is.
* Signatures: of webhooks, of the sessions' tokens and of Google's tokens.
* The content of audit records, and that they survive a transaction that rolls
  back: nothing reads them.
