------------------------------ MODULE Customers ------------------------------
(***************************************************************************)
(* The customers of one baker and the orders that point at them: the       *)
(* customer side of createOrder and updateOrder, and updateCustomer.       *)
(*                                                                         *)
(* createOrder and updateOrder are interactive transactions under READ     *)
(* COMMITTED: a statement sees what is committed when it starts, writes    *)
(* take row locks that are held to the commit, and the unique key, the     *)
(* foreign key with its ON DELETE CASCADE and the per-baker counters of    *)
(* the display ids make statements wait or fail.  All of that is part of   *)
(* the steps below; a deadlock the database breaks, a timeout and any      *)
(* other failure are Abort.  Of a customer's columns only the phone        *)
(* matters here; the order's money is in the module Orders.                *)
(***************************************************************************)
EXTENDS FiniteSets

CONSTANTS
  Customers,   \* customer ids (never used twice)
  Orders,      \* order ids
  Phones,      \* phone numbers
  Requests,    \* requests that can be in flight at the same time
  NoPhone,     \* phone IS NULL
  NoOne,       \* customer_id IS NULL, or no customer
  Absent,      \* an id no row has had yet
  Deleted      \* an id whose row is gone

ASSUME CustomersAssumption ==
  /\ {NoPhone, Absent, Deleted} \cap Phones = {}
  /\ {NoOne, Absent, Deleted} \cap Customers = {}
  /\ Cardinality({NoPhone, Absent, Deleted}) = 3
  /\ Cardinality({NoOne, Absent, Deleted}) = 3

VARIABLES
  phone,     \* phone[c]: the committed column, Absent or Deleted
  holder,    \* holder[o]: the committed customer_id, Absent or Deleted
  txn,       \* txn[r]: where request r is
  strayed    \* history: customers that lost an order to an edit that had
             \* read the order before it was theirs

vars == <<phone, holder, txn, strayed>>

(***************************************************************************)
(* A request in flight: its next statement; the order and the phone it     *)
(* names; the customer it has read or resolved, and that customer's phone  *)
(* as read; what it has written to that customer's row; the customer to be *)
(* cleaned up, the lock taken for that, and whether it is to be deleted;   *)
(* the customer the order had when it was read; and (history) customers    *)
(* that others have given another phone since the request began.           *)
(***************************************************************************)
Idle == [op |-> "idle"]

Transaction ==
  [op : {"create", "edit", "patch"},
   at : {"find", "touch", "insert", "match", "update", "attach", "lock",
         "count", "commit", "vet", "patch"},
   order : Orders \cup {NoOne}, phone : Phones \cup {NoPhone},
   cust : Customers \cup {NoOne}, seen : Phones \cup {NoPhone},
   wrote : {"nothing", "row", "phone", "new"},
   orphan : Customers \cup {NoOne}, locks : SUBSET Customers,
   remove : {"no", "yes"}, from : Customers \cup {NoOne},
   moved : SUBSET Customers]

TypeOK ==
  /\ phone \in [Customers -> Phones \cup {NoPhone, Absent, Deleted}]
  /\ holder \in [Orders -> Customers \cup {NoOne, Absent, Deleted}]
  /\ txn \in [Requests -> Transaction \cup {Idle}]
  /\ strayed \subseteq Customers

Init ==
  /\ phone = [c \in Customers |-> Absent]
  /\ holder = [o \in Orders |-> Absent]
  /\ txn = [r \in Requests |-> Idle]
  /\ strayed = {}

Present == {c \in Customers : phone[c] \notin {Absent, Deleted}}
Placed == {o \in Orders : holder[o] \notin {Absent, Deleted}}
OrdersOf(c) == {o \in Orders : holder[o] = c}
Owner(p) == {c \in Present : phone[c] = p}

At(r, place) == txn[r] # Idle /\ txn[r].at = place

Begin(r, op, place, o, p, c, seen) ==
  /\ txn[r] = Idle
  /\ txn' = [txn EXCEPT ![r] =
       [op |-> op, at |-> place, order |-> o, phone |-> p, cust |-> c,
        seen |-> seen, wrote |-> "nothing", orphan |-> NoOne, locks |-> {},
        remove |-> "no", from |-> c, moved |-> {}]]
  /\ UNCHANGED <<phone, holder, strayed>>

Go(r, place) == txn' = [txn EXCEPT ![r].at = place]
Resolve(r, place, c) == txn' = [txn EXCEPT ![r].at = place, ![r].cust = c]

Abort(r) ==
  /\ txn[r] # Idle
  /\ txn' = [txn EXCEPT ![r] = Idle]
  /\ UNCHANGED <<phone, holder, strayed>>

-----------------------------------------------------------------------------
(***************************************************************************)
(* Row locks held by the other requests, told from what they have done.    *)
(* An UPDATE of the phone and SELECT ... FOR UPDATE exclude every other    *)
(* lock on the row; an UPDATE of other columns excludes all but the share  *)
(* lock a foreign key takes on the row it refers to.                       *)
(***************************************************************************)
Active(r) == {q \in Requests \ {r} : txn[q] # Idle}

Attached(q) == txn[q].at \in {"lock", "count", "commit"}

Exclusive(q, c) == c \in txn[q].locks \/ (txn[q].wrote = "phone" /\ txn[q].cust = c)
Updated(q, c) == Exclusive(q, c) \/ (txn[q].wrote = "row" /\ txn[q].cust = c)
Refers(q, c) ==
  Attached(q) /\ txn[q].cust = c /\ holder[txn[q].order] # c

FreeOfUpdates(r, c) == \A q \in Active(r) : ~Updated(q, c)
FreeOfExclusive(r, c) == \A q \in Active(r) : ~Exclusive(q, c)
FreeOfAll(r, c) == \A q \in Active(r) : ~Updated(q, c) /\ ~Refers(q, c)

\* The unique key makes a writer of phone p wait for an uncommitted change
\* that brings p in or takes it away.
Settled(r, p) ==
  \A q \in Active(r) :
    txn[q].wrote \in {"phone", "new"} =>
      txn[q].phone # p /\ phone[txn[q].cust] # p

-----------------------------------------------------------------------------
(***************************************************************************)
(* createOrder, updateOrder: the first read.  A sale without name and      *)
(* phone has no customer.                                                  *)
(***************************************************************************)
CreateOrder(r) ==
  \E o \in Orders, p \in Phones \cup {NoPhone} :
    /\ holder[o] = Absent
    /\ \A q \in Active(r) : txn[q].order # o
    /\ \/ Begin(r, "create", "find", o, p, NoOne, NoPhone)
       \/ p = NoPhone /\ Begin(r, "create", "attach", o, p, NoOne, NoPhone)

UpdateOrder(r) ==
  \E o \in Placed, p \in Phones \cup {NoPhone} :
    IF holder[o] = NoOne
      THEN Begin(r, "edit", "find", o, p, NoOne, NoPhone)
      ELSE Begin(r, "edit", "match", o, p, holder[o], phone[holder[o]])

(***************************************************************************)
(* upsertCustomer: find by phone, then update that row or insert one.      *)
(***************************************************************************)
\* Mutated form: the phone is taken for the id.
FindByPhoneSwapped(r) ==
  /\ At(r, "find")
  /\ IF Owner(txn[r].phone) = {} THEN Go(r, "insert")
                                ELSE Resolve(r, "touch", txn[r].phone)
  /\ UNCHANGED <<phone, holder, strayed>>

FindByPhone(r) ==
  /\ At(r, "find")
  /\ \/ \E c \in Owner(txn[r].phone) : Resolve(r, "touch", c)
     \/ Owner(txn[r].phone) = {} /\ Go(r, "insert")
     \/ txn[r].phone = NoPhone /\ Go(r, "insert")
  /\ UNCHANGED <<phone, holder, strayed>>

UpdateFound(r) ==
  /\ At(r, "touch")
  /\ txn[r].cust \in Present
  /\ FreeOfUpdates(r, txn[r].cust)
  /\ txn' = [txn EXCEPT ![r].at = "attach", ![r].wrote = "row"]
  /\ UNCHANGED <<phone, holder, strayed>>

\* The counter row of the display ids lets one uncommitted insert through;
\* a phone somebody has taken meanwhile makes the insert fail.
InsertCustomer(r) ==
  /\ At(r, "insert")
  /\ \A q \in Active(r) : txn[q].wrote # "new"
  /\ txn[r].phone # NoPhone => Owner(txn[r].phone) = {} /\ Settled(r, txn[r].phone)
  /\ \E c \in Customers :
       /\ phone[c] = Absent
       /\ txn' = [txn EXCEPT ![r].at = "attach", ![r].cust = c, ![r].wrote = "new"]
  /\ UNCHANGED <<phone, holder, strayed>>

-----------------------------------------------------------------------------
(***************************************************************************)
(* updateOrder on an order that has a customer.                            *)
(***************************************************************************)
\* The phone in the payload belongs to somebody else, as of this statement.
Others(r) == IF txn[r].phone = NoPhone \/ txn[r].phone = txn[r].seen THEN {}
             ELSE Owner(txn[r].phone) \ {txn[r].cust}

\* Filling in a missing phone merges; replacing one by another's is refused.
Merges(r) == Others(r) # {} /\ txn[r].seen = NoPhone

Match(r) ==
  /\ At(r, "match")
  /\ \/ /\ Merges(r)
        /\ \E c \in Others(r) :
             txn' = [txn EXCEPT ![r].at = "attach", ![r].cust = c,
                                ![r].orphan = txn[r].cust, ![r].seen = NoPhone]
     \/ /\ Others(r) = {}
        /\ txn' = [txn EXCEPT ![r].at = "update", ![r].seen = NoPhone]
  /\ UNCHANGED <<phone, holder, strayed>>

\* Mutated form: the phone is not among the columns updated.
UpdateInPlaceUnphoned(r) ==
  /\ At(r, "update")
  /\ txn[r].cust \in Present
  /\ FreeOfUpdates(r, txn[r].cust)
  /\ txn' = [txn EXCEPT ![r].at = "attach", ![r].wrote = "row"]
  /\ UNCHANGED <<phone, holder, strayed>>

UpdateInPlace(r) ==
  /\ At(r, "update")
  /\ LET c == txn[r].cust
         p == txn[r].phone IN
       /\ c \in Present
       /\ IF phone[c] = p
            THEN /\ FreeOfUpdates(r, c)
                 /\ txn' = [txn EXCEPT ![r].at = "attach", ![r].wrote = "row"]
            ELSE /\ FreeOfAll(r, c)
                 /\ p # NoPhone => Owner(p) = {} /\ Settled(r, p)
                 /\ txn' = [txn EXCEPT ![r].at = "attach", ![r].wrote = "phone"]
  /\ UNCHANGED <<phone, holder, strayed>>

-----------------------------------------------------------------------------
(***************************************************************************)
(* The order row.  Inserting one takes the counter of the order numbers;   *)
(* updating one takes its lock.  A new customer_id is checked against the  *)
(* customer's row, which must be there, and locks it for share.            *)
(***************************************************************************)
AttachOrder(r) ==
  /\ At(r, "attach")
  /\ LET o == txn[r].order
         c == txn[r].cust IN
       /\ IF txn[r].op = "create"
            THEN \A q \in Active(r) : ~(Attached(q) /\ txn[q].op = "create")
            ELSE /\ o \in Placed
                 /\ \A q \in Active(r) : ~(Attached(q) /\ txn[q].order = o)
       /\ c \in {NoOne, holder[o]} \/ txn[r].wrote = "new"
            \/ (c \in Present /\ FreeOfExclusive(r, c))
       /\ Go(r, IF txn[r].orphan = NoOne THEN "commit" ELSE "lock")
  /\ UNCHANGED <<phone, holder, strayed>>

(***************************************************************************)
(* The clean-up after a merge: lock the customer that was left, count what *)
(* still points at it (this order no longer does), delete it if nothing.   *)
(***************************************************************************)
\* Mutated form: the row is not locked.
LockOrphanNot(r) ==
  /\ At(r, "lock")
  /\ Go(r, "count")
  /\ UNCHANGED <<phone, holder, strayed>>

LockOrphan(r) ==
  /\ At(r, "lock")
  /\ FreeOfAll(r, txn[r].orphan)
  /\ txn' = [txn EXCEPT ![r].at = "count", ![r].locks = {txn[r].orphan}]
  /\ UNCHANGED <<phone, holder, strayed>>

\* Deleting a row that is gone fails, so it must be there.
CountRemaining(r) ==
  /\ At(r, "count")
  /\ LET c == txn[r].orphan IN
       IF OrdersOf(c) \ {txn[r].order} = {}
         THEN /\ c \in Present
              /\ txn' = [txn EXCEPT ![r].at = "commit", ![r].remove = "yes"]
         ELSE Go(r, "commit")
  /\ UNCHANGED <<phone, holder, strayed>>

-----------------------------------------------------------------------------
\* r ends; the others have, from here on, missed a change of c's phone.
Noticed(r, c) ==
  [q \in Requests |->
     IF q = r \/ txn[q] = Idle THEN Idle
     ELSE [txn[q] EXCEPT !.moved = @ \cup {c}]]

Ended(r) == [txn EXCEPT ![r] = Idle]

(***************************************************************************)
(* The commit makes everything visible at once; the deletion cascades to   *)
(* every order that points at the customer by then.                        *)
(***************************************************************************)
Commit(r) ==
  /\ At(r, "commit")
  /\ LET t == txn[r]
         gone == IF t.remove = "yes" THEN t.orphan ELSE NoOne
         old == holder[t.order] IN
       /\ gone # NoOne => FreeOfAll(r, gone)
       /\ phone' = [c \in Customers |->
            IF c = gone THEN Deleted
            ELSE IF c = t.cust /\ t.wrote \in {"new", "phone"} THEN t.phone
            ELSE phone[c]]
       /\ holder' = [o \in Orders |->
            IF o = t.order THEN t.cust
            ELSE IF gone # NoOne /\ holder[o] = gone THEN Deleted
            ELSE holder[o]]
       /\ strayed' = IF old \in Customers \ {t.from, t.cust}
                       THEN strayed \cup {old} ELSE strayed
       /\ txn' = IF t.wrote = "phone" THEN Noticed(r, t.cust)
                 ELSE IF gone # NoOne THEN Noticed(r, gone) ELSE Ended(r)

-----------------------------------------------------------------------------
(***************************************************************************)
(* updateCustomer: two reads outside any transaction, then one update of   *)
(* the columns that differed from what was read.  (A request that neither  *)
(* names a phone nor takes one away does nothing that matters here.)       *)
(***************************************************************************)
UpdateCustomer(r) ==
  \E c \in Present, p \in Phones \cup {NoPhone} :
    /\ {p, phone[c]} # {NoPhone}
    /\ Begin(r, "patch", IF p \in {NoPhone, phone[c]} THEN "patch" ELSE "vet",
             NoOne, p, c, phone[c])

VetPhone(r) ==
  /\ At(r, "vet")
  /\ Owner(txn[r].phone) \ {txn[r].cust} = {}
  /\ Go(r, "patch")
  /\ UNCHANGED <<phone, holder, strayed>>

\* A phone that was the same when it was read is not written, whatever it is now.
PatchCustomer(r) ==
  /\ At(r, "patch")
  /\ LET c == txn[r].cust
         p == IF txn[r].phone = txn[r].seen THEN phone[c] ELSE txn[r].phone IN
       /\ c \in Present
       /\ IF p = phone[c]
            THEN /\ FreeOfUpdates(r, c)
                 /\ txn' = Ended(r)
            ELSE /\ FreeOfAll(r, c)
                 /\ p # NoPhone => Owner(p) = {} /\ Settled(r, p)
                 /\ txn' = Noticed(r, c)
       /\ phone' = [phone EXCEPT ![c] = p]
  /\ UNCHANGED <<holder, strayed>>

-----------------------------------------------------------------------------
Step(r) ==
  \/ CreateOrder(r) \/ UpdateOrder(r) \/ UpdateCustomer(r)
  \/ FindByPhone(r) \/ UpdateFound(r) \/ InsertCustomer(r)
  \/ Match(r) \/ UpdateInPlace(r) \/ AttachOrder(r)
  \/ LockOrphan(r) \/ CountRemaining(r) \/ Commit(r)
  \/ VetPhone(r) \/ PatchCustomer(r) \/ Abort(r)

Next == \E r \in Requests : Step(r)

Spec == Init /\ [][Next]_vars

-----------------------------------------------------------------------------
(***************************************************************************)
(* Properties.                                                             *)
(***************************************************************************)
\* Order.customer cascades (schema.prisma 233), so a merge that deletes the
\* customer it has left behind could take orders with it that were attached
\* while it counted (orders.service.ts 591-596).  It never does: an order that
\* was saved is there for good.
NoOrderLost ==
  [][\A o \in Orders : o \in Placed => holder'[o] \notin {Absent, Deleted}]_vars

\* A customer row always has an order.  Rows come with one, and two merges
\* that take the last two orders away at once do not both leave the clean-up
\* to the other; only an edit that had read the order before it belonged to
\* the customer (strayed) can leave one empty-handed.
NoOrphan == \A c \in Present \ strayed : OrdersOf(c) # {}

\* What a save that names a phone takes from the customer's row as it read it,
\* and does not write: the customer found, or merged into, by that phone; a
\* phone updateCustomer was given that the row had already.
OnlyRead(r) == IF txn[r].op = "patch" THEN txn[r].phone = txn[r].seen
               ELSE txn[r].cust # txn[r].from

\* When a save that names a phone commits, the customer it names has that
\* phone, and its order that customer: found, created, updated in place, merged
\* into or patched, whoever else saves at the same time.  Only a phone the save
\* had found there may have been changed by another save in the meantime.
SavedUnderItsPhone ==
  [][\A r \in Requests :
       (Commit(r) \/ PatchCustomer(r)) /\ txn[r].phone # NoPhone =>
         LET c == txn[r].cust IN
           /\ txn[r].op # "patch" => holder'[txn[r].order] = c
           /\ phone'[c] = txn[r].phone \/ (OnlyRead(r) /\ c \in txn[r].moved)]_vars

-----------------------------------------------------------------------------
(***************************************************************************)
(* The inductive invariant behind them.                                    *)
(***************************************************************************)
Reading == {"find", "touch", "insert", "match", "update"}
Attaching == {"attach", "lock", "count", "commit"}

\* How far a request is says what it can have resolved, written and locked.
Shape(r) ==
  LET t == txn[r] IN
    /\ t.op = "patch" <=> t.at \in {"vet", "patch"}
    /\ t.op # "patch" => t.order \in Orders
    /\ t.op = "patch" => t.cust # NoOne
    /\ t.op = "create" => t.from = NoOne /\ t.orphan = NoOne
    /\ t.at \in Reading \cup {"vet", "patch"}
         => t.wrote = "nothing" /\ t.orphan = NoOne
    /\ t.at \in {"find", "touch", "insert"} => t.from = NoOne
    /\ t.at \in {"match", "update"} => t.op = "edit" /\ t.from # NoOne
    /\ t.at = "touch" => t.cust # NoOne
    /\ t.at \in Attaching /\ t.phone # NoPhone => t.cust # NoOne
    /\ t.at \in Attaching /\ t.wrote = "nothing" /\ t.orphan = NoOne => t.cust = NoOne
    /\ t.at \in {"lock", "count"} => t.orphan # NoOne
    /\ t.wrote # "nothing" => t.cust # NoOne /\ t.orphan = NoOne
    /\ t.orphan # NoOne => t.orphan = t.from /\ t.cust \notin {NoOne, t.orphan}
    /\ t.op = "edit" /\ t.from # NoOne /\ t.orphan = NoOne => t.cust = t.from
    /\ t.locks = IF t.at \in {"count", "commit"} /\ t.orphan # NoOne
                   THEN {t.orphan} ELSE {}
    /\ t.remove = "yes" => t.at = "commit" /\ t.orphan # NoOne

\* What it has read and written is there, and as it takes it to be.
Holds(r) ==
  LET t == txn[r] IN
    /\ t.op = "create" => holder[t.order] = Absent
    /\ t.op = "edit" => holder[t.order] # Absent
    /\ t.wrote = "new" => phone[t.cust] = Absent
    /\ t.cust # NoOne /\ t.wrote # "new" => phone[t.cust] # Absent
    /\ t.orphan # NoOne => phone[t.orphan] # Absent
    /\ t.wrote \in {"row", "phone"} => t.cust \in Present
    /\ Attached(r) /\ t.cust # NoOne /\ t.wrote # "new" => t.cust \in Present

\* The customer it resolved has the phone it names, or will have.
Phoned(r) ==
  LET t == txn[r] IN
    /\ t.at \in {"touch"} \cup Attaching /\ t.phone # NoPhone =>
         t.wrote \in {"new", "phone"} \/ phone[t.cust] = t.phone
           \/ (t.cust # t.from /\ t.cust \in t.moved)
    /\ t.op = "patch" /\ t.phone = t.seen =>
         t.cust \in t.moved \/ phone[t.cust] = t.phone

\* What it counted stays so until it commits.
Counted(r) ==
  LET t == txn[r] IN
    /\ t.remove = "yes" => OrdersOf(t.orphan) \subseteq {t.order}
    /\ t.at = "commit" /\ t.orphan # NoOne /\ t.remove = "no" =>
         t.orphan \in strayed \/ ~(OrdersOf(t.orphan) \subseteq {t.order})

\* Two requests: they write different orders and different customers, at most one
\* inserts a customer, and nobody else is about to attach an order to a customer
\* being cleaned up.
Apart(q, r) ==
  /\ txn[q].op = "create" /\ txn[r].op = "create" => txn[q].order # txn[r].order
  /\ Attached(q) /\ Attached(r) => txn[q].order # txn[r].order
  /\ txn[q].wrote # "nothing" /\ txn[r].wrote # "nothing" => txn[q].cust # txn[r].cust
  /\ ~(txn[q].wrote = "new" /\ txn[r].wrote = "new")
  /\ txn[q].locks \cap txn[r].locks = {}
  /\ Attached(q) /\ txn[q].cust \in txn[r].locks => holder[txn[q].order] = txn[q].cust

\* The foreign key holds, and no order is ever taken along.
Referenced ==
  \A o \in Orders : holder[o] # Deleted /\ (holder[o] \in Customers => holder[o] \in Present)

IInv ==
  /\ TypeOK
  /\ \A r \in Requests : txn[r] # Idle => Shape(r) /\ Holds(r) /\ Phoned(r) /\ Counted(r)
  /\ \A q, r \in Requests : q # r /\ txn[q] # Idle /\ txn[r] # Idle => Apart(q, r)
  /\ Referenced
  /\ NoOrphan

=============================================================================
