------------------------------- MODULE Orders -------------------------------
(***************************************************************************)
(* The orders API as it runs: several requests at once, each one an        *)
(* interactive transaction under PostgreSQL's READ COMMITTED.              *)
(*                                                                         *)
(* A handler reads the order without a row lock, validates and computes    *)
(* the new column values from what it read, and then updates the row by    *)
(* id, inserts its ledger entry and commits.  The update takes the row     *)
(* lock and holds it to the commit, nobody else sees or changes the row in *)
(* between, and the values written do not depend on the row found there:   *)
(* update, insert and commit are therefore one step here, placed at the    *)
(* commit.  What can happen between the read and that step is everything   *)
(* the other requests do.                                                  *)
(*                                                                         *)
(* The customer a request names is the business of module Customers; here  *)
(* a conflict there is one more reason to abort.                           *)
(***************************************************************************)
EXTENDS OrderRules

CONSTANTS
  Orders,         \* order ids of one baker
  Requests,       \* requests that can be in flight at the same time
  MaxCollected    \* bound: no further payment starts beyond this ledger sum

ASSUME BoundsAssumption == MaxCollected \in Nat

VARIABLES
  order,      \* order[o]: the committed row of order o
  ledger,     \* ledger[o]: its committed payment events
  txn,        \* txn[r]: what request r has read and is about to write
  edited,     \* history: a PUT on the order has committed
  fractional  \* history: an amount with a fraction of a paisa has been saved

vars == <<order, ledger, txn, edited, fractional>>

(***************************************************************************)
(* A request in flight: the operation, the order, the row it saw, the      *)
(* columns it computed from it, the amount of its ledger entry as the      *)
(* column keeps it, and (history) whether it carries whole paise.          *)
(***************************************************************************)
Idle == [op |-> "idle"]

Transaction == [op : {"status", "payment", "edit", "cancel"},
                order : Orders, seen : Row, next : Row, amount : Nat,
                whole : BOOLEAN]

TypeOK ==
  /\ order  \in [Orders -> Row]
  /\ ledger \in [Orders -> LedgerEntry]
  /\ txn    \in [Requests -> Transaction \cup {Idle}]
  /\ edited \in [Orders -> BOOLEAN]
  /\ fractional \in [Orders -> BOOLEAN]

Init ==
  /\ order  = [o \in Orders |-> AbsentRow]
  /\ ledger = [o \in Orders |-> EmptyLedger]
  /\ txn    = [r \in Requests |-> Idle]
  /\ edited = [o \in Orders |-> FALSE]
  /\ fractional = [o \in Orders |-> FALSE]

-----------------------------------------------------------------------------
\* History: what has been saved of an order, in whole paise or not.
Note(o, whole) == fractional' = [fractional EXCEPT ![o] = @ \/ ~whole]

\* Mutated form: the advance taken with the order is not logged.
CreateUnlogged(o) ==
  /\ order[o].status = "Absent"
  /\ \E total \in Amounts, force \in BOOLEAN :
       \E advance \in Advances(total) : \E due \in Minus(total, advance) :
         /\ Stored(total) > 0
         /\ order' = [order EXCEPT
                        ![o] = PricedRow(total, advance, due, force, "Absent")]
         /\ Note(o, Whole(total) /\ Whole(advance))
  /\ UNCHANGED <<ledger, txn, edited>>

\* createOrder: nothing of the order is read, so it is a single step.  The
\* database's CHECKs refuse a price and a ledger entry that round to zero.
Create(o) ==
  /\ order[o].status = "Absent"
  /\ \E total \in Amounts, force \in BOOLEAN :
       \E advance \in Advances(total) : \E due \in Minus(total, advance) :
         /\ Stored(total) > 0
         /\ advance > 0 => Stored(advance) > 0
         /\ order' = [order EXCEPT
                        ![o] = PricedRow(total, advance, due, force, "Absent")]
         /\ ledger' = IF advance = 0 THEN ledger
                      ELSE [ledger EXCEPT ![o] = Recorded(@, Stored(advance), 0)]
         /\ Note(o, Whole(total) /\ Whole(advance))
  /\ UNCHANGED <<txn, edited>>

-----------------------------------------------------------------------------
(***************************************************************************)
(* The first half of each handler: read the row, refuse or compute.        *)
(***************************************************************************)
Start(r, op, o, next, amount, whole) ==
  /\ txn[r] = Idle
  /\ order[o].status # "Absent"
  /\ txn' = [txn EXCEPT ![r] = [op |-> op, order |-> o, seen |-> order[o],
                                next |-> next, amount |-> amount, whole |-> whole]]
  /\ UNCHANGED <<order, ledger, edited, fractional>>

\* updateOrderStatus
StartStatus(r, o) ==
  \E status \in OrderStatus :
    /\ ValidTransition(order[o].status, status)
    /\ Start(r, "status", o, SetStatusColumn(order[o], status), 0, TRUE)

\* Mutated form: neither the amount nor the sum is compared with the price.
StartPaymentUnchecked(r, o) ==
  /\ order[o].balance # 0
  /\ order[o].payment # "Paid"
  /\ \E amount \in Amounts \ {0} :
       \E paid \in Plus(Read(order[o].advance), amount) :
         Start(r, "payment", o,
               PricedRow(Read(order[o].total), paid, Read(order[o].total) - paid,
                         FALSE, order[o].status),
               Stored(amount), Whole(amount))

\* recordPayment: only while something is due, never more than that, and not
\* when the sum comes out above the price (derivePaymentState throws).
StartPayment(r, o) ==
  /\ order[o].balance # 0
  /\ order[o].payment # "Paid"
  /\ \E amount \in Amounts \ {0} :
       /\ amount <= Read(order[o].balance)
       /\ ledger[o].collected + Stored(amount) <= MaxCollected
       /\ \E paid \in Plus(Read(order[o].advance), amount) :
            \E due \in Minus(Read(order[o].total), paid) :
              /\ paid <= Read(order[o].total)
              /\ Start(r, "payment", o,
                       PricedRow(Read(order[o].total), paid, due, FALSE,
                                 order[o].status),
                       Stored(amount), Whole(amount))

\* updateOrder: replaces total and advance of an order still open.
StartEdit(r, o) ==
  /\ order[o].status \notin TerminalStatus
  /\ \E total \in Amounts \ {0} :
       \E advance \in Advances(total) : \E due \in Minus(total, advance) :
         Start(r, "edit", o,
               PricedRow(total, advance, due, FALSE, order[o].status),
               0, Whole(total) /\ Whole(advance))

\* cancelOrder
StartCancel(r, o) ==
  /\ order[o].status \notin TerminalStatus
  /\ Start(r, "cancel", o, SetStatusColumn(order[o], "Cancelled"), 0, TRUE)

-----------------------------------------------------------------------------
(***************************************************************************)
(* The second half: write the computed columns over the row as it is now.  *)
(* The database's CHECKs (advance_paid <= total_price, total_price > 0,    *)
(* and amount > 0 in the ledger) guard the writes of the amounts; a        *)
(* transaction they refuse can only abort.                                 *)
(***************************************************************************)
Finish(r) == txn' = [txn EXCEPT ![r] = Idle]

\* Status and cancel write the status column alone.
CommitStatus(r) ==
  /\ txn[r].op \in {"status", "cancel"}
  /\ order' = [order EXCEPT
                 ![txn[r].order] = SetStatusColumn(@, txn[r].next.status)]
  /\ Finish(r)
  /\ UNCHANGED <<ledger, edited, fractional>>

\* Mutated forms: the status column is left out of the update; the advance is
\* incremented in place but the balance is the one computed from the read; the
\* ledger entry is forgotten.
CommitPaymentUnpromoted(r) ==
  /\ txn[r].op = "payment"
  /\ LET o == txn[r].order IN
       /\ txn[r].next.advance <= order[o].total
       /\ order' = [order EXCEPT ![o] = [txn[r].next EXCEPT
                       !.total = order[o].total, !.status = order[o].status]]
       /\ ledger' = [ledger EXCEPT
                       ![o] = Recorded(@, txn[r].amount, txn[r].seen.advance)]
       /\ Note(o, txn[r].whole)
  /\ Finish(r)
  /\ UNCHANGED edited

CommitPaymentIncrement(r) ==
  /\ txn[r].op = "payment"
  /\ LET o == txn[r].order
         advance == order[o].advance + txn[r].amount IN
       /\ advance <= order[o].total
       /\ order' = [order EXCEPT ![o] = [txn[r].next EXCEPT
                       !.total = order[o].total, !.advance = advance]]
       /\ ledger' = [ledger EXCEPT
                       ![o] = Recorded(@, txn[r].amount, txn[r].seen.advance)]
       /\ Note(o, txn[r].whole)
  /\ Finish(r)
  /\ UNCHANGED edited

CommitPaymentUnlogged(r) ==
  /\ txn[r].op = "payment"
  /\ LET o == txn[r].order IN
       /\ txn[r].next.advance <= order[o].total
       /\ order' = [order EXCEPT ![o] = SetMoneyColumns(@, txn[r].next)]
       /\ Note(o, txn[r].whole)
  /\ Finish(r)
  /\ UNCHANGED <<ledger, edited>>

\* A payment leaves total_price as it finds it.
CommitPayment(r) ==
  /\ txn[r].op = "payment"
  /\ LET o == txn[r].order IN
       /\ txn[r].next.advance <= order[o].total
       /\ txn[r].amount > 0
       /\ order' = [order EXCEPT ![o] = SetMoneyColumns(@, txn[r].next)]
       /\ ledger' = [ledger EXCEPT
                       ![o] = Recorded(@, txn[r].amount, txn[r].seen.advance)]
       /\ Note(o, txn[r].whole)
  /\ Finish(r)
  /\ UNCHANGED edited

\* An edit writes every column and no ledger entry.
CommitEdit(r) ==
  /\ txn[r].op = "edit"
  /\ LET o == txn[r].order IN
       /\ txn[r].next.total > 0
       /\ order' = [order EXCEPT ![o] = txn[r].next]
       /\ edited' = [edited EXCEPT ![o] = TRUE]
       /\ Note(o, txn[r].whole)
  /\ Finish(r)
  /\ UNCHANGED ledger

\* The transaction rolls back: a CHECK or unique violation, a customer
\* conflict, the 15 s transaction timeout, a lost connection, a crash.
Abort(r) ==
  /\ txn[r] # Idle
  /\ Finish(r)
  /\ UNCHANGED <<order, ledger, edited, fractional>>

Next ==
  \/ \E o \in Orders : Create(o)
  \/ \E r \in Requests, o \in Orders :
       StartStatus(r, o) \/ StartPayment(r, o) \/ StartEdit(r, o) \/ StartCancel(r, o)
  \/ \E r \in Requests :
       CommitStatus(r) \/ CommitPayment(r) \/ CommitEdit(r) \/ Abort(r)

Spec == Init /\ [][Next]_vars

-----------------------------------------------------------------------------
(***************************************************************************)
(* Properties that hold however the requests interleave.                   *)
(***************************************************************************)
Existing == {o \in Orders : order[o].status # "Absent"}

\* The payment label, the balance and the order status of a row tell the same
\* story, although payments, edits and status changes write different columns
\* from different reads, and the label compares doubles where the columns are
\* rounded: what is called unpaid has no advance and what is called paid has
\* nothing due; a Pending order is unpaid; no more than the price is taken; and
\* amounts in whole paise are not called partially paid for nothing.  That what
\* has nothing due is called paid is not true: see PaidWhenCovered.
Agrees(row) ==
  /\ row.payment = "Unpaid" => row.advance = 0
  /\ row.payment = "Paid" => row.balance = 0
  /\ row.status = "Pending" => row.payment = "Unpaid"
  /\ row.advance <= row.total

Named(row) == row.advance = 0 => row.payment = "Unpaid"

LabelsAgree ==
  \A o \in Existing : /\ Agrees(order[o])
                      /\ ~fractional[o] => Named(order[o])

\* Until a baker edits an order, balance_due is total_price - advance_paid,
\* even when payments overwrite each other: to the paisa if no amount had a
\* fraction of one, and within a paisa if some had, as each of the three
\* columns is rounded by itself.
Due(row) == row.total - row.advance

Close(row) == row.balance - Due(row) \in -1..1

UneditedBalance ==
  \A o \in Existing : ~edited[o] =>
    /\ Close(order[o])
    /\ ~fractional[o] => order[o].balance = Due(order[o])

\* Until a baker edits an order, money on the row or in the ledger means that
\* an advance_received event exists, and the row claims no money the ledger
\* does not hold (in whole paise): racing payments can lose an update of the
\* row but never a ledger entry.
Covered(o) ==
  /\ order[o].advance > 0 \/ ledger[o].collected > 0 => ledger[o].advances > 0
  /\ ~fractional[o] => order[o].advance <= ledger[o].collected

UneditedLedgerCovers == \A o \in Existing : ~edited[o] => Covered(o)

\* A Delivered or Cancelled order changes status only at the hands of a
\* request that was already in flight when the order became so (it saw
\* another status): once those are done the order is settled for good.
StaleFor(o) == {r \in Requests : /\ txn[r] # Idle
                                 /\ txn[r].order = o
                                 /\ txn[r].seen.status # order[o].status}

SettledOnceDrained ==
  [][\A o \in Orders :
       order[o].status \in TerminalStatus /\ StaleFor(o) = {}
         => order'[o].status = order[o].status]_vars

-----------------------------------------------------------------------------
(***************************************************************************)
(* The inductive invariant behind them.  RowInv adds to the properties     *)
(* that an existing order has a price and an absent one no ledger; TxnInv  *)
(* says what a request in flight plans to write (Planned, settled when it  *)
(* starts) and how far its read can lag behind (Fresh).                    *)
(***************************************************************************)
RowInv(o) ==
  /\ order[o].status = "Absent" =>
       ledger[o] = EmptyLedger /\ ~edited[o] /\ ~fractional[o]
  /\ order[o].status # "Absent" =>
       /\ order[o].total > 0
       /\ Agrees(order[o])
       /\ ~fractional[o] => Named(order[o])
       /\ ~edited[o] =>
            /\ Close(order[o])
            /\ ~fractional[o] => order[o].balance = Due(order[o])
            /\ Covered(o)

EditPlanned(t) ==
  /\ t.seen.status \notin TerminalStatus
  /\ \E total \in Amounts : \E advance \in Advances(total) :
       \E due \in Minus(total, advance) :
         /\ t.next = PricedRow(total, advance, due, FALSE, t.seen.status)
         /\ t.whole = (Whole(total) /\ Whole(advance))

PaymentPlanned(t) ==
  \E amount \in Amounts \ {0} :
    /\ amount <= Read(t.seen.balance)
    /\ t.amount = Stored(amount) /\ t.whole = Whole(amount)
    /\ \E paid \in Plus(Read(t.seen.advance), amount) :
         \E due \in Minus(Read(t.seen.total), paid) :
           /\ paid <= Read(t.seen.total)
           /\ t.next = PricedRow(Read(t.seen.total), paid, due, FALSE, t.seen.status)

Planned(t) ==
  /\ t.seen.status # "Absent" /\ t.next.status # "Absent"
  /\ t.op \in {"status", "cancel"} =>
       ValidTransition(t.seen.status, t.next.status)
  /\ t.op = "edit" => EditPlanned(t)
  /\ t.op = "payment" => PaymentPlanned(t)

Fresh(t) ==
  /\ order[t.order].status # "Absent"
  /\ ~edited[t.order] =>
       /\ t.seen.total = order[t.order].total
       /\ t.seen.advance > 0 => ledger[t.order].advances > 0
       /\ ~fractional[t.order] => t.seen.advance <= ledger[t.order].collected

TxnInv(r) == txn[r] # Idle => Planned(txn[r]) /\ Fresh(txn[r])

IInv ==
  /\ TypeOK
  /\ \A o \in Orders : RowInv(o)
  /\ \A r \in Requests : TxnInv(r)

-----------------------------------------------------------------------------
(***************************************************************************)
(* Properties of requests that do not disturb each other.                  *)
(***************************************************************************)
\* What a request saw is still there (its inductive strengthening).
SeenIsCurrent ==
  \A r \in Requests : txn[r] # Idle => txn[r].seen = order[txn[r].order]

\* The orders API without overlap is the atomic order book.
Book == INSTANCE OrderBook WITH order <- order, ledger <- ledger, edited <- edited
BookSpec == Book!Spec

\* A request whose read is still current when it commits is an atomic step of
\* the order book (or changes nothing), whatever else is in flight: all that
\* overlapping requests can spoil, they spoil by what they overwrite.
CurrentIsAtomic ==
  [][\A r \in Requests :
       txn[r] # Idle /\ txn'[r] = Idle /\ txn[r].seen = order[txn[r].order]
         => UNCHANGED Book!vars \/ Book!Next]_vars

\* "Delivered and Cancelled states are terminal and immutable."
TerminalIsFinal ==
  [][\A o \in Orders : order[o].status \in TerminalStatus
       => order'[o].status = order[o].status]_vars

\* Balance is server-computed: total_price - advance_paid, of an order whose
\* amounts are whole paise.
BalanceIsDue ==
  \A o \in Existing : ~fractional[o] => order[o].balance = Due(order[o])

\* What the row says was paid is what the ledger holds, and only the first
\* money on an order is recorded as its advance.
LedgerIsExact ==
  \A o \in Existing : ~edited[o] =>
    /\ ~fractional[o] => order[o].advance = ledger[o].collected
    /\ ledger[o].advances <= 1

\* "advancePaid = totalPrice -> Confirmed / Paid", of an order whose amounts
\* are whole paise.  The label compares the sum in doubles with the price, the
\* columns hold both rounded.
PaidWhenCovered ==
  \A o \in Existing : ~fractional[o] /\ order[o].advance = order[o].total
                         => order[o].payment = "Paid"
=============================================================================
