----------------------------- MODULE OrderRules -----------------------------
(***************************************************************************)
(* The pure rules of the order desk: which statuses an order has, how the  *)
(* order and payment status follow from the money, and which status        *)
(* changes a baker may ask for.  Shared by the atomic specification        *)
(* (OrderBook) and by the transactional one (Orders).                      *)
(*                                                                         *)
(* Money.  A column is a Decimal(10,2) and is kept here as a number of     *)
(* paise.  A handler computes with the doubles of JavaScript, kept here as *)
(* a number of grains, Paisa of them to the paisa: fine enough for an      *)
(* amount with a fraction of a paisa, which the schemas let through, and   *)
(* for a sum that comes out next to the number it should be, as            *)
(* 0.70 + 0.10 = 0.7999999999999999 does.                                  *)
(***************************************************************************)
EXTENDS Integers

CONSTANTS
  Paisa,      \* grains to the paisa
  Amounts     \* what a request may carry as a price, an advance or a payment

ASSUME AmountsAssumption == Amounts \subseteq Nat

\* Two rounding errors together are less than half a paisa, as they are for
\* doubles below 10^8, the largest amount a column holds.
ASSUME PaisaAssumption == Paisa \in Nat /\ Paisa > 4

\* Number(column): the double next to the decimal.
Read(column) == Paisa * column

\* What a column keeps of an amount: PostgreSQL rounds half up.
Stored(amount) == (2 * amount + Paisa) \div (2 * Paisa)

\* The advances a request may name with a price.
Advances(total) == {a \in Amounts \cup {0} : a <= total}

\* An amount in whole paise, as a till takes them.
Whole(amount) == amount % Paisa = 0

(***************************************************************************)
(* The outcomes of a + b and a - b (b <= a) in doubles: the result or a    *)
(* neighbour of it.  0 + b and a - a are exact, a - b has the right sign.  *)
(***************************************************************************)
Plus(a, b) == IF a = 0 THEN {b} ELSE {a + b - 1, a + b, a + b + 1}

Minus(a, b) == IF a = b THEN {0} ELSE {a - b - 1, a - b, a - b + 1}

OpenStatus == {"Pending", "Confirmed"}
TerminalStatus == {"Delivered", "Cancelled"}
OrderStatus == OpenStatus \cup TerminalStatus
PaymentStatus == {"Unpaid", "Partially Paid", "Paid"}

(***************************************************************************)
(* The columns of the orders table these rules read or write.  "Absent" is *)
(* an id no row has yet.  Everything else on the row (cake, delivery,      *)
(* notes) is carried along unread and left out.                            *)
(***************************************************************************)
Row == [status : OrderStatus \cup {"Absent"},
        total : Nat, advance : Nat, balance : Nat,
        payment : PaymentStatus]

AbsentRow == [status |-> "Absent", total |-> 0, advance |-> 0, balance |-> 0,
              payment |-> "Unpaid"]

\* An UPDATE of the status column alone, and of everything but the price.
SetStatusColumn(row, status) ==
  [status |-> status, total |-> row.total, advance |-> row.advance,
   balance |-> row.balance, payment |-> row.payment]

SetMoneyColumns(row, new) ==
  [status |-> new.status, total |-> row.total, advance |-> new.advance,
   balance |-> new.balance, payment |-> new.payment]

(***************************************************************************)
(* derivePaymentState: the payment label follows from the doubles alone,   *)
(* compared with ===; the order status keeps Delivered and Cancelled, and  *)
(* is otherwise recomputed from the money and the forceConfirm flag.       *)
(***************************************************************************)
PaymentLabel(total, advance) ==
  IF advance = 0 THEN "Unpaid"
  ELSE IF advance = total THEN "Paid" ELSE "Partially Paid"

\* Mutated form: forgets that Delivered and Cancelled are kept.
DerivedStatusForgetful(advance, forceConfirm, current) ==
  IF advance > 0 \/ forceConfirm THEN "Confirmed" ELSE "Pending"

DerivedStatus(advance, forceConfirm, current) ==
  IF current \in TerminalStatus THEN current
  ELSE IF advance > 0 \/ forceConfirm THEN "Confirmed" ELSE "Pending"

\* The row that is stored of a price, an advance and the balance computed from
\* them: labelled by the doubles first, rounded column by column after that.
PricedRow(total, advance, due, forceConfirm, current) ==
  [status  |-> DerivedStatus(advance, forceConfirm, current),
   total   |-> Stored(total),
   advance |-> Stored(advance),
   balance |-> Stored(due),
   payment |-> PaymentLabel(total, advance)]

(***************************************************************************)
(* assertValidTransition, as the pairs it lets through.                    *)
(***************************************************************************)
Transitions == {<<"Pending", "Confirmed">>, <<"Pending", "Cancelled">>,
                <<"Confirmed", "Delivered">>, <<"Confirmed", "Cancelled">>}

\* Mutated form: anything not yet cancelled can be cancelled.
ValidTransitionCancelsAny(from, to) ==
  <<from, to>> \in Transitions \/ (from # "Cancelled" /\ to = "Cancelled")

ValidTransition(from, to) == <<from, to>> \in Transitions

(***************************************************************************)
(* The rows of payment_events for one order, kept as what is read back     *)
(* from them: the sum of the amounts and how many of them are of type      *)
(* advance_received.                                                       *)
(***************************************************************************)
LedgerEntry == [collected : Nat, advances : Nat]

EmptyLedger == [collected |-> 0, advances |-> 0]

\* Mutated form: every payment is logged as an advance.
RecordedAsAdvance(entry, amount, previous) ==
  [collected |-> entry.collected + amount, advances |-> entry.advances + 1]

\* recordTransaction for one amount in paise; `previous` is the advance the caller had
\* read, which decides whether the event is an advance or a balance payment.
Recorded(entry, amount, previous) ==
  [collected |-> entry.collected + amount,
   advances  |-> entry.advances + (IF previous = 0 THEN 1 ELSE 0)]
=============================================================================
