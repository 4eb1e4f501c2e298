------------------------------ MODULE OrderBook ------------------------------
(***************************************************************************)
(* What the order desk promises its callers: every request of the orders   *)
(* API takes effect at once, on the row as it is at that moment.  No       *)
(* transaction, no stale read, no abort.  Orders is the detailed           *)
(* specification; when its requests never overlap it implements this one.  *)
(***************************************************************************)
EXTENDS OrderRules

CONSTANT Orders     \* order ids of one baker

VARIABLES
  order,      \* order[o]: the row of order o
  ledger,     \* ledger[o]: the payment events of order o
  edited      \* edited[o]: the baker has edited the order since it was created

vars == <<order, ledger, edited>>

Init ==
  /\ order  = [o \in Orders |-> AbsentRow]
  /\ ledger = [o \in Orders |-> EmptyLedger]
  /\ edited = [o \in Orders |-> FALSE]

\* A new order; the advance taken with it goes into the ledger.
Create(o) ==
  /\ order[o].status = "Absent"
  /\ \E total \in Amounts, force \in BOOLEAN :
       \E advance \in Advances(total) : \E due \in Minus(total, advance) :
         /\ Stored(total) > 0
         /\ advance > 0 => Stored(advance) > 0
         /\ order' = [order EXCEPT
                        ![o] = PricedRow(total, advance, due, force, "Absent")]
         /\ ledger' = IF advance = 0 THEN ledger
                      ELSE [ledger EXCEPT ![o] = Recorded(@, Stored(advance), 0)]
  /\ UNCHANGED edited

\* The baker moves the order along its life cycle, or cancels it.
SetStatus(o) ==
  /\ \E status \in OrderStatus :
       /\ ValidTransition(order[o].status, status)
       /\ order' = [order EXCEPT ![o] = SetStatusColumn(@, status)]
  /\ UNCHANGED <<ledger, edited>>

\* Money arrives for what is still due: the row and the ledger move together.
Pay(o) ==
  /\ order[o].status # "Absent"
  /\ \E amount \in Amounts \ {0} :
       \E paid \in Plus(Read(order[o].advance), amount) :
         \E due \in Minus(Read(order[o].total), paid) :
           /\ amount <= Read(order[o].balance)
           /\ Stored(amount) > 0
           /\ paid <= Read(order[o].total)
           /\ order' = [order EXCEPT
                ![o] = PricedRow(Read(@.total), paid, due, FALSE, @.status)]
           /\ ledger' = [ledger EXCEPT
                ![o] = Recorded(@, Stored(amount), order[o].advance)]
  /\ UNCHANGED edited

\* The baker replaces price and advance of an open order.
Edit(o) ==
  /\ order[o].status \in OpenStatus
  /\ \E total \in Amounts : \E advance \in Advances(total) :
       \E due \in Minus(total, advance) :
         /\ Stored(total) > 0
         /\ order' = [order EXCEPT
              ![o] = PricedRow(total, advance, due, FALSE, @.status)]
  /\ edited' = [edited EXCEPT ![o] = TRUE]
  /\ UNCHANGED ledger

Next == \E o \in Orders : Create(o) \/ SetStatus(o) \/ Pay(o) \/ Edit(o)

Spec == Init /\ [][Next]_vars
=============================================================================
