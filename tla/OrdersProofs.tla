---------------------------- MODULE OrdersProofs ----------------------------
(***************************************************************************)
(* Theorems about Orders, for every set of orders and requests and every   *)
(* bound.                                                                  *)
(***************************************************************************)
EXTENDS Orders, TLAPS

-----------------------------------------------------------------------------
(* Facts about money.                                                      *)

USE PaisaAssumption DEF Read

LEMMA StoredNat ==
  ASSUME NEW a \in Nat PROVE Stored(a) \in Nat
  BY DEF Stored

\* An amount is within half a paisa of what the column keeps of it.
LEMMA StoredBounds ==
  ASSUME NEW a \in Nat
  PROVE  /\ 2 * a + Paisa >= 2 * (Paisa * Stored(a))
         /\ 2 * a < 2 * (Paisa * Stored(a)) + Paisa
<1> DEFINE n == 2 * a + Paisa
           k == 2 * Paisa
<1>1. n \in Nat /\ k \in Nat /\ k > 0
  OBVIOUS
<1>2. n = (k * (n \div k)) + (n % k) /\ n % k \in 0..(k - 1) /\ n \div k \in Nat
  <2> HIDE DEF n, k
  <2> QED BY <1>1
<1>3. Stored(a) = n \div k
  BY DEF Stored
<1>4. k * Stored(a) = 2 * (Paisa * Stored(a))
  BY <1>2, <1>3
<1> QED BY <1>2, <1>3, <1>4

\* Whatever is within half a paisa of c paise is kept as c.
LEMMA StoredIs ==
  ASSUME NEW a \in Nat, NEW c \in Nat,
         2 * a + Paisa >= 2 * (Paisa * c), 2 * a < 2 * (Paisa * c) + Paisa
  PROVE  Stored(a) = c
<1>1. /\ 2 * (Paisa * Stored(a)) < 2 * (Paisa * c) + 2 * Paisa
      /\ 2 * (Paisa * c) < 2 * (Paisa * Stored(a)) + 2 * Paisa
      /\ Stored(a) \in Nat
  BY StoredBounds, StoredNat
<1>2. ASSUME NEW x \in Nat, NEW y \in Nat,
             2 * (Paisa * x) < 2 * (Paisa * y) + 2 * Paisa
      PROVE  x <= y
  <2> SUFFICES ASSUME x >= y + 1 PROVE FALSE
    OBVIOUS
  <2>1. Paisa * x >= Paisa * y + Paisa
    OBVIOUS
  <2> QED BY <1>2, <2>1
<1>3. Stored(a) <= c
  BY <1>1, <1>2, Zenon
<1>4. c <= Stored(a)
  BY <1>1, <1>2, Zenon
<1> QED BY <1>1, <1>3, <1>4

\* Two rounding errors are lost on the way into a column.
LEMMA StoredNear ==
  ASSUME NEW c \in Nat, NEW d \in -2..2, Read(c) + d \in Nat
  PROVE  Stored(Read(c) + d) = c
<1>1. Paisa * c \in Nat
  OBVIOUS
<1> QED BY <1>1, StoredIs

LEMMA StoredRead ==
  ASSUME NEW c \in Nat PROVE Read(c) \in Nat /\ Stored(Read(c)) = c
<1>1. Read(c) \in Nat /\ Read(c) + 0 = Read(c)
  OBVIOUS
<1> QED BY <1>1, StoredNear

LEMMA StoredZero == Stored(0) = 0
<1>1. Read(0) = 0
  OBVIOUS
<1> QED BY <1>1, StoredRead

LEMMA StoredGrows ==
  ASSUME NEW a \in Nat, NEW b \in Nat, a <= b PROVE Stored(a) <= Stored(b)
<1>1. 2 * (Paisa * Stored(a)) < 2 * (Paisa * Stored(b)) + 2 * Paisa
      /\ Stored(a) \in Nat /\ Stored(b) \in Nat
  BY StoredBounds, StoredNat
<1> SUFFICES ASSUME Stored(a) >= Stored(b) + 1 PROVE FALSE
  BY <1>1
<1>2. Paisa * Stored(a) >= Paisa * Stored(b) + Paisa
  BY <1>1
<1> QED BY <1>1, <1>2

\* Whole paise are kept as they are.
LEMMA WholeStored ==
  ASSUME NEW a \in Nat, Whole(a) PROVE a = Read(Stored(a))
<1>1. a = (Paisa * (a \div Paisa)) + (a % Paisa) /\ a \div Paisa \in Nat
  OBVIOUS
<1>2. a = Read(a \div Paisa)
  BY <1>1 DEF Whole
<1> QED BY <1>1, <1>2, StoredRead

\* A double is at least as large as the paise it is made of.
LEMMA ReadTimes ==
  ASSUME NEW c \in Nat
  PROVE  Read(c) \in Nat /\ Read(c) >= c /\ (c > 0 => Read(c) >= 1)
<1>1. Paisa * c >= c
  OBVIOUS
<1> QED BY <1>1

LEMMA ReadSum ==
  ASSUME NEW c \in Nat, NEW d \in Nat
  PROVE  /\ Read(c + d) = Read(c) + Read(d)
         /\ c <= d => Read(d - c) = Read(d) - Read(c)
  OBVIOUS

HIDE DEF Read

LEMMA MinusType ==
  ASSUME NEW a \in Nat, NEW b \in Nat, b <= a, NEW due \in Minus(a, b)
  PROVE  /\ due \in Nat /\ due - (a - b) \in -1..1
         /\ a = b => due = 0
  BY DEF Minus

LEMMA PlusType ==
  ASSUME NEW a \in Nat, NEW b \in Nat, b > 0, NEW sum \in Plus(a, b)
  PROVE  sum \in Nat /\ sum > 0 /\ sum - (a + b) \in -1..1
         /\ a = 0 => sum = b
  BY DEF Plus

\* Three columns rounded by themselves are within a paisa of each other.
LEMMA RoundedApart ==
  ASSUME NEW a \in Nat, NEW b \in Nat, b <= a, NEW due \in Minus(a, b)
  PROVE  Stored(due) - (Stored(a) - Stored(b)) \in -1..1
<1> DEFINE d == Stored(due)
           x == Stored(a)
           y == Stored(b)
<1>1. due \in Nat /\ due - (a - b) \in -1..1
  BY MinusType
<1>2. d \in Nat /\ x \in Nat /\ y \in Nat
  BY <1>1, StoredNat
<1>3. /\ 2 * due + Paisa >= 2 * (Paisa * d) /\ 2 * due < 2 * (Paisa * d) + Paisa
      /\ 2 * a + Paisa >= 2 * (Paisa * x) /\ 2 * a < 2 * (Paisa * x) + Paisa
      /\ 2 * b + Paisa >= 2 * (Paisa * y) /\ 2 * b < 2 * (Paisa * y) + Paisa
  BY <1>1, StoredBounds
<1> HIDE DEF d, x, y
<1>4. Paisa * (d - x + y) = Paisa * d - Paisa * x + Paisa * y
  BY <1>2
<1>5. /\ 2 * (Paisa * (d - x + y)) < 4 * Paisa
      /\ 2 * (Paisa * (d - x + y)) > -(4 * Paisa)
  BY <1>1, <1>2, <1>3, <1>4
<1>6. d - x + y < 2
  <2> SUFFICES ASSUME d - x + y >= 2 PROVE FALSE
    BY <1>2
  <2>1. Paisa * (d - x + y) >= 2 * Paisa
    BY <1>2
  <2> QED BY <1>5, <2>1, <1>2
<1>7. d - x + y > -2
  <2> SUFFICES ASSUME d - x + y <= -2 PROVE FALSE
    BY <1>2
  <2>1. Paisa * (d - x + y) <= -(2 * Paisa)
    BY <1>2
  <2> QED BY <1>5, <2>1, <1>2
<1>8. d - (x - y) = d - x + y /\ d - x + y \in Int
  BY <1>2
<1> QED BY <1>6, <1>7, <1>8 DEF d, x, y

-----------------------------------------------------------------------------
(* Facts about the rules.                                                  *)

\* A computed row is a row, provided the advance is within the price.
LEMMA PricedRowType ==
  ASSUME NEW total \in Nat, NEW advance \in Nat, advance <= total,
         NEW due \in Minus(total, advance),
         NEW force, NEW current \in OrderStatus \cup {"Absent"}
  PROVE  PricedRow(total, advance, due, force, current) \in Row
<1>1. Stored(total) \in Nat /\ Stored(advance) \in Nat /\ Stored(due) \in Nat
  BY StoredNat, MinusType
<1> QED BY <1>1 DEF PricedRow, Row, PaymentLabel, DerivedStatus, PaymentStatus,
           OrderStatus, OpenStatus, TerminalStatus

\* Its labels agree with its amounts, and its amounts with each other, as far
\* as rounding lets them.
LEMMA PricedRowAgrees ==
  ASSUME NEW total \in Nat, NEW advance \in Nat, advance <= total,
         NEW due \in Minus(total, advance),
         NEW force, NEW current \in OrderStatus \cup {"Absent"}
  PROVE  LET row == PricedRow(total, advance, due, force, current) IN
         /\ Agrees(row)
         /\ row.status \in OrderStatus
         /\ Close(row)
         /\ Whole(total) /\ Whole(advance) =>
              Named(row) /\ row.balance = Due(row)
<1> DEFINE row == PricedRow(total, advance, due, force, current)
<1>1. /\ row.total = Stored(total) /\ row.advance = Stored(advance)
      /\ row.balance = Stored(due) /\ row.payment = PaymentLabel(total, advance)
      /\ row.status = DerivedStatus(advance, force, current)
  BY DEF PricedRow
<1>2. /\ Stored(total) \in Nat /\ Stored(advance) \in Nat /\ Stored(due) \in Nat
      /\ due \in Nat
  BY StoredNat, MinusType
<1>3. /\ row.status \in OrderStatus
      /\ row.status = "Pending" => advance = 0
  BY <1>1 DEF DerivedStatus, OrderStatus, OpenStatus, TerminalStatus
<1> HIDE DEF row
<1>4. Agrees(row)
  <2>1. row.payment = "Unpaid" <=> advance = 0
    BY <1>1 DEF PaymentLabel
  <2>2. row.payment = "Paid" => advance = total
    BY <1>1 DEF PaymentLabel
  <2>3. advance = total => row.balance = 0
    BY <1>1, StoredZero, MinusType
  <2>4. row.advance <= row.total
    BY <1>1, StoredGrows
  <2> QED BY <1>1, <1>3, <2>1, <2>2, <2>3, <2>4, StoredZero DEF Agrees
<1>5. Close(row)
  BY <1>1, RoundedApart DEF Close, Due
<1>6. ASSUME Whole(total), Whole(advance)
      PROVE  Named(row) /\ row.balance = Due(row)
  <2>1. total = Read(Stored(total)) /\ advance = Read(Stored(advance))
    BY <1>6, WholeStored
  <2>2. Stored(advance) = 0 => advance = 0
    BY <2>1 DEF Read
  <2>3. Named(row)
    BY <1>1, <2>2 DEF Named, PaymentLabel
  <2>4. Stored(advance) <= Stored(total) /\ Stored(total) - Stored(advance) \in Nat
    BY <1>2, StoredGrows
  <2> DEFINE c == Stored(total) - Stored(advance)
  <2>5. Read(c) = total - advance
    BY <1>2, <2>1, <2>4, ReadSum
  <2>6. due - Read(c) \in -2..2 /\ Read(c) + (due - Read(c)) = due /\ Read(c) \in Int
    BY <2>5, <2>4, MinusType, <1>2, ReadTimes
  <2>7. Stored(due) = c
    BY <2>4, <2>6, <1>2, StoredNear
  <2> QED BY <1>1, <2>3, <2>7 DEF Due
<1> QED BY <1>3, <1>4, <1>5, <1>6 DEF row

\* Column updates keep the type of the row.
LEMMA ColumnTypes ==
  ASSUME NEW row \in Row, NEW new \in Row
  PROVE  /\ \A status \in OrderStatus \cup {"Absent"} :
              SetStatusColumn(row, status) \in Row
         /\ SetMoneyColumns(row, new) \in Row
  BY DEF Row, SetStatusColumn, SetMoneyColumns

\* A payment in whole paise adds up in the columns, whatever the doubles say.
LEMMA PaymentAddsUp ==
  ASSUME NEW total \in Nat, NEW before \in Nat, NEW amount \in Nat, amount > 0,
         Whole(amount), NEW paid \in Plus(Read(before), amount),
         paid <= Read(total), NEW due \in Minus(Read(total), paid)
  PROVE  /\ Stored(paid) = before + Stored(amount)
         /\ Stored(due) = total - Stored(paid)
<1> DEFINE now == before + Stored(amount)
<1>1. amount = Read(Stored(amount)) /\ Stored(amount) \in Nat
  BY WholeStored, StoredNat
<1>2. Read(before) \in Nat /\ Read(total) \in Nat /\ now \in Nat
  BY <1>1, StoredRead
<1>3. Read(now) = Read(before) + amount
  BY <1>1, ReadSum
<1>4. paid \in Nat /\ paid - (Read(before) + amount) \in -1..1
  BY <1>2 DEF Plus
<1> HIDE DEF now
<1>5. Stored(paid) = now
  <2>1. Read(now) \in Int /\ Read(now) + (paid - Read(now)) = paid
    BY <1>2, <1>3, <1>4
  <2>2. paid - Read(now) \in -2..2
    BY <1>3, <1>4
  <2> QED BY <1>2, <1>4, <2>1, <2>2, StoredNear
<1>6. now <= total
  BY <1>2, <1>4, <1>5, StoredGrows, StoredRead
<1>7. Stored(due) = total - now
  <2> DEFINE c == total - now
  <2>0. c \in Nat /\ Read(c) = Read(total) - Read(now)
    BY <1>2, <1>6, ReadSum
  <2>1. c \in Nat /\ Read(c) = Read(total) - Read(now) /\ Read(now) \in Int
    BY <1>2, <2>0, ReadTimes
  <2>2. due \in Nat /\ due - (Read(total) - paid) \in -1..1
    BY <1>2, <1>4 DEF Minus
  <2>3. due - Read(c) \in -2..2 /\ Read(c) + (due - Read(c)) = due
    BY <1>2, <1>3, <1>4, <2>1, <2>2
  <2> QED BY <2>1, <2>2, <2>3, StoredNear
<1> QED BY <1>5, <1>7 DEF now

\* What a payment makes of a row whose price it may have misread.
PaidRow(row, total, paid, due, current) ==
  SetMoneyColumns(row, PricedRow(Read(total), paid, due, FALSE, current))

LEMMA PaidRowAgrees ==
  ASSUME NEW row \in Row, NEW total \in Nat, NEW before \in Nat,
         NEW amount \in Nat, Stored(amount) > 0,
         NEW paid \in Plus(Read(before), amount), paid <= Read(total),
         NEW due \in Minus(Read(total), paid),
         Stored(paid) <= row.total, NEW current \in OrderStatus
  PROVE  LET new == PaidRow(row, total, paid, due, current) IN
         /\ Agrees(new) /\ Named(new)
         /\ new.status \in OrderStatus \ {"Pending"}
         /\ new.total = row.total
         /\ new.advance = Stored(paid) /\ new.advance > 0
         /\ new.balance = Stored(due)
         /\ new.balance - (total - new.advance) \in -1..1
         /\ Whole(amount) => /\ new.advance = before + Stored(amount)
                             /\ new.balance = total - new.advance
<1> DEFINE priced == PricedRow(Read(total), paid, due, FALSE, current)
           new == PaidRow(row, total, paid, due, current)
<1>0. amount > 0
  <2>1. amount # 0
    BY StoredZero
  <2> QED BY <2>1
<1>1. /\ Read(before) \in Nat /\ Read(total) \in Nat /\ Stored(Read(total)) = total
      /\ paid \in Nat /\ paid > 0 /\ due \in Nat
      /\ current \in OrderStatus \cup {"Absent"}
  <2>1. Read(before) \in Nat /\ Read(total) \in Nat /\ Stored(Read(total)) = total
    BY StoredRead
  <2>2. paid \in Nat /\ paid > 0
    BY <1>0, <2>1 DEF Plus
  <2> QED BY <2>1, <2>2, MinusType
<1>2. paid >= amount
  <2>1. CASE before = 0
    <3>1. Read(before) = 0
      BY <2>1 DEF Read
    <3> QED BY <1>0, <1>1, <3>1 DEF Plus
  <2>2. CASE before > 0
    <3>1. Read(before) >= 1
      BY <2>2, ReadTimes
    <3>2. paid - (Read(before) + amount) \in -1..1
      BY <1>0, <1>1 DEF Plus
    <3> QED BY <1>1, <3>1, <3>2
  <2> QED BY <2>1, <2>2
<1>3. Stored(paid) \in Nat /\ Stored(due) \in Nat /\ Stored(paid) > 0
  BY <1>1, <1>2, StoredGrows, StoredNat
<1>4. /\ priced.total = total /\ priced.advance = Stored(paid)
      /\ priced.balance = Stored(due)
      /\ priced.payment = PaymentLabel(Read(total), paid)
      /\ priced.status \notin {"Pending"}
  BY <1>1 DEF PricedRow, DerivedStatus, TerminalStatus
<1>5. Agrees(priced) /\ priced.status \in OrderStatus /\ Close(priced)
  BY <1>1, PricedRowAgrees
<1> HIDE DEF priced
<1>6. /\ new.status = priced.status /\ new.total = row.total
      /\ new.advance = priced.advance /\ new.balance = priced.balance
      /\ new.payment = priced.payment
  BY DEF SetMoneyColumns, PaidRow, priced
<1> HIDE DEF new
<1>7. Agrees(new)
  BY <1>4, <1>5, <1>6 DEF Agrees
<1>8. Named(new)
  BY <1>3, <1>4, <1>6 DEF Named
<1>9. new.balance - (total - new.advance) \in -1..1
  BY <1>4, <1>5, <1>6 DEF Close, Due
<1>10. ASSUME Whole(amount)
       PROVE  new.advance = before + Stored(amount) /\ new.balance = total - new.advance
  BY <1>0, <1>4, <1>6, <1>10, PaymentAddsUp
<1>11. /\ new.status \in OrderStatus \ {"Pending"}
       /\ new.total = row.total /\ new.advance = Stored(paid)
       /\ new.advance > 0 /\ new.balance = Stored(due)
  BY <1>3, <1>4, <1>5, <1>6
<1> QED BY <1>7, <1>8, <1>9, <1>10, <1>11, Zenon DEF new


\* The amounts of a request.
LEMMA AmountTypes ==
  ASSUME NEW total \in Amounts
  PROVE  /\ total \in Nat
         /\ \A advance \in Advances(total) : advance \in Nat /\ advance <= total
  BY AmountsAssumption DEF Advances

\* The doubles of a payment on a row.
LEMMA PaidTypes ==
  ASSUME NEW total \in Nat, NEW advance \in Nat, NEW amount \in Amounts \ {0},
         NEW paid \in Plus(Read(advance), amount), paid <= Read(total),
         NEW due \in Minus(Read(total), paid)
  PROVE  /\ Read(total) \in Nat /\ paid \in Nat /\ due \in Nat
         /\ amount \in Nat /\ Stored(amount) \in Nat
<1>1. Read(total) \in Nat /\ Read(advance) \in Nat /\ amount \in Nat /\ amount > 0
  BY AmountsAssumption, StoredRead
<1>2. paid \in Nat
  BY <1>1 DEF Plus
<1>3. due \in Nat
  BY <1>1, <1>2 DEF Minus
<1> QED BY <1>1, <1>2, <1>3, StoredNat

\* A new ledger entry keeps the ledger's type.
LEMMA RecordedType ==
  ASSUME NEW entry \in LedgerEntry, NEW amount \in Nat, NEW previous \in Nat
  PROVE  Recorded(entry, amount, previous) \in LedgerEntry
  BY DEF LedgerEntry, Recorded

\* What a started request looks like.
LEMMA StartType ==
  ASSUME TypeOK, NEW r \in Requests, NEW o \in Orders,
         NEW op \in {"status", "payment", "edit", "cancel"},
         NEW next \in Row, NEW amount \in Nat, NEW whole \in BOOLEAN,
         Start(r, op, o, next, amount, whole)
  PROVE  TypeOK'
  BY DEF TypeOK, Start, Transaction

-----------------------------------------------------------------------------
(* Type correctness.                                                       *)

LEMMA InitType == Init => TypeOK
  BY DEF Init, TypeOK, AbsentRow, Row, EmptyLedger, LedgerEntry, PaymentStatus

LEMMA NextType == TypeOK /\ [Next]_vars => TypeOK'
<1> SUFFICES ASSUME TypeOK, [Next]_vars PROVE TypeOK'
  OBVIOUS
<1>0. \A whole : (~whole) \in BOOLEAN
  OBVIOUS
<1>1. ASSUME NEW o \in Orders, Create(o) PROVE TypeOK'
  <2>1. PICK total, force, advance, due :
          /\ total \in Amounts /\ force \in BOOLEAN
          /\ advance \in Advances(total) /\ due \in Minus(total, advance)
          /\ order' = [order EXCEPT
                         ![o] = PricedRow(total, advance, due, force, "Absent")]
          /\ ledger' = IF advance = 0 THEN ledger
                       ELSE [ledger EXCEPT ![o] = Recorded(@, Stored(advance), 0)]
          /\ Note(o, Whole(total) /\ Whole(advance))
    BY <1>1, Zenon DEF Create
  <2>2. total \in Nat /\ advance \in Nat /\ advance <= total
    BY <2>1, AmountTypes
  <2>3. PricedRow(total, advance, due, force, "Absent") \in Row
    BY <2>1, <2>2, PricedRowType
  <2>4. Recorded(ledger[o], Stored(advance), 0) \in LedgerEntry
    BY <2>2, StoredNat, RecordedType DEF TypeOK
  <2>5. order' \in [Orders -> Row] /\ ledger' \in [Orders -> LedgerEntry]
    BY <2>1, <2>3, <2>4 DEF TypeOK
  <2>6. fractional' \in [Orders -> BOOLEAN]
    BY <2>1, Zenon DEF Note, TypeOK
  <2> QED BY <1>1, <2>5, <2>6 DEF Create, TypeOK
<1>2. ASSUME NEW r \in Requests, NEW o \in Orders, StartStatus(r, o)
      PROVE  TypeOK'
  <2>1. PICK status \in OrderStatus :
          Start(r, "status", o, SetStatusColumn(order[o], status), 0, TRUE)
    BY <1>2 DEF StartStatus
  <2>2. SetStatusColumn(order[o], status) \in Row
    BY ColumnTypes DEF TypeOK
  <2> QED BY <2>1, <2>2, StartType
<1>3. ASSUME NEW r \in Requests, NEW o \in Orders, StartPayment(r, o)
      PROVE  TypeOK'
  <2>1. PICK amount, paid, due :
          /\ amount \in Amounts \ {0}
          /\ paid \in Plus(Read(order[o].advance), amount)
          /\ due \in Minus(Read(order[o].total), paid)
          /\ paid <= Read(order[o].total)
          /\ Start(r, "payment", o,
                   PricedRow(Read(order[o].total), paid, due, FALSE,
                             order[o].status),
                   Stored(amount), Whole(amount))
    BY <1>3, Zenon DEF StartPayment
  <2>2. /\ order[o].total \in Nat /\ order[o].advance \in Nat
        /\ order[o].status \in OrderStatus \cup {"Absent"}
    BY DEF TypeOK, Row
  <2>3. Read(order[o].total) \in Nat /\ paid \in Nat /\ Stored(amount) \in Nat
    BY <2>1, <2>2, PaidTypes, Zenon
  <2>4. PricedRow(Read(order[o].total), paid, due, FALSE, order[o].status) \in Row
    BY <2>1, <2>2, <2>3, PricedRowType, Zenon
  <2>5. Whole(amount) \in BOOLEAN
    BY DEF Whole
  <2> QED BY <2>1, <2>3, <2>4, <2>5, StartType, Zenon
<1>4. ASSUME NEW r \in Requests, NEW o \in Orders, StartEdit(r, o)
      PROVE  TypeOK'
  <2>1. PICK total, advance, due :
          /\ total \in Amounts /\ advance \in Advances(total)
          /\ due \in Minus(total, advance)
          /\ Start(r, "edit", o,
                   PricedRow(total, advance, due, FALSE, order[o].status),
                   0, Whole(total) /\ Whole(advance))
    BY <1>4, Zenon DEF StartEdit
  <2>2. /\ total \in Nat /\ advance \in Nat /\ advance <= total
        /\ order[o].status \in OrderStatus \cup {"Absent"}
    BY <2>1, AmountTypes DEF TypeOK, Row
  <2>3. PricedRow(total, advance, due, FALSE, order[o].status) \in Row
    BY <2>1, <2>2, PricedRowType, Zenon
  <2>4. 0 \in Nat /\ (Whole(total) /\ Whole(advance)) \in BOOLEAN
    OBVIOUS
  <2> QED BY <2>1, <2>3, <2>4, StartType, Zenon
<1>5. ASSUME NEW r \in Requests, NEW o \in Orders, StartCancel(r, o)
      PROVE  TypeOK'
  <2>1. Start(r, "cancel", o, SetStatusColumn(order[o], "Cancelled"), 0, TRUE)
    BY <1>5 DEF StartCancel
  <2>2. SetStatusColumn(order[o], "Cancelled") \in Row
    BY ColumnTypes DEF TypeOK, OrderStatus, TerminalStatus
  <2> QED BY <2>1, <2>2, StartType
<1>6. ASSUME NEW r \in Requests, CommitStatus(r) PROVE TypeOK'
  <2>1. txn[r] \in Transaction
    BY <1>6 DEF CommitStatus, TypeOK, Idle
  <2>2. txn[r].order \in Orders /\ txn[r].next.status \in OrderStatus \cup {"Absent"}
    BY <2>1 DEF Transaction, Row
  <2>3. SetStatusColumn(order[txn[r].order], txn[r].next.status) \in Row
    BY <2>2, ColumnTypes DEF TypeOK
  <2> QED BY <1>6, <2>3 DEF CommitStatus, Finish, TypeOK
<1>7. ASSUME NEW r \in Requests, CommitPayment(r) PROVE TypeOK'
  <2>1. txn[r] \in Transaction
    BY <1>7 DEF CommitPayment, TypeOK, Idle
  <2> DEFINE o == txn[r].order
  <2>2. o \in Orders /\ txn[r].next \in Row /\ txn[r].amount \in Nat
        /\ txn[r].seen.advance \in Nat /\ order[o].total \in Nat
    BY <2>1 DEF Transaction, Row, TypeOK
  <2>3. SetMoneyColumns(order[o], txn[r].next) \in Row
    BY <2>2, ColumnTypes DEF TypeOK
  <2>4. Recorded(ledger[o], txn[r].amount, txn[r].seen.advance) \in LedgerEntry
    BY <2>2, RecordedType DEF TypeOK
  <2>5. fractional' \in [Orders -> BOOLEAN]
    BY <1>7, Zenon DEF CommitPayment, Note, TypeOK
  <2> QED BY <1>7, <2>2, <2>3, <2>4, <2>5 DEF CommitPayment, Finish, TypeOK
<1>8. ASSUME NEW r \in Requests, CommitEdit(r) PROVE TypeOK'
  <2>1. txn[r] \in Transaction
    BY <1>8 DEF CommitEdit, TypeOK, Idle
  <2>2. fractional' \in [Orders -> BOOLEAN]
    BY <1>8, Zenon DEF CommitEdit, Note, TypeOK
  <2> QED BY <1>8, <2>1, <2>2 DEF CommitEdit, Finish, TypeOK, Transaction
<1>9. ASSUME NEW r \in Requests, Abort(r) PROVE TypeOK'
  BY <1>9 DEF Abort, Finish, TypeOK
<1>10. CASE UNCHANGED vars
  BY <1>10 DEF vars, TypeOK
<1> QED
  BY <1>1, <1>2, <1>3, <1>4, <1>5, <1>6, <1>7, <1>8, <1>9, <1>10 DEF Next

\* Every reachable state is well typed: in particular no balance is negative,
\* whatever payments and edits raced and however their amounts were rounded.
THEOREM TypeCorrect == Spec => []TypeOK
  BY InitType, NextType, PTL DEF Spec

-----------------------------------------------------------------------------
(* The inductive invariant.                                                *)

LEMMA InitInv == Init => IInv
<1> SUFFICES ASSUME Init PROVE IInv
  OBVIOUS
<1>1. TypeOK
  BY InitType
<1>2. \A o \in Orders : RowInv(o)
  BY DEF Init, RowInv, AbsentRow
<1>3. \A r \in Requests : TxnInv(r)
  BY DEF Init, TxnInv
<1> QED BY <1>1, <1>2, <1>3 DEF IInv

\* The components of a row and of a transaction, from their types.
LEMMA RowParts ==
  ASSUME NEW row \in Row
  PROVE  /\ row.status \in OrderStatus \cup {"Absent"}
         /\ row.total \in Nat /\ row.advance \in Nat /\ row.balance \in Nat
  BY DEF Row

LEMMA TxnParts ==
  ASSUME TypeOK, NEW r \in Requests, txn[r] # Idle
  PROVE  /\ txn[r] \in Transaction
         /\ txn[r].order \in Orders /\ txn[r].seen \in Row
         /\ txn[r].next \in Row /\ txn[r].amount \in Nat
         /\ txn[r].whole \in BOOLEAN
         /\ txn[r].op \in {"status", "payment", "edit", "cancel"}
  BY DEF TypeOK, Transaction

\* What holds of an order as long as its row, its ledger and what has been
\* noted of it stay.
LEMMA SameRow ==
  ASSUME NEW o \in Orders, RowInv(o),
         order'[o] = order[o], ledger'[o] = ledger[o], edited'[o] = edited[o],
         fractional'[o] = fractional[o]
  PROVE  RowInv(o)'
  BY ZenonT(60) DEF RowInv, Covered

\* A request that only starts disturbs nothing but its own transaction.
LEMMA StartInv ==
  ASSUME IInv, TypeOK', NEW r \in Requests, NEW o \in Orders,
         NEW op, NEW next, NEW amount, NEW whole,
         Start(r, op, o, next, amount, whole),
         Planned([op |-> op, order |-> o, seen |-> order[o],
                  next |-> next, amount |-> amount, whole |-> whole])
  PROVE  IInv'
<1> DEFINE t == [op |-> op, order |-> o, seen |-> order[o],
                 next |-> next, amount |-> amount, whole |-> whole]
<1>1. /\ order' = order /\ ledger' = ledger /\ edited' = edited
      /\ fractional' = fractional
  BY DEF Start
<1>2. \A p \in Orders : RowInv(p)'
  BY <1>1, SameRow DEF IInv
<1>3. Fresh(t)
  BY DEF IInv, RowInv, Covered, Fresh, Start
<1>4. ASSUME NEW q \in Requests PROVE TxnInv(q)'
  <2>1. CASE q = r
    <3>1. txn'[q] = t
      BY <2>1 DEF Start, IInv, TypeOK
    <3>2. Planned(t)
      OBVIOUS
    <3>3. t.order = o /\ t.seen = order[o]
      OBVIOUS
    <3> HIDE DEF t
    <3>4. Fresh(txn[q])'
      BY <1>1, <1>3, <3>1, <3>3 DEF Fresh
    <3> QED BY <3>1, <3>2, <3>4, Zenon DEF TxnInv
  <2>2. CASE q # r
    <3>1. txn'[q] = txn[q]
      BY <2>2 DEF Start, IInv, TypeOK
    <3>2. TxnInv(q)
      BY DEF IInv
    <3> QED BY <3>1, <3>2, <1>1, Zenon DEF TxnInv, Fresh
  <2> QED BY <2>1, <2>2
<1> QED BY <1>2, <1>4 DEF IInv

\* A request that ends leaves the others valid if no order disappears and an
\* unedited one keeps its price and its ledger entries.
Keeps(o) ==
  /\ order[o].status # "Absent" => order'[o].status # "Absent"
  /\ ~fractional'[o] => ~fractional[o]
  /\ ~edited'[o] => /\ ~edited[o]
                    /\ order'[o].total = order[o].total
                    /\ ledger[o].collected <= ledger'[o].collected
                    /\ ledger[o].advances <= ledger'[o].advances

LEMMA KeepsFresh ==
  ASSUME TypeOK, TypeOK', NEW r \in Requests, txn[r] # Idle, Fresh(txn[r]),
         Keeps(txn[r].order), txn'[r] = txn[r]
  PROVE  Fresh(txn[r])'
<1> DEFINE t == txn[r]
           o == txn[r].order
<1>1. o \in Orders /\ t.seen.advance \in Nat
  BY TxnParts, RowParts
<1>2. /\ ledger[o].collected \in Nat /\ ledger'[o].collected \in Nat
      /\ ledger[o].advances \in Nat /\ ledger'[o].advances \in Nat
  BY <1>1 DEF TypeOK, LedgerEntry
<1> QED BY <1>1, <1>2 DEF Fresh, Keeps

LEMMA FinishInv ==
  ASSUME IInv, TypeOK', NEW r \in Requests, Finish(r),
         \A o \in Orders : Keeps(o)
  PROVE  \A q \in Requests : TxnInv(q)'
<1> SUFFICES ASSUME NEW q \in Requests, txn'[q] # Idle
             PROVE  Planned(txn'[q]) /\ Fresh(txn[q])'
  BY DEF TxnInv, Fresh
<1>1. q # r /\ txn'[q] = txn[q]
  BY DEF Finish, IInv, TypeOK
<1>2. Planned(txn[q]) /\ Fresh(txn[q]) /\ txn[q].order \in Orders
  BY <1>1, TxnParts DEF IInv, TxnInv
<1>3. Fresh(txn[q])'
  BY <1>1, <1>2, KeepsFresh DEF IInv
<1> QED BY <1>1, <1>2, <1>3, Zenon

LEMMA CreateInv ==
  ASSUME IInv, TypeOK', NEW o \in Orders, Create(o) PROVE IInv'
<1>1. PICK total, force, advance, due :
        /\ total \in Amounts /\ force \in BOOLEAN
        /\ advance \in Advances(total) /\ due \in Minus(total, advance)
        /\ Stored(total) > 0
        /\ advance > 0 => Stored(advance) > 0
        /\ order' = [order EXCEPT
                       ![o] = PricedRow(total, advance, due, force, "Absent")]
        /\ ledger' = IF advance = 0 THEN ledger
                     ELSE [ledger EXCEPT ![o] = Recorded(@, Stored(advance), 0)]
        /\ fractional' = [fractional EXCEPT
                            ![o] = @ \/ ~(Whole(total) /\ Whole(advance))]
  BY Zenon DEF Create, Note
<1>2. total \in Nat /\ advance \in Nat /\ advance <= total /\ Stored(advance) \in Nat
  BY <1>1, AmountTypes, StoredNat
<1> DEFINE row == PricedRow(total, advance, due, force, "Absent")
<1>3. /\ Agrees(row) /\ row.status \in OrderStatus /\ Close(row)
      /\ Whole(total) /\ Whole(advance) => Named(row) /\ row.balance = Due(row)
  BY <1>1, <1>2, PricedRowAgrees
<1>4. row.total = Stored(total) /\ row.advance = Stored(advance)
  BY DEF PricedRow
<1> HIDE DEF row
<1>5. /\ order'[o] = row /\ ledger[o] = EmptyLedger /\ order[o].status = "Absent"
      /\ ~edited[o] /\ ~fractional[o] /\ edited' = edited /\ txn' = txn
      /\ fractional'[o] <=> ~(Whole(total) /\ Whole(advance))
  BY <1>1 DEF Create, IInv, RowInv, TypeOK, row
<1>6. RowInv(o)'
  <2>1. row.status # "Absent" /\ row.total > 0
    BY <1>1, <1>3, <1>4 DEF OrderStatus, OpenStatus, TerminalStatus
  <2>2. ASSUME advance = 0 PROVE Covered(o)'
    <3>1. ledger'[o].collected = 0 /\ row.advance = 0
      BY <1>1, <1>4, <1>5, <2>2, StoredZero DEF EmptyLedger
    <3> QED BY <1>5, <3>1 DEF Covered
  <2>3. ASSUME advance # 0 PROVE Covered(o)'
    <3>1. ledger'[o].collected = row.advance /\ ledger'[o].advances = 1
      BY <1>1, <1>2, <1>4, <1>5, <2>3 DEF IInv, TypeOK, EmptyLedger, Recorded
    <3>2. row.advance \in Nat
      BY <1>2, <1>4
    <3> QED BY <1>5, <3>1, <3>2 DEF Covered
  <2>4. Covered(o)'
    BY <2>2, <2>3
  <2> QED BY <1>3, <1>5, <2>1, <2>4, Zenon DEF RowInv
<1>7. ASSUME NEW p \in Orders, p # o
      PROVE  /\ order'[p] = order[p] /\ ledger'[p] = ledger[p]
             /\ edited'[p] = edited[p] /\ fractional'[p] = fractional[p]
  BY <1>1, <1>5, <1>7 DEF IInv, TypeOK
<1>8. \A p \in Orders \ {o} : RowInv(p)'
  BY <1>7, SameRow DEF IInv
<1>9. ASSUME NEW q \in Requests PROVE TxnInv(q)'
  <2> SUFFICES ASSUME txn[q] # Idle PROVE Planned(txn[q]) /\ Fresh(txn[q])'
    BY <1>5 DEF TxnInv, Fresh
  <2>1. Planned(txn[q]) /\ Fresh(txn[q]) /\ txn[q].order \in Orders
    BY TxnParts DEF IInv, TxnInv
  <2>2. txn[q].order # o
    BY <2>1, <1>5 DEF Fresh
  <2>3. Fresh(txn[q])'
    BY <2>1, <2>2, <1>5, <1>7 DEF Fresh
  <2> QED BY <2>1, <2>3
<1> QED BY <1>6, <1>8, <1>9 DEF IInv

\* Outside the order it writes a commit changes nothing.
LEMMA OthersKept ==
  ASSUME IInv, TypeOK', NEW r \in Requests, Finish(r), NEW o \in Orders,
         RowInv(o)', Keeps(o),
         \A p \in Orders \ {o} :
           /\ order'[p] = order[p] /\ ledger'[p] = ledger[p]
           /\ edited'[p] = edited[p] /\ fractional'[p] = fractional[p]
  PROVE  IInv'
<1>1. ASSUME NEW p \in Orders PROVE RowInv(p)'
  <2>1. CASE p = o
    BY <2>1
  <2>2. CASE p # o
    BY <2>2, SameRow DEF IInv
  <2> QED BY <2>1, <2>2
<1>2. ASSUME NEW p \in Orders PROVE Keeps(p)
  <2>1. CASE p = o
    BY <2>1
  <2>2. CASE p # o
    <3>1. ledger[p].collected \in Nat /\ ledger[p].advances \in Nat
      BY DEF IInv, TypeOK, LedgerEntry
    <3> QED BY <2>2, <3>1 DEF Keeps
  <2> QED BY <2>1, <2>2
<1>3. \A q \in Requests : TxnInv(q)'
  BY <1>2, FinishInv
<1> QED BY <1>1, <1>3 DEF IInv

LEMMA CommitStatusInv ==
  ASSUME IInv, TypeOK', NEW r \in Requests, CommitStatus(r) PROVE IInv'
<1>0. txn[r] # Idle /\ txn[r].order \in Orders
  BY TxnParts DEF CommitStatus, Idle, IInv
<1> PICK o \in Orders : o = txn[r].order
  BY <1>0
<1> DEFINE row == SetStatusColumn(order[o], txn[r].next.status)
<1>1. /\ Planned(txn[r]) /\ Fresh(txn[r])
      /\ txn[r].next.status \notin {"Pending", "Absent"}
  BY <1>0 DEF CommitStatus, IInv, TxnInv, Planned, ValidTransition, Transitions
<1>2. /\ order' = [order EXCEPT ![o] = row] /\ ledger' = ledger /\ edited' = edited
      /\ fractional' = fractional
  BY DEF CommitStatus
<1>3. /\ row.status \notin {"Pending", "Absent"}
      /\ row.total = order[o].total /\ row.advance = order[o].advance
      /\ row.balance = order[o].balance /\ row.payment = order[o].payment
  BY <1>1 DEF SetStatusColumn
<1>4. order[o].status # "Absent" /\ RowInv(o)
  BY <1>1 DEF Fresh, IInv
<1> HIDE DEF row
<1>5. order'[o] = row /\ \A p \in Orders \ {o} : order'[p] = order[p]
  BY <1>1, <1>2 DEF IInv, TypeOK
<1>6. RowInv(o)'
  <2>1. Agrees(order[o]) => Agrees(row)
    BY <1>3 DEF Agrees
  <2>2. Named(order[o]) => Named(row)
    BY <1>3 DEF Named
  <2>3. Due(row) = Due(order[o]) /\ (Close(order[o]) => Close(row))
    BY <1>3 DEF Close, Due
  <2>4. Covered(o) => Covered(o)'
    BY <1>2, <1>3, <1>5 DEF Covered
  <2> QED BY <1>2, <1>3, <1>4, <1>5, <2>1, <2>2, <2>3, <2>4, Zenon DEF RowInv
<1>7. Keeps(o)
  <2>1. ledger[o].collected \in Nat /\ ledger[o].advances \in Nat
    BY DEF IInv, TypeOK, LedgerEntry
  <2> QED BY <1>2, <1>3, <1>5, <2>1 DEF Keeps
<1> QED BY <1>2, <1>5, <1>6, <1>7, OthersKept DEF CommitStatus

LEMMA CommitPaymentInv ==
  ASSUME IInv, TypeOK', NEW r \in Requests, CommitPayment(r) PROVE IInv'
<1>1. txn[r] # Idle /\ txn[r] \in Transaction /\ txn[r].order \in Orders
  BY TxnParts DEF CommitPayment, Idle, IInv
<1> PICK o \in Orders : o = txn[r].order
  BY <1>1
<1>2. /\ Planned(txn[r]) /\ Fresh(txn[r]) /\ RowInv(o)
      /\ order[o] \in Row /\ ledger[o] \in LedgerEntry
  BY <1>1 DEF IInv, TxnInv, TypeOK
<1> DEFINE seen == txn[r].seen
           row  == SetMoneyColumns(order[o], txn[r].next)
<1>3. PICK amount, paid, due :
        /\ amount \in Amounts \ {0}
        /\ txn[r].amount = Stored(amount) /\ txn[r].whole = Whole(amount)
        /\ paid \in Plus(Read(seen.advance), amount)
        /\ due \in Minus(Read(seen.total), paid)
        /\ paid <= Read(seen.total)
        /\ txn[r].next = PricedRow(Read(seen.total), paid, due, FALSE, seen.status)
  BY <1>2, Zenon DEF CommitPayment, Planned, PaymentPlanned
<1>4. /\ seen.total \in Nat /\ seen.advance \in Nat /\ amount \in Nat
      /\ Stored(amount) \in Nat /\ Stored(amount) > 0
      /\ Stored(paid) <= order[o].total
  <2>1. seen.total \in Nat /\ seen.advance \in Nat
    BY <1>1 DEF Transaction, Row
  <2>2. txn[r].next.advance = Stored(paid)
    BY <1>3 DEF PricedRow
  <2>3. Stored(amount) > 0 /\ Stored(paid) <= order[o].total
    BY <1>3, <2>2 DEF CommitPayment
  <2> HIDE DEF seen
  <2> QED BY <1>3, <2>1, <2>3, PaidTypes
<1>5. seen.status \in OrderStatus
  BY <1>1, <1>2 DEF Transaction, Row, Planned
<1>6. /\ order' = [order EXCEPT ![o] = row] /\ edited' = edited
      /\ ledger' = [ledger EXCEPT ![o] = Recorded(@, Stored(amount), seen.advance)]
      /\ fractional' = [fractional EXCEPT ![o] = @ \/ ~Whole(amount)]
  BY <1>3 DEF CommitPayment, Note
<1>7. /\ Agrees(row) /\ Named(row) /\ row.status \in OrderStatus \ {"Pending"}
      /\ row.total = order[o].total
      /\ row.advance > 0
      /\ row.balance - (seen.total - row.advance) \in -1..1
      /\ Whole(amount) => /\ row.advance = seen.advance + Stored(amount)
                          /\ row.balance = seen.total - row.advance
  <2>1. row = PaidRow(order[o], seen.total, paid, due, seen.status)
    BY <1>3, Zenon DEF PaidRow
  <2> HIDE DEF row, seen
  <2> QED BY <2>1, <1>2, <1>3, <1>4, <1>5, PaidRowAgrees
<1>8. /\ ledger'[o].collected = ledger[o].collected + Stored(amount)
      /\ ledger'[o].advances =
           ledger[o].advances + (IF seen.advance = 0 THEN 1 ELSE 0)
      /\ ledger[o].collected \in Nat /\ ledger[o].advances \in Nat
  BY <1>2, <1>6 DEF IInv, TypeOK, Recorded, LedgerEntry
<1> HIDE DEF row
<1>9. order'[o] = row /\ (fractional'[o] <=> fractional[o] \/ ~Whole(amount))
  BY <1>6 DEF IInv, TypeOK
<1>10. ASSUME NEW p \in Orders \ {o}
       PROVE  /\ order'[p] = order[p] /\ ledger'[p] = ledger[p]
              /\ edited'[p] = edited[p] /\ fractional'[p] = fractional[p]
  BY <1>6, <1>10 DEF IInv, TypeOK
<1>11. RowInv(o)'
  <2>1. order[o].status # "Absent" /\ order[o].total > 0 /\ row.status # "Absent"
    BY <1>2, <1>7 DEF Fresh, RowInv, OrderStatus, OpenStatus, TerminalStatus
  <2>2. ASSUME ~edited[o]
        PROVE  /\ Close(row)
               /\ Whole(amount) => row.balance = Due(row)
               /\ Covered(o)'
    <3>1. /\ seen.total = order[o].total
          /\ seen.advance > 0 => ledger[o].advances > 0
          /\ ~fractional[o] => seen.advance <= ledger[o].collected
      BY <1>2, <2>2 DEF Fresh
    <3>2. Close(row) /\ (Whole(amount) => row.balance = Due(row))
      BY <3>1, <1>7 DEF Close, Due
    <3> HIDE DEF seen
    <3>3. ledger'[o].advances > 0
      BY <3>1, <1>4, <1>8
    <3>4. ~fractional[o] /\ Whole(amount) => row.advance <= ledger'[o].collected
      BY <3>1, <1>4, <1>7, <1>8
    <3>5. Covered(o)'
      BY <1>9, <3>3, <3>4 DEF Covered
    <3> QED BY <3>2, <3>5
  <2>3. row.total > 0
    BY <1>7, <2>1
  <2> QED BY <1>6, <1>7, <1>9, <2>1, <2>2, <2>3, Zenon DEF RowInv
<1>12. Keeps(o)
  <2>1. row.status # "Absent"
    BY <1>7 DEF OrderStatus, OpenStatus, TerminalStatus
  <2> QED BY <1>4, <1>6, <1>7, <1>8, <1>9, <2>1 DEF Keeps
<1> QED BY <1>10, <1>11, <1>12, OthersKept DEF CommitPayment

LEMMA CommitEditInv ==
  ASSUME IInv, TypeOK', NEW r \in Requests, CommitEdit(r) PROVE IInv'
<1>0. txn[r] # Idle /\ txn[r].order \in Orders
  BY TxnParts DEF CommitEdit, Idle, IInv
<1> PICK o \in Orders : o = txn[r].order
  BY <1>0
<1> DEFINE row == txn[r].next
<1>1. PICK total, advance, due :
        /\ total \in Amounts /\ advance \in Advances(total)
        /\ due \in Minus(total, advance)
        /\ row = PricedRow(total, advance, due, FALSE, txn[r].seen.status)
        /\ txn[r].whole = (Whole(total) /\ Whole(advance))
  BY <1>0, Zenon DEF CommitEdit, IInv, TxnInv, Planned, EditPlanned
<1>2. /\ Agrees(row) /\ row.status \in OrderStatus
      /\ txn[r].whole => Named(row)
  <2>1. total \in Nat /\ advance \in Nat /\ advance <= total
    BY <1>1, AmountTypes
  <2>2. txn[r].seen.status \in OrderStatus \cup {"Absent"}
    BY <1>0, TxnParts, RowParts DEF IInv
  <2> HIDE DEF row
  <2> QED BY <1>1, <2>1, <2>2, PricedRowAgrees
<1>3. /\ order' = [order EXCEPT ![o] = row] /\ ledger' = ledger
      /\ edited' = [edited EXCEPT ![o] = TRUE]
      /\ fractional' = [fractional EXCEPT ![o] = @ \/ ~txn[r].whole]
      /\ row.total > 0
  BY DEF CommitEdit, Note
<1> HIDE DEF row
<1>4. /\ order'[o] = row /\ edited'[o]
      /\ fractional'[o] <=> fractional[o] \/ ~txn[r].whole
  BY <1>3 DEF IInv, TypeOK
<1>5. ASSUME NEW p \in Orders \ {o}
      PROVE  /\ order'[p] = order[p] /\ ledger'[p] = ledger[p]
             /\ edited'[p] = edited[p] /\ fractional'[p] = fractional[p]
  BY <1>3, <1>5 DEF IInv, TypeOK
<1>6. row.status # "Absent"
  BY <1>2 DEF OrderStatus, OpenStatus, TerminalStatus
<1>7. RowInv(o)'
  BY <1>2, <1>3, <1>4, <1>6, Zenon DEF RowInv
<1>8. Keeps(o)
  BY <1>4, <1>6 DEF Keeps
<1> QED BY <1>5, <1>7, <1>8, OthersKept DEF CommitEdit

LEMMA AbortInv ==
  ASSUME IInv, TypeOK', NEW r \in Requests, Abort(r) PROVE IInv'
<1>1. /\ order' = order /\ ledger' = ledger /\ edited' = edited
      /\ fractional' = fractional /\ Finish(r)
  BY DEF Abort
<1>2. \A o \in Orders : RowInv(o)'
  BY <1>1, SameRow DEF IInv
<1>3. \A o \in Orders : Keeps(o)
  <2>1. \A o \in Orders : ledger[o].collected \in Nat /\ ledger[o].advances \in Nat
    BY DEF IInv, TypeOK, LedgerEntry
  <2> QED BY <1>1, <2>1 DEF Keeps
<1>4. \A q \in Requests : TxnInv(q)'
  BY <1>1, <1>3, FinishInv
<1> QED BY <1>2, <1>4 DEF IInv

\* Each way of starting a request plans a legitimate write.
LEMMA StartsInv ==
  ASSUME IInv, TypeOK', NEW r \in Requests, NEW o \in Orders,
         StartStatus(r, o) \/ StartPayment(r, o) \/ StartEdit(r, o) \/ StartCancel(r, o)
  PROVE  IInv'
<1> DEFINE t(op, next, amount, whole) ==
             [op |-> op, order |-> o, seen |-> order[o],
              next |-> next, amount |-> amount, whole |-> whole]
<1>1. order[o] \in Row /\ order[o].status # "Absent"
  BY DEF StartStatus, StartPayment, StartEdit, StartCancel, Start, IInv, TypeOK
<1>2. CASE StartStatus(r, o)
  <2>1. PICK status \in OrderStatus :
          /\ ValidTransition(order[o].status, status)
          /\ Start(r, "status", o, SetStatusColumn(order[o], status), 0, TRUE)
    BY <1>2, Zenon DEF StartStatus
  <2>2. status # "Absent"
    BY <2>1 DEF ValidTransition, Transitions
  <2>3. Planned(t("status", SetStatusColumn(order[o], status), 0, TRUE))
    BY <1>1, <2>1, <2>2 DEF Planned, SetStatusColumn
  <2> QED BY <2>1, <2>3, StartInv, Zenon
<1>3. CASE StartPayment(r, o)
  <2>1. PICK amount, paid, due :
          /\ amount \in Amounts \ {0} /\ amount <= Read(order[o].balance)
          /\ paid \in Plus(Read(order[o].advance), amount)
          /\ due \in Minus(Read(order[o].total), paid)
          /\ paid <= Read(order[o].total)
          /\ Start(r, "payment", o,
                   PricedRow(Read(order[o].total), paid, due, FALSE,
                             order[o].status),
                   Stored(amount), Whole(amount))
    BY <1>3, Zenon DEF StartPayment
  <2> DEFINE next == PricedRow(Read(order[o].total), paid, due, FALSE,
                               order[o].status)
             plan == t("payment", next, Stored(amount), Whole(amount))
  <2>2. next.status # "Absent"
    BY <1>1 DEF PricedRow, DerivedStatus
  <2>3. /\ plan.op = "payment" /\ plan.seen = order[o] /\ plan.next = next
        /\ plan.amount = Stored(amount) /\ plan.whole = Whole(amount)
    OBVIOUS
  <2> HIDE DEF plan
  <2>4. PaymentPlanned(plan)
    BY <2>1, <2>3, Zenon DEF PaymentPlanned
  <2>5. Planned(plan)
    BY <1>1, <2>2, <2>3, <2>4 DEF Planned
  <2> QED BY <2>1, <2>5, StartInv, Zenon DEF plan
<1>4. CASE StartEdit(r, o)
  <2>1. PICK total, advance, due :
          /\ total \in Amounts /\ advance \in Advances(total)
          /\ due \in Minus(total, advance)
          /\ order[o].status \notin TerminalStatus
          /\ Start(r, "edit", o,
                   PricedRow(total, advance, due, FALSE, order[o].status),
                   0, Whole(total) /\ Whole(advance))
    BY <1>4, Zenon DEF StartEdit
  <2> DEFINE next == PricedRow(total, advance, due, FALSE, order[o].status)
             plan == t("edit", next, 0, Whole(total) /\ Whole(advance))
  <2>2. next.status # "Absent"
    BY <1>1 DEF PricedRow, DerivedStatus
  <2>3. /\ plan.op = "edit" /\ plan.seen = order[o] /\ plan.next = next
        /\ plan.whole = (Whole(total) /\ Whole(advance))
    OBVIOUS
  <2> HIDE DEF plan
  <2>4. EditPlanned(plan)
    BY <2>1, <2>3, Zenon DEF EditPlanned
  <2>5. Planned(plan)
    BY <1>1, <2>2, <2>3, <2>4 DEF Planned
  <2> QED BY <2>1, <2>5, StartInv, Zenon DEF plan
<1>5. CASE StartCancel(r, o)
  <2>1. /\ order[o].status \notin TerminalStatus
        /\ Start(r, "cancel", o, SetStatusColumn(order[o], "Cancelled"), 0, TRUE)
    BY <1>5, Zenon DEF StartCancel
  <2>2. ValidTransition(order[o].status, "Cancelled")
    BY <1>1, <2>1 DEF ValidTransition, Transitions, TerminalStatus, Row,
                      OrderStatus, OpenStatus
  <2>3. Planned(t("cancel", SetStatusColumn(order[o], "Cancelled"), 0, TRUE))
    BY <1>1, <2>2 DEF Planned, SetStatusColumn
  <2> QED BY <2>1, <2>3, StartInv, Zenon
<1> QED BY <1>2, <1>3, <1>4, <1>5

LEMMA NextInv == IInv /\ [Next]_vars => IInv'
<1> SUFFICES ASSUME IInv, [Next]_vars PROVE IInv'
  OBVIOUS
<1>1. TypeOK'
  BY NextType DEF IInv
<1>2. ASSUME NEW o \in Orders, Create(o) PROVE IInv'
  BY <1>1, <1>2, CreateInv
<1>3. ASSUME NEW r \in Requests, NEW o \in Orders,
             StartStatus(r, o) \/ StartPayment(r, o) \/ StartEdit(r, o) \/ StartCancel(r, o)
      PROVE  IInv'
  BY <1>1, <1>3, StartsInv
<1>4. ASSUME NEW r \in Requests,
             CommitStatus(r) \/ CommitPayment(r) \/ CommitEdit(r) \/ Abort(r)
      PROVE  IInv'
  BY <1>1, <1>4, CommitStatusInv, CommitPaymentInv, CommitEditInv, AbortInv
<1>5. CASE UNCHANGED vars
  <2>1. \A o \in Orders : RowInv(o)'
    BY <1>5, SameRow DEF vars, IInv
  <2>2. \A r \in Requests : TxnInv(r)'
    BY <1>5 DEF vars, IInv, TxnInv, Fresh
  <2> QED BY <1>1, <2>1, <2>2 DEF IInv
<1> QED BY <1>2, <1>3, <1>4, <1>5 DEF Next

THEOREM Invariance == Spec => []IInv
  BY InitInv, NextInv, PTL DEF Spec

-----------------------------------------------------------------------------
(* What follows from it, for any number of overlapping requests.           *)

\* The payment label, the balance and the order status of a row always agree,
\* as far as the rounding of the columns lets them (orders.service.ts 36-50).
THEOREM LabelsCorrect == Spec => []LabelsAgree
<1>1. IInv => LabelsAgree
  BY DEF IInv, RowInv, LabelsAgree, Existing
<1> QED BY <1>1, Invariance, PTL

\* Without an edit, balance_due is the price less what was paid.
THEOREM BalanceCorrect == Spec => []UneditedBalance
<1>1. IInv => UneditedBalance
  BY DEF IInv, RowInv, UneditedBalance, Existing
<1> QED BY <1>1, Invariance, PTL

\* Without an edit, the ledger covers what the row claims was paid.
THEOREM LedgerCorrect == Spec => []UneditedLedgerCovers
<1>1. IInv => UneditedLedgerCovers
  BY DEF IInv, RowInv, UneditedLedgerCovers, Existing
<1> QED BY <1>1, Invariance, PTL

\* A settled order moves only at the hands of a request that saw it unsettled:
\* once no such request is in flight, Delivered and Cancelled are final.
THEOREM SettledCorrect == Spec => SettledOnceDrained
<1>1. ASSUME IInv, [Next]_vars, NEW o \in Orders,
             order[o].status \in TerminalStatus, StaleFor(o) = {}
      PROVE  order'[o].status = order[o].status
  <2>1. ASSUME NEW r \in Requests, txn[r] # Idle, txn[r].order = o
        PROVE  /\ txn[r].op = "payment"
               /\ txn[r].next.status = order[o].status
    <3>1. /\ Planned(txn[r]) /\ txn[r].seen.status = order[o].status
          /\ txn[r].op \in {"status", "payment", "edit", "cancel"}
      BY <1>1, <2>1, TxnParts DEF IInv, TxnInv, StaleFor
    <3>2. txn[r].op = "payment"
      BY <1>1, <3>1 DEF Planned, EditPlanned, ValidTransition, Transitions,
                        TerminalStatus
    <3>3. PaymentPlanned(txn[r])
      BY <3>1, <3>2 DEF Planned
    <3>4. PICK total, paid, due :
            txn[r].next = PricedRow(total, paid, due, FALSE, txn[r].seen.status)
      BY <3>3, Zenon DEF PaymentPlanned
    <3> QED BY <1>1, <3>1, <3>2, <3>4 DEF PricedRow, DerivedStatus
  <2>2. ASSUME NEW p \in Orders, Create(p) PROVE order'[o] = order[o]
    <3>1. p # o
      BY <1>1, <2>2 DEF Create, TerminalStatus
    <3> QED BY <2>2, <3>1 DEF Create
  <2>3. ASSUME NEW r \in Requests, NEW p \in Orders,
               StartStatus(r, p) \/ StartPayment(r, p) \/ StartEdit(r, p) \/ StartCancel(r, p)
        PROVE  order' = order
    BY <2>3, Zenon DEF StartStatus, StartPayment, StartEdit, StartCancel, Start
  <2>4. ASSUME NEW r \in Requests, CommitStatus(r)
        PROVE  order'[o] = order[o]
    <3>1. txn[r] # Idle /\ txn[r].order # o
      BY <2>1, <2>4 DEF CommitStatus, Idle
    <3> QED BY <2>4, <3>1 DEF CommitStatus
  <2>5. ASSUME NEW r \in Requests, CommitPayment(r)
        PROVE  order'[o].status = order[o].status
    <3>1. txn[r] # Idle
      BY <2>5 DEF CommitPayment, Idle
    <3>2. order' = [order EXCEPT ![txn[r].order] =
                      SetMoneyColumns(order[txn[r].order], txn[r].next)]
      BY <2>5 DEF CommitPayment
    <3>3. CASE txn[r].order = o
      <4>1. order'[o] = SetMoneyColumns(order[o], txn[r].next)
        BY <1>1, <3>2, <3>3 DEF IInv, TypeOK
      <4> QED BY <2>1, <3>1, <3>3, <4>1 DEF SetMoneyColumns
    <3>4. CASE txn[r].order # o
      BY <3>2, <3>4
    <3> QED BY <3>3, <3>4
  <2>6. ASSUME NEW r \in Requests, CommitEdit(r)
        PROVE  order'[o] = order[o]
    <3>1. txn[r] # Idle /\ txn[r].order # o
      BY <2>1, <2>6 DEF CommitEdit, Idle
    <3> QED BY <2>6, <3>1 DEF CommitEdit
  <2>7. ASSUME NEW r \in Requests, Abort(r) PROVE order' = order
    BY <2>7 DEF Abort
  <2>8. CASE UNCHANGED vars
    BY <2>8 DEF vars
  <2> QED BY <1>1, <2>2, <2>3, <2>4, <2>5, <2>6, <2>7, <2>8 DEF Next
<1>2. IInv /\ [Next]_vars =>
        [\A o \in Orders :
           order[o].status \in TerminalStatus /\ StaleFor(o) = {}
             => order'[o].status = order[o].status]_vars
  BY <1>1
<1> QED BY <1>2, Invariance, PTL DEF Spec, SettledOnceDrained

-----------------------------------------------------------------------------
(* A request whose read is still current is an atomic one.                 *)

\* The order book computes with the same rules.
LEMMA SameRules ==
  /\ \A column : Book!Read(column) = Read(column)
  /\ \A amount : Book!Stored(amount) = Stored(amount)
  /\ \A total : Book!Advances(total) = Advances(total)
  /\ \A a, b : Book!Plus(a, b) = Plus(a, b) /\ Book!Minus(a, b) = Minus(a, b)
  /\ \A total, advance, due, force, current :
       Book!PricedRow(total, advance, due, force, current)
         = PricedRow(total, advance, due, force, current)
  /\ \A row, status : Book!SetStatusColumn(row, status) = SetStatusColumn(row, status)
  /\ \A entry, amount, previous :
       Book!Recorded(entry, amount, previous) = Recorded(entry, amount, previous)
  /\ \A from, to : Book!ValidTransition(from, to) <=> ValidTransition(from, to)
  /\ Book!OpenStatus = OpenStatus /\ Book!OrderStatus = OrderStatus
  /\ Book!AbsentRow = AbsentRow /\ Book!EmptyLedger = EmptyLedger
  BY Zenon DEF Book!PricedRow, PricedRow, Book!DerivedStatus, DerivedStatus,
     Book!PaymentLabel, PaymentLabel, Book!SetStatusColumn, SetStatusColumn,
     Book!Recorded, Recorded, Book!ValidTransition, ValidTransition,
     Book!Transitions, Transitions, Book!OpenStatus, OpenStatus,
     Book!OrderStatus, OrderStatus, Book!TerminalStatus, TerminalStatus,
     Book!AbsentRow, AbsentRow, Book!EmptyLedger, EmptyLedger, Book!Read, Read,
     Book!Stored, Stored, Book!Advances, Advances, Book!Plus, Plus,
     Book!Minus, Minus

LEMMA CommitRefines ==
  ASSUME IInv, NEW r \in Requests, txn[r] # Idle, NEW o \in Orders,
         txn[r].order = o, txn[r].seen = order[o]
  PROVE  /\ CommitStatus(r) => Book!SetStatus(o)
         /\ CommitPayment(r) => Book!Pay(o)
         /\ CommitEdit(r) => Book!Edit(o)
<1>1. /\ Planned(txn[r]) /\ order[o] \in Row /\ order[o].status # "Absent"
      /\ txn[r].next.status \in OrderStatus
  <2>1. txn[r].next.status \in OrderStatus \cup {"Absent"}
    BY TxnParts DEF IInv, Row
  <2> QED BY <2>1, TxnParts DEF IInv, TxnInv, TypeOK, Planned
<1>2. ASSUME CommitStatus(r) PROVE Book!SetStatus(o)
  <2>1. ValidTransition(order[o].status, txn[r].next.status)
    BY <1>1, <1>2 DEF CommitStatus, Planned
  <2> QED BY <1>1, <1>2, <2>1, SameRules, Zenon DEF CommitStatus, Book!SetStatus
<1>3. ASSUME CommitPayment(r) PROVE Book!Pay(o)
  <2>1. PaymentPlanned(txn[r])
    BY <1>1, <1>3 DEF CommitPayment, Planned
  <2>2. PICK amount, paid, due :
          /\ amount \in Amounts \ {0} /\ amount <= Read(order[o].balance)
          /\ txn[r].amount = Stored(amount)
          /\ paid \in Plus(Read(order[o].advance), amount)
          /\ due \in Minus(Read(order[o].total), paid)
          /\ paid <= Read(order[o].total)
          /\ txn[r].next = PricedRow(Read(order[o].total), paid, due, FALSE,
                                     order[o].status)
    BY <2>1, Zenon DEF PaymentPlanned
  <2>3. SetMoneyColumns(order[o], txn[r].next) = txn[r].next
    <3>1. Stored(Read(order[o].total)) = order[o].total
      BY <1>1, RowParts, StoredRead
    <3> QED BY <2>2, <3>1 DEF SetMoneyColumns, PricedRow
  <2>4. /\ order' = [order EXCEPT ![o] = txn[r].next] /\ edited' = edited
        /\ ledger' = [ledger EXCEPT
                        ![o] = Recorded(@, Stored(amount), order[o].advance)]
        /\ Stored(amount) > 0
    BY <1>3, <2>2, <2>3 DEF CommitPayment
  <2> QED BY <1>1, <2>2, <2>4, SameRules, Zenon DEF Book!Pay
<1>4. ASSUME CommitEdit(r) PROVE Book!Edit(o)
  <2>1. EditPlanned(txn[r])
    BY <1>1, <1>4 DEF CommitEdit, Planned
  <2>2. order[o].status \in OpenStatus
    BY <1>1, <2>1 DEF EditPlanned, Row, OrderStatus
  <2>3. PICK total, advance, due :
          /\ total \in Amounts /\ advance \in Advances(total)
          /\ due \in Minus(total, advance)
          /\ txn[r].next = PricedRow(total, advance, due, FALSE, order[o].status)
    BY <2>1, Zenon DEF EditPlanned
  <2>4. /\ order' = [order EXCEPT ![o] = txn[r].next]
        /\ edited' = [edited EXCEPT ![o] = TRUE] /\ ledger' = ledger
        /\ txn[r].next.total > 0
    BY <1>4 DEF CommitEdit
  <2>5. Stored(total) > 0
    BY <2>3, <2>4 DEF PricedRow
  <2> QED BY <2>2, <2>3, <2>4, <2>5, SameRules, Zenon DEF Book!Edit
<1> QED BY <1>2, <1>3, <1>4

\* The steps that begin a request, or give it up, are invisible in the book.
LEMMA QuietStart ==
  ASSUME NEW r \in Requests, NEW o \in Orders,
         StartStatus(r, o) \/ StartPayment(r, o) \/ StartEdit(r, o) \/ StartCancel(r, o)
  PROVE  /\ order' = order /\ ledger' = ledger /\ edited' = edited
         /\ fractional' = fractional
<1>1. ASSUME NEW op, NEW next, NEW amount, NEW whole,
             Start(r, op, o, next, amount, whole)
      PROVE  /\ order' = order /\ ledger' = ledger /\ edited' = edited
             /\ fractional' = fractional
  BY <1>1 DEF Start
<1> QED BY <1>1, Zenon DEF StartStatus, StartPayment, StartEdit, StartCancel

LEMMA CommitIsBookStep ==
  ASSUME IInv, NEW r \in Requests, CommitStatus(r) \/ CommitPayment(r) \/ CommitEdit(r),
         txn[r].seen = order[txn[r].order]
  PROVE  Book!Next
<1>1. txn[r] # Idle
  BY DEF CommitStatus, CommitPayment, CommitEdit, Idle
<1> PICK o \in Orders : o = txn[r].order
  BY <1>1, TxnParts DEF IInv
<1>2. Book!SetStatus(o) \/ Book!Pay(o) \/ Book!Edit(o)
  BY <1>1, CommitRefines
<1> QED BY <1>2 DEF Book!Next

\* However many requests overlap, one whose read is still current when it
\* commits is an atomic step of the order book, or changes nothing.
THEOREM CurrentCorrect == Spec => CurrentIsAtomic
<1>1. ASSUME IInv, [Next]_vars, NEW r \in Requests, txn[r] # Idle, txn'[r] = Idle,
             txn[r].seen = order[txn[r].order]
      PROVE  UNCHANGED Book!vars \/ Book!Next
  <2>1. ASSUME NEW q \in Requests,
               CommitStatus(q) \/ CommitPayment(q) \/ CommitEdit(q)
        PROVE  q = r
    <3>1. txn' = [txn EXCEPT ![q] = Idle]
      BY <2>1 DEF CommitStatus, CommitPayment, CommitEdit, Finish
    <3> QED BY <1>1, <3>1
  <2>2. ASSUME NEW o \in Orders, Create(o) PROVE FALSE
    BY <1>1, <2>2 DEF Create
  <2>3. ASSUME NEW q \in Requests,
               CommitStatus(q) \/ CommitPayment(q) \/ CommitEdit(q)
        PROVE  Book!Next
    BY <1>1, <2>1, <2>3, CommitIsBookStep
  <2>4. CASE UNCHANGED vars
    BY <2>4 DEF vars, Book!vars
  <2>5. ASSUME NEW q \in Requests, Abort(q) PROVE UNCHANGED Book!vars
    BY <2>5 DEF Abort, Book!vars
  <2>6. ASSUME NEW q \in Requests, NEW o \in Orders,
               StartStatus(q, o) \/ StartPayment(q, o) \/ StartEdit(q, o) \/ StartCancel(q, o)
        PROVE  UNCHANGED Book!vars
    BY <2>6, QuietStart DEF Book!vars
  <2> QED BY <1>1, <2>2, <2>3, <2>4, <2>5, <2>6 DEF Next
<1>2. IInv /\ [Next]_vars =>
        [\A r \in Requests :
           txn[r] # Idle /\ txn'[r] = Idle /\ txn[r].seen = order[txn[r].order]
             => UNCHANGED Book!vars \/ Book!Next]_vars
  BY <1>1
<1> QED BY <1>2, Invariance, PTL DEF Spec, CurrentIsAtomic

-----------------------------------------------------------------------------
(* One request at a time: the transactional API implements the atomic one. *)

LEMMA SeenInit == Init => SeenIsCurrent
  BY DEF Init, SeenIsCurrent

LEMMA SeenNext ==
  ASSUME \A r, s \in Requests : r = s, IInv, SeenIsCurrent, [Next]_vars
  PROVE  SeenIsCurrent'
<1>1. ASSUME NEW o \in Orders, Create(o) PROVE SeenIsCurrent'
  <2>1. ASSUME NEW r \in Requests, txn[r] # Idle
        PROVE  txn[r].order # o /\ txn[r].order \in Orders
    BY <1>1, <2>1, TxnParts DEF IInv, TxnInv, Fresh, Create
  <2>2. txn' = txn /\ \A p \in Orders \ {o} : order'[p] = order[p]
    BY <1>1 DEF Create, IInv, TypeOK
  <2> QED BY <2>1, <2>2 DEF SeenIsCurrent
<1>2. ASSUME NEW r \in Requests, NEW o \in Orders, NEW op, NEW next, NEW amount,
             NEW whole, Start(r, op, o, next, amount, whole)
      PROVE  SeenIsCurrent'
  <2>1. \A q \in Requests : q = r
    OBVIOUS
  <2>2. txn'[r].seen = order[o] /\ txn'[r].order = o /\ order' = order
    BY <1>2 DEF Start, IInv, TypeOK
  <2> QED BY <2>1, <2>2 DEF SeenIsCurrent
<1>3. ASSUME NEW r \in Requests, Finish(r) PROVE SeenIsCurrent'
  <2>1. \A q \in Requests : q = r
    OBVIOUS
  <2> QED BY <1>3, <2>1 DEF Finish, SeenIsCurrent, IInv, TypeOK
<1>4. ASSUME NEW r \in Requests, NEW o \in Orders,
             StartStatus(r, o) \/ StartPayment(r, o) \/ StartEdit(r, o) \/ StartCancel(r, o)
      PROVE  SeenIsCurrent'
  BY <1>2, <1>4, Zenon DEF StartStatus, StartPayment, StartEdit, StartCancel
<1>5. ASSUME NEW r \in Requests,
             CommitStatus(r) \/ CommitPayment(r) \/ CommitEdit(r) \/ Abort(r)
      PROVE  SeenIsCurrent'
  BY <1>3, <1>5 DEF CommitStatus, CommitPayment, CommitEdit, Abort
<1>6. CASE UNCHANGED vars
  BY <1>6 DEF vars, SeenIsCurrent
<1> QED BY <1>1, <1>4, <1>5, <1>6 DEF Next

\* Every step of a serial execution is an atomic step or invisible.
LEMMA StepRefines ==
  ASSUME IInv, SeenIsCurrent, [Next]_vars
  PROVE  [Book!Next]_(Book!vars)
<1>1. ASSUME NEW o \in Orders, Create(o) PROVE Book!Next
  <2>1. Book!Create(o)
    BY <1>1, SameRules, Zenon DEF Create, Book!Create
  <2> QED BY <2>1 DEF Book!Next
<1>2. ASSUME NEW r \in Requests, NEW o \in Orders,
             StartStatus(r, o) \/ StartPayment(r, o) \/ StartEdit(r, o) \/ StartCancel(r, o)
      PROVE  UNCHANGED Book!vars
  BY <1>2, QuietStart DEF Book!vars
<1>3. ASSUME NEW r \in Requests, CommitStatus(r) \/ CommitPayment(r) \/ CommitEdit(r)
      PROVE  Book!Next
  <2>1. txn[r] # Idle
    BY <1>3 DEF CommitStatus, CommitPayment, CommitEdit, Idle
  <2>2. txn[r].seen = order[txn[r].order]
    BY <2>1 DEF SeenIsCurrent
  <2> QED BY <1>3, <2>2, CommitIsBookStep
<1>4. ASSUME NEW r \in Requests, Abort(r) PROVE UNCHANGED Book!vars
  BY <1>4 DEF Abort, Book!vars
<1>5. CASE UNCHANGED vars
  BY <1>5 DEF vars, Book!vars
<1> QED BY <1>1, <1>2, <1>3, <1>4, <1>5 DEF Next

\* With requests that never overlap, the handlers implement the order book in
\* which every request takes effect at once.
THEOREM SerialRefinement ==
  ASSUME \A r, s \in Requests : r = s
  PROVE  Spec => BookSpec
<1>1. Init => Book!Init
  BY SameRules, Zenon DEF Init, Book!Init
<1>2. IInv /\ SeenIsCurrent /\ [Next]_vars => SeenIsCurrent'
  BY SeenNext
<1>3. IInv /\ SeenIsCurrent /\ [Next]_vars => [Book!Next]_(Book!vars)
  BY StepRefines
<1> QED BY <1>1, <1>2, <1>3, SeenInit, Invariance, PTL DEF Spec, BookSpec, Book!Spec

-----------------------------------------------------------------------------
(* What the comments and the schema promise is true of requests that do    *)
(* not overlap.                                                            *)

\* The books of order o balance; the first money that came in is its advance.
Balanced(o) ==
  order[o].status # "Absent" =>
    /\ ~fractional[o] => order[o].balance = Due(order[o])
    /\ ~edited[o] =>
         /\ ~fractional[o] => order[o].advance = ledger[o].collected
         /\ ledger[o].advances = IF order[o].advance = 0 THEN 0 ELSE 1

SerialInv == IInv /\ SeenIsCurrent /\ \A o \in Orders : Balanced(o)

LEMMA CreateBalances ==
  ASSUME IInv, NEW o \in Orders, Create(o) PROVE Balanced(o)'
<1>1. PICK total, force, advance, due :
        /\ total \in Amounts /\ force \in BOOLEAN
        /\ advance \in Advances(total) /\ due \in Minus(total, advance)
        /\ advance > 0 => Stored(advance) > 0
        /\ order' = [order EXCEPT
                       ![o] = PricedRow(total, advance, due, force, "Absent")]
        /\ ledger' = IF advance = 0 THEN ledger
                     ELSE [ledger EXCEPT ![o] = Recorded(@, Stored(advance), 0)]
        /\ fractional' = [fractional EXCEPT
                            ![o] = @ \/ ~(Whole(total) /\ Whole(advance))]
  BY Zenon DEF Create, Note
<1>2. total \in Nat /\ advance \in Nat /\ advance <= total /\ Stored(advance) \in Nat
  BY <1>1, AmountTypes, StoredNat
<1> DEFINE row == PricedRow(total, advance, due, force, "Absent")
<1>3. Whole(total) /\ Whole(advance) => row.balance = Due(row)
  BY <1>1, <1>2, PricedRowAgrees
<1>4. row.advance = Stored(advance)
  BY DEF PricedRow
<1> HIDE DEF row
<1>5. /\ order'[o] = row /\ ledger[o] = EmptyLedger
      /\ fractional'[o] <=> ~(Whole(total) /\ Whole(advance))
  BY <1>1 DEF Create, IInv, RowInv, TypeOK, row
<1>6. /\ ledger'[o].collected = row.advance
      /\ ledger'[o].advances = IF row.advance = 0 THEN 0 ELSE 1
  <2>1. CASE advance = 0
    <3>1. ledger'[o] = EmptyLedger /\ row.advance = 0
      BY <1>1, <1>4, <1>5, <2>1, StoredZero
    <3> QED BY <3>1 DEF EmptyLedger
  <2>2. CASE advance # 0
    <3>1. ledger'[o] = Recorded(EmptyLedger, Stored(advance), 0)
      BY <1>1, <1>5, <2>2 DEF IInv, TypeOK
    <3>2. row.advance > 0
      BY <1>1, <1>2, <1>4, <2>2
    <3> QED BY <1>2, <1>4, <3>1, <3>2 DEF EmptyLedger, Recorded
  <2> QED BY <2>1, <2>2
<1> QED BY <1>3, <1>5, <1>6 DEF Balanced

LEMMA CommitsBalance ==
  ASSUME SerialInv, TypeOK', NEW r \in Requests, txn[r] # Idle,
         NEW o \in Orders, txn[r].order = o,
         CommitStatus(r) \/ CommitPayment(r) \/ CommitEdit(r)
  PROVE  Balanced(o)'
<1> DEFINE t == txn[r]
<1>1. /\ Planned(t) /\ Fresh(t) /\ t.seen = order[o]
      /\ Balanced(o) /\ order[o] \in Row /\ ledger[o] \in LedgerEntry
  BY TxnParts DEF SerialInv, IInv, TxnInv, SeenIsCurrent, TypeOK
<1>2. /\ order[o].total \in Nat /\ order[o].advance \in Nat
      /\ ledger[o].collected \in Nat /\ ledger[o].advances \in Nat
      /\ order[o].status # "Absent" /\ order[o].status \in OrderStatus
  BY <1>1 DEF Row, LedgerEntry, Planned
<1>3. ASSUME CommitStatus(r) PROVE Balanced(o)'
  <2>1. /\ order'[o] = SetStatusColumn(order[o], t.next.status)
        /\ ledger' = ledger /\ edited' = edited /\ fractional' = fractional
    BY <1>1, <1>3 DEF CommitStatus, SerialInv, IInv, TypeOK
  <2>2. /\ order'[o].total = order[o].total /\ order'[o].advance = order[o].advance
        /\ order'[o].balance = order[o].balance
    BY <2>1 DEF SetStatusColumn
  <2> HIDE DEF t
  <2> QED BY <1>1, <1>2, <2>1, <2>2 DEF Balanced, Due
<1>4. ASSUME CommitPayment(r) PROVE Balanced(o)'
  <2>1. PICK amount, paid, due :
          /\ amount \in Amounts \ {0}
          /\ t.amount = Stored(amount) /\ t.whole = Whole(amount)
          /\ paid \in Plus(Read(order[o].advance), amount)
          /\ due \in Minus(Read(order[o].total), paid)
          /\ paid <= Read(order[o].total)
          /\ t.next = PricedRow(Read(order[o].total), paid, due, FALSE,
                                order[o].status)
    BY <1>1, <1>4, Zenon DEF CommitPayment, Planned, PaymentPlanned
  <2>2. t.next.advance = Stored(paid)
    BY <2>1 DEF PricedRow
  <2>3. /\ order'[o] = PaidRow(order[o], order[o].total, paid, due, order[o].status)
        /\ ledger'[o] = Recorded(ledger[o], Stored(amount), order[o].advance)
        /\ edited' = edited
        /\ fractional'[o] <=> fractional[o] \/ ~Whole(amount)
        /\ Stored(amount) > 0 /\ Stored(paid) <= order[o].total
    BY <1>1, <1>4, <2>1, <2>2
       DEF CommitPayment, Note, SerialInv, IInv, TypeOK, PaidRow
  <2>4. amount \in Nat /\ Stored(amount) \in Nat
    BY <1>2, <2>1, PaidTypes
  <2> DEFINE row == PaidRow(order[o], order[o].total, paid, due, order[o].status)
  <2>5. /\ row.total = order[o].total /\ row.advance > 0
        /\ Whole(amount) => /\ row.advance = order[o].advance + Stored(amount)
                            /\ row.balance = order[o].total - row.advance
    BY <1>1, <1>2, <2>1, <2>3, <2>4, PaidRowAgrees
  <2> HIDE DEF row, t
  <2>6. /\ ledger'[o].collected = ledger[o].collected + Stored(amount)
        /\ ledger'[o].advances =
             ledger[o].advances + (IF order[o].advance = 0 THEN 1 ELSE 0)
    BY <2>3 DEF Recorded
  <2>7. ~fractional'[o] => order'[o].balance = Due(order'[o])
    BY <2>3, <2>5 DEF Due, row
  <2>8. ASSUME ~edited[o]
        PROVE  /\ ~fractional'[o] => order'[o].advance = ledger'[o].collected
               /\ ledger'[o].advances = 1 /\ order'[o].advance > 0
    <3>1. /\ ~fractional[o] => order[o].advance = ledger[o].collected
          /\ ledger[o].advances = IF order[o].advance = 0 THEN 0 ELSE 1
      BY <1>1, <1>2, <2>8 DEF Balanced
    <3>2. order'[o] = row
      BY <2>3 DEF row
    <3> QED BY <1>2, <2>3, <2>5, <2>6, <3>1, <3>2
  <2> QED BY <2>3, <2>7, <2>8 DEF Balanced
<1>5. ASSUME CommitEdit(r) PROVE Balanced(o)'
  <2>1. PICK total, advance, due :
          /\ total \in Amounts /\ advance \in Advances(total)
          /\ due \in Minus(total, advance)
          /\ t.next = PricedRow(total, advance, due, FALSE, t.seen.status)
          /\ t.whole = (Whole(total) /\ Whole(advance))
    BY <1>1, <1>5, Zenon DEF CommitEdit, Planned, EditPlanned
  <2>2. /\ order'[o] = t.next /\ edited'[o]
        /\ fractional'[o] <=> fractional[o] \/ ~t.whole
    BY <1>1, <1>5 DEF CommitEdit, Note, SerialInv, IInv, TypeOK
  <2>3. total \in Nat /\ advance \in Nat /\ advance <= total
    BY <2>1, AmountTypes
  <2>4. t.seen.status \in OrderStatus \cup {"Absent"}
    BY <1>1, <1>2
  <2> DEFINE current == t.seen.status
             row == PricedRow(total, advance, due, FALSE, current)
  <2>5. t.next = row /\ (t.whole <=> Whole(total) /\ Whole(advance))
    BY <2>1
  <2>6. current \in OrderStatus \cup {"Absent"}
    BY <2>4
  <2> HIDE DEF t, current
  <2>7. Whole(total) /\ Whole(advance) => row.balance = Due(row)
    BY <2>1, <2>3, <2>6, PricedRowAgrees
  <2> HIDE DEF row
  <2> QED BY <2>2, <2>5, <2>7 DEF Balanced
<1> QED BY <1>3, <1>4, <1>5

LEMMA SerialNext ==
  ASSUME \A r, s \in Requests : r = s, SerialInv, [Next]_vars
  PROVE  SerialInv'
<1>1. IInv' /\ SeenIsCurrent' /\ TypeOK'
  BY NextInv, SeenNext DEF SerialInv, IInv
<1>2. ASSUME NEW o \in Orders, order'[o] = order[o], ledger'[o] = ledger[o],
             edited'[o] = edited[o], fractional'[o] = fractional[o]
      PROVE  Balanced(o)'
  BY <1>2, Zenon DEF SerialInv, Balanced
<1>3. ASSUME NEW o \in Orders, Create(o) PROVE \A p \in Orders : Balanced(p)'
  <2> SUFFICES ASSUME NEW p \in Orders PROVE Balanced(p)'
    OBVIOUS
  <2>1. CASE p = o
    BY <1>3, <2>1, CreateBalances DEF SerialInv
  <2>2. CASE p # o
    <3>1. /\ order'[p] = order[p] /\ ledger'[p] = ledger[p]
          /\ edited'[p] = edited[p] /\ fractional'[p] = fractional[p]
      BY <1>3, <2>2 DEF Create, Note, SerialInv, IInv, TypeOK
    <3> QED BY <3>1, <1>2
  <2> QED BY <2>1, <2>2
<1>4. ASSUME NEW r \in Requests, CommitStatus(r) \/ CommitPayment(r) \/ CommitEdit(r)
      PROVE  \A p \in Orders : Balanced(p)'
  <2>1. txn[r] # Idle
    BY <1>4 DEF CommitStatus, CommitPayment, CommitEdit, Idle
  <2> SUFFICES ASSUME NEW p \in Orders PROVE Balanced(p)'
    OBVIOUS
  <2>2. CASE p = txn[r].order
    BY <1>1, <1>4, <2>1, <2>2, CommitsBalance
  <2>3. CASE p # txn[r].order
    <3>1. /\ order'[p] = order[p] /\ ledger'[p] = ledger[p]
          /\ edited'[p] = edited[p] /\ fractional'[p] = fractional[p]
      <4>1. CASE CommitStatus(r)
        BY <2>3, <4>1 DEF CommitStatus, SerialInv, IInv, TypeOK
      <4>2. CASE CommitPayment(r)
        BY <2>3, <4>2 DEF CommitPayment, Note, SerialInv, IInv, TypeOK
      <4>3. CASE CommitEdit(r)
        BY <2>3, <4>3 DEF CommitEdit, Note, SerialInv, IInv, TypeOK
      <4> QED BY <1>4, <4>1, <4>2, <4>3
    <3> QED BY <3>1, <1>2
  <2> QED BY <2>2, <2>3
<1>5. ASSUME order' = order, ledger' = ledger, edited' = edited,
             fractional' = fractional
      PROVE  \A p \in Orders : Balanced(p)'
  BY <1>5, <1>2
<1>6. ASSUME NEW r \in Requests, Abort(r) PROVE \A p \in Orders : Balanced(p)'
  BY <1>5, <1>6 DEF Abort
<1>7. ASSUME UNCHANGED vars PROVE \A p \in Orders : Balanced(p)'
  BY <1>5, <1>7 DEF vars
<1>8. ASSUME NEW r \in Requests, NEW o \in Orders,
             StartStatus(r, o) \/ StartPayment(r, o) \/ StartEdit(r, o) \/ StartCancel(r, o)
      PROVE  \A p \in Orders : Balanced(p)'
  BY <1>5, <1>8, QuietStart
<1>9. \A o \in Orders : Balanced(o)'
  BY <1>3, <1>4, <1>6, <1>7, <1>8 DEF Next
<1> QED BY <1>1, <1>9 DEF SerialInv

\* With requests that never overlap no payment is lost: the row says what the
\* ledger holds, only the first money is an advance (orders.service.ts 398), and
\* the balance is what the schema says, after edits too; of amounts in whole
\* paise to the paisa.  The run orders_lostpayment shows that two requests are
\* enough to break it.
THEOREM SerialBooks ==
  ASSUME \A r, s \in Requests : r = s
  PROVE  Spec => [](LedgerIsExact /\ BalanceIsDue)
<1>1. Init => SerialInv
  BY InitInv, SeenInit DEF SerialInv, Init, Balanced, AbsentRow
<1>2. SerialInv /\ [Next]_vars => SerialInv'
  BY SerialNext
<1>3. SerialInv => LedgerIsExact /\ BalanceIsDue
  BY DEF SerialInv, Balanced, LedgerIsExact, BalanceIsDue, Existing
<1> QED BY <1>1, <1>2, <1>3, PTL DEF Spec

\* With requests that never overlap, Delivered and Cancelled are terminal and
\* immutable, as status-validation.service.ts 18 says.
THEOREM SerialTerminal ==
  ASSUME \A r, s \in Requests : r = s
  PROVE  Spec => TerminalIsFinal
<1>1. SeenIsCurrent => \A o \in Orders : StaleFor(o) = {}
  BY DEF SeenIsCurrent, StaleFor
<1>2. SeenIsCurrent /\ [\A o \in Orders :
           order[o].status \in TerminalStatus /\ StaleFor(o) = {}
             => order'[o].status = order[o].status]_vars
      => [\A o \in Orders : order[o].status \in TerminalStatus
             => order'[o].status = order[o].status]_vars
  BY <1>1
<1>3. IInv /\ SeenIsCurrent /\ [Next]_vars => SeenIsCurrent'
  BY SeenNext
<1> QED
  BY <1>2, <1>3, SeenInit, Invariance, SettledCorrect, PTL
     DEF Spec, SettledOnceDrained, TerminalIsFinal
=============================================================================
