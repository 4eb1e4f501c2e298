--------------------------- MODULE CustomersProofs ---------------------------
(***************************************************************************)
(* Theorems about Customers, for any customers, orders, phones and         *)
(* requests in flight.                                                     *)
(***************************************************************************)
EXTENDS Customers, FiniteSetTheorems, TLAPS

-----------------------------------------------------------------------------
(* The markers for a row that is not there are told apart.                 *)

LEMMA ThreeApart ==
  ASSUME NEW a, NEW b, NEW c, Cardinality({a, b, c}) = 3
  PROVE  a # b /\ a # c /\ b # c
<1>1. \A x, y : IsFiniteSet({x, y}) /\ Cardinality({x, y}) \in {1, 2}
  <2>1. SUFFICES ASSUME NEW x, NEW y
                 PROVE  IsFiniteSet({x, y}) /\ Cardinality({x, y}) \in {1, 2}
    OBVIOUS
  <2>2. {x, y} = {x} \cup {y} /\ IsFiniteSet({x}) /\ Cardinality({x}) = 1
    BY FS_Singleton
  <2>3. /\ IsFiniteSet({x} \cup {y})
        /\ Cardinality({x} \cup {y}) = IF y \in {x} THEN Cardinality({x})
                                       ELSE Cardinality({x}) + 1
    BY <2>2, FS_AddElement
  <2> QED BY <2>2, <2>3
<1>2. \A x, y : Cardinality({x, y}) # 3
  BY <1>1
<1>3. ASSUME a = b PROVE FALSE
  <2>1. {a, b, c} = {a, c}
    BY <1>3
  <2> QED BY <1>2, <2>1
<1>4. ASSUME a = c PROVE FALSE
  <2>1. {a, b, c} = {a, b}
    BY <1>4
  <2> QED BY <1>2, <2>1
<1>5. ASSUME b = c PROVE FALSE
  <2>1. {a, b, c} = {a, b}
    BY <1>5
  <2> QED BY <1>2, <2>1
<1> QED BY <1>3, <1>4, <1>5

LEMMA Markers ==
  /\ NoPhone \notin Phones /\ Absent \notin Phones /\ Deleted \notin Phones
  /\ NoOne \notin Customers /\ Absent \notin Customers /\ Deleted \notin Customers
  /\ NoPhone # Absent /\ NoPhone # Deleted /\ Absent # Deleted
  /\ NoOne # Absent /\ NoOne # Deleted
<1>1. /\ NoPhone # Absent /\ NoPhone # Deleted /\ Absent # Deleted
      /\ NoOne # Absent /\ NoOne # Deleted
  BY CustomersAssumption, ThreeApart
<1> QED BY <1>1, CustomersAssumption

-----------------------------------------------------------------------------
(* A request in flight.                                                    *)

Places == {"find", "touch", "insert", "match", "update", "attach", "lock",
           "count", "commit", "vet", "patch"}

LEMMA IdleIsNoTransaction ==
  ASSUME NEW t \in Transaction
  PROVE  t # Idle
  BY DEF Transaction, Idle

LEMMA Fields ==
  ASSUME NEW t \in Transaction
  PROVE  /\ t.op \in {"create", "edit", "patch"} /\ t.at \in Places
         /\ t.order \in Orders \cup {NoOne} /\ t.phone \in Phones \cup {NoPhone}
         /\ t.cust \in Customers \cup {NoOne} /\ t.seen \in Phones \cup {NoPhone}
         /\ t.wrote \in {"nothing", "row", "phone", "new"}
         /\ t.orphan \in Customers \cup {NoOne} /\ t.locks \in SUBSET Customers
         /\ t.remove \in {"no", "yes"} /\ t.from \in Customers \cup {NoOne}
         /\ t.moved \in SUBSET Customers
  BY DEF Transaction, Places

\* What holds of a request in flight, and of it and another.
LEMMA InFlight ==
  ASSUME IInv, NEW r \in Requests, txn[r] # Idle
  PROVE  txn[r] \in Transaction /\ Shape(r) /\ Holds(r) /\ Phoned(r) /\ Counted(r)
  BY DEF IInv, TypeOK

LEMMA TwoInFlight ==
  ASSUME IInv, NEW r \in Requests, NEW q \in Active(r), txn[r] # Idle
  PROVE  /\ q \in Requests /\ q # r /\ txn[q] # Idle
         /\ Apart(q, r) /\ Apart(r, q)
  BY DEF IInv, Active

-----------------------------------------------------------------------------
(* Steps that move one request and commit nothing.                         *)

LEMMA OnlyTheRequest ==
  ASSUME IInv, NEW r \in Requests, NEW t \in Transaction,
         txn' = [txn EXCEPT ![r] = t], UNCHANGED <<phone, holder, strayed>>,
         Shape(r)', Holds(r)', Phoned(r)', Counted(r)',
         \A q \in Active(r) : Apart(q, r)' /\ Apart(r, q)'
  PROVE  IInv'
<1>1. /\ txn' \in [Requests -> Transaction \cup {Idle}] /\ txn'[r] = t
      /\ \A q \in Requests \ {r} : txn'[q] = txn[q]
  BY DEF IInv, TypeOK
<1>2. TypeOK'
  BY <1>1 DEF IInv, TypeOK
<1>3. ASSUME NEW q \in Requests, txn'[q] # Idle
      PROVE  Shape(q)' /\ Holds(q)' /\ Phoned(q)' /\ Counted(q)'
  <2>1. CASE q = r
    BY <2>1
  <2>2. CASE q # r
    <3>1. txn'[q] = txn[q] /\ Shape(q) /\ Holds(q) /\ Phoned(q) /\ Counted(q)
      BY <1>1, <1>3, <2>2, InFlight
    <3>2. Shape(q)'
      BY <3>1 DEF Shape
    <3>3. Holds(q)'
      BY <3>1 DEF Holds, Attached, Present
    <3>4. Phoned(q)'
      BY <3>1 DEF Phoned
    <3>5. Counted(q)'
      BY <3>1 DEF Counted, OrdersOf
    <3> QED BY <3>2, <3>3, <3>4, <3>5
  <2> QED BY <2>1, <2>2
<1>4. ASSUME NEW p \in Requests, NEW q \in Requests, p # q, txn'[p] # Idle, txn'[q] # Idle
      PROVE  Apart(p, q)'
  <2>1. CASE p = r
    <3>1. q \in Active(r)
      BY <1>1, <1>4, <2>1 DEF Active
    <3> QED BY <2>1, <3>1
  <2>2. CASE q = r
    <3>1. p \in Active(r)
      BY <1>1, <1>4, <2>2 DEF Active
    <3> QED BY <2>2, <3>1
  <2>3. CASE p # r /\ q # r
    <3>1. txn'[p] = txn[p] /\ txn'[q] = txn[q] /\ Apart(p, q)
      BY <1>1, <1>4, <2>3 DEF IInv
    <3> QED BY <3>1 DEF Apart, Attached
  <2> QED BY <2>1, <2>2, <2>3
<1>5. Referenced' /\ NoOrphan'
  BY DEF IInv, Referenced, NoOrphan, Present, OrdersOf
<1> QED BY <1>2, <1>3, <1>4, <1>5 DEF IInv

\* As long as it has written no order it stays clear of the others.
LEMMA ClearOfOthers ==
  ASSUME IInv, NEW r \in Requests, NEW t \in Transaction,
         txn' = [txn EXCEPT ![r] = t], UNCHANGED holder,
         t.at \notin {"lock", "count", "commit"}, t.locks = {},
         \A q \in Active(r) :
           /\ t.op = "create" /\ txn[q].op = "create" => txn[q].order # t.order
           /\ t.wrote = "new" => txn[q].wrote # "new"
           /\ t.wrote # "nothing" /\ txn[q].wrote # "nothing" => txn[q].cust # t.cust
  PROVE  \A q \in Active(r) : Apart(q, r)' /\ Apart(r, q)'
<1>1. SUFFICES ASSUME NEW q \in Active(r)
               PROVE  Apart(q, r)' /\ Apart(r, q)'
  OBVIOUS
<1>2. txn'[r] = t /\ txn'[q] = txn[q]
  BY DEF IInv, TypeOK, Active
<1>3. ~Attached(r)'
  BY <1>2 DEF Attached
<1>4. txn'[q].locks \cap txn'[r].locks = {}
  BY <1>2
<1>5. Apart(q, r)'
  BY <1>2, <1>3, <1>4 DEF Apart
<1>6. Apart(r, q)'
  BY <1>2, <1>3, <1>4 DEF Apart
<1> QED BY <1>5, <1>6

\* A request begins: it has read at most the order's customer.
LEMMA Begins ==
  ASSUME IInv, NEW r \in Requests, NEW op \in {"create", "edit", "patch"},
         NEW place \in Places, NEW o \in Orders \cup {NoOne},
         NEW p \in Phones \cup {NoPhone}, NEW c \in Customers \cup {NoOne},
         NEW seen \in Phones \cup {NoPhone}, Begin(r, op, place, o, p, c, seen),
         op = "patch" <=> place \in {"vet", "patch"},
         op # "patch" => o \in Orders,
         op = "create" => /\ c = NoOne /\ holder[o] = Absent
                          /\ place = "find" \/ (place = "attach" /\ p = NoPhone)
                          /\ \A q \in Active(r) : txn[q].order # o,
         op = "edit" => /\ holder[o] # Absent
                        /\ IF c = NoOne THEN place = "find" ELSE place = "match",
         op = "patch" => c # NoOne /\ (p = seen => phone[c] = p),
         c # NoOne => phone[c] # Absent
  PROVE  IInv'
<1> DEFINE t == [op |-> op, at |-> place, order |-> o, phone |-> p, cust |-> c,
                 seen |-> seen, wrote |-> "nothing", orphan |-> NoOne, locks |-> {},
                 remove |-> "no", from |-> c, moved |-> {}]
<1>1. t \in Transaction
  BY DEF Transaction, Places
<1>2. txn' = [txn EXCEPT ![r] = t] /\ UNCHANGED <<phone, holder, strayed>>
  BY DEF Begin
<1>3. txn'[r] = t
  BY <1>2 DEF IInv, TypeOK
<1>4. place \in {"find", "match", "attach", "vet", "patch"}
  OBVIOUS
<1>5. Shape(r)'
  BY <1>3, <1>4 DEF Shape, Reading, Attaching
<1>6. Holds(r)'
  BY <1>2, <1>3, <1>4 DEF Holds, Attached
<1>7. Phoned(r)'
  BY <1>2, <1>3, <1>4 DEF Phoned, Attaching
<1>8. Counted(r)'
  BY <1>3, <1>4 DEF Counted
<1>9. \A q \in Active(r) : Apart(q, r)' /\ Apart(r, q)'
  <2>1. /\ t.at = place /\ t.locks = {} /\ t.op = op /\ t.order = o
        /\ t.wrote = "nothing"
    OBVIOUS
  <2> HIDE DEF t
  <2> QED BY <1>1, <1>2, <1>4, <2>1, ClearOfOthers
<1> HIDE DEF t
<1> QED BY <1>1, <1>2, <1>5, <1>6, <1>7, <1>8, <1>9, OnlyTheRequest

LEMMA InvCreateOrder ==
  ASSUME IInv, NEW r \in Requests, CreateOrder(r)
  PROVE  IInv'
<1>1. PICK o \in Orders, p \in Phones \cup {NoPhone} :
        /\ holder[o] = Absent
        /\ \A q \in Active(r) : txn[q].order # o
        /\ \/ Begin(r, "create", "find", o, p, NoOne, NoPhone)
           \/ p = NoPhone /\ Begin(r, "create", "attach", o, p, NoOne, NoPhone)
  BY DEF CreateOrder
<1>2. /\ "find" \in Places /\ "attach" \in Places /\ o \in Orders \cup {NoOne}
      /\ NoOne \in Customers \cup {NoOne} /\ NoPhone \in Phones \cup {NoPhone}
      /\ "find" \notin {"vet", "patch"} /\ "attach" \notin {"vet", "patch"}
  BY DEF Places
<1>3. ASSUME NEW place \in {"find", "attach"},
             Begin(r, "create", place, o, p, NoOne, NoPhone),
             place = "attach" => p = NoPhone
      PROVE  IInv'
  BY <1>1, <1>2, <1>3, Begins
<1> QED BY <1>1, <1>3

LEMMA InvUpdateOrder ==
  ASSUME IInv, NEW r \in Requests, UpdateOrder(r)
  PROVE  IInv'
<1>1. PICK o \in Placed, p \in Phones \cup {NoPhone} :
        IF holder[o] = NoOne
          THEN Begin(r, "edit", "find", o, p, NoOne, NoPhone)
          ELSE Begin(r, "edit", "match", o, p, holder[o], phone[holder[o]])
  BY DEF UpdateOrder
<1>2. o \in Orders /\ holder[o] \in Customers \cup {NoOne} /\ holder[o] # Absent
  BY DEF IInv, TypeOK, Placed
<1>3. /\ "find" \in Places /\ "match" \in Places /\ o \in Orders \cup {NoOne}
      /\ NoOne \in Customers \cup {NoOne} /\ NoPhone \in Phones \cup {NoPhone}
      /\ "find" \notin {"vet", "patch"} /\ "match" \notin {"vet", "patch"}
  BY <1>2 DEF Places
<1>4. CASE holder[o] = NoOne
  BY <1>1, <1>2, <1>3, <1>4, Begins
<1>5. CASE holder[o] # NoOne
  <2>1. holder[o] \in Customers /\ holder[o] \in Present
    BY <1>2, <1>5 DEF IInv, Referenced
  <2>2. phone[holder[o]] \in Phones \cup {NoPhone} /\ phone[holder[o]] # Absent
    BY <2>1 DEF IInv, TypeOK, Present
  <2>3. Begin(r, "edit", "match", o, p, holder[o], phone[holder[o]])
    BY <1>1, <1>5
  <2> QED BY <1>2, <1>3, <1>5, <2>2, <2>3, Begins
<1> QED BY <1>4, <1>5

LEMMA InvUpdateCustomer ==
  ASSUME IInv, NEW r \in Requests, UpdateCustomer(r)
  PROVE  IInv'
<1>1. PICK c \in Present, p \in Phones \cup {NoPhone} :
        Begin(r, "patch", IF p \in {NoPhone, phone[c]} THEN "patch" ELSE "vet",
              NoOne, p, c, phone[c])
  BY DEF UpdateCustomer
<1>2. /\ c \in Customers \cup {NoOne} /\ c # NoOne /\ phone[c] # Absent
      /\ phone[c] \in Phones \cup {NoPhone}
  BY Markers DEF Present, IInv, TypeOK
<1>3. PICK place \in {"vet", "patch"} : Begin(r, "patch", place, NoOne, p, c, phone[c])
  BY <1>1
<1>4. place \in Places /\ NoOne \in Orders \cup {NoOne}
  BY DEF Places
<1> QED BY <1>2, <1>3, <1>4, Begins

\* Nobody else has written a row that is free of updates.
LEMMA FreeToWrite ==
  ASSUME IInv, NEW r \in Requests, txn[r] # Idle, NEW c \in Present, FreeOfUpdates(r, c)
  PROVE  \A q \in Active(r) : txn[q].wrote # "nothing" => txn[q].cust # c
<1>1. SUFFICES ASSUME NEW q \in Active(r), txn[q].wrote # "nothing", txn[q].cust = c
               PROVE  FALSE
  OBVIOUS
<1>2. txn[q] \in Transaction /\ Holds(q) /\ ~Updated(q, c)
  BY InFlight DEF Active, FreeOfUpdates
<1>3. txn[q].wrote = "new"
  BY <1>1, <1>2, Fields DEF Updated, Exclusive
<1> QED BY <1>1, <1>2, <1>3 DEF Holds, Present

\* A read or write of a customer, before the order is written.
LEMMA Resolves ==
  ASSUME IInv, NEW r \in Requests, NEW t \in Transaction, txn[r] # Idle,
         txn' = [txn EXCEPT ![r] = t], UNCHANGED <<phone, holder, strayed>>,
         t.op = txn[r].op, t.order = txn[r].order, t.locks = {}, t.remove = "no",
         t.at \notin {"lock", "count", "commit"},
         t.wrote = "new" => \A q \in Active(r) : txn[q].wrote # "new",
         t.wrote # "nothing" =>
           \A q \in Active(r) : txn[q].wrote # "nothing" => txn[q].cust # t.cust,
         Shape(r)', Phoned(r)',
         t.wrote = "new" => phone[t.cust] = Absent,
         t.cust # NoOne /\ t.wrote # "new" => phone[t.cust] # Absent,
         t.orphan # NoOne => phone[t.orphan] # Absent,
         t.wrote \in {"row", "phone"} => t.cust \in Present
  PROVE  IInv'
<1>1. txn'[r] = t
  BY DEF IInv, TypeOK
<1>2. Holds(r)'
  BY <1>1, InFlight DEF Holds, Attached, Present
<1>3. Counted(r)'
  BY <1>1 DEF Counted
<1>4. \A q \in Active(r) : Apart(q, r)' /\ Apart(r, q)'
  <2>1. \A q \in Active(r) :
          t.op = "create" /\ txn[q].op = "create" => txn[q].order # t.order
    <3>1. SUFFICES ASSUME NEW q \in Active(r), t.op = "create", txn[q].op = "create"
                   PROVE  txn[q].order # t.order
      OBVIOUS
    <3>2. Apart(q, r)
      BY TwoInFlight
    <3> QED BY <3>1, <3>2 DEF Apart
  <2> QED BY <2>1, ClearOfOthers
<1> QED BY <1>2, <1>3, <1>4, OnlyTheRequest

LEMMA InvFindByPhone ==
  ASSUME IInv, NEW r \in Requests, FindByPhone(r)
  PROVE  IInv'
<1>0. /\ txn[r] \in Transaction /\ txn[r] # Idle /\ txn[r].at = "find"
      /\ Shape(r) /\ Holds(r) /\ UNCHANGED <<phone, holder, strayed>>
  BY InFlight DEF FindByPhone, At
<1>1. /\ txn[r].wrote = "nothing" /\ txn[r].orphan = NoOne /\ txn[r].locks = {}
      /\ txn[r].remove = "no" /\ txn[r].from = NoOne /\ txn[r].op # "patch"
  BY <1>0, Fields DEF Shape, Reading
<1>2. (\E c \in Owner(txn[r].phone) : Resolve(r, "touch", c)) \/ Go(r, "insert")
  BY DEF FindByPhone
<1>3. CASE \E c \in Owner(txn[r].phone) : Resolve(r, "touch", c)
  <2>1. PICK c \in Owner(txn[r].phone) : Resolve(r, "touch", c)
    BY <1>3
  <2>2. c \in Present /\ c \in Customers /\ phone[c] = txn[r].phone /\ phone[c] # Absent
    BY DEF Owner, Present
  <2> DEFINE t == [txn[r] EXCEPT !.at = "touch", !.cust = c]
  <2>3. /\ t \in Transaction /\ t.at = "touch" /\ t.cust = c /\ t.op = txn[r].op
        /\ t.order = txn[r].order /\ t.phone = txn[r].phone /\ t.wrote = "nothing"
        /\ t.orphan = NoOne /\ t.locks = {} /\ t.remove = "no" /\ t.from = NoOne
    BY <1>0, <1>1, <2>2 DEF Transaction
  <2>4. txn' = [txn EXCEPT ![r] = t]
    BY <2>1 DEF Resolve
  <2> HIDE DEF t
  <2>5. txn'[r] = t
    BY <2>4 DEF IInv, TypeOK
  <2>6. Shape(r)'
    BY <1>0, <1>1, <2>2, <2>3, <2>5, Markers DEF Shape, Reading, Attaching
  <2>7. Phoned(r)'
    BY <1>0, <1>1, <2>2, <2>3, <2>5 DEF Phoned
  <2> QED BY <1>0, <2>2, <2>3, <2>4, <2>6, <2>7, Resolves
<1>4. CASE Go(r, "insert")
  <2> DEFINE t == [txn[r] EXCEPT !.at = "insert"]
  <2>3. /\ t \in Transaction /\ t.at = "insert" /\ t.cust = txn[r].cust /\ t.op = txn[r].op
        /\ t.order = txn[r].order /\ t.phone = txn[r].phone /\ t.wrote = "nothing"
        /\ t.orphan = NoOne /\ t.locks = {} /\ t.remove = "no" /\ t.from = NoOne
    BY <1>0, <1>1 DEF Transaction
  <2>4. txn' = [txn EXCEPT ![r] = t]
    BY <1>4 DEF Go
  <2> HIDE DEF t
  <2>5. txn'[r] = t
    BY <2>4 DEF IInv, TypeOK
  <2>6. Shape(r)'
    BY <1>0, <1>1, <2>3, <2>5 DEF Shape, Reading, Attaching
  <2>7. Phoned(r)'
    BY <1>1, <2>3, <2>5 DEF Phoned, Attaching
  <2>8. t.cust # NoOne => phone[t.cust] # Absent
    BY <1>0, <1>1, <2>3 DEF Holds
  <2> QED BY <1>0, <2>3, <2>4, <2>6, <2>7, <2>8, Resolves
<1> QED BY <1>2, <1>3, <1>4

LEMMA InvUpdateFound ==
  ASSUME IInv, NEW r \in Requests, UpdateFound(r)
  PROVE  IInv'
<1>0. /\ txn[r] \in Transaction /\ txn[r] # Idle /\ txn[r].at = "touch"
      /\ Shape(r) /\ Holds(r) /\ Phoned(r) /\ UNCHANGED <<phone, holder, strayed>>
  BY InFlight DEF UpdateFound, At
<1>1. /\ txn[r].orphan = NoOne /\ txn[r].locks = {} /\ txn[r].wrote = "nothing"
      /\ txn[r].remove = "no" /\ txn[r].from = NoOne /\ txn[r].op # "patch"
      /\ txn[r].cust \in Present /\ txn[r].cust # NoOne /\ phone[txn[r].cust] # Absent
  BY <1>0, Fields DEF Shape, Reading, UpdateFound, Present
<1> DEFINE t == [txn[r] EXCEPT !.at = "attach", !.wrote = "row"]
<1>3. /\ t \in Transaction /\ t.at = "attach" /\ t.cust = txn[r].cust /\ t.op = txn[r].op
      /\ t.order = txn[r].order /\ t.phone = txn[r].phone /\ t.wrote = "row"
      /\ t.orphan = NoOne /\ t.locks = {} /\ t.remove = "no" /\ t.from = NoOne
      /\ t.moved = txn[r].moved
  BY <1>0, <1>1 DEF Transaction
<1>4. txn' = [txn EXCEPT ![r] = t]
  BY DEF UpdateFound
<1> HIDE DEF t
<1>5. txn'[r] = t
  BY <1>4 DEF IInv, TypeOK
<1>6. Shape(r)'
  BY <1>0, <1>1, <1>3, <1>5 DEF Shape, Reading, Attaching
<1>7. Phoned(r)'
  BY <1>0, <1>1, <1>3, <1>5 DEF Phoned, Attaching
<1>8. \A q \in Active(r) : txn[q].wrote # "nothing" => txn[q].cust # t.cust
  BY <1>0, <1>1, <1>3, FreeToWrite DEF UpdateFound
<1> QED BY <1>0, <1>1, <1>3, <1>4, <1>6, <1>7, <1>8, Resolves

LEMMA InvInsertCustomer ==
  ASSUME IInv, NEW r \in Requests, InsertCustomer(r)
  PROVE  IInv'
<1>0. /\ txn[r] \in Transaction /\ txn[r] # Idle /\ txn[r].at = "insert"
      /\ Shape(r) /\ Holds(r) /\ UNCHANGED <<phone, holder, strayed>>
      /\ \A q \in Active(r) : txn[q].wrote # "new"
  BY InFlight DEF InsertCustomer, At
<1>1. /\ txn[r].orphan = NoOne /\ txn[r].locks = {} /\ txn[r].remove = "no"
      /\ txn[r].from = NoOne /\ txn[r].op # "patch"
  BY <1>0, Fields DEF Shape, Reading
<1>2. PICK c \in Customers :
        /\ phone[c] = Absent
        /\ txn' = [txn EXCEPT ![r].at = "attach", ![r].cust = c, ![r].wrote = "new"]
  BY DEF InsertCustomer
<1> DEFINE t == [txn[r] EXCEPT !.at = "attach", !.cust = c, !.wrote = "new"]
<1>3. /\ t \in Transaction /\ t.at = "attach" /\ t.cust = c /\ t.op = txn[r].op
      /\ t.order = txn[r].order /\ t.wrote = "new"
      /\ t.orphan = NoOne /\ t.locks = {} /\ t.remove = "no" /\ t.from = NoOne
  BY <1>0, <1>1 DEF Transaction
<1>4. txn' = [txn EXCEPT ![r] = t]
  BY <1>2
<1> HIDE DEF t
<1>5. txn'[r] = t
  BY <1>4 DEF IInv, TypeOK
<1>6. Shape(r)'
  BY <1>0, <1>1, <1>3, <1>5, Markers DEF Shape, Reading, Attaching
<1>7. Phoned(r)'
  BY <1>1, <1>3, <1>5 DEF Phoned
<1>8. ASSUME NEW q \in Active(r), txn[q].wrote # "nothing"
      PROVE  txn[q].cust # c
  <2>1. txn[q] \in Transaction /\ Holds(q) /\ txn[q].wrote # "new"
    BY <1>0, InFlight DEF Active
  <2>2. txn[q].cust \in Present
    BY <1>8, <2>1, Fields DEF Holds
  <2> QED BY <1>2, <2>2 DEF Present
<1> QED BY <1>0, <1>2, <1>3, <1>4, <1>6, <1>7, <1>8, Resolves

LEMMA InvMatch ==
  ASSUME IInv, NEW r \in Requests, Match(r)
  PROVE  IInv'
<1>0. /\ txn[r] \in Transaction /\ txn[r] # Idle /\ txn[r].at = "match"
      /\ Shape(r) /\ Holds(r) /\ UNCHANGED <<phone, holder, strayed>>
  BY InFlight DEF Match, At
<1>1. /\ txn[r].orphan = NoOne /\ txn[r].locks = {} /\ txn[r].remove = "no"
      /\ txn[r].from # NoOne /\ txn[r].cust = txn[r].from /\ txn[r].op = "edit"
      /\ txn[r].wrote = "nothing" /\ NoPhone \in Phones \cup {NoPhone}
  BY <1>0, Fields DEF Shape, Reading
<1>2. phone[txn[r].cust] # Absent /\ txn[r].cust \in Customers
  BY <1>0, <1>1, Fields DEF Holds
<1>3. CASE \E c \in Others(r) :
             txn' = [txn EXCEPT ![r].at = "attach", ![r].cust = c,
                                ![r].orphan = txn[r].cust, ![r].seen = NoPhone]
  <2>1. PICK c \in Others(r) :
             txn' = [txn EXCEPT ![r].at = "attach", ![r].cust = c,
                                ![r].orphan = txn[r].cust, ![r].seen = NoPhone]
    BY <1>3
  <2>2. /\ c \in Customers /\ c # txn[r].cust /\ phone[c] = txn[r].phone
        /\ phone[c] # Absent
    BY DEF Others, Owner, Present
  <2> DEFINE t == [txn[r] EXCEPT !.at = "attach", !.cust = c, !.orphan = txn[r].cust,
                                 !.seen = NoPhone]
  <2>3. /\ t \in Transaction /\ t.at = "attach" /\ t.cust = c /\ t.op = "edit"
        /\ t.order = txn[r].order /\ t.phone = txn[r].phone /\ t.wrote = "nothing"
        /\ t.orphan = txn[r].cust /\ t.locks = {} /\ t.remove = "no"
        /\ t.from = txn[r].from
    <3>1. t \in Transaction
      <4>1. /\ c \in Customers \cup {NoOne} /\ txn[r].cust \in Customers \cup {NoOne}
            /\ NoPhone \in Phones \cup {NoPhone}
        BY <1>2, <2>2
      <4> QED BY ZenonT(60), <1>0, <4>1 DEF Transaction
    <3>2. /\ t.at = "attach" /\ t.cust = c /\ t.orphan = txn[r].cust
          /\ t.op = txn[r].op /\ t.order = txn[r].order /\ t.phone = txn[r].phone
          /\ t.wrote = txn[r].wrote /\ t.locks = txn[r].locks
          /\ t.remove = txn[r].remove /\ t.from = txn[r].from
      BY <1>0 DEF Transaction
    <3> HIDE DEF t
    <3> QED BY <1>1, <3>1, <3>2
  <2>4. txn' = [txn EXCEPT ![r] = t]
    BY <2>1
  <2> HIDE DEF t
  <2>5. txn'[r] = t
    BY <2>4 DEF IInv, TypeOK
  <2>6. Shape(r)'
    BY <1>0, <1>1, <1>2, <2>2, <2>3, <2>5, Markers DEF Shape, Reading, Attaching
  <2>7. Phoned(r)'
    BY <1>0, <2>2, <2>3, <2>5 DEF Phoned
  <2> QED BY <1>0, <1>1, <1>2, <2>2, <2>3, <2>4, <2>6, <2>7, Resolves
<1>4. CASE txn' = [txn EXCEPT ![r].at = "update", ![r].seen = NoPhone]
  <2> DEFINE t == [txn[r] EXCEPT !.at = "update", !.seen = NoPhone]
  <2>3. /\ t \in Transaction /\ t.at = "update" /\ t.cust = txn[r].cust /\ t.op = "edit"
        /\ t.order = txn[r].order /\ t.phone = txn[r].phone /\ t.wrote = "nothing"
        /\ t.orphan = NoOne /\ t.locks = {} /\ t.remove = "no"
        /\ t.from = txn[r].from
    <3>1. t \in Transaction
      BY ZenonT(60), <1>0 DEF Transaction
    <3>2. /\ t.at = "update" /\ t.cust = txn[r].cust /\ t.orphan = txn[r].orphan
          /\ t.op = txn[r].op /\ t.order = txn[r].order /\ t.phone = txn[r].phone
          /\ t.wrote = txn[r].wrote /\ t.locks = txn[r].locks
          /\ t.remove = txn[r].remove /\ t.from = txn[r].from
      BY <1>0 DEF Transaction
    <3> HIDE DEF t
    <3> QED BY <1>1, <3>1, <3>2
  <2>4. txn' = [txn EXCEPT ![r] = t]
    BY <1>4
  <2> HIDE DEF t
  <2>5. txn'[r] = t
    BY <2>4 DEF IInv, TypeOK
  <2>6. Shape(r)'
    BY <1>0, <1>1, <2>3, <2>5 DEF Shape, Reading, Attaching
  <2>7. Phoned(r)'
    BY <1>1, <2>3, <2>5 DEF Phoned, Attaching
  <2> QED BY <1>0, <1>1, <1>2, <2>3, <2>4, <2>6, <2>7, Resolves
<1> QED BY <1>3, <1>4 DEF Match

LEMMA InvUpdateInPlace ==
  ASSUME IInv, NEW r \in Requests, UpdateInPlace(r)
  PROVE  IInv'
<1>0. /\ txn[r] \in Transaction /\ txn[r] # Idle /\ txn[r].at = "update"
      /\ Shape(r) /\ Holds(r) /\ UNCHANGED <<phone, holder, strayed>>
  BY InFlight DEF UpdateInPlace, At
<1>1. /\ txn[r].orphan = NoOne /\ txn[r].locks = {} /\ txn[r].remove = "no"
      /\ txn[r].from # NoOne /\ txn[r].cust = txn[r].from /\ txn[r].op = "edit"
      /\ txn[r].cust \in Present /\ phone[txn[r].cust] # Absent
  BY <1>0, Fields DEF Shape, Reading, UpdateInPlace, Present
<1>2. PICK w \in {"row", "phone"} :
        /\ w = "phone" \/ phone[txn[r].cust] = txn[r].phone
        /\ FreeOfUpdates(r, txn[r].cust)
        /\ txn' = [txn EXCEPT ![r].at = "attach", ![r].wrote = w]
  BY DEF UpdateInPlace, FreeOfAll, FreeOfUpdates
<1> DEFINE t == [txn[r] EXCEPT !.at = "attach", !.wrote = w]
<1>3. /\ t \in Transaction /\ t.at = "attach" /\ t.cust = txn[r].cust /\ t.op = "edit"
      /\ t.order = txn[r].order /\ t.phone = txn[r].phone /\ t.wrote = w
      /\ t.orphan = NoOne /\ t.locks = {} /\ t.remove = "no" /\ t.from = txn[r].from
  <2>1. t \in Transaction
    <3>1. w \in {"nothing", "row", "phone", "new"}
      OBVIOUS
    <3> QED BY ZenonT(60), <1>0, <3>1 DEF Transaction
  <2>2. /\ t.at = "attach" /\ t.wrote = w
        /\ t.cust = txn[r].cust /\ t.orphan = txn[r].orphan /\ t.op = txn[r].op
        /\ t.order = txn[r].order /\ t.phone = txn[r].phone /\ t.locks = txn[r].locks
        /\ t.remove = txn[r].remove /\ t.from = txn[r].from
    BY <1>0 DEF Transaction
  <2> HIDE DEF t
  <2> QED BY <1>1, <2>1, <2>2
<1>4. txn' = [txn EXCEPT ![r] = t]
  BY <1>2
<1> HIDE DEF t
<1>5. txn'[r] = t
  BY <1>4 DEF IInv, TypeOK
<1>6. Shape(r)'
  BY <1>0, <1>1, <1>2, <1>3, <1>5 DEF Shape, Reading, Attaching
<1>7. Phoned(r)'
  BY <1>0, <1>2, <1>3, <1>5 DEF Phoned
<1>8. \A q \in Active(r) : txn[q].wrote # "nothing" => txn[q].cust # t.cust
  BY <1>0, <1>1, <1>2, <1>3, FreeToWrite
<1> QED BY <1>0, <1>1, <1>2, <1>3, <1>4, <1>6, <1>7, <1>8, Resolves

LEMMA InvVetPhone ==
  ASSUME IInv, NEW r \in Requests, VetPhone(r)
  PROVE  IInv'
<1>0. /\ txn[r] \in Transaction /\ txn[r] # Idle /\ txn[r].at = "vet"
      /\ Shape(r) /\ Holds(r) /\ Phoned(r) /\ UNCHANGED <<phone, holder, strayed>>
  BY InFlight DEF VetPhone, At
<1>1. /\ txn[r].orphan = NoOne /\ txn[r].locks = {} /\ txn[r].remove = "no"
      /\ txn[r].op = "patch" /\ txn[r].wrote = "nothing"
  BY <1>0, Fields DEF Shape, Reading
<1> DEFINE t == [txn[r] EXCEPT !.at = "patch"]
<1>3. /\ t \in Transaction /\ t.at = "patch" /\ t.cust = txn[r].cust /\ t.op = "patch"
      /\ t.order = txn[r].order /\ t.phone = txn[r].phone /\ t.wrote = "nothing"
      /\ t.orphan = NoOne /\ t.locks = {} /\ t.remove = "no" /\ t.from = txn[r].from
      /\ t.seen = txn[r].seen /\ t.moved = txn[r].moved
  BY <1>0, <1>1 DEF Transaction
<1>4. txn' = [txn EXCEPT ![r] = t]
  BY DEF VetPhone, Go
<1> HIDE DEF t
<1>5. txn'[r] = t
  BY <1>4 DEF IInv, TypeOK
<1>6. Shape(r)'
  BY <1>0, <1>1, <1>3, <1>5 DEF Shape, Reading, Attaching
<1>7. Phoned(r)'
  BY <1>0, <1>1, <1>3, <1>5 DEF Phoned, Attaching
<1>8. t.cust # NoOne => phone[t.cust] # Absent
  BY <1>0, <1>1, <1>3 DEF Holds
<1> QED BY <1>0, <1>1, <1>3, <1>4, <1>6, <1>7, <1>8, Resolves

\* The statement on the order's row: from here on the order is the request's.
LEMMA InvAttachOrder ==
  ASSUME IInv, NEW r \in Requests, AttachOrder(r)
  PROVE  IInv'
<1> DEFINE o == txn[r].order
           c == txn[r].cust
<1>0. /\ txn[r] \in Transaction /\ txn[r] # Idle /\ txn[r].at = "attach"
      /\ Shape(r) /\ Holds(r) /\ Phoned(r) /\ UNCHANGED <<phone, holder, strayed>>
  BY InFlight DEF AttachOrder, At
<1>1. /\ txn[r].locks = {} /\ txn[r].remove = "no" /\ txn[r].op \in {"create", "edit"}
      /\ o \in Orders /\ c \in Customers \cup {NoOne}
  BY <1>0, Fields DEF Shape, Reading
<1>2. PICK place \in {"commit", "lock"} :
        /\ place = "commit" <=> txn[r].orphan = NoOne
        /\ Go(r, place)
  BY DEF AttachOrder
<1> DEFINE t == [txn[r] EXCEPT !.at = place]
<1>3. /\ t \in Transaction /\ t.at = place /\ t.cust = c /\ t.op = txn[r].op
      /\ t.order = o /\ t.phone = txn[r].phone /\ t.wrote = txn[r].wrote
      /\ t.orphan = txn[r].orphan /\ t.locks = {} /\ t.remove = "no"
      /\ t.from = txn[r].from /\ t.moved = txn[r].moved
  BY <1>0, <1>1 DEF Transaction
<1>4. txn' = [txn EXCEPT ![r] = t]
  BY <1>2 DEF Go
<1> HIDE DEF t
<1>5. txn'[r] = t
  BY <1>4 DEF IInv, TypeOK
<1>6. Shape(r)'
  BY <1>0, <1>1, <1>2, <1>3, <1>5 DEF Shape, Reading, Attaching
<1>7. Phoned(r)'
  BY <1>0, <1>1, <1>2, <1>3, <1>5 DEF Phoned, Attaching
<1>8. Counted(r)'
  BY <1>2, <1>3, <1>5 DEF Counted
<1>9. c \in {NoOne, holder[o]} \/ txn[r].wrote = "new" \/ (c \in Present /\ FreeOfExclusive(r, c))
  BY DEF AttachOrder
<1>10. Holds(r)'
  <2>1. c # NoOne /\ txn[r].wrote # "new" => c \in Present
    BY <1>1, <1>9 DEF IInv, Referenced
  <2> QED BY <1>0, <1>3, <1>5, <2>1 DEF Holds, Present
<1>11. ASSUME NEW q \in Active(r)
       PROVE  Apart(q, r)' /\ Apart(r, q)'
  <2>1. /\ q \in Requests /\ q # r /\ txn[q] # Idle /\ Apart(q, r) /\ Apart(r, q)
        /\ Holds(q) /\ Shape(q) /\ txn[q] \in Transaction
    BY <1>0, TwoInFlight, InFlight
  <2>2. txn'[q] = txn[q]
    BY <1>4, <2>1 DEF IInv, TypeOK
  <2>3. Attached(q) => txn[q].order # o
    <3>1. SUFFICES ASSUME Attached(q) PROVE txn[q].order # o
      OBVIOUS
    <3>2. CASE txn[r].op = "edit"
      BY <3>1, <3>2 DEF AttachOrder
    <3>3. CASE txn[r].op = "create"
      <4>1. txn[q].op # "create"
        BY <3>1, <3>3 DEF AttachOrder
      <4>2. txn[q].op = "edit"
        BY <2>1, <3>1, <4>1, Fields DEF Shape, Attached
      <4> QED BY <1>0, <2>1, <3>3, <4>2 DEF Holds
    <3> QED BY <1>1, <3>2, <3>3
  <2>4. c \in txn[q].locks => holder[o] = c
    <3>1. SUFFICES ASSUME c \in txn[q].locks PROVE holder[o] = c
      OBVIOUS
    <3>2. c # NoOne
      BY <2>1, <3>1, Fields, Markers
    <3>3. txn[r].wrote # "new"
      <4>1. phone[c] # Absent
        BY <2>1, <3>1 DEF Shape, Holds
      <4> QED BY <1>0, <4>1 DEF Holds
    <3>4. ~FreeOfExclusive(r, c)
      BY <3>1 DEF FreeOfExclusive, Exclusive
    <3> QED BY <1>9, <3>2, <3>3, <3>4
  <2>5. txn'[q].locks \cap txn'[r].locks = {}
    BY <1>3, <1>5
  <2>6. Apart(q, r)'
    BY <1>0, <1>3, <1>5, <2>1, <2>2, <2>3, <2>5 DEF Apart, Attached
  <2>7. Apart(r, q)'
    BY <1>0, <1>3, <1>5, <2>1, <2>2, <2>3, <2>4, <2>5 DEF Apart, Attached
  <2> QED BY <2>6, <2>7
<1> HIDE DEF o, c
<1> QED BY <1>0, <1>3, <1>4, <1>6, <1>7, <1>8, <1>10, <1>11, OnlyTheRequest

\* The customer left behind is locked: nobody else does, and nobody is about
\* to attach an order to it.
LEMMA InvLockOrphan ==
  ASSUME IInv, NEW r \in Requests, LockOrphan(r)
  PROVE  IInv'
<1> DEFINE c == txn[r].orphan
<1>0. /\ txn[r] \in Transaction /\ txn[r] # Idle /\ txn[r].at = "lock"
      /\ Shape(r) /\ Holds(r) /\ Phoned(r) /\ UNCHANGED <<phone, holder, strayed>>
      /\ FreeOfAll(r, c)
  BY InFlight DEF LockOrphan, At
<1>1. /\ c # NoOne /\ c \in Customers /\ txn[r].remove = "no" /\ txn[r].wrote = "nothing"
      /\ txn[r].op = "edit"
  BY <1>0, Fields DEF Shape, Reading
<1> DEFINE t == [txn[r] EXCEPT !.at = "count", !.locks = {c}]
<1>3. /\ t \in Transaction /\ t.at = "count" /\ t.cust = txn[r].cust /\ t.op = txn[r].op
      /\ t.order = txn[r].order /\ t.phone = txn[r].phone /\ t.wrote = "nothing"
      /\ t.orphan = c /\ t.locks = {c} /\ t.remove = "no"
      /\ t.from = txn[r].from /\ t.moved = txn[r].moved
  BY <1>0, <1>1 DEF Transaction
<1>4. txn' = [txn EXCEPT ![r] = t]
  BY DEF LockOrphan
<1> HIDE DEF t
<1>5. txn'[r] = t
  BY <1>4 DEF IInv, TypeOK
<1>6. Shape(r)'
  BY <1>0, <1>1, <1>3, <1>5 DEF Shape, Reading, Attaching
<1>7. Phoned(r)'
  BY <1>0, <1>1, <1>3, <1>5 DEF Phoned, Attaching
<1>8. Counted(r)'
  BY <1>3, <1>5 DEF Counted
<1>9. Holds(r)'
  BY <1>0, <1>1, <1>3, <1>5 DEF Holds, Present, Attached
<1>10. ASSUME NEW q \in Active(r)
       PROVE  Apart(q, r)' /\ Apart(r, q)'
  <2>1. /\ q \in Requests /\ q # r /\ txn[q] # Idle /\ Apart(q, r) /\ Apart(r, q)
    BY <1>0, TwoInFlight
  <2>2. txn'[q] = txn[q]
    BY <1>4, <2>1 DEF IInv, TypeOK
  <2>3. c \notin txn[q].locks
    BY <1>0 DEF FreeOfAll, Updated, Exclusive
  <2>4. Attached(q) /\ txn[q].cust = c => holder[txn[q].order] = c
    BY <1>0 DEF FreeOfAll, Refers
  <2>5. Attached(r) /\ Attached(r)'
    BY <1>0, <1>3, <1>5 DEF Attached
  <2>6. txn'[q].locks \cap txn'[r].locks = {}
    BY <1>3, <1>5, <2>2, <2>3
  <2>7. Apart(q, r)'
    BY <1>0, <1>1, <1>3, <1>5, <2>1, <2>2, <2>4, <2>5, <2>6 DEF Apart, Attached
  <2>8. Apart(r, q)'
    BY <1>0, <1>1, <1>3, <1>5, <2>1, <2>2, <2>5, <2>6 DEF Apart, Attached
  <2> QED BY <2>7, <2>8
<1> HIDE DEF c
<1> QED BY <1>0, <1>3, <1>4, <1>6, <1>7, <1>8, <1>9, <1>10, OnlyTheRequest

LEMMA InvCountRemaining ==
  ASSUME IInv, NEW r \in Requests, CountRemaining(r)
  PROVE  IInv'
<1> DEFINE c == txn[r].orphan
<1>0. /\ txn[r] \in Transaction /\ txn[r] # Idle /\ txn[r].at = "count"
      /\ Shape(r) /\ Holds(r) /\ Phoned(r) /\ UNCHANGED <<phone, holder, strayed>>
  BY InFlight DEF CountRemaining, At
<1>1. /\ c # NoOne /\ c \in Customers /\ txn[r].remove = "no" /\ txn[r].wrote = "nothing"
      /\ txn[r].op = "edit" /\ txn[r].locks = {c}
  BY <1>0, Fields DEF Shape, Reading
<1>2. PICK yes \in {"no", "yes"} :
        /\ yes = "yes" <=> OrdersOf(c) \ {txn[r].order} = {}
        /\ txn' = [txn EXCEPT ![r] = [txn[r] EXCEPT !.at = "commit", !.remove = yes]]
  <2>1. CASE OrdersOf(c) \ {txn[r].order} = {}
    <3>1. txn' = [txn EXCEPT ![r].at = "commit", ![r].remove = "yes"]
      BY <2>1 DEF CountRemaining
    <3> QED BY <2>1, <3>1
  <2>2. CASE OrdersOf(c) \ {txn[r].order} # {}
    <3>1. txn' = [txn EXCEPT ![r].at = "commit"]
      BY <2>2 DEF CountRemaining, Go
    <3>2. [txn[r] EXCEPT !.at = "commit"] = [txn[r] EXCEPT !.at = "commit", !.remove = "no"]
      BY <1>0, <1>1 DEF Transaction
    <3>3. txn' = [txn EXCEPT ![r] = [txn[r] EXCEPT !.at = "commit"]]
      BY <3>1
    <3> QED BY <2>2, <3>2, <3>3
  <2> QED BY <2>1, <2>2
<1> DEFINE t == [txn[r] EXCEPT !.at = "commit", !.remove = yes]
<1>3. /\ t \in Transaction /\ t.at = "commit" /\ t.cust = txn[r].cust /\ t.op = txn[r].op
      /\ t.order = txn[r].order /\ t.phone = txn[r].phone /\ t.wrote = "nothing"
      /\ t.orphan = c /\ t.locks = {c} /\ t.remove = yes
      /\ t.from = txn[r].from /\ t.moved = txn[r].moved
  BY ZenonT(60), <1>0, <1>1 DEF Transaction
<1>4. txn' = [txn EXCEPT ![r] = t]
  BY <1>2
<1> HIDE DEF t
<1>5. txn'[r] = t
  BY <1>4 DEF IInv, TypeOK
<1>6. Shape(r)'
  BY <1>0, <1>1, <1>3, <1>5 DEF Shape, Reading, Attaching
<1>7. Phoned(r)'
  BY <1>0, <1>1, <1>3, <1>5 DEF Phoned, Attaching
<1>8. Counted(r)'
  BY <1>0, <1>2, <1>3, <1>5 DEF Counted, OrdersOf
<1>9. Holds(r)'
  BY <1>0, <1>1, <1>3, <1>5 DEF Holds, Present, Attached
<1>10. ASSUME NEW q \in Active(r)
       PROVE  Apart(q, r)' /\ Apart(r, q)'
  <2>1. /\ q \in Requests /\ q # r /\ txn[q] # Idle /\ Apart(q, r) /\ Apart(r, q)
    BY <1>0, TwoInFlight
  <2>2. txn'[q] = txn[q]
    BY <1>4, <2>1 DEF IInv, TypeOK
  <2>3. Attached(r) /\ Attached(r)'
    BY <1>0, <1>3, <1>5 DEF Attached
  <2>4. Apart(q, r)'
    BY <1>0, <1>1, <1>3, <1>5, <2>1, <2>2, <2>3 DEF Apart, Attached
  <2>5. Apart(r, q)'
    BY <1>0, <1>1, <1>3, <1>5, <2>1, <2>2, <2>3 DEF Apart, Attached
  <2> QED BY <2>4, <2>5
<1> HIDE DEF c
<1> QED BY <1>0, <1>3, <1>4, <1>6, <1>7, <1>8, <1>9, <1>10, OnlyTheRequest

-----------------------------------------------------------------------------
(* A request ends; what the others miss is a change of a customer's phone. *)

Kept(q) ==
  /\ txn'[q] # Idle
  /\ txn'[q].op = txn[q].op /\ txn'[q].at = txn[q].at /\ txn'[q].order = txn[q].order
  /\ txn'[q].phone = txn[q].phone /\ txn'[q].cust = txn[q].cust
  /\ txn'[q].seen = txn[q].seen
  /\ txn'[q].wrote = txn[q].wrote /\ txn'[q].orphan = txn[q].orphan
  /\ txn'[q].locks = txn[q].locks /\ txn'[q].remove = txn[q].remove
  /\ txn'[q].from = txn[q].from /\ txn[q].moved \subseteq txn'[q].moved

Ends(r) ==
  /\ txn' \in [Requests -> Transaction \cup {Idle}]
  /\ txn'[r] = Idle
  /\ \A q \in Requests \ {r} : IF txn[q] = Idle THEN txn'[q] = Idle ELSE Kept(q)

LEMMA EndsAlone ==
  ASSUME TypeOK, NEW r \in Requests, txn' = [txn EXCEPT ![r] = Idle]
  PROVE  Ends(r)
  BY DEF TypeOK, Ends, Kept

LEMMA EndsNoticed ==
  ASSUME TypeOK, NEW r \in Requests, NEW c \in Customers, txn' = Noticed(r, c)
  PROVE  Ends(r) /\ \A q \in Active(r) : c \in txn'[q].moved
<1>1. txn'[r] = Idle
  BY DEF Noticed
<1>2. ASSUME NEW q \in Requests \ {r}, txn[q] = Idle
      PROVE  txn'[q] = Idle
  BY <1>2 DEF Noticed
<1>3. ASSUME NEW q \in Requests \ {r}, txn[q] # Idle
      PROVE  txn'[q] \in Transaction /\ Kept(q) /\ c \in txn'[q].moved
  <2>0. txn[q] \in Transaction
    BY <1>3 DEF TypeOK
  <2> DEFINE t == [txn[q] EXCEPT !.moved = @ \cup {c}]
  <2>1. txn'[q] = t
    BY <1>3 DEF Noticed
  <2>2. /\ t \in Transaction /\ t.op = txn[q].op /\ t.at = txn[q].at
        /\ t.order = txn[q].order /\ t.phone = txn[q].phone /\ t.cust = txn[q].cust
        /\ t.seen = txn[q].seen
        /\ t.wrote = txn[q].wrote /\ t.orphan = txn[q].orphan /\ t.locks = txn[q].locks
        /\ t.remove = txn[q].remove /\ t.from = txn[q].from
        /\ t.moved = txn[q].moved \cup {c}
    BY <2>0 DEF Transaction
  <2> HIDE DEF t
  <2>3. t # Idle
    BY <2>2, IdleIsNoTransaction
  <2> QED BY <2>1, <2>2, <2>3 DEF Kept
<1>4. txn' \in [Requests -> Transaction \cup {Idle}]
  <2>1. \A q \in Requests : txn'[q] \in Transaction \cup {Idle}
    BY <1>1, <1>2, <1>3
  <2>2. txn' = [q \in Requests |-> txn'[q]]
    BY DEF Noticed
  <2> QED BY <2>1, <2>2
<1>5. Ends(r)
  BY <1>1, <1>2, <1>3, <1>4 DEF Ends
<1> QED BY <1>3, <1>5 DEF Active

LEMMA ShapeIsKept ==
  ASSUME NEW q, Shape(q), Kept(q)
  PROVE  Shape(q)'
  BY DEF Shape, Kept

\* Those still in flight after r has ended.
LEMMA StillInFlight ==
  ASSUME IInv, NEW r \in Requests, txn[r] # Idle, Ends(r), NEW q \in Requests, txn'[q] # Idle
  PROVE  /\ q \in Active(r) /\ q # r /\ txn[q] # Idle /\ Kept(q) /\ Shape(q)'
         /\ txn[q] \in Transaction /\ Shape(q) /\ Holds(q) /\ Phoned(q) /\ Counted(q)
         /\ Apart(q, r) /\ Apart(r, q)
<1>1. q # r /\ txn[q] # Idle /\ Kept(q) /\ q \in Active(r)
  BY DEF Ends, Active
<1> QED BY <1>1, InFlight, TwoInFlight, ShapeIsKept

\* Two that go on stay clear of each other if their orders stay as they are.
LEMMA ApartIsKept ==
  ASSUME NEW p, NEW q, Apart(p, q), Kept(p), Kept(q),
         Attached(p) => holder'[txn[p].order] = holder[txn[p].order]
  PROVE  Apart(p, q)'
  BY DEF Apart, Kept, Attached

LEMMA InvAbort ==
  ASSUME IInv, NEW r \in Requests, Abort(r)
  PROVE  IInv'
<1>0. /\ txn[r] # Idle /\ Ends(r) /\ UNCHANGED <<phone, holder, strayed>>
  BY EndsAlone DEF IInv, Abort
<1>1. TypeOK'
  BY <1>0 DEF IInv, TypeOK, Ends
<1>2. ASSUME NEW q \in Requests, txn'[q] # Idle
      PROVE  Shape(q)' /\ Holds(q)' /\ Phoned(q)' /\ Counted(q)'
  <2>1. /\ Kept(q) /\ Shape(q)' /\ Holds(q) /\ Phoned(q) /\ Counted(q)
    BY <1>0, <1>2, StillInFlight
  <2>2. Holds(q)'
    BY <1>0, <2>1 DEF Holds, Kept, Attached, Present
  <2>3. Phoned(q)'
    BY <1>0, <2>1 DEF Phoned, Kept
  <2>4. Counted(q)'
    BY <1>0, <2>1 DEF Counted, Kept, OrdersOf
  <2> QED BY <2>1, <2>2, <2>3, <2>4
<1>3. ASSUME NEW p \in Requests, NEW q \in Requests, p # q, txn'[p] # Idle, txn'[q] # Idle
      PROVE  Apart(p, q)'
  <2>1. txn[p] # Idle /\ txn[q] # Idle /\ Kept(p) /\ Kept(q)
    BY <1>0, <1>3, StillInFlight
  <2>2. Apart(p, q)
    BY <1>3, <2>1 DEF IInv
  <2> QED BY <1>0, <2>1, <2>2, ApartIsKept
<1>4. Referenced' /\ NoOrphan'
  BY <1>0 DEF IInv, Referenced, NoOrphan, Present, OrdersOf
<1> QED BY <1>1, <1>2, <1>3, <1>4 DEF IInv

\* What a patch does: nothing to the rows, or a phone that is new to its row,
\* which nobody else has written and everybody takes notice of.
LEMMA Patching ==
  ASSUME IInv, NEW r \in Requests, PatchCustomer(r)
  PROVE  /\ txn[r] # Idle /\ txn[r].at = "patch" /\ txn[r] \in Transaction
         /\ txn[r].op = "patch" /\ Phoned(r)
         /\ txn[r].cust \in Present /\ txn[r].cust \in Customers
         /\ txn[r].phone \in Phones \cup {NoPhone}
         /\ UNCHANGED <<holder, strayed>> /\ Ends(r)
         /\ \/ phone' = phone
            \/ /\ phone' = [phone EXCEPT ![txn[r].cust] = txn[r].phone]
               /\ FreeOfAll(r, txn[r].cust)
               /\ \A q \in Active(r) : txn[r].cust \in txn'[q].moved
         /\ txn[r].phone = txn[r].seen \/ phone'[txn[r].cust] = txn[r].phone
         /\ txn[r].phone = txn[r].seen => phone' = phone
<1> DEFINE c == txn[r].cust
           p == IF txn[r].phone = txn[r].seen THEN phone[c] ELSE txn[r].phone
<1>1. /\ txn[r] # Idle /\ txn[r].at = "patch" /\ txn[r] \in Transaction /\ Phoned(r)
      /\ Shape(r) /\ TypeOK /\ phone \in [Customers -> Phones \cup {NoPhone, Absent, Deleted}]
  BY InFlight DEF PatchCustomer, At, IInv, TypeOK
<1>2. /\ txn[r].op = "patch" /\ txn[r].phone \in Phones \cup {NoPhone}
      /\ c \in Present /\ c \in Customers
  BY <1>1, Fields DEF Shape, PatchCustomer, Present
<1>3. /\ UNCHANGED <<holder, strayed>> /\ phone' = [phone EXCEPT ![c] = p]
      /\ IF p = phone[c] THEN txn' = Ended(r) ELSE FreeOfAll(r, c) /\ txn' = Noticed(r, c)
  BY DEF PatchCustomer
<1>4. phone'[c] = p
  BY <1>1, <1>2, <1>3
<1>5. CASE p = phone[c]
  <2>1. phone' = phone
    BY <1>1, <1>3, <1>5
  <2>2. Ends(r)
    BY <1>1, <1>3, <1>5, EndsAlone DEF Ended
  <2> QED BY <1>1, <1>2, <1>3, <1>4, <2>1, <2>2
<1>6. CASE p # phone[c]
  <2>1. p = txn[r].phone /\ txn[r].phone # txn[r].seen
    BY <1>6
  <2>2. Ends(r) /\ \A q \in Active(r) : c \in txn'[q].moved
    BY <1>1, <1>2, <1>3, <1>6, EndsNoticed
  <2> QED BY <1>1, <1>2, <1>3, <1>4, <1>6, <2>1, <2>2
<1> QED BY <1>5, <1>6

\* A phone that a save has resolved and not written: others may have changed it,
\* and then the save has noticed, but not that of a row it has updated itself.
LEMMA PhonedIsKept ==
  ASSUME IInv, NEW q \in Requests, txn[q] # Idle, Kept(q),
         txn[q].cust \in Customers /\ phone[txn[q].cust] # Absent
             /\ phone'[txn[q].cust] # phone[txn[q].cust] =>
           /\ txn[q].cust \in txn'[q].moved
           /\ ~Updated(q, txn[q].cust)
  PROVE  Phoned(q)'
<1> DEFINE u == txn[q]
<1>1. u \in Transaction /\ Shape(q) /\ Holds(q) /\ Phoned(q)
  BY InFlight
<1>2. /\ txn'[q].at = u.at /\ txn'[q].phone = u.phone /\ txn'[q].wrote = u.wrote
      /\ txn'[q].cust = u.cust /\ txn'[q].from = u.from /\ txn'[q].op = u.op
      /\ txn'[q].seen = u.seen /\ u.moved \subseteq txn'[q].moved
  BY DEF Kept
<1>3. ASSUME u.at \in {"touch"} \cup Attaching, u.phone # NoPhone,
             u.wrote \notin {"new", "phone"}
      PROVE  \/ phone'[u.cust] = u.phone
             \/ u.cust # u.from /\ u.cust \in txn'[q].moved
  <2>1. u.cust \in Customers /\ phone[u.cust] # Absent /\ u.wrote \in {"nothing", "row"}
    BY <1>1, <1>3, Fields, Markers DEF Shape, Holds, Attaching
  <2>2. phone[u.cust] = u.phone \/ (u.cust # u.from /\ u.cust \in u.moved)
    BY <1>1, <1>3 DEF Phoned
  <2>3. CASE u.cust # u.from
    BY <1>2, <2>1, <2>2, <2>3
  <2>4. CASE u.cust = u.from
    <3>1. u.wrote = "row"
      <4>1. u.from # NoOne /\ u.at # "touch"
        BY <1>1, <2>1, <2>4, Markers DEF Shape
      <4>2. u.orphan = NoOne
        BY <1>1, <2>4 DEF Shape
      <4> QED BY <1>1, <1>3, <2>1, <4>1, <4>2, Markers DEF Shape
    <3>2. Updated(q, u.cust)
      BY <3>1 DEF Updated
    <3> QED BY <2>1, <2>2, <2>4, <3>2
  <2> QED BY <2>3, <2>4
<1>4. ASSUME u.op = "patch", u.phone = u.seen
      PROVE  u.cust \in txn'[q].moved \/ phone'[u.cust] = u.phone
  <2>1. u.cust \in Customers /\ phone[u.cust] # Absent
    BY <1>1, <1>4, Fields DEF Shape, Holds, Attaching, Reading
  <2> QED BY <1>1, <1>2, <1>4, <2>1 DEF Phoned
<1> QED BY <1>2, <1>3, <1>4 DEF Phoned

LEMMA InvPatchCustomer ==
  ASSUME IInv, NEW r \in Requests, PatchCustomer(r)
  PROVE  IInv'
<1> DEFINE c == txn[r].cust
           p == txn[r].phone
<1>0. /\ txn[r] # Idle /\ txn[r] \in Transaction /\ TypeOK
      /\ c \in Present /\ c \in Customers /\ p \in Phones \cup {NoPhone}
      /\ Ends(r) /\ UNCHANGED <<holder, strayed>>
  BY Patching DEF IInv
<1>1. \/ phone' = phone
      \/ /\ phone' = [phone EXCEPT ![c] = p] /\ FreeOfAll(r, c)
         /\ \A q \in Active(r) : c \in txn'[q].moved
  BY Patching
<1>3. /\ phone' \in [Customers -> Phones \cup {NoPhone, Absent, Deleted}]
      /\ \A d \in Customers \ {c} : phone'[d] = phone[d]
      /\ phone'[c] \notin {Absent, Deleted} /\ phone[c] \notin {Absent, Deleted}
  BY <1>0, <1>1, Markers DEF TypeOK, Present
<1>4. Present' = Present
  BY <1>3 DEF Present
<1>5. TypeOK'
  BY <1>0, <1>3 DEF TypeOK, Ends
<1>6. ASSUME NEW q \in Requests, txn'[q] # Idle
      PROVE  Shape(q)' /\ Holds(q)' /\ Phoned(q)' /\ Counted(q)'
  <2>1. /\ q \in Active(r) /\ txn[q] # Idle /\ Kept(q) /\ Shape(q)'
        /\ txn[q] \in Transaction
        /\ Shape(q) /\ Holds(q) /\ Phoned(q) /\ Counted(q)
    BY <1>0, <1>6, StillInFlight
  <2>2. Holds(q)'
    <3>1. txn[q].cust \in Customers \cup {NoOne} /\ txn[q].orphan \in Customers \cup {NoOne}
      BY <2>1, Fields
    <3>2. txn[q].wrote = "new" => txn[q].cust \in Customers
      BY <2>1, <3>1 DEF Shape
    <3>3. \A d \in Customers : phone'[d] = Absent <=> phone[d] = Absent
      BY <1>3
    <3>4. Attached(q)' <=> Attached(q)
      BY <2>1 DEF Attached, Kept
    <3> QED BY <1>0, <1>4, <2>1, <3>1, <3>2, <3>3, <3>4 DEF Holds, Kept
  <2>3. Phoned(q)'
    <3>1. txn[q].cust \in Customers /\ phone'[txn[q].cust] # phone[txn[q].cust] =>
            txn[q].cust \in txn'[q].moved /\ ~Updated(q, txn[q].cust)
      BY <1>1, <1>3, <2>1 DEF FreeOfAll
    <3> QED BY <2>1, <3>1, PhonedIsKept
  <2>4. Counted(q)'
    BY <1>0, <2>1 DEF Counted, Kept, OrdersOf
  <2> QED BY <2>1, <2>2, <2>3, <2>4
<1>7. ASSUME NEW x \in Requests, NEW y \in Requests, x # y, txn'[x] # Idle, txn'[y] # Idle
      PROVE  Apart(x, y)'
  <2>1. txn[x] # Idle /\ txn[y] # Idle /\ Kept(x) /\ Kept(y)
    BY <1>0, <1>7, StillInFlight
  <2>2. Apart(x, y)
    BY <1>7, <2>1 DEF IInv
  <2> QED BY <1>0, <2>1, <2>2, ApartIsKept
<1>8. Referenced' /\ NoOrphan'
  BY <1>0, <1>4 DEF IInv, Referenced, NoOrphan, OrdersOf
<1> QED BY <1>5, <1>6, <1>7, <1>8 DEF IInv

-----------------------------------------------------------------------------
(* The commit of an order.                                                 *)

Goner(r) == IF txn[r].remove = "yes" THEN txn[r].orphan ELSE NoOne

LEMMA Committing ==
  ASSUME IInv, NEW r \in Requests, Commit(r)
  PROVE  /\ txn[r] # Idle /\ txn[r].at = "commit" /\ txn[r] \in Transaction
         /\ Shape(r) /\ Holds(r) /\ Phoned(r) /\ Counted(r) /\ Attached(r)
         /\ txn[r].order \in Orders /\ txn[r].op \in {"create", "edit"}
         /\ txn[r].cust \in Customers \cup {NoOne}
<1>1. txn[r] # Idle /\ txn[r].at = "commit"
  BY DEF Commit, At
<1>2. txn[r] \in Transaction /\ Shape(r) /\ Holds(r) /\ Phoned(r) /\ Counted(r)
  BY <1>1, InFlight
<1> QED BY <1>1, <1>2, Fields DEF Shape, Attached

\* A customer is deleted when the one order it had is the one being saved.
LEMMA GonerHasNothing ==
  ASSUME IInv, NEW r \in Requests, Commit(r), Goner(r) # NoOne
  PROVE  /\ Goner(r) = txn[r].orphan /\ Goner(r) \in Customers
         /\ txn[r].wrote = "nothing" /\ txn[r].cust \in Customers
         /\ txn[r].cust # Goner(r) /\ txn[r].cust \in Present
         /\ txn[r].locks = {Goner(r)} /\ phone[Goner(r)] # Absent
         /\ OrdersOf(Goner(r)) \subseteq {txn[r].order} /\ FreeOfAll(r, Goner(r))
<1>1. /\ txn[r] \in Transaction /\ Shape(r) /\ Holds(r) /\ Counted(r) /\ Attached(r)
      /\ txn[r].at = "commit"
  BY Committing
<1>2. txn[r].remove = "yes" /\ Goner(r) = txn[r].orphan
  BY DEF Goner
<1>3. /\ txn[r].orphan \in Customers /\ txn[r].wrote = "nothing"
      /\ txn[r].cust \in Customers /\ txn[r].cust # txn[r].orphan
      /\ txn[r].locks = {txn[r].orphan}
  BY <1>1, <1>2, Fields DEF Shape
<1>4. txn[r].cust \in Present /\ phone[txn[r].orphan] # Absent
  BY <1>1, <1>2, <1>3, Markers DEF Holds
<1>5. OrdersOf(txn[r].orphan) \subseteq {txn[r].order}
  BY <1>1, <1>2 DEF Counted
<1>6. FreeOfAll(r, Goner(r))
  BY DEF Commit, Goner
<1> QED BY <1>2, <1>3, <1>4, <1>5, <1>6

Committed(r) ==
  LET t == txn[r] IN
    /\ \A d \in Customers :
         phone'[d] = IF d = Goner(r) THEN Deleted
                     ELSE IF d = t.cust /\ t.wrote \in {"new", "phone"} THEN t.phone
                     ELSE phone[d]
    /\ holder'[t.order] = t.cust
    /\ \A o \in Orders \ {t.order} : holder'[o] = holder[o]
    /\ strayed \subseteq strayed'
    /\ holder[t.order] \in Customers \ {t.from, t.cust} => holder[t.order] \in strayed'

LEMMA CommitWrites ==
  ASSUME IInv, NEW r \in Requests, Commit(r)
  PROVE  Committed(r)
<1> DEFINE t == txn[r]
           gone == Goner(r)
<1>0. t.order \in Orders
  BY Committing
<1>1. /\ phone' = [c \in Customers |->
            IF c = gone THEN Deleted
            ELSE IF c = t.cust /\ t.wrote \in {"new", "phone"} THEN t.phone
            ELSE phone[c]]
      /\ holder' = [o \in Orders |->
            IF o = t.order THEN t.cust
            ELSE IF gone # NoOne /\ holder[o] = gone THEN Deleted
            ELSE holder[o]]
      /\ strayed' = IF holder[t.order] \in Customers \ {t.from, t.cust}
                      THEN strayed \cup {holder[t.order]} ELSE strayed
  BY DEF Commit, Goner
<1>2. gone # NoOne => \A o \in Orders : holder[o] = gone => o = t.order
  BY GonerHasNothing DEF OrdersOf
<1> HIDE DEF t, gone
<1>3. holder'[t.order] = t.cust
  BY <1>0, <1>1
<1>4. \A o \in Orders \ {t.order} : holder'[o] = holder[o]
  BY <1>1, <1>2
<1>5. \A d \in Customers :
         phone'[d] = IF d = gone THEN Deleted
                     ELSE IF d = t.cust /\ t.wrote \in {"new", "phone"} THEN t.phone
                     ELSE phone[d]
  BY <1>1
<1>6. /\ strayed \subseteq strayed'
      /\ holder[t.order] \in Customers \ {t.from, t.cust} => holder[t.order] \in strayed'
  BY <1>1
<1> QED BY <1>3, <1>4, <1>5, <1>6 DEF Committed, t, gone

LEMMA CommitTypes ==
  ASSUME IInv, NEW r \in Requests, Commit(r)
  PROVE  /\ phone' \in [Customers -> Phones \cup {NoPhone, Absent, Deleted}]
         /\ holder' \in [Orders -> Customers \cup {NoOne, Absent, Deleted}]
         /\ strayed' \subseteq Customers
<1>1. TypeOK /\ Committed(r)
  BY CommitWrites DEF IInv
<1>2. /\ txn[r].order \in Orders /\ txn[r].cust \in Customers \cup {NoOne}
      /\ txn[r].phone \in Phones \cup {NoPhone}
  BY Committing, Fields
<1>3. \A d \in Customers : phone'[d] \in Phones \cup {NoPhone, Absent, Deleted}
  BY <1>1, <1>2 DEF TypeOK, Committed
<1>4. \A o \in Orders : holder'[o] \in Customers \cup {NoOne, Absent, Deleted}
  BY <1>1, <1>2 DEF TypeOK, Committed
<1>5. phone' = [c \in Customers |-> phone'[c]] /\ holder' = [o \in Orders |-> holder'[o]]
  BY DEF Commit
<1>6. strayed' \subseteq Customers
  BY <1>1 DEF Commit, TypeOK
<1> QED BY <1>3, <1>4, <1>5, <1>6

\* Whoever had read a customer whose phone the commit changes takes notice, and
\* has not written that customer.
LEMMA CommitEnds ==
  ASSUME IInv, NEW r \in Requests, Commit(r)
  PROVE  /\ Ends(r)
         /\ \A q \in Active(r), d \in Customers :
              phone[d] # Absent /\ phone'[d] # phone[d]
                => d \in txn'[q].moved /\ ~(txn[q].wrote # "nothing" /\ txn[q].cust = d)
<1> DEFINE t == txn[r]
<1>0. /\ TypeOK /\ t \in Transaction /\ Shape(r) /\ Holds(r) /\ Committed(r)
  BY Committing, CommitWrites DEF IInv
<1>1. txn' = IF t.wrote = "phone" THEN Noticed(r, t.cust)
             ELSE IF Goner(r) # NoOne THEN Noticed(r, Goner(r)) ELSE Ended(r)
  BY DEF Commit, Goner
<1>2. CASE t.wrote = "phone"
  <2>1. t.cust \in Customers /\ txn' = Noticed(r, t.cust) /\ Goner(r) = NoOne
    BY <1>0, <1>1, <1>2, Fields, GonerHasNothing DEF Shape
  <2>2. /\ Ends(r)
        /\ \A q \in Active(r) : t.cust \in txn'[q].moved
    BY <1>0, <2>1, EndsNoticed
  <2>3. \A d \in Customers : phone'[d] # phone[d] => d = t.cust
    BY <1>0, <2>1, Markers DEF Committed
  <2>4. \A q \in Active(r) : txn[q].wrote # "nothing" => txn[q].cust # t.cust
    <3>1. SUFFICES ASSUME NEW q \in Active(r), txn[q].wrote # "nothing"
                   PROVE  txn[q].cust # t.cust
      OBVIOUS
    <3>2. Apart(q, r)
      BY TwoInFlight, Committing
    <3> QED BY <1>2, <3>1, <3>2 DEF Apart
  <2> QED BY <2>2, <2>3, <2>4
<1>3. CASE t.wrote # "phone" /\ Goner(r) # NoOne
  <2>1. Goner(r) \in Customers /\ txn' = Noticed(r, Goner(r)) /\ t.wrote = "nothing"
    BY <1>1, <1>3, GonerHasNothing
  <2>2. /\ Ends(r)
        /\ \A q \in Active(r) : Goner(r) \in txn'[q].moved
    BY <1>0, <2>1, EndsNoticed
  <2>3. \A d \in Customers : phone'[d] # phone[d] => d = Goner(r)
    BY <1>0, <2>1 DEF Committed
  <2>4. \A q \in Active(r) : txn[q].wrote # "nothing" => txn[q].cust # Goner(r)
    <3>1. SUFFICES ASSUME NEW q \in Active(r), txn[q].wrote # "nothing",
                          txn[q].cust = Goner(r)
                   PROVE  FALSE
      OBVIOUS
    <3>2. ~Updated(q, Goner(r)) /\ phone[Goner(r)] # Absent
      BY <1>3, GonerHasNothing DEF FreeOfAll
    <3>3. txn[q] \in Transaction /\ Holds(q)
      BY InFlight DEF Active
    <3>4. txn[q].wrote = "new"
      BY <3>1, <3>2, <3>3, Fields DEF Updated, Exclusive
    <3> QED BY <3>1, <3>2, <3>3, <3>4 DEF Holds
  <2> QED BY <2>2, <2>3, <2>4
<1>4. CASE t.wrote # "phone" /\ Goner(r) = NoOne
  <2>1. Ends(r)
    BY <1>0, <1>1, <1>4, EndsAlone DEF Ended
  <2>2. \A d \in Customers : phone'[d] # phone[d] => phone[d] = Absent
    BY <1>0, <1>4, Markers DEF Committed, Holds
  <2> QED BY <2>1, <2>2
<1> QED BY <1>2, <1>3, <1>4

\* Only the customer it cleans up leaves, and only the one it has inserted
\* arrives.
LEMMA CommitPresent ==
  ASSUME IInv, NEW r \in Requests, Commit(r), NEW d \in Customers
  PROVE  /\ d \in Present /\ d # Goner(r) => d \in Present'
         /\ d \in Present' => d # Goner(r) /\ (d \in Present \/ d = txn[r].cust)
         /\ phone[d] # Absent => phone'[d] # Absent
         /\ phone[d] = Absent /\ ~(txn[r].wrote = "new" /\ d = txn[r].cust)
              => phone'[d] = Absent
         /\ txn[r].wrote = "new" /\ d = txn[r].cust => d \in Present'
<1>0. /\ txn[r] \in Transaction /\ Shape(r) /\ Holds(r) /\ Committed(r)
      /\ txn[r].phone \notin {Absent, Deleted}
  BY Committing, CommitWrites, Fields, Markers
<1>1. Goner(r) # NoOne => phone[Goner(r)] # Absent /\ txn[r].wrote = "nothing"
  BY GonerHasNothing
<1>2. txn[r].wrote = "phone" => phone[txn[r].cust] # Absent
  BY <1>0 DEF Holds, Present
<1>3. phone'[d] = IF d = Goner(r) THEN Deleted
                  ELSE IF d = txn[r].cust /\ txn[r].wrote \in {"new", "phone"}
                         THEN txn[r].phone
                  ELSE phone[d]
  BY <1>0 DEF Committed
<1>4. d # NoOne
  BY Markers
<1> QED BY <1>0, <1>1, <1>2, <1>3, <1>4, Markers DEF Present

\* The other requests, when r has committed.
LEMMA CommitHolds ==
  ASSUME IInv, NEW r \in Requests, Commit(r), NEW q \in Requests, txn'[q] # Idle
  PROVE  Holds(q)'
<1> DEFINE t == txn[r]
           u == txn[q]
<1>0. /\ t \in Transaction /\ Shape(r) /\ Holds(r) /\ Committed(r) /\ Attached(r)
      /\ t.order \in Orders /\ t.cust \in Customers \cup {NoOne}
      /\ t.op \in {"create", "edit"}
  BY Committing, CommitWrites
<1>1. /\ q \in Active(r) /\ q # r /\ Kept(q) /\ u \in Transaction
      /\ Shape(q) /\ Holds(q) /\ Apart(q, r) /\ Apart(r, q)
  BY CommitEnds, Committing, StillInFlight
<1>2. /\ u.cust \in Customers \cup {NoOne} /\ u.orphan \in Customers \cup {NoOne}
      /\ u.wrote # "nothing" => u.cust \in Customers
      /\ u.op \in {"create", "edit"} => u.order \in Orders
  BY <1>1, Fields DEF Shape
<1>3. u.op = "create" => holder'[u.order] = Absent
  <2>1. SUFFICES ASSUME u.op = "create" PROVE holder'[u.order] = Absent
    OBVIOUS
  <2>2. u.order # t.order
    BY <1>0, <1>1, <2>1 DEF Apart, Holds
  <2> QED BY <1>0, <1>1, <1>2, <2>1, <2>2 DEF Committed, Holds
<1>4. u.op = "edit" => holder'[u.order] # Absent
  BY <1>0, <1>1, <1>2, Markers DEF Committed, Holds
<1>5. u.wrote = "new" => phone'[u.cust] = Absent
  <2>1. u.wrote = "new" => t.wrote # "new" /\ phone[u.cust] = Absent
    BY <1>1 DEF Apart, Holds
  <2> QED BY <1>2, <2>1, CommitPresent
<1>6. /\ u.cust # NoOne /\ u.wrote # "new" => phone'[u.cust] # Absent
      /\ u.orphan # NoOne => phone'[u.orphan] # Absent
  BY <1>1, <1>2, CommitPresent DEF Holds
<1>7. u.wrote \in {"row", "phone"} => u.cust \in Present'
  <2>1. SUFFICES ASSUME u.wrote \in {"row", "phone"} PROVE u.cust \in Present'
    OBVIOUS
  <2>2. u.cust \in Customers /\ u.cust \in Present
    BY <1>1, <1>2, <2>1 DEF Holds
  <2>3. u.cust # Goner(r)
    <3>1. SUFFICES ASSUME u.cust = Goner(r) PROVE FALSE
      OBVIOUS
    <3>2. Goner(r) # NoOne
      BY <2>2, <3>1, Markers
    <3>3. ~Updated(q, Goner(r))
      BY <1>1, <3>2, GonerHasNothing DEF FreeOfAll
    <3> QED BY <2>1, <3>1, <3>3 DEF Updated, Exclusive
  <2> QED BY <2>2, <2>3, CommitPresent
<1>8. Attached(q) /\ u.cust # NoOne /\ u.wrote # "new" => u.cust \in Present'
  <2>1. SUFFICES ASSUME Attached(q), u.cust # NoOne, u.wrote # "new"
                 PROVE  u.cust \in Present'
    OBVIOUS
  <2>2. u.cust \in Customers /\ u.cust \in Present
    BY <1>1, <1>2, <2>1 DEF Holds
  <2>3. u.cust # Goner(r)
    <3>1. SUFFICES ASSUME u.cust = Goner(r) PROVE FALSE
      OBVIOUS
    <3>2. Goner(r) # NoOne
      BY <2>2, <3>1, Markers
    <3>3. ~Refers(q, Goner(r)) /\ OrdersOf(Goner(r)) \subseteq {t.order}
      BY <1>1, <3>2, GonerHasNothing DEF FreeOfAll
    <3>4. u.op \in {"create", "edit"}
      BY <1>1, <2>1, Fields DEF Shape, Attached
    <3>5. u.order \in OrdersOf(Goner(r))
      BY <1>2, <2>1, <3>1, <3>3, <3>4 DEF Refers, OrdersOf
    <3>6. u.order # t.order
      BY <1>0, <1>1, <2>1 DEF Apart
    <3> QED BY <3>3, <3>5, <3>6
  <2> QED BY <2>2, <2>3, CommitPresent
<1>9. Attached(q)' <=> Attached(q)
  BY <1>1 DEF Attached, Kept
<1> QED BY <1>1, <1>3, <1>4, <1>5, <1>6, <1>7, <1>8, <1>9 DEF Holds, Kept

LEMMA CommitPhoned ==
  ASSUME IInv, NEW r \in Requests, Commit(r), NEW q \in Requests, txn'[q] # Idle
  PROVE  Phoned(q)'
<1> DEFINE c == txn[q].cust
<1>1. /\ q \in Active(r) /\ txn[q] # Idle /\ Kept(q) /\ Shape(q)
      /\ txn[q] \in Transaction
  BY CommitEnds, Committing, StillInFlight
<1>2. ASSUME c \in Customers, phone[c] # Absent, phone'[c] # phone[c]
      PROVE  c \in txn'[q].moved /\ ~Updated(q, c)
  <2>1. c \in txn'[q].moved /\ txn[q].wrote = "nothing"
    BY <1>1, <1>2, CommitEnds
  <2>2. c \notin txn[q].locks
    BY <1>1, <1>2, Markers DEF Shape
  <2> QED BY <2>1, <2>2 DEF Updated, Exclusive
<1> QED BY <1>1, <1>2, PhonedIsKept

\* The customer an order leaves behind is the one its request cleans up.
LEMMA CommitLeaves ==
  ASSUME IInv, NEW r \in Requests, Commit(r), NEW c \in Customers,
         holder[txn[r].order] = c, txn[r].cust # c, c \notin strayed'
  PROVE  txn[r].orphan = c /\ txn[r].locks = {c}
<1>0. /\ txn[r] \in Transaction /\ Shape(r) /\ Committed(r) /\ txn[r].at = "commit"
      /\ txn[r].op \in {"create", "edit"}
  BY Committing, CommitWrites
<1>1. txn[r].from = c
  BY <1>0 DEF Committed
<1>2. c # NoOne
  BY Markers
<1> QED BY <1>0, <1>1, <1>2 DEF Shape

LEMMA CommitCounted ==
  ASSUME IInv, NEW r \in Requests, Commit(r), NEW q \in Requests, txn'[q] # Idle
  PROVE  Counted(q)'
<1> DEFINE t == txn[r]
           u == txn[q]
           c == txn[q].orphan
<1>0. /\ Committed(r) /\ Attached(r) /\ t.order \in Orders
  BY Committing, CommitWrites
<1>1. /\ q \in Active(r) /\ Kept(q) /\ u \in Transaction /\ Shape(q) /\ Counted(q)
      /\ Apart(q, r) /\ Apart(r, q)
  BY CommitEnds, Committing, StillInFlight
<1>2. /\ u.remove = "yes" => u.at = "commit" /\ c # NoOne
      /\ u.at = "commit" /\ c # NoOne => c \in Customers /\ u.locks = {c}
  BY <1>1, Fields DEF Shape
<1>3. u.remove = "yes" => \A o \in Orders : holder'[o] = c => o = u.order
  <2>1. SUFFICES ASSUME u.remove = "yes", NEW o \in Orders, holder'[o] = c
                 PROVE  o = u.order
    OBVIOUS
  <2>2. OrdersOf(c) \subseteq {u.order}
    BY <1>1, <2>1 DEF Counted
  <2>3. CASE o # t.order
    BY <1>0, <2>1, <2>2, <2>3 DEF Committed, OrdersOf
  <2>4. CASE o = t.order
    <3>1. t.cust = c /\ c \in u.locks
      BY <1>0, <1>2, <2>1, <2>4 DEF Committed
    <3>2. holder[t.order] = c
      BY <1>0, <1>1, <3>1 DEF Apart
    <3> QED BY <1>0, <2>2, <2>4, <3>2 DEF OrdersOf
  <2> QED BY <2>3, <2>4
<1>4. u.at = "commit" /\ c # NoOne /\ u.remove = "no" =>
         c \in strayed' \/ \E o \in Orders : holder'[o] = c /\ o # u.order
  <2>1. SUFFICES ASSUME u.at = "commit", c # NoOne, u.remove = "no", c \notin strayed'
                 PROVE  \E o \in Orders : holder'[o] = c /\ o # u.order
    OBVIOUS
  <2>2. c \notin strayed
    BY <1>0, <2>1 DEF Committed
  <2>3. PICK o \in OrdersOf(c) : o # u.order
    BY <1>1, <2>1, <2>2 DEF Counted
  <2>4. o \in Orders /\ holder[o] = c
    BY <2>3 DEF OrdersOf
  <2>5. holder'[o] = c
    <3>1. CASE o # t.order
      BY <1>0, <2>4, <3>1 DEF Committed
    <3>2. CASE o = t.order
      <4>1. SUFFICES ASSUME t.cust # c PROVE FALSE
        BY <1>0, <3>2 DEF Committed
      <4>2. t.locks = {c} /\ u.locks = {c}
        BY <1>2, <2>1, <2>4, <3>2, <4>1, CommitLeaves
      <4> QED BY <1>1, <4>2 DEF Apart
    <3> QED BY <3>1, <3>2
  <2> QED BY <2>3, <2>4, <2>5
<1>5. /\ txn'[q].remove = u.remove /\ txn'[q].at = u.at
      /\ txn'[q].orphan = c /\ txn'[q].order = u.order
  BY <1>1 DEF Kept
<1>6. OrdersOf(txn[q].orphan)' = {o \in Orders : holder'[o] = txn'[q].orphan}
  BY DEF OrdersOf
<1>7. OrdersOf(txn[q].orphan)' = {o \in Orders : holder'[o] = c}
  BY <1>5, <1>6
<1> QED BY <1>3, <1>4, <1>5, <1>7 DEF Counted

LEMMA InvCommit ==
  ASSUME IInv, NEW r \in Requests, Commit(r)
  PROVE  IInv'
<1> DEFINE t == txn[r]
<1>0. /\ txn[r] # Idle /\ Ends(r) /\ Committed(r) /\ Attached(r) /\ t.order \in Orders
      /\ t.cust \in Customers \cup {NoOne} /\ Shape(r) /\ Holds(r) /\ Counted(r)
      /\ t.at = "commit" /\ t \in Transaction
  BY Committing, CommitWrites, CommitEnds
<1>1. TypeOK'
  BY <1>0, CommitTypes DEF TypeOK, Ends
<1>2. ASSUME NEW q \in Requests, txn'[q] # Idle
      PROVE  Shape(q)' /\ Holds(q)' /\ Phoned(q)' /\ Counted(q)'
  BY <1>0, <1>2, StillInFlight, CommitHolds, CommitPhoned, CommitCounted
<1>3. ASSUME NEW p \in Requests, NEW q \in Requests, p # q, txn'[p] # Idle, txn'[q] # Idle
      PROVE  Apart(p, q)'
  <2>1. /\ txn[p] # Idle /\ txn[q] # Idle /\ Kept(p) /\ Kept(q) /\ Apart(p, r)
        /\ txn[p] \in Transaction /\ Shape(p)
    BY <1>0, <1>3, StillInFlight
  <2>2. Apart(p, q)
    BY <1>3, <2>1 DEF IInv
  <2>3. Attached(p) => holder'[txn[p].order] = holder[txn[p].order]
    <3>1. Attached(p) => txn[p].order # t.order
      BY <1>0, <2>1 DEF Apart
    <3>2. Attached(p) => txn[p].order \in Orders
      BY <2>1, Fields DEF Attached, Shape
    <3> QED BY <1>0, <3>1, <3>2 DEF Committed
  <2> QED BY <2>1, <2>2, <2>3, ApartIsKept
<1>4. ASSUME NEW o \in Orders
      PROVE  holder'[o] # Deleted /\ (holder'[o] \in Customers => holder'[o] \in Present')
  <2>1. CASE o = t.order
    <3>1. holder'[o] = t.cust
      BY <1>0, <2>1 DEF Committed
    <3>2. t.cust # Deleted
      BY <1>0, Markers
    <3>3. ASSUME t.cust \in Customers PROVE t.cust \in Present'
      <4>1. CASE t.wrote = "new"
        BY <3>3, <4>1, CommitPresent
      <4>2. CASE t.wrote # "new"
        <5>1. t.cust \in Present
          BY <1>0, <3>3, <4>2, Markers DEF Holds
        <5>2. t.cust # Goner(r)
          BY <3>3, GonerHasNothing, Markers
        <5> QED BY <3>3, <5>1, <5>2, CommitPresent
      <4> QED BY <4>1, <4>2
    <3> QED BY <3>1, <3>2, <3>3
  <2>2. CASE o # t.order
    <3>1. holder'[o] = holder[o]
      BY <1>0, <2>2 DEF Committed
    <3>2. holder[o] # Deleted /\ (holder[o] \in Customers => holder[o] \in Present)
      BY DEF IInv, Referenced
    <3>3. holder[o] \in Customers => holder[o] # Goner(r)
      BY <2>2, GonerHasNothing, Markers DEF OrdersOf
    <3> QED BY <3>1, <3>2, <3>3, CommitPresent
  <2> QED BY <2>1, <2>2
<1>5. ASSUME NEW c \in Present' \ strayed'
      PROVE  OrdersOf(c)' # {}
  <2>0. c \in Customers /\ c # Goner(r) /\ (c \in Present \/ c = t.cust)
    <3>1. c \in Customers
      BY DEF Present
    <3> QED BY <3>1, CommitPresent
  <2>1. CASE c = t.cust
    BY <1>0, <2>1 DEF Committed, OrdersOf
  <2>2. CASE c # t.cust
    <3>1. c \in Present \ strayed
      BY <1>0, <2>0, <2>2 DEF Committed
    <3>2. PICK o \in OrdersOf(c) : TRUE
      BY <3>1 DEF IInv, NoOrphan
    <3>3. o \in Orders /\ holder[o] = c
      BY <3>2 DEF OrdersOf
    <3>4. CASE o # t.order
      BY <1>0, <3>3, <3>4 DEF Committed, OrdersOf
    <3>5. CASE o = t.order
      <4>1. t.orphan = c
        BY <2>0, <2>2, <3>3, <3>5, CommitLeaves
      <4>2. t.remove = "no"
        BY <1>0, <2>0, <4>1, Fields DEF Goner
      <4>3. ~(OrdersOf(c) \subseteq {t.order})
        BY <1>0, <2>0, <3>1, <4>1, <4>2, Markers DEF Counted
      <4>4. PICK p \in Orders : holder[p] = c /\ p # t.order
        BY <4>3 DEF OrdersOf
      <4> QED BY <1>0, <4>4 DEF Committed, OrdersOf
    <3> QED BY <3>4, <3>5
  <2> QED BY <2>1, <2>2
<1>6. Referenced'
  BY <1>4 DEF Referenced
<1>7. NoOrphan'
  BY <1>5 DEF NoOrphan
<1> QED BY <1>1, <1>2, <1>3, <1>6, <1>7 DEF IInv

-----------------------------------------------------------------------------
(* Every step.                                                             *)

LEMMA InvStep ==
  ASSUME IInv, NEW r \in Requests, Step(r)
  PROVE  IInv'
<1>1. CASE CreateOrder(r) \/ UpdateOrder(r) \/ UpdateCustomer(r)
  BY <1>1, InvCreateOrder, InvUpdateOrder, InvUpdateCustomer
<1>2. CASE FindByPhone(r) \/ UpdateFound(r) \/ InsertCustomer(r)
  BY <1>2, InvFindByPhone, InvUpdateFound, InvInsertCustomer
<1>3. CASE Match(r) \/ UpdateInPlace(r) \/ AttachOrder(r)
  BY <1>3, InvMatch, InvUpdateInPlace, InvAttachOrder
<1>4. CASE LockOrphan(r) \/ CountRemaining(r) \/ Commit(r)
  BY <1>4, InvLockOrphan, InvCountRemaining, InvCommit
<1>5. CASE VetPhone(r) \/ PatchCustomer(r) \/ Abort(r)
  BY <1>5, InvVetPhone, InvPatchCustomer, InvAbort
<1> QED BY <1>1, <1>2, <1>3, <1>4, <1>5 DEF Step

LEMMA InvStutter ==
  ASSUME IInv, UNCHANGED vars
  PROVE  IInv'
<1>1. TypeOK' /\ Referenced' /\ NoOrphan'
  BY DEF IInv, vars, TypeOK, Referenced, NoOrphan, Present, OrdersOf
<1>2. ASSUME NEW r \in Requests, txn'[r] # Idle
      PROVE  Shape(r)' /\ Holds(r)' /\ Phoned(r)' /\ Counted(r)'
  <2>1. Shape(r) /\ Holds(r) /\ Phoned(r) /\ Counted(r) /\ txn' = txn
    BY <1>2, InFlight DEF vars
  <2>2. Shape(r)' /\ Phoned(r)'
    BY <2>1 DEF Shape, Phoned, vars
  <2>3. Holds(r)' /\ Counted(r)'
    BY <2>1 DEF Holds, Counted, Attached, Present, OrdersOf, vars
  <2> QED BY <2>2, <2>3
<1>3. ASSUME NEW q \in Requests, NEW r \in Requests, q # r, txn'[q] # Idle, txn'[r] # Idle
      PROVE  Apart(q, r)'
  <2>1. Apart(q, r)
    BY <1>3 DEF IInv, vars
  <2> QED BY <2>1 DEF Apart, Attached, vars
<1> QED BY <1>1, <1>2, <1>3 DEF IInv

LEMMA InvInit == Init => IInv
<1>1. SUFFICES ASSUME Init PROVE IInv
  OBVIOUS
<1>2. TypeOK
  BY <1>1 DEF Init, TypeOK
<1>3. \A r \in Requests : txn[r] = Idle
  BY <1>1 DEF Init
<1>4. Present = {}
  BY <1>1 DEF Init, Present
<1>5. Referenced
  BY <1>1, Markers DEF Init, Referenced
<1>6. NoOrphan
  BY <1>4 DEF NoOrphan
<1> QED BY <1>2, <1>3, <1>5, <1>6 DEF IInv

\* The invariant that everything below follows from.
THEOREM Invariance == Spec => []IInv
<1>1. IInv /\ [Next]_vars => IInv'
  BY InvStep, InvStutter DEF Next
<1> QED BY <1>1, InvInit, PTL DEF Spec

\* Every row and every request in flight has the shape its kind says.
THEOREM TypeCorrect == Spec => []TypeOK
<1>1. IInv => TypeOK
  BY DEF IInv
<1> QED BY <1>1, Invariance, PTL

\* The foreign key always holds, and no order is ever taken along by the
\* deletion of a customer (schema.prisma 233).
THEOREM ReferencesHold == Spec => []Referenced
<1>1. IInv => Referenced
  BY DEF IInv
<1> QED BY <1>1, Invariance, PTL

\* A customer row has an order, unless an edit that had read its order before
\* it was the customer's has taken it away (orders.service.ts 582-596).
THEOREM OrphansCorrect == Spec => []NoOrphan
<1>1. IInv => NoOrphan
  BY DEF IInv
<1> QED BY <1>1, Invariance, PTL

-----------------------------------------------------------------------------
(* Orders are written when their request commits, and only then.           *)

LEMMA OthersWriteNoOrder ==
  ASSUME NEW r \in Requests, Step(r), ~Commit(r)
  PROVE  holder' = holder
<1>1. CASE CreateOrder(r) \/ UpdateOrder(r) \/ UpdateCustomer(r)
  BY <1>1 DEF CreateOrder, UpdateOrder, UpdateCustomer, Begin
<1>2. CASE FindByPhone(r) \/ UpdateFound(r) \/ InsertCustomer(r)
  BY <1>2 DEF FindByPhone, UpdateFound, InsertCustomer
<1>3. CASE Match(r) \/ UpdateInPlace(r) \/ AttachOrder(r)
  BY <1>3 DEF Match, UpdateInPlace, AttachOrder
<1>4. CASE LockOrphan(r) \/ CountRemaining(r)
  BY <1>4 DEF LockOrphan, CountRemaining
<1>5. CASE VetPhone(r) \/ PatchCustomer(r) \/ Abort(r)
  BY <1>5 DEF VetPhone, PatchCustomer, Abort
<1> QED BY <1>1, <1>2, <1>3, <1>4, <1>5 DEF Step

LEMMA CommitKeepsOrders ==
  ASSUME IInv, NEW r \in Requests, Commit(r), NEW o \in Orders, o \in Placed
  PROVE  holder'[o] \notin {Absent, Deleted}
<1>1. /\ Committed(r) /\ txn[r].cust \in Customers \cup {NoOne}
      /\ holder[o] \notin {Absent, Deleted}
  BY Committing, CommitWrites DEF Placed
<1>2. CASE o = txn[r].order
  BY <1>1, <1>2, Markers DEF Committed
<1>3. CASE o # txn[r].order
  BY <1>1, <1>3 DEF Committed
<1> QED BY <1>2, <1>3

\* An order that was saved is there for good: no clean-up after a merge takes
\* it along (orders.service.ts 591-596, schema.prisma 233).
THEOREM OrdersKept == Spec => NoOrderLost
<1>1. ASSUME IInv, [Next]_vars
      PROVE  \A o \in Orders : o \in Placed => holder'[o] \notin {Absent, Deleted}
  <2>1. SUFFICES ASSUME NEW o \in Orders, o \in Placed
                 PROVE  holder'[o] \notin {Absent, Deleted}
    OBVIOUS
  <2>2. CASE holder' = holder
    BY <2>1, <2>2 DEF Placed
  <2>3. ASSUME NEW r \in Requests, Commit(r)
        PROVE  holder'[o] \notin {Absent, Deleted}
    BY <1>1, <2>1, <2>3, CommitKeepsOrders
  <2> QED BY <1>1, <2>2, <2>3, OthersWriteNoOrder DEF Next, vars
<1>2. IInv /\ [Next]_vars
        => [\A o \in Orders : o \in Placed => holder'[o] \notin {Absent, Deleted}]_vars
  BY <1>1
<1> QED BY <1>2, Invariance, PTL DEF Spec, NoOrderLost

LEMMA CommitSavesUnderItsPhone ==
  ASSUME IInv, NEW r \in Requests, Commit(r), txn[r].phone # NoPhone
  PROVE  /\ holder'[txn[r].order] = txn[r].cust
         /\ \/ phone'[txn[r].cust] = txn[r].phone
            \/ OnlyRead(r) /\ txn[r].cust \in txn[r].moved
<1> DEFINE t == txn[r]
<1>1. /\ t \in Transaction /\ Shape(r) /\ Phoned(r) /\ Committed(r) /\ t.at = "commit"
      /\ t.op \in {"create", "edit"}
  BY Committing, CommitWrites
<1>2. t.cust \in Customers /\ t.cust # Goner(r)
  <2>1. t.cust \in Customers
    BY <1>1, Fields DEF Shape, Attaching
  <2> QED BY <2>1, GonerHasNothing, Markers
<1>3. \/ t.wrote \in {"new", "phone"} \/ phone[t.cust] = t.phone
      \/ t.cust # t.from /\ t.cust \in t.moved
  BY <1>1 DEF Phoned, Attaching
<1>4. phone'[t.cust] = IF t.wrote \in {"new", "phone"} THEN t.phone ELSE phone[t.cust]
  BY <1>1, <1>2 DEF Committed
<1> QED BY <1>1, <1>3, <1>4 DEF Committed, OnlyRead

LEMMA PatchSavesThePhone ==
  ASSUME IInv, NEW r \in Requests, PatchCustomer(r)
  PROVE  \/ phone'[txn[r].cust] = txn[r].phone
         \/ OnlyRead(r) /\ txn[r].cust \in txn[r].moved
<1>1. /\ Phoned(r) /\ txn[r].op = "patch"
      /\ txn[r].phone = txn[r].seen \/ phone'[txn[r].cust] = txn[r].phone
      /\ txn[r].phone = txn[r].seen => phone' = phone
  BY Patching
<1> QED BY <1>1 DEF Phoned, OnlyRead

\* A save that names a phone ends with the order at a customer who has that
\* phone, and updateCustomer with the customer having it: whatever it writes
\* itself is there when it commits, in place or in a new row, and only a phone
\* it had merely found there may have been changed by somebody else meanwhile
\* (customers.service.ts 52-96, 297-330, orders.service.ts 477-534).
THEOREM PhoneCorrect == Spec => SavedUnderItsPhone
<1> DEFINE Saved(r) ==
      (Commit(r) \/ PatchCustomer(r)) /\ txn[r].phone # NoPhone =>
        LET c == txn[r].cust IN
          /\ txn[r].op # "patch" => holder'[txn[r].order] = c
          /\ phone'[c] = txn[r].phone \/ (OnlyRead(r) /\ c \in txn[r].moved)
<1>1. ASSUME IInv, NEW r \in Requests
      PROVE  Saved(r)
  <2>1. CASE Commit(r)
    BY <1>1, <2>1, CommitSavesUnderItsPhone, Patching
  <2>2. CASE PatchCustomer(r)
    BY <1>1, <2>2, PatchSavesThePhone, Patching
  <2> QED BY <2>1, <2>2
<1>2. IInv => [\A r \in Requests : Saved(r)]_vars
  BY <1>1
<1> QED BY <1>2, Invariance, PTL DEF SavedUnderItsPhone

=============================================================================
