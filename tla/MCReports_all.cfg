CONSTANTS
  o1 = o1
  o2 = o2
  c1 = c1
  c2 = c2
  e1 = e1
  Orders = {o1, o2}
  Customers = {c1, c2}
  Expenses = {e1}
  Created <- Ages
  Price <- Prices
  Due <- Dues
  Owner <- Owners
  Cost <- Costs
  Days <- SomeDays
  BuyDays <- SomeBuyDays
  Starts <- SomeStarts
  MaxTicks = 1
  Absent = Absent
  NoMonth = NoMonth
SPECIFICATION Spec
INVARIANT TypeOK
INVARIANT ViewsAgree
INVARIANT UpcomingIsNearest
