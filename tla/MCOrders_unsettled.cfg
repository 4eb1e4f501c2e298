CONSTANTS
  Orders = {o1}
  Requests = {r1}
  Paisa = 5
  Amounts <- WholeAmounts
  MaxCollected = 6
  o1 = o1
  r1 = r1
SPECIFICATION Spec
INVARIANT PaidWhenCovered
CHECK_DEADLOCK FALSE
