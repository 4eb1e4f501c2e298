CONSTANTS
  Orders = {o1}
  Requests = {r1, r2}
  Paisa = 5
  Amounts <- WholeAmounts
  MaxCollected = 4
  o1 = o1
  r1 = r1
  r2 = r2
SYMMETRY Symmetry
SPECIFICATION Spec
INVARIANT LedgerIsExact
CHECK_DEADLOCK FALSE
