CONSTANTS
  Orders = {o1}
  Requests = {r1, r2}
  Paisa = 5
  Amounts <- SomeAmounts
  MaxCollected = 2
  o1 = o1
  r1 = r1
  r2 = r2
SYMMETRY Symmetry
SPECIFICATION Spec
INVARIANT TypeOK
INVARIANT LabelsAgree
INVARIANT UneditedBalance
INVARIANT UneditedLedgerCovers
PROPERTY SettledOnceDrained
PROPERTY CurrentIsAtomic
CHECK_DEADLOCK FALSE
