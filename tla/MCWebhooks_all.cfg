CONSTANTS
  Events <- MCEvents
  Type <- MCType
  Payment <- MCPayment
  NoPayment = "none"
  Deliveries = {d1, d2}
  MaxTrouble = 1
  d1 = d1
  d2 = d2
SPECIFICATION WebhooksFairSpec
INVARIANT WebhooksTypeOK
INVARIANT ChargedOnce
INVARIANT SuccessIsBacked
PROPERTY BookSpec
PROPERTY EventuallyApplied
CHECK_DEADLOCK FALSE
