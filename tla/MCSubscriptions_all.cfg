CONSTANTS
  Bakers = {b1, b2}
  Excluded = {b2}
  Subs = {s1, s2}
  Requests = {r1, r2}
  Threshold = 1
  MaxEvents = 1
  None = None
  b1 = b1
  b2 = b2
  s1 = s1
  s2 = s2
  r1 = r1
  r2 = r2
SPECIFICATION FairSpec
INVARIANT TypeOK
INVARIANT OneOpenCheckout
INVARIANT UnstrayedIsAuthorised
INVARIANT PriceIsCharged
PROPERTY CheckoutsEnd
CHECK_DEADLOCK FALSE
