CONSTANTS
  Tokens = {t1, t2}
  Requests = {r1, r2}
  Grace = 1
  Lifetime = 3
  AccessLife = 2
  MaxTime = 4
  None = None
  t1 = t1
  t2 = t2
  r1 = r1
  r2 = r2
SPECIFICATION Spec
SYMMETRY Symmetry
INVARIANT TypeOK
INVARIANT RotatedOnce
INVARIANT DoomedGetsNoSession
PROPERTY RevocationIsFixed
PROPERTY OnlyReuseRevokesOthers
CHECK_DEADLOCK FALSE
