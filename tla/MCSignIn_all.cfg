CONSTANTS
  Codes = {c1, c2, c3, c4}
  Requests = {r1, r2}
  Hour = 2
  HourlyLimit = 2
  Cooldown = 1
  Ttl = 1
  AttemptLimit = 2
  MaxTime = 2
  None = None
  c1 = c1
  c2 = c2
  c3 = c3
  c4 = c4
  r1 = r1
  r2 = r2
SPECIFICATION Spec
SYMMETRY Symmetry
INVARIANT TypeOK
INVARIANT GuessesBounded
INVARIANT SendsBounded
INVARIANT OpensOverlapOnly
