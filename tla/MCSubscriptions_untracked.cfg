CONSTANTS
  Bakers = {b1}
  Excluded = {}
  Subs = {s1, s2, s3}
  Requests = {r1, r2}
  Threshold = 1
  MaxEvents = 2
  None = None
  b1 = b1
  s1 = s1
  s2 = s2
  s3 = s3
  r1 = r1
  r2 = r2
SPECIFICATION Spec
INVARIANT LiveIsTracked
CHECK_DEADLOCK FALSE
