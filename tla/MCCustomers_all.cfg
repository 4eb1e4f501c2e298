CONSTANTS
  Customers = {c1, c2}
  Orders = {o1, o2}
  Phones = {p1, p2}
  Requests = {r1, r2}
  NoPhone = NoPhone
  NoOne = NoOne
  Absent = Absent
  Deleted = Deleted
  c1 = c1
  c2 = c2
  o1 = o1
  o2 = o2
  p1 = p1
  p2 = p2
  r1 = r1
  r2 = r2
SPECIFICATION Spec
SYMMETRY Symmetry
INVARIANT TypeOK
INVARIANT NoOrphan
PROPERTY NoOrderLost
PROPERTY SavedUnderItsPhone
