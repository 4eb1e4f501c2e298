CONSTANTS
  Bakers = {b1, b2}
  Requests = {r1, r2}
  Attempts = 2
  Room <- RoomFor
  MaxLink = 2
  b1 = b1
  b2 = b2
  r1 = r1
  r2 = r2
SPECIFICATION Spec
SYMMETRY Symmetry
INVARIANT TypeOK
INVARIANT ItemsArePublished
INVARIANT ReorderStands
PROPERTY LinkIsFinal
