SPECIFICATION Spec
CONSTANTS
  oA = oA
  oB = oB
  y1 = y1
  y2 = y2
  l1 = l1
  r1 = r1
  r2 = r2
  s1 = s1
  j1 = j1
  e1 = e1
  g1 = g1
  b1 = b1
  Orgs = {oA, oB}
  Ids = {y1, y2, l1, r1, r2, s1, j1, e1, g1, b1}
  KindOf <- KindOfIds
  SeedRows <- Seeds
  Requests = {q1, q2}
  Ops <- YearOps
  None = None
PROPERTY OwnWrites
SYMMETRY Symmetry
CHECK_DEADLOCK FALSE
