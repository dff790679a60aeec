SPECIFICATION Spec
CONSTANTS
  Requests = {r1, r2, r3}
  Passwords = {p1, p2}
  Raw = Raw
  Others = {o1}
  MaxCodes = 2
  None = None
INVARIANTS TypeOK CodeUsedOnce
SYMMETRY Symmetry
CHECK_DEADLOCK FALSE
