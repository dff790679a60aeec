SPECIFICATION Spec
CONSTANTS
  Requests = {r1, r2}
  Items = {i1, i2}
  Owners = {admin, user}
  Admin = admin
  Formers = {}
  None = None
INVARIANTS OwnCredentials
CHECK_DEADLOCK FALSE
