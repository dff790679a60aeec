SPECIFICATION FairSpec
CONSTANTS
  Requests = {r1, r2}
  Items = {i1, i2}
  Owners = {admin, user}
  Admin = admin
  Formers = {user}
  None = None
  Second = r2
  Course = i1
INVARIANTS TypeOK ProfilesMatch PostedOnce ReportIsWhole
PROPERTIES RequestsEnd
ACTION_CONSTRAINT Disturbs
CHECK_DEADLOCK FALSE
