SPECIFICATION Spec
CONSTANTS
  Requests = {r1, r2}
  UserIds = {u1, u2, u3}
  u1 = u1
  u2 = u2
  u3 = u3
  o1 = o1
  o2 = o2
  Emails <- MCEmails
  Lower <- MCLower
  TgIds <- OneTgId
  Orgs = {o1}
  DefaultOrg = o1
  RawRoles <- NoRoles
  StatusInputs = {}
  OrgInputs = {None}
  Ops = {"update", "create", "saveGoogleTokens", "linkEmail", "syncTelegramUser", "syncUserData", "delete"}
  MaxBirths = 2
  Seed <- MCSeed
  SeedEmail <- MCSeedEmail
  SeedTgId <- MCSeedTgId
  None = None
INVARIANTS TypeOK EmailUnique
 
SYMMETRY Symmetry
ACTION_CONSTRAINT EmailSerial
CHECK_DEADLOCK FALSE
