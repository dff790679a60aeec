SPECIFICATION Spec
CONSTANTS
  Requests = {r1, r2}
  UserIds = {u1, u2}
  u1 = u1
  u2 = u2
  u3 = u3
  o1 = o1
  o2 = o2
  Emails <- SmallEmails
  Lower <- SmallLower
  TgIds <- OneTgId
  Orgs = {o1}
  DefaultOrg = o1
  RawRoles <- RealRoles
  StatusInputs = {}
  OrgInputs = {o1}
  Ops = {"changeRole", "addUserToOrg", "updateUserRoleInOrg", "deleteOrg", "delete", "removeUserFromOrg", "createStudent", "removeStudent", "abort", "updateRegistrationStep", "markAsBlocked"}
  MaxBirths = 2
  Seed <- MCSeed
  SeedEmail <- MCSeedEmail
  SeedTgId <- MCSeedTgId
  None = None
INVARIANT ReferencesHold
SYMMETRY Symmetry
CHECK_DEADLOCK FALSE
