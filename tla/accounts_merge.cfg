SPECIFICATION FairSpec
CONSTANTS
  Requests = {r1, r2}
  UserIds = {u1, u2, u3}
  u1 = u1
  u2 = u2
  u3 = u3
  o1 = o1
  o2 = o2
  Emails <- SmallEmails
  Lower <- SmallLower
  TgIds <- OneTgId
  Orgs = {o1}
  DefaultOrg = o1
  RawRoles = {"teacher"}
  StatusInputs = {}
  OrgInputs = {o1}
  Ops = {"update", "upsertFromTelegram", "syncTelegramUser", "delete", "createStudent"}
  MaxBirths = 2
  Seed <- MCSeed
  SeedEmail <- MCSeedEmail
  SeedTgId <- MCSeedTgId
  None = None
PROPERTY MergeKeepsTelegram
ACTION_CONSTRAINT KeepsDisjoint
CHECK_DEADLOCK FALSE
