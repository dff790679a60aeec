SPECIFICATION Spec
CONSTANTS
  Requests = {r1, r2}
  ann = ann
  ira = ira
  lev = lev
  o1 = o1
  s1 = s1
  Users = {ann, ira, lev}
  Staff = {ann}
  Orgs = {o1}
  Members <- OneOrg
  Students = {s1}
  UserOf <- CardsOf
  OrgOf <- CardsOrg
  Practices = {p1, p2}
  Entries = {e1}
  Ops = {"create", "update", "remove", "removeStudent", "removeOrganization", "members", "createEntry", "updateEntry", "approveEntry", "removeEntry"}
  StatusInputs = {"APPROVED", None}
  TextInputs = {"text", "absent"}
  None = None
INVARIANTS TypeOK OneJournal EntriesFit
PROPERTIES ApprovalSettles BookSpec
SYMMETRY Symmetry
CHECK_DEADLOCK FALSE
