------------------------------ MODULE UserAccounts ------------------------------
(***************************************************************************)
(* The account tables of the service (users, org_members, students) and    *)
(* the request handlers that write them: UserService, TgInternalService,   *)
(* PrismaUserRepository and the member operations of OrganizationService.  *)
(*                                                                         *)
(* A handler is a chain of awaited queries.  Nothing else runs between two *)
(* queries of one handler except queries of OTHER handlers, so every query *)
(* is one action and a request carries, from one action to the next, the   *)
(* values its JavaScript variables hold.  There is no transaction.         *)
(***************************************************************************)
EXTENDS Naturals

CONSTANTS
  Requests,   \* slots for requests that are in flight at the same time
  UserIds,    \* values of User.mongoId
  Emails,     \* e-mail strings as clients spell them
  TgIds,      \* Telegram ids
  Orgs,       \* organization ids
  DefaultOrg, \* the organization with slug chsm_brass_eu
  Lower,      \* Lower[e] is e.toLowerCase().trim()
  RawRoles,   \* role strings a client may send
  StatusInputs, \* statuses a client may send
  OrgInputs,  \* organizations a client may name; None when it names none
  Ops,        \* the endpoints an instance exercises
  MaxBirths,  \* bound: a user row is deleted only while created fewer times
  Seed,       \* users present at the start
  SeedEmail, SeedTgId, \* their columns
  None        \* null

Roles    == {"student", "teacher", "admin"}
OrgRoles == {"OWNER", "ADMIN", "TEACHER", "STUDENT", "VIEWER"}
Statuses == {"active", "blocked", "archived"}
PCs == {"idle", "create", "updateById", "linkFind", "googleByEmail", "syncByEmail",
        "syncNewByEmail", "delStudents", "delUser", "checkEmail", "upsert",
        "joinOrg", "intId", "ensure", "setRole", "insertRole"}

(* An account as a handler holds it in memory.                             *)
Entity == [id: UserIds, email: Emails \cup {None}, tgId: TgIds \cup {None},
           role: Roles, status: Statuses]

ASSUME ConstantsAssumption ==
  /\ DefaultOrg \in Orgs
  /\ Lower \in [Emails -> Emails]
  /\ \A e \in Emails : Lower[Lower[e]] = Lower[e]
  /\ MaxBirths \in Nat
  /\ StatusInputs \subseteq Statuses
  /\ OrgInputs \subseteq Orgs \cup {None}
  /\ Seed \subseteq UserIds
  /\ None \notin UserIds \cup Emails \cup TgIds \cup Orgs \cup RawRoles
  /\ None \notin OrgRoles \cup Statuses \cup Entity

ASSUME SeedAssumption ==
  /\ SeedEmail \in [UserIds -> Emails \cup {None}]
  /\ SeedTgId  \in [UserIds -> TgIds \cup {None}]
  /\ \A i, j \in Seed : SeedEmail[i] = SeedEmail[j] => i = j \/ SeedEmail[i] = None

VARIABLES
  users,    \* table users, by mongoId
  members,  \* table org_members: members[o][i] is a role or None
  students, \* table students: the pairs <<organization, user>>
  orgs,     \* the organizations that exist
  reqs      \* the local variables of the requests in flight

tables == <<users, members, students, orgs>>
vars   == <<users, members, students, orgs, reqs>>

(***************************************************************************)
(* Rows, entities and requests.                                            *)
(* births tells apart the autoincremented User.id of two rows that had the *)
(* same mongoId one after the other; 0 means there never was one.          *)
(***************************************************************************)
Row == [live: BOOLEAN, births: Nat, email: Emails \cup {None},
        tgId: TgIds \cup {None}, role: Roles, status: Statuses]

NoRow == [live |-> FALSE, births |-> 0, email |-> None, tgId |-> None,
          role |-> "student", status |-> "active"]

Dto == [tgId: TgIds \cup {None}, email: Emails \cup {None}, status: Statuses \cup {None}]
NoDto == [tgId |-> None, email |-> None, status |-> None]

Request == [pc: PCs, ent: Entity \cup {None}, dto: Dto, org: Orgs \cup {None},
            role: RawRoles \cup {None}, intId: Nat, victim: UserIds \cup {None}]
IdleRequest == [pc |-> "idle", ent |-> None, dto |-> NoDto, org |-> None,
                role |-> None, intId |-> 0, victim |-> None]

TypeOK ==
  /\ users \in [UserIds -> Row]
  /\ members \in [Orgs -> [UserIds -> OrgRoles \cup {None}]]
  /\ students \subseteq Orgs \X UserIds
  /\ orgs \subseteq Orgs
  /\ reqs \in [Requests -> Request]

Init ==
  /\ users = [i \in UserIds |->
                IF i \in Seed THEN [NoRow EXCEPT !.live = TRUE, !.births = 1,
                                                !.email = SeedEmail[i], !.tgId = SeedTgId[i]]
                ELSE NoRow]
  /\ members = [o \in Orgs |-> [i \in UserIds |->
                  IF o = DefaultOrg /\ i \in Seed THEN "STUDENT" ELSE None]]
  /\ students = {}
  /\ orgs = Orgs
  /\ reqs = [r \in Requests |-> IdleRequest]

(***************************************************************************)
(* Value objects and mappers.                                              *)
(***************************************************************************)
RoleFromString(s) == IF s \in Roles THEN s ELSE "student"

OrgRoleOf(s) == CASE s = "admin"   -> "ADMIN"
                  [] s = "teacher" -> "TEACHER"
                  [] s = "owner"   -> "OWNER"
                  [] s = "viewer"  -> "VIEWER"
                  [] OTHER         -> "STUDENT"

Live == {i \in UserIds : users[i].live}

EntityOf(i) == [id |-> i, email |-> users[i].email, tgId |-> users[i].tgId,
                role |-> users[i].role, status |-> users[i].status]

NewEntity(i, e, t, s) ==
  [id |-> i, email |-> e, tgId |-> t, role |-> "student", status |-> s]

(* Mutant: the status is assigned with the other fields, sent or not.      *)
UpdateDetailsAll(ent, dto, role) ==
  [ent EXCEPT !.email  = IF dto.email = None THEN @ ELSE dto.email,
              !.status = dto.status,
              !.role   = IF role = None THEN @ ELSE RoleFromString(role)]

UpdateDetails(ent, dto, role) ==
  [ent EXCEPT !.email  = IF dto.email = None THEN @ ELSE dto.email,
              !.tgId   = IF dto.tgId = None THEN @ ELSE dto.tgId,
              !.status = IF dto.status = None THEN @ ELSE dto.status,
              !.role   = IF role = None THEN @ ELSE RoleFromString(role)]

LinkGoogle(ent, e) == [ent EXCEPT !.email = e, !.status = "active"]

(* A request has the account in memory and may go on to save it.           *)
InHand(i) == \E r \in Requests : reqs[r].ent # None /\ reqs[r].ent.id = i

(* Mutant: an id is new when no row has it now, like one counted up from   *)
(* the rows of the table.                                                  *)
FreshIdsByRows == {i \in UserIds : ~users[i].live /\ ~InHand(i)}

(* A new ObjectId: one no row has had and no request in flight holds.      *)
FreshIds == {i \in UserIds : users[i].births = 0 /\ ~InHand(i)}

ByTgId(t)   == {i \in Live : users[i].tgId = t}
ByEmail(e)  == {i \in Live : users[i].email = e}

(***************************************************************************)
(* The control of a request.                                               *)
(***************************************************************************)
Arrive(r, op) == op \in Ops /\ reqs[r].pc = "idle"
At(r, pc) == reqs[r].pc = pc
End(r) == reqs' = [reqs EXCEPT ![r] = IdleRequest]
Goto(r, pc) == reqs' = [reqs EXCEPT ![r].pc = pc]

(* Mutant: save without the e-mail check.                                  *)
BeginSaveUnchecked(r, ent, org, role) ==
  reqs' = [reqs EXCEPT ![r] = [IdleRequest EXCEPT !.pc = "upsert", !.ent = ent,
                                 !.org = org, !.role = role]]

(* Entry of PrismaUserRepository.save: the e-mail check is skipped for a   *)
(* user without e-mail.  role is the role to copy to org_members after it. *)
BeginSave(r, ent, org, role) ==
  reqs' = [reqs EXCEPT ![r] =
             [IdleRequest EXCEPT !.pc = IF ent.email = None THEN "upsert" ELSE "checkEmail",
                                 !.ent = ent, !.org = org, !.role = role]]

(***************************************************************************)
(* UserService and TgInternalService: the steps up to the first write.     *)
(***************************************************************************)

(* The fields of a body: the validation pipe removes none, declared or     *)
(* not, and the handlers assign all of them.                               *)
Bodies == [tgId: TgIds \cup {None}, email: Emails \cup {None},
           status: StatusInputs \cup {None}]

(* update copies the role to org_members when it has both.                 *)
RoleToCopy(org, role) == IF org = None THEN None ELSE role

(* PATCH /users/:id: the body may set the Telegram id, which nothing looks *)
(* up.                                                                     *)
Update(r) ==
  /\ Arrive(r, "update")
  /\ \E i \in Live, dto \in Bodies, w \in RawRoles \cup {None}, o \in OrgInputs :
       BeginSave(r, UpdateDetails(EntityOf(i), dto, w), o, RoleToCopy(o, w))
  /\ UNCHANGED tables

(* PATCH /users/:id/role; the guard always supplies an organization.       *)
ChangeRole(r) ==
  /\ Arrive(r, "changeRole")
  /\ \E i \in Live, w \in RawRoles, o \in OrgInputs \ {None} :
       BeginSave(r, UpdateDetails(EntityOf(i), NoDto, w), o, w)
  /\ UNCHANGED tables

UpsertFromTelegram(r) ==
  /\ Arrive(r, "upsertFromTelegram")
  /\ \E t \in TgIds :
       \/ \E i \in ByTgId(t) :
            BeginSave(r, [EntityOf(i) EXCEPT !.status = "active"], None, None)
       \/ /\ ByTgId(t) = {}
          /\ \E i \in FreshIds : BeginSave(r, NewEntity(i, None, t, "active"), None, None)
  /\ UNCHANGED tables

(* The OAuth callback.  The state names a Telegram id or an e-mail, or is  *)
(* in neither form (None); the e-mail Google returns is tried second.      *)
FoundByState(state) ==
  IF state \in TgIds THEN ByTgId(state)
  ELSE IF state \in Emails THEN ByEmail(Lower[state]) ELSE {}

SaveGoogleTokens(r) ==
  /\ Arrive(r, "saveGoogleTokens")
  /\ \E state \in TgIds \cup Emails \cup {None}, g \in Emails :
       \/ \E i \in FoundByState(state) :
            BeginSave(r, LinkGoogle(EntityOf(i), Lower[g]), None, None)
       \/ /\ FoundByState(state) = {}
          /\ \E i \in FreshIds :
               reqs' = [reqs EXCEPT ![r].pc = "googleByEmail",
                                    ![r].ent = NewEntity(i, Lower[g], None, "active")]
  /\ UNCHANGED tables

GoogleByEmail(r) ==
  /\ At(r, "googleByEmail")
  /\ LET e == reqs[r].ent.email IN
       \/ \E i \in ByEmail(e) : BeginSave(r, LinkGoogle(EntityOf(i), e), None, None)
       \/ ByEmail(e) = {} /\ BeginSave(r, reqs[r].ent, None, None)
  /\ UNCHANGED tables

(* UserService.create for a request whose draft user is already in ent.    *)
StartCreate(r, e, t, s, o) ==
  \E i \in FreshIds :
    reqs' = [reqs EXCEPT ![r] =
               [IdleRequest EXCEPT !.pc = "create", !.org = o,
                  !.ent = NewEntity(i, IF e = None THEN None ELSE Lower[e], t, s)]]

CreateUser(r) ==
  /\ Arrive(r, "create")
  /\ \E e \in Emails \cup {None}, t \in TgIds \cup {None}, o \in OrgInputs,
        s \in StatusInputs \cup {"active"} : StartCreate(r, e, t, s, o)
  /\ UNCHANGED tables

CreateByEmail(r) ==
  /\ At(r, "create")
  /\ LET e == reqs[r].ent.email IN
       IF e # None /\ ByEmail(e) # {}
       THEN End(r)
       ELSE BeginSave(r, reqs[r].ent, reqs[r].org, None)
  /\ UNCHANGED tables

(* PATCH tg-internal/sync: the rest of the body goes to update or create.  *)
SyncUserData(r) ==
  /\ Arrive(r, "syncUserData")
  /\ \E t \in TgIds, dto \in Bodies, w \in RawRoles \cup {None}, o \in OrgInputs :
       \/ \E i \in ByTgId(t) :
            reqs' = [reqs EXCEPT ![r] = [IdleRequest EXCEPT !.pc = "updateById",
                       !.ent = EntityOf(i), !.dto = [dto EXCEPT !.tgId = None],
                       !.org = o, !.role = w]]
       \/ ByTgId(t) = {} /\ StartCreate(r, dto.email, t, "active", o)
  /\ UNCHANGED tables

(* PATCH tg-internal/registration-step and /mark-blocked *)
TouchByTgId(r) ==
  /\ \/ Arrive(r, "updateRegistrationStep") /\ \E t \in TgIds, i \in UserIds :
          /\ i \in ByTgId(t)
          /\ reqs' = [reqs EXCEPT ![r].pc = "updateById", ![r].ent = EntityOf(i)]
     \/ Arrive(r, "markAsBlocked") /\ \E t \in TgIds, i \in UserIds :
          /\ i \in ByTgId(t)
          /\ reqs' = [reqs EXCEPT ![r].pc = "updateById", ![r].ent = EntityOf(i),
                                  ![r].dto.status = "blocked"]
  /\ UNCHANGED tables

(* PATCH tg-internal/link-email: findAll leaves archived users out.        *)
EmailBusy(e, t) ==
  \E i \in Live : users[i].status # "archived" /\ users[i].email = e /\ users[i].tgId # t

LinkEmail(r) ==
  /\ Arrive(r, "linkEmail")
  /\ \E t \in TgIds, e \in Emails :
       /\ ~EmailBusy(Lower[e], t)
       /\ reqs' = [reqs EXCEPT ![r].pc = "linkFind",
                     ![r].dto = [tgId |-> t, email |-> Lower[e], status |-> "active"]]
  /\ UNCHANGED tables

LinkFind(r) ==
  /\ At(r, "linkFind")
  /\ \/ \E i \in ByTgId(reqs[r].dto.tgId) :
          reqs' = [reqs EXCEPT ![r].pc = "updateById", ![r].ent = EntityOf(i),
                               ![r].dto.tgId = None]
     \/ ByTgId(reqs[r].dto.tgId) = {} /\ End(r)
  /\ UNCHANGED tables

(* UserService.update reached from TgInternalService: it reads the row     *)
(* again by id.                                                            *)
UpdateById(r) ==
  /\ At(r, "updateById")
  /\ LET i == reqs[r].ent.id IN
       IF i \in Live
       THEN BeginSave(r, UpdateDetails(EntityOf(i), reqs[r].dto, reqs[r].role), reqs[r].org,
                      RoleToCopy(reqs[r].org, reqs[r].role))
       ELSE End(r)
  /\ UNCHANGED tables

(* PATCH /users/sync: the body may hold a role and a status, which are     *)
(* applied to the account it finds by Telegram id and never copied.        *)
SyncTelegramUser(r) ==
  /\ Arrive(r, "syncTelegramUser")
  /\ \E dto \in Bodies, w \in RawRoles \cup {None}, o \in OrgInputs :
       LET t == dto.tgId
           status == IF dto.status = None THEN "active" ELSE dto.status IN
       /\ t # None
       /\ \/ \E i \in ByTgId(t) :
               IF dto.email = None
               THEN BeginSave(r, UpdateDetails(EntityOf(i), dto, w), None, None)
               ELSE reqs' = [reqs EXCEPT ![r] = [IdleRequest EXCEPT !.pc = "syncByEmail",
                               !.ent = EntityOf(i), !.dto = dto, !.role = w]]
          \/ /\ ByTgId(t) = {}
             /\ IF dto.email = None
                THEN StartCreate(r, None, t, status, o)
                ELSE \E i \in FreshIds :
                       reqs' = [reqs EXCEPT ![r] = [IdleRequest EXCEPT !.pc = "syncNewByEmail",
                                  !.org = o,
                                  !.ent = NewEntity(i, Lower[dto.email], t, status)]]
  /\ UNCHANGED tables

Merged(i, t) == [EntityOf(i) EXCEPT !.tgId = t, !.status = "active"]

(* The second lookup, with the temporary user cur found by Telegram id.    *)
SyncByEmail(r) ==
  /\ At(r, "syncByEmail")
  /\ LET cur == reqs[r].ent
         found == ByEmail(Lower[reqs[r].dto.email]) IN
       \/ \E i \in found \ {cur.id} :
            /\ users[cur.id].births < MaxBirths
            /\ reqs' = [reqs EXCEPT ![r].pc = "delStudents", ![r].victim = cur.id,
                                    ![r].ent = Merged(i, reqs[r].dto.tgId)]
       \/ /\ found = {} \/ cur.id \in found
          /\ BeginSave(r, UpdateDetails(cur, reqs[r].dto, reqs[r].role), None, None)
  /\ UNCHANGED tables

SyncNewByEmail(r) ==
  /\ At(r, "syncNewByEmail")
  /\ LET e == reqs[r].ent.email IN
       \/ \E i \in ByEmail(e) : BeginSave(r, Merged(i, reqs[r].ent.tgId), None, None)
       \/ ByEmail(e) = {} /\ Goto(r, "create")
  /\ UNCHANGED tables

(***************************************************************************)
(* PrismaUserRepository.delete: two statements, no transaction.            *)
(***************************************************************************)
DeleteUser(r) ==
  /\ Arrive(r, "delete")
  /\ \E i \in UserIds :
       /\ users[i].births < MaxBirths
       /\ reqs' = [reqs EXCEPT ![r].pc = "delStudents", ![r].victim = i]
  /\ UNCHANGED tables

DelStudents(r) ==
  /\ At(r, "delStudents")
  /\ students' = {s \in students : s[2] # reqs[r].victim}
  /\ Goto(r, "delUser")
  /\ UNCHANGED <<users, members, orgs>>

(* Mutant: the second statement is not restricted by students.             *)
HasStudentNever(i) == FALSE

(* students.user_id references users.mongo_id with ON DELETE RESTRICT;     *)
(* org_members goes with the user.                                         *)
HasStudent(i) == \E s \in students : s[2] = i

DelUser(r) ==
  /\ At(r, "delUser")
  /\ LET i == reqs[r].victim IN
       \/ /\ i \in Live
          /\ HasStudent(i)
          /\ End(r)
          /\ UNCHANGED tables
       \/ /\ i \in Live => ~HasStudent(i)
          /\ users' = [users EXCEPT ![i] = [NoRow EXCEPT !.births = users[i].births]]
          /\ members' = [o \in Orgs |-> [members[o] EXCEPT ![i] = None]]
          /\ IF reqs[r].ent = None THEN End(r) ELSE BeginSave(r, reqs[r].ent, None, None)
          /\ UNCHANGED <<students, orgs>>

(***************************************************************************)
(* PrismaUserRepository.save.                                              *)
(***************************************************************************)
EmailTaken(e, i) == \E j \in Live \ {i} : users[j].email = e

CheckEmail(r) ==
  /\ At(r, "checkEmail")
  /\ IF EmailTaken(reqs[r].ent.email, reqs[r].ent.id)
     THEN End(r)
     ELSE Goto(r, "upsert")
  /\ UNCHANGED tables

(* Mutant: the update branch leaves the Telegram id as it is.              *)
RowOfKeepTgId(ent) ==
  [live |-> TRUE, births |-> users[ent.id].births + (IF users[ent.id].live THEN 0 ELSE 1),
   email |-> ent.email, tgId |-> IF users[ent.id].live THEN users[ent.id].tgId ELSE ent.tgId,
   role |-> ent.role, status |-> ent.status]

(* Every column is written from memory; a row that has gone is created.    *)
RowOf(ent) ==
  [live |-> TRUE, births |-> users[ent.id].births + (IF users[ent.id].live THEN 0 ELSE 1),
   email |-> ent.email, tgId |-> ent.tgId, role |-> ent.role, status |-> ent.status]

Upsert(r) ==
  /\ At(r, "upsert")
  /\ LET ent == reqs[r].ent IN
       /\ users' = [users EXCEPT ![ent.id] = RowOf(ent)]
       /\ reqs' = [reqs EXCEPT ![r].pc = "joinOrg", ![r].intId = RowOf(ent).births]
  /\ UNCHANGED <<members, students, orgs>>

(***************************************************************************)
(* org_members.  A row refers to User.id, so it can be found or inserted   *)
(* only while the row with that id, births = intId, is the live one.       *)
(***************************************************************************)
Current(i, intId) == users[i].live /\ users[i].births = intId

Insertable(o, i, intId) == o \in orgs /\ Current(i, intId) /\ members[o][i] = None

SetMember(o, i, role) == members' = [members EXCEPT ![o][i] = role]

(* The tail of save: findById or getDefaultOrganization, then addUserToOrg.*)
(* Its lookups only decide whether the insert fails, and the constraints   *)
(* of the insert decide the same, so they are one step.  Any error is      *)
(* caught; then update and changeRole go on to copy the role.              *)
JoinOrg(r) ==
  /\ At(r, "joinOrg")
  /\ LET q == reqs[r]
         o == IF q.org = None THEN DefaultOrg ELSE q.org IN
       IF Insertable(o, q.ent.id, q.intId)
       THEN SetMember(o, q.ent.id, OrgRoleOf(q.ent.role))
       ELSE UNCHANGED members
  /\ IF reqs[r].role = None THEN End(r) ELSE Goto(r, "intId")
  /\ UNCHANGED <<users, students, orgs>>

(* update and changeRole look the integer id up again.                     *)
IntId(r) ==
  /\ At(r, "intId")
  /\ LET i == reqs[r].ent.id IN
       IF i \in Live
       THEN reqs' = [reqs EXCEPT ![r].pc = "ensure", ![r].intId = users[i].births]
       ELSE End(r)
  /\ UNCHANGED tables

(* ensureUserRoleInOrg: the lookup, then an update or an insert.           *)
Ensure(r) ==
  /\ At(r, "ensure")
  /\ LET q == reqs[r]
         role == members[q.org][q.ent.id]
         found == Current(q.ent.id, q.intId) /\ role # None IN
       IF q.org \notin orgs \/ (found /\ role = OrgRoleOf(q.role)) THEN End(r)
       ELSE Goto(r, IF found THEN "setRole" ELSE "insertRole")
  /\ UNCHANGED tables

SetRole(r) ==
  /\ At(r, "setRole")
  /\ LET q == reqs[r] IN
       IF Current(q.ent.id, q.intId) /\ members[q.org][q.ent.id] # None
       THEN SetMember(q.org, q.ent.id, OrgRoleOf(q.role))
       ELSE UNCHANGED members
  /\ End(r)
  /\ UNCHANGED <<users, students, orgs>>

InsertRole(r) ==
  /\ At(r, "insertRole")
  /\ LET q == reqs[r] IN
       IF Insertable(q.org, q.ent.id, q.intId)
       THEN SetMember(q.org, q.ent.id, OrgRoleOf(q.role))
       ELSE UNCHANGED members
  /\ End(r)
  /\ UNCHANGED <<users, students, orgs>>

(***************************************************************************)
(* The other writers of the tables.  Each is a lookup and one write whose  *)
(* database constraints repeat what the lookup decided: one step.          *)
(***************************************************************************)
AddUserToOrg ==
  /\ "addUserToOrg" \in Ops
  /\ \E o \in orgs, i \in Live, w \in RawRoles :
       members[o][i] = None /\ SetMember(o, i, OrgRoleOf(w))
  /\ UNCHANGED <<users, students, orgs, reqs>>

UpdateUserRoleInOrg ==
  /\ "updateUserRoleInOrg" \in Ops
  /\ \E o \in orgs, i \in Live, w \in RawRoles :
       members[o][i] # None /\ SetMember(o, i, OrgRoleOf(w))
  /\ UNCHANGED <<users, students, orgs, reqs>>

RemoveUserFromOrg ==
  /\ "removeUserFromOrg" \in Ops
  /\ \E o \in orgs, i \in Live : members[o][i] # None /\ SetMember(o, i, None)
  /\ UNCHANGED <<users, students, orgs, reqs>>

DeleteOrg ==
  /\ "deleteOrg" \in Ops
  /\ \E o \in orgs :
       /\ orgs' = orgs \ {o}
       /\ members' = [members EXCEPT ![o] = [i \in UserIds |-> None]]
       /\ students' = {s \in students : s[1] # o}
  /\ UNCHANGED <<users, reqs>>

CreateStudent ==
  /\ "createStudent" \in Ops
  /\ \E o \in orgs, i \in Live :
       <<o, i>> \notin students /\ students' = students \cup {<<o, i>>}
  /\ UNCHANGED <<users, members, orgs, reqs>>

RemoveStudent ==
  /\ "removeStudent" \in Ops
  /\ \E s \in students : students' = students \ {s}
  /\ UNCHANGED <<users, members, orgs, reqs>>

(* The server stops, or a query is rejected, between two queries.          *)
Abort(r) ==
  /\ "abort" \in Ops
  /\ reqs[r].pc # "idle"
  /\ End(r)
  /\ UNCHANGED tables

(***************************************************************************)
(* The specification.                                                      *)
(***************************************************************************)
Arrival(r) ==
  \/ Update(r) \/ ChangeRole(r) \/ UpsertFromTelegram(r) \/ SaveGoogleTokens(r)
  \/ CreateUser(r) \/ SyncUserData(r) \/ TouchByTgId(r) \/ LinkEmail(r)
  \/ SyncTelegramUser(r) \/ DeleteUser(r)

Continue(r) ==
  \/ GoogleByEmail(r) \/ CreateByEmail(r) \/ LinkFind(r) \/ UpdateById(r)
  \/ SyncByEmail(r) \/ SyncNewByEmail(r) \/ DelStudents(r) \/ DelUser(r)
  \/ CheckEmail(r) \/ Upsert(r) \/ JoinOrg(r)
  \/ IntId(r) \/ Ensure(r) \/ SetRole(r) \/ InsertRole(r)

OtherWriters ==
  \/ AddUserToOrg \/ UpdateUserRoleInOrg \/ RemoveUserFromOrg \/ DeleteOrg
  \/ CreateStudent \/ RemoveStudent

Next == (\E r \in Requests : Arrival(r) \/ Continue(r) \/ Abort(r)) \/ OtherWriters

Spec == Init /\ [][Next]_vars

(***************************************************************************)
(* Disciplines.  The code has no lock; these say which overlaps of         *)
(* requests the properties below depend on.                                *)
(***************************************************************************)

(* Two saves of different users with one e-mail, both between the check    *)
(* and the write.                                                          *)
EmailOverlap ==
  \E p, q \in Requests :
    /\ At(p, "upsert") /\ At(q, "upsert")
    /\ reqs[p].ent.id # reqs[q].ent.id
    /\ reqs[p].ent.email = reqs[q].ent.email
    /\ reqs[p].ent.email # None

EmailSerial == ~EmailOverlap'

EmailSerialSpec == Init /\ [][Next /\ EmailSerial]_vars

(* The users, e-mails and Telegram ids a request has in hand.              *)
Touches(r) ==
  LET q == reqs[r] IN
  (IF q.ent = None THEN {} ELSE {q.ent.id, q.ent.email, q.ent.tgId})
    \cup {q.victim, q.dto.email, q.dto.tgId}

Disjoint == \A p, q \in Requests : p # q => Touches(p) \cap Touches(q) \subseteq {None}

KeepsDisjoint == Disjoint'

(* Bun's event loop resumes every handler whose query has been answered,   *)
(* and the database answers every query.                                   *)
FairSpec == Spec /\ \A r \in Requests : WF_vars(Continue(r) /\ KeepsDisjoint)


(***************************************************************************)
(* Properties.                                                             *)
(***************************************************************************)

(* No two accounts have the same e-mail, which save checks before it       *)
(* writes.                                                                 *)
EmailUnique ==
  \A i, j \in Live : users[i].email = users[j].email /\ users[i].email # None => i = j

(* A student card or a membership never outlives its user or its           *)
(* organization, however deletes interleave with saves and inserts.        *)
ReferencesHold ==
  /\ \A s \in students : s[1] \in orgs /\ s[2] \in Live
  /\ \A o \in Orgs, i \in UserIds : members[o][i] # None => o \in orgs /\ i \in Live

(* Of a deleted account only a request that had it in memory when it went  *)
(* can bring the row back (save is an upsert): once every such request has *)
(* ended the account is gone for good, whatever requests arrive later.     *)
Gone(i) == users[i].births > 0 /\ ~users[i].live /\ ~InHand(i)

GoneForGood == [][\A i \in UserIds : Gone(i) => Gone(i)']_vars

(* syncTelegramUser deletes the temporary account before it saves the      *)
(* account it merges it into; when it ends the Telegram id is bound.       *)
MergeKeepsTelegram ==
  \A r \in Requests, t \in TgIds :
    At(r, "delUser") /\ reqs[r].ent # None /\ reqs[r].ent.tgId = t
      ~> At(r, "idle") /\ ByTgId(t) # {}
=================================================================================
