--------------------------- MODULE UserAccountsProofs ---------------------------
(* Type correctness of UserAccounts, uniqueness of its e-mails, integrity  *)
(* of its references and finality of deletes, for every value of the       *)
(* constants.                                                              *)
EXTENDS UserAccounts, TLAPS

(* What the handlers know at each point: the account in hand is there      *)
(* where it is used, and a role is copied only into a named organization.  *)
HasEnt == {"create", "updateById", "googleByEmail", "syncByEmail", "syncNewByEmail",
           "checkEmail", "upsert", "joinOrg", "intId", "ensure", "setRole", "insertRole"}
Syncs  == {"intId", "ensure", "setRole", "insertRole"}
Saves  == {"checkEmail", "upsert", "joinOrg"} \cup Syncs

Knows(q) ==
  /\ q.pc \in HasEnt => q.ent # None
  /\ q.pc \in {"delStudents", "delUser"} => q.victim # None
  /\ q.pc = "checkEmail" => q.ent.email # None
  /\ q.role # None /\ q.pc \in Saves => q.org # None
  /\ q.pc \in Syncs => q.role # None

ReqsOK == reqs \in [Requests -> Request] /\ \A r \in Requests : Knows(reqs[r])

TablesOK ==
  /\ users \in [UserIds -> Row]
  /\ members \in [Orgs -> [UserIds -> OrgRoles \cup {None}]]
  /\ students \subseteq Orgs \X UserIds
  /\ orgs \subseteq Orgs

IInv == TablesOK /\ ReqsOK

-----------------------------------------------------------------------------
(* Entities: what the value-object and mapper operators return.            *)

LEMMA EntityOfType ==
  ASSUME TablesOK, NEW i \in UserIds
  PROVE  EntityOf(i) \in Entity
BY DEF TablesOK, EntityOf, Entity, Row

LEMMA NewEntityType ==
  ASSUME NEW i \in UserIds, NEW e \in Emails \cup {None}, NEW t \in TgIds \cup {None},
         NEW s \in Statuses
  PROVE  NewEntity(i, e, t, s) \in Entity
BY DEF NewEntity, Entity, Roles

LEMMA UpdateDetailsType ==
  ASSUME NEW ent \in Entity, NEW dto \in Dto, NEW role \in RawRoles \cup {None}
  PROVE  UpdateDetails(ent, dto, role) \in Entity
BY DEF UpdateDetails, Entity, Dto, RoleFromString, Roles, Statuses

LEMMA LinkGoogleType ==
  ASSUME NEW ent \in Entity, NEW e \in Emails \cup {None}
  PROVE  LinkGoogle(ent, e) \in Entity
BY DEF LinkGoogle, Entity, Statuses

LEMMA MergedType ==
  ASSUME TablesOK, NEW i \in UserIds, NEW t \in TgIds \cup {None}
  PROVE  Merged(i, t) \in Entity
<1>1. EntityOf(i) \in Entity
  BY EntityOfType
<1> QED
  BY <1>1 DEF Merged, Entity, Statuses

LEMMA OrgRoleOfType == ASSUME NEW s PROVE OrgRoleOf(s) \in OrgRoles
BY DEF OrgRoleOf, OrgRoles

-----------------------------------------------------------------------------
(* The requests: every way an action changes one of them.                  *)

LEMMA SetRequest ==
  ASSUME ReqsOK, NEW r \in Requests, NEW q \in Request, Knows(q),
         reqs' = [reqs EXCEPT ![r] = q]
  PROVE  ReqsOK'
BY DEF ReqsOK

LEMMA IdleOK == IdleRequest \in Request /\ Knows(IdleRequest)
BY DEF IdleRequest, Request, PCs, Dto, NoDto, Knows, HasEnt, Syncs, Saves

LEMMA EndOK ==
  ASSUME ReqsOK, NEW r \in Requests, End(r)
  PROVE  ReqsOK'
BY SetRequest, IdleOK DEF End

LEMMA BeginSaveOK ==
  ASSUME ReqsOK, NEW r \in Requests, NEW ent \in Entity, NEW org \in Orgs \cup {None},
         NEW role \in RawRoles \cup {None}, role # None => org # None,
         BeginSave(r, ent, org, role)
  PROVE  ReqsOK'
<1> DEFINE q == [IdleRequest EXCEPT !.pc = IF ent.email = None THEN "upsert" ELSE "checkEmail",
                                    !.ent = ent, !.org = org, !.role = role]
<1>1. q \in Request
  BY IdleOK DEF IdleRequest, Request, PCs
<1>2. ent # None
  BY ConstantsAssumption DEF Entity
<1>3. Knows(q)
  BY <1>2, IdleOK DEF IdleRequest, Knows, HasEnt, Syncs, Saves
<1> QED
  BY <1>1, <1>3, SetRequest DEF BeginSave

LEMMA GotoOK ==
  ASSUME ReqsOK, NEW r \in Requests, NEW pc \in PCs, Goto(r, pc),
         pc \in HasEnt => reqs[r].ent # None,
         pc = "checkEmail" => reqs[r].ent.email # None,
         pc \in {"delStudents", "delUser"} => reqs[r].victim # None,
         pc \in Syncs => reqs[r].role # None,
         reqs[r].role # None /\ pc \in Saves => reqs[r].org # None
  PROVE  ReqsOK'
<1> DEFINE q == [reqs[r] EXCEPT !.pc = pc]
<1>1. reqs[r] \in Request /\ Knows(reqs[r])
  BY DEF ReqsOK
<1>2. q \in Request /\ Knows(q)
  BY <1>1 DEF Request, Knows
<1>3. reqs' = [reqs EXCEPT ![r] = q]
  BY DEF Goto
<1> QED
  BY <1>2, <1>3, SetRequest

LEMMA StartCreateOK ==
  ASSUME ReqsOK, NEW r \in Requests, NEW e \in Emails \cup {None}, NEW t \in TgIds \cup {None},
         NEW s \in Statuses, NEW o \in Orgs \cup {None}, StartCreate(r, e, t, s, o)
  PROVE  ReqsOK'
<1>1. PICK i \in FreshIds :
        reqs' = [reqs EXCEPT ![r] =
                  [IdleRequest EXCEPT !.pc = "create", !.org = o,
                     !.ent = NewEntity(i, IF e = None THEN None ELSE Lower[e], t, s)]]
  BY DEF StartCreate
<1> DEFINE ent == NewEntity(i, IF e = None THEN None ELSE Lower[e], t, s)
           q == [IdleRequest EXCEPT !.pc = "create", !.org = o, !.ent = ent]
<1>2. ent \in Entity
  <2>1. (IF e = None THEN None ELSE Lower[e]) \in Emails \cup {None}
    BY ConstantsAssumption
  <2>2. i \in UserIds
    BY DEF FreshIds
  <2> QED
    BY <2>1, <2>2, NewEntityType
<1>3. ent # None
  BY <1>2, ConstantsAssumption
<1>4. q \in Request /\ Knows(q)
  BY <1>2, <1>3, IdleOK DEF IdleRequest, Request, PCs, Knows, HasEnt, Syncs, Saves
<1> QED
  BY <1>1, <1>4, SetRequest

(* A request goes on with an account in hand; only these fields change.    *)
LEMMA CarryOK ==
  ASSUME ReqsOK, NEW r \in Requests, NEW pc \in HasEnt \ Saves,
         NEW ent \in Entity, NEW dto \in Dto, NEW o \in Orgs \cup {None},
         reqs' = [reqs EXCEPT ![r] = [reqs[r] EXCEPT !.pc = pc, !.ent = ent,
                                                     !.dto = dto, !.org = o]]
  PROVE  ReqsOK'
<1> DEFINE q == [reqs[r] EXCEPT !.pc = pc, !.ent = ent, !.dto = dto, !.org = o]
<1>1. reqs[r] \in Request /\ Knows(reqs[r])
  BY DEF ReqsOK
<1>2. ent # None
  BY ConstantsAssumption
<1>3. q \in Request
  BY <1>1 DEF Request, PCs, HasEnt
<1>4. Knows(q)
  BY <1>1, <1>2 DEF Knows, HasEnt, Syncs, Saves, Request
<1> QED
  BY <1>3, <1>4, SetRequest

-----------------------------------------------------------------------------
(* Arrivals: no table changes, and the request starts well formed.         *)

LEMMA RequestParts ==
  ASSUME ReqsOK, NEW r \in Requests
  PROVE  /\ reqs[r] \in Request /\ Knows(reqs[r])
         /\ reqs[r].ent \in Entity \cup {None} /\ reqs[r].dto \in Dto
         /\ reqs[r].org \in Orgs \cup {None} /\ reqs[r].role \in RawRoles \cup {None}
         /\ reqs[r].intId \in Nat /\ reqs[r].victim \in UserIds \cup {None}
BY DEF ReqsOK, Request, Knows

LEMMA LiveIds ==
  /\ Live \subseteq UserIds /\ FreshIds \subseteq UserIds
  /\ \A t : ByTgId(t) \subseteq UserIds
  /\ \A e : ByEmail(e) \subseteq UserIds
BY DEF Live, FreshIds, ByTgId, ByEmail

LEMMA NoDtoType == NoDto \in Dto
BY DEF NoDto, Dto

LEMMA BodiesOK == Bodies \subseteq Dto
BY ConstantsAssumption DEF Bodies, Dto

LEMMA UpdateStep ==
  ASSUME IInv, NEW r \in Requests, Update(r)
  PROVE  ReqsOK'
<1>1. PICK i \in Live, dto \in Bodies, w \in RawRoles \cup {None}, o \in OrgInputs :
        BeginSave(r, UpdateDetails(EntityOf(i), dto, w), o, RoleToCopy(o, w))
  BY DEF Update
<1>2. UpdateDetails(EntityOf(i), dto, w) \in Entity
  BY BodiesOK, LiveIds, EntityOfType, UpdateDetailsType DEF IInv
<1>3. o \in Orgs \cup {None}
  BY ConstantsAssumption
<1> QED
  BY <1>1, <1>2, <1>3, BeginSaveOK DEF IInv, RoleToCopy

LEMMA ChangeRoleStep ==
  ASSUME IInv, NEW r \in Requests, ChangeRole(r)
  PROVE  ReqsOK'
<1>1. PICK i \in Live, w \in RawRoles, o \in OrgInputs \ {None} :
        BeginSave(r, UpdateDetails(EntityOf(i), NoDto, w), o, w)
  BY DEF ChangeRole
<1>2. UpdateDetails(EntityOf(i), NoDto, w) \in Entity
  BY NoDtoType, LiveIds, EntityOfType, UpdateDetailsType DEF IInv
<1>3. o \in Orgs \cup {None} /\ o # None
  BY ConstantsAssumption
<1> QED
  BY <1>1, <1>2, <1>3, BeginSaveOK DEF IInv

LEMMA UpsertFromTelegramStep ==
  ASSUME IInv, NEW r \in Requests, UpsertFromTelegram(r)
  PROVE  ReqsOK'
<1>1. PICK t \in TgIds :
        \/ \E i \in ByTgId(t) :
             BeginSave(r, [EntityOf(i) EXCEPT !.status = "active"], None, None)
        \/ \E i \in FreshIds : BeginSave(r, NewEntity(i, None, t, "active"), None, None)
  BY DEF UpsertFromTelegram
<1>2. ASSUME NEW i \in ByTgId(t),
             BeginSave(r, [EntityOf(i) EXCEPT !.status = "active"], None, None)
      PROVE  ReqsOK'
  <2>1. EntityOf(i) \in Entity
    BY LiveIds, EntityOfType DEF IInv
  <2>2. [EntityOf(i) EXCEPT !.status = "active"] \in Entity
    BY <2>1 DEF Entity, Statuses
  <2> QED
    BY <1>2, <2>2, BeginSaveOK DEF IInv
<1>3. ASSUME NEW i \in FreshIds, BeginSave(r, NewEntity(i, None, t, "active"), None, None)
      PROVE  ReqsOK'
  BY <1>3, LiveIds, NewEntityType, BeginSaveOK DEF IInv, Statuses
<1> QED
  BY <1>1, <1>2, <1>3

LEMMA SaveGoogleTokensStep ==
  ASSUME IInv, NEW r \in Requests, SaveGoogleTokens(r)
  PROVE  ReqsOK'
<1>1. PICK state \in TgIds \cup Emails \cup {None}, g \in Emails :
        \/ \E i \in FoundByState(state) :
             BeginSave(r, LinkGoogle(EntityOf(i), Lower[g]), None, None)
        \/ \E i \in FreshIds :
             reqs' = [reqs EXCEPT ![r].pc = "googleByEmail",
                                  ![r].ent = NewEntity(i, Lower[g], None, "active")]
  BY DEF SaveGoogleTokens
<1>2. Lower[g] \in Emails
  BY ConstantsAssumption
<1>3. ASSUME NEW i \in FoundByState(state),
             BeginSave(r, LinkGoogle(EntityOf(i), Lower[g]), None, None)
      PROVE  ReqsOK'
  <2>1. i \in UserIds
    BY LiveIds DEF FoundByState
  <2>2. LinkGoogle(EntityOf(i), Lower[g]) \in Entity
    BY <1>2, <2>1, EntityOfType, LinkGoogleType DEF IInv
  <2> QED
    BY <1>3, <2>2, BeginSaveOK DEF IInv
<1>4. ASSUME NEW i \in FreshIds,
             reqs' = [reqs EXCEPT ![r].pc = "googleByEmail",
                                  ![r].ent = NewEntity(i, Lower[g], None, "active")]
      PROVE  ReqsOK'
  <2>1. NewEntity(i, Lower[g], None, "active") \in Entity
    BY <1>2, LiveIds, NewEntityType DEF Statuses
  <2>2. reqs' = [reqs EXCEPT ![r] = [reqs[r] EXCEPT !.pc = "googleByEmail",
                   !.ent = NewEntity(i, Lower[g], None, "active"), !.dto = @, !.org = @]]
    BY <1>4, RequestParts DEF IInv, ReqsOK, Request
  <2>3. "googleByEmail" \in HasEnt \ Saves
    BY DEF HasEnt, Syncs, Saves
  <2> QED
    BY <2>1, <2>2, <2>3, RequestParts, CarryOK DEF IInv
<1> QED
  BY <1>1, <1>3, <1>4

LEMMA CreateUserStep ==
  ASSUME IInv, NEW r \in Requests, CreateUser(r)
  PROVE  ReqsOK'
<1>1. PICK e \in Emails \cup {None}, t \in TgIds \cup {None}, o \in OrgInputs,
             s \in StatusInputs \cup {"active"} : StartCreate(r, e, t, s, o)
  BY DEF CreateUser
<1> QED
  BY <1>1, ConstantsAssumption, StartCreateOK DEF IInv, Statuses

(* A request starts with an account it found or is going to create.        *)
LEMMA StartOK ==
  ASSUME IInv, NEW r \in Requests, NEW ent \in Entity,
         NEW dto \in Dto, NEW o \in Orgs \cup {None}, NEW w \in RawRoles \cup {None},
         NEW q \in {[IdleRequest EXCEPT !.pc = "updateById", !.ent = ent, !.dto = dto,
                                        !.org = o, !.role = w],
                    [IdleRequest EXCEPT !.pc = "syncByEmail", !.ent = ent, !.dto = dto,
                                        !.role = w],
                    [IdleRequest EXCEPT !.pc = "syncNewByEmail", !.org = o, !.ent = ent]},
         reqs' = [reqs EXCEPT ![r] = q]
  PROVE  ReqsOK'
<1>1. q \in Request
  BY IdleOK DEF IdleRequest, Request, PCs
<1>2. ent # None
  BY ConstantsAssumption
<1>3. Knows(q)
  BY <1>2 DEF IdleRequest, Knows, HasEnt, Syncs, Saves
<1> QED
  BY <1>1, <1>3, SetRequest DEF IInv

LEMMA SyncUserDataStep ==
  ASSUME IInv, NEW r \in Requests, SyncUserData(r)
  PROVE  ReqsOK'
<1>1. PICK t \in TgIds, dto \in Bodies, w \in RawRoles \cup {None}, o \in OrgInputs :
        \/ \E i \in ByTgId(t) :
             reqs' = [reqs EXCEPT ![r] = [IdleRequest EXCEPT !.pc = "updateById",
                        !.ent = EntityOf(i), !.dto = [dto EXCEPT !.tgId = None],
                        !.org = o, !.role = w]]
        \/ StartCreate(r, dto.email, t, "active", o)
  BY DEF SyncUserData
<1>2. dto \in Dto /\ o \in Orgs \cup {None}
  BY BodiesOK, ConstantsAssumption
<1>3. [dto EXCEPT !.tgId = None] \in Dto /\ dto.email \in Emails \cup {None}
  BY <1>2 DEF Dto
<1>4. ASSUME NEW i \in ByTgId(t),
             reqs' = [reqs EXCEPT ![r] = [IdleRequest EXCEPT !.pc = "updateById",
                        !.ent = EntityOf(i), !.dto = [dto EXCEPT !.tgId = None],
                        !.org = o, !.role = w]]
      PROVE  ReqsOK'
  <2> DEFINE dto1 == [dto EXCEPT !.tgId = None]
             q == [IdleRequest EXCEPT !.pc = "updateById", !.ent = EntityOf(i),
                                      !.dto = dto1, !.org = o, !.role = w]
  <2>1. EntityOf(i) \in Entity
    BY LiveIds, EntityOfType DEF IInv
  <2>2. dto1 \in Dto /\ reqs' = [reqs EXCEPT ![r] = q]
    BY <1>3, <1>4
  <2> HIDE DEF dto1
  <2> QED
    BY <1>2, <2>1, <2>2, StartOK
<1>5. CASE StartCreate(r, dto.email, t, "active", o)
  BY <1>2, <1>3, <1>5, StartCreateOK DEF IInv, Statuses
<1> QED
  BY <1>1, <1>4, <1>5

LEMMA TouchByTgIdStep ==
  ASSUME IInv, NEW r \in Requests, TouchByTgId(r)
  PROVE  ReqsOK'
<1>1. At(r, "idle")
  BY DEF TouchByTgId, Arrive, At
<1>2. PICK i \in UserIds :
        \/ reqs' = [reqs EXCEPT ![r].pc = "updateById", ![r].ent = EntityOf(i)]
        \/ reqs' = [reqs EXCEPT ![r].pc = "updateById", ![r].ent = EntityOf(i),
                                ![r].dto.status = "blocked"]
  BY DEF TouchByTgId
<1>3. PICK dto \in Dto :
        reqs' = [reqs EXCEPT ![r] = [reqs[r] EXCEPT !.pc = "updateById", !.ent = EntityOf(i),
                                                    !.dto = dto, !.org = reqs[r].org]]
  <2>1. CASE reqs' = [reqs EXCEPT ![r].pc = "updateById", ![r].ent = EntityOf(i)]
    <3>1. reqs[r].dto \in Dto
      BY RequestParts DEF IInv
    <3> WITNESS reqs[r].dto \in Dto
    <3> QED
      BY <2>1, RequestParts DEF IInv, Request
  <2>2. CASE reqs' = [reqs EXCEPT ![r].pc = "updateById", ![r].ent = EntityOf(i),
                                  ![r].dto.status = "blocked"]
    <3> DEFINE dto == [reqs[r].dto EXCEPT !.status = "blocked"]
    <3>1. dto \in Dto
      BY RequestParts DEF IInv, Dto, Statuses
    <3>2. reqs' = [reqs EXCEPT ![r] = [reqs[r] EXCEPT !.pc = "updateById", !.ent = EntityOf(i),
                                                    !.dto = dto, !.org = reqs[r].org]]
      BY <2>2, RequestParts DEF IInv, Request
    <3> QED
      BY <3>1, <3>2
  <2> QED
    BY <1>2, <2>1, <2>2
<1>4. EntityOf(i) \in Entity /\ "updateById" \in HasEnt \ Saves
  BY EntityOfType DEF IInv, HasEnt, Saves, Syncs
<1> QED
  BY <1>3, <1>4, RequestParts, CarryOK DEF IInv

LEMMA LinkEmailStep ==
  ASSUME IInv, NEW r \in Requests, LinkEmail(r)
  PROVE  ReqsOK'
<1>1. PICK t \in TgIds, e \in Emails :
        reqs' = [reqs EXCEPT ![r].pc = "linkFind",
                   ![r].dto = [tgId |-> t, email |-> Lower[e], status |-> "active"]]
  BY DEF LinkEmail
<1> DEFINE dto == [tgId |-> t, email |-> Lower[e], status |-> "active"]
           q == [reqs[r] EXCEPT !.pc = "linkFind", !.dto = dto]
<1>2. dto \in Dto
  BY ConstantsAssumption DEF Dto, Statuses
<1>3. q \in Request
  BY <1>2, RequestParts DEF IInv, Request, PCs
<1>5. Knows(q)
  BY RequestParts DEF IInv, Request, Knows, HasEnt, Syncs, Saves
<1> QED
  BY <1>1, <1>3, <1>5, SetRequest DEF IInv

LEMMA SyncTelegramUserStep ==
  ASSUME IInv, NEW r \in Requests, SyncTelegramUser(r)
  PROVE  ReqsOK'
<1>1. PICK dto \in Bodies, w \in RawRoles \cup {None}, o \in OrgInputs :
        LET t == dto.tgId
            status == IF dto.status = None THEN "active" ELSE dto.status IN
        \/ \E i \in ByTgId(t) :
             IF dto.email = None
             THEN BeginSave(r, UpdateDetails(EntityOf(i), dto, w), None, None)
             ELSE reqs' = [reqs EXCEPT ![r] = [IdleRequest EXCEPT !.pc = "syncByEmail",
                             !.ent = EntityOf(i), !.dto = dto, !.role = w]]
        \/ IF dto.email = None
           THEN StartCreate(r, None, t, status, o)
           ELSE \E i \in FreshIds :
                  reqs' = [reqs EXCEPT ![r] = [IdleRequest EXCEPT !.pc = "syncNewByEmail",
                             !.org = o,
                             !.ent = NewEntity(i, Lower[dto.email], t, status)]]
  BY DEF SyncTelegramUser
<1> DEFINE t == dto.tgId
           status == IF dto.status = None THEN "active" ELSE dto.status
<1>2. dto \in Dto /\ o \in Orgs \cup {None} /\ status \in Statuses /\ t \in TgIds \cup {None}
  BY BodiesOK, ConstantsAssumption DEF Bodies, Statuses
<1>3. ASSUME NEW i \in ByTgId(t)
      PROVE  EntityOf(i) \in Entity /\ UpdateDetails(EntityOf(i), dto, w) \in Entity
  BY <1>2, LiveIds, EntityOfType, UpdateDetailsType DEF IInv
<1>4. ASSUME NEW i \in ByTgId(t), BeginSave(r, UpdateDetails(EntityOf(i), dto, w), None, None)
      PROVE  ReqsOK'
  BY <1>3, <1>4, BeginSaveOK DEF IInv
<1>5. ASSUME NEW i \in ByTgId(t),
             reqs' = [reqs EXCEPT ![r] = [IdleRequest EXCEPT !.pc = "syncByEmail",
                        !.ent = EntityOf(i), !.dto = dto, !.role = w]]
      PROVE  ReqsOK'
  BY <1>2, <1>3, <1>5, StartOK
<1>6. CASE StartCreate(r, None, t, status, o)
  BY <1>2, <1>6, StartCreateOK DEF IInv
<1>7. ASSUME dto.email # None, NEW i \in FreshIds,
             reqs' = [reqs EXCEPT ![r] = [IdleRequest EXCEPT !.pc = "syncNewByEmail",
                        !.org = o, !.ent = NewEntity(i, Lower[dto.email], t, status)]]
      PROVE  ReqsOK'
  <2>1. Lower[dto.email] \in Emails
    BY <1>2, <1>7, ConstantsAssumption DEF Dto
  <2>2. NewEntity(i, Lower[dto.email], t, status) \in Entity
    BY <1>2, <2>1, LiveIds, NewEntityType
  <2> QED
    BY <1>2, <1>7, <2>2, StartOK
<1> QED
  BY <1>1, <1>4, <1>5, <1>6, <1>7

(* A request that goes on to delete user i, with ent to be saved after it. *)
LEMMA VictimOK ==
  ASSUME IInv, NEW r \in Requests, NEW i \in UserIds, NEW ent \in Entity \cup {None},
         reqs' = [reqs EXCEPT ![r] = [reqs[r] EXCEPT !.pc = "delStudents", !.victim = i,
                                                     !.ent = ent]]
  PROVE  ReqsOK'
<1> DEFINE q == [reqs[r] EXCEPT !.pc = "delStudents", !.victim = i, !.ent = ent]
<1>1. q \in Request
  BY RequestParts DEF IInv, Request, PCs
<1>3. i # None
  BY ConstantsAssumption
<1>4. Knows(q)
  BY <1>3, RequestParts DEF IInv, Request, Knows, HasEnt, Syncs, Saves
<1> QED
  BY <1>1, <1>4, SetRequest DEF IInv

LEMMA DeleteUserStep ==
  ASSUME IInv, NEW r \in Requests, DeleteUser(r)
  PROVE  ReqsOK'
<1>1. PICK i \in UserIds :
        reqs' = [reqs EXCEPT ![r].pc = "delStudents", ![r].victim = i]
  BY DEF DeleteUser
<1>2. reqs' = [reqs EXCEPT ![r] = [reqs[r] EXCEPT !.pc = "delStudents", !.victim = i,
                                                  !.ent = reqs[r].ent]]
  BY <1>1, RequestParts DEF IInv, Request
<1> QED
  BY <1>2, RequestParts, VictimOK DEF IInv

-----------------------------------------------------------------------------
(* Continuations that only read the tables.                                *)

LEMMA GoogleByEmailStep ==
  ASSUME IInv, NEW r \in Requests, GoogleByEmail(r)
  PROVE  ReqsOK'
<1> DEFINE e == reqs[r].ent.email
<1>1. reqs[r].ent \in Entity
  BY RequestParts DEF IInv, GoogleByEmail, At, Knows, HasEnt
<1>2. e \in Emails \cup {None}
  BY <1>1 DEF Entity
<1>3. ASSUME NEW i \in ByEmail(e), BeginSave(r, LinkGoogle(EntityOf(i), e), None, None)
      PROVE  ReqsOK'
  <2>1. LinkGoogle(EntityOf(i), e) \in Entity
    BY <1>2, LiveIds, EntityOfType, LinkGoogleType DEF IInv
  <2> QED
    BY <1>3, <2>1, BeginSaveOK DEF IInv
<1>4. CASE BeginSave(r, reqs[r].ent, None, None)
  BY <1>1, <1>4, BeginSaveOK DEF IInv
<1> QED
  BY <1>3, <1>4 DEF GoogleByEmail

LEMMA CreateByEmailStep ==
  ASSUME IInv, NEW r \in Requests, CreateByEmail(r)
  PROVE  ReqsOK'
<1>1. reqs[r].ent \in Entity
  BY RequestParts DEF IInv, CreateByEmail, At, Knows, HasEnt
<1>2. End(r) \/ BeginSave(r, reqs[r].ent, reqs[r].org, None)
  BY DEF CreateByEmail
<1> QED
  BY <1>1, <1>2, RequestParts, EndOK, BeginSaveOK DEF IInv

LEMMA LinkFindStep ==
  ASSUME IInv, NEW r \in Requests, LinkFind(r)
  PROVE  ReqsOK'
<1>1. ASSUME NEW i \in ByTgId(reqs[r].dto.tgId),
             reqs' = [reqs EXCEPT ![r].pc = "updateById", ![r].ent = EntityOf(i),
                                  ![r].dto.tgId = None]
      PROVE  ReqsOK'
  <2> DEFINE dto == [reqs[r].dto EXCEPT !.tgId = None]
  <2>1. dto \in Dto
    BY RequestParts DEF IInv, Dto
  <2>2. EntityOf(i) \in Entity
    BY LiveIds, EntityOfType DEF IInv
  <2>3. reqs' = [reqs EXCEPT ![r] = [reqs[r] EXCEPT !.pc = "updateById", !.ent = EntityOf(i),
                                                    !.dto = dto, !.org = reqs[r].org]]
    BY <1>1, RequestParts DEF IInv, Request
  <2>4. "updateById" \in HasEnt \ Saves
    BY DEF HasEnt, Syncs, Saves
  <2> QED
    BY <2>1, <2>2, <2>3, <2>4, RequestParts, CarryOK DEF IInv
<1>2. CASE End(r)
  BY <1>2, EndOK DEF IInv
<1> QED
  BY <1>1, <1>2 DEF LinkFind

LEMMA UpdateByIdStep ==
  ASSUME IInv, NEW r \in Requests, UpdateById(r)
  PROVE  ReqsOK'
<1> DEFINE i == reqs[r].ent.id
<1>1. CASE End(r)
  BY <1>1, EndOK DEF IInv
<1>2. ASSUME i \in Live,
             BeginSave(r, UpdateDetails(EntityOf(i), reqs[r].dto, reqs[r].role), reqs[r].org,
                       RoleToCopy(reqs[r].org, reqs[r].role))
      PROVE  ReqsOK'
  <2>1. UpdateDetails(EntityOf(i), reqs[r].dto, reqs[r].role) \in Entity
    BY <1>2, LiveIds, RequestParts, EntityOfType, UpdateDetailsType DEF IInv
  <2> QED
    BY <1>2, <2>1, RequestParts, BeginSaveOK DEF IInv, RoleToCopy
<1> QED
  BY <1>1, <1>2 DEF UpdateById

LEMMA SyncByEmailStep ==
  ASSUME IInv, NEW r \in Requests, SyncByEmail(r)
  PROVE  ReqsOK'
<1> DEFINE cur == reqs[r].ent
           found == ByEmail(Lower[reqs[r].dto.email])
<1>1. cur \in Entity
  BY RequestParts DEF IInv, SyncByEmail, At, Knows, HasEnt
<1>2. ASSUME NEW i \in found \ {cur.id},
             reqs' = [reqs EXCEPT ![r].pc = "delStudents", ![r].victim = cur.id,
                                  ![r].ent = Merged(i, reqs[r].dto.tgId)]
      PROVE  ReqsOK'
  <2>1. reqs[r].dto.tgId \in TgIds \cup {None}
    BY RequestParts DEF IInv, Dto
  <2>2. Merged(i, reqs[r].dto.tgId) \in Entity /\ cur.id \in UserIds
    BY <1>1, <2>1, LiveIds, MergedType DEF IInv, Entity
  <2>3. reqs' = [reqs EXCEPT ![r] = [reqs[r] EXCEPT !.pc = "delStudents", !.victim = cur.id,
                                                    !.ent = Merged(i, reqs[r].dto.tgId)]]
    BY <1>2
  <2> QED
    BY <2>2, <2>3, VictimOK
<1>3. CASE BeginSave(r, UpdateDetails(cur, reqs[r].dto, reqs[r].role), None, None)
  <2>1. UpdateDetails(cur, reqs[r].dto, reqs[r].role) \in Entity
    BY <1>1, RequestParts, UpdateDetailsType DEF IInv
  <2> QED
    BY <1>3, <2>1, BeginSaveOK DEF IInv
<1> QED
  BY <1>2, <1>3 DEF SyncByEmail

LEMMA SyncNewByEmailStep ==
  ASSUME IInv, NEW r \in Requests, SyncNewByEmail(r)
  PROVE  ReqsOK'
<1>1. reqs[r].ent \in Entity /\ reqs[r].ent # None
  BY RequestParts DEF IInv, SyncNewByEmail, At, Knows, HasEnt, Saves, Syncs
<1>2. ASSUME NEW i \in UserIds, BeginSave(r, Merged(i, reqs[r].ent.tgId), None, None)
      PROVE  ReqsOK'
  <2>1. Merged(i, reqs[r].ent.tgId) \in Entity
    BY <1>1, MergedType DEF IInv, Entity
  <2> QED
    BY <1>2, <2>1, BeginSaveOK DEF IInv
<1>3. CASE Goto(r, "create")
  BY <1>1, <1>3, GotoOK DEF IInv, PCs, Syncs, Saves
<1> QED
  BY <1>2, <1>3, LiveIds DEF SyncNewByEmail

LEMMA CheckEmailStep ==
  ASSUME IInv, NEW r \in Requests, CheckEmail(r)
  PROVE  ReqsOK'
<1>1. /\ reqs[r].ent # None
      /\ reqs[r].role # None => reqs[r].org # None
  BY RequestParts DEF IInv, CheckEmail, At, Knows, HasEnt, Saves
<1>2. End(r) \/ Goto(r, "upsert")
  BY DEF CheckEmail
<1> QED
  BY <1>1, <1>2, EndOK, GotoOK DEF IInv, PCs, Syncs, Saves

LEMMA IntIdStep ==
  ASSUME IInv, NEW r \in Requests, IntId(r)
  PROVE  ReqsOK'
<1> DEFINE i == reqs[r].ent.id
           q == [reqs[r] EXCEPT !.pc = "ensure", !.intId = users[i].births]
<1>1. CASE End(r)
  BY <1>1, EndOK DEF IInv
<1>2. ASSUME i \in Live,
             reqs' = [reqs EXCEPT ![r].pc = "ensure", ![r].intId = users[i].births]
      PROVE  ReqsOK'
  <2>1. users[i].births \in Nat
    BY <1>2, LiveIds DEF IInv, TablesOK, Row
  <2>2. q \in Request
    BY <2>1, RequestParts DEF IInv, Request, PCs
  <2>3. Knows(q)
    BY RequestParts DEF IInv, IntId, At, Request, Knows, HasEnt, Syncs, Saves
  <2> QED
    BY <1>2, <2>2, <2>3, SetRequest DEF IInv
<1> QED
  BY <1>1, <1>2 DEF IntId

LEMMA EnsureStep ==
  ASSUME IInv, NEW r \in Requests, Ensure(r)
  PROVE  ReqsOK'
<1>1. reqs[r].ent # None /\ reqs[r].role # None /\ reqs[r].org # None
  BY RequestParts DEF IInv, Ensure, At, Knows, HasEnt, Syncs, Saves
<1>2. End(r) \/ Goto(r, "setRole") \/ Goto(r, "insertRole")
  BY DEF Ensure
<1> QED
  BY <1>1, <1>2, EndOK, GotoOK DEF IInv, PCs, Syncs, Saves

-----------------------------------------------------------------------------
(* Steps that write the tables.                                            *)

LEMMA RowOfType ==
  ASSUME TablesOK, NEW ent \in Entity
  PROVE  RowOf(ent) \in Row /\ ent.id \in UserIds /\ RowOf(ent).births \in Nat
BY DEF TablesOK, RowOf, Entity, Row

LEMMA DelStudentsStep ==
  ASSUME IInv, NEW r \in Requests, DelStudents(r)
  PROVE  IInv'
<1>1. TablesOK'
  BY DEF IInv, TablesOK, DelStudents
<1>2. reqs[r].victim # None
  BY RequestParts DEF IInv, DelStudents, At, Knows, Saves, Syncs
<1>3. ReqsOK'
  BY <1>2, GotoOK DEF IInv, DelStudents, PCs, HasEnt, Syncs, Saves
<1> QED
  BY <1>1, <1>3 DEF IInv

LEMMA DelUserStep ==
  ASSUME IInv, NEW r \in Requests, DelUser(r)
  PROVE  IInv'
<1> DEFINE i == reqs[r].victim
<1>1. i \in UserIds
  BY RequestParts DEF IInv, DelUser, At, Knows
<1>2. TablesOK'
  <2>1. CASE UNCHANGED tables
    BY <2>1 DEF IInv, TablesOK, tables
  <2>2. ASSUME users' = [users EXCEPT ![i] = [NoRow EXCEPT !.births = users[i].births]],
               members' = [o \in Orgs |-> [members[o] EXCEPT ![i] = None]],
               UNCHANGED <<students, orgs>>
        PROVE  TablesOK'
    <3>1. users' \in [UserIds -> Row]
      BY <1>1, <2>2 DEF IInv, TablesOK, Row, NoRow, Roles, Statuses
    <3>2. members' \in [Orgs -> [UserIds -> OrgRoles \cup {None}]]
      BY <1>1, <2>2 DEF IInv, TablesOK
    <3> QED
      BY <2>2, <3>1, <3>2 DEF IInv, TablesOK
  <2> QED
    BY <2>1, <2>2 DEF DelUser
<1>3. ReqsOK'
  <2>1. End(r) \/ (reqs[r].ent # None /\ BeginSave(r, reqs[r].ent, None, None))
    BY DEF DelUser
  <2> QED
    BY <2>1, RequestParts, EndOK, BeginSaveOK DEF IInv
<1> QED
  BY <1>2, <1>3 DEF IInv

LEMMA UpsertStep ==
  ASSUME IInv, NEW r \in Requests, Upsert(r)
  PROVE  IInv'
<1> DEFINE ent == reqs[r].ent
           q == [reqs[r] EXCEPT !.pc = "joinOrg", !.intId = RowOf(ent).births]
<1>1. ent \in Entity
  BY RequestParts DEF IInv, Upsert, At, Knows, HasEnt
<1>2. RowOf(ent) \in Row /\ ent.id \in UserIds /\ RowOf(ent).births \in Nat
  BY <1>1, RowOfType DEF IInv
<1>3. TablesOK'
  BY <1>2 DEF IInv, TablesOK, Upsert
<1>4. q \in Request
  BY <1>2, RequestParts DEF IInv, Request, PCs
<1>5. Knows(q)
  BY <1>1, RequestParts DEF IInv, Upsert, At, Request, Knows, HasEnt, Syncs, Saves
<1>6. reqs' = [reqs EXCEPT ![r] = q]
  BY DEF Upsert
<1> QED
  BY <1>3, <1>4, <1>5, <1>6, SetRequest DEF IInv

LEMMA SetMemberOK ==
  ASSUME TablesOK, NEW o, NEW i, NEW role \in OrgRoles \cup {None},
         SetMember(o, i, role), UNCHANGED <<users, students, orgs>>
  PROVE  TablesOK'
BY DEF TablesOK, SetMember

LEMMA JoinOrgStep ==
  ASSUME IInv, NEW r \in Requests, JoinOrg(r)
  PROVE  IInv'
<1>1. TablesOK'
  <2>1. \/ UNCHANGED members
        \/ \E o, i : SetMember(o, i, OrgRoleOf(reqs[r].ent.role))
    BY DEF JoinOrg
  <2>2. UNCHANGED <<users, students, orgs>>
    BY DEF JoinOrg
  <2>3. CASE UNCHANGED members
    BY <2>2, <2>3 DEF IInv, TablesOK
  <2>4. CASE \E o, i : SetMember(o, i, OrgRoleOf(reqs[r].ent.role))
    BY <2>2, <2>4, OrgRoleOfType, SetMemberOK DEF IInv
  <2> QED
    BY <2>1, <2>3, <2>4
<1>2. ReqsOK'
  <2>1. reqs[r].ent # None /\ (reqs[r].role # None => reqs[r].org # None)
    BY RequestParts DEF IInv, JoinOrg, At, Knows, HasEnt, Saves
  <2>2. End(r) \/ (reqs[r].role # None /\ Goto(r, "intId"))
    BY DEF JoinOrg
  <2> QED
    BY <2>1, <2>2, EndOK, GotoOK DEF IInv, PCs, Syncs, Saves
<1> QED
  BY <1>1, <1>2 DEF IInv

LEMMA WriteRoleStep ==
  ASSUME IInv, NEW r \in Requests, SetRole(r) \/ InsertRole(r)
  PROVE  IInv'
<1>1. \/ UNCHANGED members
      \/ \E o, i : SetMember(o, i, OrgRoleOf(reqs[r].role))
  BY DEF SetRole, InsertRole
<1>2. End(r) /\ UNCHANGED <<users, students, orgs>>
  BY DEF SetRole, InsertRole
<1>3. CASE UNCHANGED members
  BY <1>2, <1>3, EndOK DEF IInv, TablesOK
<1>4. CASE \E o, i : SetMember(o, i, OrgRoleOf(reqs[r].role))
  BY <1>2, <1>4, OrgRoleOfType, SetMemberOK, EndOK DEF IInv
<1> QED
  BY <1>1, <1>3, <1>4

LEMMA OtherWritersStep ==
  ASSUME IInv, OtherWriters
  PROVE  IInv'
<1>1. ReqsOK'
  BY DEF IInv, ReqsOK, OtherWriters, AddUserToOrg, UpdateUserRoleInOrg, RemoveUserFromOrg,
         DeleteOrg, CreateStudent, RemoveStudent
<1>2. CASE AddUserToOrg
  BY <1>1, <1>2, OrgRoleOfType, SetMemberOK DEF IInv, AddUserToOrg
<1>3. CASE UpdateUserRoleInOrg
  BY <1>1, <1>3, OrgRoleOfType, SetMemberOK DEF IInv, UpdateUserRoleInOrg
<1>4. CASE RemoveUserFromOrg
  BY <1>1, <1>4, SetMemberOK DEF IInv, RemoveUserFromOrg
<1>5. CASE DeleteOrg
  BY <1>1, <1>5 DEF IInv, TablesOK, DeleteOrg
<1>6. CASE CreateStudent
  BY <1>1, <1>6, LiveIds DEF IInv, TablesOK, CreateStudent
<1>7. CASE RemoveStudent
  BY <1>1, <1>7 DEF IInv, TablesOK, RemoveStudent
<1> QED
  BY <1>2, <1>3, <1>4, <1>5, <1>6, <1>7 DEF OtherWriters

-----------------------------------------------------------------------------
LEMMA InitOK == Init => IInv
<1> SUFFICES ASSUME Init PROVE IInv
  OBVIOUS
<1>1. users \in [UserIds -> Row]
  BY SeedAssumption DEF Init, NoRow, Row, Roles, Statuses
<1>2. members \in [Orgs -> [UserIds -> OrgRoles \cup {None}]]
  BY DEF Init, OrgRoles
<1>3. ReqsOK
  BY IdleOK DEF Init, ReqsOK
<1> QED
  BY <1>1, <1>2, <1>3 DEF Init, IInv, TablesOK

LEMMA ArrivalStep ==
  ASSUME IInv, NEW r \in Requests, Arrival(r)
  PROVE  IInv'
<1>1. UNCHANGED tables
  BY DEF Arrival, Update, ChangeRole, UpsertFromTelegram, SaveGoogleTokens, CreateUser,
         SyncUserData, TouchByTgId, LinkEmail, SyncTelegramUser, DeleteUser
<1>2. TablesOK'
  BY <1>1 DEF IInv, TablesOK, tables
<1>3. ReqsOK'
  BY UpdateStep, ChangeRoleStep, UpsertFromTelegramStep, SaveGoogleTokensStep, CreateUserStep,
     SyncUserDataStep, TouchByTgIdStep, LinkEmailStep, SyncTelegramUserStep, DeleteUserStep
     DEF Arrival
<1> QED
  BY <1>2, <1>3 DEF IInv

LEMMA ContinueStep ==
  ASSUME IInv, NEW r \in Requests, Continue(r)
  PROVE  IInv'
<1>1. CASE \/ GoogleByEmail(r) \/ CreateByEmail(r) \/ LinkFind(r) \/ UpdateById(r)
           \/ SyncByEmail(r) \/ SyncNewByEmail(r) \/ CheckEmail(r) \/ IntId(r) \/ Ensure(r)
  <2>1. UNCHANGED tables
    BY <1>1 DEF GoogleByEmail, CreateByEmail, LinkFind, UpdateById, SyncByEmail,
                SyncNewByEmail, CheckEmail, IntId, Ensure
  <2>2. TablesOK'
    BY <2>1 DEF IInv, TablesOK, tables
  <2>3. ReqsOK'
    BY <1>1, GoogleByEmailStep, CreateByEmailStep, LinkFindStep, UpdateByIdStep,
       SyncByEmailStep, SyncNewByEmailStep, CheckEmailStep, IntIdStep, EnsureStep
  <2> QED
    BY <2>2, <2>3 DEF IInv
<1> QED
  BY <1>1, DelStudentsStep, DelUserStep, UpsertStep, JoinOrgStep, WriteRoleStep DEF Continue

LEMMA NextOK == IInv /\ [Next]_vars => IInv'
<1> SUFFICES ASSUME IInv, [Next]_vars PROVE IInv'
  OBVIOUS
<1>1. ASSUME NEW r \in Requests, Abort(r) PROVE IInv'
  <2>1. End(r) /\ UNCHANGED tables
    BY <1>1 DEF Abort
  <2> QED
    BY <2>1, EndOK DEF IInv, TablesOK, tables
<1>2. CASE UNCHANGED vars
  BY <1>2 DEF IInv, TablesOK, ReqsOK, vars
<1> QED
  BY <1>1, <1>2, ArrivalStep, ContinueStep, OtherWritersStep DEF Next

(* Every table row and every value a handler holds has its type, whatever  *)
(* order the queries of the requests come in.                              *)
THEOREM TypeCorrect == Spec => []TypeOK
<1>1. IInv => TypeOK
  BY DEF IInv, TablesOK, ReqsOK, TypeOK
<1> QED
  BY <1>1, InitOK, NextOK, PTL DEF Spec

-----------------------------------------------------------------------------
(* Uniqueness of e-mails.  The check of save is made some steps before its *)
(* write, so the invariant says that what was checked still holds.         *)

StillFree ==
  \A r \in Requests : At(r, "upsert") /\ reqs[r].ent.email # None =>
    ~EmailTaken(reqs[r].ent.email, reqs[r].ent.id)

EmailInv == EmailUnique /\ StillFree /\ ~EmailOverlap

(* A step of r that does not bring it before a write of an e-mail, and     *)
(* before the insertion of a membership only from the lookup.              *)
Calm(r) ==
  /\ \A s \in Requests \ {r} : reqs'[s] = reqs[s]
  /\ reqs'[r].pc = "upsert" => reqs'[r].ent.email = None
  /\ reqs'[r].pc = "insertRole" => reqs[r].pc = "ensure"

LEMMA EndCalm ==
  ASSUME ReqsOK, NEW r \in Requests, End(r)
  PROVE  Calm(r)
BY DEF ReqsOK, End, Calm, IdleRequest

LEMMA BeginSaveCalm ==
  ASSUME ReqsOK, NEW r \in Requests, NEW ent, NEW org, NEW role, BeginSave(r, ent, org, role)
  PROVE  Calm(r)
BY DEF ReqsOK, BeginSave, Calm, IdleRequest

LEMMA StartCreateCalm ==
  ASSUME ReqsOK, NEW r \in Requests, NEW e, NEW t, NEW s, NEW o, StartCreate(r, e, t, s, o)
  PROVE  Calm(r)
BY DEF ReqsOK, StartCreate, Calm, IdleRequest

LEMMA GotoCalm ==
  ASSUME ReqsOK, NEW r \in Requests, NEW pc, pc # "upsert", Goto(r, pc),
         pc = "insertRole" => reqs[r].pc = "ensure"
  PROVE  Calm(r)
BY DEF ReqsOK, Goto, Calm, Request

LEMMA ArrivalCalm ==
  ASSUME IInv, NEW r \in Requests, Arrival(r)
  PROVE  Calm(r)
<1>1. CASE Update(r) \/ ChangeRole(r) \/ UpsertFromTelegram(r)
  BY <1>1, BeginSaveCalm DEF IInv, Update, ChangeRole, UpsertFromTelegram
<1>2. CASE CreateUser(r)
  BY <1>2, StartCreateCalm DEF IInv, CreateUser
<1>3. CASE SaveGoogleTokens(r)
  <2>1. PICK state \in TgIds \cup Emails \cup {None}, g \in Emails :
          \/ \E i \in FoundByState(state) :
               BeginSave(r, LinkGoogle(EntityOf(i), Lower[g]), None, None)
          \/ \E i \in FreshIds :
               reqs' = [reqs EXCEPT ![r].pc = "googleByEmail",
                                    ![r].ent = NewEntity(i, Lower[g], None, "active")]
    BY <1>3 DEF SaveGoogleTokens
  <2>2. ASSUME NEW ent, reqs' = [reqs EXCEPT ![r].pc = "googleByEmail", ![r].ent = ent]
        PROVE  Calm(r)
    BY <2>2 DEF IInv, ReqsOK, Request, Calm
  <2> QED
    BY <2>1, <2>2, BeginSaveCalm DEF IInv
<1>4. CASE SyncUserData(r)
  <2>1. ASSUME NEW ent, NEW dto, NEW o, NEW w,
               reqs' = [reqs EXCEPT ![r] = [IdleRequest EXCEPT !.pc = "updateById",
                          !.ent = ent, !.dto = dto, !.org = o, !.role = w]]
        PROVE  Calm(r)
    BY <2>1 DEF IInv, ReqsOK, IdleRequest, Calm
  <2> QED
    BY <1>4, <2>1, StartCreateCalm DEF IInv, SyncUserData
<1>5. CASE TouchByTgId(r) \/ LinkEmail(r) \/ DeleteUser(r)
  <2>1. ASSUME NEW ent, reqs' = [reqs EXCEPT ![r].pc = "updateById", ![r].ent = ent]
        PROVE  Calm(r)
    BY <2>1 DEF IInv, ReqsOK, Request, Calm
  <2>2. ASSUME NEW ent, reqs' = [reqs EXCEPT ![r].pc = "updateById", ![r].ent = ent,
                                             ![r].dto.status = "blocked"]
        PROVE  Calm(r)
    BY <2>2 DEF IInv, ReqsOK, Request, Calm
  <2>3. ASSUME NEW dto, reqs' = [reqs EXCEPT ![r].pc = "linkFind", ![r].dto = dto]
        PROVE  Calm(r)
    BY <2>3 DEF IInv, ReqsOK, Request, Calm
  <2>4. ASSUME NEW i, reqs' = [reqs EXCEPT ![r].pc = "delStudents", ![r].victim = i]
        PROVE  Calm(r)
    BY <2>4 DEF IInv, ReqsOK, Request, Calm
  <2>5. CASE TouchByTgId(r)
    BY <2>5, <2>1, <2>2 DEF TouchByTgId
  <2>6. CASE LinkEmail(r)
    BY <2>6, <2>3 DEF LinkEmail
  <2>7. CASE DeleteUser(r)
    BY <2>7, <2>4 DEF DeleteUser
  <2> QED
    BY <1>5, <2>5, <2>6, <2>7
<1>6. CASE SyncTelegramUser(r)
  <2>1. ASSUME NEW ent, NEW dto, NEW w,
               reqs' = [reqs EXCEPT ![r] = [IdleRequest EXCEPT !.pc = "syncByEmail",
                          !.ent = ent, !.dto = dto, !.role = w]]
        PROVE  Calm(r)
    BY <2>1 DEF IInv, ReqsOK, IdleRequest, Calm
  <2>2. ASSUME NEW ent, NEW o,
               reqs' = [reqs EXCEPT ![r] = [IdleRequest EXCEPT !.pc = "syncNewByEmail",
                          !.org = o, !.ent = ent]]
        PROVE  Calm(r)
    BY <2>2 DEF IInv, ReqsOK, IdleRequest, Calm
  <2> QED
    BY <1>6, <2>1, <2>2, BeginSaveCalm, StartCreateCalm DEF IInv, SyncTelegramUser
<1> QED
  BY <1>1, <1>2, <1>3, <1>4, <1>5, <1>6 DEF Arrival

LEMMA ContinueCalm ==
  ASSUME IInv, NEW r \in Requests, Continue(r), ~CheckEmail(r)
  PROVE  Calm(r)
<1>1. CASE GoogleByEmail(r) \/ CreateByEmail(r) \/ UpdateById(r)
  BY <1>1, BeginSaveCalm, EndCalm DEF IInv, GoogleByEmail, CreateByEmail, UpdateById
<1>2. CASE LinkFind(r)
  <2>1. ASSUME NEW ent, reqs' = [reqs EXCEPT ![r].pc = "updateById", ![r].ent = ent,
                                             ![r].dto.tgId = None]
        PROVE  Calm(r)
    BY <2>1 DEF IInv, ReqsOK, Request, Calm
  <2> QED
    BY <1>2, <2>1, EndCalm DEF IInv, LinkFind
<1>3. CASE SyncByEmail(r)
  BY <1>3, BeginSaveCalm DEF IInv, SyncByEmail, ReqsOK, Request, Calm
<1>4. CASE SyncNewByEmail(r)
  BY <1>4, BeginSaveCalm, GotoCalm DEF IInv, SyncNewByEmail
<1>5. CASE DelStudents(r)
  BY <1>5, GotoCalm DEF IInv, DelStudents
<1>6. CASE DelUser(r)
  BY <1>6, BeginSaveCalm, EndCalm DEF IInv, DelUser
<1>7. CASE Upsert(r) \/ IntId(r)
  BY <1>7, EndCalm DEF IInv, Upsert, IntId, ReqsOK, Request, Calm
<1>8. CASE JoinOrg(r) \/ Ensure(r) \/ SetRole(r) \/ InsertRole(r)
  BY <1>8, EndCalm, GotoCalm DEF IInv, JoinOrg, Ensure, SetRole, InsertRole, At
<1> QED
  BY <1>1, <1>2, <1>3, <1>4, <1>5, <1>6, <1>7, <1>8 DEF Continue

(* A calm step that writes no e-mail into a row keeps the invariant.       *)
LEMMA CalmStep ==
  ASSUME IInv, EmailInv, ~EmailOverlap', NEW r \in Requests, Calm(r),
         \A i \in UserIds : users'[i].live => users[i].live /\ users'[i].email = users[i].email
  PROVE  EmailInv'
<1>1. EmailUnique'
  BY DEF EmailInv, EmailUnique, Live
<1>2. ASSUME NEW s \in Requests, (At(s, "upsert") /\ reqs[s].ent.email # None)'
      PROVE  (~EmailTaken(reqs[s].ent.email, reqs[s].ent.id))'
  <2>1. reqs'[s] = reqs[s]
    BY <1>2 DEF Calm, At
  <2>2. ~EmailTaken(reqs[s].ent.email, reqs[s].ent.id)
    BY <1>2, <2>1 DEF EmailInv, StillFree, At
  <2> QED
    BY <2>1, <2>2 DEF EmailTaken, Live
<1> QED
  BY <1>1, <1>2 DEF EmailInv, StillFree

LEMMA CheckEmailKeeps ==
  ASSUME IInv, EmailInv, ~EmailOverlap', NEW r \in Requests, CheckEmail(r)
  PROVE  EmailInv'
<1>1. CASE End(r)
  BY <1>1, EndCalm, CalmStep DEF IInv, CheckEmail, tables
<1>2. CASE /\ ~EmailTaken(reqs[r].ent.email, reqs[r].ent.id)
           /\ Goto(r, "upsert")
  <2>1. users' = users
    BY DEF CheckEmail, tables
  <2>2. \A s \in Requests : reqs'[s].ent = reqs[s].ent /\ (s # r => reqs'[s] = reqs[s])
    BY <1>2 DEF IInv, ReqsOK, Request, Goto
  <2>3. StillFree'
    BY <1>2, <2>1, <2>2 DEF EmailInv, StillFree, At, EmailTaken, Live
  <2> QED
    BY <2>1, <2>3 DEF EmailInv, EmailUnique, Live
<1> QED
  BY <1>1, <1>2 DEF CheckEmail

LEMMA UpsertKeeps ==
  ASSUME IInv, EmailInv, ~EmailOverlap', NEW r \in Requests, Upsert(r)
  PROVE  EmailInv'
<1> DEFINE ent == reqs[r].ent
<1>1. ent \in Entity /\ ent.id \in UserIds
  BY RequestParts DEF IInv, Upsert, At, Knows, HasEnt, Entity
<1>2. users' = [users EXCEPT ![ent.id] = RowOf(ent)]
  BY DEF Upsert
<1>3. /\ users'[ent.id].email = ent.email
      /\ \A i \in UserIds \ {ent.id} : users'[i] = users[i]
  BY <1>1, <1>2 DEF IInv, TablesOK, RowOf
<1>4. ent.email # None => ~EmailTaken(ent.email, ent.id)
  BY DEF Upsert, EmailInv, StillFree
<1>5. EmailUnique'
  <2> SUFFICES ASSUME NEW i \in Live', NEW j \in Live',
                      users'[i].email = users'[j].email, users'[i].email # None
               PROVE  i = j
    BY DEF EmailUnique
  <2>1. i \in UserIds /\ j \in UserIds
    BY DEF Live
  <2>2. CASE i # ent.id /\ j # ent.id
    BY <1>3, <2>1, <2>2 DEF EmailInv, EmailUnique, Live
  <2>3. CASE i = ent.id \/ j = ent.id
    BY <1>3, <1>4, <2>1, <2>3 DEF EmailTaken, Live
  <2> QED
    BY <2>2, <2>3
<1>6. ASSUME NEW s \in Requests, (At(s, "upsert") /\ reqs[s].ent.email # None)'
      PROVE  (~EmailTaken(reqs[s].ent.email, reqs[s].ent.id))'
  <2>1. s # r
    BY <1>6 DEF Upsert, IInv, ReqsOK, Request, At
  <2>2. reqs'[s] = reqs[s]
    BY <2>1 DEF Upsert, IInv, ReqsOK
  <2>3. At(s, "upsert") /\ At(r, "upsert") /\ reqs[s].ent.email # None
    BY <1>6, <2>2 DEF Upsert, At
  <2>4. ~EmailTaken(reqs[s].ent.email, reqs[s].ent.id)
    BY <2>3 DEF EmailInv, StillFree
  <2>5. reqs[s].ent.id # ent.id => reqs[s].ent.email # ent.email
    BY <2>3 DEF EmailInv, EmailOverlap
  <2> QED
    BY <1>3, <2>2, <2>4, <2>5 DEF EmailTaken, Live
<1> QED
  BY <1>5, <1>6 DEF EmailInv, StillFree

LEMMA OldEmails ==
  ASSUME IInv, NEW r \in Requests, Arrival(r) \/ Continue(r) \/ Abort(r), ~Upsert(r)
  PROVE  \A i \in UserIds : users'[i].live => users[i].live /\ users'[i].email = users[i].email
<1>1. CASE DelUser(r)
  <2>1. reqs[r].victim \in UserIds
    BY <1>1, RequestParts DEF IInv, DelUser, At, Knows
  <2> QED
    BY <1>1, <2>1 DEF IInv, TablesOK, DelUser, NoRow, tables
<1>2. CASE ~DelUser(r)
  <2>1. users' = users
    BY <1>2 DEF Arrival, Continue, Abort, tables, Update, ChangeRole, UpsertFromTelegram,
                SaveGoogleTokens, CreateUser, SyncUserData, TouchByTgId, LinkEmail,
                SyncTelegramUser, DeleteUser, GoogleByEmail, CreateByEmail, LinkFind, UpdateById,
                SyncByEmail, SyncNewByEmail, DelStudents, CheckEmail, JoinOrg, IntId, Ensure,
                SetRole, InsertRole
  <2> QED
    BY <2>1
<1> QED
  BY <1>1, <1>2

LEMMA EmailStep ==
  ASSUME IInv, EmailInv, [Next /\ ~EmailOverlap']_vars
  PROVE  EmailInv'
<1>1. ASSUME NEW r \in Requests, Arrival(r) \/ Continue(r) \/ Abort(r), ~EmailOverlap'
      PROVE  EmailInv'
  <2>1. CASE CheckEmail(r)
    BY <1>1, <2>1, CheckEmailKeeps
  <2>2. CASE Upsert(r)
    BY <1>1, <2>2, UpsertKeeps
  <2>3. CASE ~CheckEmail(r) /\ ~Upsert(r)
    <3>1. Calm(r)
      BY <1>1, <2>3, ArrivalCalm, ContinueCalm, EndCalm DEF IInv, Abort
    <3> QED
      BY <1>1, <2>3, <3>1, OldEmails, CalmStep
  <2> QED
    BY <2>1, <2>2, <2>3
<1>2. CASE OtherWriters
  <2>1. UNCHANGED <<users, reqs>>
    BY <1>2 DEF OtherWriters, AddUserToOrg, UpdateUserRoleInOrg, RemoveUserFromOrg,
                DeleteOrg, CreateStudent, RemoveStudent
  <2> QED
    BY <2>1 DEF EmailInv, EmailUnique, StillFree, EmailOverlap, EmailTaken, Live, At
<1>3. CASE UNCHANGED vars
  BY <1>3 DEF vars, EmailInv, EmailUnique, StillFree, EmailOverlap, EmailTaken, Live, At
<1> QED
  BY <1>1, <1>2, <1>3 DEF Next

LEMMA EmailInit == Init => EmailInv
<1> SUFFICES ASSUME Init PROVE EmailInv
  OBVIOUS
<1>1. EmailUnique
  BY SeedAssumption DEF Init, EmailUnique, Live, NoRow
<1>2. \A r \in Requests : reqs[r].pc = "idle"
  BY DEF Init, IdleRequest
<1> QED
  BY <1>1, <1>2 DEF EmailInv, StillFree, EmailOverlap, At

(* Two accounts never have one e-mail, as long as no two saves of          *)
(* different accounts with one e-mail lie between their check and their    *)
(* write at the same time.                                                 *)
THEOREM EmailsStayUnique == EmailSerialSpec => []EmailUnique
<1>1. Init => IInv /\ EmailInv
  BY InitOK, EmailInit
<1>2. IInv /\ EmailInv /\ [Next /\ ~EmailOverlap']_vars => (IInv /\ EmailInv)'
  BY NextOK, EmailStep
<1>3. EmailInv => EmailUnique
  BY DEF EmailInv
<1> QED
  BY <1>1, <1>2, <1>3, PTL DEF EmailSerialSpec, EmailSerial

-----------------------------------------------------------------------------
(* References.  Rows of students and org_members appear only for live      *)
(* users in existing organizations, and a user or an organization goes     *)
(* only without them or with them.                                         *)

LEMMA SetMemberRefs ==
  ASSUME TablesOK, ReferencesHold, NEW o \in Orgs, NEW i \in UserIds, NEW role,
         role # None => o \in orgs /\ i \in Live,
         SetMember(o, i, role), UNCHANGED <<users, students, orgs>>
  PROVE  ReferencesHold'
<1>1. \A p \in Orgs, j \in UserIds :
        members'[p][j] = IF p = o /\ j = i THEN role ELSE members[p][j]
  BY DEF TablesOK, SetMember
<1> QED
  BY <1>1 DEF ReferencesHold, Live

LEMMA TablesSameRefs ==
  ASSUME ReferencesHold, UNCHANGED tables
  PROVE  ReferencesHold'
BY DEF ReferencesHold, Live, tables

LEMMA DelUserRefs ==
  ASSUME IInv, ReferencesHold, NEW r \in Requests, DelUser(r)
  PROVE  ReferencesHold'
<1> DEFINE i == reqs[r].victim
<1>1. CASE UNCHANGED tables
  BY <1>1, TablesSameRefs
<1>2. CASE /\ i \in Live => ~HasStudent(i)
           /\ users' = [users EXCEPT ![i] = [NoRow EXCEPT !.births = users[i].births]]
           /\ members' = [o \in Orgs |-> [members[o] EXCEPT ![i] = None]]
           /\ UNCHANGED <<students, orgs>>
  <2>1. \A j \in UserIds \ {i} : users'[j] = users[j]
    BY <1>2 DEF IInv, TablesOK
  <2>2. \A s \in students : s[2] # i
    BY <1>2 DEF HasStudent, ReferencesHold
  <2>3. \A s \in students' : s[1] \in orgs' /\ s[2] \in Live'
    BY <1>2, <2>1, <2>2 DEF ReferencesHold, Live
  <2>4. i \in UserIds
    BY RequestParts DEF IInv, DelUser, At, Knows
  <2>5. \A o \in Orgs, j \in UserIds : members'[o][j] = IF j = i THEN None ELSE members[o][j]
    BY <1>2, <2>4 DEF IInv, TablesOK
  <2> QED
    BY <1>2, <2>1, <2>3, <2>5 DEF ReferencesHold, Live
<1> QED
  BY <1>1, <1>2 DEF DelUser

LEMMA UpsertRefs ==
  ASSUME IInv, ReferencesHold, NEW r \in Requests, Upsert(r)
  PROVE  ReferencesHold'
<1> DEFINE ent == reqs[r].ent
<1>1. users' = [users EXCEPT ![ent.id] = RowOf(ent)] /\ UNCHANGED <<members, students, orgs>>
  BY DEF Upsert
<1>2. RowOf(ent).live
  BY DEF RowOf
<1>3. \A j \in UserIds : users[j].live => users'[j].live
  BY <1>1, <1>2 DEF IInv, TablesOK
<1> QED
  BY <1>1, <1>3 DEF ReferencesHold, Live

(* The three steps of a request that write org_members.                    *)
LEMMA MemberRefs ==
  ASSUME IInv, ReferencesHold, NEW r \in Requests, JoinOrg(r) \/ SetRole(r) \/ InsertRole(r)
  PROVE  ReferencesHold'
<1> DEFINE q == reqs[r]
<1>1. UNCHANGED <<users, students, orgs>>
  BY DEF JoinOrg, SetRole, InsertRole
<1>2. q.ent \in Entity /\ q.ent.id \in UserIds
  BY RequestParts DEF IInv, JoinOrg, SetRole, InsertRole, At, Knows, HasEnt, Entity
<1>3. \/ UNCHANGED members
      \/ \E o \in Orgs : /\ o \in orgs /\ q.ent.id \in Live
                         /\ \E role : SetMember(o, q.ent.id, role)
  <2>1. CASE JoinOrg(r)
    BY <2>1, <1>2 DEF JoinOrg, Insertable, Current, Live, IInv, TablesOK
  <2>2. CASE SetRole(r)
    <3>1. q.org \in Orgs
      BY <2>2, RequestParts DEF IInv, SetRole, At, Knows, Syncs, Saves
    <3>2. members[q.org][q.ent.id] # None => q.org \in orgs
      BY <1>2, <3>1 DEF ReferencesHold
    <3> QED
      BY <2>2, <1>2, <3>1, <3>2 DEF SetRole, Current, Live
  <2>3. CASE InsertRole(r)
    BY <2>3, <1>2 DEF InsertRole, Insertable, Current, Live, IInv, TablesOK
  <2> QED
    BY <2>1, <2>2, <2>3
<1>4. CASE UNCHANGED members
  BY <1>1, <1>4, TablesSameRefs DEF tables
<1>5. CASE \E o \in Orgs : /\ o \in orgs /\ q.ent.id \in Live
                           /\ \E role : SetMember(o, q.ent.id, role)
  BY <1>1, <1>2, <1>5, SetMemberRefs DEF IInv
<1> QED
  BY <1>3, <1>4, <1>5

LEMMA OtherWritersRefs ==
  ASSUME IInv, ReferencesHold, OtherWriters
  PROVE  ReferencesHold'
<1>1. orgs \subseteq Orgs /\ Live \subseteq UserIds /\ TablesOK
  BY LiveIds DEF IInv, TablesOK
<1>2. CASE AddUserToOrg
  BY <1>1, <1>2, SetMemberRefs DEF AddUserToOrg
<1>3. CASE UpdateUserRoleInOrg
  BY <1>1, <1>3, SetMemberRefs DEF UpdateUserRoleInOrg
<1>4. CASE RemoveUserFromOrg
  BY <1>1, <1>4, SetMemberRefs DEF RemoveUserFromOrg
<1>5. CASE DeleteOrg
  <2>1. PICK o \in orgs :
          /\ orgs' = orgs \ {o}
          /\ members' = [members EXCEPT ![o] = [i \in UserIds |-> None]]
          /\ students' = {s \in students : s[1] # o}
    BY <1>5 DEF DeleteOrg
  <2>2. users' = users
    BY <1>5 DEF DeleteOrg
  <2>3. \A p \in Orgs, j \in UserIds : members'[p][j] = IF p = o THEN None ELSE members[p][j]
    BY <1>1, <2>1 DEF TablesOK
  <2> QED
    BY <2>1, <2>2, <2>3 DEF ReferencesHold, Live
<1>6. CASE CreateStudent
  <2>1. PICK o \in orgs, i \in Live : students' = students \cup {<<o, i>>}
    BY <1>6 DEF CreateStudent
  <2>2. UNCHANGED <<users, members, orgs>>
    BY <1>6 DEF CreateStudent
  <2> QED
    BY <2>1, <2>2 DEF ReferencesHold, Live
<1>7. CASE RemoveStudent
  BY <1>7 DEF RemoveStudent, ReferencesHold, Live
<1> QED
  BY <1>2, <1>3, <1>4, <1>5, <1>6, <1>7 DEF OtherWriters

LEMMA RefsStep ==
  ASSUME IInv, ReferencesHold, [Next]_vars
  PROVE  ReferencesHold'
<1>1. ASSUME NEW r \in Requests, Continue(r)
      PROVE  ReferencesHold'
  <2>1. CASE DelStudents(r)
    BY <2>1 DEF DelStudents, ReferencesHold, Live
  <2>2. CASE ~(\/ DelStudents(r) \/ DelUser(r) \/ Upsert(r)
               \/ JoinOrg(r) \/ SetRole(r) \/ InsertRole(r))
    <3>1. UNCHANGED tables
      BY <1>1, <2>2 DEF Continue, GoogleByEmail, CreateByEmail, LinkFind, UpdateById,
         SyncByEmail, SyncNewByEmail, CheckEmail, IntId, Ensure
    <3> QED
      BY <3>1, TablesSameRefs
  <2> QED
    BY <1>1, <2>1, <2>2, DelUserRefs, UpsertRefs, MemberRefs
<1>2. ASSUME NEW r \in Requests, Arrival(r) \/ Abort(r)
      PROVE  ReferencesHold'
  <2>1. UNCHANGED tables
    BY <1>2 DEF Arrival, Abort, Update, ChangeRole, UpsertFromTelegram, SaveGoogleTokens,
       CreateUser, SyncUserData, TouchByTgId, LinkEmail, SyncTelegramUser, DeleteUser
  <2> QED
    BY <2>1, TablesSameRefs
<1>3. CASE UNCHANGED vars
  BY <1>3, TablesSameRefs DEF vars, tables
<1> QED
  BY <1>1, <1>2, <1>3, OtherWritersRefs DEF Next

LEMMA RefsInit == Init => ReferencesHold
<1> SUFFICES ASSUME Init PROVE ReferencesHold
  OBVIOUS
<1>1. \A i \in Seed : users[i].live
  BY ConstantsAssumption DEF Init, NoRow
<1>2. \A o \in Orgs, i \in UserIds : members[o][i] # None => i \in Seed
  BY DEF Init
<1> QED
  BY <1>1, <1>2, ConstantsAssumption DEF Init, ReferencesHold, Live

(* No student card and no membership outlives its user or its              *)
(* organization, for any number of requests and in any order of their      *)
(* queries: the two statements of a delete are not a transaction, but the  *)
(* constraints make the second one fail where the first no longer suffices. *)
THEOREM ReferencesStayLive == Spec => []ReferencesHold
<1>1. IInv /\ ReferencesHold /\ [Next]_vars => (IInv /\ ReferencesHold)'
  BY NextOK, RefsStep
<1> QED
  BY <1>1, InitOK, RefsInit, PTL DEF Spec

-----------------------------------------------------------------------------
(* Deletes.  A request takes into its hand only an account it has just     *)
(* read, a new one, or the one it has already.                             *)

Takes(r, i) ==
  \/ i \in Live \cup FreshIds
  \/ reqs[r].ent # None /\ i = reqs[r].ent.id

TakesKnown(r) ==
  /\ \A s \in Requests \ {r} : reqs'[s] = reqs[s]
  /\ reqs'[r].ent = None \/ Takes(r, reqs'[r].ent.id)

LEMMA EntityIds ==
  ASSUME TablesOK
  PROVE  /\ \A i \in UserIds : EntityOf(i) \in Entity /\ EntityOf(i).id = i
         /\ \A i \in UserIds : [EntityOf(i) EXCEPT !.status = "active"].id = i
         /\ \A i, e, t, s : NewEntity(i, e, t, s).id = i
         /\ \A t : \A i \in UserIds : Merged(i, t).id = i
         /\ \A e : \A i \in UserIds : LinkGoogle(EntityOf(i), e).id = i
         /\ \A dto, w : \A ent \in Entity : UpdateDetails(ent, dto, w).id = ent.id
<1>1. \A i \in UserIds : EntityOf(i) \in Entity /\ EntityOf(i).id = i
  BY EntityOfType DEF EntityOf
<1>2. \A dto, w : \A ent \in Entity : UpdateDetails(ent, dto, w).id = ent.id
  BY DEF UpdateDetails, Entity
<1> QED
  BY <1>1, <1>2 DEF NewEntity, Merged, LinkGoogle, EntityOf

(* Lemmas of the ways a request changes: it ends, saves, starts a create,  *)
(* or goes on with some of its fields replaced.                            *)
LEMMA TakesEnd ==
  ASSUME ReqsOK, NEW r \in Requests, End(r)
  PROVE  TakesKnown(r)
BY DEF ReqsOK, End, TakesKnown, IdleRequest

LEMMA TakesSave ==
  ASSUME ReqsOK, NEW r \in Requests, NEW ent, Takes(r, ent.id), NEW org, NEW role,
         BeginSave(r, ent, org, role)
  PROVE  TakesKnown(r)
BY DEF ReqsOK, BeginSave, TakesKnown, IdleRequest

LEMMA TakesCreate ==
  ASSUME TablesOK, ReqsOK, NEW r \in Requests, NEW e, NEW t, NEW s, NEW o,
         StartCreate(r, e, t, s, o)
  PROVE  TakesKnown(r)
BY EntityIds DEF ReqsOK, StartCreate, TakesKnown, Takes, IdleRequest

LEMMA TakesGoto ==
  ASSUME ReqsOK, NEW r \in Requests, NEW pc, Goto(r, pc)
  PROVE  TakesKnown(r)
BY DEF ReqsOK, Goto, TakesKnown, Takes, Request

LEMMA TakesSet ==
  ASSUME ReqsOK, NEW r \in Requests, NEW q, reqs' = [reqs EXCEPT ![r] = q],
         q.ent = None \/ Takes(r, q.ent.id)
  PROVE  TakesKnown(r)
BY DEF ReqsOK, TakesKnown

LEMMA FoundIsLive ==
  /\ \A t : ByTgId(t) \subseteq Live
  /\ \A e : ByEmail(e) \subseteq Live
  /\ \A state : FoundByState(state) \subseteq Live
  /\ Live \subseteq UserIds
BY DEF ByTgId, ByEmail, FoundByState, Live

LEMMA TakesArrival ==
  ASSUME IInv, NEW r \in Requests, Arrival(r)
  PROVE  TakesKnown(r)
<1> USE DEF IInv
<1>1. CASE Update(r)
  <2>1. PICK i \in Live, dto \in Bodies, w \in RawRoles \cup {None}, o \in OrgInputs :
          BeginSave(r, UpdateDetails(EntityOf(i), dto, w), o, RoleToCopy(o, w))
    BY <1>1 DEF Update
  <2>2. Takes(r, UpdateDetails(EntityOf(i), dto, w).id)
    BY EntityIds, FoundIsLive DEF Takes
  <2> QED
    BY <2>1, <2>2, TakesSave
<1>2. CASE ChangeRole(r)
  <2>1. PICK i \in Live, w \in RawRoles, o \in OrgInputs \ {None} :
          BeginSave(r, UpdateDetails(EntityOf(i), NoDto, w), o, w)
    BY <1>2 DEF ChangeRole
  <2>2. Takes(r, UpdateDetails(EntityOf(i), NoDto, w).id)
    BY EntityIds, FoundIsLive DEF Takes
  <2> QED
    BY <2>1, <2>2, TakesSave
<1>3. CASE UpsertFromTelegram(r)
  <2>1. ASSUME NEW i \in Live, BeginSave(r, [EntityOf(i) EXCEPT !.status = "active"], None, None)
        PROVE  TakesKnown(r)
    <3>1. Takes(r, [EntityOf(i) EXCEPT !.status = "active"].id)
      BY EntityIds, FoundIsLive DEF Takes
    <3> QED
      BY <2>1, <3>1, TakesSave
  <2>2. ASSUME NEW i \in FreshIds, NEW t, BeginSave(r, NewEntity(i, None, t, "active"), None, None)
        PROVE  TakesKnown(r)
    <3>1. Takes(r, NewEntity(i, None, t, "active").id)
      BY EntityIds DEF Takes
    <3> QED
      BY <2>2, <3>1, TakesSave
  <2> QED
    BY <1>3, <2>1, <2>2, FoundIsLive DEF UpsertFromTelegram
<1>4. CASE SaveGoogleTokens(r)
  <2>1. ASSUME NEW i \in Live, NEW g, BeginSave(r, LinkGoogle(EntityOf(i), g), None, None)
        PROVE  TakesKnown(r)
    <3>1. Takes(r, LinkGoogle(EntityOf(i), g).id)
      BY EntityIds, FoundIsLive DEF Takes
    <3> QED
      BY <2>1, <3>1, TakesSave
  <2>2. ASSUME NEW i \in FreshIds, NEW g,
               reqs' = [reqs EXCEPT ![r].pc = "googleByEmail",
                                    ![r].ent = NewEntity(i, g, None, "active")]
        PROVE  TakesKnown(r)
    <3>1. Takes(r, NewEntity(i, g, None, "active").id)
      BY EntityIds DEF Takes
    <3> QED
      BY <2>2, <3>1 DEF ReqsOK, Request, TakesKnown
  <2> QED
    BY <1>4, <2>1, <2>2, FoundIsLive DEF SaveGoogleTokens
<1>5. CASE CreateUser(r)
  BY <1>5, TakesCreate DEF CreateUser
<1>6. CASE SyncUserData(r)
  <2>1. ASSUME NEW i \in Live, NEW dto, NEW o, NEW w,
               reqs' = [reqs EXCEPT ![r] = [IdleRequest EXCEPT !.pc = "updateById",
                          !.ent = EntityOf(i), !.dto = dto, !.org = o, !.role = w]]
        PROVE  TakesKnown(r)
    BY <2>1, EntityIds, FoundIsLive DEF ReqsOK, TakesKnown, Takes, IdleRequest
  <2> QED
    BY <1>6, <2>1, TakesCreate, FoundIsLive DEF SyncUserData
<1>7. CASE TouchByTgId(r)
  <2>1. ASSUME NEW i \in Live,
               \/ reqs' = [reqs EXCEPT ![r].pc = "updateById", ![r].ent = EntityOf(i)]
               \/ reqs' = [reqs EXCEPT ![r].pc = "updateById", ![r].ent = EntityOf(i),
                                       ![r].dto.status = "blocked"]
        PROVE  TakesKnown(r)
    BY <2>1, EntityIds, FoundIsLive DEF ReqsOK, Request, TakesKnown, Takes
  <2> QED
    BY <1>7, <2>1, FoundIsLive DEF TouchByTgId
<1>8. CASE LinkEmail(r) \/ DeleteUser(r)
  <2>1. ASSUME NEW dto, reqs' = [reqs EXCEPT ![r].pc = "linkFind", ![r].dto = dto]
        PROVE  TakesKnown(r)
    BY <2>1 DEF ReqsOK, Request, TakesKnown, Takes
  <2>2. ASSUME NEW i, reqs' = [reqs EXCEPT ![r].pc = "delStudents", ![r].victim = i]
        PROVE  TakesKnown(r)
    BY <2>2 DEF ReqsOK, Request, TakesKnown, Takes
  <2> QED
    BY <1>8, <2>1, <2>2 DEF LinkEmail, DeleteUser
<1>9. CASE SyncTelegramUser(r)
  <2>1. ASSUME NEW i \in Live, NEW dto, NEW w,
               BeginSave(r, UpdateDetails(EntityOf(i), dto, w), None, None)
        PROVE  TakesKnown(r)
    <3>1. Takes(r, UpdateDetails(EntityOf(i), dto, w).id)
      BY EntityIds, FoundIsLive DEF Takes
    <3> QED
      BY <2>1, <3>1, TakesSave
  <2>2. ASSUME NEW i \in Live, NEW dto, NEW w,
               reqs' = [reqs EXCEPT ![r] = [IdleRequest EXCEPT !.pc = "syncByEmail",
                          !.ent = EntityOf(i), !.dto = dto, !.role = w]]
        PROVE  TakesKnown(r)
    BY <2>2, EntityIds, FoundIsLive DEF ReqsOK, TakesKnown, Takes, IdleRequest
  <2>3. ASSUME NEW i \in FreshIds, NEW e, NEW t, NEW s, NEW o,
               reqs' = [reqs EXCEPT ![r] = [IdleRequest EXCEPT !.pc = "syncNewByEmail",
                          !.org = o, !.ent = NewEntity(i, e, t, s)]]
        PROVE  TakesKnown(r)
    BY <2>3, EntityIds DEF ReqsOK, TakesKnown, Takes, IdleRequest
  <2> QED
    BY <1>9, <2>1, <2>2, <2>3, TakesCreate, FoundIsLive DEF SyncTelegramUser
<1> QED
  BY <1>1, <1>2, <1>3, <1>4, <1>5, <1>6, <1>7, <1>8, <1>9 DEF Arrival

LEMMA TakesContinue ==
  ASSUME IInv, NEW r \in Requests, Continue(r)
  PROVE  TakesKnown(r)
<1> USE DEF IInv
<1>1. reqs[r].pc \in HasEnt => reqs[r].ent \in Entity /\ Takes(r, reqs[r].ent.id)
  BY RequestParts DEF Knows, Takes
<1>2. CASE GoogleByEmail(r)
  <2>1. ASSUME NEW i \in Live, NEW g, BeginSave(r, LinkGoogle(EntityOf(i), g), None, None)
        PROVE  TakesKnown(r)
    <3>1. Takes(r, LinkGoogle(EntityOf(i), g).id)
      BY EntityIds, FoundIsLive DEF Takes
    <3> QED
      BY <2>1, <3>1, TakesSave
  <2>2. CASE BeginSave(r, reqs[r].ent, None, None)
    BY <1>1, <1>2, <2>2, TakesSave DEF GoogleByEmail, At, HasEnt
  <2> QED
    BY <1>2, <2>1, <2>2, FoundIsLive DEF GoogleByEmail
<1>3. CASE CreateByEmail(r)
  BY <1>1, <1>3, TakesSave, TakesEnd DEF CreateByEmail, At, HasEnt
<1>4. CASE LinkFind(r)
  <2>1. ASSUME NEW i \in Live,
               reqs' = [reqs EXCEPT ![r].pc = "updateById", ![r].ent = EntityOf(i),
                                    ![r].dto.tgId = None]
        PROVE  TakesKnown(r)
    BY <2>1, EntityIds, FoundIsLive DEF ReqsOK, Request, TakesKnown, Takes
  <2> QED
    BY <1>4, <2>1, TakesEnd, FoundIsLive DEF LinkFind
<1>5. CASE UpdateById(r)
  <2> DEFINE i == reqs[r].ent.id
             ent == UpdateDetails(EntityOf(i), reqs[r].dto, reqs[r].role)
  <2>1. ASSUME i \in Live, BeginSave(r, ent, reqs[r].org, RoleToCopy(reqs[r].org, reqs[r].role))
        PROVE  TakesKnown(r)
    <3>1. Takes(r, ent.id)
      BY <2>1, EntityIds, FoundIsLive DEF Takes
    <3> QED
      BY <2>1, <3>1, TakesSave
  <2> QED
    BY <1>5, <2>1, TakesEnd DEF UpdateById
<1>6. CASE SyncByEmail(r)
  <2> DEFINE cur == reqs[r].ent
             ent == UpdateDetails(cur, reqs[r].dto, reqs[r].role)
  <2>1. ASSUME NEW i \in Live, NEW t,
               reqs' = [reqs EXCEPT ![r].pc = "delStudents", ![r].victim = cur.id,
                                    ![r].ent = Merged(i, t)]
        PROVE  TakesKnown(r)
    BY <2>1, EntityIds, FoundIsLive DEF ReqsOK, Request, TakesKnown, Takes
  <2>2. ASSUME BeginSave(r, ent, None, None)
        PROVE  TakesKnown(r)
    <3>1. Takes(r, ent.id)
      BY <1>1, <1>6, EntityIds DEF SyncByEmail, At, HasEnt
    <3> QED
      BY <2>2, <3>1, TakesSave
  <2> QED
    BY <1>6, <2>1, <2>2, FoundIsLive DEF SyncByEmail
<1>7. CASE SyncNewByEmail(r)
  <2>1. ASSUME NEW i \in Live, NEW t, BeginSave(r, Merged(i, t), None, None)
        PROVE  TakesKnown(r)
    <3>1. Takes(r, Merged(i, t).id)
      BY EntityIds, FoundIsLive DEF Takes
    <3> QED
      BY <2>1, <3>1, TakesSave
  <2> QED
    BY <1>7, <2>1, TakesGoto, FoundIsLive DEF SyncNewByEmail
<1>8. CASE DelStudents(r) \/ CheckEmail(r) \/ JoinOrg(r) \/ Ensure(r) \/ SetRole(r) \/ InsertRole(r)
  BY <1>8, TakesGoto, TakesEnd
     DEF DelStudents, CheckEmail, JoinOrg, Ensure, SetRole, InsertRole
<1>9. CASE DelUser(r)
  <2>1. ASSUME reqs[r].ent # None, BeginSave(r, reqs[r].ent, None, None)
        PROVE  TakesKnown(r)
    BY <2>1, TakesSave DEF Takes
  <2> QED
    BY <1>9, <2>1, TakesEnd DEF DelUser
<1>10. CASE Upsert(r)
  BY <1>10 DEF Upsert, ReqsOK, Request, TakesKnown, Takes
<1>11. CASE IntId(r)
  <2>1. ASSUME NEW n, reqs' = [reqs EXCEPT ![r].pc = "ensure", ![r].intId = n]
        PROVE  TakesKnown(r)
    BY <2>1 DEF ReqsOK, Request, TakesKnown, Takes
  <2> QED
    BY <1>11, <2>1, TakesEnd DEF IntId
<1> QED
  BY <1>2, <1>3, <1>4, <1>5, <1>6, <1>7, <1>8, <1>9, <1>10, <1>11 DEF Continue

(* Of the table, only an upsert makes a row live, the one of its account.  *)
LEMMA DeadRows ==
  ASSUME IInv, [Next]_vars, NEW i \in UserIds, Gone(i)
  PROVE  users'[i].births > 0 /\ ~users'[i].live
<1> USE DEF IInv, TablesOK
<1>1. CASE UNCHANGED users
  BY <1>1 DEF Gone
<1>2. ASSUME NEW r \in Requests, DelUser(r)
      PROVE  users'[i].births > 0 /\ ~users'[i].live
  BY <1>2 DEF DelUser, tables, Gone, NoRow
<1>3. ASSUME NEW r \in Requests, Upsert(r)
      PROVE  users'[i].births > 0 /\ ~users'[i].live
  <2>1. reqs[r].ent # None
    BY <1>3, RequestParts DEF Upsert, At, Knows, HasEnt
  <2>2. reqs[r].ent.id # i
    BY <2>1 DEF Gone, InHand
  <2> QED
    BY <1>3, <2>2 DEF Upsert, Gone
<1>4. Next => \/ UNCHANGED users
              \/ \E r \in Requests : DelUser(r) \/ Upsert(r)
  BY DEF Next, Arrival, Continue, OtherWriters, tables, Update, ChangeRole, UpsertFromTelegram,
         SaveGoogleTokens, CreateUser, SyncUserData, TouchByTgId, LinkEmail, SyncTelegramUser,
         DeleteUser, GoogleByEmail, CreateByEmail, LinkFind, UpdateById, SyncByEmail,
         SyncNewByEmail, DelStudents, CheckEmail, JoinOrg, IntId, Ensure, SetRole, InsertRole,
         Abort, AddUserToOrg, UpdateUserRoleInOrg, RemoveUserFromOrg, DeleteOrg,
         CreateStudent, RemoveStudent
<1> QED
  BY <1>1, <1>2, <1>3, <1>4 DEF vars

LEMMA GoneStep ==
  ASSUME IInv, [Next]_vars, NEW i \in UserIds, Gone(i)
  PROVE  Gone(i)'
<1>1. ~InHand(i)'
  <2>1. ASSUME NEW r \in Requests, TakesKnown(r)
        PROVE  ~InHand(i)'
    <3>1. ~Takes(r, i)
      BY DEF IInv, TablesOK, Row, Takes, Gone, Live, FreshIds, InHand
    <3> QED
      BY <2>1, <3>1 DEF TakesKnown, Gone, InHand
  <2>2. CASE UNCHANGED reqs
    BY <2>2 DEF Gone, InHand
  <2>3. CASE \E r \in Requests : Arrival(r) \/ Continue(r) \/ Abort(r)
    BY <2>1, <2>3, TakesArrival, TakesContinue, TakesEnd DEF IInv, Abort
  <2>4. CASE OtherWriters
    BY <2>2, <2>4 DEF OtherWriters, AddUserToOrg, UpdateUserRoleInOrg, RemoveUserFromOrg,
                      DeleteOrg, CreateStudent, RemoveStudent
  <2> QED
    BY <2>2, <2>3, <2>4 DEF Next, vars
<1> QED
  BY <1>1, DeadRows DEF Gone

(* Once an account is deleted and the requests that had it in memory have  *)
(* ended, nothing brings it back, for any number of requests and accounts, *)
(* crashes included.                                                       *)
THEOREM DeletedAccountsStayGone == Spec => GoneForGood
<1>1. IInv /\ [Next]_vars => [\A i \in UserIds : Gone(i) => Gone(i)']_vars
  BY GoneStep
<1>2. IInv /\ [Next]_vars => IInv'
  BY NextOK
<1> QED
  BY <1>1, <1>2, InitOK, PTL DEF Spec, GoneForGood
=============================================================================
