---------------------------- MODULE PracticeJournal -----------------------------
(***************************************************************************)
(* PracticesService: one action per awaited query.  A request keeps what   *)
(* its handler read; the checks of a handler are made on that, and other   *)
(* handlers run between the checks and the write.                          *)
(***************************************************************************)
EXTENDS PracticeTables

CONSTANTS
  Requests,  \* slots for requests in flight at the same time
  Ops,       \* the handlers an instance exercises
  StatusInputs, \* what a client may send for a status,
  TextInputs \* and for a text field

PracticeOps == {"update", "remove", "createEntry", "updateEntry", "removeEntry"}
EntryOps    == {"updateEntry", "removeEntry", "approveEntry"}
PCs == {"idle", "admitted", "findJournal", "owner", "findEntry", "write"}

\* "absent" is a field the client does not send, None one it sends as null.
DtoTexts == Texts \cup {None, "absent"}

ASSUME InputsAssumption ==
  /\ Ops \subseteq PracticeOps \cup {"create", "approveEntry", "removeStudent",
                            "removeOrganization", "members"}
  /\ StatusInputs \subseteq Statuses \cup {None} /\ TextInputs \subseteq DtoTexts
  /\ None \notin PracticeOps \cup {"create", "approveEntry", "absent"}

VARIABLE reqs  \* the local variables of the requests

vars == <<tables, reqs>>

Dto == [status: Statuses \cup {None}, serviceKind: DtoTexts, location: DtoTexts,
        approvedBy: Users \cup {None}]
NoDto == [status |-> None, serviceKind |-> "absent", location |-> "absent", approvedBy |-> None]

Request == [pc: PCs, op: PracticeOps \cup {"create", "approveEntry", None},
            user: Users \cup {None}, org: Orgs \cup {None}, student: Students \cup {None},
            type: Types \cup {None}, practice: Practices \cup {None},
            entry: Entries \cup {None}, dto: Dto]
Idle == [pc |-> "idle", op |-> None, user |-> None, org |-> None, student |-> None,
         type |-> None, practice |-> None, entry |-> None, dto |-> NoDto]

TypeOK == TablesTypeOK /\ reqs \in [Requests -> Request]

Init == TablesInit /\ reqs = [r \in Requests |-> Idle]

At(r, pc) == reqs[r].pc = pc
End(r) == reqs' = [reqs EXCEPT ![r] = Idle]
Continue(r, q, pc) == reqs' = [reqs EXCEPT ![r] = IF pc = "idle" THEN Idle ELSE [q EXCEPT !.pc = pc]]

(* uuids: not in a table before, not generated for another request.        *)
FreshPractices == {p \in Practices : /\ practices[p].state = "unused"
                                     /\ \A r \in Requests : reqs[r].practice # p}
FreshEntries == {e \in Entries : /\ entries[e].state = "unused"
                                 /\ \A r \in Requests : reqs[r].entry # e}

(***************************************************************************)
(* MultiTenancyGuard finds the membership; the handler comes after it.     *)
(***************************************************************************)
Enter(r) ==
  /\ At(r, "idle")
  /\ \E m \in members :
       reqs' = [reqs EXCEPT ![r] = [Idle EXCEPT !.pc = "admitted", !.user = m[1], !.org = m[2]]]
  /\ UNCHANGED tables

(* The handlers that only read, and those that do not find what they       *)
(* were asked for.                                                         *)
Read(r) == At(r, "admitted") /\ End(r) /\ UNCHANGED tables

(***************************************************************************)
(* create                                                                  *)
(***************************************************************************)
(* Mutant: the card is looked up by its id only.                           *)
IsAnyCard(u, s, o) == s \in students

IsOwn(u, s, o) == s \in students /\ UserOf[s] = u /\ OrgOf[s] = o

(* findUnique: the handler goes on only when there is no such journal.     *)
AfterFindJournal(s, t) == IF JournalOf(s, t) = {} THEN "write" ELSE "idle"

Create(r) ==
  /\ "create" \in Ops /\ At(r, "admitted")
  /\ LET u == reqs[r].user IN
     \E s \in Students, t \in Types, p \in FreshPractices :
       Continue(r, [reqs[r] EXCEPT !.op = "create", !.student = s, !.type = t, !.practice = p],
                IF u \in Staff THEN AfterFindJournal(s, t)
                ELSE IF IsOwn(u, s, reqs[r].org) THEN "findJournal" ELSE "idle")
  /\ UNCHANGED tables

FindJournal(r) ==
  /\ At(r, "findJournal")
  /\ Continue(r, reqs[r], AfterFindJournal(reqs[r].student, reqs[r].type))
  /\ UNCHANGED tables

CreateWrite(r) ==
  /\ At(r, "write") /\ reqs[r].op = "create"
  /\ LET q == reqs[r] IN
       \/ InsertPractice(q.practice, q.student, q.type, q.org)
       \/ /\ ~(q.student \in students /\ q.org \in orgs /\ JournalOf(q.student, q.type) = {})
          /\ UNCHANGED tables
  /\ End(r)

(***************************************************************************)
(* The handlers that start from a journal.                                 *)
(***************************************************************************)

(* The request has passed the access check: the synchronous validation of  *)
(* createEntry, or the lookup of the entry, comes next.                    *)
Complete(q) ==
  /\ q.type = "LITURGICAL" => q.dto.serviceKind = "text"
  /\ q.type = "PEDAGOGICAL" => q.dto.location = "text"

AfterAccess(q) ==
  CASE q.op \in {"updateEntry", "removeEntry"} -> "findEntry"
    [] q.op = "createEntry" /\ ~Complete(q)    -> "idle"
    [] OTHER                                   -> "write"

EntriesFor(op) ==
  CASE op = "createEntry"                    -> FreshEntries
    [] op \in {"updateEntry", "removeEntry"} -> Entries
    [] OTHER                                 -> {None}

DtosFor(op) ==
  CASE op = "update" ->
         {[NoDto EXCEPT !.status = s] : s \in StatusInputs}
    [] op \in {"createEntry", "updateEntry"} ->
         [status: {None}, serviceKind: TextInputs, location: TextInputs, approvedBy: {None}]
    [] OTHER -> {NoDto}

FindPractice(r) ==
  /\ At(r, "admitted")
  /\ \E op \in Ops \cap PracticeOps, p \in LivePractices :
       /\ practices[p].org = reqs[r].org
       /\ \E e \in EntriesFor(op), d \in DtosFor(op) :
            LET q == [pc |-> "owner", op |-> op, user |-> reqs[r].user, org |-> reqs[r].org,
                      student |-> practices[p].student, type |-> practices[p].type,
                      practice |-> p, entry |-> e, dto |-> d] IN
            Continue(r, q, IF q.user \in Staff THEN AfterAccess(q) ELSE "owner")
  /\ UNCHANGED tables

AssertPracticeOwnership(r) ==
  /\ At(r, "owner")
  /\ LET q == reqs[r] IN
       Continue(r, q, IF IsOwn(q.user, q.student, q.org) THEN AfterAccess(q) ELSE "idle")
  /\ UNCHANGED tables

(* findFirst by id and journal, then the validation of updateEntry.        *)
Found(e, p) == e \in LiveEntries /\ entries[e].practice = p

Misplaced(q) ==
  \/ q.dto.serviceKind = "text" /\ q.type # "LITURGICAL"
  \/ q.dto.location = "text" /\ q.type # "PEDAGOGICAL"

FindEntry(r) ==
  /\ At(r, "findEntry")
  /\ LET q == reqs[r] IN
       Continue(r, q, IF Found(q.entry, q.practice) /\ ~Misplaced(q) THEN "write" ELSE "idle")
  /\ UNCHANGED tables

UpdateWrite(r) ==
  /\ At(r, "write") /\ reqs[r].op = "update"
  /\ \/ UpdateStatus(reqs[r].practice, reqs[r].dto.status)
     \/ reqs[r].practice \notin LivePractices /\ UNCHANGED tables
  /\ End(r)

RemoveWrite(r) ==
  /\ At(r, "write") /\ reqs[r].op = "remove"
  /\ \/ DeletePractice(reqs[r].practice)
     \/ reqs[r].practice \notin LivePractices /\ UNCHANGED tables
  /\ End(r)

(* A column is stored only in the journal type it belongs to; undefined is *)
(* not stored at all.  Mutant: it is stored in any journal.                *)
ColumnOfAny(type, owner, value, old) == IF value # "absent" THEN value ELSE old

Column(type, owner, value, old) == IF type = owner /\ value # "absent" THEN value ELSE old

CreateEntryWrite(r) ==
  /\ At(r, "write") /\ reqs[r].op = "createEntry"
  /\ LET q == reqs[r] IN
       \/ InsertEntry(q.entry, q.practice,
                      Column(q.type, "LITURGICAL", q.dto.serviceKind, None),
                      Column(q.type, "PEDAGOGICAL", q.dto.location, None))
       \/ q.practice \notin LivePractices /\ UNCHANGED tables
  /\ End(r)

UpdateEntryWrite(r) ==
  /\ At(r, "write") /\ reqs[r].op = "updateEntry"
  /\ LET q == reqs[r] IN
       \/ UpdateEntry(q.entry, [entries[q.entry] EXCEPT
                        !.serviceKind = Column(q.type, "LITURGICAL", q.dto.serviceKind, @),
                        !.location = Column(q.type, "PEDAGOGICAL", q.dto.location, @)])
       \/ q.entry \notin LiveEntries /\ UNCHANGED tables
  /\ End(r)

RemoveEntryWrite(r) ==
  /\ At(r, "write") /\ reqs[r].op = "removeEntry"
  /\ \/ DeleteEntry(reqs[r].entry)
     \/ reqs[r].entry \notin LiveEntries /\ UNCHANGED tables
  /\ End(r)

(***************************************************************************)
(* approveEntry: the organization of the request is not passed to it.      *)
(* Mutant: without the check that the entry is not approved yet.           *)
(***************************************************************************)
ApprovableAgain(e, p) == Found(e, p)

Approvable(e, p) == Found(e, p) /\ entries[e].approvedBy = None

ApproveEntry(r) ==
  /\ "approveEntry" \in Ops /\ At(r, "admitted") /\ reqs[r].user \in Staff
  /\ \E p \in Practices, e \in Entries, by \in Users :
       /\ Approvable(e, p)
       /\ Continue(r, [reqs[r] EXCEPT !.op = "approveEntry", !.practice = p, !.entry = e,
                                      !.dto.approvedBy = by], "write")
  /\ UNCHANGED tables

ApproveWrite(r) ==
  /\ At(r, "write") /\ reqs[r].op = "approveEntry"
  /\ LET q == reqs[r] IN
       \/ UpdateEntry(q.entry, [entries[q.entry] EXCEPT !.approvedBy = q.dto.approvedBy])
       \/ q.entry \notin LiveEntries /\ UNCHANGED tables
  /\ End(r)

(* DELETE /students/:id, or the delete of the user.                        *)
RemoveStudent ==
  /\ "removeStudent" \in Ops
  /\ \E s \in Students : DeleteStudent(s)
  /\ UNCHANGED reqs

RemoveOrganization ==
  /\ "removeOrganization" \in Ops
  /\ \E o \in Orgs : DeleteOrganization(o)
  /\ UNCHANGED reqs

(* OrganizationService's members.                                          *)
ChangeMembers ==
  /\ "members" \in Ops
  /\ \E m \in Members : AddMember(m) \/ RemoveMember(m)
  /\ UNCHANGED reqs

Step(r) ==
  \/ Enter(r) \/ Read(r) \/ Create(r) \/ FindJournal(r) \/ CreateWrite(r)
  \/ FindPractice(r) \/ AssertPracticeOwnership(r) \/ FindEntry(r)
  \/ UpdateWrite(r) \/ RemoveWrite(r)
  \/ CreateEntryWrite(r) \/ UpdateEntryWrite(r) \/ RemoveEntryWrite(r)
  \/ ApproveEntry(r) \/ ApproveWrite(r)

Next == (\E r \in Requests : Step(r)) \/ RemoveStudent \/ RemoveOrganization \/ ChangeMembers

Spec == Init /\ [][Next]_vars

(***************************************************************************)
(* Properties.                                                             *)
(***************************************************************************)

(* A student has at most one journal of each type, although create looks   *)
(* for it long before it inserts.                                          *)
OneJournal ==
  \A p, q \in LivePractices :
    practices[p].student = practices[q].student /\ practices[p].type = practices[q].type => p = q

(* A journal has an existing student and organization, an entry a journal, *)
(* and an entry has only the column of its journal's type, although the    *)
(* handlers write with the journal they read some queries ago.             *)
EntriesFit ==
  /\ \A p \in LivePractices : practices[p].student \in students /\ practices[p].org \in orgs
  /\ \A e \in LiveEntries :
       /\ entries[e].practice \in LivePractices
       /\ practices[entries[e].practice].type = "LITURGICAL" => entries[e].location = None
       /\ practices[entries[e].practice].type = "PEDAGOGICAL" => entries[e].serviceKind = None

(* An approved entry is settled when no request that read it before is on  *)
(* its way to approve it.  From then on nobody can approve it again: two   *)
(* approvals of one entry that overlap are the only way to replace one.    *)
Approving(e) == \E r \in Requests : reqs[r].op = "approveEntry" /\ reqs[r].entry = e

Settled(e) == entries[e].approvedBy # None /\ ~Approving(e)

SettledStays ==
  \A e \in LiveEntries : Settled(e) /\ entries'[e].state = "live" =>
    Settled(e)' /\ entries'[e].approvedBy = entries[e].approvedBy

ApprovalSettles == [][SettledStays]_vars

(* The handlers implement PracticeBook: although rights, journals and      *)
(* entries were looked up queries before, a request makes at most one      *)
(* change, in the organization its user was a member of when it came, to   *)
(* what he may change at the moment of the change.                         *)
Visit == [r \in Requests |-> IF At(r, "idle") THEN None ELSE <<reqs[r].user, reqs[r].org>>]

Book == INSTANCE PracticeBook WITH Visits <- Requests, visit <- Visit
BookSpec == Book!Spec
=================================================================================
