------------------------------ MODULE PracticeProofs ------------------------------
(* PracticeJournal for every value of the constants: types, one journal of *)
(* a type, entries that fit, and the implementation of PracticeBook.       *)
EXTENDS PracticeJournal, TLAPS

-----------------------------------------------------------------------------
(* What a request knows at each point, in tables P and E of practices and  *)
(* entries.  Its journal may be gone, but it is never another journal.     *)
Entitled(q) == q.user \in Staff \/ (UserOf[q.student] = q.user /\ OrgOf[q.student] = q.org)

Caller(q) ==
  /\ q.pc = "idle" => q = Idle
  /\ q.pc # "idle" => q.user \in Users /\ q.org \in Orgs
  /\ q.pc = "admitted" => q.op = None
  /\ q.op # None => q.practice \in Practices

Creating(q, P) ==
  q.op = "create" =>
    /\ q.pc \in {"findJournal", "write"}
    /\ q.student \in Students /\ q.type \in Types
    /\ P[q.practice].state = "unused"
    /\ Entitled(q)

Changing(q, P) ==
  q.op \in PracticeOps =>
    /\ q.pc \in {"owner", "findEntry", "write"}
    /\ q.student \in Students /\ q.type \in Types
    /\ P[q.practice].state # "unused"
    /\ P[q.practice].state = "live" => /\ P[q.practice].student = q.student
                                       /\ P[q.practice].type = q.type
                                       /\ P[q.practice].org = q.org
    /\ q.pc # "owner" => Entitled(q)

OnEntry(q, E) ==
  /\ q.pc = "findEntry" => q.op \in {"updateEntry", "removeEntry"}
  /\ q.op = "createEntry" => q.entry \in Entries /\ E[q.entry].state = "unused"
  /\ q.op \in {"updateEntry", "removeEntry"} => q.entry \in Entries
  /\ q.op \in {"updateEntry", "removeEntry"} /\ q.pc = "write" =>
       /\ E[q.entry].state # "unused"
       /\ E[q.entry].state = "live" => E[q.entry].practice = q.practice
  /\ q.op = "approveEntry" =>
       /\ q.pc = "write" /\ q.user \in Staff
       /\ q.entry \in Entries /\ E[q.entry].state # "unused"
       /\ q.dto.approvedBy \in Users

Knows(q, P, E) == Caller(q) /\ Creating(q, P) /\ Changing(q, P) /\ OnEntry(q, E)

(* A generated id is in the hands of one request.                          *)
OwnIds ==
  \A q, r \in Requests : q # r =>
    /\ reqs[q].op = "create" /\ reqs[r].op = "create" => reqs[q].practice # reqs[r].practice
    /\ reqs[q].op = "createEntry" /\ reqs[r].op = "createEntry" => reqs[q].entry # reqs[r].entry

RequestsKnow == \A r \in Requests : Knows(reqs[r], practices, entries)

IInv == TypeOK /\ RequestsKnow /\ OwnIds /\ OneJournal /\ EntriesFit

-----------------------------------------------------------------------------
(* Tables: a row is used once, and its journal keeps its identity.         *)
Evolves(P, P2, E, E2) ==
  /\ \A p \in Practices : P[p].state # "unused" => P2[p].state # "unused"
  /\ \A p \in Practices : P[p].state # "unused" /\ P2[p].state = "live" =>
       /\ P[p].state = "live" /\ P2[p].student = P[p].student
       /\ P2[p].type = P[p].type /\ P2[p].org = P[p].org
  /\ \A e \in Entries : E[e].state # "unused" => E2[e].state # "unused"
  /\ \A e \in Entries : E[e].state # "unused" /\ E2[e].state = "live" =>
       E[e].state = "live" /\ E2[e].practice = E[e].practice

NothingNew(P, P2, E, E2) ==
  /\ \A p \in Practices : P[p].state = "unused" => P2[p].state = "unused"
  /\ \A e \in Entries : E[e].state = "unused" => E2[e].state = "unused"

LEMMA KnowsStays ==
  ASSUME NEW P, NEW P2, NEW E, NEW E2, NEW q \in Request,
         Knows(q, P, E), Evolves(P, P2, E, E2),
         q.op = "create" => P2[q.practice].state = "unused",
         q.op = "createEntry" => E2[q.entry].state = "unused"
  PROVE  Knows(q, P2, E2)
<1>1. Caller(q)
  BY DEF Knows
<1>2. Creating(q, P2)
  BY DEF Knows, Creating
<1>3. Changing(q, P2)
  <2> SUFFICES ASSUME q.op \in PracticeOps PROVE Changing(q, P2)
    BY DEF Changing
  <2>1. q.practice \in Practices
    BY TablesAssumption, InputsAssumption DEF Knows, Caller, PracticeOps, Request
  <2> QED
    BY <2>1 DEF Knows, Changing, Evolves
<1>4. OnEntry(q, E2)
  BY DEF Knows, OnEntry, Evolves
<1> QED
  BY <1>1, <1>2, <1>3, <1>4 DEF Knows

-----------------------------------------------------------------------------
(* A step of request r that leaves it as q: what the others know stays,    *)
(* because r alone may create the row whose id it holds.                   *)
MayCreate(r, p) == reqs[r].op = "create" /\ reqs[r].practice = p
MayInsert(r, e) == reqs[r].op = "createEntry" /\ reqs[r].entry = e

OnlyOwnIds(r) ==
  /\ \A p \in Practices : practices[p].state = "unused" =>
       practices'[p].state = "unused" \/ MayCreate(r, p)
  /\ \A e \in Entries : entries[e].state = "unused" =>
       entries'[e].state = "unused" \/ MayInsert(r, e)

NewId(r, q) ==
  /\ q.op = "create" =>
       MayCreate(r, q.practice) \/ \A s \in Requests : reqs[s].practice # q.practice
  /\ q.op = "createEntry" =>
       MayInsert(r, q.entry) \/ \A s \in Requests : reqs[s].entry # q.entry

LEMMA Moved ==
  ASSUME IInv, NEW r \in Requests, NEW q \in Request,
         reqs' = [reqs EXCEPT ![r] = q], NewId(r, q),
         Knows(q, practices', entries'),
         Evolves(practices, practices', entries, entries'), OnlyOwnIds(r)
  PROVE  (reqs \in [Requests -> Request])' /\ RequestsKnow' /\ OwnIds'
<1>1. (reqs \in [Requests -> Request])'
  BY DEF IInv, TypeOK
<1>2. RequestsKnow'
  <2> SUFFICES ASSUME NEW s \in Requests PROVE Knows(reqs'[s], practices', entries')
    BY DEF RequestsKnow
  <2>1. CASE s = r
    BY <2>1 DEF IInv, TypeOK
  <2>2. CASE s # r
    <3>1. reqs'[s] = reqs[s] /\ reqs[s] \in Request /\ Knows(reqs[s], practices, entries)
      BY <2>2 DEF IInv, TypeOK, RequestsKnow
    <3>2. ASSUME reqs[s].op = "create" PROVE practices'[reqs[s].practice].state = "unused"
      <4>1. reqs[s].practice \in Practices /\ practices[reqs[s].practice].state = "unused"
        BY <3>1, <3>2, InputsAssumption DEF Knows, Caller, Creating
      <4>2. ~MayCreate(r, reqs[s].practice)
        BY <2>2, <3>2 DEF IInv, OwnIds, MayCreate
      <4> QED
        BY <4>1, <4>2 DEF OnlyOwnIds
    <3>3. ASSUME reqs[s].op = "createEntry" PROVE entries'[reqs[s].entry].state = "unused"
      <4>1. reqs[s].entry \in Entries /\ entries[reqs[s].entry].state = "unused"
        BY <3>1, <3>3 DEF Knows, OnEntry
      <4>2. ~MayInsert(r, reqs[s].entry)
        BY <2>2, <3>3 DEF IInv, OwnIds, MayInsert
      <4> QED
        BY <4>1, <4>2 DEF OnlyOwnIds
    <3> QED
      BY <3>1, <3>2, <3>3, KnowsStays
  <2> QED
    BY <2>1, <2>2
<1>3. OwnIds'
  BY DEF IInv, TypeOK, OwnIds, NewId, MayCreate, MayInsert
<1> QED
  BY <1>1, <1>2, <1>3

LEMMA IdleKnows ==
  ASSUME NEW r \in Requests, NEW P, NEW E
  PROVE  Idle \in Request /\ Knows(Idle, P, E) /\ NewId(r, Idle)
BY InputsAssumption
   DEF Idle, Request, PCs, NoDto, Dto, DtoTexts, Texts, Knows, Caller, Creating, Changing, OnEntry,
       PracticeOps, NewId

LEMMA Ended ==
  ASSUME IInv, NEW r \in Requests, End(r),
         Evolves(practices, practices', entries, entries'), OnlyOwnIds(r)
  PROVE  (reqs \in [Requests -> Request])' /\ RequestsKnow' /\ OwnIds'
BY IdleKnows, Moved DEF End

LEMMA TablesStay ==
  ASSUME UNCHANGED tables, NEW r
  PROVE  Evolves(practices, practices', entries, entries') /\ OnlyOwnIds(r)
BY DEF tables, Evolves, OnlyOwnIds

(* A step that only reads: the request goes on as q, or ends.              *)
LEMMA Continued ==
  ASSUME IInv, NEW r \in Requests, UNCHANGED tables,
         NEW q, NEW pc \in PCs, Continue(r, q, pc),
         pc # "idle" => /\ [q EXCEPT !.pc = pc] \in Request
                        /\ Knows([q EXCEPT !.pc = pc], practices, entries)
                        /\ NewId(r, [q EXCEPT !.pc = pc])
  PROVE  IInv'
<1>1. (reqs \in [Requests -> Request])' /\ RequestsKnow' /\ OwnIds'
  <2>1. Evolves(practices, practices', entries, entries') /\ OnlyOwnIds(r)
    BY TablesStay
  <2>2. CASE pc = "idle"
    BY <2>1, <2>2, Ended DEF Continue, End
  <2>3. CASE pc # "idle"
    BY <2>1, <2>3, Moved DEF Continue, tables
  <2> QED
    BY <2>2, <2>3
<1> QED
  BY <1>1 DEF IInv, TypeOK, TablesTypeOK, OneJournal, EntriesFit, tables, LivePractices, LiveEntries

-----------------------------------------------------------------------------
(* The statements: each keeps the tables right, whoever sends it.          *)
TablesInv == TablesTypeOK /\ OneJournal /\ EntriesFit

Evolve == Evolves(practices, practices', entries, entries')

LEMMA InsertPracticeOK ==
  ASSUME TablesInv, NEW p \in Practices, NEW s \in Students, NEW t \in Types, NEW o \in Orgs,
         practices[p].state = "unused", InsertPractice(p, s, t, o)
  PROVE  /\ TablesInv' /\ Evolve
         /\ \A i \in Practices \ {p} : practices[i].state = "unused" => practices'[i].state = "unused"
         /\ entries' = entries
<1> DEFINE row == [state |-> "live", student |-> s, type |-> t, org |-> o, status |-> "DRAFT"]
<1>1. row \in Practice
  BY DEF Practice, Statuses
<1>2. /\ practices' = [practices EXCEPT ![p] = row]
      /\ orgs' = orgs /\ members' = members /\ students' = students /\ entries' = entries
      /\ s \in students /\ o \in orgs /\ JournalOf(s, t) = {}
  BY DEF InsertPractice
<1>3. TablesTypeOK'
  BY <1>1, <1>2 DEF TablesInv, TablesTypeOK
<1>4. practices' \in [Practices -> Practice] /\ practices \in [Practices -> Practice]
  BY <1>3 DEF TablesInv, TablesTypeOK
<1>5. Evolve
  BY <1>2, <1>4 DEF Evolve, Evolves
<1>6. OneJournal'
  BY <1>2, <1>4 DEF TablesInv, OneJournal, LivePractices, JournalOf
<1>7. EntriesFit'
  BY <1>2, <1>4 DEF TablesInv, EntriesFit, LivePractices, LiveEntries
<1> QED
  BY <1>2, <1>3, <1>4, <1>5, <1>6, <1>7 DEF TablesInv

LEMMA UpdateStatusOK ==
  ASSUME TablesInv, NEW p \in Practices, NEW v \in Statuses \cup {None}, UpdateStatus(p, v)
  PROVE  TablesInv' /\ Evolve /\ NothingNew(practices, practices', entries, entries')
<1> DEFINE row == [practices[p] EXCEPT !.status = IF v = None THEN @ ELSE v]
<1>1. /\ practices' = [practices EXCEPT ![p] = row]
      /\ orgs' = orgs /\ members' = members /\ students' = students /\ entries' = entries
      /\ practices[p].state = "live"
      /\ practices \in [Practices -> Practice]
  BY DEF UpdateStatus, LivePractices, TablesInv, TablesTypeOK
<1>2. row \in Practice /\ row.state = "live" /\ row.student = practices[p].student
      /\ row.type = practices[p].type /\ row.org = practices[p].org
  BY <1>1 DEF Practice, NoPractice
<1>3. TablesTypeOK'
  BY <1>1, <1>2 DEF TablesInv, TablesTypeOK
<1>4. Evolve /\ NothingNew(practices, practices', entries, entries')
  BY <1>1, <1>2 DEF Evolve, Evolves, NothingNew
<1>5. OneJournal' /\ EntriesFit'
  BY <1>1, <1>2 DEF TablesInv, OneJournal, EntriesFit, LivePractices, LiveEntries
<1> QED
  BY <1>3, <1>4, <1>5 DEF TablesInv

(* A delete that takes the journals of its cards and organization along.   *)
LEMMA WithoutPracticesOK ==
  ASSUME TablesInv, NEW gone \in SUBSET Practices, WithoutPractices(gone),
         gone \subseteq LivePractices,
         orgs' \subseteq orgs, members' \subseteq members, students' \subseteq students,
         \A p \in LivePractices \ gone : practices[p].student \in students' /\ practices[p].org \in orgs'
  PROVE  TablesInv' /\ Evolve /\ NothingNew(practices, practices', entries, entries')
<1>1. /\ practices \in [Practices -> Practice] /\ entries \in [Entries -> Entry]
      /\ orgs \subseteq Orgs /\ members \subseteq Members /\ students \subseteq Students
  BY DEF TablesInv, TablesTypeOK
<1>2. /\ practices' = [p \in Practices |-> IF p \in gone THEN NoPractice("gone") ELSE practices[p]]
      /\ entries' = [e \in Entries |-> IF entries[e].state = "live" /\ entries[e].practice \in gone
                                       THEN NoEntry("gone") ELSE entries[e]]
  BY DEF WithoutPractices
<1>3. TablesTypeOK'
  BY <1>1, <1>2 DEF TablesTypeOK, Practice, Entry
<1>4. Evolve /\ NothingNew(practices, practices', entries, entries')
  BY <1>1, <1>2 DEF Evolve, Evolves, NothingNew, NoPractice, NoEntry, LivePractices
<1>5. LivePractices' = LivePractices \ gone
  BY <1>1, <1>2 DEF LivePractices, NoPractice
<1>6. \A p \in LivePractices' : practices'[p] = practices[p]
  BY <1>2, <1>5 DEF LivePractices
<1>7. \A e \in LiveEntries' :
        e \in LiveEntries /\ entries'[e] = entries[e] /\ entries[e].practice \notin gone
  BY <1>2 DEF LiveEntries, NoEntry
<1>8. OneJournal'
  BY <1>5, <1>6 DEF TablesInv, OneJournal
<1>9. EntriesFit'
  BY <1>5, <1>6, <1>7 DEF TablesInv, EntriesFit
<1> QED
  BY <1>3, <1>4, <1>8, <1>9 DEF TablesInv

LEMMA DeletePracticeOK ==
  ASSUME TablesInv, NEW p \in Practices, DeletePractice(p)
  PROVE  TablesInv' /\ Evolve /\ NothingNew(practices, practices', entries, entries')
<1>1. {p} \in SUBSET Practices /\ {p} \subseteq LivePractices /\ WithoutPractices({p})
      /\ orgs' = orgs /\ members' = members /\ students' = students
  BY DEF DeletePractice
<1> QED
  BY <1>1, WithoutPracticesOK DEF TablesInv, EntriesFit

LEMMA DeleteStudentOK ==
  ASSUME TablesInv, NEW s \in Students, DeleteStudent(s)
  PROVE  TablesInv' /\ Evolve /\ NothingNew(practices, practices', entries, entries')
<1> DEFINE gone == {p \in LivePractices : practices[p].student = s}
<1>1. gone \in SUBSET Practices /\ gone \subseteq LivePractices
  BY DEF LivePractices
<1>2. /\ WithoutPractices(gone) /\ orgs' = orgs /\ members' = members
      /\ students' = students \ {s}
  BY DEF DeleteStudent
<1>3. \A p \in LivePractices \ gone : practices[p].student \in students' /\ practices[p].org \in orgs'
  BY <1>2 DEF TablesInv, EntriesFit
<1> HIDE DEF gone
<1> QED
  BY <1>1, <1>2, <1>3, WithoutPracticesOK

LEMMA DeleteOrganizationOK ==
  ASSUME TablesInv, NEW o \in Orgs, DeleteOrganization(o)
  PROVE  TablesInv' /\ Evolve /\ NothingNew(practices, practices', entries, entries')
<1> DEFINE gone == {p \in LivePractices : practices[p].org = o \/ OrgOf[practices[p].student] = o}
<1>1. gone \in SUBSET Practices /\ gone \subseteq LivePractices
  BY DEF LivePractices
<1>2. WithoutPractices(gone) /\ orgs' = orgs \ {o} /\ students' = {s \in students : OrgOf[s] # o}
  BY DEF DeleteOrganization
<1>3. \A p \in LivePractices \ gone : practices[p].student \in students' /\ practices[p].org \in orgs'
  BY <1>2 DEF TablesInv, EntriesFit
<1>4. students' \subseteq students /\ orgs' \subseteq orgs /\ members' \subseteq members
  BY <1>2 DEF DeleteOrganization
<1> HIDE DEF gone
<1> QED
  BY <1>1, <1>2, <1>3, <1>4, WithoutPracticesOK

LEMMA MembersOK ==
  ASSUME TablesInv, NEW m \in Members, AddMember(m) \/ RemoveMember(m)
  PROVE  TablesInv' /\ Evolve /\ NothingNew(practices, practices', entries, entries')
<1>1. members' \subseteq Members /\ UNCHANGED <<orgs, students, practices, entries>>
  BY DEF AddMember, RemoveMember, TablesInv, TablesTypeOK
<1> QED
  BY <1>1 DEF TablesInv, TablesTypeOK, OneJournal, EntriesFit, LivePractices, LiveEntries,
              Evolve, Evolves, NothingNew

LEMMA InsertEntryOK ==
  ASSUME TablesInv, NEW e \in Entries, NEW p \in Practices, entries[e].state = "unused",
         NEW kind \in Texts \cup {None}, NEW location \in Texts \cup {None},
         practices[p].type = "LITURGICAL" => location = None,
         practices[p].type = "PEDAGOGICAL" => kind = None,
         InsertEntry(e, p, kind, location)
  PROVE  /\ TablesInv' /\ Evolve
         /\ practices' = practices
         /\ \A i \in Entries \ {e} : entries[i].state = "unused" => entries'[i].state = "unused"
<1> DEFINE row == [state |-> "live", practice |-> p, serviceKind |-> kind,
                   location |-> location, approvedBy |-> None]
<1>1. row \in Entry
  BY DEF Entry
<1>2. /\ entries' = [entries EXCEPT ![e] = row] /\ entries \in [Entries -> Entry]
      /\ orgs' = orgs /\ members' = members /\ students' = students /\ practices' = practices
      /\ p \in LivePractices
  BY DEF InsertEntry, TablesInv, TablesTypeOK
<1>3. TablesTypeOK'
  BY <1>1, <1>2 DEF TablesInv, TablesTypeOK
<1>4. Evolve
  BY <1>2 DEF Evolve, Evolves
<1>5. OneJournal' /\ EntriesFit'
  BY <1>2 DEF TablesInv, OneJournal, EntriesFit, LivePractices, LiveEntries
<1> QED
  BY <1>2, <1>3, <1>4, <1>5 DEF TablesInv

(* An entry's new row is of its old journal and fits it.                   *)
LEMMA UpdateEntryOK ==
  ASSUME TablesInv, NEW e \in Entries, NEW row \in Entry, UpdateEntry(e, row),
         row.state = "live", row.practice = entries[e].practice,
         practices[row.practice].type = "LITURGICAL" => row.location = None,
         practices[row.practice].type = "PEDAGOGICAL" => row.serviceKind = None
  PROVE  TablesInv' /\ Evolve /\ NothingNew(practices, practices', entries, entries')
<1>1. /\ entries' = [entries EXCEPT ![e] = row] /\ entries \in [Entries -> Entry]
      /\ orgs' = orgs /\ members' = members /\ students' = students /\ practices' = practices
      /\ entries[e].state = "live"
  BY DEF UpdateEntry, LiveEntries, TablesInv, TablesTypeOK
<1>2. TablesTypeOK'
  BY <1>1 DEF TablesInv, TablesTypeOK
<1>3. Evolve /\ NothingNew(practices, practices', entries, entries')
  BY <1>1 DEF Evolve, Evolves, NothingNew
<1>4. OneJournal' /\ EntriesFit'
  BY <1>1 DEF TablesInv, OneJournal, EntriesFit, LivePractices, LiveEntries
<1> QED
  BY <1>2, <1>3, <1>4 DEF TablesInv

LEMMA DeleteEntryOK ==
  ASSUME TablesInv, NEW e \in Entries, DeleteEntry(e)
  PROVE  TablesInv' /\ Evolve /\ NothingNew(practices, practices', entries, entries')
<1>1. /\ entries' = [entries EXCEPT ![e] = NoEntry("gone")] /\ entries \in [Entries -> Entry]
      /\ orgs' = orgs /\ members' = members /\ students' = students /\ practices' = practices
      /\ entries[e].state = "live"
  BY DEF DeleteEntry, LiveEntries, TablesInv, TablesTypeOK
<1>2. TablesTypeOK'
  BY <1>1 DEF TablesInv, TablesTypeOK, Entry
<1>3. Evolve /\ NothingNew(practices, practices', entries, entries')
  BY <1>1 DEF Evolve, Evolves, NothingNew, NoEntry
<1>4. OneJournal' /\ EntriesFit'
  BY <1>1 DEF TablesInv, OneJournal, EntriesFit, LivePractices, LiveEntries, NoEntry
<1> QED
  BY <1>2, <1>3, <1>4 DEF TablesInv

-----------------------------------------------------------------------------
(* A write ends its request.                                               *)
LEMMA Written ==
  ASSUME IInv, NEW r \in Requests, End(r), TablesInv', Evolve, OnlyOwnIds(r)
  PROVE  IInv'
BY Ended DEF Evolve, IInv, TablesInv, TypeOK

LEMMA NothingNewOnly ==
  ASSUME NEW r, NothingNew(practices, practices', entries, entries')
  PROVE  OnlyOwnIds(r)
BY DEF NothingNew, OnlyOwnIds

LEMMA InvTables == IInv => TablesInv
BY DEF IInv, TablesInv, TypeOK

LEMMA Knowing ==
  ASSUME IInv, NEW r \in Requests
  PROVE  /\ reqs[r] \in Request
         /\ Caller(reqs[r]) /\ Creating(reqs[r], practices)
         /\ Changing(reqs[r], practices) /\ OnEntry(reqs[r], entries)
BY DEF IInv, TypeOK, RequestsKnow, Knows

(* A write that finds no row changes nothing.                              *)
LEMMA WrittenNothing ==
  ASSUME IInv, NEW r \in Requests, End(r), UNCHANGED tables
  PROVE  IInv'
<1>1. (reqs \in [Requests -> Request])' /\ RequestsKnow' /\ OwnIds'
  BY Ended, TablesStay
<1> QED
  BY <1>1 DEF IInv, TypeOK, TablesTypeOK, OneJournal, EntriesFit, tables, LivePractices, LiveEntries

LEMMA CreateWriteInv ==
  ASSUME IInv, NEW r \in Requests, CreateWrite(r)
  PROVE  IInv'
<1> DEFINE q == reqs[r]
<1>1. End(r) /\ q.op = "create"
  BY DEF CreateWrite
<1>2. q.student \in Students /\ q.type \in Types /\ q.org \in Orgs /\ q.practice \in Practices
      /\ practices[q.practice].state = "unused"
  BY <1>1, Knowing, InputsAssumption DEF Caller, Creating
<1>3. CASE InsertPractice(q.practice, q.student, q.type, q.org)
  <2>1. /\ TablesInv' /\ Evolve /\ entries' = entries
        /\ \A i \in Practices \ {q.practice} :
             practices[i].state = "unused" => practices'[i].state = "unused"
    BY <1>2, <1>3, InvTables, InsertPracticeOK
  <2>2. OnlyOwnIds(r)
    BY <1>1, <2>1 DEF OnlyOwnIds, MayCreate
  <2> QED
    BY <1>1, <2>1, <2>2, Written
<1>4. CASE UNCHANGED tables
  BY <1>1, <1>4, WrittenNothing
<1> QED
  BY <1>3, <1>4 DEF CreateWrite

LEMMA UpdateWriteInv ==
  ASSUME IInv, NEW r \in Requests, UpdateWrite(r)
  PROVE  IInv'
<1>1. End(r) /\ reqs[r].op = "update"
  BY DEF UpdateWrite
<1>2. reqs[r].practice \in Practices /\ reqs[r].dto.status \in Statuses \cup {None}
  BY <1>1, Knowing, InputsAssumption DEF Caller, PracticeOps, Request, Dto
<1>3. CASE UpdateStatus(reqs[r].practice, reqs[r].dto.status)
  BY <1>1, <1>2, <1>3, InvTables, UpdateStatusOK, NothingNewOnly, Written
<1>4. CASE UNCHANGED tables
  BY <1>1, <1>4, WrittenNothing
<1> QED
  BY <1>3, <1>4 DEF UpdateWrite

LEMMA RemoveWriteInv ==
  ASSUME IInv, NEW r \in Requests, RemoveWrite(r)
  PROVE  IInv'
<1>1. End(r) /\ reqs[r].op = "remove"
  BY DEF RemoveWrite
<1>2. reqs[r].practice \in Practices
  BY <1>1, Knowing, InputsAssumption DEF Caller, PracticeOps
<1>3. CASE DeletePractice(reqs[r].practice)
  BY <1>1, <1>2, <1>3, InvTables, DeletePracticeOK, NothingNewOnly, Written
<1>4. CASE UNCHANGED tables
  BY <1>1, <1>4, WrittenNothing
<1> QED
  BY <1>3, <1>4 DEF RemoveWrite


LEMMA ColumnOf ==
  ASSUME NEW type, NEW owner, NEW value \in DtoTexts, NEW old \in Texts \cup {None}
  PROVE  /\ Column(type, owner, value, old) \in Texts \cup {None}
         /\ type # owner => Column(type, owner, value, old) = old
BY DEF Column, DtoTexts

LEMMA CreateEntryWriteInv ==
  ASSUME IInv, NEW r \in Requests, CreateEntryWrite(r)
  PROVE  IInv'
<1> DEFINE q == reqs[r]
           kind == Column(q.type, "LITURGICAL", q.dto.serviceKind, None)
           location == Column(q.type, "PEDAGOGICAL", q.dto.location, None)
<1>1. End(r) /\ q.op = "createEntry"
  BY DEF CreateEntryWrite
<1>2. q.practice \in Practices /\ q.entry \in Entries /\ entries[q.entry].state = "unused"
      /\ (practices[q.practice].state = "live" => practices[q.practice].type = q.type)
  BY <1>1, Knowing, InputsAssumption DEF Caller, Changing, OnEntry, PracticeOps
<1>3. q.dto.serviceKind \in DtoTexts /\ q.dto.location \in DtoTexts
  BY Knowing DEF Request, Dto
<1>4. kind \in Texts \cup {None} /\ location \in Texts \cup {None}
      /\ (q.type = "LITURGICAL" => location = None) /\ (q.type = "PEDAGOGICAL" => kind = None)
  BY <1>3, ColumnOf
<1>5. CASE InsertEntry(q.entry, q.practice, kind, location)
  <2>1. practices[q.practice].type = q.type
    BY <1>2, <1>5 DEF InsertEntry, LivePractices
  <2>2. /\ TablesInv' /\ Evolve /\ practices' = practices
        /\ \A i \in Entries \ {q.entry} : entries[i].state = "unused" => entries'[i].state = "unused"
    <3> HIDE DEF kind, location, q
    <3> QED
      BY <1>2, <1>4, <1>5, <2>1, InvTables, InsertEntryOK
  <2>3. OnlyOwnIds(r)
    BY <1>1, <2>2 DEF OnlyOwnIds, MayInsert
  <2> QED
    BY <1>1, <2>2, <2>3, Written
<1>6. CASE UNCHANGED tables
  BY <1>1, <1>6, WrittenNothing
<1> QED
  BY <1>5, <1>6 DEF CreateEntryWrite

(* The row updateEntry writes.                                             *)
Edited(q) == [entries[q.entry] EXCEPT
                !.serviceKind = Column(q.type, "LITURGICAL", q.dto.serviceKind, @),
                !.location = Column(q.type, "PEDAGOGICAL", q.dto.location, @)]

LEMMA EditedOK ==
  ASSUME IInv, NEW r \in Requests, At(r, "write"), reqs[r].op = "updateEntry",
         reqs[r].entry \in LiveEntries
  PROVE  LET q == reqs[r]
             row == Edited(q) IN
         /\ q.entry \in Entries /\ q.practice \in LivePractices
         /\ entries[q.entry].practice = q.practice
         /\ practices[q.practice].type = q.type
         /\ row \in Entry /\ row.state = "live" /\ row.practice = entries[q.entry].practice
         /\ practices[row.practice].type = "LITURGICAL" => row.location = None
         /\ practices[row.practice].type = "PEDAGOGICAL" => row.serviceKind = None
<1> DEFINE q == reqs[r]
           old == entries[q.entry]
           kind == Column(q.type, "LITURGICAL", q.dto.serviceKind, old.serviceKind)
           location == Column(q.type, "PEDAGOGICAL", q.dto.location, old.location)
<1>1. q.entry \in Entries /\ old.state = "live" /\ old.practice = q.practice
      /\ q.practice \in LivePractices
      /\ (practices[q.practice].type = "LITURGICAL" => old.location = None)
      /\ (practices[q.practice].type = "PEDAGOGICAL" => old.serviceKind = None)
  BY Knowing DEF OnEntry, At, LiveEntries, IInv, EntriesFit
<1>2. practices[q.practice].type = q.type
  BY <1>1, Knowing DEF Changing, PracticeOps, LivePractices
<1>3. old \in [state: {"live"}, practice: Practices, serviceKind: Texts \cup {None},
               location: Texts \cup {None}, approvedBy: Users \cup {None}]
  BY <1>1 DEF IInv, TypeOK, TablesTypeOK, Entry, NoEntry
<1>4. q.dto.serviceKind \in DtoTexts /\ q.dto.location \in DtoTexts
  BY Knowing DEF Request, Dto
<1>5. kind \in Texts \cup {None} /\ location \in Texts \cup {None}
      /\ (q.type # "LITURGICAL" => kind = old.serviceKind)
      /\ (q.type # "PEDAGOGICAL" => location = old.location)
  BY <1>3, <1>4, ColumnOf
<1>6. Edited(q) = [old EXCEPT !.serviceKind = kind, !.location = location]
  BY DEF Edited
<1> HIDE DEF q, old, kind, location
<1>7. /\ Edited(q) \in Entry /\ Edited(q).state = "live" /\ Edited(q).practice = old.practice
      /\ Edited(q).serviceKind = kind /\ Edited(q).location = location
  BY <1>3, <1>5, <1>6 DEF Entry
<1>8. /\ practices[q.practice].type = "LITURGICAL" => location = None
      /\ practices[q.practice].type = "PEDAGOGICAL" => kind = None
  BY <1>1, <1>2, <1>5
<1>9. /\ practices[Edited(q).practice].type = "LITURGICAL" => Edited(q).location = None
      /\ practices[Edited(q).practice].type = "PEDAGOGICAL" => Edited(q).serviceKind = None
  BY <1>1, <1>7, <1>8
<1> QED
  BY <1>1, <1>2, <1>7, <1>9 DEF q, old

LEMMA UpdateEntryWriteInv ==
  ASSUME IInv, NEW r \in Requests, UpdateEntryWrite(r)
  PROVE  IInv'
<1> DEFINE q == reqs[r]
<1>1. End(r) /\ At(r, "write") /\ q.op = "updateEntry"
  BY DEF UpdateEntryWrite
<1>2. CASE UpdateEntry(q.entry, Edited(q))
  <2>1. q.entry \in LiveEntries
    BY <1>2 DEF UpdateEntry
  <2>2. TablesInv' /\ Evolve /\ NothingNew(practices, practices', entries, entries')
    BY <1>1, <1>2, <2>1, EditedOK, InvTables, UpdateEntryOK
  <2> QED
    BY <1>1, <2>2, NothingNewOnly, Written
<1>3. CASE UNCHANGED tables
  BY <1>1, <1>3, WrittenNothing
<1> QED
  BY <1>2, <1>3 DEF UpdateEntryWrite, Edited

LEMMA RemoveEntryWriteInv ==
  ASSUME IInv, NEW r \in Requests, RemoveEntryWrite(r)
  PROVE  IInv'
<1>1. End(r) /\ reqs[r].op = "removeEntry"
  BY DEF RemoveEntryWrite
<1>2. reqs[r].entry \in Entries
  BY <1>1, Knowing DEF OnEntry
<1>3. CASE DeleteEntry(reqs[r].entry)
  BY <1>1, <1>2, <1>3, InvTables, DeleteEntryOK, NothingNewOnly, Written
<1>4. CASE UNCHANGED tables
  BY <1>1, <1>4, WrittenNothing
<1> QED
  BY <1>3, <1>4 DEF RemoveEntryWrite

(* The row approveEntry writes.                                            *)
ApprovedRow(q) == [entries[q.entry] EXCEPT !.approvedBy = q.dto.approvedBy]

LEMMA ApproveWriteInv ==
  ASSUME IInv, NEW r \in Requests, ApproveWrite(r)
  PROVE  IInv'
<1> DEFINE q == reqs[r]
           row == ApprovedRow(q)
<1>1. End(r) /\ q.op = "approveEntry"
  BY DEF ApproveWrite
<1>2. q.entry \in Entries /\ q.dto.approvedBy \in Users
  BY <1>1, Knowing DEF OnEntry
<1>3. CASE UpdateEntry(q.entry, row)
  <2>1. /\ entries[q.entry].state = "live"
        /\ entries[q.entry] \in Entry
        /\ practices[entries[q.entry].practice].type = "LITURGICAL" => entries[q.entry].location = None
        /\ practices[entries[q.entry].practice].type = "PEDAGOGICAL" => entries[q.entry].serviceKind = None
    BY <1>2, <1>3 DEF UpdateEntry, LiveEntries, IInv, TypeOK, TablesTypeOK, EntriesFit
  <2>2. /\ row \in Entry /\ row.state = "live" /\ row.practice = entries[q.entry].practice
        /\ row.location = entries[q.entry].location /\ row.serviceKind = entries[q.entry].serviceKind
    BY <1>2, <2>1 DEF Entry, NoEntry, ApprovedRow
  <2>3. TablesInv' /\ Evolve /\ NothingNew(practices, practices', entries, entries')
    <3> HIDE DEF q, row
    <3> QED
      BY <1>2, <1>3, <2>1, <2>2, InvTables, UpdateEntryOK
  <2> QED
    BY <1>1, <2>3, NothingNewOnly, Written
<1>4. CASE UNCHANGED tables
  BY <1>1, <1>4, WrittenNothing
<1> QED
  BY <1>3, <1>4 DEF ApproveWrite, ApprovedRow


-----------------------------------------------------------------------------
(* The steps that read.                                                    *)
LEMMA EnterInv ==
  ASSUME IInv, NEW r \in Requests, Enter(r)
  PROVE  IInv'
<1>1. PICK m \in members :
        reqs' = [reqs EXCEPT ![r] = [Idle EXCEPT !.pc = "admitted", !.user = m[1], !.org = m[2]]]
  BY DEF Enter
<1> DEFINE next == [Idle EXCEPT !.pc = "admitted", !.user = m[1], !.org = m[2]]
<1>2. m[1] \in Users /\ m[2] \in Orgs
  BY TablesAssumption DEF IInv, TypeOK, TablesTypeOK
<1>3. next.pc = "admitted" /\ next.op = None /\ next.user = m[1] /\ next.org = m[2]
  BY DEF Idle
<1>4. next \in Request
  BY <1>2 DEF Request, Idle, NoDto, Dto, DtoTexts, PCs
<1> HIDE DEF next
<1>5. Knows(next, practices, entries) /\ NewId(r, next)
  BY <1>2, <1>3, InputsAssumption
     DEF Knows, Caller, Creating, Changing, OnEntry, PracticeOps, NewId
<1>6. UNCHANGED tables
  BY DEF Enter
<1>7. (reqs \in [Requests -> Request])' /\ RequestsKnow' /\ OwnIds'
  BY <1>1, <1>4, <1>5, <1>6, TablesStay, Moved DEF tables, next
<1> QED
  BY <1>6, <1>7
     DEF IInv, TypeOK, TablesTypeOK, OneJournal, EntriesFit, tables, LivePractices, LiveEntries

(* A request that the guard has let in.                                    *)
LEMMA Admitted ==
  ASSUME IInv, NEW r \in Requests, At(r, "admitted")
  PROVE  reqs[r] \in Request /\ reqs[r].user \in Users /\ reqs[r].org \in Orgs
BY Knowing DEF At, Caller

LEMMA CreateInv ==
  ASSUME IInv, NEW r \in Requests, Create(r)
  PROVE  IInv'
<1> DEFINE u == reqs[r].user
           o == reqs[r].org
<1>1. PICK s \in Students, t \in Types, p \in FreshPractices :
        Continue(r, [reqs[r] EXCEPT !.op = "create", !.student = s, !.type = t, !.practice = p],
                 IF u \in Staff THEN AfterFindJournal(s, t)
                 ELSE IF IsOwn(u, s, o) THEN "findJournal" ELSE "idle")
  BY DEF Create
<1> DEFINE q == [reqs[r] EXCEPT !.op = "create", !.student = s, !.type = t, !.practice = p]
           pc == IF u \in Staff THEN AfterFindJournal(s, t)
                 ELSE IF IsOwn(u, s, o) THEN "findJournal" ELSE "idle"
           next == [q EXCEPT !.pc = pc]
<1>2. reqs[r] \in Request /\ u \in Users /\ o \in Orgs
  BY Admitted DEF Create
<1>3. p \in Practices /\ practices[p].state = "unused" /\ \A v \in Requests : reqs[v].practice # p
  BY DEF FreshPractices
<1>4. /\ pc \in PCs /\ pc \in {"idle", "findJournal", "write"}
      /\ pc # "idle" => u \in Staff \/ IsOwn(u, s, o)
  BY DEF PCs, AfterFindJournal
<1>5. /\ next.pc = pc /\ next.op = "create" /\ next.user = u /\ next.org = o
      /\ next.student = s /\ next.type = t /\ next.practice = p
  BY <1>2 DEF Request
<1>6. next \in Request
  BY <1>2, <1>3, <1>4 DEF Request
<1>7. pc # "idle" => Knows(next, practices, entries) /\ NewId(r, next)
  <2> HIDE DEF next, pc
  <2> SUFFICES ASSUME pc # "idle" PROVE Knows(next, practices, entries) /\ NewId(r, next)
    OBVIOUS
  <2>1. Caller(next)
    BY <1>2, <1>3, <1>4, <1>5 DEF Caller
  <2>2. Creating(next, practices)
    BY <1>3, <1>4, <1>5 DEF Creating, Entitled, IsOwn
  <2>3. Changing(next, practices) /\ OnEntry(next, entries) /\ NewId(r, next)
    BY <1>3, <1>4, <1>5 DEF Changing, PracticeOps, OnEntry, NewId
  <2> QED
    BY <2>1, <2>2, <2>3 DEF Knows
<1>8. Continue(r, q, pc) /\ UNCHANGED tables
  BY <1>1 DEF Create
<1> QED
  <2> HIDE DEF q, pc
  <2> QED
    BY <1>4, <1>6, <1>7, <1>8, Continued

(* A request goes on as it is, to another query.                           *)
LEMMA GoesOn ==
  ASSUME IInv, NEW r \in Requests, UNCHANGED tables, NEW pc \in PCs, Continue(r, reqs[r], pc),
         At(r, "idle") => pc = "idle", pc # "admitted",
         pc = "findEntry" => reqs[r].op \in {"updateEntry", "removeEntry"},
         reqs[r].op = "create" /\ pc # "idle" => pc \in {"findJournal", "write"},
         reqs[r].op \in PracticeOps /\ pc # "idle" =>
           pc \in {"findEntry", "write"} /\ Entitled(reqs[r]),
         reqs[r].op \in {"updateEntry", "removeEntry"} /\ pc = "write" =>
           Found(reqs[r].entry, reqs[r].practice),
         reqs[r].op = "approveEntry" => pc \in {"idle", "write"}
  PROVE  IInv'
<1> DEFINE q == reqs[r]
           next == [q EXCEPT !.pc = pc]
<1>1. q \in Request /\ Caller(q) /\ Creating(q, practices) /\ Changing(q, practices)
      /\ OnEntry(q, entries)
  BY Knowing
<1>2. /\ next.pc = pc /\ next.op = q.op /\ next.user = q.user /\ next.org = q.org
      /\ next.student = q.student /\ next.type = q.type /\ next.practice = q.practice
      /\ next.entry = q.entry /\ next.dto = q.dto
      /\ next \in Request
  BY <1>1 DEF Request
<1>3. pc # "idle" => Knows(next, practices, entries)
  <2> HIDE DEF next
  <2> SUFFICES ASSUME pc # "idle" PROVE Knows(next, practices, entries)
    OBVIOUS
  <2>1. Caller(next)
    BY <1>1, <1>2 DEF Caller, At
  <2>2. Creating(next, practices) /\ Changing(next, practices)
    BY <1>1, <1>2 DEF Creating, Changing, Entitled
  <2>3. OnEntry(next, entries)
    BY <1>1, <1>2 DEF OnEntry, Found, LiveEntries
  <2> QED
    BY <2>1, <2>2, <2>3 DEF Knows
<1>4. NewId(r, next)
  BY <1>2 DEF NewId, MayCreate, MayInsert
<1> QED
  <2> HIDE DEF q
  <2>1. Continue(r, q, pc)
    BY DEF q
  <2> QED
    BY <1>2, <1>3, <1>4, <2>1, Continued

LEMMA FindJournalInv ==
  ASSUME IInv, NEW r \in Requests, FindJournal(r)
  PROVE  IInv'
<1> DEFINE q == reqs[r]
           pc == AfterFindJournal(q.student, q.type)
<1>1. q.pc = "findJournal" /\ pc \in {"idle", "write"} /\ pc \in PCs
  BY DEF FindJournal, At, AfterFindJournal, PCs
<1>2. q.op \notin PracticeOps /\ q.op # "approveEntry"
  BY <1>1, Knowing DEF Changing, OnEntry
<1>3. Continue(r, q, pc) /\ UNCHANGED tables
  BY DEF FindJournal
<1> QED
  BY <1>1, <1>2, <1>3, GoesOn DEF At, PracticeOps

LEMMA AfterAccessPC ==
  ASSUME NEW q
  PROVE  /\ AfterAccess(q) \in {"idle", "findEntry", "write"}
         /\ AfterAccess(q) = "findEntry" <=> q.op \in {"updateEntry", "removeEntry"}
BY DEF AfterAccess

LEMMA AssertPracticeOwnershipInv ==
  ASSUME IInv, NEW r \in Requests, AssertPracticeOwnership(r)
  PROVE  IInv'
<1> DEFINE q == reqs[r]
           pc == IF IsOwn(q.user, q.student, q.org) THEN AfterAccess(q) ELSE "idle"
<1>1. q.pc = "owner" /\ Continue(r, q, pc) /\ UNCHANGED tables
  BY DEF AssertPracticeOwnership, At
<1>2. /\ pc \in PCs /\ pc \in {"idle", "findEntry", "write"}
      /\ pc = "findEntry" => q.op \in {"updateEntry", "removeEntry"}
      /\ q.op \in {"updateEntry", "removeEntry"} => pc # "write"
  BY AfterAccessPC DEF PCs
<1>3. q.op # "create" /\ q.op # "approveEntry"
  BY <1>1, Knowing DEF Creating, OnEntry
<1>4. pc # "idle" => Entitled(q)
  BY DEF IsOwn, Entitled
<1> QED
  BY <1>1, <1>2, <1>3, <1>4, GoesOn DEF At

LEMMA FindEntryInv ==
  ASSUME IInv, NEW r \in Requests, FindEntry(r)
  PROVE  IInv'
<1> DEFINE q == reqs[r]
           pc == IF Found(q.entry, q.practice) /\ ~Misplaced(q) THEN "write" ELSE "idle"
<1>1. q.pc = "findEntry" /\ Continue(r, q, pc) /\ UNCHANGED tables
  BY DEF FindEntry, At
<1>2. pc \in PCs /\ pc \in {"idle", "write"} /\ (pc = "write" => Found(q.entry, q.practice))
  BY DEF PCs
<1>3. q.op \in {"updateEntry", "removeEntry"} /\ Entitled(q)
  BY <1>1, Knowing DEF OnEntry, Changing, PracticeOps
<1> QED
  BY <1>1, <1>2, <1>3, GoesOn DEF At


LEMMA DtosForType == ASSUME NEW op PROVE DtosFor(op) \subseteq Dto
<1>1. NoDto \in Dto
  BY DEF NoDto, Dto, DtoTexts
<1>2. \A s \in Statuses \cup {None} : [NoDto EXCEPT !.status = s] \in Dto
  BY DEF NoDto, Dto, DtoTexts
<1>3. [status: {None}, serviceKind: TextInputs, location: TextInputs, approvedBy: {None}]
        \subseteq Dto
  BY InputsAssumption DEF Dto
<1> QED
  BY <1>1, <1>2, <1>3, InputsAssumption DEF DtosFor

LEMMA FindPracticeInv ==
  ASSUME IInv, NEW r \in Requests, FindPractice(r)
  PROVE  IInv'
<1> DEFINE u == reqs[r].user
           o == reqs[r].org
<1>1. PICK op \in Ops \cap PracticeOps, p \in LivePractices :
        /\ practices[p].org = o
        /\ \E e \in EntriesFor(op), d \in DtosFor(op) :
             LET q == [pc |-> "owner", op |-> op, user |-> u, org |-> o,
                       student |-> practices[p].student, type |-> practices[p].type,
                       practice |-> p, entry |-> e, dto |-> d] IN
             Continue(r, q, IF q.user \in Staff THEN AfterAccess(q) ELSE "owner")
  BY DEF FindPractice
<1>2. PICK e \in EntriesFor(op), d \in DtosFor(op) :
        LET q == [pc |-> "owner", op |-> op, user |-> u, org |-> o,
                  student |-> practices[p].student, type |-> practices[p].type,
                  practice |-> p, entry |-> e, dto |-> d] IN
        Continue(r, q, IF q.user \in Staff THEN AfterAccess(q) ELSE "owner")
  BY <1>1
<1> DEFINE q == [pc |-> "owner", op |-> op, user |-> u, org |-> o,
                 student |-> practices[p].student, type |-> practices[p].type,
                 practice |-> p, entry |-> e, dto |-> d]
           pc == IF u \in Staff THEN AfterAccess(q) ELSE "owner"
           next == [q EXCEPT !.pc = pc]
<1>3. u \in Users /\ o \in Orgs
  BY Admitted DEF FindPractice
<1> HIDE DEF u, o
<1>4. p \in Practices /\ practices[p].state = "live"
      /\ practices[p].student \in Students /\ practices[p].type \in Types
  BY DEF LivePractices, IInv, TypeOK, TablesTypeOK, Practice, NoPractice
<1>5. /\ e \in Entries \cup {None} /\ d \in Dto
      /\ op \in {"updateEntry", "removeEntry"} => e \in Entries
      /\ op = "createEntry" => e \in FreshEntries
  BY DtosForType DEF EntriesFor, FreshEntries
<1>6. q.op = op
  OBVIOUS
<1>7. /\ pc \in PCs
      /\ pc = "findEntry" => op \in {"updateEntry", "removeEntry"}
      /\ op \in {"updateEntry", "removeEntry"} => pc # "write"
      /\ pc \in {"idle", "owner", "findEntry", "write"}
      /\ pc = "owner" \/ u \in Staff
  <2> HIDE DEF q
  <2> QED
    BY <1>6, AfterAccessPC DEF PCs
<1>8. /\ next.pc = pc /\ next.op = op /\ next.user = u /\ next.org = o
      /\ next.student = practices[p].student /\ next.type = practices[p].type
      /\ next.practice = p /\ next.entry = e /\ next.dto = d
      /\ next = [pc |-> pc, op |-> op, user |-> u, org |-> o,
                 student |-> practices[p].student, type |-> practices[p].type,
                 practice |-> p, entry |-> e, dto |-> d]
  <2> HIDE DEF pc
  <2> QED
    OBVIOUS
<1> HIDE DEF pc, next
<1>9. next \in Request
  BY <1>3, <1>4, <1>5, <1>7, <1>8 DEF Request
<1>10. pc # "idle" => Knows(next, practices, entries) /\ NewId(r, next)
  <2> SUFFICES ASSUME pc # "idle" PROVE Knows(next, practices, entries) /\ NewId(r, next)
    OBVIOUS
  <2>1. Caller(next)
    BY <1>1, <1>3, <1>4, <1>7, <1>8, InputsAssumption DEF Caller
  <2>2. Creating(next, practices)
    BY <1>8 DEF Creating, PracticeOps
  <2>3. Changing(next, practices)
    BY <1>1, <1>4, <1>7, <1>8 DEF Changing, Entitled
  <2>4. OnEntry(next, entries)
    BY <1>5, <1>7, <1>8 DEF OnEntry, FreshEntries, PracticeOps
  <2>5. NewId(r, next)
    BY <1>5, <1>8 DEF NewId, FreshEntries, PracticeOps
  <2> QED
    BY <2>1, <2>2, <2>3, <2>4, <2>5 DEF Knows
<1>11. UNCHANGED tables
  BY DEF FindPractice
<1>12. Continue(r, q, pc)
  <2>1. q.user = u
    OBVIOUS
  <2> QED
    BY <1>2, <2>1 DEF pc
<1> QED
  <2>1. pc # "idle" => /\ [q EXCEPT !.pc = pc] \in Request
                       /\ Knows([q EXCEPT !.pc = pc], practices, entries)
                       /\ NewId(r, [q EXCEPT !.pc = pc])
    BY <1>9, <1>10 DEF next
  <2> HIDE DEF q
  <2> QED
    BY <1>7, <1>11, <1>12, <2>1, Continued

LEMMA ApproveEntryInv ==
  ASSUME IInv, NEW r \in Requests, ApproveEntry(r)
  PROVE  IInv'
<1>1. PICK p \in Practices, e \in Entries, by \in Users :
        /\ Approvable(e, p)
        /\ Continue(r, [reqs[r] EXCEPT !.op = "approveEntry", !.practice = p, !.entry = e,
                                       !.dto.approvedBy = by], "write")
  BY DEF ApproveEntry
<1> DEFINE q == [reqs[r] EXCEPT !.op = "approveEntry", !.practice = p, !.entry = e,
                                !.dto.approvedBy = by]
           next == [q EXCEPT !.pc = "write"]
<1>2. reqs[r] \in Request /\ reqs[r].user \in Users /\ reqs[r].org \in Orgs
      /\ reqs[r].user \in Staff
  BY Admitted DEF ApproveEntry
<1>3. /\ next.pc = "write" /\ next.op = "approveEntry" /\ next.user = reqs[r].user
      /\ next.org = reqs[r].org /\ next.practice = p /\ next.entry = e
      /\ next.dto.approvedBy = by
  BY <1>2 DEF Request, Dto
<1>4. next \in Request
  BY <1>2 DEF Request, Dto, PCs
<1>5. entries[e].state = "live"
  BY <1>1 DEF Approvable, Found, LiveEntries
<1> HIDE DEF next
<1>6. Knows(next, practices, entries) /\ NewId(r, next)
  <2>1. Caller(next)
    BY <1>2, <1>3 DEF Caller
  <2>2. OnEntry(next, entries)
    BY <1>1, <1>2, <1>3, <1>5 DEF OnEntry
  <2>3. Creating(next, practices) /\ Changing(next, practices) /\ NewId(r, next)
    BY <1>3 DEF Creating, Changing, PracticeOps, NewId
  <2> QED
    BY <2>1, <2>2, <2>3 DEF Knows
<1>7. UNCHANGED tables
  BY DEF ApproveEntry
<1>8. [q EXCEPT !.pc = "write"] \in Request
      /\ Knows([q EXCEPT !.pc = "write"], practices, entries)
      /\ NewId(r, [q EXCEPT !.pc = "write"])
  BY <1>4, <1>6 DEF next
<1>9. Continue(r, q, "write") /\ "write" \in PCs
  BY <1>1 DEF PCs
<1> HIDE DEF q
<1> QED
  BY <1>7, <1>8, <1>9, Continued

-----------------------------------------------------------------------------
(* The deletes of other handlers: every request keeps what it knows.       *)
LEMMA DeletedInv ==
  ASSUME IInv, TablesInv', Evolve, NothingNew(practices, practices', entries, entries'),
         reqs' = reqs
  PROVE  IInv'
<1>1. ASSUME NEW r \in Requests PROVE Knows(reqs[r], practices', entries')
  <2>1. reqs[r] \in Request /\ Knows(reqs[r], practices, entries)
    BY DEF IInv, TypeOK, RequestsKnow
  <2>2. reqs[r].op = "create" => practices'[reqs[r].practice].state = "unused"
    BY <2>1, InputsAssumption DEF Knows, Caller, Creating, NothingNew
  <2>3. reqs[r].op = "createEntry" => entries'[reqs[r].entry].state = "unused"
    BY <2>1 DEF Knows, OnEntry, NothingNew
  <2> QED
    BY <2>1, <2>2, <2>3, KnowsStays DEF Evolve
<1> QED
  BY <1>1 DEF IInv, TypeOK, TablesInv, RequestsKnow, OwnIds

LEMMA ReadInv ==
  ASSUME IInv, NEW r \in Requests, Read(r)
  PROVE  IInv'
BY WrittenNothing DEF Read

LEMMA StepInv ==
  ASSUME IInv, NEW r \in Requests, Step(r)
  PROVE  IInv'
BY EnterInv, ReadInv, CreateInv, FindJournalInv, CreateWriteInv, FindPracticeInv, AssertPracticeOwnershipInv,
   FindEntryInv, UpdateWriteInv, RemoveWriteInv, CreateEntryWriteInv, UpdateEntryWriteInv,
   RemoveEntryWriteInv, ApproveEntryInv, ApproveWriteInv
   DEF Step

LEMMA InitInv == Init => IInv
<1> SUFFICES ASSUME Init PROVE IInv
  OBVIOUS
<1>1. \A r \in Requests : reqs[r] = Idle /\ Idle \in Request /\ Knows(Idle, practices, entries)
  BY IdleKnows DEF Init
<1>2. LivePractices = {} /\ LiveEntries = {}
  BY DEF Init, TablesInit, LivePractices, LiveEntries, NoPractice, NoEntry
<1>3. TypeOK
  BY <1>1 DEF Init, TablesInit, TypeOK, TablesTypeOK, Practice, Entry
<1>4. RequestsKnow
  BY <1>1 DEF RequestsKnow
<1>5. OwnIds
  BY <1>1, InputsAssumption DEF OwnIds, Idle, PracticeOps
<1>6. OneJournal /\ EntriesFit
  BY <1>2 DEF OneJournal, EntriesFit
<1> QED
  BY <1>3, <1>4, <1>5, <1>6 DEF IInv

LEMMA NextInv == IInv /\ [Next]_vars => IInv'
<1> SUFFICES ASSUME IInv, [Next]_vars PROVE IInv'
  OBVIOUS
<1>1. ASSUME NEW r \in Requests, Step(r) PROVE IInv'
  BY <1>1, StepInv
<1>2. CASE RemoveStudent
  <2>1. PICK s \in Students : DeleteStudent(s)
    BY <1>2 DEF RemoveStudent
  <2> QED
    BY <1>2, <2>1, InvTables, DeleteStudentOK, DeletedInv DEF RemoveStudent
<1>3. CASE RemoveOrganization
  <2>1. PICK o \in Orgs : DeleteOrganization(o)
    BY <1>3 DEF RemoveOrganization
  <2> QED
    BY <1>3, <2>1, InvTables, DeleteOrganizationOK, DeletedInv DEF RemoveOrganization
<1>4. CASE ChangeMembers
  BY <1>4, InvTables, MembersOK, DeletedInv DEF ChangeMembers
<1>5. CASE UNCHANGED vars
  BY <1>5 DEF vars, tables, IInv, TypeOK, TablesTypeOK, RequestsKnow, OwnIds, OneJournal,
              EntriesFit, LivePractices, LiveEntries
<1> QED
  BY <1>1, <1>2, <1>3, <1>4, <1>5 DEF Next

LEMMA Invariant == Spec => []IInv
BY InitInv, NextInv, PTL DEF Spec

-----------------------------------------------------------------------------
(* The rows and the local variables of the handlers of PracticesService    *)
(* keep their types.                                                       *)
THEOREM JournalTypes == Spec => []TypeOK
<1>1. IInv => TypeOK
  BY DEF IInv
<1> QED
  BY <1>1, Invariant, PTL

(* However creations interleave with each other and with deletes, a        *)
(* student never has two journals of one type.                             *)
THEOREM JournalsStayUnique == Spec => []OneJournal
<1>1. IInv => OneJournal
  BY DEF IInv
<1> QED
  BY <1>1, Invariant, PTL

(* Journals and entries never dangle, and an entry never gets the column   *)
(* of the other journal type, though its handler decided on a journal read *)
(* queries before.                                                         *)
THEOREM EntriesKeepFitting == Spec => []EntriesFit
<1>1. IInv => EntriesFit
  BY DEF IInv
<1> QED
  BY <1>1, Invariant, PTL

-----------------------------------------------------------------------------
(* The book.  Its statements are those of the tables.                      *)
LEMMA BookTables == Book!LivePractices = LivePractices /\ Book!LiveEntries = LiveEntries
BY DEF Book!LivePractices, LivePractices, Book!LiveEntries, LiveEntries

(* Who passed the access check may still change the journal, as long as    *)
(* its card is there.                                                      *)
LEMMA StillEntitled ==
  ASSUME NEW r \in Requests, ~At(r, "idle"), Entitled(reqs[r]), reqs[r].student \in students
  PROVE  Book!MayChange(r, reqs[r].student, reqs[r].org)
<1>1. Visit[r] = <<reqs[r].user, reqs[r].org>>
  BY DEF Visit
<1> QED
  BY <1>1 DEF Entitled, Book!MayChange, Book!Owns

LEMMA StillMayWrite ==
  ASSUME NEW r \in Requests, IInv, At(r, "write"), reqs[r].op \in PracticeOps,
         reqs[r].practice \in LivePractices
  PROVE  /\ Book!MayWrite(r, reqs[r].practice)
         /\ practices[reqs[r].practice].type = reqs[r].type
<1> DEFINE q == reqs[r]
<1>1. /\ practices[q.practice].student = q.student /\ practices[q.practice].org = q.org
      /\ practices[q.practice].type = q.type /\ Entitled(q)
  BY Knowing DEF Changing, At, LivePractices
<1>2. q.student \in students
  BY <1>1 DEF IInv, EntriesFit
<1> QED
  BY <1>1, <1>2, StillEntitled, BookTables DEF Book!MayWrite, At

LEMMA CreateInBook ==
  ASSUME NEW r \in Requests, IInv, CreateWrite(r)
  PROVE  UNCHANGED tables \/ Book!Change(r)
<1> DEFINE q == reqs[r]
<1>1. q.op = "create" /\ ~At(r, "idle")
  BY DEF CreateWrite, At
<1>2. /\ q.student \in Students /\ q.type \in Types /\ q.org \in Orgs /\ q.practice \in Practices
      /\ practices[q.practice].state = "unused" /\ Entitled(q)
  BY <1>1, Knowing, InputsAssumption DEF Caller, Creating, At
<1>3. ASSUME InsertPractice(q.practice, q.student, q.type, q.org) PROVE Book!Change(r)
  <2>1. q.student \in students /\ q.org \in orgs
    BY <1>3 DEF InsertPractice
  <2>2. Book!MayChange(r, q.student, q.org)
    BY <1>1, <1>2, <2>1, StillEntitled
  <2>3. Book!InsertPractice(q.practice, q.student, q.type, q.org)
    BY <1>3 DEF InsertPractice, Book!InsertPractice, JournalOf, Book!JournalOf,
                LivePractices, Book!LivePractices
  <2>4. Book!Open(r)
    BY <1>2, <2>2, <2>3 DEF Book!Open, Types, Book!Types
  <2> QED
    BY <2>4 DEF Book!Change
<1> QED
  BY <1>3 DEF CreateWrite

LEMMA UpdateInBook ==
  ASSUME NEW r \in Requests, IInv, UpdateWrite(r)
  PROVE  UNCHANGED tables \/ Book!Change(r)
<1> DEFINE q == reqs[r]
<1>1. At(r, "write") /\ q.op = "update" /\ q.dto.status \in Statuses \cup {None}
      /\ q.practice \in Practices
  BY Knowing, InputsAssumption DEF UpdateWrite, Request, Dto, Caller, PracticeOps
<1>2. ASSUME UpdateStatus(q.practice, q.dto.status) PROVE Book!Change(r)
  <2>1. Book!MayWrite(r, q.practice)
    BY <1>1, <1>2, StillMayWrite DEF UpdateStatus, PracticeOps
  <2>2. Book!UpdateStatus(q.practice, q.dto.status)
    BY <1>2, BookTables DEF UpdateStatus, Book!UpdateStatus
  <2>3. Book!SetStatus(r)
    BY <1>1, <2>1, <2>2 DEF Book!SetStatus, Statuses, Book!Statuses
  <2> QED
    BY <2>3 DEF Book!Change
<1> QED
  BY <1>2 DEF UpdateWrite

LEMMA RemoveInBook ==
  ASSUME NEW r \in Requests, IInv, RemoveWrite(r)
  PROVE  UNCHANGED tables \/ Book!Change(r)
<1> DEFINE q == reqs[r]
<1>1. At(r, "write") /\ q.op = "remove" /\ q.practice \in Practices
  BY Knowing, InputsAssumption DEF RemoveWrite, Caller, PracticeOps
<1>2. ASSUME DeletePractice(q.practice) PROVE Book!Change(r)
  <2>1. Book!MayWrite(r, q.practice)
    BY <1>1, <1>2, StillMayWrite DEF DeletePractice, PracticeOps
  <2>2. Book!DeletePractice(q.practice)
    BY <1>2, BookTables DEF DeletePractice, Book!DeletePractice, WithoutPractices,
       Book!WithoutPractices, NoPractice, Book!NoPractice, NoEntry, Book!NoEntry
  <2>3. Book!Discard(r)
    BY <1>1, <2>1, <2>2 DEF Book!Discard
  <2> QED
    BY <2>3 DEF Book!Change
<1> QED
  BY <1>2 DEF RemoveWrite

LEMMA CreateEntryInBook ==
  ASSUME NEW r \in Requests, IInv, CreateEntryWrite(r)
  PROVE  UNCHANGED tables \/ Book!Change(r)
<1> DEFINE q == reqs[r]
           kind == Column(q.type, "LITURGICAL", q.dto.serviceKind, None)
           location == Column(q.type, "PEDAGOGICAL", q.dto.location, None)
<1>1. /\ At(r, "write") /\ q.op = "createEntry" /\ q.practice \in Practices
      /\ q.entry \in Entries /\ entries[q.entry].state = "unused"
  BY Knowing, InputsAssumption DEF CreateEntryWrite, Caller, PracticeOps, OnEntry
<1>2. kind \in Texts \cup {None} /\ location \in Texts \cup {None}
      /\ (q.type = "LITURGICAL" => location = None) /\ (q.type = "PEDAGOGICAL" => kind = None)
  <2>1. q.dto.serviceKind \in DtoTexts /\ q.dto.location \in DtoTexts
    BY Knowing DEF Request, Dto
  <2> QED
    BY <2>1, ColumnOf
<1> HIDE DEF kind, location
<1>3. ASSUME InsertEntry(q.entry, q.practice, kind, location) PROVE Book!Change(r)
  <2>1. Book!MayWrite(r, q.practice) /\ practices[q.practice].type = q.type
    BY <1>1, <1>3, StillMayWrite DEF InsertEntry, PracticeOps
  <2>2. Book!InsertEntry(q.entry, q.practice, kind, location)
    BY <1>3, BookTables DEF InsertEntry, Book!InsertEntry
  <2>3. Book!FieldsFit(practices[q.practice].type, kind, location)
    BY <1>2, <2>1 DEF Book!FieldsFit
  <2>4. Book!Record(r)
    BY <1>1, <1>2, <2>1, <2>2, <2>3 DEF Book!Record, Texts, Book!Texts
  <2> QED
    BY <2>4 DEF Book!Change
<1> QED
  BY <1>3 DEF CreateEntryWrite, kind, location


LEMMA UpdateEntryInBook ==
  ASSUME NEW r \in Requests, IInv, UpdateEntryWrite(r)
  PROVE  UNCHANGED tables \/ Book!Change(r)
<1> DEFINE q == reqs[r]
           e == q.entry
           row == Edited(q)
<1>1. At(r, "write") /\ q.op = "updateEntry"
  BY DEF UpdateEntryWrite
<1>2. ASSUME UpdateEntry(e, row) PROVE Book!Change(r)
  <2>1. e \in LiveEntries
    BY <1>2 DEF UpdateEntry
  <2>2. /\ e \in Entries /\ q.practice \in LivePractices /\ entries[e].practice = q.practice
        /\ row \in Entry /\ row.state = "live" /\ row.practice = entries[e].practice
        /\ practices[row.practice].type = "LITURGICAL" => row.location = None
        /\ practices[row.practice].type = "PEDAGOGICAL" => row.serviceKind = None
    BY <1>1, <2>1, EditedOK
  <2>3. Book!MayWrite(r, entries[e].practice)
    BY <1>1, <2>2, StillMayWrite DEF PracticeOps
  <2>4. Book!FieldsFit(practices[entries[e].practice].type, row.serviceKind, row.location)
    BY <2>2 DEF Book!FieldsFit
  <2>5. row.serviceKind \in Texts \cup {None} /\ row.location \in Texts \cup {None}
    BY <2>2 DEF Entry, NoEntry
  <2>6. entries[e] \in [state: {"live"}, practice: Practices, serviceKind: Texts \cup {None},
                        location: Texts \cup {None}, approvedBy: Users \cup {None}]
    BY <2>1, <2>2 DEF LiveEntries, IInv, TypeOK, TablesTypeOK, Entry, NoEntry
  <2>7. row = [entries[e] EXCEPT !.serviceKind = row.serviceKind, !.location = row.location]
    BY <2>6 DEF Edited
  <2>8. Book!UpdateEntry(e, [entries[e] EXCEPT !.serviceKind = row.serviceKind,
                                               !.location = row.location])
    <3>1. Book!UpdateEntry(e, row)
      BY <1>2, BookTables DEF UpdateEntry, Book!UpdateEntry
    <3> HIDE DEF row
    <3> QED
      BY <2>7, <3>1
  <2>9. Book!Edit(r)
    <3> HIDE DEF e, row, q
    <3> QED
      BY <2>2, <2>3, <2>4, <2>5, <2>8 DEF Book!Edit, Texts, Book!Texts
  <2> QED
    BY <2>9 DEF Book!Change
<1> QED
  BY <1>2 DEF UpdateEntryWrite, Edited

LEMMA RemoveEntryInBook ==
  ASSUME NEW r \in Requests, IInv, RemoveEntryWrite(r)
  PROVE  UNCHANGED tables \/ Book!Change(r)
<1> DEFINE q == reqs[r]
<1>1. At(r, "write") /\ q.op = "removeEntry" /\ q.entry \in Entries
  BY Knowing DEF RemoveEntryWrite, OnEntry
<1>2. ASSUME DeleteEntry(q.entry) PROVE Book!Change(r)
  <2>1. entries[q.entry].practice = q.practice /\ q.practice \in LivePractices
    BY <1>1, <1>2, Knowing DEF DeleteEntry, LiveEntries, OnEntry, At, IInv, EntriesFit
  <2>2. Book!MayWrite(r, entries[q.entry].practice)
    BY <1>1, <2>1, StillMayWrite DEF PracticeOps
  <2>3. Book!DeleteEntry(q.entry)
    BY <1>2, BookTables DEF DeleteEntry, Book!DeleteEntry, NoEntry, Book!NoEntry
  <2>4. Book!Strike(r)
    BY <1>1, <2>2, <2>3 DEF Book!Strike
  <2> QED
    BY <2>4 DEF Book!Change
<1> QED
  BY <1>2 DEF RemoveEntryWrite

LEMMA ApproveInBook ==
  ASSUME NEW r \in Requests, IInv, ApproveWrite(r)
  PROVE  UNCHANGED tables \/ Book!Change(r)
<1> DEFINE q == reqs[r]
<1>1. q.entry \in Entries /\ q.user \in Staff /\ q.dto.approvedBy \in Users
  BY Knowing DEF ApproveWrite, OnEntry
<1>2. Visit[r][1] = q.user
  BY DEF ApproveWrite, At, Visit
<1>3. ASSUME UpdateEntry(q.entry, ApprovedRow(q)) PROVE Book!Change(r)
  <2>1. Book!UpdateEntry(q.entry, ApprovedRow(q))
    BY <1>3, BookTables DEF UpdateEntry, Book!UpdateEntry
  <2>2. Book!Approve(r)
    BY <1>1, <1>2, <2>1 DEF Book!Approve, ApprovedRow
  <2> QED
    BY <2>2 DEF Book!Change
<1> QED
  BY <1>3 DEF ApproveWrite, ApprovedRow

-----------------------------------------------------------------------------
(* Visits.                                                                 *)
Writes(r) == \/ CreateWrite(r) \/ UpdateWrite(r) \/ RemoveWrite(r) \/ CreateEntryWrite(r)
             \/ UpdateEntryWrite(r) \/ RemoveEntryWrite(r) \/ ApproveWrite(r)

LEMMA WriteInBook ==
  ASSUME NEW r \in Requests, IInv, Writes(r)
  PROVE  UNCHANGED tables \/ Book!Change(r)
BY CreateInBook, UpdateInBook, RemoveInBook, CreateEntryInBook, UpdateEntryInBook,
   RemoveEntryInBook, ApproveInBook
   DEF Writes

(* The request goes to q: how its visit goes on.                           *)
LEMMA VisitMoves ==
  ASSUME IInv, NEW r \in Requests, NEW q, reqs' = [reqs EXCEPT ![r] = q]
  PROVE  /\ Visit' = [Visit EXCEPT ![r] = IF q.pc = "idle" THEN None ELSE <<q.user, q.org>>]
         /\ \A s \in Requests : s # r => reqs'[s] = reqs[s]
         /\ reqs'[r] = q
<1>1. \A s \in Requests : reqs'[s] = IF s = r THEN q ELSE reqs[s]
  BY DEF IInv, TypeOK
<1>2. /\ Visit = [s \in Requests |-> IF reqs[s].pc = "idle" THEN None
                                  ELSE <<reqs[s].user, reqs[s].org>>]
      /\ Visit' = [s \in Requests |-> IF reqs'[s].pc = "idle" THEN None
                                   ELSE <<reqs'[s].user, reqs'[s].org>>]
  BY DEF Visit, At
<1>3. Visit' = [Visit EXCEPT ![r] = IF q.pc = "idle" THEN None ELSE <<q.user, q.org>>]
  BY <1>1, <1>2
<1> QED
  BY <1>1, <1>3

LEMMA Visiting ==
  ASSUME IInv, NEW r \in Requests, ~At(r, "idle")
  PROVE  Visit[r] = <<reqs[r].user, reqs[r].org>> /\ Visit[r] # None
<1>1. reqs[r].user \in Users /\ reqs[r].org \in Orgs
  BY Knowing DEF Caller, At
<1> QED
  BY <1>1, TablesAssumption DEF Visit

LEMMA EndLeaves ==
  ASSUME IInv, NEW r \in Requests, ~At(r, "idle"), End(r), UNCHANGED tables \/ Book!Change(r)
  PROVE  Book!Leave(r)
<1>1. Idle.pc = "idle"
  BY DEF Idle
<1>2. Visit' = [Visit EXCEPT ![r] = None]
  BY <1>1, VisitMoves DEF End
<1> QED
  BY <1>2, Visiting DEF Book!Leave, tables, Book!tables

(* A request that reads stays in its visit, or leaves.                     *)
LEMMA ContinueVisits ==
  ASSUME IInv, NEW r \in Requests, ~At(r, "idle"), UNCHANGED tables, NEW q, NEW pc,
         Continue(r, q, pc),
         [q EXCEPT !.pc = pc].pc = pc, [q EXCEPT !.pc = pc].user = reqs[r].user,
         [q EXCEPT !.pc = pc].org = reqs[r].org
  PROVE  Book!Leave(r) \/ UNCHANGED Book!book
<1>1. CASE pc = "idle"
  <2>1. End(r)
    BY <1>1 DEF Continue, End
  <2> QED
    BY <2>1, EndLeaves
<1>2. CASE pc # "idle"
  <2> DEFINE next == [q EXCEPT !.pc = pc]
  <2>1. reqs' = [reqs EXCEPT ![r] = next]
    BY <1>2 DEF Continue
  <2>2. next.pc # "idle" /\ next.user = reqs[r].user /\ next.org = reqs[r].org
    BY <1>2
  <2> HIDE DEF next
  <2>3. Visit' = [Visit EXCEPT ![r] = <<reqs[r].user, reqs[r].org>>]
    BY <2>1, <2>2, VisitMoves
  <2>4. Visit' = Visit
    BY <2>3, Visiting DEF Visit
  <2> QED
    BY <2>4 DEF Book!book, Book!tables, tables
<1> QED
  BY <1>1, <1>2

LEMMA ReadsVisit ==
  ASSUME IInv, NEW r \in Requests,
         \/ Create(r) \/ FindJournal(r) \/ FindPractice(r) \/ AssertPracticeOwnership(r)
         \/ FindEntry(r) \/ ApproveEntry(r)
  PROVE  Book!Leave(r) \/ UNCHANGED Book!book
<1>1. UNCHANGED tables /\ ~At(r, "idle") /\ reqs[r] \in Request
  BY Knowing DEF Create, FindJournal, FindPractice, AssertPracticeOwnership, FindEntry,
                 ApproveEntry, At
<1>2. ASSUME NEW pc, Continue(r, reqs[r], pc) PROVE Book!Leave(r) \/ UNCHANGED Book!book
  <2> DEFINE q == reqs[r]
  <2>1. [q EXCEPT !.pc = pc].pc = pc /\ [q EXCEPT !.pc = pc].user = q.user
        /\ [q EXCEPT !.pc = pc].org = q.org
    BY <1>1 DEF Request
  <2> QED
    BY <1>1, <1>2, <2>1, ContinueVisits
<1>3. CASE FindJournal(r) \/ AssertPracticeOwnership(r) \/ FindEntry(r)
  BY <1>2, <1>3 DEF FindJournal, AssertPracticeOwnership, FindEntry
<1>4. CASE Create(r)
  <2>1. PICK s, t, p, pc :
          Continue(r, [reqs[r] EXCEPT !.op = "create", !.student = s, !.type = t, !.practice = p], pc)
    BY <1>4 DEF Create
  <2> DEFINE q == [reqs[r] EXCEPT !.op = "create", !.student = s, !.type = t, !.practice = p]
  <2>2. [q EXCEPT !.pc = pc].pc = pc /\ [q EXCEPT !.pc = pc].user = reqs[r].user
        /\ [q EXCEPT !.pc = pc].org = reqs[r].org
    BY <1>1 DEF Request
  <2>3. Continue(r, q, pc)
    BY <2>1
  <2> HIDE DEF q
  <2> QED
    BY <1>1, <2>2, <2>3, ContinueVisits
<1>5. CASE FindPractice(r)
  <2>1. PICK op, p, e, d, pc :
          Continue(r, [pc |-> "owner", op |-> op, user |-> reqs[r].user, org |-> reqs[r].org,
                       student |-> practices[p].student, type |-> practices[p].type,
                       practice |-> p, entry |-> e, dto |-> d], pc)
    BY <1>5 DEF FindPractice
  <2> DEFINE q == [pc |-> "owner", op |-> op, user |-> reqs[r].user, org |-> reqs[r].org,
                   student |-> practices[p].student, type |-> practices[p].type,
                   practice |-> p, entry |-> e, dto |-> d]
  <2>2. [q EXCEPT !.pc = pc].pc = pc /\ [q EXCEPT !.pc = pc].user = reqs[r].user
        /\ [q EXCEPT !.pc = pc].org = reqs[r].org
    OBVIOUS
  <2>3. Continue(r, q, pc)
    BY <2>1
  <2> HIDE DEF q
  <2> QED
    BY <1>1, <2>2, <2>3, ContinueVisits
<1>6. CASE ApproveEntry(r)
  <2>1. PICK p, e, by :
          Continue(r, [reqs[r] EXCEPT !.op = "approveEntry", !.practice = p, !.entry = e,
                                      !.dto.approvedBy = by], "write")
    BY <1>6 DEF ApproveEntry
  <2> DEFINE q == [reqs[r] EXCEPT !.op = "approveEntry", !.practice = p, !.entry = e,
                                  !.dto.approvedBy = by]
  <2>2. [q EXCEPT !.pc = "write"].pc = "write" /\ [q EXCEPT !.pc = "write"].user = reqs[r].user
        /\ [q EXCEPT !.pc = "write"].org = reqs[r].org
    BY <1>1 DEF Request
  <2>3. Continue(r, q, "write")
    BY <2>1
  <2> HIDE DEF q
  <2> QED
    BY <1>1, <2>2, <2>3, ContinueVisits
<1> QED
  BY <1>3, <1>4, <1>5, <1>6

LEMMA StepInBook ==
  ASSUME IInv, NEW r \in Requests, Step(r)
  PROVE  [Book!Next]_(Book!book)
<1>1. CASE Enter(r)
  <2>1. PICK m \in members :
          reqs' = [reqs EXCEPT ![r] = [Idle EXCEPT !.pc = "admitted", !.user = m[1], !.org = m[2]]]
    BY <1>1 DEF Enter
  <2> DEFINE q == [Idle EXCEPT !.pc = "admitted", !.user = m[1], !.org = m[2]]
  <2>2. q.pc = "admitted" /\ q.user = m[1] /\ q.org = m[2]
    BY DEF Idle
  <2>3. m = <<m[1], m[2]>>
    BY TablesAssumption DEF IInv, TypeOK, TablesTypeOK
  <2>4. reqs' = [reqs EXCEPT ![r] = q]
    BY <2>1
  <2> HIDE DEF q
  <2>5. Visit' = [Visit EXCEPT ![r] = m]
    <3>1. Visit' = [Visit EXCEPT ![r] = IF q.pc = "idle" THEN None ELSE <<q.user, q.org>>]
      BY <2>4, VisitMoves
    <3>2. (IF q.pc = "idle" THEN None ELSE <<q.user, q.org>>) = m
      BY <2>2, <2>3
    <3> QED
      BY <3>1, <3>2
  <2>6. Visit[r] = None
    BY <1>1 DEF Enter, Visit
  <2>7. Book!Enter(r)
    BY <1>1, <2>5, <2>6 DEF Book!Enter, Enter, tables, Book!tables
  <2> QED
    BY <2>7 DEF Book!Next
<1>2. CASE Read(r)
  <2>1. Book!Leave(r)
    BY <1>2, EndLeaves DEF Read, At
  <2> QED
    BY <2>1 DEF Book!Next
<1>3. CASE Writes(r)
  <2>1. End(r) /\ ~At(r, "idle")
    BY <1>3 DEF Writes, CreateWrite, UpdateWrite, RemoveWrite, CreateEntryWrite,
                UpdateEntryWrite, RemoveEntryWrite, ApproveWrite, At
  <2>2. Book!Leave(r)
    BY <1>3, <2>1, WriteInBook, EndLeaves
  <2> QED
    BY <2>2 DEF Book!Next
<1> QED
  BY <1>1, <1>2, <1>3, ReadsVisit DEF Step, Writes, Book!Next

LEMMA DeletesInBook ==
  ASSUME RemoveStudent \/ RemoveOrganization \/ ChangeMembers
  PROVE  Book!Next
<1>1. Visit' = Visit
  BY DEF RemoveStudent, RemoveOrganization, ChangeMembers, Visit, At
<1>2. CASE RemoveStudent
  <2>1. PICK s \in Students : DeleteStudent(s)
    BY <1>2 DEF RemoveStudent
  <2>2. Book!DeleteStudent(s)
    BY <2>1, BookTables DEF DeleteStudent, Book!DeleteStudent, WithoutPractices,
       Book!WithoutPractices, NoPractice, Book!NoPractice, NoEntry, Book!NoEntry
  <2> QED
    BY <1>1, <2>2 DEF Book!Next, Book!Elsewhere
<1>3. CASE RemoveOrganization
  <2>1. PICK o \in Orgs : DeleteOrganization(o)
    BY <1>3 DEF RemoveOrganization
  <2>2. Book!DeleteOrganization(o)
    BY <2>1, BookTables DEF DeleteOrganization, Book!DeleteOrganization, WithoutPractices,
       Book!WithoutPractices, NoPractice, Book!NoPractice, NoEntry, Book!NoEntry
  <2> QED
    BY <1>1, <2>2 DEF Book!Next, Book!Elsewhere
<1>4. CASE ChangeMembers
  <2>1. PICK m \in Members : AddMember(m) \/ RemoveMember(m)
    BY <1>4 DEF ChangeMembers
  <2>2. Book!AddMember(m) \/ Book!RemoveMember(m)
    BY <2>1 DEF AddMember, RemoveMember, Book!AddMember, Book!RemoveMember
  <2> QED
    BY <1>1, <2>2 DEF Book!Next, Book!Elsewhere
<1> QED
  BY <1>2, <1>3, <1>4

(* The handlers implement the atomic book, with no assumption on how       *)
(* requests overlap: every step of theirs is a step of it, or changes      *)
(* neither a table nor a visit.                                            *)
THEOREM ImplementsBook == Spec => BookSpec
<1>1. Init => Book!Init
  BY DEF Book!Init, Init, TablesInit, Book!TablesInit, NoPractice, Book!NoPractice, NoEntry, Book!NoEntry,
         Visit, At, Idle
<1>2. IInv /\ [Next]_vars => [Book!Next]_(Book!book)
  <2> SUFFICES ASSUME IInv, [Next]_vars PROVE [Book!Next]_(Book!book)
    OBVIOUS
  <2>1. CASE UNCHANGED vars
    BY <2>1 DEF vars, tables, Book!book, Book!tables, Visit, At
  <2> QED
    BY <2>1, StepInBook, DeletesInBook DEF Next
<1> QED
  BY <1>1, <1>2, Invariant, PTL DEF Spec, BookSpec, Book!Spec

-----------------------------------------------------------------------------
(* Approvals.  Only ApproveWrite changes who approved an entry.            *)
KeepsApprovals ==
  \A e \in Entries : entries'[e].state = "live" =>
    \/ entries[e].state = "live" /\ entries'[e].approvedBy = entries[e].approvedBy
    \/ entries[e].state = "unused" /\ entries'[e].approvedBy = None

LEMMA WithoutKeeps ==
  ASSUME NEW gone, WithoutPractices(gone)
  PROVE  KeepsApprovals
BY DEF WithoutPractices, KeepsApprovals, NoEntry

LEMMA DeleteKeeps ==
  ASSUME IInv, RemoveStudent \/ RemoveOrganization \/ ChangeMembers
  PROVE  KeepsApprovals
<1>1. CASE RemoveStudent
  <2>1. PICK s \in Students : DeleteStudent(s)
    BY <1>1 DEF RemoveStudent
  <2> QED
    BY <2>1, WithoutKeeps DEF DeleteStudent
<1>2. CASE RemoveOrganization
  <2>1. PICK o \in Orgs : DeleteOrganization(o)
    BY <1>2 DEF RemoveOrganization
  <2> QED
    BY <2>1, WithoutKeeps DEF DeleteOrganization
<1>3. CASE ChangeMembers
  <2>1. entries' = entries
    BY <1>3 DEF ChangeMembers, AddMember, RemoveMember
  <2> QED
    BY <2>1 DEF KeepsApprovals
<1> QED
  BY <1>1, <1>2, <1>3

LEMMA StepKeeps ==
  ASSUME NEW r \in Requests, IInv, Step(r), ~ApproveWrite(r)
  PROVE  KeepsApprovals
<1>1. entries \in [Entries -> Entry] /\ (entries' = entries => KeepsApprovals)
  <2>1. \A e \in Entries : entries[e].state \in {"live", "gone", "unused"}
    BY DEF IInv, TypeOK, TablesTypeOK, Entry, NoEntry
  <2> QED
    BY <2>1 DEF IInv, TypeOK, TablesTypeOK, KeepsApprovals
<1>2. CASE Enter(r) \/ Read(r) \/ Create(r) \/ FindJournal(r) \/ FindPractice(r) \/ AssertPracticeOwnership(r)
             \/ FindEntry(r) \/ ApproveEntry(r)
  BY <1>1, <1>2 DEF Enter, Read, Create, FindJournal, FindPractice, AssertPracticeOwnership, FindEntry,
                    ApproveEntry, tables
<1>3. CASE CreateWrite(r) \/ UpdateWrite(r)
  BY <1>1, <1>3 DEF CreateWrite, UpdateWrite, InsertPractice, UpdateStatus, tables
<1>4. CASE RemoveWrite(r)
  BY <1>1, <1>4, WithoutKeeps DEF RemoveWrite, DeletePractice, tables
<1>5. CASE CreateEntryWrite(r)
  <2> DEFINE q == reqs[r]
             kind == Column(q.type, "LITURGICAL", q.dto.serviceKind, None)
             location == Column(q.type, "PEDAGOGICAL", q.dto.location, None)
  <2>1. entries[q.entry].state = "unused"
    BY <1>5, Knowing DEF CreateEntryWrite, OnEntry
  <2>2. InsertEntry(q.entry, q.practice, kind, location) \/ UNCHANGED tables
    BY <1>5 DEF CreateEntryWrite
  <2> HIDE DEF kind, location
  <2>3. CASE InsertEntry(q.entry, q.practice, kind, location)
    <3>1. entries' = [entries EXCEPT ![q.entry] =
                        [state |-> "live", practice |-> q.practice, serviceKind |-> kind,
                         location |-> location, approvedBy |-> None]]
      BY <2>3 DEF InsertEntry
    <3>2. \A e \in Entries : entries[e].state \in {"live", "gone", "unused"}
      BY DEF IInv, TypeOK, TablesTypeOK, Entry, NoEntry
    <3> QED
      BY <1>1, <2>1, <3>1, <3>2 DEF KeepsApprovals, IInv, TypeOK, TablesTypeOK
  <2> QED
    BY <1>1, <2>2, <2>3 DEF tables
<1>6. CASE UpdateEntryWrite(r)
  <2> DEFINE q == reqs[r]
  <2>1. CASE UpdateEntry(q.entry, Edited(q))
    <3>1. entries' = [entries EXCEPT ![q.entry] = Edited(q)] /\ q.entry \in Entries
          /\ entries[q.entry].state = "live"
      BY <2>1 DEF UpdateEntry, LiveEntries
    <3>2. entries[q.entry] \in [state: {"live"}, practice: Practices,
            serviceKind: Texts \cup {None}, location: Texts \cup {None},
            approvedBy: Users \cup {None}]
      BY <3>1 DEF IInv, TypeOK, TablesTypeOK, Entry, NoEntry
    <3>3. Edited(q).approvedBy = entries[q.entry].approvedBy
      BY <3>2 DEF Edited
    <3>4. \A e \in Entries : entries[e].state \in {"live", "gone", "unused"}
      BY DEF IInv, TypeOK, TablesTypeOK, Entry, NoEntry
    <3> QED
      BY <1>1, <3>1, <3>3, <3>4 DEF KeepsApprovals
  <2> QED
    BY <1>1, <1>6, <2>1 DEF UpdateEntryWrite, Edited, tables
<1>7. CASE RemoveEntryWrite(r)
  <2>1. CASE DeleteEntry(reqs[r].entry)
    <3>1. entries' = [entries EXCEPT ![reqs[r].entry] = NoEntry("gone")]
      BY <2>1 DEF DeleteEntry
    <3>2. \A e \in Entries : entries[e].state \in {"live", "gone", "unused"}
      BY DEF IInv, TypeOK, TablesTypeOK, Entry, NoEntry
    <3> QED
      BY <1>1, <3>1, <3>2 DEF KeepsApprovals, NoEntry
  <2> QED
    BY <1>1, <1>7, <2>1 DEF RemoveEntryWrite, tables
<1> QED
  BY <1>2, <1>3, <1>4, <1>5, <1>6, <1>7 DEF Step


(* Only ApproveEntry begins an approval, and only of an entry that is not  *)
(* approved.                                                               *)
LEMMA OneMoves ==
  ASSUME IInv, NEW r \in Requests, Step(r)
  PROVE  \E q : reqs' = [reqs EXCEPT ![r] = q]
<1>1. /\ End(r) => \E q : reqs' = [reqs EXCEPT ![r] = q]
      /\ \A q, pc : Continue(r, q, pc) => \E p : reqs' = [reqs EXCEPT ![r] = p]
  BY DEF End, Continue
<1>2. CASE Enter(r) \/ Read(r) \/ CreateWrite(r) \/ UpdateWrite(r) \/ RemoveWrite(r)
             \/ CreateEntryWrite(r) \/ UpdateEntryWrite(r) \/ RemoveEntryWrite(r) \/ ApproveWrite(r)
  BY <1>1, <1>2 DEF Enter, Read, CreateWrite, UpdateWrite, RemoveWrite, CreateEntryWrite,
                    UpdateEntryWrite, RemoveEntryWrite, ApproveWrite
<1>3. CASE Create(r)
  BY <1>1, <1>3 DEF Create
<1>4. CASE FindPractice(r)
  BY <1>1, <1>4 DEF FindPractice
<1>5. CASE ApproveEntry(r)
  BY <1>1, <1>5 DEF ApproveEntry
<1>6. CASE FindJournal(r) \/ AssertPracticeOwnership(r) \/ FindEntry(r)
  BY <1>1, <1>6 DEF FindJournal, AssertPracticeOwnership, FindEntry
<1> QED
  BY <1>2, <1>3, <1>4, <1>5, <1>6 DEF Step

LEMMA NewApprover ==
  ASSUME NEW r \in Requests, IInv, Step(r), reqs'[r].op = "approveEntry"
  PROVE  ApproveEntry(r)
<1>1. \A q : reqs' = [reqs EXCEPT ![r] = q] => reqs'[r] = q
  BY DEF IInv, TypeOK
<1>2. Idle.op # "approveEntry"
  BY InputsAssumption DEF Idle
<1>3. ~End(r)
  BY <1>1, <1>2 DEF End
<1>4. \A q, pc : Continue(r, q, pc) => reqs'[r] = [q EXCEPT !.pc = pc]
  BY <1>1, <1>3 DEF Continue, End
<1>5. ~Enter(r)
  <2> SUFFICES ASSUME Enter(r) PROVE FALSE
    OBVIOUS
  <2>1. PICK m :
          reqs' = [reqs EXCEPT ![r] = [Idle EXCEPT !.pc = "admitted", !.user = m[1], !.org = m[2]]]
    BY DEF Enter
  <2> DEFINE q == [Idle EXCEPT !.pc = "admitted", !.user = m[1], !.org = m[2]]
  <2>2. q.op = None
    BY DEF Idle
  <2> HIDE DEF q
  <2>3. reqs'[r] = q
    BY <2>1, <1>1 DEF q
  <2> QED
    BY <2>2, <2>3, InputsAssumption
<1>6. ~Create(r)
  <2> SUFFICES ASSUME Create(r) PROVE FALSE
    OBVIOUS
  <2>1. PICK s, t, p, pc :
          Continue(r, [reqs[r] EXCEPT !.op = "create", !.student = s, !.type = t, !.practice = p], pc)
    BY DEF Create
  <2> DEFINE q == [reqs[r] EXCEPT !.op = "create", !.student = s, !.type = t, !.practice = p]
  <2>2. [q EXCEPT !.pc = pc].op = "create"
    BY Knowing DEF Request
  <2> HIDE DEF q
  <2>3. reqs'[r] = [q EXCEPT !.pc = pc]
    BY <2>1, <1>4 DEF q
  <2> QED
    BY <2>2, <2>3
<1>7. ~FindPractice(r)
  <2> SUFFICES ASSUME FindPractice(r) PROVE FALSE
    OBVIOUS
  <2>1. PICK op, p, e, d, pc :
          op \in PracticeOps
          /\ Continue(r, [pc |-> "owner", op |-> op, user |-> reqs[r].user, org |-> reqs[r].org,
                          student |-> practices[p].student, type |-> practices[p].type,
                          practice |-> p, entry |-> e, dto |-> d], pc)
    BY DEF FindPractice
  <2> DEFINE q == [pc |-> "owner", op |-> op, user |-> reqs[r].user, org |-> reqs[r].org,
                   student |-> practices[p].student, type |-> practices[p].type,
                   practice |-> p, entry |-> e, dto |-> d]
  <2>2. [q EXCEPT !.pc = pc].op = op /\ op \in PracticeOps
    BY <2>1
  <2> HIDE DEF q
  <2>3. reqs'[r] = [q EXCEPT !.pc = pc]
    BY <2>1, <1>4 DEF q
  <2> QED
    BY <2>2, <2>3 DEF PracticeOps
<1>8. ASSUME NEW pc, Continue(r, reqs[r], pc), reqs[r].pc # "write" PROVE FALSE
  <2>1. reqs'[r] = [reqs[r] EXCEPT !.pc = pc]
    BY <1>4, <1>8
  <2>2. reqs[r].op = "approveEntry"
    BY <2>1, Knowing DEF Request
  <2> QED
    BY <2>2, <1>8, Knowing DEF OnEntry
<1>9. ~FindJournal(r) /\ ~AssertPracticeOwnership(r) /\ ~FindEntry(r)
  BY <1>8 DEF FindJournal, AssertPracticeOwnership, FindEntry, At
<1> QED
  BY <1>3, <1>5, <1>6, <1>7, <1>9
     DEF Step, Read, CreateWrite, UpdateWrite, RemoveWrite, CreateEntryWrite, UpdateEntryWrite,
         RemoveEntryWrite, ApproveWrite

LEMMA NotApproving ==
  ASSUME IInv, NEW r \in Requests, Step(r), NEW e \in LiveEntries, Settled(e)
  PROVE  ~Approving(e)'
<1> SUFFICES ASSUME NEW s \in Requests, reqs'[s].op = "approveEntry", reqs'[s].entry = e
             PROVE  FALSE
  BY DEF Approving
<1>1. CASE s # r
  <2>1. reqs'[s] = reqs[s]
    BY <1>1, OneMoves, VisitMoves
  <2> QED
    BY <2>1 DEF Settled, Approving
<1>2. CASE s = r
  <2>1. ApproveEntry(r)
    BY <1>2, NewApprover
  <2>2. PICK p, i, by :
          /\ Approvable(i, p)
          /\ Continue(r, [reqs[r] EXCEPT !.op = "approveEntry", !.practice = p, !.entry = i,
                                         !.dto.approvedBy = by], "write")
    BY <2>1 DEF ApproveEntry
  <2> DEFINE q == [reqs[r] EXCEPT !.op = "approveEntry", !.practice = p, !.entry = i,
                                  !.dto.approvedBy = by]
  <2>3. [q EXCEPT !.pc = "write"].entry = i
    BY Knowing DEF Request
  <2>4. reqs' = [reqs EXCEPT ![r] = [q EXCEPT !.pc = "write"]]
    BY <2>2 DEF Continue
  <2> HIDE DEF q
  <2>5. i = e
    BY <1>2, <2>3, <2>4, VisitMoves
  <2> QED
    BY <2>2, <2>5 DEF Settled, Approvable
<1> QED
  BY <1>1, <1>2

(* An approval that no overlapping approval can replace is final, with no  *)
(* assumption on how requests overlap.                                     *)
THEOREM ApprovalsSettle == Spec => ApprovalSettles
<1>1. IInv /\ [Next]_vars => [SettledStays]_vars
  <2> SUFFICES ASSUME IInv, Next, NEW e \in LiveEntries, Settled(e), entries'[e].state = "live"
               PROVE  Settled(e)' /\ entries'[e].approvedBy = entries[e].approvedBy
    BY DEF SettledStays
  <2>1. KeepsApprovals => entries'[e].approvedBy = entries[e].approvedBy
    BY DEF KeepsApprovals, LiveEntries
  <2>2. ASSUME NEW r \in Requests, Step(r)
        PROVE  ~Approving(e)' /\ entries'[e].approvedBy = entries[e].approvedBy
    <3>1. ~Approving(e)'
      BY <2>2, NotApproving
    <3>2. CASE ApproveWrite(r)
      <4>1. reqs[r].entry # e
        BY <3>2 DEF ApproveWrite, Settled, Approving
      <4> QED
        BY <3>1, <3>2, <4>1 DEF ApproveWrite, UpdateEntry, tables, IInv, TypeOK, TablesTypeOK,
                                LiveEntries
    <3> QED
      BY <2>1, <2>2, <3>1, <3>2, StepKeeps
  <2>3. ASSUME RemoveStudent \/ RemoveOrganization \/ ChangeMembers
        PROVE  ~Approving(e)' /\ entries'[e].approvedBy = entries[e].approvedBy
    <3>1. reqs' = reqs
      BY <2>3 DEF RemoveStudent, RemoveOrganization, ChangeMembers
    <3>2. ~Approving(e)'
      BY <3>1 DEF Settled, Approving
    <3> QED
      BY <2>1, <2>3, <3>2, DeleteKeeps
  <2>4. ~Approving(e)' /\ entries'[e].approvedBy = entries[e].approvedBy
    BY <2>2, <2>3 DEF Next, Settled
  <2> QED
    BY <2>4 DEF Settled
<1> QED
  BY <1>1, Invariant, PTL DEF Spec, ApprovalSettles
=================================================================================
