----------------------------- MODULE PracticeTables -----------------------------
(***************************************************************************)
(* The tables students, practices and practice_entries, and org_members:   *)
(* their rows and the single statements PracticesService and others send,  *)
(* each with the constraints the schema puts on it.  Row ids are uuids: an *)
(* id is never given twice.                                                *)
(***************************************************************************)
CONSTANTS
  Users,      \* values of User.mongoId
  Staff,      \* users whose token says admin or teacher; the others say student
  Orgs,
  Members,    \* the memberships there may be, as pairs <<user, organization>>
  Students,   \* ids of student cards
  UserOf,     \* the user of a card
  OrgOf,      \* the organization of a card
  Practices, Entries, \* ids of journals and of entries
  None        \* null

Types    == {"LITURGICAL", "PEDAGOGICAL"}
Statuses == {"DRAFT", "SUBMITTED", "APPROVED"}
Texts    == {"text", "empty"}   \* a string column: not empty, or ""

ASSUME TablesAssumption ==
  /\ Staff \subseteq Users
  /\ Members \subseteq Users \X Orgs
  /\ UserOf \in [Students -> Users]
  /\ OrgOf \in [Students -> Orgs]
  /\ None \notin Users \cup Orgs \cup Students \cup Practices \cup Entries
  /\ None \notin Users \X Orgs
  /\ None \notin Types \cup Statuses \cup Texts

VARIABLES
  orgs,       \* the organizations that exist
  members,    \* the memberships there are
  students,   \* the cards that exist
  practices,  \* table practices by id
  entries     \* table practice_entries by id

tables == <<orgs, members, students, practices, entries>>

\* A row with all its columns, or the place of a row that is not there.
NoPractice(state) == [state |-> state, student |-> None, type |-> None,
                      org |-> None, status |-> None]
Practice == [state: {"live"}, student: Students, type: Types, org: Orgs, status: Statuses]
              \cup {NoPractice("unused"), NoPractice("gone")}

NoEntry(state) == [state |-> state, practice |-> None, serviceKind |-> None,
                   location |-> None, approvedBy |-> None]
Entry == [state: {"live"}, practice: Practices, serviceKind: Texts \cup {None},
          location: Texts \cup {None}, approvedBy: Users \cup {None}]
              \cup {NoEntry("unused"), NoEntry("gone")}

TablesTypeOK ==
  /\ orgs \subseteq Orgs /\ members \subseteq Members
  /\ students \subseteq Students
  /\ practices \in [Practices -> Practice]
  /\ entries \in [Entries -> Entry]

TablesInit ==
  /\ orgs = Orgs /\ members = Members
  /\ students = Students
  /\ practices = [p \in Practices |-> NoPractice("unused")]
  /\ entries = [e \in Entries |-> NoEntry("unused")]

LivePractices == {p \in Practices : practices[p].state = "live"}
LiveEntries   == {e \in Entries : entries[e].state = "live"}

JournalOf(s, t) == {p \in LivePractices : practices[p].student = s /\ practices[p].type = t}

(***************************************************************************)
(* Statements.                                                             *)
(***************************************************************************)
(* Mutant: no unique constraint on student and type.                       *)
InsertPracticeTwice(p, s, t, o) ==
  /\ s \in students /\ o \in orgs
  /\ practices' = [practices EXCEPT ![p] = [state |-> "live", student |-> s, type |-> t,
                                            org |-> o, status |-> "DRAFT"]]
  /\ UNCHANGED <<orgs, members, students, entries>>

InsertPractice(p, s, t, o) ==
  /\ s \in students /\ o \in orgs
  /\ JournalOf(s, t) = {}
  /\ practices' = [practices EXCEPT ![p] = [state |-> "live", student |-> s, type |-> t,
                                            org |-> o, status |-> "DRAFT"]]
  /\ UNCHANGED <<orgs, members, students, entries>>

(* Mutant: a status the client left out is stored.                         *)
UpdateStatusAlways(p, status) ==
  /\ p \in LivePractices
  /\ practices' = [practices EXCEPT ![p].status = status]
  /\ UNCHANGED <<orgs, members, students, entries>>

UpdateStatus(p, status) ==
  /\ p \in LivePractices
  /\ practices' = [practices EXCEPT ![p].status = IF status = None THEN @ ELSE status]
  /\ UNCHANGED <<orgs, members, students, entries>>

(* Deletes cascade from students to practices to practice_entries.         *)
WithoutPractices(gone) ==
  /\ practices' = [p \in Practices |-> IF p \in gone THEN NoPractice("gone") ELSE practices[p]]
  /\ entries' = [e \in Entries |-> IF entries[e].state = "live" /\ entries[e].practice \in gone
                                   THEN NoEntry("gone") ELSE entries[e]]

DeletePractice(p) ==
  /\ p \in LivePractices
  /\ WithoutPractices({p})
  /\ UNCHANGED <<orgs, members, students>>

InsertEntry(e, p, kind, location) ==
  /\ p \in LivePractices
  /\ entries' = [entries EXCEPT ![e] = [state |-> "live", practice |-> p, serviceKind |-> kind,
                                        location |-> location, approvedBy |-> None]]
  /\ UNCHANGED <<orgs, members, students, practices>>

(* row is the row to put in place of entry e.                              *)
UpdateEntry(e, row) ==
  /\ e \in LiveEntries
  /\ entries' = [entries EXCEPT ![e] = row]
  /\ UNCHANGED <<orgs, members, students, practices>>

DeleteEntry(e) ==
  /\ e \in LiveEntries
  /\ entries' = [entries EXCEPT ![e] = NoEntry("gone")]
  /\ UNCHANGED <<orgs, members, students, practices>>

(* Removing a card, or its user, removes its journals.                     *)
DeleteStudent(s) ==
  /\ s \in students
  /\ students' = students \ {s}
  /\ WithoutPractices({p \in LivePractices : practices[p].student = s})
  /\ UNCHANGED <<orgs, members>>

(* An organization takes its memberships, its cards, its journals and the  *)
(* journals of its cards with it.                                          *)
DeleteOrganization(o) ==
  /\ o \in orgs
  /\ orgs' = orgs \ {o}
  /\ members' = {m \in members : m[2] # o}
  /\ students' = {s \in students : OrgOf[s] # o}
  /\ WithoutPractices({p \in LivePractices :
                        practices[p].org = o \/ OrgOf[practices[p].student] = o})

AddMember(m) ==
  /\ m \in Members \ members /\ m[2] \in orgs
  /\ members' = members \cup {m}
  /\ UNCHANGED <<orgs, students, practices, entries>>

RemoveMember(m) ==
  /\ m \in members
  /\ members' = members \ {m}
  /\ UNCHANGED <<orgs, students, practices, entries>>
=================================================================================
