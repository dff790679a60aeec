------------------------------ MODULE PracticeBook ------------------------------
(***************************************************************************)
(* What PracticesService does with the journals, as if each request were   *)
(* one step.  A user enters as a member of an organization and leaves with *)
(* at most one change made, in that organization, to what he may change at *)
(* the moment of the change; a membership that ends later does not end the *)
(* visit.  The book says what the code promises, not the documentation:    *)
(* the owner of a journal may set any status, also APPROVED, which         *)
(* PracticeDoc.md:206-208 keeps for staff, an approval is not confined to  *)
(* the organization visited, and it may replace another.                   *)
(***************************************************************************)
EXTENDS PracticeTables

CONSTANT Visits

VARIABLE visit   \* visit[v]: the user and the organization, or None

book == <<tables, visit>>

(* A student acts on the journals of the card that is his in the           *)
(* organization he visits; staff acts on all of them.                      *)
Owns(u, s, o) == s \in students /\ UserOf[s] = u /\ OrgOf[s] = o

MayChange(v, s, o) ==
  visit[v][2] = o /\ (visit[v][1] \in Staff \/ Owns(visit[v][1], s, o))

MayWrite(v, p) ==
  p \in LivePractices /\ MayChange(v, practices[p].student, practices[p].org)

(* Which text columns an entry of a journal of type t may have.            *)
FieldsFit(t, kind, location) ==
  /\ t = "LITURGICAL" => location = None
  /\ t = "PEDAGOGICAL" => kind = None

Open(v) ==
  \E p \in Practices, s \in Students, t \in Types, o \in Orgs :
    /\ practices[p].state = "unused"
    /\ MayChange(v, s, o)
    /\ InsertPractice(p, s, t, o)

SetStatus(v) ==
  \E p \in Practices, status \in Statuses \cup {None} :
    MayWrite(v, p) /\ UpdateStatus(p, status)

Discard(v) == \E p \in Practices : MayWrite(v, p) /\ DeletePractice(p)

Record(v) ==
  \E e \in Entries, p \in Practices, kind \in Texts \cup {None}, location \in Texts \cup {None} :
    /\ entries[e].state = "unused"
    /\ MayWrite(v, p)
    /\ FieldsFit(practices[p].type, kind, location)
    /\ InsertEntry(e, p, kind, location)

(* An edit leaves the journal and the approval of the entry alone.         *)
Edit(v) ==
  \E e \in Entries, kind \in Texts \cup {None}, location \in Texts \cup {None} :
    /\ MayWrite(v, entries[e].practice)
    /\ FieldsFit(practices[entries[e].practice].type, kind, location)
    /\ UpdateEntry(e, [entries[e] EXCEPT !.serviceKind = kind, !.location = location])

Approve(v) ==
  /\ visit[v][1] \in Staff
  /\ \E e \in Entries, by \in Users :
       UpdateEntry(e, [entries[e] EXCEPT !.approvedBy = by])

Strike(v) == \E e \in Entries : MayWrite(v, entries[e].practice) /\ DeleteEntry(e)

Change(v) == \/ Open(v) \/ SetStatus(v) \/ Discard(v) \/ Record(v)
             \/ Edit(v) \/ Approve(v) \/ Strike(v)

Enter(v) ==
  /\ visit[v] = None
  /\ \E m \in members : visit' = [visit EXCEPT ![v] = m]
  /\ UNCHANGED tables

Leave(v) ==
  /\ visit[v] # None
  /\ visit' = [visit EXCEPT ![v] = None]
  /\ UNCHANGED tables \/ Change(v)

Elsewhere ==
  /\ \/ \E s \in Students : DeleteStudent(s)
     \/ \E o \in Orgs : DeleteOrganization(o)
     \/ \E m \in Members : AddMember(m) \/ RemoveMember(m)
  /\ UNCHANGED visit

Next == (\E v \in Visits : Enter(v) \/ Leave(v)) \/ Elsewhere

Init == TablesInit /\ visit = [v \in Visits |-> None]

Spec == Init /\ [][Next]_book
=================================================================================
