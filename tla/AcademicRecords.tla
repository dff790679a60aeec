---------------------------- MODULE AcademicRecords ----------------------------
(***************************************************************************)
(* Years, levels, session runs, subjects, enrollments, grade entries and   *)
(* gradebooks of the organizations, one action per awaited query of their  *)
(* services.  A request keeps what its handler was asked and which of the  *)
(* ids in the body it has still to look up; other requests run in between. *)
(***************************************************************************)
EXTENDS Sequences

CONSTANTS
  Orgs,      \* organizations
  Ids,       \* uuids of rows
  KindOf,    \* which table an id belongs to
  SeedRows,  \* the rows there are at the start, by id
  Requests,  \* slots for requests in flight at the same time
  Ops,       \* the handlers an instance exercises: table and operation
  None       \* undefined

(* A foreign key column has the name of the table it references.           *)
ColumnsOf == [academicYear |-> {}, level |-> {}, student |-> {},
              sessionRun |-> {"level", "academicYear"}, subject |-> {"level", "sessionRun"},
              enrollment |-> {"student", "sessionRun"}, gradeEntry |-> {"enrollment", "subject"},
              gradebook |-> {"enrollment"}]
Kinds   == DOMAIN ColumnsOf
Columns == UNION {ColumnsOf[k] : k \in Kinds}

(* Columns with onDelete: Cascade; rows are kept from deletion by others.  *)
Cascading == {"student", "enrollment"}

(* Tables with an organization column; the others belong to the            *)
(* organization of the row they name in one of their columns.              *)
OwnOrg == {"academicYear", "level", "student", "sessionRun"}
Via == [subject |-> "sessionRun", enrollment |-> "student", gradeEntry |-> "enrollment",
        gradebook |-> "enrollment"]

(* The ids create looks up in the organization before it inserts, in order.*)
CheckedColumns == [k \in Kinds |-> CASE k = "subject"    -> <<"sessionRun">>
                                     [] k = "enrollment" -> <<"student", "sessionRun">>
                                     [] k = "gradeEntry" -> <<"enrollment", "subject">>
                                     [] k = "gradebook"  -> <<"enrollment">>
                                     [] OTHER            -> <<>>]

(* Tables whose service keeps request.currentOrgId in its constructor.     *)
Captures == {"academicYear", "enrollment", "gradeEntry", "gradebook"}

OpNames == {"create", "update", "approve", "remove"}
IdsOf(k) == {i \in Ids : KindOf[i] = k}
RefsOver(C) == {f \in [C -> Ids] : \A c \in C : KindOf[f[c]] = c}
SomeRefs == UNION {RefsOver(C) : C \in SUBSET Columns}
NoRefs   == [c \in {} |-> None]

Row == [state : {"live"}, org : Orgs \cup {None}, refs : SomeRefs]
Blank(state) == [state |-> state, org |-> None, refs |-> NoRefs]

VARIABLES
  rows,  \* all tables in one: row or blank, by id
  reqs   \* the local variables of the requests

vars == <<rows, reqs>>

Live(t, i) == t[i].state = "live"

(* The organization of a row: by its own column, or along Via.             *)
Up(t, i) == IF KindOf[i] \in OwnOrg THEN i ELSE t[i].refs[Via[KindOf[i]]]
OwnerOf(t, i) == t[Up(t, Up(t, i))].org

Holds(t) == \A i \in Ids : Live(t, i) => \A c \in DOMAIN t[i].refs : Live(t, t[i].refs[c])

RowsAtStart == [i \in Ids |-> IF i \in DOMAIN SeedRows THEN SeedRows[i] ELSE Blank("fresh")]

ASSUME RecordsAssumption ==
  /\ KindOf \in [Ids -> Kinds]
  /\ None \notin Orgs \cup Ids
  /\ Ops \subseteq (Kinds \X OpNames)
  /\ \A op \in Ops : /\ op[2] = "approve" => op[1] = "enrollment"
                     /\ op[1] = "student" => op[2] = "remove"

ASSUME SeedAssumption ==
  /\ DOMAIN SeedRows \subseteq Ids
  /\ \A i \in DOMAIN SeedRows :
       /\ SeedRows[i] \in Row
       /\ DOMAIN SeedRows[i].refs = ColumnsOf[KindOf[i]]
       /\ KindOf[i] \in OwnOrg <=> SeedRows[i].org # None
  /\ Holds(RowsAtStart)

Request == [step : {"idle", "check", "find", "write"}, op : OpNames \cup {None},
            kind : Kinds \cup {None}, org : Orgs \cup {None}, id : Ids \cup {None},
            refs : SomeRefs, owner : Orgs \cup {None}, todo : Seq(Columns)]
Idle == [step |-> "idle", op |-> None, kind |-> None, org |-> None, id |-> None,
         refs |-> NoRefs, owner |-> None, todo |-> <<>>]

Init == /\ rows = RowsAtStart
        /\ reqs = [q \in Requests |-> Idle]

End(q) == reqs' = [reqs EXCEPT ![q] = Idle]

(* What organizationId is in the where clauses of the service.  The guard  *)
(* sets currentOrgId after Nest has built the request-scoped services, so  *)
(* those that keep it in the constructor keep undefined; the others are    *)
(* given it by their controller when the handler runs.                     *)
Seen(r) == IF r.kind \in Captures THEN None ELSE r.org

(* A condition on undefined is no condition for Prisma.                    *)
InTenant(i, seen) == Live(rows, i) /\ (seen = None \/ OwnerOf(rows, i) = seen)

(***************************************************************************)
(* Arrival of a request behind the tenancy guard: what the body names, the *)
(* client chooses.                                                         *)
(***************************************************************************)
FirstStep(op, todo) == IF op # "create" THEN "find" ELSE IF todo = <<>> THEN "write" ELSE "check"

BodyRefs(k, op) == CASE op = "create" -> RefsOver(ColumnsOf[k])
                     [] op = "update" -> UNION {RefsOver(C) : C \in SUBSET ColumnsOf[k]}
                     [] OTHER         -> {NoRefs}

(* organizationId in the body of an update: nothing strips it, and the     *)
(* body goes to Prisma whole.  create puts its own in its place.           *)
BodyOwners(k, op) == IF op = "update" /\ k \in OwnOrg THEN Orgs \cup {None} ELSE {None}

Arriving(op, o, id, refs, owner) ==
  LET todo == IF op[2] = "create" THEN CheckedColumns[op[1]] ELSE <<>>
  IN  [step |-> FirstStep(op[2], todo), op |-> op[2], kind |-> op[1], org |-> o,
       id |-> id, refs |-> refs, owner |-> owner, todo |-> todo]

Arrive(q) ==
  /\ reqs[q].step = "idle"
  /\ \E op \in Ops, o \in Orgs :
       \E id \in (IF op[2] = "create" THEN {None} ELSE IdsOf(op[1])),
          refs \in BodyRefs(op[1], op[2]), owner \in BodyOwners(op[1], op[2]) :
            /\ \A i \in {id} \cup {refs[c] : c \in DOMAIN refs} :
                 i # None => rows[i].state # "fresh"
            /\ reqs' = [reqs EXCEPT ![q] = Arriving(op, o, id, refs, owner)]
  /\ UNCHANGED rows

(* create: findUnique of one id of the body in the organization.           *)
Check(q) ==
  LET r == reqs[q] IN
  /\ r.step = "check"
  /\ IF InTenant(r.refs[Head(r.todo)], Seen(r))
     THEN reqs' = [reqs EXCEPT ![q].todo = Tail(r.todo),
                               ![q].step = FirstStep("create", Tail(r.todo))]
     ELSE End(q)
  /\ UNCHANGED rows

(* update, approve, remove: findOne in the organization.                   *)
Find(q) ==
  LET r == reqs[q] IN
  /\ r.step = "find"
  /\ IF InTenant(r.id, Seen(r)) THEN reqs' = [reqs EXCEPT ![q].step = "write"] ELSE End(q)
  /\ UNCHANGED rows

(***************************************************************************)
(* The write: one statement, refused when it breaks a foreign key, lacks   *)
(* the organization or finds no row.                                       *)
(***************************************************************************)
KeysLive(r) == \A c \in DOMAIN r.refs : Live(rows, r.refs[c])

(* Mutant: the table takes a row without its organization.                 *)
CanInsertUnowned(r) == r.op = "create" /\ KeysLive(r)

CanInsert(r) == r.op = "create" /\ KeysLive(r) /\ (r.kind \in OwnOrg => Seen(r) # None)

(* Mutant: the write goes by the id alone, as it does in the other tables. *)
ReachesById(r) == Live(rows, r.id)

(* organizationId is in the where of the tables that have the column.      *)
Reaches(r) == IF r.kind \in OwnOrg THEN InTenant(r.id, Seen(r)) ELSE Live(rows, r.id)

CanUpdate(r) == r.op \in {"update", "approve"} /\ Reaches(r) /\ KeysLive(r)

(* The rows of the cascading columns, and what cascades from those.        *)
Children(S) == {j \in Ids : Live(rows, j) /\ \E c \in DOMAIN rows[j].refs \cap Cascading : rows[j].refs[c] \in S}

(* Mutant: grade entries and gradebooks stay behind.                       *)
DoomedChildren(i) == {i} \cup Children({i})

Doomed(i) == {i} \cup Children({i}) \cup Children(Children({i}))

Restricted(i) == \E j \in Ids : Live(rows, j) /\ \E c \in DOMAIN rows[j].refs \ Cascading : rows[j].refs[c] = i
CanDelete(r) == r.op = "remove" /\ Reaches(r) /\ ~Restricted(r.id)

Insert(q) ==
  LET r == reqs[q] IN
  /\ r.step = "write" /\ CanInsert(r)
  /\ \E i \in IdsOf(r.kind) :
       /\ rows[i].state = "fresh"
       /\ rows' = [rows EXCEPT ![i] = [state |-> "live", refs |-> r.refs,
                                       org |-> IF r.kind \in OwnOrg THEN Seen(r) ELSE None]]
  /\ End(q)

Update(q) ==
  LET r == reqs[q] IN
  /\ r.step = "write" /\ CanUpdate(r)
  /\ rows' = [rows EXCEPT
       ![r.id].refs = [c \in DOMAIN @ |-> IF c \in DOMAIN r.refs THEN r.refs[c] ELSE @[c]],
       ![r.id].org = IF r.owner = None THEN @ ELSE r.owner]
  /\ End(q)

Delete(q) ==
  LET r == reqs[q] IN
  /\ r.step = "write" /\ CanDelete(r)
  /\ rows' = [i \in Ids |-> IF i \in Doomed(r.id) THEN Blank("gone") ELSE rows[i]]
  /\ End(q)

Refuse(q) ==
  LET r == reqs[q] IN
  /\ r.step = "write"
  /\ ~CanInsert(r) /\ ~CanUpdate(r) /\ ~CanDelete(r)
  /\ End(q)
  /\ UNCHANGED rows

Next == \E q \in Requests :
  Arrive(q) \/ Check(q) \/ Find(q) \/ Insert(q) \/ Update(q) \/ Delete(q) \/ Refuse(q)

Spec == Init /\ [][Next]_vars

(***************************************************************************)
(* Properties                                                              *)
(***************************************************************************)
(* Rows and requests are what the handlers expect; a live row has exactly  *)
(* the columns of its table.                                               *)
TypeOK ==
  /\ rows \in [Ids -> Row \cup {Blank("fresh"), Blank("gone")}]
  /\ \A i \in Ids : Live(rows, i) => /\ DOMAIN rows[i].refs = ColumnsOf[KindOf[i]]
                                     /\ KindOf[i] \in OwnOrg <=> rows[i].org # None
  /\ reqs \in [Requests -> Request]

(* No row references a deleted one, whatever is deleted between the checks *)
(* of a creation and its insert, and however far a delete cascades.        *)
RecordsHold == Holds(rows)

(* A live row of a table in T changes or goes only by a write of a request *)
(* for the organization the row belongs to at that moment.                 *)
WritesOwn(T) ==
  \A i \in Ids : KindOf[i] \in T /\ Live(rows, i) /\ rows'[i] # rows[i] =>
    \E q \in Requests : /\ reqs[q].step = "write" /\ reqs'[q].step = "idle"
                        /\ OwnerOf(rows, i) = reqs[q].org

(* Levels, runs and students change only by requests for the organization  *)
(* they belong to, although the lookup and the write are two queries, and  *)
(* a run or level can be moved to another organization between them.       *)
ScopedWrites == [][WritesOwn(OwnOrg \ Captures)]_vars

(* The same of every table, as client_auth_update.md:9 has it: all queries *)
(* are scoped to the current organization.  The code breaks it.            *)
OwnWrites == [][WritesOwn(Kinds)]_vars
=================================================================================
