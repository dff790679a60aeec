--------------------------- MODULE AcademicProofs ---------------------------
(* Theorems about AcademicRecords: types and references first, then who    *)
(* writes the rows of the tables whose services know the organization.     *)
EXTENDS AcademicRecords, Integers, TLAPS

USE DEF Live

(* What each step of a request may rely on.                                *)
Fit(r) ==
  /\ r.step # "idle" => r.org \in Orgs /\ r.kind \in Kinds /\ r.op \in OpNames
  /\ r.step = "check" => r.op = "create" /\ r.todo # <<>>
  /\ r.step = "find" => r.op # "create"
  /\ r.step # "idle" /\ r.op = "create" => r.refs \in RefsOver(ColumnsOf[r.kind])
  /\ r.step # "idle" /\ r.op # "create" =>
       /\ r.refs \in UNION {RefsOver(C) : C \in SUBSET ColumnsOf[r.kind]}
       /\ r.id \in IdsOf(r.kind)
  /\ r.owner # None => r.owner \in Orgs /\ r.kind \in OwnOrg

RequestsFit == \A q \in Requests : Fit(reqs[q])

IInv == TypeOK /\ RequestsFit /\ RecordsHold

-----------------------------------------------------------------------------
(* Facts about the tables and the columns.                                 *)
LEMMA Tables ==
  /\ \A k \in Kinds : ColumnsOf[k] \subseteq Columns
  /\ NoRefs \in SomeRefs
  /\ \A k \in Kinds : \A f \in RefsOver(ColumnsOf[k]) : f \in SomeRefs
  /\ \A k \in Kinds : \A f \in UNION {RefsOver(C) : C \in SUBSET ColumnsOf[k]} : f \in SomeRefs
<1>1. \A k \in Kinds : ColumnsOf[k] \subseteq Columns
  BY DEF Columns
<1>2. NoRefs \in RefsOver({}) /\ {} \in SUBSET Columns
  BY DEF NoRefs, RefsOver
<1>3. NoRefs \in SomeRefs
  BY <1>2 DEF SomeRefs
<1> QED  BY <1>1, <1>3 DEF SomeRefs

(* Members of SomeRefs map columns to ids of the table they name.          *)
LEMMA RefsTyped ==
  ASSUME NEW f \in SomeRefs
  PROVE  /\ DOMAIN f \subseteq Columns
         /\ \A c \in DOMAIN f : f[c] \in Ids /\ KindOf[f[c]] = c
BY DEF SomeRefs, RefsOver

LEMMA IdleFits == Idle \in Request /\ Fit(Idle)
BY Tables DEF Idle, Request, Fit

(* A finished request leaves the others as they are.                       *)
LEMMA EndFits ==
  ASSUME reqs \in [Requests -> Request], RequestsFit, NEW q \in Requests, End(q)
  PROVE  reqs' \in [Requests -> Request] /\ RequestsFit'
BY IdleFits DEF End, RequestsFit

LEMMA InitOK == Init => IInv
<1> SUFFICES ASSUME Init PROVE IInv
  OBVIOUS
<1>1. RowsAtStart \in [Ids -> Row \cup {Blank("fresh"), Blank("gone")}]
  BY SeedAssumption DEF RowsAtStart
<1>2. \A i \in Ids : Live(rows, i) => i \in DOMAIN SeedRows /\ rows[i] = SeedRows[i]
  BY DEF Init, RowsAtStart, Blank
<1>3. RecordsHold
  BY SeedAssumption DEF Init, RecordsHold
<1>4. RequestsFit /\ reqs \in [Requests -> Request]
  BY IdleFits DEF Init, RequestsFit
<1>5. TypeOK
  BY <1>1, <1>2, <1>4, SeedAssumption DEF Init, TypeOK
<1> QED  BY <1>3, <1>4, <1>5 DEF IInv

-----------------------------------------------------------------------------
(* Requests stay typed and fit.                                            *)
LEMMA ArriveFits ==
  ASSUME IInv, NEW q \in Requests, Arrive(q)
  PROVE  reqs' \in [Requests -> Request] /\ RequestsFit'
<1>1. PICK op \in Ops, o \in Orgs :
        \E id \in (IF op[2] = "create" THEN {None} ELSE IdsOf(op[1])) :
        \E refs \in BodyRefs(op[1], op[2]) : \E owner \in BodyOwners(op[1], op[2]) :
          reqs' = [reqs EXCEPT ![q] = Arriving(op, o, id, refs, owner)]
  BY DEF Arrive
<1>2. PICK id \in (IF op[2] = "create" THEN {None} ELSE IdsOf(op[1])),
           refs \in BodyRefs(op[1], op[2]), owner \in BodyOwners(op[1], op[2]) :
          reqs' = [reqs EXCEPT ![q] = Arriving(op, o, id, refs, owner)]
  BY <1>1
<1> DEFINE todo == IF op[2] = "create" THEN CheckedColumns[op[1]] ELSE <<>>
           r == Arriving(op, o, id, refs, owner)
<1>3. op[1] \in Kinds /\ op[2] \in OpNames
  BY RecordsAssumption
<1>4. CheckedColumns[op[1]] \in Seq(Columns)
  <2>1. {"student", "sessionRun", "enrollment", "subject"} \subseteq Columns
    BY DEF Columns, Kinds, ColumnsOf
  <2>2. <<"sessionRun">> \in Seq(Columns) /\ <<"student", "sessionRun">> \in Seq(Columns)
    BY <2>1
  <2>3. <<"enrollment", "subject">> \in Seq(Columns) /\ <<"enrollment">> \in Seq(Columns)
    BY <2>1
  <2>4. << >> \in Seq(Columns)
    OBVIOUS
  <2> QED  BY <1>3, <2>2, <2>3, <2>4 DEF CheckedColumns
<1>5. op[2] = "create" => refs \in RefsOver(ColumnsOf[op[1]])
  BY DEF BodyRefs
<1>6. op[2] # "create" => refs \in UNION {RefsOver(C) : C \in SUBSET ColumnsOf[op[1]]}
  <2>1. NoRefs \in RefsOver({})
    BY DEF NoRefs, RefsOver
  <2> QED  BY <2>1 DEF BodyRefs
<1>7. refs \in SomeRefs
  BY <1>3, <1>5, <1>6, Tables
<1>8. id \in Ids \cup {None} /\ (op[2] # "create" => id \in IdsOf(op[1]))
  BY DEF IdsOf
<1>8a. owner = None \/ (owner \in Orgs /\ op[1] \in OwnOrg)
  BY DEF BodyOwners
<1>9. r \in Request
  BY <1>3, <1>4, <1>7, <1>8, <1>8a DEF Request, FirstStep, Arriving
<1>10. Fit(r)
  BY <1>3, <1>5, <1>6, <1>8, <1>8a DEF Fit, FirstStep, Arriving
<1>11. reqs' = [reqs EXCEPT ![q] = r]
  BY <1>2
<1> HIDE DEF r
<1> QED  BY <1>9, <1>10, <1>11 DEF IInv, TypeOK, RequestsFit

LEMMA CheckFits ==
  ASSUME IInv, NEW q \in Requests, Check(q)
  PROVE  reqs' \in [Requests -> Request] /\ RequestsFit'
<1> DEFINE r == reqs[q]
           s == [r EXCEPT !.todo = Tail(r.todo), !.step = FirstStep("create", Tail(r.todo))]
<1>1. r \in Request /\ Fit(r) /\ r.step = "check"
  BY DEF IInv, TypeOK, RequestsFit, Check
<1>2. CASE End(q)
  BY <1>2, EndFits DEF IInv, TypeOK
<1>3. CASE reqs' = [reqs EXCEPT ![q].todo = Tail(r.todo),
                                ![q].step = FirstStep("create", Tail(r.todo))]
  <2>1. Tail(r.todo) \in Seq(Columns)
    BY <1>1 DEF Request, Fit
  <2>2. s \in Request /\ Fit(s)
    BY <1>1, <2>1 DEF Request, Fit, FirstStep
  <2>3. reqs' = [reqs EXCEPT ![q] = s]
    BY <1>3, <1>1 DEF IInv, TypeOK, Request
  <2> QED  BY <2>2, <2>3 DEF IInv, TypeOK, RequestsFit
<1> QED  BY <1>2, <1>3 DEF Check

LEMMA FindFits ==
  ASSUME IInv, NEW q \in Requests, Find(q)
  PROVE  reqs' \in [Requests -> Request] /\ RequestsFit'
<1> DEFINE r == reqs[q]
           s == [r EXCEPT !.step = "write"]
<1>1. r \in Request /\ Fit(r) /\ r.step = "find"
  BY DEF IInv, TypeOK, RequestsFit, Find
<1>2. CASE End(q)
  BY <1>2, EndFits DEF IInv, TypeOK
<1>3. CASE reqs' = [reqs EXCEPT ![q].step = "write"]
  <2>1. s \in Request /\ Fit(s)
    BY <1>1 DEF Request, Fit
  <2>2. reqs' = [reqs EXCEPT ![q] = s]
    BY <1>3
  <2> QED  BY <2>1, <2>2 DEF IInv, TypeOK, RequestsFit
<1> QED  BY <1>2, <1>3 DEF Find

-----------------------------------------------------------------------------
(* The writes keep the rows typed and no reference dangling.               *)
LEMMA InsertHolds ==
  ASSUME IInv, NEW q \in Requests, Insert(q)
  PROVE  IInv'
<1> DEFINE r == reqs[q]
           new == [state |-> "live", refs |-> r.refs,
                   org |-> IF r.kind \in OwnOrg THEN Seen(r) ELSE None]
<1>1. r \in Request /\ Fit(r) /\ r.step = "write" /\ CanInsert(r)
  BY DEF IInv, TypeOK, RequestsFit, Insert
<1>2. PICK i \in IdsOf(r.kind) :
        rows[i].state = "fresh" /\ rows' = [rows EXCEPT ![i] = new]
  BY DEF Insert
<1>3. r.kind \in Kinds /\ r.refs \in RefsOver(ColumnsOf[r.kind]) /\ r.org \in Orgs
  BY <1>1 DEF Fit, CanInsert
<1>4. i \in Ids /\ KindOf[i] = r.kind
  BY <1>2 DEF IdsOf
<1>5. new \in Row /\ DOMAIN new.refs = ColumnsOf[KindOf[i]]
      /\ (KindOf[i] \in OwnOrg <=> new.org # None)
  BY <1>1, <1>3, <1>4, Tables, RecordsAssumption DEF Row, Seen, CanInsert, RefsOver
<1>6. \A j \in Ids : rows'[j] = IF j = i THEN new ELSE rows[j]
  BY <1>2, <1>4 DEF IInv, TypeOK
<1>7. RecordsHold'
  <2> SUFFICES ASSUME NEW j \in Ids, Live(rows', j), NEW c \in DOMAIN rows'[j].refs
               PROVE  Live(rows', rows'[j].refs[c])
    BY DEF RecordsHold, Holds
  <2>1. CASE j = i
    BY <2>1, <1>1, <1>6, <1>2, <1>3 DEF CanInsert, KeysLive, RefsOver
  <2>2. CASE j # i
    <3>1. Live(rows, rows[j].refs[c])
      BY <2>2, <1>6 DEF IInv, RecordsHold, Holds
    <3>2. rows[j].refs[c] \in Ids
      BY <2>2, <1>6, RefsTyped DEF IInv, TypeOK, Row, Blank
    <3> QED  BY <2>2, <1>6, <1>2, <3>1, <3>2
  <2> QED  BY <2>1, <2>2
<1>8. rows' \in [Ids -> Row \cup {Blank("fresh"), Blank("gone")}]
  BY <1>2, <1>5 DEF IInv, TypeOK
<1>9. reqs' \in [Requests -> Request] /\ RequestsFit'
  BY EndFits DEF Insert, IInv, TypeOK
<1>10. \A j \in Ids : Live(rows', j) => /\ DOMAIN rows'[j].refs = ColumnsOf[KindOf[j]]
                                        /\ KindOf[j] \in OwnOrg <=> rows'[j].org # None
  BY <1>5, <1>6 DEF IInv, TypeOK
<1> QED  BY <1>7, <1>8, <1>9, <1>10 DEF IInv, TypeOK

LEMMA UpdateHolds ==
  ASSUME IInv, NEW q \in Requests, Update(q)
  PROVE  IInv'
<1> DEFINE r == reqs[q]
           i == r.id
           merged == [c \in DOMAIN rows[i].refs |-> IF c \in DOMAIN r.refs THEN r.refs[c] ELSE rows[i].refs[c]]
           org == IF r.owner = None THEN rows[i].org ELSE r.owner
           new == [rows[i] EXCEPT !.refs = merged, !.org = org]
<1>1. r \in Request /\ Fit(r) /\ r.step = "write" /\ CanUpdate(r)
  BY DEF IInv, TypeOK, RequestsFit, Update
<1>2. i \in Ids /\ KindOf[i] = r.kind /\ r.kind \in Kinds
  BY <1>1 DEF Fit, CanUpdate, IdsOf
<1>3. Live(rows, i) /\ rows[i] \in Row /\ DOMAIN rows[i].refs = ColumnsOf[KindOf[i]]
  BY <1>1, <1>2 DEF CanUpdate, Reaches, InTenant, IInv, TypeOK, Blank
<1>4. r.refs \in SomeRefs /\ rows[i].refs \in SomeRefs
  BY <1>1, <1>3 DEF Request, Row
<1>5. merged \in RefsOver(ColumnsOf[KindOf[i]])
  BY <1>2, <1>3, <1>4, RefsTyped DEF RefsOver
<1>5a. org \in Orgs \cup {None} /\ (KindOf[i] \in OwnOrg <=> org # None)
  BY <1>1, <1>2, <1>3, RecordsAssumption DEF Fit, Row, IInv, TypeOK
<1> HIDE DEF org
<1>6. new \in Row /\ DOMAIN new.refs = ColumnsOf[KindOf[i]] /\ new.org = org /\ new.state = "live"
  BY <1>2, <1>3, <1>5, <1>5a, Tables DEF Row, RefsOver
<1> DEFINE given(c) == c \in DOMAIN r.refs
<1>6a. \A c \in DOMAIN new.refs : c \in DOMAIN rows[i].refs
         /\ new.refs[c] = IF given(c) THEN r.refs[c] ELSE rows[i].refs[c]
  BY <1>3 DEF Row
<1>7. rows' = [rows EXCEPT ![i] = new]
  BY <1>2, <1>3 DEF Update, IInv, TypeOK, Row, org
<1>8. \A j \in Ids : rows'[j] = IF j = i THEN new ELSE rows[j]
  BY <1>2, <1>7 DEF IInv, TypeOK
<1> HIDE DEF new
<1>9. \A j \in Ids : Live(rows', j) <=> Live(rows, j)
  BY <1>8, <1>6, <1>3
<1>10. RecordsHold'
  <2> SUFFICES ASSUME NEW j \in Ids, Live(rows', j), NEW c \in DOMAIN rows'[j].refs
               PROVE  Live(rows', rows'[j].refs[c])
    BY DEF RecordsHold, Holds
  <2>1. rows'[j].refs \in SomeRefs
    BY <1>8, <1>6 DEF IInv, TypeOK, Row, Blank
  <2>2. rows'[j].refs[c] \in Ids
    BY <2>1, RefsTyped
  <2>3. Live(rows, rows'[j].refs[c])
    <3>1. CASE j = i /\ given(c)
      <4>1. rows'[j].refs[c] = r.refs[c]
        BY <3>1, <1>8, <1>6a, <1>2
      <4> QED  BY <3>1, <4>1, <1>1 DEF CanUpdate, KeysLive
    <3>2. CASE j = i /\ ~given(c)
      <4>1. rows'[j].refs[c] = rows[i].refs[c] /\ c \in DOMAIN rows[i].refs
        BY <3>2, <1>8, <1>6a, <1>2
      <4> QED  BY <4>1, <1>2, <1>3 DEF IInv, RecordsHold, Holds
    <3>3. CASE j # i
      <4>1. rows'[j] = rows[j]
        BY <3>3, <1>8
      <4> QED  BY <4>1, <1>9 DEF IInv, RecordsHold, Holds
    <3> QED  BY <3>1, <3>2, <3>3
  <2> QED  BY <2>2, <2>3, <1>9
<1>11. rows' \in [Ids -> Row \cup {Blank("fresh"), Blank("gone")}]
  BY <1>6, <1>7 DEF IInv, TypeOK
<1>12. reqs' \in [Requests -> Request] /\ RequestsFit'
  BY EndFits DEF Update, IInv, TypeOK
<1>13. \A j \in Ids : Live(rows', j) => /\ DOMAIN rows'[j].refs = ColumnsOf[KindOf[j]]
                                        /\ KindOf[j] \in OwnOrg <=> rows'[j].org # None
  BY <1>2, <1>3, <1>5a, <1>6, <1>8 DEF IInv, TypeOK
<1> QED  BY <1>10, <1>11, <1>12, <1>13 DEF IInv, TypeOK

(* What a delete takes along is closed under references to it: the columns *)
(* that cascade are the only ones that name a card or an enrollment.       *)
LEMMA DoomedClosed ==
  ASSUME IInv, NEW i \in Ids, ~Restricted(i),
         NEW j \in Ids, Live(rows, j), NEW c \in DOMAIN rows[j].refs,
         rows[j].refs[c] \in Doomed(i)
  PROVE  j \in Doomed(i)
<1> DEFINE d == rows[j].refs[c]
           Own(k) == ColumnsOf[KindOf[k]]
<1>1. \A k \in Ids : Live(rows, k) => /\ rows[k].refs \in SomeRefs
                                      /\ DOMAIN rows[k].refs = Own(k)
  BY DEF IInv, TypeOK, Row, Blank
<1>2. d \in Ids /\ KindOf[d] = c /\ c \in Own(j)
  BY <1>1, RefsTyped
<1>3. \A k \in Ids : KindOf[k] \in Kinds
  BY RecordsAssumption
<1>4. \A k \in Kinds : ColumnsOf[k] \cap Cascading # {} => k \in {"enrollment", "gradeEntry", "gradebook"}
  BY DEF ColumnsOf, Kinds, Cascading
<1>5. \A k \in Kinds : ColumnsOf[k] \cap {"gradeEntry", "gradebook"} = {}
  BY DEF ColumnsOf, Kinds
<1>6. CASE d = i
  <2>1. c \in Cascading
    BY <1>6 DEF Restricted
  <2> QED  BY <1>6, <2>1 DEF Doomed, Children
<1>7. CASE d \in Children({i})
  <2>1. KindOf[d] \in {"enrollment", "gradeEntry", "gradebook"}
    BY <1>7, <1>1, <1>3, <1>4 DEF Children
  <2>2. c = "enrollment"
    BY <2>1, <1>2, <1>3, <1>5
  <2> QED  BY <2>2, <1>7 DEF Doomed, Children, Cascading
<1>8. CASE d \in Children(Children({i}))
  <2>1. PICK b \in DOMAIN rows[d].refs \cap Cascading : Live(rows, d) /\ rows[d].refs[b] \in Children({i})
    BY <1>8 DEF Children
  <2>2. rows[d].refs[b] \in Ids /\ KindOf[rows[d].refs[b]] = b /\ b \in Own(d)
    BY <2>1, <1>1, <1>2, RefsTyped
  <2>3. KindOf[rows[d].refs[b]] \in {"enrollment", "gradeEntry", "gradebook"}
    BY <2>1, <2>2, <1>1, <1>3, <1>4 DEF Children
  <2>4. b = "enrollment"
    BY <2>2, <2>3, <1>2, <1>3, <1>5
  <2>5. KindOf[d] \in {"gradeEntry", "gradebook"}
    BY <2>2, <2>4, <1>2, <1>3 DEF ColumnsOf, Kinds
  <2> QED  BY <2>5, <1>2, <1>3, <1>5
<1> QED  BY <1>6, <1>7, <1>8 DEF Doomed

LEMMA DeleteHolds ==
  ASSUME IInv, NEW q \in Requests, Delete(q)
  PROVE  IInv'
<1> DEFINE i == reqs[q].id
<1>1. i \in Ids /\ ~Restricted(i)
  BY DEF Delete, CanDelete, IInv, RequestsFit, Fit, IdsOf
<1>2. rows' = [j \in Ids |-> IF j \in Doomed(i) THEN Blank("gone") ELSE rows[j]]
  BY DEF Delete
<1>3. \A j \in Ids : Live(rows', j) => j \notin Doomed(i) /\ rows'[j] = rows[j]
  BY <1>2 DEF Blank
<1>4. RecordsHold'
  <2> SUFFICES ASSUME NEW j \in Ids, Live(rows', j), NEW c \in DOMAIN rows'[j].refs
               PROVE  Live(rows', rows'[j].refs[c])
    BY DEF RecordsHold, Holds
  <2>1. rows'[j] = rows[j] /\ Live(rows, j) /\ j \notin Doomed(i)
    BY <1>3
  <2>2. rows[j].refs[c] \in Ids
    BY <2>1, RefsTyped DEF IInv, TypeOK, Row, Blank
  <2>3. rows[j].refs[c] \notin Doomed(i)
    BY <2>1, <1>1, DoomedClosed
  <2>4. Live(rows, rows[j].refs[c])
    BY <2>1 DEF IInv, RecordsHold, Holds
  <2> QED  BY <2>1, <2>2, <2>3, <2>4, <1>2
<1>5. rows' \in [Ids -> Row \cup {Blank("fresh"), Blank("gone")}]
  BY <1>2 DEF IInv, TypeOK
<1>6. reqs' \in [Requests -> Request] /\ RequestsFit'
  BY EndFits DEF Delete, IInv, TypeOK
<1> QED  BY <1>3, <1>4, <1>5, <1>6 DEF IInv, TypeOK

LEMMA StepHolds == IInv /\ [Next]_vars => IInv'
<1> SUFFICES ASSUME IInv, [Next]_vars PROVE IInv'
  OBVIOUS
<1>1. ASSUME UNCHANGED rows, reqs' \in [Requests -> Request], RequestsFit' PROVE IInv'
  BY <1>1 DEF IInv, TypeOK, RecordsHold, Holds
<1>2. CASE UNCHANGED vars
  BY <1>2 DEF vars, IInv, TypeOK, RecordsHold, Holds, RequestsFit, Fit
<1>3. CASE \E q \in Requests : Arrive(q)
  BY <1>3, <1>1, ArriveFits DEF Arrive
<1>4. CASE \E q \in Requests : Check(q)
  BY <1>4, <1>1, CheckFits DEF Check
<1>5. CASE \E q \in Requests : Find(q)
  BY <1>5, <1>1, FindFits DEF Find
<1>6. CASE \E q \in Requests : Insert(q)
  BY <1>6, InsertHolds
<1>7. CASE \E q \in Requests : Update(q)
  BY <1>7, UpdateHolds
<1>8. CASE \E q \in Requests : Delete(q)
  BY <1>8, DeleteHolds
<1>9. CASE \E q \in Requests : Refuse(q)
  BY <1>9, <1>1, EndFits DEF Refuse, IInv, TypeOK
<1> QED  BY <1>2, <1>3, <1>4, <1>5, <1>6, <1>7, <1>8, <1>9 DEF Next

-----------------------------------------------------------------------------
(* Rows and requests of the academic services keep their types, whatever   *)
(* the constants.                                                          *)
THEOREM RecordTypes == Spec => []TypeOK
<1>1. Init => IInv
  BY InitOK
<1>2. IInv /\ [Next]_vars => IInv'
  BY StepHolds
<1>3. IInv => TypeOK
  BY DEF IInv
<1> QED  BY <1>1, <1>2, <1>3, PTL DEF Spec

(* No live row ever references a deleted one: inserts and updates pass the *)
(* foreign keys, and a delete is refused or takes along all that names it. *)
THEOREM RecordsStayWhole == Spec => []RecordsHold
<1>1. Init => IInv
  BY InitOK
<1>2. IInv /\ [Next]_vars => IInv'
  BY StepHolds
<1>3. IInv => RecordsHold
  BY DEF IInv
<1> QED  BY <1>1, <1>2, <1>3, PTL DEF Spec

-----------------------------------------------------------------------------
(* Who writes.                                                             *)
Scoped == OwnOrg \ Captures

(* What reaches a row of such a table is a request for its organization.   *)
LEMMA ReachedByOwn ==
  ASSUME NEW r, r \in Request, Fit(r), r.step = "write", r.op # "create", Reaches(r),
         KindOf[r.id] \in Scoped
  PROVE  OwnerOf(rows, r.id) = r.org
<1>1. r.kind = KindOf[r.id] /\ r.org \in Orgs
  BY DEF Fit, IdsOf
<1> QED  BY <1>1, RecordsAssumption DEF Reaches, Seen, InTenant, Scoped

(* A delete that cascades to a row of such a table deletes just that row.  *)
LEMMA DoomedScoped ==
  ASSUME IInv, NEW i \in Ids, NEW j \in Doomed(i), KindOf[j] \in Scoped
  PROVE  j = i
<1>1. \A k \in Scoped : k \in Kinds /\ ColumnsOf[k] \cap Cascading = {}
  BY DEF Scoped, OwnOrg, Captures, Kinds, ColumnsOf, Cascading
<1>2. \A S : j \notin Children(S)
  BY <1>1 DEF Children, IInv, TypeOK
<1> QED  BY <1>2 DEF Doomed

LEMMA StepWritesOwn == IInv /\ [Next]_vars => [WritesOwn(Scoped)]_vars
<1> SUFFICES ASSUME IInv, Next, NEW i \in Ids, KindOf[i] \in Scoped, Live(rows, i), rows'[i] # rows[i]
             PROVE  \E q \in Requests : /\ reqs[q].step = "write" /\ reqs'[q].step = "idle"
                                        /\ OwnerOf(rows, i) = reqs[q].org
  BY DEF WritesOwn
<1>1. PICK q \in Requests : Insert(q) \/ Update(q) \/ Delete(q)
  BY DEF Next, Arrive, Check, Find, Refuse
<1>2. reqs[q] \in Request /\ Fit(reqs[q]) /\ reqs[q].step = "write"
  BY <1>1 DEF IInv, TypeOK, RequestsFit, Insert, Update, Delete
<1>3. reqs'[q].step = "idle"
  BY <1>1 DEF IInv, TypeOK, Insert, Update, Delete, End, Idle
<1>4. reqs[q].id = i /\ Reaches(reqs[q]) /\ reqs[q].op # "create"
  <2>1. CASE Insert(q)
    BY <2>1 DEF Insert, IInv, TypeOK
  <2>2. CASE Update(q)
    BY <2>2 DEF Update, CanUpdate, IInv, TypeOK
  <2>3. CASE Delete(q)
    <3>1. CanDelete(reqs[q]) /\ i \in Doomed(reqs[q].id)
      BY <2>3 DEF Delete
    <3>2. reqs[q].id \in Ids
      BY <3>1, <1>2 DEF CanDelete, Fit, IdsOf
    <3> QED  BY <3>1, <3>2, DoomedScoped DEF CanDelete
  <2> QED  BY <1>1, <2>1, <2>2, <2>3
<1> QED  BY <1>2, <1>3, <1>4, ReachedByOwn

(* Levels, runs and students are written only for the organization they    *)
(* belong to at that moment, whatever other requests do between the lookup *)
(* and the write of an update or a removal, moves between them included.   *)
THEOREM ScopedTablesAreOwnersOnly == Spec => ScopedWrites
<1>1. Init => IInv
  BY InitOK
<1>2. IInv /\ [Next]_vars => IInv'
  BY StepHolds
<1>3. IInv /\ [Next]_vars => [WritesOwn(OwnOrg \ Captures)]_vars
  BY StepWritesOwn DEF Scoped
<1> QED  BY <1>1, <1>2, <1>3, PTL DEF Spec, ScopedWrites
=============================================================================
