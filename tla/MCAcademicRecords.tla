-------------------------- MODULE MCAcademicRecords ---------------------------
(* An instance of AcademicRecords: oA has a year, a level, two runs and a  *)
(* student; a subject, an enrollment and grades are to come, and oB has    *)
(* only what it makes or is given.                                         *)
EXTENDS AcademicRecords, TLC

CONSTANTS oA, oB, y1, y2, l1, r1, r2, s1, j1, e1, g1, b1

KindOfIds == [i \in Ids |->
  CASE i \in {y1, y2} -> "academicYear" [] i = l1 -> "level"
    [] i \in {r1, r2} -> "sessionRun"   [] i = s1 -> "student"
    [] i = j1 -> "subject" [] i = e1 -> "enrollment" [] i = g1 -> "gradeEntry"
    [] OTHER -> "gradebook"]

Owned == [state |-> "live", org |-> oA, refs |-> NoRefs]
Run   == [Owned EXCEPT !.refs = [level |-> l1, academicYear |-> y1]]
Seeds == (y1 :> Owned) @@ (l1 :> Owned) @@ (s1 :> Owned) @@ (r1 :> Run) @@ (r2 :> Run)

AllOps ==
  ({"subject"} \X {"create", "update", "remove"})
    \cup ({"enrollment"} \X {"create", "update", "approve", "remove"})
    \cup ({"gradeEntry"} \X {"create", "update", "remove"})
    \cup ({"sessionRun"} \X {"update", "remove"})
    \cup {<<"gradebook", "create">>, <<"student", "remove">>, <<"academicYear", "create">>}

YearOps == {"academicYear"} \X {"create", "update", "remove"}

Symmetry == Permutations(Requests) \cup Permutations({r1, r2})
=================================================================================
