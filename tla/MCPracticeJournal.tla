--------------------------- MODULE MCPracticeJournal ----------------------------
(* An instance of PracticeJournal: ann teaches; ira is a student with a    *)
(* card, and lev is a member that has none.                                *)
EXTENDS PracticeJournal, TLC

CONSTANTS ann, ira, lev, o1, s1

OneOrg   == {<<ann, o1>>, <<ira, o1>>, <<lev, o1>>}
CardsOf  == s1 :> ira
CardsOrg == s1 :> o1

Symmetry == Permutations(Requests) \cup Permutations(Practices)
=================================================================================
