----------------------------- MODULE MCUserAccounts -----------------------------
(* Instances of UserAccounts.  "E1" is another spelling of the e-mail "e1". *)
EXTENDS UserAccounts, TLC

CONSTANTS u1, u2, u3, o1, o2

MCEmails == {"e1", "E1"}
MCLower  == [e \in MCEmails |-> IF e = "E1" THEN "e1" ELSE e]
SmallEmails == {"e1", "e2"}
SmallLower == [e \in SmallEmails |-> e]
OneTgId  == {"t1"}
NoRoles == {}
RealRoles == {"student", "teacher"}

\* u1 came through the web and has an e-mail; u2 came through the bot.
MCSeed == {u1, u2}
MCSeedEmail == [i \in UserIds |-> IF i = u1 THEN "e1" ELSE None]
MCSeedTgId  == [i \in UserIds |-> IF i = u2 THEN "t1" ELSE None]

Symmetry == Permutations(Requests)
=================================================================================
