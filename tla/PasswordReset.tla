------------------------------ MODULE PasswordReset ------------------------------
(***************************************************************************)
(* Passwords and reset codes of one account: UserService's changePassword, *)
(* generateResetCode and resetPasswordWithCode beside its other updates.   *)
(* Each of them reads the whole account, awaits bcrypt or the database,    *)
(* and saves the whole account as it was read but for its own change;      *)
(* requests for one account run at the same time.                          *)
(***************************************************************************)
EXTENDS Naturals

CONSTANTS
  Requests,   \* slots for requests in flight
  Passwords,  \* hashes of passwords
  Raw,        \* a password stored as a body had it: no check accepts it
  Others,     \* what the rest of the account may be: role, status, e-mail, ...
  MaxCodes,   \* bound: reset codes generated
  None

ASSUME ResetAssumption == MaxCodes \in Nat /\ None \notin Passwords \cup Nat

VARIABLES
  row,       \* the account: present, password, code, other
  requests,  \* requests[r]: op, pc, code (that a reset was given), copy (what it will save)
  codes,     \* the reset codes generated so far are 1..codes
  expired,   \* the codes whose 15 minutes are over
  inbox,     \* the codes that reached the owner in Telegram
  used,      \* history: codes with which a reset has saved a password,
  reused,    \* and those with which one has done so again
  revived    \* history: codes that were in another request's hand when they were used,
             \* or that a body has put back

history == <<used, reused, revived>>
vars == <<row, requests, codes, expired, inbox, used, reused, revived>>

Absent == [present |-> FALSE, password |-> None, code |-> None, other |-> None]
Free == [op |-> None, pc |-> "idle", code |-> None, copy |-> Absent]
---------------------------------------------------------------------------------
Init ==
  /\ \E p \in Passwords \cup {None}, other \in Others :
       row = [Absent EXCEPT !.present = TRUE, !.password = p, !.other = other]
  /\ requests = [r \in Requests |-> Free]
  /\ codes = 0 /\ expired = {} /\ inbox = {}
  /\ used = {} /\ reused = {} /\ revived = {}

Set(r, request) == requests' = [requests EXCEPT ![r] = request]

\* The account was found; a changed copy of it is going to be saved.
Holds(r, op, code, copy) ==
  /\ requests[r].pc = "idle" /\ row.present
  /\ Set(r, [op |-> op, pc |-> "saving", code |-> code, copy |-> copy])
  /\ UNCHANGED <<row, expired, inbox, used, reused>>

\* Mutant: the account gets another code than the one that is sent.
GenerateAnotherCode(r) ==
  /\ codes < MaxCodes /\ codes' = codes + 1
  /\ Holds(r, "forgot", None, [row EXCEPT !.code = codes' + 1])
  /\ UNCHANGED revived

(* generateResetCode: a new code takes the place of an earlier one.        *)
GenerateResetCode(r) ==
  /\ codes < MaxCodes /\ codes' = codes + 1
  /\ Holds(r, "forgot", None, [row EXCEPT !.code = codes'])
  /\ UNCHANGED revived

\* Mutant: the code stays with the account.
ResetPasswordKeepsCode(r, code, password) ==
  /\ row.code # None /\ code = row.code /\ code \notin expired
  /\ Holds(r, "reset", code, [row EXCEPT !.password = password])
  /\ UNCHANGED <<codes, revived>>

(* resetPasswordWithCode: the code is the account's and has not expired;   *)
(* setPassword and clearResetCode.                                         *)
ResetPasswordWithCode(r, code, password) ==
  /\ row.code # None /\ code = row.code /\ code \notin expired
  /\ Holds(r, "reset", code, [row EXCEPT !.password = password, !.code = None])
  /\ UNCHANGED <<codes, revived>>

ChangePassword(r, old, password) ==
  /\ row.password # None /\ old = row.password
  /\ Holds(r, "change", None, [row EXCEPT !.password = password])
  /\ UNCHANGED <<codes, revived>>

(* What update stores as the password: an account that has none gets one   *)
(* made of its e-mail, if it has an e-mail; else what the body had.        *)
UpdatedPasswords ==
  {row.password, Raw} \cup (IF row.password = None THEN Passwords ELSE {})

(* update, changeRole and the other operations that save the account.  A   *)
(* body's metadata takes the place of the account's, and the code with it: *)
(* metadata read before, sent back, puts an earlier code there.            *)
Update(r, other, code, password) ==
  /\ Holds(r, "update", None,
           [row EXCEPT !.other = other, !.code = code, !.password = password])
  /\ revived' = IF code \in {row.code, None} THEN revived ELSE revived \cup {code}
  /\ UNCHANGED codes

InHand(r, code) ==
  /\ requests[r].pc = "saving"
  /\ code \in {requests[r].code, requests[r].copy.code}

(* repo.save is an upsert of the whole account, also of one deleted since. *)
Save(r) ==
  LET request == requests[r]
      code == request.code
      others == {q \in Requests \ {r} : InHand(q, code)} IN
    /\ request.pc = "saving"
    /\ row' = request.copy
    /\ IF request.op = "reset"
       THEN /\ used' = used \cup {code}
            /\ reused' = reused \cup (used \cap {code})
            /\ revived' = IF others = {} THEN revived ELSE revived \cup {code}
       ELSE UNCHANGED history
    /\ Set(r, IF request.op = "forgot" THEN [request EXCEPT !.pc = "sending"] ELSE Free)
    /\ UNCHANGED <<codes, expired, inbox>>

\* The look-up of the e-mail before the save, or the save, fails.
SaveFails(r) == /\ requests[r].pc = "saving" /\ Set(r, Free)
                /\ UNCHANGED <<row, codes, expired, inbox, used, reused, revived>>

\* forgotPassword: the bot sends the saved code, or fails.
SendCode(r) ==
  /\ requests[r].pc = "sending" /\ Set(r, Free)
  /\ \/ inbox' = inbox \cup {requests[r].copy.code}
     \/ UNCHANGED inbox
  /\ UNCHANGED <<row, codes, expired, used, reused, revived>>

Delete ==
  /\ row.present /\ row' = Absent
  /\ UNCHANGED <<requests, codes, expired, inbox, used, reused, revived>>

\* Fifteen minutes after a code was generated.
Expire(c) ==
  /\ c \in (1..codes) \ expired /\ expired' = expired \cup {c}
  /\ UNCHANGED <<row, requests, codes, inbox, used, reused, revived>>
---------------------------------------------------------------------------------
Advance(r) == Save(r) \/ SaveFails(r) \/ SendCode(r)

Next ==
  \/ \E r \in Requests :
       \/ GenerateResetCode(r) \/ Advance(r)
       \/ \E c \in inbox, p \in Passwords : ResetPasswordWithCode(r, c, p)
       \/ \E old, p \in Passwords : ChangePassword(r, old, p)
       \/ \E other \in Others, c \in {row.code, None} \cup 1..codes, p \in UpdatedPasswords :
            Update(r, other, c, p)
  \/ Delete \/ \E c \in 1..MaxCodes : Expire(c)

Spec == Init /\ [][Next]_vars

---------------------------------------------------------------------------------
TypeOK ==
  /\ row.code \in {None} \cup 1..codes
  /\ row.password \in Passwords \cup {None, Raw} /\ row.other \in Others \cup {None}
  /\ expired \subseteq 1..codes /\ inbox \subseteq 1..codes
  /\ reused \subseteq used /\ used \subseteq 1..codes
  /\ \A r \in Requests :
       /\ requests[r].pc \in {"idle", "saving", "sending"}
       /\ requests[r].pc # "idle" => requests[r].copy.present

(* A code sets a second password only if, when it set the first, another   *)
(* request had the code in hand - a second reset, or a request that read   *)
(* the account before and will save it with the code - or if a body has    *)
(* put the code back.  Apart from those a used code is used up, however    *)
(* requests, messages, failures, deletes and the code's expiry interleave. *)
CodeUsedOnce == reused \subseteq revived

=================================================================================
