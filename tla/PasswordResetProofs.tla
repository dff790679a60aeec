--------------------------- MODULE PasswordResetProofs ---------------------------
(* PasswordReset for any number of requests and codes: a code that set a   *)
(* password is used up, unless a stale copy or a body can put it back.     *)
EXTENDS PasswordReset, TLAPS

(* Accounts and requests when n codes have been generated.                 *)
Account(n) == [present: BOOLEAN, password: Passwords \cup {None, Raw}, code: {None} \cup 1..n,
               other: Others \cup {None}]
Ops == {None, "forgot", "reset", "change", "update"}
PCs == {"idle", "saving", "sending"}

Request(n) == [op: Ops, pc: PCs, code: {None} \cup 1..n, copy: Account(n)]

Types ==
  /\ codes \in 0..MaxCodes
  /\ row \in Account(codes)
  /\ requests \in [Requests -> Request(codes)]
  /\ expired \subseteq 1..codes /\ inbox \subseteq 1..codes
  /\ used \subseteq 1..codes /\ reused \subseteq used

(* What a request in flight is going to save.                              *)
Copies(q, n) ==
  /\ q.pc # "idle" => q.copy.present
  /\ q.pc = "saving" /\ q.op = "reset" => q.code \in 1..n /\ q.copy.code = None
  /\ q.pc # "idle" /\ q.op = "forgot" => q.copy.code \in 1..n
  /\ q.pc = "sending" => q.op = "forgot"

IInv == Types /\ \A r \in Requests : Copies(requests[r], codes)

(* A used code that was not in another request's hand when it was used,    *)
(* and that no body has put back, is nowhere: the account does not have    *)
(* it, and no request is going to save it or was let in with it.           *)
UsedUp ==
  /\ \A c \in used \ revived : row.code # c /\ \A r \in Requests : ~InHand(r, c)
  /\ reused \subseteq revived

-----------------------------------------------------------------------------
LEMMA Now == IInv => /\ codes \in Nat /\ row \in Account(codes) /\ codes \in codes..MaxCodes
                     /\ row.code \in {None} \cup 1..codes
BY ResetAssumption DEF IInv, Types, Account

LEMMA UsedAreCodes == IInv => None \notin used /\ \A n \in Nat : n > codes => n \notin used
<1> SUFFICES ASSUME IInv PROVE None \notin used /\ \A n \in Nat : n > codes => n \notin used
  OBVIOUS
<1>1. codes \in Nat /\ used \subseteq 1..codes
  BY Now DEF IInv, Types
<1>2. \A c \in used : c \in Nat /\ c <= codes
  BY <1>1
<1>3. None \notin used
  BY <1>2, ResetAssumption
<1> QED
  BY <1>1, <1>2, <1>3

LEMMA FreeOK == ASSUME NEW n \in Nat
                PROVE  Absent \in Account(n) /\ Free \in Request(n) /\ Copies(Free, n)
<1>1. Absent \in Account(n)
  BY DEF Absent, Account
<1> QED
  BY <1>1 DEF Free, Request, Ops, PCs, Copies

LEMMA InitOK == Init => IInv /\ UsedUp
<1> SUFFICES ASSUME Init PROVE IInv /\ UsedUp
  OBVIOUS
<1>1. PICK p \in Passwords \cup {None}, other \in Others :
        row = [Absent EXCEPT !.present = TRUE, !.password = p, !.other = other]
  BY DEF Init
<1>2. row = [present |-> TRUE, password |-> p, code |-> None, other |-> other]
  BY <1>1 DEF Absent
<1>3. codes \in 0..MaxCodes /\ codes \in Nat
  BY ResetAssumption DEF Init
<1>4. row \in Account(codes)
  BY <1>2, <1>3 DEF Account
<1>5. Types
  BY <1>3, <1>4, FreeOK DEF Init, Types
<1>6. IInv
  BY <1>3, <1>5, FreeOK DEF IInv, Init
<1> QED
  BY <1>6 DEF UsedUp, Init

LEMMA Grows ==
  ASSUME NEW n \in Nat, NEW m \in Nat, n <= m
  PROVE  /\ \A a \in Account(n) : a \in Account(m)
         /\ \A q \in Request(n) : q \in Request(m) /\ (Copies(q, n) => Copies(q, m))
<1>1. 1..n \subseteq 1..m
  OBVIOUS
<1>2. \A a \in Account(n) : a \in Account(m)
  BY <1>1 DEF Account
<1>3. \A q \in Request(n) : q \in Request(m)
  BY <1>1, <1>2 DEF Request
<1>4. \A q \in Request(n) : Copies(q, n) => Copies(q, m)
  BY <1>1 DEF Copies
<1> QED
  BY <1>2, <1>3, <1>4

(* One request changes, and the rest of the state keeps its types.         *)
LEMMA RequestChanges ==
  ASSUME IInv, NEW r \in Requests, NEW q, Set(r, q), codes' \in codes..MaxCodes,
         q \in Request(codes'), Copies(q, codes'), row' \in Account(codes'),
         expired' \subseteq 1..codes', inbox' \subseteq 1..codes',
         used' \subseteq 1..codes', reused' \subseteq used'
  PROVE  IInv'
<1>1. codes \in Nat /\ codes' \in Nat /\ codes <= codes' /\ codes' \in 0..MaxCodes
  BY ResetAssumption DEF IInv, Types
<1>2. requests \in [Requests -> Request(codes)] /\ \A s \in Requests : Copies(requests[s], codes)
  BY DEF IInv, Types
<1>3. requests' = [requests EXCEPT ![r] = q]
  BY DEF Set
<1>4. \A s \in Requests : requests'[s] \in Request(codes') /\ Copies(requests'[s], codes')
  <2> SUFFICES ASSUME NEW s \in Requests
               PROVE  requests'[s] \in Request(codes') /\ Copies(requests'[s], codes')
    OBVIOUS
  <2>1. CASE s = r
    <3>1. requests'[s] = q
      BY <1>2, <1>3, <2>1
    <3> QED
      BY <3>1
  <2>2. CASE s # r
    <3>1. requests'[s] = requests[s]
      BY <1>2, <1>3, <2>2
    <3>2. requests[s] \in Request(codes) /\ Copies(requests[s], codes)
      BY <1>2
    <3>3. requests[s] \in Request(codes') /\ Copies(requests[s], codes')
      BY <1>1, <3>2, Grows
    <3> QED
      BY <3>1, <3>3
  <2> QED
    BY <2>1, <2>2
<1>5. requests' \in [Requests -> Request(codes')]
  BY <1>2, <1>3, <1>4
<1> QED
  BY <1>1, <1>4, <1>5 DEF IInv, Types

(* A request that begins to hold a changed copy of the account.            *)
LEMMA HoldsOK ==
  ASSUME IInv, NEW r \in Requests, NEW op \in Ops, NEW code \in {None} \cup 1..codes,
         NEW copy, Holds(r, op, code, copy), codes' \in codes..MaxCodes,
         copy \in Account(codes'), copy.present,
         op = "reset" => code \in 1..codes /\ copy.code = None,
         op = "forgot" => copy.code \in 1..codes'
  PROVE  IInv'
<1> DEFINE q == [op |-> op, pc |-> "saving", code |-> code, copy |-> copy]
<1>1. Set(r, q) /\ UNCHANGED <<row, expired, inbox, used, reused>>
  BY DEF Holds
<1>2. codes \in Nat /\ codes' \in Nat /\ codes <= codes' /\ 1..codes \subseteq 1..codes'
  BY ResetAssumption DEF IInv, Types
<1>3. row' \in Account(codes')
  BY <1>1, <1>2, Grows DEF IInv, Types
<1>4. q \in Request(codes')
  BY <1>2 DEF Request, PCs
<1>5. /\ expired' \subseteq 1..codes' /\ inbox' \subseteq 1..codes'
      /\ used' \subseteq 1..codes' /\ reused' \subseteq used'
  BY <1>1, <1>2 DEF IInv, Types
<1>6. Copies(q, codes')
  BY <1>2 DEF Copies
<1> HIDE DEF q
<1> QED
  BY <1>1, <1>3, <1>4, <1>5, <1>6, RequestChanges

(* What a request begins to hold is not a used code, or one put back.      *)
LEMMA HoldsUsedUp ==
  ASSUME IInv, UsedUp, NEW r \in Requests, NEW op, NEW code, NEW copy, Holds(r, op, code, copy),
         revived \subseteq revived', code \in {None, row.code},
         copy.code \in {None, row.code} \cup revived' \/ copy.code = codes + 1
  PROVE  UsedUp'
<1>1. UNCHANGED <<row, used, reused>>
  BY DEF Holds
<1>2. codes \in Nat /\ None \notin used /\ codes + 1 \notin used
  BY Now, UsedAreCodes
<1>3. ASSUME NEW c \in used' \ revived'
      PROVE  row'.code # c /\ \A s \in Requests : ~InHand(s, c)'
  <2>1. c \in used \ revived /\ c \notin revived'
    BY <1>1, <1>3
  <2>2. row.code # c /\ \A s \in Requests : ~InHand(s, c)
    BY <2>1 DEF UsedUp
  <2>3. ASSUME NEW s \in Requests, s # r PROVE ~InHand(s, c)'
    <3>1. requests'[s] = requests[s]
      BY <2>3 DEF Holds, Set, IInv, Types
    <3> QED
      BY <2>2, <3>1 DEF InHand
  <2>4. ~InHand(r, c)'
    <3>1. requests'[r] = [op |-> op, pc |-> "saving", code |-> code, copy |-> copy]
      BY DEF Holds, Set, IInv, Types
    <3>2. code # c /\ copy.code # c
      BY <1>2, <2>1, <2>2
    <3> QED
      BY <3>1, <3>2 DEF InHand
  <2> QED
    BY <1>1, <2>2, <2>3, <2>4
<1> QED
  BY <1>1, <1>3 DEF UsedUp

(* A request that no longer waits to save has nothing in hand.             *)
LEMMA Released ==
  ASSUME IInv, NEW r \in Requests, NEW q, Set(r, q), q.pc # "saving"
  PROVE  \A s \in Requests : \A c : InHand(s, c)' => s # r /\ InHand(s, c)
<1> SUFFICES ASSUME NEW s \in Requests, NEW c, InHand(s, c)'
             PROVE  s # r /\ InHand(s, c)
  OBVIOUS
<1>1. requests'[s] = IF s = r THEN q ELSE requests[s]
  BY DEF Set, IInv, Types
<1> QED
  BY <1>1 DEF InHand

-----------------------------------------------------------------------------
(* An action takes the invariants along.                                   *)
Kept == IInv' /\ UsedUp'

LEMMA GenerateKeeps ==
  ASSUME IInv, UsedUp, NEW r \in Requests, GenerateResetCode(r)
  PROVE  Kept
<1> DEFINE copy == [row EXCEPT !.code = codes']
<1>1. /\ codes' = codes + 1 /\ codes' <= MaxCodes /\ row.present
      /\ Holds(r, "forgot", None, copy) /\ UNCHANGED revived
  BY Now, ResetAssumption DEF GenerateResetCode, Holds
<1>2. codes' \in codes..MaxCodes /\ codes' \in 1..codes' /\ row \in Account(codes')
  BY <1>1, Now, Grows, ResetAssumption
<1>3. copy.code = codes' /\ copy.present /\ copy \in Account(codes')
  BY <1>1, <1>2, Now DEF Account
<1> HIDE DEF copy
<1>4. IInv'
  <2>1. "forgot" \in Ops /\ None \in {None} \cup 1..codes
    BY DEF Ops
  <2> QED
    BY <1>1, <1>2, <1>3, <2>1, HoldsOK
<1>5. UsedUp'
  BY <1>1, <1>3, HoldsUsedUp
<1> QED
  BY <1>4, <1>5 DEF Kept

(* The operations that keep the codes and change a part of the account.    *)
LEMMA ChangeKeeps ==
  ASSUME IInv, UsedUp, NEW r \in Requests, NEW op \in {"reset", "change", "update"},
         NEW code \in {None, row.code}, NEW copy,
         Holds(r, op, code, copy), UNCHANGED codes, copy \in Account(codes), copy.present,
         op = "reset" => code \in 1..codes /\ copy.code = None,
         revived \subseteq revived', copy.code \in {None, row.code} \cup revived'
  PROVE  Kept
<1>1. codes' \in codes..MaxCodes /\ code \in {None} \cup 1..codes
  BY Now
<1>2. op \in Ops /\ op # "forgot"
  BY DEF Ops
<1>3. IInv'
  BY <1>1, <1>2, HoldsOK
<1>4. UsedUp'
  BY HoldsUsedUp
<1> QED
  BY <1>3, <1>4 DEF Kept

LEMMA ResetKeeps ==
  ASSUME IInv, UsedUp, NEW r \in Requests, NEW code, NEW password \in Passwords,
         ResetPasswordWithCode(r, code, password)
  PROVE  Kept
<1> DEFINE copy == [row EXCEPT !.password = password, !.code = None]
<1>1. /\ row.present /\ row.code # None /\ code = row.code /\ Holds(r, "reset", code, copy)
      /\ UNCHANGED <<codes, revived>>
  BY DEF ResetPasswordWithCode, Holds
<1>2. copy \in Account(codes) /\ copy.present /\ copy.code = None /\ code \in 1..codes
  BY <1>1, Now DEF Account
<1> HIDE DEF copy
<1> QED
  BY <1>1, <1>2, ChangeKeeps

LEMMA ChangePasswordKeeps ==
  ASSUME IInv, UsedUp, NEW r \in Requests, NEW old, NEW password \in Passwords,
         ChangePassword(r, old, password)
  PROVE  Kept
<1> DEFINE copy == [row EXCEPT !.password = password]
<1>1. row.present /\ Holds(r, "change", None, copy) /\ UNCHANGED <<codes, revived>>
  BY DEF ChangePassword, Holds
<1>2. copy \in Account(codes) /\ copy.present /\ copy.code = row.code
  BY <1>1, Now DEF Account
<1> HIDE DEF copy
<1> QED
  BY <1>1, <1>2, ChangeKeeps

LEMMA UpdateKeeps ==
  ASSUME IInv, UsedUp, NEW r \in Requests, NEW other \in Others,
         NEW code \in {row.code, None} \cup 1..codes, NEW password \in UpdatedPasswords,
         Update(r, other, code, password)
  PROVE  Kept
<1> DEFINE copy == [row EXCEPT !.other = other, !.code = code, !.password = password]
<1>1. row.present /\ Holds(r, "update", None, copy) /\ UNCHANGED codes
  BY DEF Update, Holds
<1>2. password \in Passwords \cup {None, Raw} /\ code \in {None} \cup 1..codes
  BY Now DEF UpdatedPasswords, Account
<1>3. copy \in Account(codes) /\ copy.present /\ copy.code = code
  BY <1>1, <1>2, Now DEF Account
<1>4. revived \subseteq revived' /\ code \in {None, row.code} \cup revived'
  BY DEF Update
<1> HIDE DEF copy
<1> QED
  BY <1>1, <1>3, <1>4, ChangeKeeps

(* The save of a reset uses its code up; that of another request puts no   *)
(* used code back that is not counted as put back.                         *)
LEMMA SaveUsedUp ==
  ASSUME IInv, UsedUp, NEW r \in Requests, Save(r)
  PROVE  UsedUp'
<1> DEFINE q == requests[r]
           others == {s \in Requests \ {r} : InHand(s, q.code)}
<1>1. /\ q \in Request(codes) /\ Copies(q, codes) /\ q.pc = "saving"
      /\ row' = q.copy /\ UNCHANGED codes
      /\ \A c \in {q.code, q.copy.code} : InHand(r, c)
  BY DEF IInv, Types, Save, InHand
<1>2. \A s \in Requests : \A c : InHand(s, c)' => s # r /\ InHand(s, c)
  <2>1. PICK p \in {Free, [q EXCEPT !.pc = "sending"]} : Set(r, p)
    BY DEF Save
  <2>2. p.pc # "saving"
    BY <1>1, <2>1 DEF Free, Request
  <2> QED
    BY <2>1, <2>2, Released
<1>3. CASE q.op = "reset"
  <2>1. /\ q.code \in 1..codes /\ row'.code = None
        /\ used' = used \cup {q.code} /\ reused' = reused \cup (used \cap {q.code})
        /\ revived' = IF others = {} THEN revived ELSE revived \cup {q.code}
    BY <1>1, <1>3 DEF Save, Copies
  <2>2. q.code \in used => q.code \in revived
    BY <1>1 DEF UsedUp
  <2>3. reused' \subseteq revived'
    BY <2>1, <2>2 DEF UsedUp
  <2>4. ASSUME NEW c \in used' \ revived'
        PROVE  row'.code # c /\ \A s \in Requests : ~InHand(s, c)'
    <3>1. c # None
      BY <2>1, <2>4, ResetAssumption DEF IInv, Types
    <3>2. CASE c \in used \ revived
      BY <1>2, <2>1, <3>1, <3>2 DEF UsedUp
    <3>3. CASE c = q.code
      <4>1. others = {}
        BY <2>1, <2>4, <3>3
      <4> QED
        BY <1>2, <2>1, <3>1, <3>3, <4>1
    <3> QED
      BY <2>1, <2>4, <3>2, <3>3
  <2> QED
    BY <2>3, <2>4 DEF UsedUp
<1>4. CASE q.op # "reset"
  <2>1. UNCHANGED <<used, reused, revived>>
    BY <1>4 DEF Save, history
  <2>2. ASSUME NEW c \in used' \ revived'
        PROVE  row'.code # c /\ \A s \in Requests : ~InHand(s, c)'
    <3>1. \A s \in Requests : ~InHand(s, c)
      BY <2>1, <2>2 DEF UsedUp
    <3>2. q.copy.code # c
      BY <1>1, <3>1
    <3> QED
      BY <1>1, <1>2, <3>1, <3>2
  <2> QED
    BY <2>1, <2>2 DEF UsedUp
<1> QED
  BY <1>3, <1>4

LEMMA SaveOK ==
  ASSUME IInv, NEW r \in Requests, Save(r)
  PROVE  IInv'
<1> DEFINE q == requests[r]
<1>1. /\ q \in Request(codes) /\ Copies(q, codes) /\ q.pc = "saving"
      /\ row' = q.copy /\ UNCHANGED <<codes, expired, inbox>>
  BY DEF IInv, Types, Save
<1>2. row' \in Account(codes') /\ codes' \in codes..MaxCodes
  BY <1>1, Now DEF Request
<1>3. used' \subseteq 1..codes' /\ reused' \subseteq used'
  <2>1. CASE q.op = "reset"
    <3>1. /\ q.code \in 1..codes /\ used' = used \cup {q.code}
          /\ reused' = reused \cup (used \cap {q.code})
      BY <1>1, <2>1 DEF Save, Copies
    <3> QED
      BY <1>1, <3>1 DEF IInv, Types
  <2>2. CASE q.op # "reset"
    BY <1>1, <2>2 DEF Save, history, IInv, Types
  <2> QED
    BY <2>1, <2>2
<1>4. expired' \subseteq 1..codes' /\ inbox' \subseteq 1..codes'
  BY <1>1 DEF IInv, Types
<1>5. CASE q.op = "forgot"
  <2> DEFINE p == [q EXCEPT !.pc = "sending"]
  <2>1. p \in Request(codes') /\ Copies(p, codes')
    BY <1>1, <1>5 DEF Request, PCs, Copies
  <2>2. Set(r, p)
    BY <1>5 DEF Save
  <2> HIDE DEF p
  <2> QED
    BY <1>2, <1>3, <1>4, <2>1, <2>2, RequestChanges
<1>6. CASE q.op # "forgot"
  <2>1. Set(r, Free)
    BY <1>6 DEF Save
  <2>2. Free \in Request(codes') /\ Copies(Free, codes')
    BY <1>1, Now, FreeOK
  <2> QED
    BY <1>2, <1>3, <1>4, <2>1, <2>2, RequestChanges
<1> QED
  BY <1>5, <1>6

LEMMA OthersKeep ==
  ASSUME IInv, UsedUp,
         \/ \E r \in Requests : SaveFails(r) \/ SendCode(r)
         \/ Delete \/ \E c \in 1..MaxCodes : Expire(c)
         \/ UNCHANGED vars
  PROVE  Kept
<1>1. ASSUME NEW r \in Requests, SaveFails(r) \/ SendCode(r)
      PROVE  Kept
  <2>1. Set(r, Free) /\ UNCHANGED <<row, codes, expired, used, reused, revived>>
    BY <1>1 DEF SaveFails, SendCode
  <2>2. Free \in Request(codes') /\ Copies(Free, codes') /\ Free.pc # "saving"
    BY <2>1, Now, FreeOK DEF Free
  <2>3. inbox' \subseteq 1..codes'
    <3>1. inbox' = inbox \/ (SendCode(r) /\ inbox' = inbox \cup {requests[r].copy.code})
      BY <1>1 DEF SaveFails, SendCode
    <3>2. SendCode(r) => requests[r].copy.code \in 1..codes
      BY DEF SendCode, IInv, Copies
    <3> QED
      BY <2>1, <3>1, <3>2 DEF IInv, Types
  <2>4. /\ codes' \in codes..MaxCodes /\ row' \in Account(codes') /\ expired' \subseteq 1..codes'
        /\ used' \subseteq 1..codes' /\ reused' \subseteq used'
    BY <2>1, Now DEF IInv, Types
  <2>5. IInv'
    BY <2>1, <2>2, <2>3, <2>4, RequestChanges
  <2>6. \A s \in Requests : \A c : InHand(s, c)' => InHand(s, c)
    BY <2>1, <2>2, Released
  <2>7. UsedUp'
    BY <2>1, <2>6 DEF UsedUp
  <2> QED
    BY <2>5, <2>7 DEF Kept
<1>2. CASE Delete
  <2>1. UNCHANGED <<requests, codes, expired, inbox, used, reused, revived>> /\ row' = Absent
    BY <1>2 DEF Delete
  <2>2. row' \in Account(codes') /\ row'.code = None /\ None \notin used
    BY <2>1, Now, FreeOK, UsedAreCodes DEF Absent
  <2>3. IInv'
    BY <2>1, <2>2 DEF IInv, Types
  <2>4. UsedUp'
    BY <2>1, <2>2 DEF UsedUp, InHand
  <2> QED
    BY <2>3, <2>4 DEF Kept
<1>3. ASSUME NEW c \in 1..MaxCodes, Expire(c)
      PROVE  Kept
  <2>1. /\ UNCHANGED <<row, requests, codes, inbox, used, reused, revived>>
        /\ expired' = expired \cup {c} /\ c \in 1..codes
    BY <1>3 DEF Expire
  <2>2. IInv'
    BY <2>1 DEF IInv, Types
  <2>3. UsedUp'
    BY <2>1 DEF UsedUp, InHand
  <2> QED
    BY <2>2, <2>3 DEF Kept
<1>4. CASE UNCHANGED vars
  <2>1. UNCHANGED <<row, requests, codes, expired, inbox, used, reused, revived>>
    BY <1>4 DEF vars
  <2> QED
    BY <2>1 DEF IInv, Types, UsedUp, InHand, Kept
<1> QED
  BY <1>1, <1>2, <1>3, <1>4

LEMMA NextKeeps == ASSUME IInv, UsedUp, [Next]_vars PROVE Kept
<1>1. ASSUME NEW r \in Requests, GenerateResetCode(r) PROVE Kept
  BY <1>1, GenerateKeeps
<1>2. ASSUME NEW r \in Requests, Save(r) PROVE Kept
  BY <1>2, SaveOK, SaveUsedUp DEF Kept
<1>3. ASSUME NEW r \in Requests, NEW c \in inbox, NEW p \in Passwords, ResetPasswordWithCode(r, c, p)
      PROVE  Kept
  BY <1>3, ResetKeeps
<1>4. ASSUME NEW r \in Requests, NEW old \in Passwords, NEW p \in Passwords, ChangePassword(r, old, p)
      PROVE  Kept
  BY <1>4, ChangePasswordKeeps
<1>5. ASSUME NEW r \in Requests, NEW other \in Others, NEW c \in {row.code, None} \cup 1..codes,
             NEW p \in UpdatedPasswords, Update(r, other, c, p)
      PROVE  Kept
  BY <1>5, UpdateKeeps
<1> QED
  BY <1>1, <1>2, <1>3, <1>4, <1>5, OthersKeep DEF Next, Advance
-----------------------------------------------------------------------------
(* The account, the codes and the requests keep their types; a request in  *)
(* flight holds an account that was found.                                 *)
THEOREM ResetTypes == Spec => []TypeOK
<1>1. Init => IInv /\ UsedUp
  BY InitOK
<1>2. IInv /\ UsedUp /\ [Next]_vars => (IInv /\ UsedUp)'
  BY NextKeeps DEF Kept
<1>3. IInv => TypeOK
  BY DEF IInv, Types, TypeOK, Account, Request, PCs, Copies
<1> QED
  BY <1>1, <1>2, <1>3, PTL DEF Spec

(* With no assumption on how requests overlap: a reset code sets a second  *)
(* password only if it was in another request's hand when it set the       *)
(* first, or a body has put it back.                                       *)
THEOREM CodesWorkOnce == Spec => []CodeUsedOnce
<1>1. Init => IInv /\ UsedUp
  BY InitOK
<1>2. IInv /\ UsedUp /\ [Next]_vars => (IInv /\ UsedUp)'
  BY NextKeeps DEF Kept
<1>3. UsedUp => CodeUsedOnce
  BY DEF UsedUp, CodeUsedOnce
<1> QED
  BY <1>1, <1>2, <1>3, PTL DEF Spec
=================================================================================
