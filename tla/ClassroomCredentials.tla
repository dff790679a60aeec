-------------------------- MODULE ClassroomCredentials --------------------------
(***************************************************************************)
(* ClassroomService, GoogleAuthService and ClassroomController: requests   *)
(* that read Google Classroom, post announcements and send mail.  One      *)
(* OAuth client serves all of them: its credentials are set when a request *)
(* begins to talk to Google, and each call goes out with the credentials   *)
(* the client has when the call starts.  Google (external) may refuse a    *)
(* call, or do it and have its answer lost.                                *)
(***************************************************************************)
EXTENDS Naturals, FiniteSets

CONSTANTS
  Requests,  \* slots for requests in flight
  Items,     \* entries of a list: of courses, of the works of a course, or of
             \* the recipients as a broadcast names them, where one address
             \* may stand in several entries, in one spelling or another
  Owners,    \* Google accounts, whose credentials they stand for
  Admin,     \* ADMIN_SYSTEM_EMAIL
  Formers,   \* those that were it under an earlier configuration
  None

ASSUME OwnersAssumption ==
  /\ Admin \in Owners /\ Formers \subseteq Owners
  /\ None \notin Owners \cup {"ok", "error"}

VARIABLES
  requests,    \* requests[r]: kind, pc, refresh, tokens, profile, listed, todo, results,
               \* and posted: announcements or mails Google made for it, by item
  flying,      \* Google calls in flight: by, what, item, as (the credentials)
  client,      \* the credentials of the OAuth client
  googleAuth,  \* active system tokens, by e-mail: sets of [email, tokens]
  linked,      \* tokens and profiles saved with accounts: [tokens, profile]
  cache        \* classroom_full_state, or None

vars == <<requests, flying, client, googleAuth, linked, cache>>

SystemKinds  == {"courses", "live", "announce", "students", "grades", "mail"}
AccountKinds == {"gradebook", "announceBot"}
Announces    == {"announce", "announceBot"}
Contained    == Announces \cup {"mail", "live", "students", "grades"}
Serial       == Announces \cup {"mail", "gradebook"}

NoResults == [i \in Items |-> None]
Fresh == [kind |-> None, pc |-> "idle", refresh |-> FALSE, tokens |-> None, profile |-> None,
          listed |-> {}, todo |-> {}, results |-> NoResults,
          posted |-> [i \in Items |-> 0]]
Waits(r) == requests[r].pc \in {"idle", "answered"}
---------------------------------------------------------------------------------
Init ==
  /\ requests = [r \in Requests |-> Fresh]
  /\ flying = {} /\ client = None /\ cache = None
  /\ googleAuth \in SUBSET {[email |-> o, tokens |-> o] : o \in Formers}
  /\ linked = {[tokens |-> o, profile |-> o] : o \in Formers}

Set(r, request) == requests' = [requests EXCEPT ![r] = request]
Goto(r, pc) == Set(r, [requests[r] EXCEPT !.pc = pc])
Calls(r, what, items, as) == {[by |-> r, what |-> what, item |-> i, as |-> as] : i \in items}

\* A request that ends forgets all but its answer, and a failed one all.
Answer(r, results, listed) ==
  [Fresh EXCEPT !.kind = requests[r].kind, !.pc = "answered", !.results = results,
                !.listed = listed, !.posted = requests[r].posted]
Succeed(r) == Set(r, Answer(r, requests[r].results, requests[r].listed))
Fail(r) == Set(r, Fresh)

(* A request arrives and reads tokens: the first active row of google_auth *)
(* in no particular order, or those of an account.  A broadcast reads them *)
(* for each recipient.                                                     *)
Arrive(r, kind, refresh, tokens) ==
  /\ requests[r].pc = "idle"
  /\ refresh => kind = "live"
  /\ kind \in SystemKinds => tokens \in {a.tokens : a \in googleAuth}
  /\ kind \in AccountKinds => tokens \in {a.tokens : a \in linked}
  /\ Set(r, [Fresh EXCEPT !.kind = kind, !.refresh = refresh, !.tokens = tokens,
               !.pc = IF kind = "live" THEN IF refresh THEN "refreshing" ELSE "looking"
                      ELSE "admitted"])
  /\ UNCHANGED <<flying, client, googleAuth, linked, cache>>

ArriveBroadcast(r, users) ==
  /\ requests[r].pc = "idle"
  /\ Set(r, [Fresh EXCEPT !.kind = "mail", !.pc = "working", !.listed = users, !.todo = users])
  /\ UNCHANGED <<flying, client, googleAuth, linked, cache>>

\* The callback of Google's consent page brings a code, exchanged for tokens.
ArriveCallback(r, owner) ==
  /\ requests[r].pc = "idle"
  /\ Set(r, [Fresh EXCEPT !.kind = "callback", !.tokens = owner, !.pc = "admitted"])
  /\ UNCHANGED <<flying, client, googleAuth, linked, cache>>
---------------------------------------------------------------------------------
(* getLiveFullState: the cached state is dropped on demand, then looked up.*)
RefreshCache(r) ==
  /\ requests[r].pc = "refreshing"
  /\ cache' = None /\ Goto(r, "looking")
  /\ UNCHANGED <<flying, client, googleAuth, linked>>

LookInCache(r) ==
  /\ requests[r].pc = "looking"
  /\ IF cache = None THEN Goto(r, "admitted")
     ELSE Set(r, Answer(r, cache.results, cache.listed))
  /\ UNCHANGED <<flying, client, googleAuth, linked, cache>>

ExpireCache == /\ cache # None /\ cache' = None
               /\ UNCHANGED <<requests, flying, client, googleAuth, linked>>

(* getClassroom or getGoogleProfile and the first call, with no await      *)
(* between: the list of courses or works, or the profile.                  *)
FirstCall(kind) == IF kind = "callback" THEN "profile" ELSE "list"

\* Mutant: the profile is asked for with the credentials the client has.
BeginUnset(r) ==
  /\ requests[r].pc = "admitted"
  /\ client' = IF requests[r].kind = "callback" THEN client ELSE requests[r].tokens
  /\ flying' = flying \cup Calls(r, FirstCall(requests[r].kind), {None}, client')
  /\ Goto(r, "asked")
  /\ UNCHANGED <<googleAuth, linked, cache>>

Begin(r) ==
  /\ requests[r].pc = "admitted"
  /\ client' = requests[r].tokens
  /\ flying' = flying \cup Calls(r, FirstCall(requests[r].kind), {None}, client')
  /\ Goto(r, "asked")
  /\ UNCHANGED <<googleAuth, linked, cache>>

(* The list arrives.  What is asked of all courses at once starts now,     *)
(* with the credentials the client has by now.                             *)
Listed(r, items) ==
  LET rest == Calls(r, "item", items, client)
      one == requests[r].kind \in Serial
  IN \E g \in flying :
       /\ g.by = r /\ g.what = "list"
       /\ IF requests[r].kind = "courses"
            THEN /\ flying' = flying \ {g}
                 /\ Set(r, Answer(r, requests[r].results, items))
            ELSE /\ flying' = (flying \ {g}) \cup (IF one THEN {} ELSE rest)
                 /\ Set(r, [requests[r] EXCEPT !.pc = "working", !.listed = items, !.todo = items])
       /\ UNCHANGED <<client, googleAuth, linked, cache>>

FirstCallFails(r) ==
  \E g \in flying :
    /\ g.by = r /\ g.what \in {"list", "profile"}
    /\ flying' = flying \ {g} /\ Fail(r)
    /\ UNCHANGED <<client, googleAuth, linked, cache>>

(* The loops over courses or works: one call after the other.              *)
Flies(r) == \E g \in flying : g.by = r
Item(r) == CHOOSE i \in requests[r].todo : TRUE  \* in the order of the list
NextItem(r) ==
  /\ requests[r].pc = "working" /\ requests[r].kind \in Serial \ {"mail"}
  /\ requests[r].todo # {} /\ ~Flies(r)
  /\ flying' = flying \cup Calls(r, "item", {Item(r)}, client)
  /\ UNCHANGED <<requests, client, googleAuth, linked, cache>>

(* sendEmail: tokens are read, and once they are there the credentials are *)
(* set and the mail goes out; without active tokens it fails.              *)
ReadForMail(r, tokens) ==
  /\ requests[r].pc = "working" /\ requests[r].kind = "mail"
  /\ requests[r].todo # {} /\ ~Flies(r) /\ requests[r].tokens = None
  /\ tokens \in {a.tokens : a \in googleAuth}
  /\ Set(r, [requests[r] EXCEPT !.tokens = tokens])
  /\ UNCHANGED <<flying, client, googleAuth, linked, cache>>

SendMail(r) ==
  /\ requests[r].kind = "mail" /\ requests[r].tokens # None /\ ~Flies(r)
  /\ client' = requests[r].tokens
  /\ flying' = flying \cup Calls(r, "mail", {Item(r)}, client')
  /\ UNCHANGED <<requests, googleAuth, linked, cache>>

\* Mutant: without tokens the recipient is tried again.
NoTokensForMailAgain(r) ==
  /\ requests[r].pc = "working" /\ requests[r].kind = "mail" /\ googleAuth = {}
  /\ requests[r].tokens = None /\ requests[r].todo # {}
  /\ Set(r, [requests[r] EXCEPT !.results[Item(r)] = "error"])
  /\ UNCHANGED <<flying, client, googleAuth, linked, cache>>

NoTokensForMail(r) ==
  /\ requests[r].pc = "working" /\ requests[r].kind = "mail" /\ googleAuth = {}
  /\ requests[r].tokens = None /\ requests[r].todo # {}
  /\ Set(r, [requests[r] EXCEPT !.todo = @ \ {Item(r)}, !.results[Item(r)] = "error"])
  /\ UNCHANGED <<flying, client, googleAuth, linked, cache>>

(* An entry that is no string cannot be put in lower case: outside the try *)
(* block, so that the broadcast ends there, the entries before it mailed.  *)
NotAnAddress(r) ==
  /\ requests[r].pc = "working" /\ requests[r].kind = "mail"
  /\ requests[r].todo # {} /\ requests[r].tokens = None
  /\ Fail(r)
  /\ UNCHANGED <<flying, client, googleAuth, linked, cache>>

\* Calls that make Google post or send something.
Posts(g) == g.what = "mail" \/ requests[g.by].kind \in Announces

\* Mutants: a call without an answer is made again; one failure fails all.
ItemDoneAgain(g, done, told) ==
  LET request == requests[g.by]
  IN /\ g.what \in {"item", "mail", "works"} /\ (told => done)
     /\ flying' = flying \ {g}
     /\ Set(g.by, [request EXCEPT
          !.todo = IF told \/ ~Posts(g) THEN @ \ {g.item} ELSE @,
          !.results[g.item] = IF told THEN "ok" ELSE "error",
          !.posted[g.item] = IF done /\ Posts(g) /\ @ < 2 THEN @ + 1 ELSE @,
          !.tokens = IF g.what = "mail" THEN None ELSE @])
     /\ UNCHANGED <<client, googleAuth, linked, cache>>
ItemDoneUncaught(g, done, told) ==
  LET request == requests[g.by]
  IN /\ g.what \in {"item", "mail", "works"} /\ (told => done)
     /\ flying' = flying \ {g}
     /\ IF told THEN Set(g.by, [request EXCEPT !.todo = @ \ {g.item}, !.results[g.item] = "ok"])
        ELSE Fail(g.by)
     /\ UNCHANGED <<client, googleAuth, linked, cache>>

(* A call about one item ends.  Refused, or done with its answer lost, it  *)
(* is an error of that item, which the students and grades of a course are *)
(* left out for; a gradebook fails as a whole.  Grades, if a course has    *)
(* any, take a second call, for the names of its works.                    *)
ItemDone(g, done, told) ==
  LET request == requests[g.by]
  IN /\ g.what \in {"item", "mail", "works"} /\ (told => done)
     /\ \/ /\ told /\ request.kind = "grades" /\ g.what = "item"
           /\ flying' = (flying \ {g}) \cup Calls(g.by, "works", {g.item}, client)
           /\ UNCHANGED requests
        \/ /\ flying' = flying \ {g}
           /\ IF ~told /\ request.kind \notin Contained THEN Fail(g.by)
              ELSE Set(g.by, [request EXCEPT
                     !.todo = @ \ {g.item},
                     !.results[g.item] = IF told THEN "ok" ELSE "error",
                     !.posted[g.item] = IF done /\ Posts(g) THEN @ + 1 ELSE @,
                     !.tokens = IF g.what = "mail" THEN None ELSE @])
     /\ UNCHANGED <<client, googleAuth, linked, cache>>

(* All items are done: announcements end by dropping the cached state, a   *)
(* live report by storing it for an hour.                                  *)
\* Mutant: the calls for the courses are not awaited.
AllDoneEarly(r) ==
  /\ requests[r].pc = "working"
  /\ cache' = CASE requests[r].kind \in Announces -> None
                [] requests[r].kind = "live" ->
                     [listed |-> requests[r].listed, results |-> requests[r].results]
                [] OTHER -> cache
  /\ Succeed(r)
  /\ UNCHANGED <<flying, client, googleAuth, linked>>

AllDone(r) ==
  /\ requests[r].pc = "working" /\ requests[r].todo = {}
  /\ cache' = CASE requests[r].kind \in Announces -> None
                [] requests[r].kind = "live" ->
                     [listed |-> requests[r].listed, results |-> requests[r].results]
                [] OTHER -> cache
  /\ Succeed(r)
  /\ UNCHANGED <<flying, client, googleAuth, linked>>
---------------------------------------------------------------------------------
(* callback: the profile arrives, that of the credentials the call had.    *)
Profile(r) ==
  \E g \in flying :
    /\ g.by = r /\ g.what = "profile"
    /\ flying' = flying \ {g}
    /\ Set(r, [requests[r] EXCEPT !.profile = g.as,
                 !.pc = IF g.as = Admin THEN "saveSystem" ELSE "saveAccount"])
    /\ UNCHANGED <<client, googleAuth, linked, cache>>

SaveAdminTokens(r) ==
  LET row == [email |-> requests[r].profile, tokens |-> requests[r].tokens] IN
    /\ requests[r].pc = "saveSystem"
    /\ googleAuth' = {a \in googleAuth : a.email # row.email} \cup {row}
    /\ Goto(r, "saveAccount")
    /\ UNCHANGED <<flying, client, linked, cache>>

SaveGoogleTokens(r) ==
  /\ requests[r].pc = "saveAccount"
  /\ linked' = linked \cup {[tokens |-> requests[r].tokens, profile |-> requests[r].profile]}
  /\ Succeed(r)
  /\ UNCHANGED <<flying, client, googleAuth, cache>>

SaveFails(r) == /\ requests[r].pc \in {"saveSystem", "saveAccount"} /\ Fail(r)
                /\ UNCHANGED <<flying, client, googleAuth, linked, cache>>
---------------------------------------------------------------------------------
\* The client has read the answer.
Forget(r) == /\ requests[r].pc = "answered" /\ Fail(r)
             /\ UNCHANGED <<flying, client, googleAuth, linked, cache>>

Advance(r) ==
  \/ RefreshCache(r) \/ LookInCache(r) \/ Begin(r) \/ FirstCallFails(r)
  \/ \E items \in SUBSET Items : Listed(r, items)
  \/ NextItem(r) \/ SendMail(r) \/ NoTokensForMail(r)
  \/ \E o \in Owners : ReadForMail(r, o)
  \/ \E g \in flying, done, told \in BOOLEAN : g.by = r /\ ItemDone(g, done, told)
  \/ AllDone(r) \/ Profile(r) \/ SaveAdminTokens(r) \/ SaveGoogleTokens(r) \/ SaveFails(r)

Next ==
  \/ \E r \in Requests, kind \in (SystemKinds \ {"mail"}) \cup AccountKinds, refresh \in BOOLEAN,
        o \in Owners : Arrive(r, kind, refresh, o)
  \/ \E r \in Requests, users \in SUBSET Items : ArriveBroadcast(r, users)
  \/ \E r \in Requests, o \in Owners : ArriveCallback(r, o)
  \/ \E r \in Requests : Advance(r) \/ NotAnAddress(r) \/ Forget(r)
  \/ ExpireCache

Spec == Init /\ [][Next]_vars

\* Google answers or the call fails; the database and Redis answer.
FairSpec == Spec /\ \A r \in Requests : WF_vars(Advance(r))
---------------------------------------------------------------------------------
TypeOK ==
  /\ \A r \in Requests :
       /\ requests[r].pc \in {"idle", "refreshing", "looking", "admitted", "asked", "working",
                             "saveSystem", "saveAccount", "answered"}
       /\ requests[r].todo \subseteq requests[r].listed
       /\ requests[r].results \in [Items -> {None, "ok", "error"}]
  /\ \A g \in flying : g.by \in Requests /\ ~Waits(g.by) /\ g.as \in Owners \cup {None}
  /\ client \in Owners \cup {None}

(* The profile saved with tokens is that of their owner, so that only an   *)
(* administrator's tokens become the system's.                             *)
ProfilesMatch ==
  /\ \A a \in googleAuth : a.tokens = a.email /\ a.email \in {Admin} \cup Formers
  /\ \A l \in linked : l.tokens = l.profile

(* An announcement is made at most once for a course, and a mail at most   *)
(* once for an entry of the list of recipients (an address gets as many as *)
(* it has entries), also when the answer of the first call is lost; and    *)
(* what success is told of was made.                                       *)
PostedOnce ==
  \A r \in Requests, i \in Items :
    /\ requests[r].posted[i] <= 1
    /\ requests[r].kind \in Announces \cup {"mail"} /\ requests[r].results[i] = "ok"
         => requests[r].posted[i] = 1

(* The answer to an announcement or a broadcast, a live report and the     *)
(* state that is cached tell of every course or entry of their list how it *)
(* went, and of no other.                                                  *)
ReportIsWhole ==
  /\ \A r \in Requests :
       requests[r].pc = "answered" /\ requests[r].kind \in Announces \cup {"mail", "live"} =>
         {i \in Items : requests[r].results[i] # None} = requests[r].listed
  /\ cache # None => {i \in Items : cache.results[i] # None} = cache.listed

(* Every request is answered.                                              *)
RequestsEnd == \A r \in Requests : ~Waits(r) ~> Waits(r)

(* "The platform itself takes the admin's system token" (the comment on    *)
(* the live report): every call is made with the tokens of its request.    *)
OwnCredentials == \A g \in flying : g.as = requests[g.by].tokens
=================================================================================
