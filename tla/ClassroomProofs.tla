---------------------------- MODULE ClassroomProofs ----------------------------
(* The safety of ClassroomCredentials, for any number of requests, courses *)
(* and Google accounts.                                                    *)
EXTENDS ClassroomCredentials, TLAPS

(* What a request and its calls are at each point.  Whole: what is known   *)
(* of each item that was listed and is not to be done any more.            *)
Kinds  == SystemKinds \cup AccountKinds \cup {"callback"}
Before == {"refreshing", "looking", "admitted", "asked", "saveSystem", "saveAccount"}
Token  == Owners \cup {None}
Whole(results, done) == {i \in Items : results[i] # None} = done

Request ==
  [kind: Kinds \cup {None}, pc: Before \cup {"idle", "working", "answered"}, refresh: BOOLEAN,
   tokens: Token, profile: Token, listed: SUBSET Items, todo: SUBSET Items,
   results: [Items -> {None, "ok", "error"}], posted: [Items -> Nat]]

Call == [by: Requests, what: {"list", "profile", "item", "works", "mail"},
         item: Items \cup {None}, as: Token]

Knows(q) ==
  /\ q.pc # "idle" => q.kind \in Kinds
  /\ q.pc \in {"idle"} \cup Before =>
       q.todo = {} /\ q.listed = {} /\ q.results = NoResults
  /\ q.pc \in Before => q.kind # "mail"
  /\ q.pc \in {"refreshing", "looking"} => q.kind = "live"
  /\ q.pc \in {"saveSystem", "saveAccount"} => q.kind = "callback" /\ q.profile = q.tokens
  /\ q.pc = "saveSystem" => q.profile = Admin
  /\ q.pc = "working" => /\ q.kind \in Contained \cup {"gradebook"}
                         /\ Whole(q.results, q.listed \ q.todo)
  /\ q.pc = "answered" /\ q.kind \in Announces \cup {"mail", "live"} => Whole(q.results, q.listed)
  /\ q.kind = "mail" /\ q.tokens # None => q.pc = "working" /\ q.todo # {}
  /\ q.todo \subseteq q.listed

(* What was posted: nothing for an item still to be done, nothing twice.   *)
Posted(q) ==
  /\ q.pc \in {"idle"} \cup Before => \A i \in Items : q.posted[i] = 0
  /\ \A i \in Items :
       /\ q.posted[i] <= 1
       /\ i \in q.todo => q.posted[i] = 0
       /\ q.kind \in Announces \cup {"mail"} /\ q.results[i] = "ok" => q.posted[i] = 1

(* A call is the first one of its request, alone and with its tokens, or   *)
(* one about an item that is still to be done.                             *)
Fits(q, g) ==
  \/ /\ g.what = "list" /\ q.pc = "asked" /\ q.kind # "callback"
     /\ g.item = None /\ g.as = q.tokens
  \/ /\ g.what = "profile" /\ q.pc = "asked" /\ q.kind = "callback"
     /\ g.item = None /\ g.as = q.tokens
  \/ /\ g.what \in {"item", "works"} /\ q.pc = "working" /\ q.kind # "mail" /\ g.item \in q.todo
  \/ /\ g.what = "mail" /\ q.pc = "working" /\ q.kind = "mail" /\ g.item \in q.todo
     /\ g.as = q.tokens /\ q.tokens # None

(* No two calls about one thing, and no two calls at all in a loop.        *)
Apart(q, calls) ==
  \A g, h \in calls : g.item = h.item \/ q.kind \in Serial => g = h

Good(q, calls) ==
  /\ q \in Request /\ Knows(q) /\ Posted(q)
  /\ \A g \in calls : Fits(q, g)
  /\ Apart(q, calls)

Mine(r) == {g \in flying : g.by = r}

CacheOK ==
  cache # None =>
    /\ cache \in [listed: SUBSET Items, results: [Items -> {None, "ok", "error"}]]
    /\ Whole(cache.results, cache.listed)

IInv ==
  /\ requests \in [Requests -> Request] /\ flying \subseteq Call /\ client \in Token
  /\ \A r \in Requests : Good(requests[r], Mine(r))
  /\ CacheOK
  /\ ProfilesMatch

-----------------------------------------------------------------------------
(* Steps of one request.                                                   *)

LEMMA RequestOf ==
  ASSUME IInv, NEW r \in Requests
  PROVE  /\ requests[r] \in Request /\ Knows(requests[r]) /\ Posted(requests[r])
         /\ \A g \in Mine(r) : Fits(requests[r], g) /\ g \in Call /\ g.by = r /\ g \in flying
         /\ Apart(requests[r], Mine(r))
         /\ \A g \in flying : g.by = r => g \in Mine(r)
BY DEF IInv, Good, Mine

LEMMA OneRequest ==
  ASSUME IInv, NEW r \in Requests, NEW q, NEW C \in SUBSET Call, \A g \in C : g.by = r,
         Good(q, C), requests' = [requests EXCEPT ![r] = q],
         flying' = (flying \ Mine(r)) \cup C,
         client' \in Token, CacheOK', ProfilesMatch'
  PROVE  IInv'
<1>1. requests' \in [Requests -> Request] /\ flying' \subseteq Call
  BY DEF IInv, Good
<1>2. ASSUME NEW s \in Requests
      PROVE  Good(requests[s], Mine(s))'
  <2>1. CASE s = r
    <3>1. requests'[s] = q /\ Mine(s)' = C
      BY <2>1 DEF IInv, Mine
    <3>2. Good(requests'[s], Mine(s)')
      BY <3>1
    <3> QED
      BY <3>2 DEF Good, Knows, Posted, Apart, Fits
  <2>2. CASE s # r
    <3>1. requests'[s] = requests[s] /\ Mine(s)' = Mine(s)
      BY <2>2 DEF IInv, Mine
    <3>2. Good(requests'[s], Mine(s)')
      BY <3>1 DEF IInv
    <3> QED
      BY <3>2 DEF Good, Knows, Posted, Apart, Fits
  <2> QED
    BY <2>1, <2>2
<1> QED
  BY <1>1, <1>2 DEF IInv

(* A step of r that leaves its calls alone, or ends one of them.           *)
LEMMA SameCalls ==
  ASSUME IInv, NEW r \in Requests, NEW q, Good(q, Mine(r)),
         requests' = [requests EXCEPT ![r] = q], flying' = flying,
         client' \in Token, CacheOK', ProfilesMatch'
  PROVE  IInv'
<1>1. Mine(r) \subseteq Call /\ flying' = (flying \ Mine(r)) \cup Mine(r)
  BY DEF IInv, Mine
<1>2. \A g \in Mine(r) : g.by = r
  BY DEF Mine
<1> QED
  BY <1>1, <1>2, OneRequest

LEMMA CallEnds ==
  ASSUME IInv, NEW r \in Requests, NEW q, NEW g \in Mine(r), Good(q, Mine(r) \ {g}),
         requests' = [requests EXCEPT ![r] = q], flying' = flying \ {g},
         client' \in Token, CacheOK', ProfilesMatch'
  PROVE  IInv'
<1>1. Mine(r) \ {g} \subseteq Call /\ flying' = (flying \ Mine(r)) \cup (Mine(r) \ {g})
  BY DEF IInv, Mine
<1>2. \A h \in Mine(r) \ {g} : h.by = r
  BY DEF Mine
<1> QED
  BY <1>1, <1>2, OneRequest

(* What is not touched stays as it is.                                     *)
LEMMA TablesSame ==
  ASSUME IInv
  PROVE  /\ client' = client => client' \in Token
         /\ cache' = cache \/ cache' = None => CacheOK'
         /\ UNCHANGED <<googleAuth, linked>> => ProfilesMatch'
BY DEF IInv, CacheOK, ProfilesMatch

(* Outside of a call and of a loop a request has no call in flight.        *)
LEMMA NoCalls ==
  ASSUME IInv, NEW r \in Requests, requests[r].pc \notin {"asked", "working"}
  PROVE  Mine(r) = {}
BY RequestOf DEF Fits

LEMMA LoopCalls ==
  ASSUME IInv, NEW r \in Requests, ~Flies(r)
  PROVE  Mine(r) = {}
BY DEF Flies, Mine

(* With no call in flight only what the request knows is at stake.         *)
LEMMA NoneGood ==
  ASSUME NEW q \in Request, Knows(q), Posted(q)
  PROVE  Good(q, {})
BY DEF Good, Apart

LEMMA FreshGood == Good(Fresh, {}) /\ Fresh \in Request
<1>1. Fresh \in Request
  BY DEF Fresh, Request, NoResults, Token, Before
<1>2. /\ Fresh.pc = "idle" /\ Fresh.todo = {} /\ Fresh.listed = {} /\ Fresh.results = NoResults
      /\ Fresh.tokens = None /\ \A i \in Items : Fresh.posted[i] = 0
  BY DEF Fresh
<1>3. Fresh.kind = None
  BY DEF Fresh
<1>4. Knows(Fresh) /\ Posted(Fresh)
  <2> HIDE DEF Fresh
  <2> QED
    BY <1>2, <1>3, OwnersAssumption DEF Knows, Posted, NoResults, Before
<1> QED
  BY <1>1, <1>4, NoneGood

LEMMA AnswerGood ==
  ASSUME IInv, NEW r \in Requests, requests[r].kind \in Kinds,
         NEW results \in [Items -> {None, "ok", "error"}], NEW listed \in SUBSET Items,
         requests[r].kind \in Announces \cup {"mail", "live"} => Whole(results, listed),
         \A i \in Items : requests[r].kind \in Announces \cup {"mail"} /\ results[i] = "ok"
                            => requests[r].posted[i] = 1
  PROVE  Good(Answer(r, results, listed), {})
<1> DEFINE q == Answer(r, results, listed)
<1>1. /\ q \in Request
      /\ q.kind = requests[r].kind /\ q.pc = "answered" /\ q.tokens = None /\ q.todo = {}
      /\ q.results = results /\ q.listed = listed /\ q.posted = requests[r].posted
  BY RequestOf DEF Answer, Fresh, Request, Token
<1>2. \A i \in Items : requests[r].posted[i] <= 1
  BY RequestOf DEF Posted
<1>3. Knows(q)
  <2> HIDE DEF q
  <2> QED
    BY <1>1 DEF Knows, Before
<1>4. Posted(q)
  <2> HIDE DEF q
  <2> QED
    BY <1>1, <1>2 DEF Posted, Before
<1> HIDE DEF q
<1>5. Good(q, {})
  BY <1>1, <1>3, <1>4, NoneGood
<1> QED
  BY <1>5 DEF q

(* A request that fails with no other call in flight.                      *)
LEMMA FailGood ==
  ASSUME IInv, NEW r \in Requests, Fail(r), Mine(r) = {}, flying' = flying,
         UNCHANGED <<client, googleAuth, linked, cache>>
  PROVE  IInv'
BY FreshGood, SameCalls, TablesSame DEF Fail, Set

LEMMA ArriveStep ==
  ASSUME IInv, NEW r \in Requests, NEW kind \in (SystemKinds \ {"mail"}) \cup AccountKinds,
         NEW refresh \in BOOLEAN, NEW o \in Owners, Arrive(r, kind, refresh, o)
  PROVE  IInv'
<1> DEFINE q == [Fresh EXCEPT !.kind = kind, !.refresh = refresh, !.tokens = o,
                   !.pc = IF kind = "live" THEN IF refresh THEN "refreshing" ELSE "looking"
                          ELSE "admitted"]
<1>1. Mine(r) = {}
  BY NoCalls DEF Arrive
<1>2. /\ q \in Request /\ q.kind = kind /\ q.todo = {} /\ q.listed = {}
      /\ q.results = NoResults /\ \A i \in Items : q.posted[i] = 0
      /\ q.pc \in {"refreshing", "looking", "admitted"}
      /\ q.pc \in {"refreshing", "looking"} => kind = "live"
  BY DEF Fresh, Request, Before, Token, Kinds, NoResults
<1>3. Good(q, {})
  <2> HIDE DEF q
  <2>1. Knows(q)
    BY <1>2 DEF Knows, Before, Kinds, SystemKinds, AccountKinds
  <2>2. Posted(q)
    BY <1>2, OwnersAssumption DEF Posted, NoResults
  <2> QED
    BY <1>2, <2>1, <2>2, NoneGood
<1>4. requests' = [requests EXCEPT ![r] = q]
  BY DEF Arrive, Set
<1> HIDE DEF q
<1> QED
  BY <1>1, <1>3, <1>4, SameCalls, TablesSame DEF Arrive

LEMMA ArriveBroadcastStep ==
  ASSUME IInv, NEW r \in Requests, NEW items \in SUBSET Items, ArriveBroadcast(r, items)
  PROVE  IInv'
<1> DEFINE q == [Fresh EXCEPT !.kind = "mail", !.pc = "working", !.listed = items, !.todo = items]
<1>1. Mine(r) = {}
  BY NoCalls DEF ArriveBroadcast
<1>2. /\ q \in Request /\ q.kind = "mail" /\ q.pc = "working" /\ q.todo = items /\ q.listed = items
      /\ q.results = NoResults /\ q.tokens = None /\ \A i \in Items : q.posted[i] = 0
  BY DEF Fresh, Request, Before, Token, Kinds, NoResults, SystemKinds
<1>3. Good(q, {})
  <2> HIDE DEF q
  <2>1. Knows(q)
    BY <1>2 DEF Knows, Before, Kinds, SystemKinds, Contained, Whole, NoResults
  <2>2. Posted(q)
    BY <1>2, OwnersAssumption DEF Posted, NoResults, Before
  <2> QED
    BY <1>2, <2>1, <2>2, NoneGood
<1>4. requests' = [requests EXCEPT ![r] = q]
  BY DEF ArriveBroadcast, Set
<1> HIDE DEF q
<1> QED
  BY <1>1, <1>3, <1>4, SameCalls, TablesSame DEF ArriveBroadcast

LEMMA ArriveCallbackStep ==
  ASSUME IInv, NEW r \in Requests, NEW o \in Owners, ArriveCallback(r, o)
  PROVE  IInv'
<1> DEFINE q == [Fresh EXCEPT !.kind = "callback", !.tokens = o, !.pc = "admitted"]
<1>1. Mine(r) = {}
  BY NoCalls DEF ArriveCallback
<1>2. /\ q \in Request /\ q.kind = "callback" /\ q.pc = "admitted" /\ q.todo = {} /\ q.listed = {}
      /\ q.results = NoResults /\ \A i \in Items : q.posted[i] = 0
  BY DEF Fresh, Request, Before, Token, Kinds, NoResults
<1>3. Good(q, {})
  <2> HIDE DEF q
  <2>1. Knows(q)
    BY <1>2 DEF Knows, Before, Kinds
  <2>2. Posted(q)
    BY <1>2, OwnersAssumption DEF Posted, NoResults
  <2> QED
    BY <1>2, <2>1, <2>2, NoneGood
<1>4. requests' = [requests EXCEPT ![r] = q]
  BY DEF ArriveCallback, Set
<1> HIDE DEF q
<1> QED
  BY <1>1, <1>3, <1>4, SameCalls, TablesSame DEF ArriveCallback

(* A request moves on before its list is there.                            *)
LEMMA GotoGood ==
  ASSUME IInv, NEW r \in Requests, requests[r].pc \in Before, NEW pc \in Before,
         pc \in {"refreshing", "looking"} => requests[r].kind = "live",
         pc \in {"saveSystem", "saveAccount"} =>
           requests[r].kind = "callback" /\ requests[r].profile = requests[r].tokens,
         pc # "saveSystem"
  PROVE  LET q == [requests[r] EXCEPT !.pc = pc]
         IN /\ q \in Request /\ Knows(q) /\ Posted(q)
            /\ q.pc = pc /\ q.kind = requests[r].kind /\ q.tokens = requests[r].tokens
<1> DEFINE q == [requests[r] EXCEPT !.pc = pc]
<1>1. requests[r] \in Request /\ Knows(requests[r]) /\ Posted(requests[r])
  BY RequestOf
<1>2. /\ q \in Request /\ q.pc = pc /\ q.kind = requests[r].kind /\ q.tokens = requests[r].tokens
      /\ q.todo = requests[r].todo /\ q.listed = requests[r].listed
      /\ q.results = requests[r].results /\ q.posted = requests[r].posted
      /\ q.profile = requests[r].profile
  BY <1>1 DEF Request
<1>3. Knows(q)
  <2> HIDE DEF q
  <2> QED
    BY <1>1, <1>2 DEF Knows, Before
<1>4. Posted(q)
  <2> HIDE DEF q
  <2> QED
    BY <1>1, <1>2 DEF Posted
<1> QED
  BY <1>2, <1>3, <1>4

LEMMA CacheSteps ==
  ASSUME IInv, NEW r \in Requests, RefreshCache(r) \/ LookInCache(r)
  PROVE  IInv'
<1>1. requests[r].pc \in {"refreshing", "looking"} /\ requests[r].pc \in Before
  BY DEF RefreshCache, LookInCache, Before
<1>2. requests[r].kind = "live" /\ Mine(r) = {}
  BY <1>1, RequestOf, NoCalls DEF Knows
<1>3. CASE \E pc \in {"looking", "admitted"} : Goto(r, pc)
  <2>1. PICK pc \in {"looking", "admitted"} : Goto(r, pc)
    BY <1>3
  <2>2. Good([requests[r] EXCEPT !.pc = pc], {})
    BY <1>1, <1>2, GotoGood, NoneGood DEF Before
  <2> QED
    BY <1>2, <2>1, <2>2, SameCalls, TablesSame DEF RefreshCache, LookInCache, Goto, Set
<1>4. CASE LookInCache(r) /\ cache # None
  <2>1. /\ cache.results \in [Items -> {None, "ok", "error"}] /\ cache.listed \in SUBSET Items
        /\ Whole(cache.results, cache.listed)
    BY <1>4 DEF IInv, CacheOK
  <2>2. Good(Answer(r, cache.results, cache.listed), {})
    BY <1>2, <2>1, AnswerGood DEF Kinds, SystemKinds, Announces
  <2> QED
    BY <1>2, <1>4, <2>2, SameCalls, TablesSame DEF LookInCache, Set
<1> QED
  BY <1>3, <1>4 DEF RefreshCache, LookInCache

LEMMA BeginStep ==
  ASSUME IInv, NEW r \in Requests, Begin(r)
  PROVE  IInv'
<1>1. requests[r].pc = "admitted" /\ requests[r].pc \in Before /\ Mine(r) = {}
  BY NoCalls DEF Begin, Before
<1> DEFINE q == [requests[r] EXCEPT !.pc = "asked"]
           what == FirstCall(requests[r].kind)
           g == [by |-> r, what |-> what, item |-> None, as |-> requests[r].tokens]
<1>2. /\ q \in Request /\ Knows(q) /\ Posted(q)
      /\ q.pc = "asked" /\ q.kind = requests[r].kind /\ q.tokens = requests[r].tokens
  BY <1>1, GotoGood DEF Before
<1>3. requests[r].tokens \in Token
  BY RequestOf DEF Request
<1>4. g \in Call /\ g.by = r
  BY <1>3 DEF Call, FirstCall
<1>5. Good(q, {g})
  <2>1. g.what = what /\ g.item = None /\ g.as = requests[r].tokens
    OBVIOUS
  <2>2. Fits(q, g)
    <3> HIDE DEF q, g
    <3> QED
      BY <1>2, <2>1 DEF Fits, FirstCall
  <2> HIDE DEF q, g
  <2> QED
    BY <1>2, <2>2 DEF Good, Apart
<1>6. Calls(r, what, {None}, client') = {g}
  BY DEF Begin, Calls
<1>7. flying' = (flying \ Mine(r)) \cup {g}
  BY <1>1, <1>6 DEF Begin
<1>8. requests' = [requests EXCEPT ![r] = q] /\ client' \in Token
  BY <1>3 DEF Begin, Goto, Set
<1>9. CacheOK' /\ ProfilesMatch'
  BY TablesSame DEF Begin
<1> HIDE DEF q, g
<1> QED
  BY <1>4, <1>5, <1>7, <1>8, <1>9, OneRequest

(* A first call is the only one of its request.                            *)
LEMMA FirstAlone ==
  ASSUME IInv, NEW r \in Requests, NEW g \in flying, g.by = r, g.what \in {"list", "profile"}
  PROVE  /\ g \in Mine(r) /\ Mine(r) \ {g} = {} /\ requests[r].pc = "asked"
         /\ g.as = requests[r].tokens
         /\ g.what = "profile" <=> requests[r].kind = "callback"
<1>1. g \in Mine(r) /\ Fits(requests[r], g)
  BY RequestOf
<1>2. /\ requests[r].pc = "asked" /\ g.item = None /\ g.as = requests[r].tokens
      /\ g.what = "profile" <=> requests[r].kind = "callback"
  BY <1>1 DEF Fits
<1>3. ASSUME NEW h \in Mine(r)
      PROVE  h = g
  <2>1. Fits(requests[r], h)
    BY RequestOf
  <2>2. h.item = None
    BY <1>2, <2>1 DEF Fits
  <2> QED
    BY <1>1, <1>2, <2>2, RequestOf DEF Apart
<1> QED
  BY <1>1, <1>2, <1>3

LEMMA FirstCallFailsStep ==
  ASSUME IInv, NEW r \in Requests, FirstCallFails(r)
  PROVE  IInv'
<1>1. PICK g \in flying : /\ g.by = r /\ g.what \in {"list", "profile"}
                          /\ flying' = flying \ {g} /\ Fail(r)
                          /\ UNCHANGED <<client, googleAuth, linked, cache>>
  BY DEF FirstCallFails
<1>2. g \in Mine(r) /\ Good(Fresh, Mine(r) \ {g})
  BY <1>1, FirstAlone, FreshGood
<1>3. requests' = [requests EXCEPT ![r] = Fresh] /\ client' \in Token /\ CacheOK' /\ ProfilesMatch'
  BY <1>1, TablesSame DEF Fail, Set
<1> QED
  BY <1>1, <1>2, <1>3, CallEnds

LEMMA ListedStep ==
  ASSUME IInv, NEW r \in Requests, NEW items \in SUBSET Items, Listed(r, items)
  PROVE  IInv'
<1>1. PICK g \in flying :
        /\ g.by = r /\ g.what = "list"
        /\ IF requests[r].kind = "courses"
             THEN /\ flying' = flying \ {g}
                  /\ Set(r, Answer(r, requests[r].results, items))
             ELSE /\ flying' = (flying \ {g}) \cup
                       (IF requests[r].kind \in Serial THEN {} ELSE Calls(r, "item", items, client))
                  /\ Set(r, [requests[r] EXCEPT !.pc = "working", !.listed = items, !.todo = items])
        /\ UNCHANGED <<client, googleAuth, linked, cache>>
  BY DEF Listed
<1>2. /\ g \in Mine(r) /\ Mine(r) \ {g} = {} /\ requests[r].pc = "asked"
      /\ requests[r].kind # "callback"
  BY <1>1, FirstAlone
<1>3. /\ requests[r] \in Request /\ requests[r].kind \in Kinds \ {"callback", "mail"}
      /\ requests[r].results = NoResults /\ \A i \in Items : requests[r].posted[i] = 0
  BY <1>2, RequestOf DEF Knows, Posted, Before
<1>4. client' \in Token /\ CacheOK' /\ ProfilesMatch'
  BY <1>1, TablesSame
<1>5. CASE requests[r].kind = "courses"
  <2>1. requests[r].results \in [Items -> {None, "ok", "error"}]
    BY <1>3 DEF Request
  <2>2. Good(Answer(r, requests[r].results, items), {})
    BY <1>3, <1>5, <2>1, AnswerGood DEF Announces
  <2>3. Good(Answer(r, requests[r].results, items), Mine(r) \ {g})
    BY <1>2, <2>2
  <2> QED
    BY <1>1, <1>2, <1>4, <1>5, <2>3, CallEnds DEF Set
<1>6. CASE requests[r].kind # "courses"
  <2> DEFINE q == [requests[r] EXCEPT !.pc = "working", !.listed = items, !.todo = items]
             C == IF requests[r].kind \in Serial THEN {} ELSE Calls(r, "item", items, client)
  <2>1. /\ q \in Request /\ q.pc = "working" /\ q.listed = items /\ q.todo = items
        /\ q.kind = requests[r].kind /\ q.results = NoResults
        /\ \A i \in Items : q.posted[i] = 0
    BY <1>3 DEF Request
  <2>2. q.kind \in (Contained \cup {"gradebook"}) \ {"mail"} /\ q.kind \in Kinds
    BY <1>3, <1>6, <2>1 DEF Kinds, SystemKinds, AccountKinds, Contained, Announces
  <2>3. Knows(q)
    <3> HIDE DEF q
    <3> QED
      BY <2>1, <2>2 DEF Knows, Before, Whole, NoResults
  <2>4. Posted(q)
    <3> HIDE DEF q
    <3> QED
      BY <2>1, OwnersAssumption DEF Posted, Before, NoResults
  <2>5. \A h \in C : /\ h \in Call /\ h.by = r /\ h.what = "item" /\ h.item \in items
                     /\ h = [by |-> r, what |-> "item", item |-> h.item, as |-> client]
    BY DEF Calls, Call, IInv
  <2>6. C = {} \/ q.kind \notin Serial
    BY <2>1
  <2>7. Good(q, C)
    <3> HIDE DEF q, C
    <3>1. \A h \in C : Fits(q, h)
      BY <2>1, <2>2, <2>5 DEF Fits
    <3>2. Apart(q, C)
      BY <2>5, <2>6 DEF Apart
    <3> QED
      BY <2>1, <2>3, <2>4, <3>1, <3>2 DEF Good
  <2>8. flying' = (flying \ Mine(r)) \cup C /\ requests' = [requests EXCEPT ![r] = q]
    BY <1>1, <1>2, <1>6 DEF Set
  <2>9. C \in SUBSET Call /\ \A h \in C : h.by = r
    BY <2>5
  <2> HIDE DEF q, C
  <2> QED
    BY <1>4, <2>7, <2>8, <2>9, OneRequest
<1> QED
  BY <1>5, <1>6

-----------------------------------------------------------------------------
(* Loops.                                                                  *)

LEMMA OneCall ==
  ASSUME IInv, NEW r \in Requests, Mine(r) = {}, requests' = requests,
         NEW g \in Call, g.by = r, Fits(requests[r], g), flying' = flying \cup {g},
         client' \in Token, UNCHANGED <<googleAuth, linked, cache>>
  PROVE  IInv'
<1>1. Good(requests[r], {g})
  BY RequestOf DEF Good, Apart
<1>2. requests' = [requests EXCEPT ![r] = requests[r]] /\ flying' = (flying \ Mine(r)) \cup {g}
  BY DEF IInv
<1>3. CacheOK' /\ ProfilesMatch' /\ {g} \in SUBSET Call /\ \A h \in {g} : h.by = r
  BY TablesSame
<1> QED
  BY <1>1, <1>2, <1>3, OneRequest

LEMMA NextItemStep ==
  ASSUME IInv, NEW r \in Requests, NextItem(r)
  PROVE  IInv'
<1> DEFINE g == [by |-> r, what |-> "item", item |-> Item(r), as |-> client]
<1>1. /\ requests[r].pc = "working" /\ requests[r].kind # "mail" /\ Item(r) \in requests[r].todo
      /\ Mine(r) = {}
  BY LoopCalls DEF NextItem, Item
<1>2. g \in Call /\ g.by = r
  BY <1>1, RequestOf DEF Call, IInv, Request
<1>3. Fits(requests[r], g)
  BY <1>1 DEF Fits
<1>4. flying' = flying \cup {g}
  BY DEF NextItem, Calls
<1> HIDE DEF g
<1> QED
  BY <1>1, <1>2, <1>3, <1>4, OneCall, TablesSame DEF NextItem

LEMMA SendMailStep ==
  ASSUME IInv, NEW r \in Requests, SendMail(r)
  PROVE  IInv'
<1> DEFINE g == [by |-> r, what |-> "mail", item |-> Item(r), as |-> requests[r].tokens]
<1>1. /\ requests[r].pc = "working" /\ requests[r].kind = "mail" /\ requests[r].tokens # None
      /\ requests[r].todo # {} /\ Mine(r) = {}
  BY LoopCalls, RequestOf DEF SendMail, Knows
<1>2. Item(r) \in requests[r].todo
  BY <1>1 DEF Item
<1>3. g \in Call /\ g.by = r /\ requests[r].tokens \in Token
  BY <1>2, RequestOf DEF Call, Request
<1>4. Fits(requests[r], g)
  BY <1>1, <1>2 DEF Fits
<1>5. flying' = flying \cup {g} /\ requests' = requests /\ client' \in Token
  BY <1>3 DEF SendMail, Calls
<1> HIDE DEF g
<1> QED
  BY <1>1, <1>3, <1>4, <1>5, OneCall DEF SendMail

LEMMA ReadForMailStep ==
  ASSUME IInv, NEW r \in Requests, NEW o \in Owners, ReadForMail(r, o)
  PROVE  IInv'
<1> DEFINE q == [requests[r] EXCEPT !.tokens = o]
<1>1. /\ requests[r].pc = "working" /\ requests[r].kind = "mail" /\ requests[r].todo # {}
      /\ Mine(r) = {}
  BY LoopCalls DEF ReadForMail
<1>2. requests[r] \in Request /\ Knows(requests[r]) /\ Posted(requests[r])
  BY RequestOf
<1>3. /\ q \in Request /\ q.pc = "working" /\ q.kind = "mail" /\ q.todo = requests[r].todo
      /\ q.listed = requests[r].listed /\ q.results = requests[r].results
      /\ q.posted = requests[r].posted
  BY <1>1, <1>2 DEF Request, Token
<1>4. Knows(q) /\ Posted(q)
  <2> HIDE DEF q
  <2> QED
    BY <1>1, <1>2, <1>3 DEF Knows, Posted, Before
<1>5. requests' = [requests EXCEPT ![r] = q]
  BY DEF ReadForMail, Set
<1> HIDE DEF q
<1> QED
  BY <1>1, <1>3, <1>4, <1>5, NoneGood, SameCalls, TablesSame DEF ReadForMail

(* One more item has its result.                                           *)
LEMMA ItemTold ==
  ASSUME NEW results \in [Items -> {None, "ok", "error"}], NEW listed \in SUBSET Items,
         NEW todo, todo \subseteq listed,
         NEW i \in todo, NEW result \in {"ok", "error"}, Whole(results, listed \ todo)
  PROVE  Whole([results EXCEPT ![i] = result], listed \ (todo \ {i}))
<1>1. \A j \in Items : [results EXCEPT ![i] = result][j] = IF j = i THEN result ELSE results[j]
  OBVIOUS
<1>2. \A j \in Items : results[j] # None <=> j \in listed \ todo
  BY DEF Whole
<1>3. \A j \in Items : [results EXCEPT ![i] = result][j] # None <=> j \in listed \ (todo \ {i})
  BY <1>1, <1>2, OwnersAssumption
<1> QED
  BY <1>3 DEF Whole

LEMMA NoTokensStep ==
  ASSUME IInv, NEW r \in Requests, NoTokensForMail(r)
  PROVE  IInv'
<1> DEFINE i == Item(r)
           q == [requests[r] EXCEPT !.todo = @ \ {i}, !.results[i] = "error"]
<1>1. /\ requests[r].pc = "working" /\ requests[r].kind = "mail" /\ requests[r].tokens = None
      /\ i \in requests[r].todo
  BY DEF NoTokensForMail, Item
<1>2. Mine(r) = {}
  BY <1>1, RequestOf DEF Fits
<1>3. requests[r] \in Request /\ Knows(requests[r]) /\ Posted(requests[r])
  BY RequestOf
<1>4. /\ q \in Request /\ q.pc = "working" /\ q.kind = "mail" /\ q.tokens = None
      /\ q.todo = requests[r].todo \ {i} /\ q.listed = requests[r].listed
      /\ q.results = [requests[r].results EXCEPT ![i] = "error"]
      /\ q.posted = requests[r].posted
  BY <1>1, <1>3 DEF Request
<1>5. Whole(q.results, q.listed \ q.todo)
  <2>1. /\ requests[r].results \in [Items -> {None, "ok", "error"}]
        /\ requests[r].listed \in SUBSET Items /\ requests[r].todo \subseteq requests[r].listed
        /\ Whole(requests[r].results, requests[r].listed \ requests[r].todo)
    BY <1>1, <1>3 DEF Request, Knows
  <2> HIDE DEF q, i
  <2>2. Whole([requests[r].results EXCEPT ![i] = "error"],
              requests[r].listed \ (requests[r].todo \ {i}))
    BY <1>1, <2>1, ItemTold
  <2> QED
    BY <1>4, <2>2
<1>6. Knows(q)
  <2> HIDE DEF q, i
  <2> QED
    BY <1>3, <1>4, <1>5 DEF Knows, Before, Contained, Kinds, SystemKinds
<1>7. Posted(q)
  <2>1. \A j \in Items : q.results[j] = "ok" => requests[r].results[j] = "ok"
    BY <1>3, <1>4 DEF Request
  <2> HIDE DEF q, i
  <2> QED
    BY <1>1, <1>3, <1>4, <2>1 DEF Posted, Before
<1>8. requests' = [requests EXCEPT ![r] = q]
  BY DEF NoTokensForMail, Set
<1> HIDE DEF q, i
<1> QED
  BY <1>2, <1>4, <1>6, <1>7, <1>8, NoneGood, SameCalls, TablesSame DEF NoTokensForMail

-----------------------------------------------------------------------------
(* A call about one item ends.                                             *)

LEMMA ItemCall ==
  ASSUME IInv, NEW r \in Requests, NEW g \in flying, g.by = r, g.what \in {"item", "mail", "works"}
  PROVE  /\ g \in Mine(r) /\ requests[r].pc = "working" /\ g.item \in requests[r].todo
         /\ g.what = "mail" <=> requests[r].kind = "mail"
         /\ \A h \in Mine(r) \ {g} : h.item # g.item
         /\ requests[r].kind \in Serial => Mine(r) \ {g} = {}
<1>1. g \in Mine(r) /\ Fits(requests[r], g) /\ Apart(requests[r], Mine(r))
  BY RequestOf
<1> QED
  BY <1>1 DEF Fits, Apart

(* The second call for the grades of a course takes the place of the first.*)
LEMMA WorksStep ==
  ASSUME IInv, NEW r \in Requests, NEW g \in flying, g.by = r, g.what = "item",
         requests[r].kind = "grades",
         flying' = (flying \ {g}) \cup Calls(r, "works", {g.item}, client),
         UNCHANGED <<requests, client, googleAuth, linked, cache>>
  PROVE  IInv'
<1> DEFINE w == [by |-> r, what |-> "works", item |-> g.item, as |-> client]
           C == (Mine(r) \ {g}) \cup {w}
<1>1. /\ g \in Mine(r) /\ requests[r].pc = "working" /\ g.item \in requests[r].todo
      /\ \A h \in Mine(r) \ {g} : h.item # g.item
  BY ItemCall
<1>2. w \in Call /\ w.by = r /\ w.item = g.item
  BY <1>1, RequestOf DEF Call, IInv, Request
<1>3. Fits(requests[r], w)
  BY <1>1 DEF Fits
<1>4. Calls(r, "works", {g.item}, client) = {w}
  BY DEF Calls
<1> HIDE DEF w
<1>5. Good(requests[r], C)
  <2>1. Apart(requests[r], C)
    <3>1. requests[r].kind \notin Serial
      BY DEF Serial, Announces
    <3> QED
      BY <1>1, <1>2, <3>1, RequestOf DEF Apart
  <2> QED
    BY <1>3, <2>1, RequestOf DEF Good
<1>6. requests' = [requests EXCEPT ![r] = requests[r]] /\ flying' = (flying \ Mine(r)) \cup C
  BY <1>1, <1>4 DEF IInv, Mine
<1>7. C \in SUBSET Call /\ \A h \in C : h.by = r
  BY <1>2, RequestOf
<1>8. client' \in Token /\ CacheOK' /\ ProfilesMatch'
  BY TablesSame
<1> HIDE DEF C
<1>9. PICK q : q = requests[r]
  OBVIOUS
<1>10. Good(q, C) /\ requests' = [requests EXCEPT ![r] = q]
  BY <1>5, <1>6, <1>9
<1> QED
  BY <1>6, <1>7, <1>8, <1>10, OneRequest

LEMMA ItemEnds ==
  ASSUME IInv, NEW r \in Requests, NEW g \in flying, g.by = r,
         g.what \in {"item", "mail", "works"}, NEW done \in BOOLEAN, NEW told \in BOOLEAN,
         told => done, flying' = flying \ {g},
         Set(r, [requests[r] EXCEPT
               !.todo = @ \ {g.item},
               !.results[g.item] = IF told THEN "ok" ELSE "error",
               !.posted[g.item] = IF done /\ Posts(g) THEN @ + 1 ELSE @,
               !.tokens = IF g.what = "mail" THEN None ELSE @]),
         UNCHANGED <<client, googleAuth, linked, cache>>
  PROVE  IInv'
<1> DEFINE i == g.item
           result == IF told THEN "ok" ELSE "error"
           n == IF done /\ Posts(g) THEN requests[r].posted[i] + 1 ELSE requests[r].posted[i]
           tokens == IF g.what = "mail" THEN None ELSE requests[r].tokens
           q == [requests[r] EXCEPT
                   !.todo = requests[r].todo \ {i},
                   !.results = [requests[r].results EXCEPT ![i] = result],
                   !.posted = [requests[r].posted EXCEPT ![i] = n],
                   !.tokens = tokens]
<1>1. /\ g \in Mine(r) /\ requests[r].pc = "working" /\ i \in requests[r].todo
      /\ g.what = "mail" <=> requests[r].kind = "mail"
      /\ \A h \in Mine(r) \ {g} : h.item # i
      /\ requests[r].kind \in Serial => Mine(r) \ {g} = {}
  BY ItemCall
<1>2. requests[r] \in Request /\ Knows(requests[r]) /\ Posted(requests[r])
  BY RequestOf
<1>3. i \in Items /\ requests[r].posted[i] = 0
  BY <1>1, <1>2 DEF Request, Posted
<1>4. n \in {0, 1} /\ (requests[r].kind \in Announces \cup {"mail"} /\ told => n = 1)
  BY <1>1, <1>3 DEF Posts
<1>5. requests' = [requests EXCEPT ![r] = q]
  BY <1>2 DEF Set, Request
<1>6. result \in {"ok", "error"} /\ (result = "ok" => told)
  OBVIOUS
<1>7. tokens \in Token /\ (requests[r].kind = "mail" => tokens = None)
        /\ (requests[r].kind # "mail" => tokens = requests[r].tokens)
  BY <1>1, <1>2 DEF Token, Request
<1> HIDE DEF n, result, tokens
<1>8. /\ q \in Request /\ q.pc = "working" /\ q.kind = requests[r].kind
      /\ q.todo = requests[r].todo \ {i} /\ q.listed = requests[r].listed
      /\ q.results = [requests[r].results EXCEPT ![i] = result]
      /\ q.posted = [requests[r].posted EXCEPT ![i] = n]
      /\ q.tokens = tokens
  <2>1. [requests[r].results EXCEPT ![i] = result] \in [Items -> {None, "ok", "error"}]
    BY <1>2, <1>6 DEF Request
  <2>2. [requests[r].posted EXCEPT ![i] = n] \in [Items -> Nat]
    <3>1. n \in Nat /\ requests[r].posted \in [Items -> Nat]
      BY <1>2, <1>4 DEF Request
    <3> QED
      BY <3>1
  <2> QED
    BY <1>1, <1>2, <1>7, <2>1, <2>2 DEF Request
<1> HIDE DEF q, i
<1>9. Knows(q)
  <2>1. /\ requests[r].results \in [Items -> {None, "ok", "error"}]
        /\ requests[r].listed \in SUBSET Items /\ requests[r].todo \subseteq requests[r].listed
        /\ Whole(requests[r].results, requests[r].listed \ requests[r].todo)
    BY <1>1, <1>2 DEF Request, Knows
  <2>2. Whole([requests[r].results EXCEPT ![i] = result],
              requests[r].listed \ (requests[r].todo \ {i}))
    BY <1>1, <1>6, <2>1, ItemTold
  <2>3. Whole(q.results, q.listed \ q.todo)
    BY <1>8, <2>2
  <2> QED
    BY <1>1, <1>2, <1>7, <1>8, <2>3 DEF Knows, Before
<1>10. Posted(q)
  <2>1. ASSUME NEW j \in Items
        PROVE  /\ q.posted[j] = IF j = i THEN n ELSE requests[r].posted[j]
               /\ q.results[j] = IF j = i THEN result ELSE requests[r].results[j]
    BY <1>2, <1>8 DEF Request
  <2>2. ASSUME NEW j \in Items
        PROVE  /\ q.posted[j] <= 1
               /\ j \in q.todo => q.posted[j] = 0
               /\ q.kind \in Announces \cup {"mail"} /\ q.results[j] = "ok" => q.posted[j] = 1
    <3>1. CASE j = i
      BY <1>4, <1>6, <1>8, <2>1, <3>1
    <3>2. CASE j # i
      BY <1>2, <1>8, <2>1, <3>2 DEF Posted
    <3> QED
      BY <3>1, <3>2
  <2> QED
    BY <1>8, <2>2 DEF Posted, Before
<1>11. Good(q, Mine(r) \ {g})
  <2>1. ASSUME NEW h \in Mine(r) \ {g}
        PROVE  Fits(q, h)
    <3>1. /\ Fits(requests[r], h) /\ h.item # i /\ requests[r].kind \notin Serial
          /\ requests[r].kind # "mail"
      BY <1>1, <2>1, RequestOf DEF Serial
    <3> QED
      BY <1>1, <1>8, <3>1 DEF Fits
  <2>2. Apart(q, Mine(r) \ {g})
    BY <1>8, RequestOf DEF Apart
  <2> QED
    BY <1>8, <1>9, <1>10, <2>1, <2>2 DEF Good
<1>12. client' \in Token /\ CacheOK' /\ ProfilesMatch'
  BY TablesSame
<1> QED
  BY <1>1, <1>5, <1>11, <1>12, CallEnds

LEMMA ItemDoneStep ==
  ASSUME IInv, NEW r \in Requests, NEW g \in flying, g.by = r, NEW done \in BOOLEAN,
         NEW told \in BOOLEAN, ItemDone(g, done, told)
  PROVE  IInv'
<1>1. g.what \in {"item", "mail", "works"} /\ (told => done)
      /\ UNCHANGED <<client, googleAuth, linked, cache>>
  BY DEF ItemDone
<1>2. CASE /\ requests[r].kind = "grades" /\ g.what = "item"
           /\ flying' = (flying \ {g}) \cup Calls(r, "works", {g.item}, client)
           /\ UNCHANGED requests
  BY <1>1, <1>2, WorksStep
<1>3. CASE flying' = flying \ {g} /\ requests[r].kind \notin Contained /\ Fail(r)
  <2>1. requests[r].kind = "gradebook"
    BY <1>1, <1>3, ItemCall, RequestOf DEF Knows
  <2>2. g \in Mine(r) /\ Mine(r) \ {g} = {}
    BY <1>1, <2>1, ItemCall DEF Serial
  <2>3. Good(Fresh, Mine(r) \ {g})
    BY <2>2, FreshGood
  <2>4. client' \in Token /\ CacheOK' /\ ProfilesMatch'
    BY <1>1, TablesSame
  <2> QED
    BY <1>3, <2>2, <2>3, <2>4, CallEnds DEF Fail, Set
<1>4. CASE /\ flying' = flying \ {g}
           /\ Set(r, [requests[r] EXCEPT
                    !.todo = @ \ {g.item},
                    !.results[g.item] = IF told THEN "ok" ELSE "error",
                    !.posted[g.item] = IF done /\ Posts(g) THEN @ + 1 ELSE @,
                    !.tokens = IF g.what = "mail" THEN None ELSE @])
  BY <1>1, <1>4, ItemEnds
<1> QED
  BY <1>2, <1>3, <1>4 DEF ItemDone

LEMMA AllDoneStep ==
  ASSUME IInv, NEW r \in Requests, AllDone(r)
  PROVE  IInv'
<1>1. requests[r].pc = "working" /\ requests[r].todo = {}
  BY DEF AllDone
<1>2. Mine(r) = {}
  BY <1>1, RequestOf DEF Fits
<1>3. /\ requests[r] \in Request /\ requests[r].kind \in Kinds
      /\ requests[r].results \in [Items -> {None, "ok", "error"}]
      /\ requests[r].listed \in SUBSET Items
      /\ Whole(requests[r].results, requests[r].listed \ {})
      /\ \A i \in Items : requests[r].kind \in Announces \cup {"mail"}
                            /\ requests[r].results[i] = "ok" => requests[r].posted[i] = 1
  BY <1>1, RequestOf DEF Knows, Posted, Request
<1>4. Whole(requests[r].results, requests[r].listed)
  BY <1>3 DEF Whole
<1>5. Good(Answer(r, requests[r].results, requests[r].listed), {})
  BY <1>3, <1>4, AnswerGood
<1>6. CacheOK'
  <2>1. CASE cache' = cache \/ cache' = None
    BY <2>1, TablesSame
  <2>2. CASE cache' = [listed |-> requests[r].listed, results |-> requests[r].results]
    <3>1. cache' \in [listed: SUBSET Items, results: [Items -> {None, "ok", "error"}]]
      BY <1>3, <2>2
    <3>2. cache'.results = requests[r].results /\ cache'.listed = requests[r].listed
      BY <2>2
    <3>3. Whole(cache'.results, cache'.listed)
      BY <1>4, <3>2
    <3> QED
      BY <3>1, <3>3 DEF CacheOK, Whole
  <2> QED
    BY <2>1, <2>2 DEF AllDone
<1> QED
  BY <1>2, <1>5, <1>6, SameCalls, TablesSame DEF AllDone, Succeed, Set

-----------------------------------------------------------------------------
(* The callback.                                                           *)

LEMMA ProfileStep ==
  ASSUME IInv, NEW r \in Requests, Profile(r)
  PROVE  IInv'
<1>1. PICK g \in flying :
        /\ g.by = r /\ g.what = "profile"
        /\ flying' = flying \ {g}
        /\ Set(r, [requests[r] EXCEPT !.profile = g.as,
                     !.pc = IF g.as = Admin THEN "saveSystem" ELSE "saveAccount"])
        /\ UNCHANGED <<client, googleAuth, linked, cache>>
  BY DEF Profile
<1> DEFINE q == [requests[r] EXCEPT !.profile = g.as,
                   !.pc = IF g.as = Admin THEN "saveSystem" ELSE "saveAccount"]
<1>2. /\ g \in Mine(r) /\ Mine(r) \ {g} = {} /\ requests[r].pc = "asked"
      /\ g.as = requests[r].tokens /\ requests[r].kind = "callback"
  BY <1>1, FirstAlone
<1>3. requests[r] \in Request /\ Knows(requests[r]) /\ Posted(requests[r]) /\ g.as \in Token
  BY <1>2, RequestOf DEF Call
<1>4. /\ q \in Request /\ q.pc \in {"saveSystem", "saveAccount"} /\ q.kind = "callback"
      /\ q.profile = g.as /\ q.tokens = g.as /\ q.todo = requests[r].todo
      /\ q.listed = requests[r].listed /\ q.results = requests[r].results
      /\ q.posted = requests[r].posted /\ (q.pc = "saveSystem" => g.as = Admin)
  BY <1>2, <1>3 DEF Request, Before
<1>5. Knows(q) /\ Posted(q)
  <2> HIDE DEF q
  <2> QED
    BY <1>2, <1>3, <1>4 DEF Knows, Posted, Before, Kinds
<1>6. requests' = [requests EXCEPT ![r] = q]
  BY <1>1 DEF Set
<1> HIDE DEF q
<1>7. Good(q, Mine(r) \ {g})
  BY <1>2, <1>4, <1>5, NoneGood
<1>8. client' \in Token /\ CacheOK' /\ ProfilesMatch'
  BY <1>1, TablesSame
<1> QED
  BY <1>1, <1>2, <1>6, <1>7, <1>8, CallEnds

LEMMA SaveSteps ==
  ASSUME IInv, NEW r \in Requests, SaveAdminTokens(r) \/ SaveGoogleTokens(r)
  PROVE  IInv'
<1>1. requests[r].pc \in {"saveSystem", "saveAccount"} /\ requests[r].pc \in Before
  BY DEF SaveAdminTokens, SaveGoogleTokens, Before
<1>2. /\ Mine(r) = {} /\ requests[r].kind = "callback"
      /\ requests[r].profile = requests[r].tokens
      /\ requests[r].pc = "saveSystem" => requests[r].profile = Admin
  BY <1>1, RequestOf, NoCalls DEF Knows
<1>3. CASE SaveAdminTokens(r)
  <2>1. Good([requests[r] EXCEPT !.pc = "saveAccount"], {})
    BY <1>1, <1>2, GotoGood, NoneGood DEF Before
  <2>2. ProfilesMatch'
    BY <1>2, <1>3 DEF IInv, ProfilesMatch, SaveAdminTokens
  <2> QED
    BY <1>2, <1>3, <2>1, <2>2, SameCalls, TablesSame DEF SaveAdminTokens, Goto, Set
<1>4. CASE SaveGoogleTokens(r)
  <2>1. Good(Answer(r, requests[r].results, requests[r].listed), {})
    <3>1. /\ requests[r].results \in [Items -> {None, "ok", "error"}]
          /\ requests[r].listed \in SUBSET Items
      BY RequestOf DEF Request
    <3> QED
      BY <1>2, <3>1, AnswerGood DEF Kinds, Announces
  <2>2. ProfilesMatch'
    BY <1>2, <1>4 DEF IInv, ProfilesMatch, SaveGoogleTokens
  <2> QED
    BY <1>2, <1>4, <2>1, <2>2, SameCalls, TablesSame DEF SaveGoogleTokens, Succeed, Set
<1> QED
  BY <1>3, <1>4

LEMMA LeaveSteps ==
  ASSUME IInv, NEW r \in Requests, SaveFails(r) \/ Forget(r) \/ NotAnAddress(r)
  PROVE  IInv'
<1>1. CASE SaveFails(r) \/ Forget(r)
  <2>1. Mine(r) = {}
    BY <1>1, NoCalls DEF SaveFails, Forget
  <2> QED
    BY <1>1, <2>1, FailGood DEF SaveFails, Forget
<1>2. CASE NotAnAddress(r)
  <2>1. Mine(r) = {}
    BY <1>2, RequestOf DEF NotAnAddress, Fits
  <2> QED
    BY <1>2, <2>1, FailGood DEF NotAnAddress
<1> QED
  BY <1>1, <1>2

-----------------------------------------------------------------------------
LEMMA StepHolds == IInv /\ [Next]_vars => IInv'
<1> SUFFICES ASSUME IInv, [Next]_vars PROVE IInv'
  OBVIOUS
<1>1. CASE UNCHANGED <<requests, flying, client, googleAuth, linked>>
           /\ (cache' = cache \/ cache' = None)
  <2>1. ASSUME NEW r \in Requests
        PROVE  Good(requests[r], Mine(r))'
    <3>1. Mine(r)' = Mine(r)
      BY <1>1 DEF Mine
    <3>2. Good(requests'[r], Mine(r)')
      BY <1>1, <3>1 DEF IInv
    <3> QED
      BY <3>2 DEF Good, Knows, Posted, Fits, Apart
  <2> QED
    BY <1>1, <2>1, TablesSame DEF IInv
<1>2. ASSUME NEW r \in Requests, Advance(r) \/ NotAnAddress(r) \/ Forget(r)
      PROVE  IInv'
  BY <1>2, CacheSteps, BeginStep, FirstCallFailsStep, ListedStep, NextItemStep, SendMailStep,
     NoTokensStep, ReadForMailStep, ItemDoneStep, AllDoneStep, ProfileStep, SaveSteps, LeaveSteps
     DEF Advance
<1> QED
  BY <1>1, <1>2, ArriveStep, ArriveBroadcastStep, ArriveCallbackStep DEF Next, vars, ExpireCache

LEMMA InitOK == Init => IInv
<1> SUFFICES ASSUME Init PROVE IInv
  OBVIOUS
<1>1. \A r \in Requests : requests[r] = Fresh /\ Mine(r) = {}
  BY DEF Init, Mine
<1>2. ProfilesMatch
  BY DEF Init, ProfilesMatch
<1> QED
  BY <1>1, <1>2, FreshGood DEF Init, IInv, Token, CacheOK

LEMMA Always == Spec => []IInv
BY InitOK, StepHolds, PTL DEF Spec

LEMMA FlyingFits ==
  ASSUME IInv, NEW g \in flying
  PROVE  g \in Call /\ g.by \in Requests /\ Fits(requests[g.by], g)
<1>1. g \in Call /\ g.by \in Requests
  BY DEF IInv, Call
<1> QED
  BY <1>1, RequestOf

(* Requests, calls and the client keep their types, and a call in flight   *)
(* is always that of a request that waits for it: none is made and left    *)
(* behind when its request has failed or been answered.                    *)
THEOREM ClassroomTypes == Spec => []TypeOK
<1>1. ASSUME IInv PROVE TypeOK
  <2>1. ASSUME NEW r \in Requests
        PROVE  /\ requests[r].pc \in {"idle", "refreshing", "looking", "admitted", "asked",
                                      "working", "saveSystem", "saveAccount", "answered"}
               /\ requests[r].todo \subseteq requests[r].listed
               /\ requests[r].results \in [Items -> {None, "ok", "error"}]
    BY <1>1, RequestOf DEF Request, Knows, Before
  <2>2. ASSUME NEW g \in flying
        PROVE  g.by \in Requests /\ ~Waits(g.by) /\ g.as \in Owners \cup {None}
    BY <1>1, FlyingFits DEF Call, Token, Fits, Waits
  <2> QED
    BY <1>1, <2>1, <2>2 DEF TypeOK, IInv, Token
<1> QED
  BY <1>1, Always, PTL

(* A profile is saved only with the tokens of its owner, so that only the  *)
(* tokens of administrators ever become the system's.                      *)
THEOREM ProfilesStayMatched == Spec => []ProfilesMatch
<1>1. IInv => ProfilesMatch
  BY DEF IInv
<1> QED
  BY <1>1, Always, PTL

(* No announcement and no mail is made twice for one course or entry of    *)
(* the list of recipients, and success is reported only of those that were *)
(* made, whatever calls Google refuses and whatever answers are lost.      *)
THEOREM PostsAreMadeOnce == Spec => []PostedOnce
<1>1. ASSUME IInv PROVE PostedOnce
  BY <1>1, RequestOf DEF PostedOnce, Posted
<1> QED
  BY <1>1, Always, PTL

(* Each report, and the state that is cached, tells of every course or     *)
(* entry of its list and of no other, whichever calls fail and         *)
(* whichever requests drop and store the state at the same time.           *)
THEOREM ReportsAreWhole == Spec => []ReportIsWhole
<1>1. ASSUME IInv PROVE ReportIsWhole
  BY <1>1, RequestOf DEF ReportIsWhole, Knows, Whole, IInv, CacheOK
<1> QED
  BY <1>1, Always, PTL
=================================================================================
