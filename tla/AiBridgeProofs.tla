---------------------------- MODULE AiBridgeProofs ------------------------------
(* The registry, the rights to tools and the chats, for any application,   *)
(* any users and any number of calls and chats.                            *)
EXTENDS AiBridge, WellFoundedInduction, TLAPS

(* A list of messages in which the answer at place at has got the first n  *)
(* of its results, and every other answer all of its own, right behind it; *)
(* and in which no result is without its call.                             *)
ResultsFollow(h, i, n) == \A j \in 1..n : i + j \in DOMAIN h /\ h[i + j] = Result(h[i].ids[j])
HasCall(h, i) == \E a \in 1..(i - 1) : /\ h[a].kind = "calls"
                                       /\ i - a \in DOMAIN h[a].ids
                                       /\ h[a].ids[i - a] = h[i].ids[1]
PairedBut(h, at, n) ==
  \A i \in DOMAIN h :
    /\ h[i].kind = "calls" => ResultsFollow(h, i, IF i = at THEN n ELSE Len(h[i].ids))
    /\ h[i].kind = "result" => HasCall(h, i)
Paired(h) == PairedBut(h, 0, 0)

(* While its calls run, a chat has the last answer and the results of the  *)
(* calls before the next; of a Gemini answer one call runs, and neither it *)
(* nor its answer is among the messages yet.                               *)
LastAnswer(q) == Len(q.history) - (q.next - 1)
HasAnswer(q) ==
  IF q.style = "gemini" THEN Len(q.asked) = 1 /\ Paired(q.history)
  ELSE /\ LastAnswer(q) \in DOMAIN q.history
       /\ q.history[LastAnswer(q)] = Called([i \in 1..Len(q.asked) |-> <<q.rounds, i>>])
       /\ PairedBut(q.history, LastAnswer(q), q.next - 1)

Entry == [kind: {"system", "user", "calls", "result"}, ids: Seq(Nat \X Nat)]
CallsType == [tool: {None, "nowhere"} \cup STRING, parses: BOOLEAN]
ChatType == [pc: {"free", "asking", "calling", "executing", "answered", "failed"},
             style: Styles, useTools: BOOLEAN, parent: Chats \cup {None}, history: Seq(Entry),
             asked: Seq(CallsType),
             next: Nat \ {0}, rounds: 0..MaxRounds]

Whole(q) ==
  /\ q \in ChatType
  /\ q.pc = "asking" => Paired(q.history)
  /\ q.pc \in {"calling", "executing"} => q.next <= Len(q.asked) /\ HasAnswer(q)

(* A nested chat is that of a tool its parent is running.                  *)
ParentRuns(k) == chats[k].parent # None => chats[chats[k].parent].pc = "executing"

(* A chat has one tool running, which is one nested chat or none.          *)
NestedOnce ==
  \A k, n \in Chats : chats[k].parent = chats[n].parent => k = n \/ chats[k].parent = None

ChatsHold == /\ chats \in [Chats -> ChatType] /\ NestedOnce
             /\ \A k \in Chats : Whole(chats[k]) /\ ParentRuns(k)

(* What is registered, and what a call in flight has in hand.              *)
Entitled(u, t) == \/ t.public \/ t.kind # "tool"
                  \/ t.scopes \cup t.roles = {}
                  \/ /\ u # Undefined
                     /\ t.scopes \subseteq UserScopes(u) /\ t.roles \subseteq UserRoles(u)
Outcomes == {"unknown", "authentication", "scopes", "roles", "invalid", "isError", "mcpError",
             "content"}
CallType == [pc: {"idle", "resolving", "executing"}, user: Users \cup {Undefined}, http: BOOLEAN,
             tool: {registry[i] : i \in DOMAIN registry} \cup {None},
             outcome: {None} \cup Outcomes]
CallOK(c) == calls[c].pc # "idle" => calls[c].tool # None /\ Entitled(calls[c].user, calls[c].tool)
ToolsHold ==
  /\ program \in Programs
  /\ moduleHasGuards \in BOOLEAN /\ allowUnauthenticatedAccess \in BOOLEAN
  /\ registry \in {<<>>, Discover(program)}
  /\ calls \in [Calls -> CallType] /\ \A c \in Calls : CallOK(c)

IInv == ToolsHold /\ ChatsHold
-----------------------------------------------------------------------------
(* Every non-empty set of numbers has a least element, and a greatest if   *)
(* it has a bound.                                                         *)
LEMMA Least ==
  ASSUME NEW S, S \subseteq Nat, S # {}
  PROVE  \E i \in S : \A j \in S : i <= j
<1>1. PICK x \in S : \A y \in S : <<y, x>> \notin OpToRel(<, Nat)
  BY NatLessThanWellFounded, WFMin
<1>2. ASSUME NEW y \in S PROVE x <= y
  <2>1. <<y, x>> \notin OpToRel(<, Nat)
    BY <1>1
  <2>2. ~(y < x)
    BY <2>1 DEF OpToRel
  <2> QED
    BY <2>2
<1> QED
  BY <1>2

LEMMA Greatest ==
  ASSUME NEW n \in Nat, NEW S, S \subseteq 1..n, S # {}
  PROVE  \E i \in S : \A j \in S : j <= i
<1> DEFINE T == {k \in Nat : \A j \in S : j <= k}
<1>1. n \in T
  OBVIOUS
<1>2. PICK i \in T : \A k \in T : i <= k
  <2>1. T \subseteq Nat /\ T # {}
    BY <1>1
  <2> HIDE DEF T
  <2> QED
    BY <2>1, Least
<1>3. i \in S
  <2> SUFFICES ASSUME i \notin S PROVE FALSE
    OBVIOUS
  <2>1. i \in Nat /\ \A j \in S : j \in Nat /\ 1 <= j /\ j <= i /\ j # i
    OBVIOUS
  <2>2. i - 1 \in Nat /\ \A j \in S : j <= i - 1
    <3>1. PICK k \in S : TRUE
      OBVIOUS
    <3>2. \A j \in S : j <= i - 1
      BY <2>1
    <3> QED
      BY <2>1, <3>1, <3>2
  <2>3. i - 1 \in T
    BY <2>2
  <2> QED
    BY <1>2, <2>1, <2>3
<1> QED
  BY <1>3

(* What is registered is what the methods were decorated with, but for the *)
(* names of those without one.                                             *)
LEMMA RegisteredOK ==
  ASSUME ToolsHold
  PROVE  /\ DOMAIN registry \subseteq Nat /\ registry \in Seq(Methods)
         /\ \A i \in DOMAIN registry : registry[i] \in Methods /\ registry[i] # None
<1>1. program \in Seq(Methods) /\ None \notin Methods /\ None \notin STRING
  BY ToolsAssumption DEF ToolsHold
<1>2. ASSUME NEW i \in DOMAIN program
      PROVE  Discover(program)[i] \in Methods
  <2>1. program[i] \in Methods
    BY <1>1
  <2>2. CASE program[i].name = None
    <3>1. Discover(program)[i] = [program[i] EXCEPT !.name = program[i].method]
      BY <2>1, <2>2 DEF Discover, Methods
    <3> QED
      BY <2>1, <3>1 DEF Methods
  <2>3. CASE program[i].name # None
    <3>1. Discover(program)[i] = program[i]
      BY <2>1, <2>3 DEF Discover, Methods
    <3> QED
      BY <2>1, <3>1
  <2> QED
    BY <2>2, <2>3
<1>3. Discover(program) \in Seq(Methods) /\ DOMAIN Discover(program) \subseteq Nat
  <2>1. DOMAIN program = 1..Len(program) /\ Len(program) \in Nat
    BY <1>1
  <2>2. Discover(program) \in [1..Len(program) -> Methods]
    BY <1>2, <2>1 DEF Discover
  <2> HIDE DEF Discover
  <2> QED
    BY <2>1, <2>2
<1>4. CASE registry = <<>>
  <2>1. registry \in Seq(Methods) /\ DOMAIN registry = {}
    BY <1>4
  <2> QED
    BY <2>1
<1>5. CASE registry = Discover(program)
  <2>1. \A i \in DOMAIN registry : registry[i] \in Methods
    BY <1>3, <1>5
  <2> QED
    BY <1>1, <1>3, <1>5, <2>1
<1> QED
  BY <1>4, <1>5 DEF ToolsHold

(* What is found by its name is registered, has the name, and is one of    *)
(* those that were looked through; and whatever has the name is found.     *)
LEMMA FirstIsOne ==
  ASSUME NEW S, S \subseteq Nat, S # {}
  PROVE  \E i \in S : First(S) = registry[i]
<1>1. PICK i \in S : \A j \in S : i <= j
  BY Least
<1>2. (CHOOSE k \in S : \A j \in S : k <= j) \in S
  BY <1>1
<1> QED
  BY <1>2 DEF First

LEMMA NamedIsOne ==
  ASSUME NEW S, S \subseteq Nat, NEW name
  PROVE  /\ Named(S, name) # None =>
              \E i \in S : Named(S, name) = registry[i] /\ registry[i].name = name
         /\ (\E i \in S : registry[i].name = name) =>
              \E i \in S : Named(S, name) = registry[i] /\ registry[i].name = name
<1> DEFINE hits == {i \in S : registry[i].name = name}
<1>1. hits # {} => \E i \in hits : First(hits) = registry[i]
  <2>1. hits \subseteq Nat
    OBVIOUS
  <2> HIDE DEF hits
  <2> QED
    BY <2>1, FirstIsOne
<1>2. Named(S, name) = IF hits = {} THEN None ELSE First(hits)
  BY DEF Named
<1> QED
  BY <1>1, <1>2

LEMMA KindsAreNumbers ==
  ASSUME ToolsHold, NEW kind
  PROVE  /\ OfKind(kind) \subseteq Nat /\ OfKind(kind) \subseteq DOMAIN registry
         /\ \A i \in OfKind(kind) : registry[i].kind = kind
  BY RegisteredOK DEF OfKind

(* With one name for each, what is found by a name is what has the name.   *)
LEMMA FoundByName ==
  ASSUME ToolsHold, NEW kind, NamesUnique(OfKind(kind)), NEW i \in OfKind(kind)
  PROVE  Named(OfKind(kind), registry[i].name) = registry[i]
  BY KindsAreNumbers, NamedIsOne DEF NamesUnique
-----------------------------------------------------------------------------
(* The two functions of ToolAuthorizationService decide alike.             *)
LEMMA RightsAgree ==
  ASSUME NEW u, NEW t, t \in Methods, NEW guards \in BOOLEAN, NEW open \in BOOLEAN
  PROVE  CanAccessTool(u, t, guards, open) <=> ValidateToolAccess(u, t, guards, open) = "allowed"
<1>1. t.public \in BOOLEAN
  BY DEF Methods
<1>2. CASE t.public
  BY <1>2 DEF CanAccessTool, ValidateToolAccess
<1>3. CASE ~t.public /\ u = Undefined
  <2>1. t.scopes \cup t.roles # {} <=> t.scopes # {} \/ t.roles # {}
    OBVIOUS
  <2> QED
    BY <1>3, <2>1 DEF CanAccessTool, ValidateToolAccess, HasRequiredScopes, HasRequiredRoles
<1>4. CASE ~t.public /\ u # Undefined
  <2>1. t.scopes = {} => HasRequiredScopes(u, t.scopes)
    BY <1>4 DEF HasRequiredScopes
  <2>2. t.roles = {} => HasRequiredRoles(u, t.roles)
    BY <1>4 DEF HasRequiredRoles
  <2> QED
    BY <1>4, <2>1, <2>2 DEF CanAccessTool, ValidateToolAccess
<1> QED
  BY <1>1, <1>2, <1>3, <1>4

LEMMA AllowedIsEntitled ==
  ASSUME NEW u, NEW t, NEW guards, NEW open, ValidateToolAccess(u, t, guards, open) = "allowed"
  PROVE  Entitled(u, t)
<1>1. CASE t.public
  BY <1>1 DEF Entitled
<1>2. CASE ~t.public /\ u = Undefined
  BY <1>2 DEF Entitled, ValidateToolAccess
<1>3. CASE ~t.public /\ u # Undefined
  BY <1>3 DEF Entitled, ValidateToolAccess, HasRequiredScopes, HasRequiredRoles
<1> QED
  BY <1>1, <1>2, <1>3

LEMMA ListedOK == ASSUME ToolsHold PROVE ListedIsCallable
<1> SUFFICES ASSUME NamesUnique(GetTools), NEW u \in Users \cup {Undefined}, NEW http \in BOOLEAN,
                    NEW i \in GetTools
             PROVE  (\E k \in ListTools(u, http) : registry[k].name = registry[i].name)
                      <=> ValidateToolAccess(u, FindTool(registry[i].name), EffectiveGuards(http),
                                             allowUnauthenticatedAccess) = "allowed"
  BY DEF ListedIsCallable
<1> DEFINE guards == EffectiveGuards(http)
           open == allowUnauthenticatedAccess
<1>1. guards \in BOOLEAN /\ open \in BOOLEAN /\ registry[i] \in Methods
  BY RegisteredOK, KindsAreNumbers DEF ToolsHold, GetTools, EffectiveGuards
<1>2. FindTool(registry[i].name) = registry[i]
  BY FoundByName DEF FindTool, GetTools
<1>3. (\E k \in ListTools(u, http) : registry[k].name = registry[i].name)
        <=> i \in ListTools(u, http)
  BY DEF ListTools, NamesUnique
<1>4. i \in ListTools(u, http) <=> CanAccessTool(u, registry[i], guards, open)
  BY DEF ListTools
<1> HIDE DEF guards
<1>5. CanAccessTool(u, registry[i], guards, open)
        <=> ValidateToolAccess(u, registry[i], guards, open) = "allowed"
  BY <1>1, RightsAgree
<1> QED
  BY <1>2, <1>3, <1>4, <1>5 DEF guards

LEMMA AdvertisedOK == ASSUME ToolsHold PROVE AdvertisedIsEnforced
<1> SUFFICES ASSUME NEW i \in GetTools, NEW http \in BOOLEAN,
                    "noauth" \notin SecuritySchemes(registry[i], EffectiveGuards(http)),
                    allowUnauthenticatedAccess \/ ~EffectiveGuards(http)
             PROVE  ValidateToolAccess(Undefined, registry[i], EffectiveGuards(http),
                                       allowUnauthenticatedAccess) = "authentication"
  BY DEF AdvertisedIsEnforced
<1>1. registry[i] \in Methods
  BY RegisteredOK, KindsAreNumbers DEF GetTools
<1>2. ~registry[i].public
  BY <1>1 DEF SecuritySchemes, Methods
<1>3. registry[i].scopes # {} \/ EffectiveGuards(http)
  BY <1>1 DEF SecuritySchemes
<1>4. registry[i].scopes # {} => registry[i].scopes \cup registry[i].roles # {}
  OBVIOUS
<1> QED
  BY <1>2, <1>3, <1>4 DEF ValidateToolAccess
-----------------------------------------------------------------------------
LEMMA BoundTo ==
  ASSUME NEW template \in Seq({"lit", "var", "many"} \X STRING), NEW path,
         NEW name \in Variables(template)
  PROVE  \E i \in Standing(template, name) :
           Bindings(template, path)[name] = DecodeSegment(path[i])
<1> DEFINE S == Standing(template, name)
<1>1. S \subseteq 1..Len(template) /\ Len(template) \in Nat
  BY DEF Standing
<1>2. S # {}
  <2>1. PICK j \in DOMAIN template : template[j][1] = "var" /\ name = template[j][2]
    BY DEF Variables
  <2>2. template[j] \in {"lit", "var", "many"} \X STRING
    OBVIOUS
  <2>3. template[j] = <<"var", name>>
    BY <2>1, <2>2
  <2> QED
    BY <2>3 DEF Standing
<1> HIDE DEF S
<1>3. PICK i \in S : \A j \in S : j <= i
  BY <1>1, <1>2, Greatest
<1>4. (CHOOSE k \in S : \A j \in S : j <= k) \in S
  BY <1>3
<1>5. Bindings(template, path)[name]
        = DecodeSegment(path[CHOOSE k \in S : \A j \in S : j <= k])
  BY DEF Bindings, ValueAt, S
<1> QED
  BY <1>4, <1>5 DEF S

(* Of a query the last pair of a name gives its value.                     *)
LEMMA PairOf ==
  ASSUME NEW uri \in Uris, NEW name \in QueryNames(uri.query)
  PROVE  \E i \in Pairs(uri.query, name) :
           ParseQuery(uri.query)[name] = Decode[uri.query[i].parts[1]]
<1> DEFINE S == Pairs(uri.query, name)
<1>1. S \subseteq 1..Len(uri.query) /\ Len(uri.query) \in Nat
  <2>1. uri.query \in Seq([name: DOMAIN Decode, parts: Seq(DOMAIN Decode) \ {<<>>}])
    BY ToolsAssumption
  <2>2. DOMAIN uri.query = 1..Len(uri.query) /\ Len(uri.query) \in Nat
    BY <2>1
  <2> QED
    BY <2>2 DEF Pairs, Keyed
<1>2. S # {}
  BY DEF QueryNames, Pairs
<1>3. PICK i \in S : \A j \in S : j <= i
  <2> HIDE DEF S
  <2> QED
    BY <1>1, <1>2, Greatest
<1>4. (CHOOSE k \in S : \A j \in S : j <= k) \in S
  <2> HIDE DEF S
  <2> QED
    BY <1>3
<1>5. ParseQuery(uri.query)[name]
        = Decode[uri.query[CHOOSE k \in S : \A j \in S : j <= k].parts[1]]
  BY DEF ParseQuery
<1> QED
  BY <1>4, <1>5

(* A look-up that throws met a segment that does not decode, or a template *)
(* that does not convert; the first pair that decides is one of them.      *)
LEMMA ThrowsFor ==
  ASSUME ToolsHold, NEW kind, NEW path, LookupThrows(kind, path)
  PROVE  \E i \in DOMAIN registry :
           \/ Unconvertible(registry[i].path)
           \/ \E j \in DOMAIN path : Malformed(path[j])
<1> DEFINE hits == Deciding(kind, path)
<1>1. hits # {} /\ hits \subseteq Nat /\ hits \subseteq DOMAIN registry
  BY KindsAreNumbers DEF Deciding, LookupThrows
<1>2. PICK i \in hits : First(hits) = registry[i]
  <2> HIDE DEF hits
  <2> QED
    BY <1>1, FirstIsOne
<1>3. \/ Unconvertible(registry[i].path)
      \/ \E j \in DOMAIN registry[i].path : Malformed(path[j])
  BY <1>2 DEF LookupThrows
<1>4. CASE Unconvertible(registry[i].path)
  BY <1>1, <1>4
<1>5. CASE ~Unconvertible(registry[i].path)
  <2>1. Matches(registry[i].path, path) /\ registry[i] \in Methods
    BY <1>1, <1>5, RegisteredOK DEF Deciding
  <2>2. PICK j \in DOMAIN registry[i].path : Malformed(path[j])
    BY <1>3, <1>5
  <2> QED
    BY <1>1, <2>1, <2>2 DEF Matches, Methods
<1> QED
  BY <1>4, <1>5

LEMMA QueryText ==
  ASSUME NEW uri \in Uris, QueryThrows(uri.query)
  PROVE  \E text \in Texts(uri) : Decode[text] = None
<1>1. PICK i \in DOMAIN uri.query :
        Decode[uri.query[i].name] = None \/ Decode[uri.query[i].parts[1]] = None
  BY DEF QueryThrows, Keyed
<1> QED
  BY <1>1 DEF Texts

LEMMA PathText ==
  ASSUME NEW uri \in Uris, NEW j \in DOMAIN uri.path, Malformed(uri.path[j])
  PROVE  \E text \in Texts(uri) : Decode[text] = None
<1>1. uri.path[j] \in {"lit"} \X DOMAIN Decode
  BY ToolsAssumption
<1>2. Len(uri.path[j]) = 2
  BY <1>1
<1>3. Decode[uri.path[j][2]] = None
  BY <1>2 DEF Malformed
<1> QED
  BY <1>3 DEF Texts

LEMMA GluedText ==
  ASSUME NEW uri \in Uris, NEW j \in DOMAIN Glued(uri), Malformed(Glued(uri)[j])
  PROVE  \E text \in Texts(uri) : Decode[text] = None
<1>1. DOMAIN Glued(uri) = DOMAIN uri.path /\ uri.path[j] \in {"lit"} \X DOMAIN Decode
  BY ToolsAssumption DEF Glued
<1>2. CASE Glued(uri)[j] = uri.path[j]
  BY <1>1, <1>2, PathText
<1>3. CASE Glued(uri)[j] = <<"lit", uri.path[j][2], uri.query>>
  <2>1. PICK text \in DOMAIN Decode : uri.path[j] = <<"lit", text>>
    BY <1>1
  <2>2. Glued(uri)[j] = <<"lit", text, uri.query>>
    BY <1>3, <2>1
  <2>3. Decode[text] = None \/ QueryThrows(uri.query)
    BY <2>2 DEF Malformed
  <2>4. text \in Texts(uri)
    BY <1>1, <2>1 DEF Texts
  <2> QED
    BY <2>3, <2>4, QueryText
<1>4. Glued(uri)[j] \in {uri.path[j], <<"lit", uri.path[j][2], uri.query>>}
  BY <1>1 DEF Glued
<1> QED
  BY <1>2, <1>3, <1>4

LEMMA ReadThrowsFor ==
  ASSUME ToolsHold, NEW uri \in Uris, ReadThrows(uri)
  PROVE  \/ \E text \in Texts(uri) : Decode[text] = None
         \/ \E i \in DOMAIN registry : Unconvertible(registry[i].path)
<1>1. CASE LookupThrows("resource", Glued(uri))
  BY <1>1, ThrowsFor, GluedText
<1>2. CASE QueryThrows(uri.query)
  BY <1>2, QueryText
<1>3. CASE LookupThrows("resource-template", uri.path)
  BY <1>3, ThrowsFor, PathText
<1> QED
  BY <1>1, <1>2, <1>3 DEF ReadThrows

LEMMA FoundTemplate ==
  ASSUME ToolsHold, NamesUnique(OfKind("resource-template")), NEW uri \in Uris,
         ~ReadThrows(uri),
         \E i \in OfKind("resource-template") : Matches(registry[i].path, uri.path)
  PROVE  \E i \in OfKind("resource-template") :
           /\ Matches(registry[i].path, uri.path)
           /\ FindResourceTemplateByUri(uri)
                = [target |-> registry[i], params |-> Params(registry[i], uri)]
<1> DEFINE hits == Deciding("resource-template", uri.path)
<1>1. hits # {} /\ hits \subseteq Nat /\ hits \subseteq OfKind("resource-template")
  BY KindsAreNumbers DEF Deciding
<1>2. PICK i \in hits : First(hits) = registry[i]
  <2> HIDE DEF hits
  <2> QED
    BY <1>1, FirstIsOne
<1>3. Matches(registry[i].path, uri.path)
  <2>1. ~Unconvertible(First(hits).path)
    BY <1>1 DEF ReadThrows, LookupThrows
  <2> QED
    BY <1>2, <2>1 DEF Deciding
<1>4. Named(OfKind("resource-template"), registry[i].name) = registry[i]
  BY <1>1, FoundByName
<1>5. FindResourceTemplateByUri(uri)
        = [target |-> Named(OfKind("resource-template"), First(hits).name),
           params |-> Params(First(hits), uri)]
  BY <1>1 DEF FindResourceTemplateByUri
<1> HIDE DEF hits
<1> QED
  BY <1>1, <1>2, <1>3, <1>4, <1>5

(* A parameter has the value of a pair of its name or that of a segment.   *)
ValueFrom(t, uri, name, value) ==
  IF name \in Given(t, uri)
    THEN \E i \in Pairs(uri.query, name) : value = <<"lit", Decode[uri.query[i].parts[1]]>>
    ELSE \E i \in Standing(t.path, name) : value = DecodeSegment(uri.path[i])

LEMMA ParamFrom ==
  ASSUME NEW t \in Methods, NEW uri \in Uris, NEW name \in DOMAIN Params(t, uri)
  PROVE  ValueFrom(t, uri, name, Params(t, uri)[name])
<1>1. name \in Variables(t.path) \cup Given(t, uri)
  BY DEF Params
<1>2. CASE name \in Given(t, uri)
  <2>1. Params(t, uri)[name] = <<"lit", ParseQuery(uri.query)[name]>>
    BY <1>1, <1>2 DEF Params
  <2>2. name \in QueryNames(uri.query)
    BY <1>2 DEF Given
  <2> QED
    BY <1>2, <2>1, <2>2, PairOf DEF ValueFrom
<1>3. CASE name \notin Given(t, uri)
  <2>1. Params(t, uri)[name] = Bindings(t.path, uri.path)[name] /\ name \in Variables(t.path)
    BY <1>1, <1>3 DEF Params
  <2>2. t.path \in Seq({"lit", "var", "many"} \X STRING)
    BY DEF Methods
  <2> QED
    BY <1>3, <2>1, <2>2, BoundTo DEF ValueFrom
<1> QED
  BY <1>2, <1>3

LEMMA TemplateRead ==
  ASSUME ToolsHold, NamesUnique(OfKind("resource-template")), NEW uri \in Uris,
         ~ReadThrows(uri),
         \E i \in OfKind("resource-template") : Matches(registry[i].path, uri.path)
  PROVE  LET t == ReadResource(uri).target
             params == ReadResource(uri).params
         IN /\ t.kind = "resource-template" /\ Matches(t.path, uri.path)
            /\ DOMAIN params = (Variables(t.path) \cup Given(t, uri)) \ {"uri"}
            /\ \A name \in DOMAIN params : ValueFrom(t, uri, name, params[name])
<1> DEFINE t == ReadResource(uri).target
           params == ReadResource(uri).params
<1>1. PICK i \in OfKind("resource-template") :
        /\ Matches(registry[i].path, uri.path)
        /\ FindResourceTemplateByUri(uri)
             = [target |-> registry[i], params |-> Params(registry[i], uri)]
  BY FoundTemplate
<1>2. registry[i] \in Methods /\ registry[i] # None /\ registry[i].kind = "resource-template"
  BY RegisteredOK, KindsAreNumbers
<1> DEFINE ps == Params(registry[i], uri)
<1>3. t = registry[i] /\ params = [name \in DOMAIN ps \ {"uri"} |-> ps[name]]
  <2> DEFINE found == FindResourceTemplateByUri(uri)
  <2>1. found.target = registry[i] /\ found.params = ps
    BY <1>1
  <2>2. ReadResource(uri)
          = [target |-> found.target,
             params |-> [name \in DOMAIN found.params \ {"uri"} |-> found.params[name]]]
    BY <1>2, <2>1 DEF ReadResource
  <2> HIDE DEF found, ps
  <2> QED
    BY <2>1, <2>2
<1>4. DOMAIN ps = Variables(t.path) \cup Given(t, uri)
  BY <1>3 DEF Params
<1>5. \A name \in DOMAIN ps : ValueFrom(t, uri, name, ps[name])
  BY <1>2, <1>3, ParamFrom
<1> HIDE DEF ps, t, params
<1>6. /\ t.kind = "resource-template" /\ Matches(t.path, uri.path)
      /\ DOMAIN params = (Variables(t.path) \cup Given(t, uri)) \ {"uri"}
      /\ \A name \in DOMAIN params : ValueFrom(t, uri, name, params[name])
  BY <1>1, <1>2, <1>3, <1>4, <1>5
<1> QED
  BY <1>6 DEF t, params

LEMMA TemplatesOK == ASSUME ToolsHold PROVE TemplatesAreRead
  BY ReadThrowsFor, TemplateRead DEF TemplatesAreRead, ValueFrom
-----------------------------------------------------------------------------
(* The steps of calls.                                                     *)
LEMMA SetCallOK ==
  ASSUME ToolsHold, NEW c \in Calls, NEW q \in CallType,
         q.pc # "idle" => q.tool # None /\ Entitled(q.user, q.tool), SetCall(c, q)
  PROVE  ToolsHold'
<1>1. /\ UNCHANGED <<program, registry, moduleHasGuards, allowUnauthenticatedAccess>>
      /\ calls' = [calls EXCEPT ![c] = q]
  BY DEF SetCall
<1>2. CallType' = CallType /\ Discover(program)' = Discover(program)
  BY <1>1 DEF CallType, Discover
<1>3. calls' \in [Calls -> CallType]
  BY <1>1 DEF ToolsHold
<1>4. ASSUME NEW d \in Calls PROVE CallOK(d)'
  <2>1. calls'[d] = IF d = c THEN q ELSE calls[d]
    BY <1>1 DEF ToolsHold
  <2> QED
    BY <2>1 DEF ToolsHold, CallOK
<1> QED
  BY <1>1, <1>2, <1>3, <1>4 DEF ToolsHold

LEMMA EndCallOK ==
  ASSUME ToolsHold, NEW c \in Calls, NEW outcome \in Outcomes, EndCall(c, outcome)
  PROVE  ToolsHold'
<1> DEFINE q == [IdleCall EXCEPT !.outcome = outcome]
<1>1. q.pc = "idle" /\ q \in CallType /\ SetCall(c, q)
  BY DEF IdleCall, CallType, Outcomes, EndCall
<1> HIDE DEF q
<1> QED
  BY <1>1, SetCallOK

LEMMA StartCallOK ==
  ASSUME ToolsHold, NEW c \in Calls, NEW u \in Users \cup {Undefined}, NEW http \in BOOLEAN,
         NEW i \in DOMAIN registry, Entitled(u, registry[i]),
         SetCall(c, [pc |-> "resolving", user |-> u, http |-> http, tool |-> registry[i],
                     outcome |-> None])
  PROVE  ToolsHold'
<1> DEFINE q == [pc |-> "resolving", user |-> u, http |-> http, tool |-> registry[i],
                 outcome |-> None]
<1>1. q.tool # None
  BY RegisteredOK
<1>2. q \in CallType /\ q.user = u /\ q.tool = registry[i] /\ SetCall(c, q)
  BY DEF CallType
<1> HIDE DEF q
<1> QED
  BY <1>1, <1>2, SetCallOK

(* A resource or a prompt, which anyone may read.                          *)
LEMMA StartsForOK ==
  ASSUME ToolsHold, NEW c \in Calls, NEW http \in BOOLEAN, NEW kind, kind # "tool",
         NEW target, target # None => \E i \in OfKind(kind) : target = registry[i],
         StartsFor(c, http, target)
  PROVE  ToolsHold'
<1>1. CASE target = None
  BY <1>1, EndCallOK DEF StartsFor, Outcomes
<1>2. CASE target # None
  <2>1. PICK i \in OfKind(kind) : target = registry[i]
    BY <1>2
  <2>2. i \in DOMAIN registry /\ Entitled(Undefined, registry[i])
    BY KindsAreNumbers DEF Entitled
  <2> QED
    BY <1>2, <2>1, <2>2, StartCallOK DEF StartsFor
<1> QED
  BY <1>1, <1>2

LEMMA CallToolOK ==
  ASSUME ToolsHold, NEW c \in Calls, NEW u \in Users \cup {Undefined},
         NEW http \in BOOLEAN, NEW name, CallTool(c, u, http, name)
  PROVE  ToolsHold'
<1> DEFINE t == FindTool(name)
           right == ValidateToolAccess(u, t, EffectiveGuards(http), allowUnauthenticatedAccess)
<1>1. CASE t = None
  BY <1>1, EndCallOK DEF CallTool, Outcomes
<1>2. CASE t # None /\ right # "allowed"
  <2>1. right \in Outcomes
    BY <1>2 DEF ValidateToolAccess, Outcomes
  <2>2. EndCall(c, right)
    BY <1>2 DEF CallTool
  <2> HIDE DEF right
  <2> QED
    BY <2>1, <2>2, EndCallOK
<1>3. CASE t # None /\ right = "allowed"
  <2>1. CASE EndCall(c, "invalid")
    BY <2>1, EndCallOK DEF Outcomes
  <2>2. CASE SetCall(c, [pc |-> "resolving", user |-> u, http |-> http, tool |-> t,
                         outcome |-> None])
    <3>1. PICK i \in GetTools : t = registry[i]
      BY <1>3, KindsAreNumbers, NamedIsOne DEF FindTool, GetTools
    <3>2. i \in DOMAIN registry
      BY KindsAreNumbers DEF GetTools
    <3>3. Entitled(u, t)
      BY <1>3, AllowedIsEntitled
    <3> HIDE DEF t, right
    <3> QED
      BY <2>2, <3>1, <3>2, <3>3, StartCallOK
  <2> QED
    BY <1>3, <2>1, <2>2 DEF CallTool
<1> QED
  BY <1>1, <1>2, <1>3

(* What is read is a template or a resource.                               *)
LEMMA ReadIsNoTool ==
  ASSUME ToolsHold, NEW uri
  PROVE  \E kind \in Kinds \ {"tool"} :
           ReadResource(uri).target # None
             => \E i \in OfKind(kind) : ReadResource(uri).target = registry[i]
<1>1. FindResourceTemplateByUri(uri).target # None
        => \E i \in OfKind("resource-template") :
             FindResourceTemplateByUri(uri).target = registry[i]
  BY KindsAreNumbers, NamedIsOne DEF FindResourceTemplateByUri, NotFound
<1>2. FindResourceByUri(uri).target # None
        => \E i \in OfKind("resource") : FindResourceByUri(uri).target = registry[i]
  BY KindsAreNumbers, NamedIsOne DEF FindResourceByUri, NotFound
<1>3. ReadResource(uri).target = IF FindResourceTemplateByUri(uri).target # None
                                 THEN FindResourceTemplateByUri(uri).target
                                 ELSE FindResourceByUri(uri).target
  BY DEF ReadResource
<1> QED
  BY <1>1, <1>2, <1>3 DEF Kinds

LEMMA ToolsNextOK == ASSUME ToolsHold, ToolsNext PROVE ToolsHold'
<1>1. CASE DiscoverTools
  <2>1. /\ registry = <<>> /\ registry' = Discover(program)
        /\ UNCHANGED <<program, moduleHasGuards, allowUnauthenticatedAccess, calls>>
    BY <1>1 DEF DiscoverTools
  <2>2. Discover(program)' = Discover(program)
    BY <2>1 DEF Discover
  <2>3. CallType \subseteq CallType'
    BY <2>1 DEF CallType
  <2>4. \A c \in Calls : CallOK(c)'
    BY <2>1 DEF ToolsHold, CallOK
  <2> QED
    BY <2>1, <2>2, <2>3, <2>4 DEF ToolsHold
<1>2. ASSUME NEW c \in Calls, NEW u \in Users \cup {Undefined}, NEW http \in BOOLEAN, NEW name,
             CallTool(c, u, http, name)
      PROVE  ToolsHold'
  BY <1>2, CallToolOK
<1>3. ASSUME NEW c \in Calls, NEW http \in BOOLEAN, NEW name, GetPrompt(c, http, name)
      PROVE  ToolsHold'
  <2> DEFINE target == Named(OfKind("prompt"), name)
  <2>1. target # None => \E i \in OfKind("prompt") : target = registry[i]
    BY KindsAreNumbers, NamedIsOne
  <2>2. StartsFor(c, http, target)
    BY <1>3 DEF GetPrompt
  <2> HIDE DEF target
  <2> QED
    BY <2>1, <2>2, StartsForOK
<1>4. ASSUME NEW c \in Calls, NEW http \in BOOLEAN, NEW uri \in Uris, CallResource(c, http, uri)
      PROVE  ToolsHold'
  <2> DEFINE target == ReadResource(uri).target
  <2>1. CASE ReadThrows(uri)
    BY <1>4, <2>1, EndCallOK DEF CallResource, Outcomes
  <2>2. CASE ~ReadThrows(uri)
    <3>1. StartsFor(c, http, target)
      BY <1>4, <2>2 DEF CallResource
    <3>2. PICK kind \in Kinds \ {"tool"} :
            target # None => \E i \in OfKind(kind) : target = registry[i]
      BY ReadIsNoTool
    <3> HIDE DEF target
    <3> QED
      BY <3>1, <3>2, StartsForOK
  <2> QED
    BY <2>1, <2>2
<1>5. ASSUME NEW c \in Calls, NEW outcome \in {"content"} \cup ErrorsOf(calls[c].tool),
             EndCall(c, outcome)
      PROVE  ToolsHold'
  <2>1. outcome \in Outcomes
    BY DEF ErrorsOf, Outcomes
  <2> QED
    BY <1>5, <2>1, EndCallOK
<1>6. ASSUME NEW c \in Calls, ToolResolved(c) PROVE ToolsHold'
  <2>1. CASE SetCall(c, [calls[c] EXCEPT !.pc = "executing"])
    <3> DEFINE q == [calls[c] EXCEPT !.pc = "executing"]
    <3>1. calls[c] \in CallType /\ CallOK(c) /\ calls[c].pc = "resolving"
      BY <1>6 DEF ToolsHold, ToolResolved
    <3>2. q \in CallType /\ q.tool = calls[c].tool /\ q.user = calls[c].user
      BY <3>1 DEF CallType
    <3> HIDE DEF q
    <3>3. q.tool # None /\ Entitled(q.user, q.tool)
      BY <3>1, <3>2 DEF CallOK
    <3> QED
      BY <2>1, <3>2, <3>3, SetCallOK DEF q
  <2> QED
    BY <1>5, <1>6, <2>1 DEF ToolResolved
<1>7. ASSUME NEW c \in Calls, ToolReturns(c) PROVE ToolsHold'
  BY <1>5, <1>7 DEF ToolReturns
<1> QED
  BY <1>1, <1>2, <1>3, <1>4, <1>6, <1>7 DEF ToolsNext
-----------------------------------------------------------------------------
(* What is appended to the messages keeps them paired.                     *)
LEMMA Appended ==
  ASSUME NEW h \in Seq(Entry), NEW e \in Entry
  PROVE  /\ Append(h, e) \in Seq(Entry) /\ Len(Append(h, e)) = Len(h) + 1
         /\ DOMAIN Append(h, e) = 1..(Len(h) + 1) /\ Len(h) \in Nat
         /\ Append(h, e)[Len(h) + 1] = e
         /\ \A i \in DOMAIN h : Append(h, e)[i] = h[i]
  OBVIOUS

LEMMA CalledKind ==
  ASSUME NEW ids \in Seq(Nat \X Nat)
  PROVE  Called(ids) \in Entry /\ Called(ids).kind = "calls" /\ Called(ids).ids = ids
  BY DEF Called, Entry

LEMMA ResultKind ==
  ASSUME NEW id \in Nat \X Nat
  PROVE  Result(id) \in Entry /\ Result(id).kind = "result" /\ Result(id).ids[1] = id
  BY DEF Result, Entry

LEMMA CalledKeepsPairs ==
  ASSUME NEW h \in Seq(Entry), Paired(h), NEW ids \in Seq(Nat \X Nat)
  PROVE  PairedBut(Append(h, Called(ids)), Len(h) + 1, 0)
<1> DEFINE g == Append(h, Called(ids))
<1>1. /\ g \in Seq(Entry) /\ DOMAIN g = 1..(Len(h) + 1) /\ Len(h) \in Nat
      /\ g[Len(h) + 1] = Called(ids) /\ \A i \in DOMAIN h : g[i] = h[i]
      /\ DOMAIN h = 1..Len(h)
  BY CalledKind, Appended
<1> HIDE DEF g
<1>2. ASSUME NEW i \in DOMAIN h
      PROVE  /\ g[i].kind = "calls" => ResultsFollow(g, i, Len(g[i].ids))
             /\ g[i].kind = "result" => HasCall(g, i)
  <2>1. g[i] = h[i] /\ i # 0
    BY <1>1
  <2>2. CASE h[i].kind = "calls"
    <3>1. ResultsFollow(h, i, Len(h[i].ids))
      BY <1>1, <2>1, <2>2 DEF Paired, PairedBut
    <3> QED
      BY <1>1, <2>1, <2>2, <3>1 DEF ResultsFollow
  <2>3. CASE h[i].kind = "result"
    <3>1. HasCall(h, i)
      BY <1>1, <2>1, <2>3 DEF Paired, PairedBut
    <3>2. \A a \in 1..(i - 1) : g[a] = h[a]
      <4>1. i \in 1..Len(h)
        BY <1>1
      <4>2. \A a \in 1..(i - 1) : a \in DOMAIN h
        BY <1>1, <4>1
      <4> QED
        BY <1>1, <4>2
    <3> QED
      BY <2>1, <2>3, <3>1, <3>2 DEF HasCall
  <2> QED
    BY <2>1, <2>2, <2>3
<1>3. g[Len(h) + 1].kind = "calls" /\ ResultsFollow(g, Len(h) + 1, 0)
  BY <1>1, CalledKind DEF ResultsFollow
<1> QED
  BY <1>1, <1>2, <1>3 DEF PairedBut, g

LEMMA ResultKeepsPairs ==
  ASSUME NEW h \in Seq(Entry), NEW at \in DOMAIN h, NEW n \in Nat, PairedBut(h, at, n),
         h[at].kind = "calls", at + n = Len(h), n + 1 \in DOMAIN h[at].ids
  PROVE  LET g == Append(h, Result(h[at].ids[n + 1]))
         IN PairedBut(g, at, n + 1) /\ g \in Seq(Entry) /\ g[at] = h[at] /\ Len(g) = at + (n + 1)
<1> DEFINE id == h[at].ids[n + 1]
           g == Append(h, Result(id))
<1>1. id \in Nat \X Nat
  <2>1. h[at] \in Entry
    OBVIOUS
  <2>2. h[at].ids \in Seq(Nat \X Nat)
    BY <2>1 DEF Entry
  <2> QED
    BY <2>2
<1>2. Result(id) \in Entry /\ Result(id).kind = "result" /\ Result(id).ids[1] = id
  BY <1>1, ResultKind
<1>3. /\ g \in Seq(Entry) /\ DOMAIN g = 1..(Len(h) + 1) /\ Len(h) \in Nat /\ Len(g) = Len(h) + 1
      /\ g[Len(h) + 1] = Result(id) /\ \A i \in DOMAIN h : g[i] = h[i]
      /\ DOMAIN h = 1..Len(h)
  BY <1>2, Appended
<1> HIDE DEF g, id
<1>4. at \in Nat /\ at >= 1 /\ g[at] = h[at]
  BY <1>3
<1>5. ASSUME NEW i \in DOMAIN h
      PROVE  /\ g[i].kind = "calls" =>
                  ResultsFollow(g, i, IF i = at THEN n + 1 ELSE Len(g[i].ids))
             /\ g[i].kind = "result" => HasCall(g, i)
  <2>1. g[i] = h[i]
    BY <1>3
  <2>2. CASE h[i].kind = "calls" /\ i # at
    <3>1. ResultsFollow(h, i, Len(h[i].ids))
      BY <2>2 DEF PairedBut
    <3>2. ResultsFollow(g, i, Len(h[i].ids))
      BY <1>3, <2>1, <3>1 DEF ResultsFollow
    <3> QED
      BY <2>1, <2>2, <3>2
  <2>3. CASE i = at
    <3>1. ResultsFollow(h, at, n)
      BY DEF PairedBut
    <3>2. at + (n + 1) \in DOMAIN g /\ g[at + (n + 1)] = Result(g[at].ids[n + 1])
      BY <1>3, <1>4 DEF id
    <3>3. \A j \in 1..n : at + j \in DOMAIN g /\ g[at + j] = Result(g[at].ids[j])
      BY <1>3, <1>4, <3>1 DEF ResultsFollow
    <3>4. \A j \in 1..(n + 1) : j = n + 1 \/ j \in 1..n
      OBVIOUS
    <3>5. ResultsFollow(g, at, n + 1)
      BY <3>2, <3>3, <3>4 DEF ResultsFollow
    <3> QED
      BY <2>1, <2>3, <3>5
  <2>4. CASE h[i].kind = "result"
    <3>1. HasCall(h, i)
      BY <2>4 DEF PairedBut
    <3>2. \A a \in 1..(i - 1) : g[a] = h[a]
      BY <1>3
    <3>3. i # at
      BY <2>4
    <3> QED
      BY <2>1, <2>4, <3>1, <3>2, <3>3 DEF HasCall
  <2> QED
    BY <2>1, <2>2, <2>3, <2>4
<1>6. HasCall(g, Len(h) + 1)
  <2>1. at \in 1..((Len(h) + 1) - 1) /\ (Len(h) + 1) - at = n + 1
    BY <1>3, <1>4
  <2> QED
    BY <1>2, <1>3, <1>4, <2>1 DEF HasCall, id
<1>7. Len(h) + 1 # at /\ g[Len(h) + 1].kind = "result"
  BY <1>2, <1>3, <1>4
<1>8. PairedBut(g, at, n + 1)
  BY <1>3, <1>5, <1>6, <1>7 DEF PairedBut
<1>9. Len(g) = at + (n + 1)
  BY <1>3, <1>4
<1> QED
  BY <1>3, <1>4, <1>8, <1>9 DEF g, id

LEMMA AllResults ==
  ASSUME NEW h \in Seq(Entry), NEW at \in DOMAIN h, PairedBut(h, at, Len(h[at].ids))
  PROVE  Paired(h)
<1>1. 0 \notin DOMAIN h
  OBVIOUS
<1> QED
  BY <1>1 DEF Paired, PairedBut
-----------------------------------------------------------------------------
(* The steps of chats.                                                     *)
LEMMA SetChatOK ==
  ASSUME ChatsHold, NEW k \in Chats, NEW q, Whole(q), q.parent \in {None, chats[k].parent},
         chats[k].pc # "executing" \/ q.pc = "executing" \/ ~Nests(k), SetChat(k, q)
  PROVE  ChatsHold'
<1>1. /\ q \in ChatType /\ chats' = [chats EXCEPT ![k] = q]
      /\ chats' \in [Chats -> ChatType] /\ chats \in [Chats -> ChatType]
  BY DEF SetChat, Whole, ChatsHold
<1>2. \A n \in Chats : chats'[n] = IF n = k THEN q ELSE chats[n]
  BY <1>1
<1>3. \A n \in Chats : chats'[n].parent \in {None, chats[n].parent}
  BY <1>2
<1>4. NestedOnce'
  BY <1>3 DEF ChatsHold, NestedOnce
<1>5. ASSUME NEW n \in Chats PROVE Whole(chats'[n])
  BY <1>2 DEF ChatsHold
<1>6. ASSUME NEW n \in Chats PROVE ParentRuns(n)'
  <2> SUFFICES ASSUME chats'[n].parent # None
               PROVE  chats'[chats'[n].parent].pc = "executing"
    BY DEF ParentRuns
  <2>1. chats'[n].parent = chats[n].parent /\ chats[n].parent \in Chats
    BY <1>1, <1>3 DEF ChatType
  <2>2. chats[chats[n].parent].pc = "executing"
    BY <2>1 DEF ChatsHold, ParentRuns
  <2>3. chats[n].parent = k => Nests(k)
    BY DEF Nests
  <2> QED
    BY <1>2, <2>1, <2>2, <2>3
<1> QED
  BY <1>1, <1>4, <1>5, <1>6 DEF ChatsHold

(* A chat that does not run tools need only have its messages paired, and  *)
(* may go on from where it is.                                             *)
LEMMA FreeIsWhole == FreeChat \in ChatType /\ Whole(FreeChat)
  BY BridgeAssumption DEF FreeChat, ChatType, Whole, Styles, Entry

LEMMA SaidKind ==
  ASSUME NEW who \in {"system", "user"}
  PROVE  Said(who) \in Entry /\ Said(who).kind = who
  BY DEF Said, Entry

LEMMA SaidIsPaired ==
  ASSUME NEW h \in Seq(Entry), \A i \in DOMAIN h : h[i].kind \notin {"calls", "result"}
  PROVE  Paired(h)
  BY DEF Paired, PairedBut

LEMMA ChatOK ==
  ASSUME ChatsHold, NEW k, NEW style \in Styles, NEW hasSystem \in BOOLEAN,
         Chat(k, style, hasSystem)
  PROVE  ChatsHold'
<1> DEFINE h == IF hasSystem THEN <<Said("system")>> ELSE <<Said("system"), Said("user")>>
           q == [FreeChat EXCEPT !.pc = "asking", !.style = style, !.useTools = TRUE, !.history = h]
<1>1. k \in Chats /\ chats[k].pc = "free" /\ SetChat(k, q)
  BY BridgeAssumption DEF Chat
<1>2. h \in Seq(Entry) /\ Paired(h)
  <2>1. h \in Seq(Entry) /\ \A i \in DOMAIN h : h[i].kind \in {"system", "user"}
    BY SaidKind
  <2> HIDE DEF h
  <2> QED
    BY <2>1, SaidIsPaired
<1> HIDE DEF h
<1>3. q \in ChatType /\ q.pc = "asking" /\ q.history = h /\ q.parent = None
  BY <1>2, FreeIsWhole DEF FreeChat, ChatType
<1> HIDE DEF q
<1>4. Whole(q)
  BY <1>2, <1>3 DEF Whole
<1> QED
  BY <1>1, <1>3, <1>4, SetChatOK
(* A chat with one field changed; asking again; and before its next call.  *)
LEMMA ChatWith ==
  ASSUME NEW q \in ChatType
  PROVE  /\ \A pc \in {"free", "asking", "calling", "executing", "answered", "failed"} :
              [q EXCEPT !.pc = pc] \in ChatType
         /\ \A h \in Seq(Entry) : [q EXCEPT !.history = h] \in ChatType
         /\ \A asked \in Seq(CallsType) : [q EXCEPT !.asked = asked] \in ChatType
         /\ \A next \in Nat \ {0} : [q EXCEPT !.next = next] \in ChatType
         /\ \A rounds \in 0..MaxRounds : [q EXCEPT !.rounds = rounds] \in ChatType
<1>1. \A pc \in {"free", "asking", "calling", "executing", "answered", "failed"} :
        [q EXCEPT !.pc = pc] \in ChatType
  BY DEF ChatType
<1>2. \A h \in Seq(Entry) : [q EXCEPT !.history = h] \in ChatType
  BY DEF ChatType
<1>3. \A asked \in Seq(CallsType) : [q EXCEPT !.asked = asked] \in ChatType
  BY DEF ChatType
<1>4. \A next \in Nat \ {0} : [q EXCEPT !.next = next] \in ChatType
  BY DEF ChatType
<1>5. \A rounds \in 0..MaxRounds : [q EXCEPT !.rounds = rounds] \in ChatType
  BY DEF ChatType
<1> QED
  BY <1>1, <1>2, <1>3, <1>4, <1>5

LEMMA WithHistory ==
  ASSUME NEW q \in ChatType, NEW g \in Seq(Entry)
  PROVE  LET r == [q EXCEPT !.history = g]
         IN /\ r \in ChatType /\ r.history = g /\ r.parent = q.parent
            /\ r.next = q.next /\ r.asked = q.asked /\ r.rounds = q.rounds /\ r.style = q.style
  BY DEF ChatType

LEMMA AskingChat ==
  ASSUME NEW q \in ChatType
  PROVE  LET r == [q EXCEPT !.pc = "asking", !.asked = <<>>, !.next = 1]
         IN r \in ChatType /\ r.pc = "asking" /\ r.history = q.history /\ r.parent = q.parent
<1> DEFINE a == [q EXCEPT !.pc = "asking"]
           b == [a EXCEPT !.asked = <<>>]
           c == [b EXCEPT !.next = 1]
           r == [q EXCEPT !.pc = "asking", !.asked = <<>>, !.next = 1]
<1>1. a \in ChatType
  BY ChatWith
<1>2. b \in ChatType
  <2> HIDE DEF a
  <2>1. <<>> \in Seq(CallsType)
    OBVIOUS
  <2> QED
    BY <1>1, <2>1, ChatWith
<1>3. c \in ChatType
  <2> HIDE DEF b
  <2>1. \A next \in Nat \ {0} : [b EXCEPT !.next = next] \in ChatType
    BY <1>2, ChatWith
  <2> QED
    BY <2>1
<1>4. r = c
  OBVIOUS
<1>5. r.pc = "asking" /\ r.history = q.history /\ r.parent = q.parent
  BY DEF ChatType
<1> QED
  BY <1>3, <1>4, <1>5

LEMMA CallingChat ==
  ASSUME NEW q \in ChatType
  PROVE  LET r == [q EXCEPT !.pc = "calling", !.next = @ + 1]
         IN /\ r \in ChatType /\ r.pc = "calling" /\ r.history = q.history /\ r.parent = q.parent
            /\ r.next = q.next + 1 /\ r.asked = q.asked /\ r.rounds = q.rounds /\ r.style = q.style
<1> DEFINE n == q.next + 1
           a == [q EXCEPT !.pc = "calling"]
           r == [q EXCEPT !.pc = "calling", !.next = @ + 1]
<1>1. a \in ChatType
  BY ChatWith
<1>2. n \in Nat \ {0}
  BY DEF ChatType
<1>3. [a EXCEPT !.next = n] \in ChatType
  <2> HIDE DEF a, n
  <2> QED
    BY <1>1, <1>2, ChatWith
<1>4. r = [a EXCEPT !.next = n]
  OBVIOUS
<1>5. /\ r.pc = "calling" /\ r.history = q.history /\ r.parent = q.parent
      /\ r.next = q.next + 1 /\ r.asked = q.asked /\ r.rounds = q.rounds /\ r.style = q.style
  BY DEF ChatType
<1> QED
  BY <1>3, <1>4, <1>5
(* The result of a call that is under way joins its answer.                *)
LEMMA ResultOfGemini ==
  ASSUME NEW h \in Seq(Entry), Paired(h), NEW id \in Nat \X Nat
  PROVE  LET g == (h \o <<Called(<<id>>)>>) \o <<Result(id)>> IN g \in Seq(Entry) /\ Paired(g)
<1> DEFINE ids == <<id>>
           f == Append(h, Called(ids))
           at == Len(h) + 1
<1>1. ids \in Seq(Nat \X Nat) /\ DOMAIN ids = 1..1 /\ Len(ids) = 1 /\ ids[1] = id
  OBVIOUS
<1>2. Called(ids) \in Entry /\ Called(ids).kind = "calls" /\ Called(ids).ids = ids
  <2> HIDE DEF ids
  <2> QED
    BY <1>1, CalledKind
<1>3. Result(id) \in Entry
  BY ResultKind
<1>4. /\ f \in Seq(Entry) /\ at \in DOMAIN f /\ f[at] = Called(ids)
      /\ at + 0 = Len(f) /\ Len(f) \in Nat
  BY <1>2, Appended
<1>5. PairedBut(f, at, 0)
  <2> HIDE DEF ids
  <2> QED
    BY <1>1, CalledKeepsPairs
<1>6. (h \o <<Called(<<id>>)>>) \o <<Result(id)>> = Append(f, Result(f[at].ids[0 + 1]))
  <2>1. f[at].ids[0 + 1] = id
    BY <1>1, <1>2, <1>4
  <2>2. h \o <<Called(ids)>> = f
    BY <1>2
  <2>3. f \o <<Result(id)>> = Append(f, Result(id))
    BY <1>3, <1>4
  <2> HIDE DEF f, at
  <2> QED
    BY <2>1, <2>2, <2>3
<1>7. f[at].kind = "calls" /\ 0 + 1 \in DOMAIN f[at].ids /\ Len(f[at].ids) = 0 + 1
  BY <1>1, <1>2, <1>4
<1> DEFINE g == Append(f, Result(f[at].ids[0 + 1]))
<1> HIDE DEF f, at
<1>8. PairedBut(g, at, 0 + 1) /\ g \in Seq(Entry) /\ g[at] = f[at] /\ Len(g) = at + (0 + 1)
  BY <1>4, <1>5, <1>7, ResultKeepsPairs
<1> HIDE DEF g
<1>9. at \in DOMAIN g
  BY <1>4, <1>8
<1>10. Paired(g)
  BY <1>7, <1>8, <1>9, AllResults
<1> QED
  BY <1>6, <1>8, <1>10 DEF g

LEMMA WithResultOK ==
  ASSUME ChatsHold, NEW k \in Chats, chats[k].pc \in {"calling", "executing"}
  PROVE  Whole(WithResult(k)) /\ WithResult(k).parent = chats[k].parent
<1> DEFINE q == chats[k]
           h == q.history
           n == q.next - 1
           id == <<q.rounds, q.next>>
           call == IF q.style = "gemini" THEN <<Called(<<id>>)>> ELSE <<>>
           g == h \o call \o <<Result(id)>>
           on == [q EXCEPT !.history = g]
<1>1. /\ q \in ChatType /\ q.next <= Len(q.asked) /\ HasAnswer(q)
      /\ h \in Seq(Entry) /\ q.next \in Nat \ {0} /\ q.rounds \in Nat /\ Len(q.asked) \in Nat
      /\ Len(h) \in Nat /\ n \in Nat
  <2>1. Whole(q) /\ q \in ChatType
    BY DEF ChatsHold
  <2> QED
    BY <2>1, BridgeAssumption DEF Whole, ChatType
<1>2. id \in Nat \X Nat /\ Result(id) \in Entry
  BY <1>1, ResultKind
<1>3. /\ g \in Seq(Entry)
      /\ q.next = Len(q.asked) => Paired(g)
      /\ q.next # Len(q.asked) =>
           /\ q.style # "gemini" /\ Len(g) - q.next \in DOMAIN g
           /\ g[Len(g) - q.next] = Called([i \in 1..Len(q.asked) |-> <<q.rounds, i>>])
           /\ PairedBut(g, Len(g) - q.next, q.next)
  <2>1. CASE q.style = "gemini"
    <3>1. Len(q.asked) = 1 /\ Paired(h)
      BY <1>1, <2>1 DEF HasAnswer
    <3>2. q.next = Len(q.asked)
      BY <1>1, <3>1
    <3>3. g = (h \o <<Called(<<id>>)>>) \o <<Result(id)>>
      BY <2>1
    <3> HIDE DEF g, h, id
    <3>4. g \in Seq(Entry) /\ Paired(g)
      BY <1>1, <1>2, <3>1, <3>3, ResultOfGemini
    <3> QED
      BY <3>2, <3>4
  <2>2. CASE q.style # "gemini"
    <3> DEFINE at == LastAnswer(q)
               ids == [i \in 1..Len(q.asked) |-> <<q.rounds, i>>]
    <3>1. /\ at \in DOMAIN h /\ h[at] = Called(ids) /\ PairedBut(h, at, n)
          /\ at = Len(h) - n
      BY <1>1, <2>2 DEF HasAnswer, LastAnswer
    <3>2. ids \in Seq(Nat \X Nat) /\ DOMAIN ids = 1..Len(q.asked) /\ Len(ids) = Len(q.asked)
      BY <1>1
    <3>3. h[at].kind = "calls" /\ h[at].ids = ids
      <4> HIDE DEF ids, at
      <4> QED
        BY <3>1, <3>2, CalledKind
    <3>4. at + n = Len(h) /\ at \in Nat
      <4> HIDE DEF at, h, n
      <4> QED
        BY <1>1, <3>1
    <3>5. n + 1 = q.next /\ q.next \in DOMAIN ids /\ ids[q.next] = id
      BY <1>1, <3>2
    <3>6. g = Append(h, Result(id))
      <4>1. g = (h \o <<>>) \o <<Result(id)>>
        BY <2>2
      <4> HIDE DEF g, h, id
      <4>2. h \o <<>> = h
        BY <1>1
      <4>3. h \o <<Result(id)>> = Append(h, Result(id))
        BY <1>1, <1>2
      <4> QED
        BY <4>1, <4>2, <4>3
    <3> HIDE DEF at, ids, g, id, h, n, q
    <3>7. /\ PairedBut(g, at, n + 1) /\ g \in Seq(Entry) /\ g[at] = h[at]
          /\ Len(g) = at + (n + 1)
      <4>1. g = Append(h, Result(h[at].ids[n + 1])) /\ n + 1 \in DOMAIN h[at].ids
        BY <3>3, <3>5, <3>6
      <4> QED
        BY <1>1, <3>1, <3>3, <3>4, <4>1, ResultKeepsPairs
    <3>8. at = Len(g) - q.next /\ at \in DOMAIN g
      BY <1>1, <3>1, <3>4, <3>5, <3>7
    <3>9. q.next = Len(q.asked) => Paired(g)
      BY <3>2, <3>3, <3>5, <3>7, <3>8, AllResults
    <3> QED
      BY <2>2, <3>1, <3>5, <3>7, <3>8, <3>9 DEF ids
  <2> QED
    BY <2>1, <2>2
<1>4. WithResult(k) = IF q.next = Len(q.asked)
                        THEN [on EXCEPT !.pc = "asking", !.asked = <<>>, !.next = 1]
                        ELSE [on EXCEPT !.pc = "calling", !.next = @ + 1]
  BY DEF WithResult
<1> HIDE DEF g, q, h, n, id
<1>5. on \in ChatType /\ on.history = g /\ on.parent = q.parent
      /\ on.next = q.next /\ on.asked = q.asked /\ on.rounds = q.rounds /\ on.style = q.style
  BY <1>1, <1>3, WithHistory
<1> HIDE DEF on
<1>6. CASE q.next = Len(q.asked)
  <2> DEFINE r == [on EXCEPT !.pc = "asking", !.asked = <<>>, !.next = 1]
  <2>1. r \in ChatType /\ r.pc = "asking" /\ r.history = g /\ r.parent = q.parent
    BY <1>5, AskingChat
  <2> HIDE DEF r
  <2>2. Whole(r)
    BY <1>3, <1>6, <2>1 DEF Whole
  <2> QED
    BY <1>4, <1>6, <2>1, <2>2 DEF r, q
<1>7. CASE q.next # Len(q.asked)
  <2> DEFINE r == [on EXCEPT !.pc = "calling", !.next = @ + 1]
  <2>1. /\ r \in ChatType /\ r.pc = "calling" /\ r.history = g /\ r.parent = q.parent
        /\ r.next = q.next + 1 /\ r.asked = q.asked /\ r.rounds = q.rounds /\ r.style = q.style
    BY <1>5, CallingChat
  <2> HIDE DEF r
  <2>2. LastAnswer(r) = Len(g) - q.next /\ r.next - 1 = q.next /\ r.next <= Len(r.asked)
    BY <1>1, <1>3, <1>7, <2>1 DEF LastAnswer
  <2>3. HasAnswer(r)
    BY <1>3, <1>7, <2>1, <2>2 DEF HasAnswer
  <2>4. Whole(r)
    BY <2>1, <2>2, <2>3 DEF Whole
  <2> QED
    BY <1>4, <1>7, <2>1, <2>4 DEF r, q
<1> QED
  BY <1>6, <1>7
LEMMA SameAnswer ==
  ASSUME NEW q, NEW r, r.style = q.style, r.asked = q.asked, r.history = q.history,
         r.next = q.next, r.rounds = q.rounds, HasAnswer(q)
  PROVE  HasAnswer(r)
  BY DEF HasAnswer, LastAnswer

(* A chat that only goes to another point.                                 *)
LEMMA GoesTo ==
  ASSUME ChatsHold, NEW k \in Chats,
         NEW pc \in {"executing", "answered", "failed"},
         pc = "executing" => chats[k].pc = "calling"
  PROVE  LET q == [chats[k] EXCEPT !.pc = pc]
         IN Whole(q) /\ q.parent = chats[k].parent /\ q.pc = pc
<1> DEFINE q == [chats[k] EXCEPT !.pc = pc]
<1>1. chats[k] \in ChatType /\ Whole(chats[k])
  BY DEF ChatsHold
<1>2. q \in ChatType
  BY <1>1, ChatWith
<1>3. /\ q.style = chats[k].style /\ q.asked = chats[k].asked /\ q.history = chats[k].history
      /\ q.next = chats[k].next /\ q.rounds = chats[k].rounds /\ q.parent = chats[k].parent
      /\ q.pc = pc
  BY <1>1 DEF ChatType
<1> HIDE DEF q
<1>4. pc = "executing" => q.next <= Len(q.asked) /\ HasAnswer(q)
  BY <1>1, <1>3, SameAnswer DEF Whole
<1>5. Whole(q)
  BY <1>2, <1>3, <1>4 DEF Whole
<1> QED
  BY <1>3, <1>5 DEF q

LEMMA GoesToOK ==
  ASSUME ChatsHold, NEW k \in Chats,
         NEW pc \in {"executing", "answered", "failed"},
         pc = "executing" => chats[k].pc = "calling",
         chats[k].pc # "executing" \/ ~Nests(k),
         SetChat(k, [chats[k] EXCEPT !.pc = pc])
  PROVE  ChatsHold'
<1> DEFINE q == [chats[k] EXCEPT !.pc = pc]
<1>1. Whole(q) /\ q.parent = chats[k].parent
  BY GoesTo
<1> HIDE DEF q
<1> QED
  BY <1>1, SetChatOK DEF q

LEMMA AskedTypes ==
  ASSUME ToolsHold, NEW k, NEW n \in 1..MaxCalls, NEW asked \in [1..n -> ModelCalls(k)]
  PROVE  asked \in Seq(CallsType) /\ Len(asked) = n /\ n \in Nat /\ n >= 1
<1>1. \A i \in GetTools : registry[i].name \in {None} \cup STRING
  BY RegisteredOK, KindsAreNumbers DEF GetTools, Methods
<1>2. ModelCalls(k) \subseteq CallsType
  <2>1. Offered(k) \subseteq {None} \cup STRING
    BY <1>1 DEF Offered
  <2>2. Callable(k) \subseteq {None, "nowhere"} \cup STRING
    BY <2>1 DEF Callable
  <2> QED
    BY <2>2 DEF ModelCalls, CallsType
<1>3. n \in Nat /\ n >= 1
  BY BridgeAssumption
<1> QED
  BY <1>2, <1>3

LEMMA AsksForToolsOK ==
  ASSUME ToolsHold, ChatsHold, NEW k \in Chats, NEW n \in 1..MaxCalls,
         NEW asked \in [1..n -> ModelCalls(k)], AsksForTools(k, asked)
  PROVE  ChatsHold'
<1> DEFINE q == chats[k]
           taken == IF q.style = "gemini" THEN <<Head(asked)>> ELSE asked
           ids == [i \in 1..Len(taken) |-> <<q.rounds + 1, i>>]
           h == IF q.style = "gemini" THEN q.history ELSE Append(q.history, Called(ids))
           r == [q EXCEPT !.pc = "calling", !.asked = taken, !.next = 1, !.rounds = @ + 1,
                       !.history = h]
<1>1. /\ q \in ChatType /\ Paired(q.history) /\ q.history \in Seq(Entry) /\ Len(q.history) \in Nat
      /\ q.pc = "asking" /\ q.rounds + 1 \in 0..MaxRounds /\ q.rounds \in Nat
  <2>1. q \in ChatType /\ Whole(q) /\ q.pc = "asking" /\ q.rounds < MaxRounds
    BY DEF ChatsHold, AsksForTools
  <2>2. q.rounds \in 0..MaxRounds /\ q.history \in Seq(Entry)
    BY <2>1 DEF ChatType
  <2> QED
    BY <2>1, <2>2, BridgeAssumption DEF Whole
<1>2. taken \in Seq(CallsType) /\ Len(taken) \in Nat /\ 1 <= Len(taken)
      /\ (q.style = "gemini" => Len(taken) = 1)
  <2>1. asked \in Seq(CallsType) /\ Len(asked) = n /\ n \in Nat /\ n >= 1
    BY AskedTypes
  <2>2. Head(asked) \in CallsType
    BY <2>1
  <2> HIDE DEF q
  <2> QED
    BY <2>1, <2>2
<1>3. SetChat(k, r)
  BY DEF AsksForTools, Ids
<1> HIDE DEF taken, q
<1>4. ids \in Seq(Nat \X Nat) /\ Len(ids) = Len(taken)
  BY <1>1, <1>2
<1>5. /\ h \in Seq(Entry)
      /\ q.style # "gemini" => /\ Len(h) = Len(q.history) + 1 /\ Len(h) \in DOMAIN h
                               /\ h[Len(h)] = Called(ids) /\ PairedBut(h, Len(h), 0)
  <2> HIDE DEF ids
  <2>1. Called(ids) \in Entry
    BY <1>4, CalledKind
  <2>2. PairedBut(Append(q.history, Called(ids)), Len(q.history) + 1, 0)
    BY <1>1, <1>4, CalledKeepsPairs
  <2> QED
    BY <1>1, <2>1, <2>2, Appended
<1> HIDE DEF h, ids
<1>6. /\ r.pc = "calling" /\ r.asked = taken /\ r.next = 1 /\ r.rounds = q.rounds + 1
      /\ r.history = h /\ r.style = q.style /\ r.parent = q.parent
  BY <1>1 DEF ChatType
<1>7. r \in ChatType
  <2> DEFINE a == [q EXCEPT !.pc = "calling"]
             b == [a EXCEPT !.asked = taken]
             c == [b EXCEPT !.next = 1]
             d == [c EXCEPT !.rounds = q.rounds + 1]
             e == [d EXCEPT !.history = h]
  <2>1. a \in ChatType
    BY <1>1, ChatWith
  <2>2. r = e
    OBVIOUS
  <2> HIDE DEF a
  <2>3. b \in ChatType
    BY <1>2, <2>1, ChatWith
  <2> HIDE DEF b
  <2>4. c \in ChatType
    <3>1. \A next \in Nat \ {0} : [b EXCEPT !.next = next] \in ChatType
      BY <2>3, ChatWith
    <3> QED
      BY <3>1
  <2> HIDE DEF c
  <2>5. d \in ChatType
    BY <1>1, <2>4, ChatWith
  <2> HIDE DEF d
  <2>6. e \in ChatType
    BY <1>5, <2>5, ChatWith
  <2> QED
    BY <2>2, <2>6
<1> HIDE DEF r
<1>8. HasAnswer(r)
  <2>1. CASE q.style = "gemini"
    <3>1. h = q.history
      BY <2>1 DEF h
    <3> QED
      BY <1>1, <1>2, <1>6, <2>1, <3>1 DEF HasAnswer
  <2>2. CASE q.style # "gemini"
    <3>1. Len(h) \in Nat /\ r.next - 1 = 0
      BY <1>5, <1>6
    <3>2. LastAnswer(r) = Len(h)
      BY <1>6, <3>1 DEF LastAnswer
    <3> QED
      BY <1>5, <1>6, <2>2, <3>1, <3>2 DEF HasAnswer, ids
  <2> QED
    BY <2>1, <2>2
<1>9. Whole(r) /\ chats[k].pc # "executing"
  BY <1>1, <1>2, <1>6, <1>7, <1>8 DEF Whole, q
<1> QED
  BY <1>3, <1>6, <1>9, SetChatOK DEF q
LEMMA ToolEndsOK == ASSUME ChatsHold, NEW k \in Chats, ToolEnds(k) PROVE ChatsHold'
<1>1. CASE SetChat(k, WithResult(k))
  <2> DEFINE q == WithResult(k)
  <2>1. Whole(q) /\ q.parent = chats[k].parent /\ ~Nests(k)
    BY WithResultOK DEF ToolEnds
  <2> HIDE DEF q
  <2> QED
    BY <1>1, <2>1, SetChatOK DEF q
<1>2. CASE SetChat(k, [chats[k] EXCEPT !.pc = "failed"])
  BY <1>2, GoesToOK DEF ToolEnds
<1> QED
  BY <1>1, <1>2 DEF ToolEnds

LEMMA NestedEndsOK == ASSUME ChatsHold, NEW n \in Chats, NestedEnds(n) PROVE ChatsHold'
<1> DEFINE p == chats[n].parent
           q == WithResult(p)
<1>1. p # None /\ p \in Chats /\ chats[p].pc = "executing" /\ chats[n].pc \in {"answered", "failed"}
  <2>1. chats[n] \in ChatType /\ ParentRuns(n)
    BY DEF ChatsHold
  <2> QED
    BY <2>1 DEF NestedEnds, Ended, ParentRuns, ChatType
<1>2. Whole(q) /\ q.parent = chats[p].parent
  BY <1>1, WithResultOK
<1>3. chats' = [chats EXCEPT ![n] = FreeChat, ![p] = q]
  BY DEF NestedEnds
<1> HIDE DEF q
<1>4. chats \in [Chats -> ChatType] /\ q \in ChatType /\ FreeChat \in ChatType /\ p # n
  BY <1>1, <1>2, FreeIsWhole DEF ChatsHold, Whole
<1>5. /\ chats' \in [Chats -> ChatType]
      /\ \A m \in Chats : chats'[m] = IF m = p THEN q ELSE IF m = n THEN FreeChat ELSE chats[m]
  <2> HIDE DEF p
  <2> QED
    BY <1>1, <1>3, <1>4
<1>6. \A m \in Chats : chats'[m].parent \in {None, chats[m].parent}
  BY <1>2, <1>5 DEF FreeChat
<1>7. NestedOnce'
  BY <1>6 DEF ChatsHold, NestedOnce
<1>8. \A m \in Chats : Whole(chats'[m])
  BY <1>2, <1>5, FreeIsWhole DEF ChatsHold
<1>9. ASSUME NEW m \in Chats PROVE ParentRuns(m)'
  <2> SUFFICES ASSUME chats'[m].parent # None
               PROVE  chats'[chats'[m].parent].pc = "executing"
    BY DEF ParentRuns
  <2>1. m # n /\ chats'[m].parent = chats[m].parent /\ chats[m].parent \in Chats
    <3>1. m # n
      BY <1>4, <1>5 DEF FreeChat
    <3>2. chats[m].parent \in Chats \cup {None}
      BY <1>4 DEF ChatType
    <3> QED
      BY <1>6, <3>1, <3>2
  <2>2. chats[chats[m].parent].pc = "executing"
    BY <2>1 DEF ChatsHold, ParentRuns
  <2>3. chats[m].parent # n
    BY <1>1, <2>2
  <2>4. chats[m].parent # p
    BY <1>1, <2>1 DEF ChatsHold, NestedOnce
  <2> QED
    BY <1>5, <2>1, <2>2, <2>3, <2>4
<1> QED
  BY <1>5, <1>7, <1>8, <1>9 DEF ChatsHold

LEMMA SimpleChatOK ==
  ASSUME NEW k \in Chats, NEW style \in Styles
  PROVE  /\ Whole(SimpleChat(k, style)) /\ SimpleChat(k, style).parent = k
         /\ SimpleChat(k, style).pc = "asking"
<1> DEFINE h == <<Said("user")>>
           q == SimpleChat(k, style)
<1>1. h \in Seq(Entry) /\ Paired(h)
  <2>1. h \in Seq(Entry) /\ \A i \in DOMAIN h : h[i].kind \in {"system", "user"}
    BY SaidKind
  <2> HIDE DEF h
  <2> QED
    BY <2>1, SaidIsPaired
<1> HIDE DEF h
<1>2. q \in ChatType /\ q.pc = "asking" /\ q.history = h /\ q.parent = k
  BY <1>1, FreeIsWhole DEF SimpleChat, FreeChat, ChatType, h
<1> HIDE DEF q
<1> QED
  BY <1>1, <1>2 DEF Whole, q

LEMMA ExecuteGeneralQueryOK ==
  ASSUME ChatsHold, NEW k \in Chats, NEW n \in Chats, NEW style \in Styles,
         ExecuteGeneralQuery(k, n, style)
  PROVE  ChatsHold'
<1> DEFINE q == Running(k)
           s == SimpleChat(k, style)
<1>1. chats[k].pc = "calling" /\ chats[n].pc = "free" /\ k # n
  BY DEF ExecuteGeneralQuery, Executes
<1>2. Whole(q) /\ q.parent = chats[k].parent /\ q.pc = "executing"
  BY <1>1, GoesTo DEF Running
<1>3. Whole(s) /\ s.parent = k /\ s.pc = "asking"
  BY SimpleChatOK
<1>4. chats' = [chats EXCEPT ![k] = q, ![n] = s]
  BY DEF ExecuteGeneralQuery
<1> HIDE DEF q, s
<1>5. /\ chats' \in [Chats -> ChatType] /\ chats \in [Chats -> ChatType]
      /\ \A m \in Chats : chats'[m] = IF m = n THEN s ELSE IF m = k THEN q ELSE chats[m]
  BY <1>2, <1>3, <1>4 DEF ChatsHold, Whole
<1>6. \A m \in Chats \ {n} : chats'[m].parent = chats[m].parent
  BY <1>2, <1>5
<1>7. k # None => \A m \in Chats : chats[m].parent # k
  BY <1>1 DEF ChatsHold, ParentRuns
<1>8. NestedOnce'
  BY <1>3, <1>5, <1>6, <1>7 DEF ChatsHold, NestedOnce
<1>9. \A m \in Chats : Whole(chats'[m])
  BY <1>2, <1>3, <1>5 DEF ChatsHold
<1>10. ASSUME NEW m \in Chats PROVE ParentRuns(m)'
  <2> SUFFICES ASSUME chats'[m].parent # None
               PROVE  chats'[chats'[m].parent].pc = "executing"
    BY DEF ParentRuns
  <2>1. CASE m = n
    BY <1>1, <1>2, <1>3, <1>5, <2>1
  <2>2. CASE m # n
    <3>1. chats'[m].parent = chats[m].parent /\ chats[m].parent \in Chats
      BY <1>5, <1>6, <2>2 DEF ChatType
    <3>2. chats[chats[m].parent].pc = "executing"
      BY <3>1 DEF ChatsHold, ParentRuns
    <3> QED
      BY <1>1, <1>5, <3>1, <3>2
  <2> QED
    BY <2>1, <2>2
<1> QED
  BY <1>5, <1>8, <1>9, <1>10 DEF ChatsHold

LEMMA AdvanceOK == ASSUME ToolsHold, ChatsHold, NEW k \in Chats, Advance(k) PROVE ChatsHold'
<1>1. CASE ModelAnswers(k)
  <2>1. CASE AnswersInWords(k)
    BY <2>1, GoesToOK DEF AnswersInWords
  <2>2. CASE ModelFails(k)
    BY <2>2, GoesToOK DEF ModelFails
  <2> QED
    BY <1>1, <2>1, <2>2, AsksForToolsOK DEF ModelAnswers
<1>2. CASE CannotExecute(k)
  BY <1>2, GoesToOK DEF CannotExecute
<1>3. CASE ExecuteTool(k)
  BY <1>3, GoesToOK DEF ExecuteTool, Executes, Running
<1> QED
  BY <1>1, <1>2, <1>3, ToolEndsOK, NestedEndsOK, ExecuteGeneralQueryOK DEF Advance
-----------------------------------------------------------------------------
LEMMA InitOK == ASSUME Init PROVE IInv
<1>1. ToolsHold
  <2>1. IdleCall \in CallType /\ IdleCall.pc = "idle"
    BY DEF IdleCall, CallType, Outcomes
  <2> QED
    BY <2>1 DEF Init, ToolsInit, ToolsHold, CallOK
<1>2. ChatsHold
  <2>1. FreeChat.parent = None
    BY DEF FreeChat
  <2> QED
    BY <2>1, FreeIsWhole DEF Init, ChatsHold, NestedOnce, ParentRuns
<1> QED
  BY <1>1, <1>2 DEF IInv

LEMMA NextOK == ASSUME IInv, [Next]_vars PROVE IInv'
<1>1. CASE ToolsNext /\ UNCHANGED chats
  <2>1. ToolsHold'
    BY <1>1, ToolsNextOK DEF IInv
  <2>2. ChatsHold'
    BY <1>1 DEF IInv, ChatsHold, NestedOnce, ParentRuns
  <2> QED
    BY <2>1, <2>2 DEF IInv
<1>2. ASSUME UNCHANGED toolVars, ChatsHold' PROVE IInv'
  <2>1. ToolsHold'
    BY <1>2 DEF IInv, toolVars, ToolsHold, Discover, CallType, CallOK
  <2> QED
    BY <1>2, <2>1 DEF IInv
<1>3. ASSUME NEW k \in Chats, NEW style \in Styles, NEW hasSystem \in BOOLEAN,
             Chat(k, style, hasSystem)
      PROVE  IInv'
  <2>1. UNCHANGED toolVars /\ ChatsHold'
    BY <1>3, ChatOK DEF Chat, IInv
  <2> QED
    BY <1>2, <2>1
<1>4. ASSUME NEW k \in Chats, Advance(k) PROVE IInv'
  <2>1. UNCHANGED toolVars
    BY <1>4 DEF Advance, ModelAnswers, AnswersInWords, ModelFails, AsksForTools, CannotExecute,
                ExecuteTool, ToolEnds, NestedEnds, ExecuteGeneralQuery
  <2>2. ChatsHold'
    BY <1>4, AdvanceOK DEF IInv
  <2> QED
    BY <1>2, <2>1, <2>2
<1>5. CASE UNCHANGED vars
  <2>1. UNCHANGED toolVars /\ UNCHANGED chats
    BY <1>5 DEF vars
  <2>2. ChatsHold'
    BY <2>1 DEF IInv, ChatsHold, NestedOnce, ParentRuns
  <2> QED
    BY <1>2, <2>1, <2>2
<1> QED
  BY <1>1, <1>3, <1>4, <1>5 DEF Next

LEMMA Holds == Spec => []IInv
<1>1. Init => IInv
  BY InitOK
<1>2. IInv /\ [Next]_vars => IInv'
  BY NextOK
<1> QED
  BY <1>1, <1>2, PTL DEF Spec

LEMMA TypesOK == ASSUME IInv PROVE TypeOK
<1>1. registry = <<>> \/ Len(registry) = Len(program)
  <2>1. program \in Seq(Methods) /\ Len(program) \in Nat /\ DOMAIN program = 1..Len(program)
    BY ToolsAssumption DEF IInv, ToolsHold
  <2>2. CASE registry = Discover(program)
    <3>1. registry \in Seq(Methods) /\ DOMAIN registry = DOMAIN program
      BY <2>2, RegisteredOK DEF IInv, Discover
    <3>2. DOMAIN registry = 1..Len(registry) /\ Len(registry) \in Nat
      BY <3>1
    <3> QED
      BY <2>1, <3>1, <3>2
  <2> QED
    BY <2>2 DEF IInv, ToolsHold
<1>2. \A c \in Calls :
        calls[c].pc \in {"idle", "resolving", "executing"}
        /\ (calls[c].pc \in {"resolving", "executing"} => calls[c].tool # None)
  BY DEF IInv, ToolsHold, CallOK, CallType
<1>3. ASSUME NEW k \in Chats
      PROVE  /\ chats[k].pc \in {"free", "asking", "calling", "executing", "answered", "failed"}
             /\ chats[k].style \in Styles /\ chats[k].rounds \in 0..MaxRounds
             /\ chats[k].pc \in {"calling", "executing"} => chats[k].next \in DOMAIN chats[k].asked
  <2>1. chats[k] \in ChatType /\ Whole(chats[k])
    BY DEF IInv, ChatsHold
  <2>2. chats[k].asked \in Seq(CallsType) /\ chats[k].next \in Nat \ {0}
    BY <2>1 DEF ChatType
  <2>3. chats[k].next <= Len(chats[k].asked) => chats[k].next \in DOMAIN chats[k].asked
    BY <2>2
  <2> QED
    BY <2>1, <2>3 DEF ChatType, Whole
<1> QED
  BY <1>1, <1>2, <1>3 DEF TypeOK

LEMMA HistoryOK == ASSUME IInv PROVE HistoryIsPaired
<1> SUFFICES ASSUME NEW k \in Chats, chats[k].pc = "asking"
             PROVE  LET h == chats[k].history IN
                      /\ \A i \in DOMAIN h : h[i].kind = "calls" =>
                           \A j \in 1..Len(h[i].ids) :
                             i + j \in DOMAIN h /\ h[i + j] = Result(h[i].ids[j])
                      /\ \A i \in DOMAIN h : h[i].kind = "result" =>
                           \E a \in 1..(i - 1) : /\ h[a].kind = "calls"
                                                 /\ i - a \in DOMAIN h[a].ids
                                                 /\ h[a].ids[i - a] = h[i].ids[1]
  BY DEF HistoryIsPaired
<1>1. Paired(chats[k].history) /\ chats[k].history \in Seq(Entry)
  BY DEF IInv, ChatsHold, Whole, ChatType
<1>2. 0 \notin DOMAIN chats[k].history
  BY <1>1
<1> QED
  BY <1>1, <1>2 DEF Paired, PairedBut, ResultsFollow, HasCall
-----------------------------------------------------------------------------
(* The registry, the calls and the chats keep their types: a call in       *)
(* flight has what it calls, and a chat that runs a tool is at one of the  *)
(* calls it was asked for.                                                 *)
THEOREM BridgeTypes == Spec => []TypeOK
  BY Holds, TypesOK, PTL

(* Whenever the model is asked, each call that it made has its result, and *)
(* each result its call, however tools end and nested chats fail.          *)
THEOREM HistoriesArePaired == Spec => []HistoryIsPaired
  BY Holds, HistoryOK, PTL

(* For all tools and users: a tool runs for a client over HTTP only if it  *)
(* is public, asks for nothing, or the client has all that it asks for,    *)
(* also where tools share a name.                                          *)
THEOREM OnlyEntitledAreServed == Spec => []OnlyEntitledCall
<1>1. IInv => OnlyEntitledCall
  BY DEF IInv, ToolsHold, CallOK, Entitled, OnlyEntitledCall
<1> QED
  BY <1>1, Holds, PTL

(* For all tools and users: what a user is shown he can call, and what he  *)
(* can call he is shown.                                                   *)
THEOREM ListsAreCallable == Spec => []ListedIsCallable
<1>1. IInv => ListedIsCallable
  BY ListedOK DEF IInv
<1> QED
  BY <1>1, Holds, PTL

(* For all tools: what is listed as needing a log-in refuses a caller      *)
(* without one.                                                            *)
THEOREM AdvertisedStaysEnforced == Spec => []AdvertisedIsEnforced
<1>1. IInv => AdvertisedIsEnforced
  BY AdvertisedOK DEF IInv
<1> QED
  BY <1>1, Holds, PTL

(* For all templates, URIs and decodings: what matches a template is read  *)
(* by one that it matches, with the values the URI has for its variables,  *)
(* decoded; and the look-up throws only for a malformed escape or a        *)
(* {name*}.                                                                *)
THEOREM TemplatesStayRead == Spec => []TemplatesAreRead
<1>1. IInv => TemplatesAreRead
  BY TemplatesOK DEF IInv
<1> QED
  BY <1>1, Holds, PTL
=================================================================================
