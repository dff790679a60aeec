-------------------------------- MODULE McpTools --------------------------------
(***************************************************************************)
(* The registry of tools and resources (McpRegistryService), the rights to *)
(* them (ToolAuthorizationService) and the handlers of an MCP server that  *)
(* list, call and read them.  What is registered is found once, when the   *)
(* application starts; a call then passes look-up, authorization,          *)
(* validation and the provider, each of which may end it.                  *)
(***************************************************************************)
EXTENDS Naturals, Sequences

CONSTANTS
  Calls,      \* slots for MCP requests in flight
  Programs,   \* sequences of decorated methods, in the order they are scanned
  Users,      \* user objects that a guard may leave on the HTTP request
  Uris,       \* URIs that clients read
  Decode,     \* decodeURIComponent: what a text decodes to, None where it throws
  None

(* A decorated method: its kind, its own name and that of the decorator,   *)
(* whether it is public, the scopes and roles asked of the caller, and the *)
(* URI of a resource: a path of segments and the names of query variables. *)
(* A segment is a text, <<"lit", text>>, or a variable: {name} of one      *)
(* segment, <<"var", name>>, or {name*} of several, <<"many", name>>.      *)
Kinds == {"tool", "resource", "resource-template", "prompt"}
Methods == [kind: Kinds, method: STRING, name: {None} \cup STRING, public: BOOLEAN,
            scopes: SUBSET STRING, roles: SUBSET STRING,
            path: Seq({"lit", "var", "many"} \X STRING), query: SUBSET STRING]

(* A URI that is read has segments of text, and a query of pairs, each a   *)
(* name and what follows it, cut at every "=" (of a name alone, "").       *)
ASSUME ToolsAssumption ==
  /\ Programs \subseteq Seq(Methods)
  /\ None \notin Methods /\ None \notin STRING
  /\ \A text \in DOMAIN Decode : Decode[text] \in STRING \cup {None}
  /\ \A uri \in Uris :
       /\ uri.path \in Seq({"lit"} \X DOMAIN Decode) /\ uri.path # <<>>
       /\ uri.query \in Seq([name: DOMAIN Decode, parts: Seq(DOMAIN Decode) \ {<<>>}])

VARIABLES
  program,      \* the decorated methods of this application
  registry,     \* what McpRegistryService has discovered
  moduleHasGuards, allowUnauthenticatedAccess, \* options of the module
  calls         \* calls[c]: pc, user, http, tool (or the resource or prompt it is
                \* for), and how the last call ended

toolVars == <<program, registry, moduleHasGuards, allowUnauthenticatedAccess, calls>>

Undefined == [absent |-> TRUE]
IdleCall == [pc |-> "idle", user |-> Undefined, http |-> TRUE, tool |-> None, outcome |-> None]
---------------------------------------------------------------------------------
(* Discovery: a method without a name in its decorator goes by its own.    *)
Discover(methods) ==
  [i \in DOMAIN methods |->
     [methods[i] EXCEPT !.name = IF @ = None THEN methods[i].method ELSE @]]

\* Lists of what is registered, as sets of places in the registry.
OfKind(kind) == {i \in DOMAIN registry : registry[i].kind = kind}
GetTools == OfKind("tool")

(* Of several the first is taken.                                          *)
First(places) == registry[CHOOSE i \in places : \A j \in places : i <= j]
Named(places, name) ==
  LET hits == {i \in places : registry[i].name = name}
  IN IF hits = {} THEN None ELSE First(hits)
FindTool(name) == Named(GetTools, name)

(* Scopes are a string of words, else a list; roles are a list, else one   *)
(* role, else the list in user_data.                                       *)
UserScopes(u) == IF u.scope \notin {None, {}} THEN u.scope
                 ELSE IF u.scopes # None THEN u.scopes ELSE {}
UserRoles(u) == CASE u.roles # None -> u.roles
                  [] u.roles = None /\ u.role # None -> {u.role}
                  [] OTHER -> IF u.userData # None THEN u.userData ELSE {}

HasRequiredScopes(u, scopes) == u # Undefined /\ scopes \subseteq UserScopes(u)
HasRequiredRoles(u, roles)   == u # Undefined /\ roles \subseteq UserRoles(u)

\* Mutant: the list forgets the roles.
CanAccessToolByScopes(u, t, guards, open) ==
  \/ t.public
  \/ t.scopes # {} => HasRequiredScopes(u, t.scopes)
CanAccessTool(u, t, guards, open) ==
  \/ t.public
  \/ /\ (t.scopes # {} \/ t.roles # {}) => u # Undefined
     /\ t.scopes # {} => HasRequiredScopes(u, t.scopes)
     /\ t.roles # {} => HasRequiredRoles(u, t.roles)
     /\ ~(open /\ guards /\ u = Undefined)

\* Mutant: the roles are not validated.
ValidateToolScopes(u, t, guards, open) ==
  CASE t.public -> "allowed"
    [] ~t.public /\ u = Undefined ->
         IF t.scopes \cup t.roles # {} \/ (open /\ guards) THEN "authentication" ELSE "allowed"
    [] OTHER -> IF HasRequiredScopes(u, t.scopes) THEN "allowed" ELSE "scopes"
\* Mutant: an anonymous caller is asked only where the tool asks for something.
ValidateToolDemands(u, t, guards, open) ==
  CASE t.public \/ (u = Undefined /\ t.scopes \cup t.roles = {}) -> "allowed"
    [] ~t.public /\ u = Undefined /\ t.scopes \cup t.roles # {} -> "authentication"
    [] OTHER -> IF HasRequiredScopes(u, t.scopes) /\ HasRequiredRoles(u, t.roles)
                  THEN "allowed" ELSE "scopes"
\* What validateToolAccess throws, or "allowed".
ValidateToolAccess(u, t, guards, open) ==
  CASE t.public -> "allowed"
    [] ~t.public /\ u = Undefined ->
         IF t.scopes \cup t.roles # {} \/ (open /\ guards) THEN "authentication" ELSE "allowed"
    [] ~t.public /\ u # Undefined /\ ~HasRequiredScopes(u, t.scopes) -> "scopes"
    [] ~t.public /\ u # Undefined /\ HasRequiredScopes(u, t.scopes) ->
         IF HasRequiredRoles(u, t.roles) THEN "allowed" ELSE "roles"

\* The authentication a tool is listed with.
SecuritySchemes(t, guards) ==
  LET oauth == t.scopes # {} \/ (guards /\ ~t.public)
  IN (IF oauth THEN {"oauth2"} ELSE {}) \cup (IF t.public \/ ~oauth THEN {"noauth"} ELSE {})

\* Over standard input there is no HTTP request, hence no guard.
EffectiveGuards(http) == http /\ moduleHasGuards

ListTools(u, http) ==
  {i \in GetTools :
     CanAccessTool(u, registry[i], EffectiveGuards(http), allowUnauthenticatedAccess)}
---------------------------------------------------------------------------------
(* Resources.  Two paths match segment by segment, a variable matching any *)
(* text; the last segment that a variable stands for is its value.  Texts  *)
(* that differ in case only are one text here, as they are one literal to  *)
(* path-to-regexp; which takes no {name*}, and throws when it meets one.   *)
Unconvertible(template) == \E i \in DOMAIN template : template[i][1] = "many"
Matches(template, path) ==
  /\ Len(template) = Len(path)
  /\ \A i \in DOMAIN path : template[i][1] = "var" \/ template[i] = path[i]
Standing(template, name) == {i \in DOMAIN template : template[i] = <<"var", name>>}
Variables(template) == {template[i][2] : i \in {j \in DOMAIN template : template[j][1] = "var"}}
ValueAt(template, name) ==
  CHOOSE i \in Standing(template, name) : \A j \in Standing(template, name) : j <= i

(* parseQueryString keeps the first part of a pair, and of pairs with one  *)
(* name the last; it leaves out those with none.                           *)
Keyed(query) == {i \in DOMAIN query : query[i].name # ""}
QueryNames(query) == {Decode[query[i].name] : i \in Keyed(query)}
QueryThrows(query) ==
  \E i \in Keyed(query) : Decode[query[i].name] = None \/ Decode[query[i].parts[1]] = None
Pairs(query, name) == {i \in Keyed(query) : Decode[query[i].name] = name}
ParseQuery(query) ==
  [name \in QueryNames(query) |->
     Decode[query[CHOOSE i \in Pairs(query, name) : \A j \in Pairs(query, name) : j <= i].parts[1]]]

(* Of several resources the first that matches, or throws, decides.        *)
Deciding(kind, path) ==
  {i \in OfKind(kind) : Unconvertible(registry[i].path) \/ Matches(registry[i].path, path)}
Malformed(segment) == \/ Decode[segment[2]] = None
                      \/ Len(segment) = 3 /\ QueryThrows(segment[3])
LookupThrows(kind, path) ==
  Deciding(kind, path) # {} /\
    LET template == First(Deciding(kind, path)).path IN
      \/ Unconvertible(template)
      \/ \E i \in DOMAIN template : template[i][1] = "var" /\ Malformed(path[i])

(* The query of the URI stays in its last segment when resources are       *)
(* compared, and is cut off for templates, which take from it the values   *)
(* for the names of theirs, in place of variables of the path.             *)
Glued(uri) == IF uri.query = <<>> THEN uri.path
              ELSE [uri.path EXCEPT ![Len(uri.path)] = <<"lit", @[2], uri.query>>]
DecodeSegment(segment) == [segment EXCEPT ![2] = Decode[@]]
Bindings(template, path) ==
  [name \in Variables(template) |-> DecodeSegment(path[ValueAt(template, name)])]
Given(d, uri) == d.query \cap QueryNames(uri.query)
Params(d, uri) ==
  [name \in Variables(d.path) \cup Given(d, uri) |->
     IF name \in Given(d, uri) THEN <<"lit", ParseQuery(uri.query)[name]>>
     ELSE Bindings(d.path, uri.path)[name]]

NotFound == [target |-> None, params |-> <<>>]

FindResourceByUri(uri) ==
  LET hits == Deciding("resource", Glued(uri)) IN
    IF hits = {} THEN NotFound
    ELSE [target |-> Named(OfKind("resource"), First(hits).name),
          params |-> Bindings(First(hits).path, Glued(uri))]

\* Mutant: the query is not cut off before the path is matched.
FindResourceTemplateByWholeUri(uri) ==
  LET hits == Deciding("resource-template", Glued(uri)) IN
    IF hits = {} THEN NotFound
    ELSE [target |-> Named(OfKind("resource-template"), First(hits).name),
          params |-> Params(First(hits), [uri EXCEPT !.path = Glued(uri)])]
FindResourceTemplateByUri(uri) ==
  LET hits == Deciding("resource-template", uri.path) IN
    IF hits = {} THEN NotFound
    ELSE [target |-> Named(OfKind("resource-template"), First(hits).name),
          params |-> Params(First(hits), uri)]

(* Both are looked up, and either may throw, before one is chosen.         *)
ReadThrows(uri) ==
  \/ LookupThrows("resource", Glued(uri))
  \/ QueryThrows(uri.query)
  \/ LookupThrows("resource-template", uri.path)

(* A template is preferred; the request's own parameters, among them the   *)
(* uri, replace variables of the same name.                                *)
ReadResource(uri) ==
  LET template == FindResourceTemplateByUri(uri)
      found == IF template.target # None THEN template ELSE FindResourceByUri(uri)
      names == DOMAIN found.params \ {"uri"}
  IN [target |-> found.target, params |-> [name \in names |-> found.params[name]]]
---------------------------------------------------------------------------------
ToolsInit ==
  /\ program \in Programs
  /\ registry = <<>>
  /\ moduleHasGuards \in BOOLEAN /\ allowUnauthenticatedAccess \in BOOLEAN
  /\ calls = [c \in Calls |-> IdleCall]

\* onApplicationBootstrap, before the server listens.
DiscoverTools ==
  /\ registry = <<>>
  /\ registry' = Discover(program)
  /\ UNCHANGED <<program, moduleHasGuards, allowUnauthenticatedAccess, calls>>

Listening == registry # <<>>
SetCall(c, call) == /\ calls' = [calls EXCEPT ![c] = call]
                    /\ UNCHANGED <<program, registry, moduleHasGuards, allowUnauthenticatedAccess>>
EndCall(c, outcome) == SetCall(c, [IdleCall EXCEPT !.outcome = outcome])

(* tools/call up to its first await: an unknown tool, no right, parameters *)
(* that do not fit, or on to the provider.                                 *)
CallTool(c, u, http, name) ==
  LET t == FindTool(name)
      right == ValidateToolAccess(u, t, EffectiveGuards(http), allowUnauthenticatedAccess)
  IN /\ Listening /\ calls[c].pc = "idle" /\ (http \/ u = Undefined)
     /\ CASE t = None -> EndCall(c, "unknown")
          [] t # None /\ right # "allowed" -> EndCall(c, right)
          [] OTHER -> \/ EndCall(c, "invalid")
                      \/ SetCall(c, [pc |-> "resolving", user |-> u, http |-> http,
                                     tool |-> t, outcome |-> None])

(* resources/read and prompts/get ask for no rights; an unknown name is    *)
(* told in the contents, a look-up that throws is an error of the protocol. *)
(* Without any resource, or prompt, nobody answers.                        *)
HasHandlers(kinds) == \E i \in DOMAIN registry : registry[i].kind \in kinds
StartsFor(c, http, target) ==
  IF target = None THEN EndCall(c, "isError")
  ELSE SetCall(c, [pc |-> "resolving", user |-> Undefined, http |-> http,
                   tool |-> target, outcome |-> None])

CallResource(c, http, uri) ==
  /\ calls[c].pc = "idle" /\ HasHandlers({"resource", "resource-template"})
  /\ IF ReadThrows(uri) THEN EndCall(c, "mcpError")
     ELSE StartsFor(c, http, ReadResource(uri).target)

GetPrompt(c, http, name) ==
  /\ calls[c].pc = "idle" /\ HasHandlers({"prompt"})
  /\ StartsFor(c, http, Named(OfKind("prompt"), name))

(* A result not of the schema its tool declares, or a provider that is not *)
(* there, is an error of the protocol, which tools pass on; any other      *)
(* error, and each one of a resource or prompt, is told as a result.       *)
ErrorsOf(t) == IF t.kind = "tool" THEN {"mcpError", "isError"} ELSE {"isError"}

ToolResolved(c) ==
  /\ calls[c].pc = "resolving"
  /\ \/ SetCall(c, [calls[c] EXCEPT !.pc = "executing"])
     \/ \E outcome \in ErrorsOf(calls[c].tool) : EndCall(c, outcome)

ToolReturns(c) ==
  /\ calls[c].pc = "executing"
  /\ \E outcome \in {"content"} \cup ErrorsOf(calls[c].tool) : EndCall(c, outcome)

ToolsNext ==
  \/ DiscoverTools
  \/ \E c \in Calls, u \in Users \cup {Undefined}, http \in BOOLEAN,
        name \in {program[i].method : i \in DOMAIN program} \cup {"nowhere"} :
        \/ CallTool(c, u, http, name)
        \/ u = Undefined /\ GetPrompt(c, http, name)
  \/ \E c \in Calls, http \in BOOLEAN, uri \in Uris : CallResource(c, http, uri)
  \/ \E c \in Calls : ToolResolved(c) \/ ToolReturns(c)
---------------------------------------------------------------------------------
NamesUnique(places) == \A i, j \in places : registry[i].name = registry[j].name => i = j

(* What a user is shown he can call, and what he can call he is shown: the *)
(* two functions of ToolAuthorizationService and the look-up by name agree *)
(* for every user, provided no two tools have one name.                    *)
ListedIsCallable ==
  NamesUnique(GetTools) =>
    \A u \in Users \cup {Undefined}, http \in BOOLEAN, i \in GetTools :
      (\E k \in ListTools(u, http) : registry[k].name = registry[i].name)
        <=> ValidateToolAccess(u, FindTool(registry[i].name), EffectiveGuards(http),
                               allowUnauthenticatedAccess) = "allowed"

(* A tool that runs for a client over HTTP is public, or asks for nothing, *)
(* or its caller has every scope and every role it asks for; also where    *)
(* two tools share a name.                                                 *)
OnlyEntitledCall ==
  \A c \in Calls :
    calls[c].pc \in {"resolving", "executing"} /\ calls[c].http =>
      LET t == calls[c].tool
          u == calls[c].user
      IN \/ t.public \/ t.kind # "tool"
         \/ t.scopes \cup t.roles = {}
         \/ u # Undefined /\ t.scopes \subseteq UserScopes(u) /\ t.roles \subseteq UserRoles(u)

(* Over standard input every tool may be called, as the documentation of   *)
(* the authorization per tool and the comment in the handler say.  The     *)
(* code only leaves out the guards there: what a tool itself asks for it   *)
(* asks of a caller without a user, who is refused.                        *)
StdioCallsAll ==
  \A i \in GetTools :
    ValidateToolAccess(Undefined, registry[i], EffectiveGuards(FALSE),
                       allowUnauthenticatedAccess) = "allowed"

(* A tool that is listed as needing a log-in refuses a caller without one, *)
(* wherever the guards of the module do not keep him out before.           *)
AdvertisedIsEnforced ==
  \A i \in GetTools, http \in BOOLEAN :
    LET t == registry[i]
        guards == EffectiveGuards(http)
    IN "noauth" \notin SecuritySchemes(t, guards) /\ (allowUnauthenticatedAccess \/ ~guards)
         => ValidateToolAccess(Undefined, t, guards, allowUnauthenticatedAccess)
              = "authentication"

(* A URI is read by a template it matches, if it matches one, with any     *)
(* query: the method gets the variables of that template's path and those  *)
(* of its query that the URI has, no others, each with a value that the    *)
(* URI has for it, decoded.  The look-up throws, instead, only where an    *)
(* escape of the URI is malformed or a {name*} is registered.  Again       *)
(* provided no two templates have one name.                                *)
Texts(uri) == {uri.path[i][2] : i \in DOMAIN uri.path}
              \cup {uri.query[i].name : i \in DOMAIN uri.query}
              \cup {uri.query[i].parts[1] : i \in DOMAIN uri.query}
TemplatesAreRead ==
  LET templates == OfKind("resource-template") IN
    NamesUnique(templates) =>
      \A uri \in Uris :
        /\ ReadThrows(uri) =>
             \/ \E text \in Texts(uri) : Decode[text] = None
             \/ \E i \in DOMAIN registry : Unconvertible(registry[i].path)
        /\ ~ReadThrows(uri) /\ (\E i \in templates : Matches(registry[i].path, uri.path)) =>
             LET t == ReadResource(uri).target
                 params == ReadResource(uri).params
             IN /\ t.kind = "resource-template" /\ Matches(t.path, uri.path)
                /\ DOMAIN params = (Variables(t.path) \cup Given(t, uri)) \ {"uri"}
                /\ \A name \in DOMAIN params :
                     IF name \in Given(t, uri)
                       THEN \E i \in Pairs(uri.query, name) :
                              params[name] = <<"lit", Decode[uri.query[i].parts[1]]>>
                       ELSE \E i \in Standing(t.path, name) :
                              params[name] = DecodeSegment(uri.path[i])
=================================================================================
