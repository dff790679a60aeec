------------------------------- MODULE MCAiBridge -------------------------------
(* Four applications: the tools this one registers, one that uses every    *)
(* decorator, one with resources and two tools of one name, and one with a *)
(* template that path-to-regexp does not take.                             *)
EXTENDS AiBridge

Method(kind, method, name, public, scopes, roles, path, query) ==
  [kind |-> kind, method |-> method, name |-> name, public |-> public, scopes |-> scopes,
   roles |-> roles, path |-> path, query |-> query]
Tool(name, public, scopes, roles) ==
  Method("tool", name, name, public, scopes, roles, <<>>, {})
Lit(x) == <<"lit", x>>
Var(x) == <<"var", x>>
Template(name, path, query) ==
  Method("resource-template", name, name, FALSE, {}, {}, path, query)

ThisApplication == <<Tool("list-students", FALSE, {}, {}), Tool("general-query", FALSE, {}, {})>>
Decorated == <<Tool("free", TRUE, {"read"}, {"admin"}), Tool("scoped", FALSE, {"read", "write"}, {}),
               Tool("admins", FALSE, {}, {"admin"}), Tool("both", FALSE, {"read"}, {"admin"}),
               Tool("plain", FALSE, {}, {})>>
WithResources ==
  <<Method("tool", "find", None, FALSE, {}, {"admin"}, <<>>, {}),
    Method("tool", "find", None, TRUE, {}, {}, <<>>, {}),
    Method("resource", "page", None, FALSE, {}, {}, <<Lit("x"), Lit("y")>>, {}),
    Method("resource", "any", None, FALSE, {}, {}, <<Lit("x"), Var("b"), Var("b")>>, {}),
    Template("item", <<Lit("x"), Var("a")>>, {"q"}),
    Template("pair", <<Var("uri"), Var("q")>>, {"q"}),
    Template("twin", <<Lit("x"), Var("c"), Var("c")>>, {}),
    Method("prompt", "greet", "find", FALSE, {}, {}, <<>>, {})>>
WithWildcard ==
  <<Template("item", <<Lit("x"), Var("a")>>, {}),
    Template("files", <<Lit("y"), <<"many", "path">>>>, {}),
    Template("pair", <<Lit("y"), Var("a")>>, {})>>
MCPrograms == {ThisApplication, Decorated, WithResources, WithWildcard}

User(scope, scopes, roles, role, data) ==
  [scope |-> scope, scopes |-> scopes, roles |-> roles, role |-> role, userData |-> data]
MCUsers == {User(None, None, None, "admin", None), User(None, None, None, "teacher", None),
            User({"read"}, {"read", "write"}, None, "admin", None),
            User({}, {"read", "write"}, {}, "admin", {"admin"}),
            User({"read", "write"}, None, None, None, {"admin"})}

(* "%78" is an x, "%" is no escape; "r" and "1" need no decoding.          *)
MCDecode == [text \in {"", "x", "y", "q", "r", "1", "2", "%78", "%71", "%"} |->
               CASE text = "%78" -> "x" [] text = "%71" -> "q" [] text = "%" -> None
                 [] OTHER -> text]

Segments == {Lit("x"), Lit("y"), Lit("%78"), Lit("%")}
MCPaths == [1..2 -> Segments] \cup [1..1 -> Segments]
           \cup {<<Lit("x"), Lit("y"), Lit("1")>>, <<Lit("x"), Lit("%"), Lit("1")>>}
Pair(name, parts) == [name |-> name, parts |-> parts]
MCQueries == {<<>>, <<Pair("q", <<"1">>)>>, <<Pair("r", <<"1">>)>>, <<Pair("q", <<"1", "2">>)>>,
              <<Pair("q", <<"%">>)>>, <<Pair("", <<"%">>)>>, <<Pair("q", <<"1", "%">>)>>,
              <<Pair("%71", <<"%78">>), Pair("q", <<"">>)>>}
MCUris == [path: MCPaths, query: MCQueries]

(* Chats and MCP calls share the registry, which does not change, and      *)
(* nothing else; and a chat reads neither the users' rights nor the flags. *)
ChatsApart ==
  \/ \A k \in Chats : chats'[k] = FreeChat
  \/ /\ program = ThisApplication /\ ~moduleHasGuards /\ ~allowUnauthenticatedAccess
     /\ calls' = [c \in Calls |-> IdleCall]
=================================================================================
