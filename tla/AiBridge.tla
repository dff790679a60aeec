-------------------------------- MODULE AiBridge --------------------------------
(***************************************************************************)
(* AiBridgeService: a chat sends its messages to a language model, runs    *)
(* the tools the model asks for and sends their results, until the model   *)
(* answers in words.  One of the tools, general-query, is itself a chat.   *)
(* The tools are those of the MCP registry, which MCP clients call at the  *)
(* same time (McpTools).                                                   *)
(***************************************************************************)
EXTENDS McpTools

CONSTANTS
  Chats,     \* slots for chats, those nested in a tool among them
  TopChats,  \* the slots that requests use
  MaxCalls,  \* bound: calls in one answer of the model
  MaxRounds  \* bound: answers of the model with calls, per chat

ASSUME BridgeAssumption == /\ MaxCalls \in Nat /\ MaxRounds \in Nat
                           /\ TopChats \subseteq Chats

VARIABLES
  chats  \* chats[k]: pc, style and useTools; parent, the chat whose tool it is;
         \* history, the messages; asked and next, the calls of the last answer;
         \* rounds, the answers with calls so far

vars == <<toolVars, chats>>

GeneralQuery == "general-query"
Styles == {"openai", "deepseek", "gemini"}
FreeChat == [pc |-> "free", style |-> "openai", useTools |-> FALSE, parent |-> None,
             history |-> <<>>, asked |-> <<>>, next |-> 1, rounds |-> 0]

Init == ToolsInit /\ chats = [k \in Chats |-> FreeChat]

SetChat(k, chat) == chats' = [chats EXCEPT ![k] = chat]
Ended(k) == chats[k].pc \in {"answered", "failed"}

(* Entries of the message list: what was said, the calls of one answer of  *)
(* the model by their ids, and the result of one call.                     *)
Said(who) == [kind |-> who, ids |-> <<>>]
Called(ids) == [kind |-> "calls", ids |-> ids]
Result(id) == [kind |-> "result", ids |-> <<id>>]

(* chat and its end points: a system prompt is put first if there is none. *)
Chat(k, style, hasSystem) ==
  /\ Listening /\ k \in TopChats /\ chats[k].pc = "free"
  /\ SetChat(k, [FreeChat EXCEPT !.pc = "asking", !.style = style, !.useTools = TRUE,
       !.history = IF hasSystem THEN <<Said("system")>> ELSE <<Said("system"), Said("user")>>])
  /\ UNCHANGED toolVars

(* What is offered to the model; it asks for nothing when nothing is.      *)
Offered(k) == IF chats[k].useTools THEN {registry[i].name : i \in GetTools} ELSE {}
Callable(k) == IF Offered(k) = {} THEN {} ELSE Offered(k) \cup {"nowhere"}

\* A call by the model: a name, and arguments that may not parse.
ModelCalls(k) == [tool: Callable(k), parses: BOOLEAN]

(* The model answers in words, or with nothing that the bridge can use.    *)
AnswersInWords(k) ==
  /\ chats[k].pc = "asking"
  /\ SetChat(k, [chats[k] EXCEPT !.pc = "answered"])
  /\ UNCHANGED toolVars

\* A refused or unreadable answer; deepseek's is only tested for being JSON.
ModelFails(k) ==
  /\ chats[k].pc = "asking"
  /\ SetChat(k, [chats[k] EXCEPT !.pc = "failed"])
  /\ UNCHANGED toolVars

(* The model asks for tools.  The answer joins the messages before its     *)
(* calls run; of a Gemini answer only the first call is looked at, and it  *)
(* joins them with its result.                                             *)
Ids(k, n) == [i \in 1..n |-> <<chats[k].rounds + 1, i>>]
AsksForTools(k, asked) ==
  LET gemini == chats[k].style = "gemini"
      taken == IF gemini THEN <<Head(asked)>> ELSE asked
  IN /\ chats[k].pc = "asking" /\ chats[k].rounds < MaxRounds
     /\ SetChat(k, [chats[k] EXCEPT !.pc = "calling", !.asked = taken, !.next = 1,
          !.rounds = @ + 1,
          !.history = IF gemini THEN @ ELSE Append(@, Called(Ids(k, Len(taken))))])
     /\ UNCHANGED toolVars

(* executeToolInternal for the next call, its token that of the caller of  *)
(* the chat.  Arguments that do not parse or an unknown tool end the chat. *)
NextCall(k) == chats[k].asked[chats[k].next]
Executes(k) == /\ chats[k].pc = "calling"
               /\ NextCall(k).parses \/ chats[k].style = "gemini"
               /\ FindTool(NextCall(k).tool) # None
Running(k) == [chats[k] EXCEPT !.pc = "executing"]

CannotExecute(k) ==
  /\ chats[k].pc = "calling" /\ ~Executes(k)
  /\ SetChat(k, [chats[k] EXCEPT !.pc = "failed"])
  /\ UNCHANGED toolVars

ExecuteTool(k) ==
  /\ Executes(k) /\ NextCall(k).tool # GeneralQuery
  /\ SetChat(k, Running(k))
  /\ UNCHANGED toolVars

(* handleGeneralQuery: a simple chat, without tools, token or prompt.      *)
SimpleChat(k, style) ==
  [FreeChat EXCEPT !.pc = "asking", !.style = style, !.parent = k, !.history = <<Said("user")>>]

ExecuteGeneralQuery(k, nested, style) ==
  /\ Executes(k) /\ NextCall(k).tool = GeneralQuery
  /\ chats[nested].pc = "free" /\ nested \notin TopChats
  /\ chats' = [chats EXCEPT ![k] = Running(k), ![nested] = SimpleChat(k, style)]
  /\ UNCHANGED toolVars

\* Mutants: a result without its call; and one more call than were asked for.
WithResultAlone(k) ==
  LET on == [chats[k] EXCEPT !.history = Append(@, Result(<<chats[k].rounds, chats[k].next>>))]
  IN IF chats[k].next = Len(chats[k].asked)
       THEN [on EXCEPT !.pc = "asking", !.asked = <<>>, !.next = 1]
       ELSE [on EXCEPT !.pc = "calling", !.next = @ + 1]
WithResultLate(k) ==
  LET on == [chats[k] EXCEPT !.history = Append(@, Result(<<chats[k].rounds, chats[k].next>>))]
  IN IF chats[k].next > Len(chats[k].asked)
       THEN [on EXCEPT !.pc = "asking", !.asked = <<>>, !.next = 1]
       ELSE [on EXCEPT !.pc = "calling", !.next = @ + 1]

\* The result of a call joins the messages; after the last the model is asked again.
WithResult(k) ==
  LET id == <<chats[k].rounds, chats[k].next>>
      call == IF chats[k].style = "gemini" THEN <<Called(<<id>>)>> ELSE <<>>
      on == [chats[k] EXCEPT !.history = @ \o call \o <<Result(id)>>]
  IN IF chats[k].next = Len(chats[k].asked)
       THEN [on EXCEPT !.pc = "asking", !.asked = <<>>, !.next = 1]
       ELSE [on EXCEPT !.pc = "calling", !.next = @ + 1]

Nests(k) == \E n \in Chats : chats[n].parent = k

ToolEnds(k) ==
  /\ chats[k].pc = "executing" /\ ~Nests(k)
  /\ \/ SetChat(k, WithResult(k))
     \/ SetChat(k, [chats[k] EXCEPT !.pc = "failed"])
  /\ UNCHANGED toolVars

\* Mutant: the tool does not answer when its chat fails.
NestedEndsAnswered(n) ==
  /\ chats[n].pc = "answered" /\ chats[n].parent # None
  /\ chats' = [chats EXCEPT ![n] = FreeChat, ![chats[n].parent] = WithResult(chats[n].parent)]
  /\ UNCHANGED toolVars

(* The nested chat's answer, or its error, is the result of the tool.      *)
NestedEnds(n) ==
  /\ Ended(n) /\ chats[n].parent # None
  /\ chats' = [chats EXCEPT ![n] = FreeChat, ![chats[n].parent] = WithResult(chats[n].parent)]
  /\ UNCHANGED toolVars

ModelAnswers(k) ==
  \/ AnswersInWords(k) \/ ModelFails(k)
  \/ \E n \in 1..MaxCalls : \E asked \in [1..n -> ModelCalls(k)] : AsksForTools(k, asked)

Advance(k) ==
  \/ ModelAnswers(k) \/ CannotExecute(k) \/ ExecuteTool(k) \/ ToolEnds(k) \/ NestedEnds(k)
  \/ \E n \in Chats, style \in Styles : ExecuteGeneralQuery(k, n, style)

Next ==
  \/ ToolsNext /\ UNCHANGED chats
  \/ \E k \in Chats, style \in Styles, hasSystem \in BOOLEAN : Chat(k, style, hasSystem)
  \/ \E k \in Chats : Advance(k)

Spec == Init /\ [][Next]_vars

(* Every awaited answer comes, of the model, a tool or the network.        *)
FairSpec == Spec /\ \A k \in Chats : WF_vars(Advance(k))
---------------------------------------------------------------------------------
TypeOK ==
  /\ registry = <<>> \/ Len(registry) = Len(program)
  /\ \A c \in Calls :
       calls[c].pc \in {"idle", "resolving", "executing"}
       /\ (calls[c].pc \in {"resolving", "executing"} => calls[c].tool # None)
  /\ \A k \in Chats :
       LET chat == chats[k] IN
         /\ chat.pc \in {"free", "asking", "calling", "executing", "answered", "failed"}
         /\ chat.style \in Styles /\ chat.rounds \in 0..MaxRounds
         /\ chat.pc \in {"calling", "executing"} => chat.next \in DOMAIN chat.asked

(* Whenever the model is asked, every call it made has exactly one result, *)
(* right behind the answer that made it and in the order of the calls: the *)
(* model's interface refuses other lists.                                  *)
HistoryIsPaired ==
  \A k \in Chats :
    LET h == chats[k].history IN
      chats[k].pc = "asking" =>
        /\ \A i \in DOMAIN h : h[i].kind = "calls" =>
             \A j \in 1..Len(h[i].ids) :
               i + j \in DOMAIN h /\ h[i + j] = Result(h[i].ids[j])
        /\ \A i \in DOMAIN h : h[i].kind = "result" =>
             \E a \in 1..(i - 1) : /\ h[a].kind = "calls"
                                   /\ i - a \in DOMAIN h[a].ids
                                   /\ h[a].ids[i - a] = h[i].ids[1]

(* Every chat comes to an answer or an error, if the model asks for tools  *)
(* a bounded number of times.                                              *)
ChatsEnd == \A k \in Chats : chats[k].pc = "asking" ~> chats[k].pc \in {"answered", "failed", "free"}
=================================================================================
