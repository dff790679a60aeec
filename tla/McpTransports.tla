----------------------------- MODULE McpTransports ------------------------------
(***************************************************************************)
(* McpModule: which transports the process serves follows from one option. *)
(* The event streams and the streamable HTTP end point share the registry  *)
(* of tools, which does not change, and nothing else; each has the tables  *)
(* of its own service.                                                     *)
(***************************************************************************)
EXTENDS Naturals, FiniteSets

CONSTANTS StreamIds, Messages,  \* sessions and messages over event streams
          SessionIds, Requests, \* sessions and requests over streamable HTTP
          PingEnabled, None,
          Options   \* values of options.transport: isList, and the types named

VARIABLES
  option, stdio, \* the option; has the server on standard input started
  streamTransports, streamServers, activeConnections, pinging, stream, streamHandlers, msgs,
  statelessMode, transports, mcpServers, executors, transport, server, handlers, acts, response

sseVars == <<streamTransports, streamServers, activeConnections, pinging, stream,
             streamHandlers, msgs>>
httpVars == <<statelessMode, transports, mcpServers, executors, transport, server,
              handlers, acts, response>>
vars == <<option, stdio, sseVars, httpVars>>

Sse == INSTANCE SseSessions WITH
  Sessions <- StreamIds, transports <- streamTransports, mcpServers <- streamServers,
  handlers <- streamHandlers
Http == INSTANCE HttpSessions WITH Sessions <- SessionIds

ASSUME TransportsAssumption == Sse!SseAssumption /\ Http!HttpAssumption

(* A controller for every type named, alone or in a list.                  *)
Serves(type) == type \in option.types /\ type # "stdio"

Init == /\ option \in Options
        /\ stdio = FALSE
        /\ Sse!Init /\ Http!Init

(* StdioService compares the option with the one word, so it never starts  *)
(* when the option is a list.                                              *)
BootstrapStdio ==
  /\ ~stdio /\ ~option.isList /\ option.types = {"stdio"}
  /\ stdio' = TRUE
  /\ UNCHANGED <<option, sseVars, httpVars>>

Next ==
  \/ BootstrapStdio
  \/ Serves("sse") /\ Sse!Next /\ UNCHANGED <<option, stdio, httpVars>>
  \/ Serves("streamable-http") /\ Http!Next /\ UNCHANGED <<option, stdio, sseVars>>

Spec == Init /\ [][Next]_vars /\ Sse!Fairness /\ Http!Fairness
---------------------------------------------------------------------------------
TypeOK == option \in Options /\ stdio \in BOOLEAN /\ Sse!TypeOK /\ Http!TypeOK

(* The session tables of each service agree with each other and with the   *)
(* streams, whatever closes while a request awaits.                        *)
TablesAgree == Sse!TablesAgree /\ Http!TablesAgree

(* No stateless server is closed under its response.                       *)
NotCutOff == Http!NotCutOff

(* The ping table forgets dead streams, also those nobody saw closing.     *)
DeadStreamsAreNotPinged == Sse!DeadStreamsAreNotPinged

(* A DELETE that was accepted removes its session.                         *)
DeletedSessionsGo == Http!DeletedSessionsGo

(* A stateless server is closed when its response has finished.            *)
StatelessIsCleaned == Http!StatelessIsCleaned

(* Both services implement McpSession: event streams with an identity per  *)
(* message, streamable HTTP with that of the request that opened.          *)
SessionSpec == Sse!SessionSpec /\ Http!SessionSpec
=================================================================================
