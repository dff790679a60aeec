------------------------------ MODULE SseSessions -------------------------------
(***************************************************************************)
(* McpSseService and SsePingService: one MCP session per event stream.     *)
(* Three tables are keyed by the session id (transports, servers, pings).  *)
(* A message is a POST that names its session; between its look-ups and    *)
(* the registration of its handlers the service awaits the executor, and   *)
(* streams close and other messages run meanwhile.                         *)
(***************************************************************************)
EXTENDS Naturals, FiniteSets

CONSTANTS Sessions, Messages, None,
          PingEnabled   \* options.sse.pingEnabled is not false

SseAssumption == PingEnabled \in BOOLEAN /\ None \notin Sessions \cup Messages

VARIABLES
  transports, mcpServers, \* the ids in the two maps of McpSseService
  activeConnections,      \* the ids in the map of SsePingService
  pinging,                \* the interval timer runs
  stream,   \* stream[s]: "new"; "open"; "broken" (no longer writable, the close
            \* event is due); "missed" (it had closed before anyone listened);
            \* "closed" (the close event was handled)
  handlers, \* handlers[s]: the message whose request the handlers of server s hold
  msgs      \* msgs[m]: pc, session, and as, whose handlers it was dispatched to

vars == <<transports, mcpServers, activeConnections, pinging, stream, handlers, msgs>>
tables == <<transports, mcpServers, activeConnections>>

Streams == {"new", "open", "broken", "missed", "closed"}
PCs == {"new", "notFound", "resolving", "failed", "running", "answered", "dropped"}

TypeOK ==
  /\ transports \subseteq Sessions /\ mcpServers \subseteq Sessions
  /\ activeConnections \subseteq Sessions
  /\ pinging \in BOOLEAN
  /\ stream \in [Sessions -> Streams]
  /\ handlers \in [Sessions -> Messages \cup {None}]
  /\ msgs \in [Messages -> [pc: PCs, session: Sessions \cup {None}, as: Messages \cup {None}]]

\* SseController.onModuleInit configures the ping service.
Init ==
  /\ transports = {} /\ mcpServers = {} /\ activeConnections = {}
  /\ pinging = PingEnabled
  /\ stream = [s \in Sessions |-> "new"]
  /\ handlers = [s \in Sessions |-> None]
  /\ msgs = [m \in Messages |-> [pc |-> "new", session |-> None, as |-> None]]

(* Runs to its end without a pause: the client may have gone before, while *)
(* the guards of the route awaited, and then no close event will come.     *)
CreateSseConnection(s) ==
  /\ stream[s] = "new"
  /\ transports' = transports \cup {s}
  /\ mcpServers' = mcpServers \cup {s}
  /\ activeConnections' = activeConnections \cup {s}
  /\ \E was \in {"open", "missed"} : stream' = [stream EXCEPT ![s] = was]
  /\ UNCHANGED <<pinging, handlers, msgs>>

Break(s) ==
  /\ stream[s] = "open"
  /\ stream' = [stream EXCEPT ![s] = "broken"]
  /\ UNCHANGED <<tables, pinging, handlers, msgs>>

\* Mutant: the server of a closed session is kept.
OnCloseKeepsServer(s) ==
  /\ stream[s] = "broken"
  /\ stream' = [stream EXCEPT ![s] = "closed"]
  /\ transports' = transports \ {s}
  /\ activeConnections' = activeConnections \ {s}
  /\ UNCHANGED <<mcpServers, pinging, handlers, msgs>>

OnClose(s) ==
  /\ stream[s] = "broken"
  /\ stream' = [stream EXCEPT ![s] = "closed"]
  /\ transports' = transports \ {s}
  /\ mcpServers' = mcpServers \ {s}
  /\ activeConnections' = activeConnections \ {s}
  /\ UNCHANGED <<pinging, handlers, msgs>>

Writable(s) == stream[s] = "open"

\* Mutant: what cannot be written is logged and kept.
SendPingLogs == /\ pinging /\ \E s \in activeConnections : ~Writable(s)
                /\ UNCHANGED vars

SendPingToAllConnections ==
  /\ pinging
  /\ activeConnections # {s \in activeConnections : Writable(s)}
  /\ activeConnections' = {s \in activeConnections : Writable(s)}
  /\ UNCHANGED <<transports, mcpServers, pinging, stream, handlers, msgs>>

\* onModuleDestroy of the ping service.
StopPingInterval ==
  /\ pinging /\ pinging' = FALSE
  /\ UNCHANGED <<tables, stream, handlers, msgs>>

\* Up to the await: a session in both maps or an answer 404.
HandleMessage(m, s) ==
  /\ msgs[m].pc = "new"
  /\ msgs' = [msgs EXCEPT ![m].session = s,
       ![m].pc = IF s \in transports /\ s \in mcpServers THEN "resolving" ELSE "notFound"]
  /\ UNCHANGED <<tables, pinging, stream, handlers>>

\* Mutant: an await between the registration and the hand-over.
DispatchMessageLater(m) ==
  LET s == msgs[m].session IN
    /\ msgs[m].pc = "resolving"
    /\ \/ /\ msgs[m].as = None
          /\ handlers' = [handlers EXCEPT ![s] = m]
          /\ msgs' = [msgs EXCEPT ![m].as = m]
       \/ /\ msgs[m].as # None
          /\ msgs' = [msgs EXCEPT ![m].pc = "running", ![m].as = handlers[s]]
          /\ UNCHANGED handlers
    /\ UNCHANGED <<tables, pinging, stream>>
\* Mutant: the session, not the request, is what the handlers are given.
DispatchMessageBySession(m) ==
  /\ msgs[m].pc = "resolving"
  /\ handlers' = [handlers EXCEPT ![msgs[m].session] = msgs[m].session]
  /\ msgs' = [msgs EXCEPT ![m].pc = "running", ![m].as = msgs[m].session]
  /\ UNCHANGED <<tables, pinging, stream>>

(* The rest of handleMessage: the handlers are replaced and the message is *)
(* handed to the transport read before the await, with no await between.   *)
(* A transport whose stream has closed refuses it.                         *)
DispatchMessage(m) ==
  LET s == msgs[m].session IN
    /\ msgs[m].pc = "resolving"
    /\ handlers' = [handlers EXCEPT ![s] = m]
    /\ msgs' = IF stream[s] = "closed" THEN [msgs EXCEPT ![m].pc = "failed"]
               ELSE [msgs EXCEPT ![m].pc = "running", ![m].as = handlers'[s]]
    /\ UNCHANGED <<tables, pinging, stream>>

\* External: the handlers end, and the answer goes to the stream if it is there.
AnswerMessage(m) ==
  /\ msgs[m].pc = "running"
  /\ msgs' = [msgs EXCEPT ![m].pc = IF Writable(msgs[m].session) THEN "answered" ELSE "dropped"]
  /\ UNCHANGED <<tables, pinging, stream, handlers>>

Next ==
  \/ \E s \in Sessions : CreateSseConnection(s) \/ Break(s) \/ OnClose(s)
  \/ SendPingToAllConnections \/ StopPingInterval
  \/ \E m \in Messages, s \in Sessions : HandleMessage(m, s)
  \/ \E m \in Messages : DispatchMessage(m) \/ AnswerMessage(m)

Spec == Init /\ [][Next]_vars

(* Timers fire, close events are delivered, promises settle.               *)
Fairness ==
  /\ WF_vars(SendPingToAllConnections)
  /\ \A s \in Sessions : WF_vars(OnClose(s))
  /\ \A m \in Messages : WF_vars(DispatchMessage(m)) /\ WF_vars(AnswerMessage(m))
---------------------------------------------------------------------------------
(* The three tables agree: a server for every transport, no ping without   *)
(* them, and every stream that can still be written is pinged, or an idle  *)
(* client would be cut off.                                                *)
TablesAgree ==
  /\ transports = mcpServers
  /\ activeConnections \subseteq transports
  /\ \A s \in Sessions : stream[s] = "open" => s \in activeConnections
  /\ \A s \in Sessions : stream[s] = "closed" => s \notin transports

(* A stream that went away, even one without a close event, is no longer   *)
(* pinged in the end, as long as the timer runs.                           *)
DeadStreamsAreNotPinged ==
  \A s \in Sessions :
    stream[s] \in {"broken", "missed"} ~> (s \notin activeConnections \/ ~pinging)

(* A session begins and ends once, takes messages only in between, and     *)
(* runs each at most once: the service implements McpSession.              *)
Session == INSTANCE McpSession WITH
  PerMessage <- TRUE,
  phase <- [s \in Sessions |-> IF stream[s] = "new" THEN "none"
                               ELSE IF s \in transports THEN "live" ELSE "over"],
  opener <- [s \in Sessions |-> None],
  accepted <- [m \in Messages |-> IF msgs[m].pc \in {"new", "notFound"} THEN None
                                  ELSE msgs[m].session],
  ranAs <- [m \in Messages |-> msgs[m].as]
SessionSpec == Session!Spec
=================================================================================
