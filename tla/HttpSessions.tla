------------------------------ MODULE HttpSessions ------------------------------
(***************************************************************************)
(* McpStreamableHttpService.  In stateful mode a POST that initializes     *)
(* opens a session, kept in three tables by its id, later requests name    *)
(* it, and a DELETE (or the end of the module) cleans it up in several     *)
(* awaited steps.  In stateless mode every POST has a server and a         *)
(* transport of its own, closed when its response has finished.            *)
(***************************************************************************)
EXTENDS Naturals, FiniteSets

CONSTANTS Sessions,   \* values of sessionIdGenerator
          Requests,   \* HTTP requests
          None

HttpAssumption == Sessions \cap Requests = {} /\ None \notin Sessions \cup Requests

\* A server and its transport belong to a session or to one stateless request.
\* The clean-up of session s by onModuleDestroy is an actor named s.
Owners == Sessions \cup Requests
Actors == Sessions \cup Requests

VARIABLES
  statelessMode,
  transports, mcpServers, executors, \* the ids in the three tables
  transport, server, \* of each owner: "none", "open" or "closed"
  handlers,  \* whose request the handlers on an owner's server hold
  acts,      \* acts[a]: pc, op, sid, and as, whose handlers its message ran
  response   \* response[r]: "open", "finished" or "aborted"

vars == <<statelessMode, transports, mcpServers, executors, transport, server,
          handlers, acts, response>>
tables == <<transports, mcpServers, executors>>

Phases == {"none", "open", "closed"}
Ops == {"none", "init", "post", "get", "delete", "sweep", "stateless"}
PCs == {"idle", "connecting", "resolving", "running", "handling", "deleting", "closeServer",
        "forget", "closing", "listening", "closeOwn", "done", "refused", "failed"}

TypeOK ==
  /\ statelessMode \in BOOLEAN
  /\ transports \subseteq Sessions /\ mcpServers \subseteq Sessions /\ executors \subseteq Sessions
  /\ transport \in [Owners -> Phases] /\ server \in [Owners -> Phases]
  /\ handlers \in [Owners -> Requests \cup {None}]
  /\ acts \in [Actors -> [pc: PCs, op: Ops, sid: Sessions \cup {None}, as: Requests \cup {None}]]
  /\ response \in [Requests -> {"open", "finished", "aborted"}]

Init ==
  /\ statelessMode \in BOOLEAN
  /\ transports = {} /\ mcpServers = {} /\ executors = {}
  /\ transport = [x \in Owners |-> "none"] /\ server = [x \in Owners |-> "none"]
  /\ handlers = [x \in Owners |-> None]
  /\ acts = [a \in Actors |-> [pc |-> "idle", op |-> "none", sid |-> None, as |-> None]]
  /\ response = [r \in Requests |-> "open"]

At(a, op, pc) == acts[a].op = op /\ acts[a].pc = pc
Goto(a, pc) == acts' = [acts EXCEPT ![a].pc = pc]
Enter(a, op, s, pc) == acts' = [acts EXCEPT ![a].pc = pc, ![a].op = op, ![a].sid = s]

\* A client learns the id of a session with the response that opens it.
Opened(s, pcs) == \E r \in Requests : acts[r].op = "init" /\ acts[r].sid = s /\ acts[r].pc \in pcs
Known(s) == Opened(s, {"running", "done"})

(* Answers without an effect: no session id where one is needed, a second  *)
(* initialize, a batch that initializes, GET and DELETE in stateless mode. *)
Refuse(r) ==
  /\ acts[r].pc = "idle"
  /\ Goto(r, "refused")
  /\ UNCHANGED <<statelessMode, tables, transport, server, handlers, response>>

(* POST initialize: server and transport are made and connected.           *)
PostInitialize(r, s) ==
  /\ ~statelessMode /\ acts[r].pc = "idle" /\ transport[s] = "none"
  /\ transport' = [transport EXCEPT ![s] = "open"]
  /\ server' = [server EXCEPT ![s] = "open"]
  /\ Enter(r, "init", s, "connecting")
  /\ UNCHANGED <<statelessMode, tables, handlers, response>>

(* onsessioninitialized, which the transport awaits: up to its own await.  *)
SessionInitialized(r) ==
  /\ At(r, "init", "connecting")
  /\ transports' = transports \cup {acts[r].sid}
  /\ mcpServers' = mcpServers \cup {acts[r].sid}
  /\ Goto(r, "resolving")
  /\ UNCHANGED <<statelessMode, executors, transport, server, handlers, response>>

(* The rest of it; then the transport runs the message and answers.        *)
RegisterExecutor(r) ==
  /\ At(r, "init", "resolving")
  /\ executors' = executors \cup {acts[r].sid}
  /\ handlers' = [handlers EXCEPT ![acts[r].sid] = r]
  /\ acts' = [acts EXCEPT ![r].pc = "running", ![r].as = handlers'[acts[r].sid]]
  /\ UNCHANGED <<statelessMode, transports, mcpServers, transport, server, response>>

\* The executor could not be resolved: the request fails, the tables keep the session.
ResolveFails(r) ==
  /\ At(r, "init", "resolving")
  /\ Goto(r, "failed")
  /\ UNCHANGED <<statelessMode, tables, transport, server, handlers, response>>

\* POST with a session id.  The transport is read now and used from then on.
PostMessage(r, s) ==
  /\ ~statelessMode /\ acts[r].pc = "idle" /\ Known(s)
  /\ Enter(r, "post", s, IF s \in transports THEN "handling" ELSE "refused")
  /\ UNCHANGED <<statelessMode, tables, transport, server, handlers, response>>

(* The transport takes the message after its own awaits, under the         *)
(* handlers registered by then; closed meanwhile, it may also drop it.     *)
HandleRequest(r) ==
  LET s == acts[r].sid IN
    /\ At(r, "post", "handling")
    /\ \/ acts' = [acts EXCEPT ![r].pc = "running", ![r].as = handlers[s]]
       \/ transport[s] = "closed" /\ Goto(r, "failed")
    /\ UNCHANGED <<statelessMode, tables, transport, server, handlers, response>>

Answered(r) ==
  /\ acts[r].pc = "running" /\ acts[r].op \in {"init", "post"}
  /\ Goto(r, "done")
  /\ UNCHANGED <<statelessMode, tables, transport, server, handlers, response>>

HandleGetRequest(r, s) ==
  /\ ~statelessMode /\ acts[r].pc = "idle" /\ Known(s)
  /\ Enter(r, "get", s, IF s \in transports THEN "done" ELSE "refused")
  /\ UNCHANGED <<statelessMode, tables, transport, server, handlers, response>>

HandleDeleteRequest(r, s) ==
  /\ ~statelessMode /\ acts[r].pc = "idle" /\ Known(s)
  /\ Enter(r, "delete", s, IF s \in transports THEN "deleting" ELSE "refused")
  /\ UNCHANGED <<statelessMode, tables, transport, server, handlers, response>>

\* onModuleDestroy cleans up all sessions of the moment at once.
OnModuleDestroy ==
  /\ \A s \in Sessions : acts[s].op = "none"
  /\ transports # {}
  /\ acts' = [a \in Actors |-> IF a \in transports
                THEN [acts[a] EXCEPT !.pc = "deleting", !.op = "sweep", !.sid = a] ELSE acts[a]]
  /\ UNCHANGED <<statelessMode, tables, transport, server, handlers, response>>

\* Mutant: a transport that is closed already counts as cleaned up.
CleanupTransportOnce(a) ==
  LET s == acts[a].sid IN
    /\ acts[a].pc = "deleting"
    /\ IF s \in transports /\ transport[s] = "open"
         THEN transport' = [transport EXCEPT ![s] = "closed"] /\ Goto(a, "closeServer")
         ELSE Goto(a, "closing") /\ UNCHANGED transport
    /\ UNCHANGED <<statelessMode, tables, server, handlers, response>>

(* cleanupSession, for a DELETE (through onsessionclosed) or the sweep: the *)
(* guard and transport.close(), server.close(), the tables.  An error of    *)
(* either close is logged and leaves the tables as they are.                *)
CleanupTransport(a) ==
  LET s == acts[a].sid IN
    /\ acts[a].pc = "deleting"
    /\ IF s \in transports
         THEN \/ transport' = [transport EXCEPT ![s] = "closed"] /\ Goto(a, "closeServer")
              \/ Goto(a, "failed") /\ UNCHANGED transport
         ELSE Goto(a, "closing") /\ UNCHANGED transport
    /\ UNCHANGED <<statelessMode, tables, server, handlers, response>>

CleanupServer(a) ==
  LET s == acts[a].sid IN
    /\ acts[a].pc = "closeServer"
    /\ IF s \in mcpServers
         THEN \/ server' = [server EXCEPT ![s] = "closed"] /\ Goto(a, "forget")
              \/ Goto(a, "failed") /\ UNCHANGED server
         ELSE Goto(a, "forget") /\ UNCHANGED server
    /\ UNCHANGED <<statelessMode, tables, transport, handlers, response>>

CleanupForget(a) ==
  LET s == acts[a].sid IN
    /\ acts[a].pc = "forget"
    /\ transports' = transports \ {s}
    /\ mcpServers' = mcpServers \ {s}
    /\ executors' = executors \ {s}
    /\ Goto(a, "closing")
    /\ UNCHANGED <<statelessMode, transport, server, handlers, response>>

\* The transport closes itself after onsessionclosed and answers the DELETE.
CleanupDone(a) ==
  /\ acts[a].pc = "closing"
  /\ transport' = IF acts[a].op = "delete"
                    THEN [transport EXCEPT ![acts[a].sid] = "closed"] ELSE transport
  /\ Goto(a, "done")
  /\ UNCHANGED <<statelessMode, tables, server, handlers, response>>
---------------------------------------------------------------------------------
(* POST in stateless mode: createStatelessServer up to its awaits.         *)
StatelessPost(r) ==
  /\ statelessMode /\ acts[r].pc = "idle"
  /\ transport' = [transport EXCEPT ![r] = "open"]
  /\ server' = [server EXCEPT ![r] = "open"]
  /\ Enter(r, "stateless", None, "resolving")
  /\ UNCHANGED <<statelessMode, tables, handlers, response>>

\* If it fails, the caller holds neither server nor transport and closes nothing.
StatelessRegister(r) ==
  /\ At(r, "stateless", "resolving")
  /\ \/ handlers' = [handlers EXCEPT ![r] = r] /\ Goto(r, "handling")
     \/ Goto(r, "failed") /\ UNCHANGED handlers
  /\ UNCHANGED <<statelessMode, tables, transport, server, response>>

\* Mutant: closes when the request was handled, not when the response is over.
StatelessHandledCloses(r) ==
  /\ At(r, "stateless", "handling")
  /\ Goto(r, "closeOwn")
  /\ UNCHANGED <<statelessMode, tables, transport, server, handlers, response>>

(* transport.handleRequest settles, before or after the response is over:  *)
(* the listener for its end is set, or the error path closes both.         *)
StatelessHandled(r) ==
  /\ At(r, "stateless", "handling")
  /\ \/ Goto(r, "listening") /\ UNCHANGED <<transport, server>>
     \/ /\ Goto(r, "failed")
        /\ transport' = [transport EXCEPT ![r] = "closed"]
        /\ server' = [server EXCEPT ![r] = "closed"]
  /\ UNCHANGED <<statelessMode, tables, handlers, response>>

\* Mutant: listens for the client going away only.
ResponseEndsOnAbort(r) ==
  /\ acts[r].op = "stateless" /\ acts[r].pc \in {"handling", "listening"}
  /\ response[r] = "open"
  /\ \E end \in {"finished", "aborted"} :
       /\ response' = [response EXCEPT ![r] = end]
       /\ IF acts[r].pc = "listening" /\ end = "aborted"
            THEN Goto(r, "closeOwn") ELSE UNCHANGED acts
  /\ UNCHANGED <<statelessMode, tables, transport, server, handlers>>

\* External: the response is sent to its end, or the client goes away.
ResponseEnds(r) ==
  /\ acts[r].op = "stateless" /\ acts[r].pc \in {"handling", "listening"}
  /\ response[r] = "open"
  /\ \E end \in {"finished", "aborted"} :
       /\ response' = [response EXCEPT ![r] = end]
       /\ IF acts[r].pc = "listening" /\ end = "finished"
            THEN Goto(r, "closeOwn") ELSE UNCHANGED acts
  /\ UNCHANGED <<statelessMode, tables, transport, server, handlers>>

StatelessCleanup(r) ==
  /\ At(r, "stateless", "closeOwn")
  /\ transport' = [transport EXCEPT ![r] = "closed"]
  /\ server' = [server EXCEPT ![r] = "closed"]
  /\ Goto(r, "done")
  /\ UNCHANGED <<statelessMode, tables, handlers, response>>

Next ==
  \/ \E r \in Requests :
       \/ Refuse(r) \/ SessionInitialized(r) \/ RegisterExecutor(r) \/ ResolveFails(r)
       \/ HandleRequest(r) \/ Answered(r)
       \/ StatelessPost(r) \/ StatelessRegister(r) \/ StatelessHandled(r)
       \/ ResponseEnds(r) \/ StatelessCleanup(r)
  \/ \E r \in Requests, s \in Sessions :
       \/ PostInitialize(r, s) \/ PostMessage(r, s)
       \/ HandleGetRequest(r, s) \/ HandleDeleteRequest(r, s)
  \/ OnModuleDestroy
  \/ \E a \in Actors : \/ CleanupTransport(a) \/ CleanupServer(a)
                       \/ CleanupForget(a) \/ CleanupDone(a)

Spec == Init /\ [][Next]_vars

(* Promises settle and responses end; nothing is said of what clients send. *)
Fairness ==
  /\ \A a \in Actors : WF_vars(CleanupTransport(a) \/ CleanupServer(a) \/ CleanupForget(a))
  /\ \A r \in Requests : WF_vars(StatelessRegister(r) \/ StatelessHandled(r))
                         /\ WF_vars(ResponseEnds(r)) /\ WF_vars(StatelessCleanup(r))
---------------------------------------------------------------------------------
(* A transport in the table has its server there, and a session that a     *)
(* client can name has, as long as it is there, an executor and handlers.  *)
TablesAgree ==
  /\ transports = mcpServers
  /\ \A s \in transports : Known(s) => s \in executors /\ handlers[s] # None

(* A stateless server is not closed under a response that is being sent,   *)
(* unless the request itself has failed.                                   *)
NotCutOff ==
  \A r \in Requests : transport[r] = "closed" => response[r] # "open" \/ acts[r].pc = "failed"

(* A session whose DELETE was accepted is forgotten, also when two DELETEs *)
(* and the end of the module clean it up at the same time, unless a close  *)
(* fails.                                                                  *)
DeletedSessionsGo ==
  \A r \in Requests, s \in Sessions :
    (acts[r].pc = "deleting" /\ acts[r].sid = s) ~> (s \notin transports \/ acts[r].pc = "failed")

(* A stateless server is closed once its response has finished, if the     *)
(* listener was set before.                                                *)
StatelessIsCleaned ==
  \A r \in Requests :
    acts[r].pc = "listening" /\ response[r] = "open"
      ~> transport[r] = "closed" \/ response[r] = "aborted"

(* A session opens and ends once, accepts messages only in between, and    *)
(* runs each under the request that opened it: an McpSession.              *)
Opener(s) == CHOOSE r \in Requests : acts[r].op = "init" /\ acts[r].sid = s
Stored(s) == Opened(s, PCs \ {"connecting"})
Session == INSTANCE McpSession WITH
  Messages <- Requests,
  PerMessage <- FALSE,
  phase <- [s \in Sessions |-> IF s \in transports THEN "live"
                               ELSE IF Stored(s) THEN "over" ELSE "none"],
  opener <- [s \in Sessions |-> IF Stored(s) THEN Opener(s) ELSE None],
  accepted <- [r \in Requests |-> IF acts[r].op = "post" /\ acts[r].pc # "refused"
                                    THEN acts[r].sid ELSE None],
  ranAs <- [r \in Requests |-> IF acts[r].op = "post" THEN acts[r].as ELSE None]
SessionSpec == Session!Spec
=================================================================================
