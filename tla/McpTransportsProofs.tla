-------------------------- MODULE McpTransportsProofs --------------------------
(* McpTransports for any option and any number of sessions.  The event     *)
(* streams are proved about here; what HttpProofs shows of streamable HTTP *)
(* alone holds of the process that serves it.  HttpP is Http, with its     *)
(* theorems.                                                               *)
EXTENDS McpTransports, TLAPS

HttpP == INSTANCE HttpProofs WITH Sessions <- SessionIds

LEMMA Assumptions == Sse!SseAssumption /\ HttpP!HttpAssumption
  BY TransportsAssumption DEF Http!HttpAssumption, HttpP!HttpAssumption

SseMessage == [pc: Sse!PCs, session: StreamIds \cup {None}, as: Messages \cup {None}]

(* What a message knows at each point.                                     *)
SseKnows(m) ==
  LET q == msgs[m] IN
    /\ q.pc \in {"new", "resolving", "notFound", "failed"} => q.as = None
    /\ q.pc = "resolving" => q.session \in StreamIds
    /\ q.pc \in {"running", "answered", "dropped"} => q.as = m /\ q.session \in StreamIds

SseInv == /\ Sse!TypeOK /\ Sse!TablesAgree
          /\ \A s \in streamTransports : stream[s] # "new"
          /\ \A m \in Messages : SseKnows(m)

-----------------------------------------------------------------------------
LEMMA SseInitOK == ASSUME Sse!SseAssumption, Sse!Init PROVE SseInv
  BY DEF Sse!SseAssumption, Sse!Init, SseInv, Sse!TypeOK, Sse!TablesAgree, SseKnows, Sse!PCs,
         Sse!Streams

(* The steps of streams and of the ping timer leave messages alone.        *)
LEMMA SseStreamsKeep ==
  ASSUME SseInv, UNCHANGED msgs,
         \/ \E s \in StreamIds : Sse!CreateSseConnection(s) \/ Sse!Break(s) \/ Sse!OnClose(s)
         \/ Sse!SendPingToAllConnections \/ Sse!StopPingInterval
  PROVE  SseInv'
<1>1. \A m \in Messages : SseKnows(m)'
  BY DEF SseInv, SseKnows
<1>2. ASSUME NEW s \in StreamIds, Sse!CreateSseConnection(s)
      PROVE  Sse!TypeOK' /\ Sse!TablesAgree' /\ \A x \in streamTransports' : stream'[x] # "new"
  BY <1>2 DEF Sse!CreateSseConnection, SseInv, Sse!TypeOK, Sse!TablesAgree, Sse!Streams
<1>3. ASSUME NEW s \in StreamIds, Sse!Break(s)
      PROVE  Sse!TypeOK' /\ Sse!TablesAgree' /\ \A x \in streamTransports' : stream'[x] # "new"
  BY <1>3 DEF Sse!Break, Sse!tables, SseInv, Sse!TypeOK, Sse!TablesAgree, Sse!Streams
<1>4. ASSUME NEW s \in StreamIds, Sse!OnClose(s)
      PROVE  Sse!TypeOK' /\ Sse!TablesAgree' /\ \A x \in streamTransports' : stream'[x] # "new"
  BY <1>4 DEF Sse!OnClose, SseInv, Sse!TypeOK, Sse!TablesAgree, Sse!Streams
<1>5. CASE Sse!SendPingToAllConnections \/ Sse!StopPingInterval
  <2>1. Sse!TypeOK' /\ Sse!TablesAgree' /\ \A x \in streamTransports' : stream'[x] # "new"
    BY <1>5 DEF Sse!SendPingToAllConnections, Sse!StopPingInterval, Sse!Writable, Sse!tables,
                SseInv, Sse!TypeOK, Sse!TablesAgree, Sse!Streams
  <2> QED
    BY <1>1, <2>1 DEF SseInv
<1> QED
  BY <1>1, <1>2, <1>3, <1>4, <1>5 DEF SseInv

(* The steps of a message leave the tables and the streams alone, and what *)
(* the other messages know.                                                *)
LEMMA SseMessageChanges ==
  ASSUME SseInv, NEW m \in Messages, NEW q \in SseMessage, msgs' = [msgs EXCEPT ![m] = q],
         streamHandlers' \in [StreamIds -> Messages \cup {None}],
         UNCHANGED <<Sse!tables, pinging, stream>>, SseKnows(m)'
  PROVE  SseInv'
<1>1. Sse!TypeOK'
  BY DEF SseInv, Sse!TypeOK, Sse!tables, SseMessage
<1>2. Sse!TablesAgree' /\ \A x \in streamTransports' : stream'[x] # "new"
  BY DEF SseInv, Sse!TablesAgree, Sse!tables
<1>3. \A n \in Messages : SseKnows(n)'
  <2> SUFFICES ASSUME NEW n \in Messages PROVE SseKnows(n)'
    OBVIOUS
  <2>1. CASE n = m
    BY <2>1
  <2>2. CASE n # m
    <3>1. msgs'[n] = msgs[n]
      BY <2>2 DEF SseInv, Sse!TypeOK
    <3> QED
      BY <3>1 DEF SseInv, SseKnows
  <2> QED
    BY <2>1, <2>2
<1> QED
  BY <1>1, <1>2, <1>3 DEF SseInv

LEMMA SseMessagesKeep ==
  ASSUME SseInv, NEW m \in Messages,
         \/ \E s \in StreamIds : Sse!HandleMessage(m, s)
         \/ Sse!DispatchMessage(m) \/ Sse!AnswerMessage(m)
  PROVE  SseInv'
<1>1. msgs[m] \in SseMessage /\ SseKnows(m) /\ msgs \in [Messages -> SseMessage]
  BY DEF SseInv, Sse!TypeOK, SseMessage
<1>2. ASSUME NEW s \in StreamIds, Sse!HandleMessage(m, s)
      PROVE  SseInv'
  <2> DEFINE q == [msgs[m] EXCEPT !.session = s,
                     !.pc = IF s \in streamTransports /\ s \in streamServers
                              THEN "resolving" ELSE "notFound"]
  <2>1. msgs' = [msgs EXCEPT ![m] = q] /\ msgs[m].pc = "new"
    BY <1>1, <1>2 DEF Sse!HandleMessage
  <2>2. q \in SseMessage /\ q.session = s /\ q.as = msgs[m].as /\ q.pc \in {"resolving", "notFound"}
    BY <1>1 DEF SseMessage, Sse!PCs
  <2> HIDE DEF q
  <2>3. msgs'[m] = q
    BY <1>1, <2>1
  <2>4. SseKnows(m)'
    BY <1>1, <2>1, <2>2, <2>3 DEF SseKnows
  <2>5. UNCHANGED <<Sse!tables, pinging, stream, streamHandlers>>
    BY <1>2 DEF Sse!HandleMessage
  <2>6. streamHandlers' \in [StreamIds -> Messages \cup {None}]
    BY <2>5 DEF SseInv, Sse!TypeOK
  <2> QED
    BY <2>1, <2>2, <2>4, <2>5, <2>6, SseMessageChanges
<1>3. CASE Sse!DispatchMessage(m)
  <2> DEFINE s == msgs[m].session
  <2>1. /\ s \in StreamIds /\ msgs[m].pc = "resolving" /\ msgs[m].as = None
        /\ streamHandlers' = [streamHandlers EXCEPT ![s] = m]
        /\ UNCHANGED <<Sse!tables, pinging, stream>>
    BY <1>1, <1>3 DEF Sse!DispatchMessage, SseKnows
  <2>2. streamHandlers' \in [StreamIds -> Messages \cup {None}] /\ streamHandlers'[s] = m
    BY <2>1 DEF SseInv, Sse!TypeOK
  <2>3. CASE stream[s] = "closed"
    <3> DEFINE q == [msgs[m] EXCEPT !.pc = "failed"]
    <3>1. msgs' = [msgs EXCEPT ![m] = q]
      BY <1>1, <1>3, <2>3 DEF Sse!DispatchMessage
    <3>2. q \in SseMessage /\ q.pc = "failed" /\ q.as = None
      BY <1>1, <2>1 DEF SseMessage, Sse!PCs
    <3> HIDE DEF q
    <3>3. SseKnows(m)'
      BY <1>1, <3>1, <3>2 DEF SseKnows
    <3> QED
      BY <2>1, <2>2, <3>1, <3>2, <3>3, SseMessageChanges
  <2>4. CASE stream[s] # "closed"
    <3> DEFINE q == [msgs[m] EXCEPT !.pc = "running", !.as = m]
    <3>1. msgs' = [msgs EXCEPT ![m] = q]
      BY <1>1, <1>3, <2>2, <2>4 DEF Sse!DispatchMessage
    <3>2. q \in SseMessage /\ q.pc = "running" /\ q.as = m /\ q.session = s
      BY <1>1, <2>1 DEF SseMessage, Sse!PCs
    <3> HIDE DEF q
    <3>3. SseKnows(m)'
      BY <1>1, <2>1, <3>1, <3>2 DEF SseKnows
    <3> QED
      BY <2>1, <2>2, <3>1, <3>2, <3>3, SseMessageChanges
  <2> QED
    BY <2>3, <2>4
<1>4. CASE Sse!AnswerMessage(m)
  <2>1. PICK pc \in {"answered", "dropped"} : msgs' = [msgs EXCEPT ![m].pc = pc]
    BY <1>4 DEF Sse!AnswerMessage
  <2> DEFINE q == [msgs[m] EXCEPT !.pc = pc]
  <2>2. msgs' = [msgs EXCEPT ![m] = q]
    BY <1>1, <2>1
  <2>3. /\ q \in SseMessage /\ q.pc \in {"answered", "dropped"}
        /\ q.as = msgs[m].as /\ q.session = msgs[m].session
    BY <1>1 DEF SseMessage, Sse!PCs
  <2>4. msgs[m].pc = "running" /\ UNCHANGED <<Sse!tables, pinging, stream, streamHandlers>>
    BY <1>4 DEF Sse!AnswerMessage
  <2> HIDE DEF q
  <2>5. SseKnows(m)'
    BY <1>1, <2>2, <2>3, <2>4 DEF SseKnows
  <2>6. streamHandlers' \in [StreamIds -> Messages \cup {None}]
    BY <2>4 DEF SseInv, Sse!TypeOK
  <2> QED
    BY <2>2, <2>3, <2>4, <2>5, <2>6, SseMessageChanges
<1> QED
  BY <1>2, <1>3, <1>4

LEMMA SseNextOK == ASSUME SseInv, [Sse!Next]_(Sse!vars) PROVE SseInv'
<1>1. ASSUME Sse!Next PROVE SseInv'
  <2>1. CASE \E m \in Messages : \/ \E s \in StreamIds : Sse!HandleMessage(m, s)
                                 \/ Sse!DispatchMessage(m) \/ Sse!AnswerMessage(m)
    BY <2>1, SseMessagesKeep
  <2>2. CASE \/ \E s \in StreamIds : Sse!CreateSseConnection(s) \/ Sse!Break(s) \/ Sse!OnClose(s)
             \/ Sse!SendPingToAllConnections \/ Sse!StopPingInterval
    <3>1. UNCHANGED msgs
      BY <2>2 DEF Sse!CreateSseConnection, Sse!Break, Sse!OnClose,
                    Sse!SendPingToAllConnections, Sse!StopPingInterval
    <3> QED
      BY <2>2, <3>1, SseStreamsKeep
  <2> QED
    BY <1>1, <2>1, <2>2 DEF Sse!Next
<1>2. CASE UNCHANGED Sse!vars
  BY <1>2 DEF Sse!vars, Sse!tables, SseInv, Sse!TypeOK, Sse!TablesAgree, SseKnows
<1> QED
  BY <1>1, <1>2
-----------------------------------------------------------------------------
(* What McpSession sees of the state.                                      *)
SsePhase == [s \in StreamIds |-> IF stream[s] = "new" THEN "none"
                                ELSE IF s \in streamTransports THEN "live" ELSE "over"]
SseOpener == [s \in StreamIds |-> None]
SseAccepted == [m \in Messages |-> IF msgs[m].pc \in {"new", "notFound"} THEN None
                                 ELSE msgs[m].session]
SseRanAs == [m \in Messages |-> msgs[m].as]

SseSeen == <<SsePhase, SseOpener, SseAccepted, SseRanAs>>

LEMMA SseInstanceSees == Sse!Session!vars = SseSeen
  BY DEF Sse!Session!vars, SseSeen, SsePhase, SseOpener, SseAccepted, SseRanAs

LEMMA SseStreamsInSession ==
  ASSUME Sse!SseAssumption, SseInv, NEW s \in StreamIds,
         Sse!CreateSseConnection(s) \/ Sse!Break(s) \/ Sse!OnClose(s)
  PROVE  Sse!Session!Next \/ UNCHANGED SseSeen
<1>1. UNCHANGED <<SseAccepted, SseRanAs, SseOpener>>
  BY DEF Sse!CreateSseConnection, Sse!Break, Sse!OnClose, SseAccepted, SseRanAs, SseOpener
<1>2. CASE Sse!CreateSseConnection(s)
  <2>1. SsePhase[s] = "none" /\ SsePhase' = [SsePhase EXCEPT ![s] = "live"]
    BY <1>2 DEF Sse!CreateSseConnection, SsePhase, SseInv, Sse!TypeOK
  <2>2. SseOpener' = [SseOpener EXCEPT ![s] = None]
    BY DEF SseOpener
  <2>3. Sse!Session!Open(s, None)
    BY <1>1, <2>1, <2>2 DEF Sse!Session!Open, SsePhase, SseOpener, SseAccepted, SseRanAs
  <2> QED
    BY <2>3 DEF Sse!Session!Next
<1>3. CASE Sse!Break(s)
  <2>1. SsePhase' = SsePhase
    BY <1>3 DEF Sse!Break, Sse!tables, SsePhase, SseInv, Sse!TypeOK
  <2> QED
    BY <1>1, <2>1 DEF SseSeen
<1>4. CASE Sse!OnClose(s)
  <2>1. SsePhase' = IF s \in streamTransports THEN [SsePhase EXCEPT ![s] = "over"] ELSE SsePhase
    BY <1>4 DEF Sse!OnClose, SsePhase, SseInv, Sse!TypeOK
  <2>2. s \in streamTransports => SsePhase[s] = "live"
    BY <1>4 DEF Sse!OnClose, SsePhase
  <2>3. CASE s \in streamTransports
    <3>1. Sse!Session!End(s)
      BY <1>1, <2>1, <2>2, <2>3 DEF Sse!Session!End, SsePhase, SseOpener, SseAccepted, SseRanAs
    <3> QED
      BY <3>1 DEF Sse!Session!Next
  <2>4. CASE s \notin streamTransports
    BY <1>1, <2>1, <2>4 DEF SseSeen
  <2> QED
    BY <2>3, <2>4
<1> QED
  BY <1>2, <1>3, <1>4

LEMMA SseMessagesInSession ==
  ASSUME Sse!SseAssumption, SseInv, NEW m \in Messages,
         \/ \E s \in StreamIds : Sse!HandleMessage(m, s)
         \/ Sse!DispatchMessage(m) \/ Sse!AnswerMessage(m)
  PROVE  Sse!Session!Next \/ UNCHANGED SseSeen
<1>1. UNCHANGED <<SsePhase, SseOpener>>
  BY DEF Sse!HandleMessage, Sse!DispatchMessage, Sse!AnswerMessage, Sse!tables, SsePhase, SseOpener
<1>2. SseKnows(m) /\ msgs \in [Messages -> SseMessage]
  BY DEF SseInv, Sse!TypeOK, SseMessage
<1>3. \A n \in Messages \ {m} : msgs'[n] = msgs[n]
  BY <1>2 DEF Sse!HandleMessage, Sse!DispatchMessage, Sse!AnswerMessage
<1>4. ASSUME NEW a, NEW b,
             SseAccepted'[m] = a, SseAccepted[m] = a, SseRanAs'[m] = b, SseRanAs[m] = b
      PROVE  UNCHANGED SseSeen
  BY <1>1, <1>3, <1>4 DEF SseSeen, SseAccepted, SseRanAs
<1>5. ASSUME NEW s \in StreamIds, Sse!HandleMessage(m, s)
      PROVE  Sse!Session!Next \/ UNCHANGED SseSeen
  <2>1. msgs[m].pc = "new" /\ msgs'[m].as = msgs[m].as
    BY <1>2, <1>5 DEF Sse!HandleMessage, SseMessage
  <2>2. CASE s \in streamTransports /\ s \in streamServers
    <3>1. msgs'[m].pc = "resolving" /\ msgs'[m].session = s
      BY <1>2, <1>5, <2>2 DEF Sse!HandleMessage, SseMessage
    <3>2. SsePhase[s] = "live"
      BY <2>2 DEF SsePhase, SseInv
    <3>3. /\ SseAccepted[m] = None /\ SseAccepted' = [SseAccepted EXCEPT ![m] = s]
          /\ SseRanAs' = SseRanAs
      BY <1>3, <2>1, <3>1 DEF SseAccepted, SseRanAs
    <3>4. Sse!Session!Accept(m, s)
      BY <1>1, <3>2, <3>3 DEF Sse!Session!Accept, SsePhase, SseOpener, SseAccepted, SseRanAs
    <3> QED
      BY <3>4 DEF Sse!Session!Next
  <2>3. CASE ~(s \in streamTransports /\ s \in streamServers)
    <3>1. msgs'[m].pc = "notFound"
      BY <1>2, <1>5, <2>3 DEF Sse!HandleMessage, SseMessage
    <3> QED
      BY <1>4, <2>1, <3>1 DEF SseAccepted, SseRanAs
  <2> QED
    BY <2>2, <2>3
<1>6. CASE Sse!DispatchMessage(m)
  <2> DEFINE s == msgs[m].session
  <2>1. s \in StreamIds /\ msgs[m].pc = "resolving" /\ msgs[m].as = None /\ msgs'[m].session = s
    BY <1>2, <1>6 DEF Sse!DispatchMessage, SseKnows, SseMessage
  <2>2. CASE stream[s] = "closed"
    <3>1. msgs'[m].pc = "failed" /\ msgs'[m].as = None
      BY <1>2, <1>6, <2>1, <2>2 DEF Sse!DispatchMessage, SseMessage
    <3> QED
      BY <1>4, <2>1, <3>1 DEF SseAccepted, SseRanAs
  <2>3. CASE stream[s] # "closed"
    <3>1. msgs'[m].pc = "running" /\ msgs'[m].as = streamHandlers'[s]
      BY <1>2, <1>6, <2>1, <2>3 DEF Sse!DispatchMessage, SseMessage
    <3>2. streamHandlers'[s] = m
      BY <1>6, <2>1 DEF Sse!DispatchMessage, SseInv, Sse!TypeOK
    <3>3. /\ SseAccepted[m] # None /\ SseRanAs[m] = None
          /\ SseRanAs' = [SseRanAs EXCEPT ![m] = m] /\ SseAccepted' = SseAccepted
      BY <1>3, <2>1, <3>1, <3>2 DEF SseAccepted, SseRanAs, Sse!SseAssumption
    <3>4. Sse!Session!Run(m)
      BY <1>1, <3>3 DEF Sse!Session!Run, SsePhase, SseOpener, SseAccepted, SseRanAs
    <3> QED
      BY <3>4 DEF Sse!Session!Next
  <2> QED
    BY <2>2, <2>3
<1>7. CASE Sse!AnswerMessage(m)
  <2>1. /\ msgs[m].pc = "running" /\ msgs'[m].pc \in {"answered", "dropped"}
        /\ msgs'[m].session = msgs[m].session /\ msgs'[m].as = msgs[m].as
    BY <1>2, <1>7 DEF Sse!AnswerMessage, SseMessage
  <2> QED
    BY <1>4, <2>1 DEF SseAccepted, SseRanAs
<1> QED
  BY <1>5, <1>6, <1>7

LEMMA SseNextInSession ==
  ASSUME Sse!SseAssumption, SseInv, [Sse!Next]_(Sse!vars)
  PROVE  [Sse!Session!Next]_(Sse!Session!vars)
<1>1. CASE Sse!SendPingToAllConnections \/ Sse!StopPingInterval \/ UNCHANGED Sse!vars
  <2>1. UNCHANGED <<streamTransports, stream, msgs>>
    BY <1>1 DEF Sse!SendPingToAllConnections, Sse!StopPingInterval, Sse!vars, Sse!tables
  <2>2. UNCHANGED Sse!Session!vars
    BY <2>1 DEF Sse!Session!vars
  <2> QED
    BY <2>2
<1>2. UNCHANGED SseSeen => UNCHANGED Sse!Session!vars
  BY DEF Sse!Session!vars, SseSeen, SsePhase, SseOpener, SseAccepted, SseRanAs
<1> QED
  BY <1>1, <1>2, SseStreamsInSession, SseMessagesInSession DEF Sse!Next

LEMMA SseInitInSession == ASSUME Sse!SseAssumption, Sse!Init PROVE Sse!Session!Init
  BY DEF Sse!Init, Sse!Session!Init
-----------------------------------------------------------------------------
(* Tables, streams, handlers and messages keep their types.                *)
THEOREM SseTypes == Sse!Spec => []Sse!TypeOK
<1>1. Sse!Init => SseInv
  BY Assumptions, SseInitOK
<1>2. SseInv /\ [Sse!Next]_(Sse!vars) => SseInv'
  BY SseNextOK
<1>3. SseInv => Sse!TypeOK
  BY DEF SseInv
<1> QED
  BY <1>1, <1>2, <1>3, PTL DEF Sse!Spec

(* The tables of transports, servers and pings agree with each other and   *)
(* with the streams.                                                       *)
THEOREM SseTablesAgree == Sse!Spec => []Sse!TablesAgree
<1>1. Sse!Init => SseInv
  BY Assumptions, SseInitOK
<1>2. SseInv /\ [Sse!Next]_(Sse!vars) => SseInv'
  BY SseNextOK
<1>3. SseInv => Sse!TablesAgree
  BY DEF SseInv
<1> QED
  BY <1>1, <1>2, <1>3, PTL DEF Sse!Spec

(* The service implements McpSession: a session begins and ends once, a    *)
(* message is accepted by a live session and runs at most once, under its  *)
(* own request.                                                            *)
THEOREM SseImplementsSession == Sse!Spec => Sse!SessionSpec
<1>1. Sse!Init => SseInv /\ Sse!Session!Init
  BY Assumptions, SseInitOK, SseInitInSession
<1>2. SseInv /\ [Sse!Next]_(Sse!vars) => SseInv'
  BY SseNextOK
<1>3. SseInv /\ [Sse!Next]_(Sse!vars) => [Sse!Session!Next]_(Sse!Session!vars)
  BY Assumptions, SseNextInSession
<1> QED
  BY <1>1, <1>2, <1>3, PTL DEF Sse!Spec, Sse!SessionSpec, Sse!Session!Spec
-----------------------------------------------------------------------------
LEMMA SameHttp == (Http!Init <=> HttpP!Init) /\ (Http!Next <=> HttpP!Next)
<1>1. Http!Init <=> HttpP!Init
  BY DEF Http!Init, HttpP!Init, Http!Owners, HttpP!Owners, Http!Actors, HttpP!Actors
<1>2. Http!Next <=> HttpP!Next
  BY DEF Http!Next, HttpP!Next, Http!Owners, HttpP!Owners, Http!Actors, HttpP!Actors, Http!tables,
         HttpP!tables, Http!Phases, HttpP!Phases, Http!Ops, HttpP!Ops, Http!PCs, HttpP!PCs, Http!At,
         HttpP!At, Http!Goto, HttpP!Goto, Http!Enter, HttpP!Enter, Http!Opened, HttpP!Opened,
         Http!Known, HttpP!Known, Http!Refuse, HttpP!Refuse, Http!PostInitialize,
         HttpP!PostInitialize, Http!SessionInitialized, HttpP!SessionInitialized,
         Http!RegisterExecutor, HttpP!RegisterExecutor, Http!ResolveFails, HttpP!ResolveFails,
         Http!PostMessage, HttpP!PostMessage, Http!HandleRequest, HttpP!HandleRequest,
         Http!Answered, HttpP!Answered, Http!HandleGetRequest, HttpP!HandleGetRequest,
         Http!HandleDeleteRequest, HttpP!HandleDeleteRequest, Http!OnModuleDestroy,
         HttpP!OnModuleDestroy, Http!CleanupTransport, HttpP!CleanupTransport, Http!CleanupServer,
         HttpP!CleanupServer, Http!CleanupForget, HttpP!CleanupForget, Http!CleanupDone,
         HttpP!CleanupDone, Http!StatelessPost, HttpP!StatelessPost, Http!StatelessRegister,
         HttpP!StatelessRegister, Http!StatelessHandled, HttpP!StatelessHandled, Http!ResponseEnds,
         HttpP!ResponseEnds, Http!StatelessCleanup, HttpP!StatelessCleanup
<1> QED
  BY <1>1, <1>2

(* Each service takes its own steps or none.                               *)
LEMMA ServesSse == Spec => Sse!Spec
<1>1. Init => Sse!Init
  BY DEF Init
<1>2. [Next]_vars => [Sse!Next]_(Sse!vars)
  BY DEF Next, BootstrapStdio, vars, sseVars, Sse!vars, Sse!tables
<1> QED
  BY <1>1, <1>2, PTL DEF Spec, Sse!Spec

LEMMA ServesHttp == Spec => HttpP!Spec
<1>1. Init => HttpP!Init
  BY SameHttp DEF Init
<1>2. [Next]_vars => [HttpP!Next]_(HttpP!vars)
  BY SameHttp DEF Next, BootstrapStdio, vars, httpVars, HttpP!vars, HttpP!tables
<1> QED
  BY <1>1, <1>2, PTL DEF Spec, HttpP!Spec

LEMMA OptionTypes == Spec => [](option \in Options /\ stdio \in BOOLEAN)
<1>1. Init => option \in Options /\ stdio \in BOOLEAN
  BY DEF Init
<1>2. option \in Options /\ stdio \in BOOLEAN /\ [Next]_vars
        => (option \in Options /\ stdio \in BOOLEAN)'
  BY DEF Next, BootstrapStdio, vars
<1> QED
  BY <1>1, <1>2, PTL DEF Spec
-----------------------------------------------------------------------------
(* The option, and the tables and requests of both services, keep their    *)
(* types.                                                                  *)
THEOREM TransportTypes == Spec => []TypeOK
<1>1. Sse!Spec => []Sse!TypeOK
  BY SseTypes
<1>2. HttpP!Spec => []HttpP!TypeOK
  BY Assumptions, HttpP!HttpTypes
<1>3. Sse!TypeOK /\ HttpP!TypeOK /\ option \in Options /\ stdio \in BOOLEAN => TypeOK
  BY DEF TypeOK, Http!TypeOK, HttpP!TypeOK, Http!Owners, HttpP!Owners, Http!Actors, HttpP!Actors,
         Http!Phases, HttpP!Phases, Http!Ops, HttpP!Ops, Http!PCs, HttpP!PCs
<1> QED
  BY <1>1, <1>2, <1>3, ServesSse, ServesHttp, OptionTypes, PTL

(* In each service the tables of transports, servers and pings or          *)
(* executors agree, however requests, closing streams, pings and clean-ups *)
(* interleave.                                                             *)
THEOREM TransportTablesAgree == Spec => []TablesAgree
<1>1. Sse!Spec => []Sse!TablesAgree
  BY SseTablesAgree
<1>2. HttpP!Spec => []HttpP!TablesAgree
  BY Assumptions, HttpP!HttpTablesAgree
<1>3. Sse!TablesAgree /\ HttpP!TablesAgree => TablesAgree
  BY DEF TablesAgree, Http!TablesAgree, HttpP!TablesAgree, Http!Known, HttpP!Known,
         Http!Opened, HttpP!Opened
<1> QED
  BY <1>1, <1>2, <1>3, ServesSse, ServesHttp, PTL

(* No server made for one stateless request is closed while the response   *)
(* of that request is being sent.                                          *)
THEOREM TransportsNotCutOff == Spec => []NotCutOff
<1>1. HttpP!Spec => []HttpP!NotCutOff
  BY Assumptions, HttpP!HttpNotCutOff
<1>2. HttpP!NotCutOff => NotCutOff
  BY DEF NotCutOff, Http!NotCutOff, HttpP!NotCutOff
<1> QED
  BY <1>1, <1>2, ServesHttp, PTL

(* Both services implement McpSession: a session begins and ends once, and *)
(* each message runs at most once, under its own request over an event     *)
(* stream, under the request that opened the session over streamable HTTP. *)
THEOREM TransportsImplementSession == Spec => SessionSpec
<1>1. Sse!Spec => Sse!SessionSpec
  BY SseImplementsSession
<1>2. HttpP!Spec => HttpP!SessionSpec
  BY Assumptions, HttpP!HttpImplementsSession
<1>3. HttpP!Session!Init => Http!Session!Init
  BY DEF Http!Session!Init, HttpP!Session!Init,
         Http!Stored, HttpP!Stored, Http!Opened, HttpP!Opened, Http!Opener, HttpP!Opener,
         Http!PCs, HttpP!PCs
<1>4. [HttpP!Session!Next]_(HttpP!Session!vars) => [Http!Session!Next]_(Http!Session!vars)
  BY DEF Http!Session!Next, HttpP!Session!Next, Http!Session!Open, HttpP!Session!Open,
         Http!Session!End, HttpP!Session!End, Http!Session!Accept, HttpP!Session!Accept,
         Http!Session!Run, HttpP!Session!Run, Http!Session!vars, HttpP!Session!vars,
         Http!Stored, HttpP!Stored, Http!Opened, HttpP!Opened, Http!Opener, HttpP!Opener,
         Http!PCs, HttpP!PCs
<1> QED
  BY <1>1, <1>2, <1>3, <1>4, ServesSse, ServesHttp, PTL
     DEF SessionSpec, Http!SessionSpec, HttpP!SessionSpec,
         Http!Session!Spec, HttpP!Session!Spec
================================================================================
