------------------------------- MODULE HttpProofs -------------------------------
(* HttpSessions for any number of sessions and requests: types, agreement  *)
(* of the tables, no server closed under its response, and the             *)
(* implementation of McpSession.                                           *)
EXTENDS HttpSessions, TLAPS

Act == [pc: PCs, op: Ops, sid: Sessions \cup {None}, as: Requests \cup {None}]
Opens(r, s) == acts[r].op = "init" /\ acts[r].sid = s

(* What an actor is doing, and what it knows at each point.                *)
ActKnows(a) ==
  LET q == acts[a] IN
    /\ q.op = "none" => q.pc \in {"idle", "refused"}
    /\ q.pc = "idle" => q.op = "none" /\ q.as = None
    /\ q.op \in {"init", "post", "get", "delete", "stateless"} => a \in Requests
    /\ q.op \in {"init", "post", "delete", "sweep"} => q.sid \in Sessions
    /\ q.op = "init" => q.pc \in {"connecting", "resolving", "running", "done", "failed"}
    /\ q.op = "post" => /\ q.pc \in {"handling", "refused", "running", "done", "failed"}
                        /\ q.pc \in {"handling", "refused"} => q.as = None
                        /\ q.as # None => Opens(q.as, q.sid)
                        /\ Known(q.sid)
    /\ q.op = "get" => q.pc \in {"done", "refused"}
    /\ q.op \in {"delete", "sweep"} =>
         q.pc \in {"deleting", "closeServer", "forget", "closing", "done", "failed", "refused"}
    /\ q.op = "stateless" =>
         /\ q.pc \in {"resolving", "handling", "listening", "closeOwn", "done", "failed"}
         /\ q.pc \in {"closeOwn", "done"} => response[a] # "open"

(* One request opens a session, and has made its transport.                *)
OpenedOnce ==
  /\ \A q, r \in Requests : acts[q].op = "init" /\ Opens(r, acts[q].sid) => q = r
  /\ \A r \in Requests : acts[r].op = "init" => transport[acts[r].sid] # "none"

(* A session in the table has been stored by the request that opens it,    *)
(* and handlers on its server are that request's.                          *)
TablesKnow ==
  /\ transports = mcpServers
  /\ \A s \in transports : Stored(s) /\ (Known(s) => s \in executors)
  /\ \A s \in Sessions : /\ handlers[s] # None => Opens(handlers[s], s)
                         /\ Known(s) => handlers[s] # None

IInv == TypeOK /\ (\A a \in Actors : ActKnows(a)) /\ OpenedOnce /\ TablesKnow /\ NotCutOff

-----------------------------------------------------------------------------
LEMMA InitOK == ASSUME HttpAssumption, Init PROVE IInv
<1>1. TypeOK
  BY DEF Init, TypeOK, Owners, Actors, Phases, Ops, PCs
<1>2. \A a \in Actors : acts[a].pc = "idle" /\ acts[a].op = "none" /\ acts[a].as = None
  BY DEF Init
<1>3. \A r \in Requests : acts[r].op = "none" /\ transport[r] = "none"
  BY DEF Init, Actors, Owners
<1>4. (\A a \in Actors : ActKnows(a)) /\ NotCutOff
  BY <1>2, <1>3 DEF ActKnows, NotCutOff
<1>5. OpenedOnce
  BY <1>3 DEF OpenedOnce
<1>6. TablesKnow
  BY <1>3 DEF Init, TablesKnow, Known, Opened, Owners
<1> QED
  BY <1>1, <1>4, <1>5, <1>6 DEF IInv

(* Steps that open no session: what is open stays open, tables only lose   *)
(* sessions, transports are not made anew.                                 *)
Quiet == \A r \in Requests : acts[r].op = "init" \/ acts'[r].op = "init" => acts'[r] = acts[r]

LEMMA QuietOpens ==
  ASSUME Quiet
  PROVE  \A s : /\ Known(s)' <=> Known(s)
                /\ Stored(s)' <=> Stored(s)
                /\ \A r \in Requests : Opens(r, s)' <=> Opens(r, s)
<1>1. \A s : \A r \in Requests : Opens(r, s)' <=> Opens(r, s)
  BY DEF Quiet, Opens
<1>2. \A s : Known(s)' <=> Known(s)
  BY DEF Quiet, Known, Opened
<1>3. \A s : Stored(s)' <=> Stored(s)
  BY DEF Quiet, Stored, Opened
<1> QED
  BY <1>1, <1>2, <1>3

Shrinks ==
  /\ transports' = mcpServers' /\ transports' \subseteq transports /\ executors' \subseteq Sessions
  /\ \A s \in transports' : s \in executors => s \in executors'

Closes ==
  /\ transport' \in [Owners -> Phases] /\ server' \in [Owners -> Phases]
  /\ \A s \in Sessions : transport[s] # "none" => transport'[s] # "none"
  /\ response' \in [Requests -> {"open", "finished", "aborted"}]
  /\ \A r \in Requests : response[r] # "open" => response'[r] # "open"
  /\ \A r \in Requests : transport'[r] = "closed" =>
       transport[r] = "closed" \/ response'[r] # "open" \/ acts'[r].pc = "failed"

Moves ==
  /\ acts' \in [Actors -> Act]
  /\ \A a \in Actors : acts'[a] = acts[a] \/ ActKnows(a)'
  /\ \A r \in Requests : acts[r].pc = "failed" => acts'[r].pc = "failed"

LEMMA QuietKeeps ==
  ASSUME HttpAssumption, IInv, Quiet, Shrinks, Closes, Moves, UNCHANGED statelessMode,
         handlers' \in [Owners -> Requests \cup {None}],
         \A s \in Sessions : handlers'[s] = handlers[s]
  PROVE  IInv'
<1>1. TypeOK'
  BY DEF IInv, TypeOK, Shrinks, Closes, Moves, Act
<1>2. \A a \in Actors : ActKnows(a)'
  <2> SUFFICES ASSUME NEW a \in Actors, acts'[a] = acts[a] PROVE ActKnows(a)'
    BY DEF Moves
  <2>1. ActKnows(a) /\ acts[a] \in Act
    BY DEF IInv, TypeOK, Act
  <2>2. acts[a].op = "post" /\ acts[a].as # None => Opens(acts[a].as, acts[a].sid)'
    <3> SUFFICES ASSUME acts[a].op = "post", acts[a].as # None
                 PROVE  Opens(acts[a].as, acts[a].sid)'
      OBVIOUS
    <3>1. acts[a].as \in Requests /\ Opens(acts[a].as, acts[a].sid)
      BY <2>1 DEF ActKnows, Act
    <3>2. acts'[acts[a].as] = acts[acts[a].as]
      BY <3>1 DEF Quiet, Opens
    <3> QED
      BY <3>1, <3>2 DEF Opens
  <2>3. acts[a].op = "post" => Known(acts[a].sid)'
    <3> SUFFICES ASSUME acts[a].op = "post" PROVE Known(acts[a].sid)'
      OBVIOUS
    <3>1. PICK r \in Requests : /\ acts[r].op = "init" /\ acts[r].sid = acts[a].sid
                               /\ acts[r].pc \in {"running", "done"}
      BY <2>1 DEF ActKnows, Known, Opened
    <3>2. acts'[r] = acts[r]
      BY <3>1 DEF Quiet
    <3> QED
      BY <3>1, <3>2 DEF Known, Opened
  <2>4. a \in Requests /\ response[a] # "open" => response'[a] # "open"
    BY DEF Closes
  <2> QED
    BY <2>1, <2>2, <2>3, <2>4 DEF ActKnows
<1>3. OpenedOnce'
  <2>1. \A r \in Requests : acts'[r].op = "init" =>
          /\ acts[r] = acts'[r] /\ acts'[r].sid \in Sessions
          /\ transport'[acts'[r].sid] # "none"
    <3> SUFFICES ASSUME NEW r \in Requests, acts'[r].op = "init"
                 PROVE  /\ acts[r] = acts'[r] /\ acts'[r].sid \in Sessions
                        /\ transport'[acts'[r].sid] # "none"
      OBVIOUS
    <3>1. acts[r] = acts'[r]
      BY DEF Quiet
    <3>2. acts[r].sid \in Sessions /\ transport[acts[r].sid] # "none"
      BY <3>1 DEF IInv, OpenedOnce, ActKnows, Actors
    <3> QED
      BY <3>1, <3>2 DEF Closes
  <2> QED
    BY <2>1 DEF IInv, OpenedOnce, Opens
<1>4. TablesKnow'
  <2>1. \A s \in transports' : Stored(s)' /\ (Known(s)' => s \in executors')
    BY QuietOpens DEF IInv, TablesKnow, Shrinks
  <2>2. \A s \in Sessions : Known(s)' => handlers'[s] # None
    BY QuietOpens DEF IInv, TablesKnow
  <2>3. \A s \in Sessions : handlers'[s] # None => Opens(handlers[s], s)'
    <3> SUFFICES ASSUME NEW s \in Sessions, handlers'[s] # None PROVE Opens(handlers[s], s)'
      OBVIOUS
    <3>1. handlers'[s] \in Requests /\ handlers'[s] = handlers[s] /\ Opens(handlers[s], s)
      BY DEF IInv, TypeOK, TablesKnow, Owners
    <3>2. acts'[handlers[s]] = acts[handlers[s]]
      BY <3>1 DEF Quiet, Opens
    <3> QED
      BY <3>1, <3>2 DEF Opens
  <2> QED
    BY <2>1, <2>2, <2>3 DEF TablesKnow, Shrinks
<1>5. NotCutOff'
  BY DEF IInv, NotCutOff, Closes, Moves
<1> QED
  BY <1>1, <1>2, <1>3, <1>4, <1>5 DEF IInv

LEMMA SameTables == ASSUME IInv, UNCHANGED tables PROVE Shrinks
  BY DEF IInv, TypeOK, TablesKnow, Shrinks, tables

LEMMA SameServers == ASSUME IInv, UNCHANGED <<transport, server, response>> PROVE Closes
  BY DEF IInv, TypeOK, Closes

(* One actor moves, and it does not open a session.                        *)
LEMMA OneMoves ==
  ASSUME IInv, NEW a \in Actors, NEW q \in Act, acts' = [acts EXCEPT ![a] = q],
         acts[a].op # "init", q.op # "init", acts[a].pc # "failed", ActKnows(a)'
  PROVE  Quiet /\ Moves
<1>1. acts \in [Actors -> Act]
  BY DEF IInv, TypeOK, Act
<1>2. \A b \in Actors : acts'[b] = IF b = a THEN q ELSE acts[b]
  BY <1>1
<1>3. Requests \subseteq Actors
  BY DEF Actors
<1>4. Quiet
  BY <1>2, <1>3 DEF Quiet
<1>5. Moves
  BY <1>1, <1>2, <1>3 DEF Moves
<1> QED
  BY <1>4, <1>5

LEMMA ActFacts ==
  ASSUME HttpAssumption, IInv, NEW a \in Actors
  PROVE  acts[a] \in Act /\ ActKnows(a) /\ Requests \subseteq Actors /\ Requests \subseteq Owners
         /\ acts \in [Actors -> Act]
  BY DEF IInv, TypeOK, Act, Actors, Owners

(* The steps of requests that neither initialize nor are stateless.        *)
LEMMA RequestKeeps ==
  ASSUME HttpAssumption, IInv, NEW r \in Requests,
         \/ Refuse(r) \/ HandleRequest(r) \/ (acts[r].op = "post" /\ Answered(r))
         \/ \E s \in Sessions : PostMessage(r, s) \/ HandleGetRequest(r, s) \/ HandleDeleteRequest(r, s)
  PROVE  IInv'
<1>1. acts[r] \in Act /\ ActKnows(r) /\ r \in Actors /\ acts \in [Actors -> Act]
  BY ActFacts DEF Actors
<1>2. UNCHANGED <<statelessMode, tables, transport, server, handlers, response>>
  BY DEF Refuse, HandleRequest, Answered, PostMessage, HandleGetRequest, HandleDeleteRequest
<1>3. /\ Shrinks /\ Closes /\ handlers' \in [Owners -> Requests \cup {None}]
      /\ \A s \in Sessions : handlers'[s] = handlers[s]
  BY <1>2, SameTables, SameServers DEF IInv, TypeOK
<1>4. SUFFICES Quiet /\ Moves
  BY <1>2, <1>3, QuietKeeps
<1>5. ASSUME NEW q \in Act, acts' = [acts EXCEPT ![r] = q],
             acts[r].pc # "failed", acts[r].op # "init", q.op # "init",
             q.pc # "idle", q.op # "none" \/ q.pc = "refused",
             q.op \in {"post", "delete"} => q.sid \in Sessions,
             q.op = "post" => /\ q.pc \in {"handling", "refused", "running", "done", "failed"}
                              /\ q.pc \in {"handling", "refused"} => q.as = None
                              /\ q.as # None => Opens(q.as, q.sid)
                              /\ Known(q.sid),
             q.op = "get" => q.pc \in {"done", "refused"},
             q.op = "delete" => q.pc \in {"deleting", "refused"},
             q.op \notin {"sweep", "stateless"}
      PROVE  Quiet /\ Moves
  <2>1. acts'[r] = q
    BY <1>1, <1>5
  <2>2. Quiet
    BY <1>1, <1>5 DEF Quiet, Actors
  <2>3. q.op = "post" => Known(q.sid)' /\ (q.as # None => Opens(q.as, q.sid)')
    <3> SUFFICES ASSUME q.op = "post" PROVE Known(q.sid)' /\ (q.as # None => Opens(q.as, q.sid)')
      OBVIOUS
    <3>1. Known(q.sid)'
      BY <1>5, <2>2, QuietOpens
    <3>2. q.as # None => q.as \in Requests
      BY <1>5 DEF Act
    <3> QED
      BY <1>5, <2>2, <3>1, <3>2, QuietOpens
  <2>4. ActKnows(r)'
    BY <1>5, <2>1, <2>3 DEF ActKnows
  <2> QED
    BY <1>1, <1>5, <2>4, OneMoves
<1>6. CASE Refuse(r)
  <2> DEFINE q == [acts[r] EXCEPT !.pc = "refused"]
  <2>1. acts' = [acts EXCEPT ![r] = q] /\ acts[r].pc = "idle" /\ acts[r].op = "none"
    BY <1>1, <1>6 DEF Refuse, Goto, ActKnows
  <2>2. q \in Act /\ q.pc = "refused" /\ q.op = "none"
    BY <1>1, <2>1 DEF Act, PCs
  <2> HIDE DEF q
  <2> QED
    BY <1>5, <2>1, <2>2
<1>7. CASE HandleRequest(r)
  <2> DEFINE s == acts[r].sid
  <2>1. /\ acts[r].op = "post" /\ acts[r].pc = "handling" /\ s \in Sessions
        /\ acts[r].as = None /\ Known(s)
    BY <1>1, <1>7 DEF HandleRequest, At, ActKnows
  <2>2. handlers[s] \in Requests \cup {None} /\ handlers[s] # None /\ Opens(handlers[s], s)
    BY <2>1 DEF IInv, TypeOK, TablesKnow, Owners
  <2>3. CASE acts' = [acts EXCEPT ![r].pc = "running", ![r].as = handlers[s]]
    <3> DEFINE q == [acts[r] EXCEPT !.pc = "running", !.as = handlers[s]]
    <3>1. acts' = [acts EXCEPT ![r] = q]
      BY <1>1, <2>3
    <3>2. /\ q \in Act /\ q.pc = "running" /\ q.op = "post"
          /\ q.sid = s /\ q.as = handlers[s]
      BY <1>1, <2>1, <2>2 DEF Act, PCs
    <3> HIDE DEF q
    <3> QED
      BY <1>5, <2>1, <2>2, <3>1, <3>2
  <2>4. CASE Goto(r, "failed")
    <3> DEFINE q == [acts[r] EXCEPT !.pc = "failed"]
    <3>1. acts' = [acts EXCEPT ![r] = q]
      BY <1>1, <2>4 DEF Goto
    <3>2. /\ q \in Act /\ q.pc = "failed" /\ q.op = "post"
          /\ q.sid = s /\ q.as = None
      BY <1>1, <2>1 DEF Act, PCs
    <3> HIDE DEF q
    <3> QED
      BY <1>5, <2>1, <3>1, <3>2
  <2> QED
    BY <1>7, <2>3, <2>4 DEF HandleRequest
<1>8. CASE acts[r].op = "post" /\ Answered(r)
  <2> DEFINE q == [acts[r] EXCEPT !.pc = "done"]
  <2>1. acts' = [acts EXCEPT ![r] = q] /\ acts[r].pc = "running"
    BY <1>1, <1>8 DEF Answered, Goto
  <2>2. /\ q \in Act /\ q.pc = "done" /\ q.op = "post"
        /\ q.sid = acts[r].sid /\ q.as = acts[r].as
    BY <1>1, <1>8 DEF Act, PCs
  <2> HIDE DEF q
  <2> QED
    BY <1>1, <1>5, <1>8, <2>1, <2>2 DEF ActKnows
<1>9. ASSUME NEW s \in Sessions, PostMessage(r, s)
      PROVE  Quiet /\ Moves
  <2>1. PICK pc \in {"handling", "refused"} :
          acts' = [acts EXCEPT ![r].pc = pc, ![r].op = "post", ![r].sid = s]
    BY <1>9 DEF PostMessage, Enter
  <2> DEFINE q == [acts[r] EXCEPT !.pc = pc, !.op = "post", !.sid = s]
  <2>2. acts' = [acts EXCEPT ![r] = q]
    BY <1>1, <2>1
  <2>3. acts[r].pc = "idle" /\ acts[r].op = "none" /\ acts[r].as = None /\ Known(s)
    BY <1>1, <1>9 DEF PostMessage, ActKnows
  <2>4. q \in Act /\ q.pc = pc /\ q.op = "post" /\ q.sid = s /\ q.as = None
    BY <1>1, <2>3 DEF Act, PCs, Ops
  <2> HIDE DEF q
  <2> QED
    BY <1>5, <2>2, <2>3, <2>4
<1>10. ASSUME NEW s \in Sessions, HandleGetRequest(r, s) \/ HandleDeleteRequest(r, s)
       PROVE  Quiet /\ Moves
  <2>1. PICK op \in {"get", "delete"}, pc \in PCs :
          /\ acts' = [acts EXCEPT ![r].pc = pc, ![r].op = op, ![r].sid = s]
          /\ op = "get" => pc \in {"done", "refused"}
          /\ op = "delete" => pc \in {"deleting", "refused"}
    BY <1>10 DEF HandleGetRequest, HandleDeleteRequest, Enter, PCs
  <2> DEFINE q == [acts[r] EXCEPT !.pc = pc, !.op = op, !.sid = s]
  <2>2. acts' = [acts EXCEPT ![r] = q]
    BY <1>1, <2>1
  <2>3. acts[r].pc = "idle" /\ acts[r].op = "none"
    BY <1>1, <1>10 DEF HandleGetRequest, HandleDeleteRequest, ActKnows
  <2>4. q \in Act /\ q.pc = pc /\ q.op = op /\ q.sid = s
    BY <1>1 DEF Act, Ops
  <2> HIDE DEF q
  <2> QED
    BY <1>5, <2>1, <2>2, <2>3, <2>4
<1> QED
  BY <1>6, <1>7, <1>8, <1>9, <1>10

Cleaning == {"deleting", "closeServer", "forget", "closing"}

(* The steps that clean up a session, for a DELETE or the sweep.           *)
LEMMA CleanupKeeps ==
  ASSUME HttpAssumption, IInv, NEW a \in Actors,
         CleanupTransport(a) \/ CleanupServer(a) \/ CleanupForget(a) \/ CleanupDone(a)
  PROVE  IInv'
<1> DEFINE s == acts[a].sid
<1>1. acts[a] \in Act /\ ActKnows(a) /\ acts \in [Actors -> Act]
  BY ActFacts
<1>2. /\ acts[a].pc \in Cleaning /\ acts[a].op \in {"delete", "sweep"}
      /\ s \in Sessions /\ s \in Owners /\ s \notin Requests
  <2>1. acts[a].pc \in Cleaning
    BY DEF CleanupTransport, CleanupServer, CleanupForget, CleanupDone, Cleaning
  <2>2. acts[a].op \in {"delete", "sweep"}
    BY <1>1, <2>1 DEF ActKnows, Act, Ops, Cleaning
  <2> QED
    BY <1>1, <2>1, <2>2 DEF ActKnows, Owners, HttpAssumption
<1>3. UNCHANGED <<statelessMode, handlers, response>>
  BY DEF CleanupTransport, CleanupServer, CleanupForget, CleanupDone
<1>4. /\ handlers' \in [Owners -> Requests \cup {None}]
      /\ \A x \in Sessions : handlers'[x] = handlers[x]
  BY <1>3 DEF IInv, TypeOK
<1>5. Quiet /\ Moves
  <2>1. PICK pc \in {"closeServer", "forget", "closing", "done", "failed"} : Goto(a, pc)
    BY DEF CleanupTransport, CleanupServer, CleanupForget, CleanupDone
  <2> DEFINE q == [acts[a] EXCEPT !.pc = pc]
  <2>2. acts' = [acts EXCEPT ![a] = q] /\ acts'[a] = q
    BY <1>1, <2>1 DEF Goto
  <2>3. /\ q \in Act /\ q.pc = pc /\ q.op = acts[a].op /\ q.sid = acts[a].sid
    BY <1>1 DEF Act, PCs
  <2> HIDE DEF q
  <2>4. ActKnows(a)'
    BY <1>1, <1>2, <2>2, <2>3 DEF ActKnows
  <2> QED
    BY <1>2, <2>2, <2>3, <2>4, OneMoves DEF Cleaning
<1>6. Shrinks
  <2>1. CASE UNCHANGED tables
    BY <2>1, SameTables
  <2>2. CASE CleanupForget(a)
    BY <2>2 DEF CleanupForget, Shrinks, IInv, TypeOK, TablesKnow
  <2> QED
    BY <2>1, <2>2 DEF CleanupTransport, CleanupServer, CleanupDone
<1>7. Closes
  <2>1. /\ transport' = transport \/ transport' = [transport EXCEPT ![s] = "closed"]
        /\ server' = server \/ server' = [server EXCEPT ![s] = "closed"]
    BY DEF CleanupTransport, CleanupServer, CleanupForget, CleanupDone
  <2>2. transport \in [Owners -> Phases] /\ server \in [Owners -> Phases]
    BY DEF IInv, TypeOK
  <2>3. transport' \in [Owners -> Phases] /\ server' \in [Owners -> Phases]
    BY <2>1, <2>2 DEF Phases
  <2>4. \A x \in Sessions : transport[x] # "none" => transport'[x] # "none"
    BY <2>1, <2>2 DEF Owners
  <2>5. \A r \in Requests : transport'[r] = transport[r]
    BY <1>2, <2>1, <2>2 DEF Owners
  <2> QED
    BY <1>3, <2>3, <2>4, <2>5 DEF Closes, IInv, TypeOK
<1> QED
  BY <1>3, <1>4, <1>5, <1>6, <1>7, QuietKeeps

LEMMA SweepKeeps ==
  ASSUME HttpAssumption, IInv, OnModuleDestroy
  PROVE  IInv'
<1>1. UNCHANGED <<statelessMode, tables, transport, server, handlers, response>>
  BY DEF OnModuleDestroy
<1>2. transports \subseteq Sessions /\ acts \in [Actors -> Act] /\ \A a \in Actors : ActKnows(a)
  BY DEF IInv, TypeOK, Act
<1>3. \A a \in Actors :
        IF a \in transports
          THEN /\ acts'[a] = [acts[a] EXCEPT !.pc = "deleting", !.op = "sweep", !.sid = a]
               /\ a \in Sessions /\ a \notin Requests
          ELSE acts'[a] = acts[a]
  BY <1>2 DEF OnModuleDestroy, HttpAssumption
<1>4. \A a \in transports :
        /\ acts'[a] \in Act /\ acts'[a].pc = "deleting" /\ acts'[a].op = "sweep"
        /\ acts'[a].sid \in Sessions
  BY <1>2, <1>3 DEF Act, PCs, Ops, Actors
<1>5. acts' \in [Actors -> Act]
  <2>1. acts' = [a \in Actors |-> acts'[a]]
    BY DEF OnModuleDestroy
  <2>2. \A a \in Actors : acts'[a] \in Act
    BY <1>2, <1>3, <1>4
  <2> QED
    BY <2>1, <2>2
<1>6. Quiet
  BY <1>3 DEF Quiet, Actors
<1>7. \A a \in transports : ActKnows(a)'
  BY <1>4 DEF ActKnows
<1>8. Moves
  BY <1>3, <1>5, <1>7 DEF Moves, Actors
<1>9. /\ handlers' \in [Owners -> Requests \cup {None}]
      /\ \A x \in Sessions : handlers'[x] = handlers[x]
  BY <1>1 DEF IInv, TypeOK
<1> QED
  BY <1>1, <1>6, <1>8, <1>9, SameTables, SameServers, QuietKeeps

(* The steps of a stateless request touch its own server only.             *)
LEMMA StatelessKeeps ==
  ASSUME HttpAssumption, IInv, NEW r \in Requests,
         \/ StatelessPost(r) \/ StatelessRegister(r) \/ StatelessHandled(r)
         \/ ResponseEnds(r) \/ StatelessCleanup(r)
  PROVE  IInv'
<1>1. /\ acts[r] \in Act /\ ActKnows(r) /\ r \in Actors /\ acts \in [Actors -> Act]
      /\ r \in Owners /\ r \notin Sessions
  BY ActFacts DEF Actors, Owners, HttpAssumption
<1>2. UNCHANGED <<statelessMode, tables>>
  BY DEF StatelessPost, StatelessRegister, StatelessHandled, ResponseEnds, StatelessCleanup
<1>3. /\ handlers' = handlers \/ handlers' = [handlers EXCEPT ![r] = r]
      /\ handlers \in [Owners -> Requests \cup {None}]
  BY DEF StatelessPost, StatelessRegister, StatelessHandled, ResponseEnds, StatelessCleanup,
         IInv, TypeOK
<1>4. /\ handlers' \in [Owners -> Requests \cup {None}]
      /\ \A x \in Sessions : handlers'[x] = handlers[x]
  BY <1>1, <1>3 DEF Owners
<1>5. /\ transport \in [Owners -> Phases] /\ server \in [Owners -> Phases]
      /\ response \in [Requests -> {"open", "finished", "aborted"}]
  BY DEF IInv, TypeOK
<1>6. ASSUME NEW q \in Act, acts' = [acts EXCEPT ![r] = q],
             acts[r].pc # "failed", acts[r].op \in {"none", "stateless"}, q.op = "stateless",
             q.pc \in {"resolving", "handling", "listening", "closeOwn", "done", "failed"},
             q.pc \in {"closeOwn", "done"} => response'[r] # "open"
      PROVE  Quiet /\ Moves
  <2>1. acts'[r] = q
    BY <1>1, <1>6
  <2>2. ActKnows(r)'
    BY <1>6, <2>1 DEF ActKnows
  <2> QED
    BY <1>1, <1>6, <2>2, OneMoves
<1>7. ASSUME NEW pc \in PCs, acts' = [acts EXCEPT ![r].pc = pc],
             acts[r].pc # "failed", acts[r].op = "stateless",
             pc \in {"resolving", "handling", "listening", "closeOwn", "done", "failed"},
             pc \in {"closeOwn", "done"} => response'[r] # "open"
      PROVE  Quiet /\ Moves
  <2> DEFINE q == [acts[r] EXCEPT !.pc = pc]
  <2>1. acts' = [acts EXCEPT ![r] = q]
    BY <1>1, <1>7
  <2>2. q \in Act /\ q.pc = pc /\ q.op = "stateless"
    BY <1>1, <1>7 DEF Act
  <2> HIDE DEF q
  <2> QED
    BY <1>6, <1>7, <2>1, <2>2
<1>8. ASSUME transport' = transport \/ transport' = [transport EXCEPT ![r] = "open"]
               \/ (/\ transport' = [transport EXCEPT ![r] = "closed"]
                   /\ response'[r] # "open" \/ acts'[r].pc = "failed"),
             server' = server \/ \E x \in Phases : server' = [server EXCEPT ![r] = x],
             \/ response' = response
             \/ \E x \in {"finished", "aborted"} : response' = [response EXCEPT ![r] = x]
      PROVE  Closes
  <2>1. transport' \in [Owners -> Phases] /\ server' \in [Owners -> Phases]
    BY <1>5, <1>8 DEF Phases
  <2>2. \A x \in Sessions : transport'[x] = transport[x]
    BY <1>1, <1>5, <1>8 DEF Owners
  <2>3. response' \in [Requests -> {"open", "finished", "aborted"}]
    BY <1>5, <1>8
  <2>4. \A x \in Requests : response[x] # "open" => response'[x] # "open"
    BY <1>5, <1>8
  <2>5. \A x \in Requests : transport'[x] = "closed" =>
          transport[x] = "closed" \/ response'[x] # "open" \/ acts'[x].pc = "failed"
    BY <1>1, <1>5, <1>8 DEF Owners
  <2> QED
    BY <2>1, <2>2, <2>3, <2>4, <2>5 DEF Closes
<1>9. (Quiet /\ Moves) /\ Closes
  <2>1. CASE StatelessPost(r)
    <3> DEFINE q == [acts[r] EXCEPT !.pc = "resolving", !.op = "stateless", !.sid = None]
    <3>1. acts' = [acts EXCEPT ![r] = q] /\ acts[r].pc = "idle" /\ acts[r].op = "none"
      BY <1>1, <2>1 DEF StatelessPost, Enter, ActKnows
    <3>2. q \in Act /\ q.pc = "resolving" /\ q.op = "stateless"
      BY <1>1 DEF Act, PCs, Ops
    <3> HIDE DEF q
    <3>3. Quiet /\ Moves
      BY <1>6, <3>1, <3>2
    <3>4. Closes
      BY <1>8, <2>1 DEF StatelessPost, Phases
    <3> QED
      BY <3>3, <3>4
  <2>2. CASE StatelessRegister(r)
    <3>1. acts[r].op = "stateless" /\ acts[r].pc = "resolving" /\ UNCHANGED <<transport, server, response>>
      BY <2>2 DEF StatelessRegister, At
    <3>2. \E pc \in {"handling", "failed"} : acts' = [acts EXCEPT ![r].pc = pc]
      BY <2>2 DEF StatelessRegister, Goto
    <3> QED
      BY <1>7, <3>1, <3>2, SameServers DEF PCs
  <2>3. CASE StatelessHandled(r)
    <3>1. acts[r].op = "stateless" /\ acts[r].pc = "handling" /\ UNCHANGED response
      BY <2>3 DEF StatelessHandled, At
    <3>2. CASE Goto(r, "listening") /\ UNCHANGED <<transport, server>>
      BY <1>7, <3>1, <3>2, SameServers DEF PCs, Goto
    <3>3. CASE /\ Goto(r, "failed")
               /\ transport' = [transport EXCEPT ![r] = "closed"]
               /\ server' = [server EXCEPT ![r] = "closed"]
      <4>1. Quiet /\ Moves
        BY <1>7, <3>1, <3>3 DEF PCs, Goto
      <4>2. acts'[r].pc = "failed"
        BY <1>1, <3>3 DEF Goto, Act
      <4> QED
        BY <1>8, <3>1, <3>3, <4>1, <4>2 DEF Phases
    <3> QED
      BY <2>3, <3>2, <3>3 DEF StatelessHandled
  <2>4. CASE ResponseEnds(r)
    <3>1. PICK end \in {"finished", "aborted"} :
            /\ response' = [response EXCEPT ![r] = end]
            /\ IF acts[r].pc = "listening" /\ end = "finished"
                 THEN Goto(r, "closeOwn") ELSE UNCHANGED acts
      BY <2>4 DEF ResponseEnds
    <3>2. /\ acts[r].op = "stateless" /\ acts[r].pc \in {"handling", "listening"}
          /\ UNCHANGED <<transport, server>> /\ response'[r] # "open"
      BY <1>5, <2>4, <3>1 DEF ResponseEnds
    <3>3. Closes
      BY <1>8, <3>1, <3>2
    <3>4. CASE Goto(r, "closeOwn")
      BY <1>7, <3>2, <3>3, <3>4 DEF Goto, PCs
    <3>5. CASE UNCHANGED acts
      BY <1>1, <3>3, <3>5 DEF Quiet, Moves
    <3> QED
      BY <3>1, <3>4, <3>5
  <2>5. CASE StatelessCleanup(r)
    <3>1. /\ acts[r].op = "stateless" /\ acts[r].pc = "closeOwn" /\ UNCHANGED response
          /\ response[r] # "open"
      BY <1>1, <2>5 DEF StatelessCleanup, At, ActKnows
    <3>2. Quiet /\ Moves
      BY <1>7, <2>5, <3>1 DEF StatelessCleanup, Goto, PCs
    <3>3. Closes
      BY <1>8, <2>5, <3>1 DEF StatelessCleanup, Phases
    <3> QED
      BY <3>2, <3>3
  <2> QED
    BY <2>1, <2>2, <2>3, <2>4, <2>5
<1> QED
  BY <1>2, <1>4, <1>9, SameTables, QuietKeeps

-----------------------------------------------------------------------------
(* A request that opens a session, or goes on opening it, as q.            *)
Opening(r, q) ==
  /\ q \in Act /\ acts' = [acts EXCEPT ![r] = q]
  /\ q.op = "init" /\ q.sid \in Sessions
  /\ q.pc \in {"connecting", "resolving", "running", "done", "failed"}
  /\ \/ /\ acts[r].op = "init" /\ acts[r].sid = q.sid /\ acts[r].pc # "failed"
        /\ acts[r].pc \in {"running", "done"} => q.pc \in {"running", "done"}
        /\ q.pc # "connecting"
        /\ UNCHANGED transport
     \/ /\ acts[r].op = "none" /\ acts[r].pc = "idle" /\ q.pc = "connecting"
        /\ transport[q.sid] = "none" /\ transport' = [transport EXCEPT ![q.sid] = "open"]
  /\ UNCHANGED <<statelessMode, response>>

LEMMA OpeningOpens ==
  ASSUME HttpAssumption, IInv, NEW r \in Requests, NEW q, Opening(r, q)
  PROVE  /\ \A s : Stored(s) => Stored(s)'
         /\ q.pc # "connecting" => \A s : s = q.sid => Stored(s)'
         /\ \A s : Known(s)' <=> Known(s) \/ (s = q.sid /\ q.pc \in {"running", "done"})
         /\ \A b \in Requests : acts[b].op = "init" =>
              acts'[b].op = "init" /\ acts'[b].sid = acts[b].sid
<1>1. \A b \in Requests : acts'[b] = IF b = r THEN q ELSE acts[b]
  BY DEF Opening, IInv, TypeOK, Actors
<1>2. \A b \in Requests : acts[b].op = "init" =>
        acts'[b].op = "init" /\ acts'[b].sid = acts[b].sid
  BY <1>1 DEF Opening
<1>3. \A s : Stored(s) => Stored(s)'
  <2> SUFFICES ASSUME NEW s, Stored(s) PROVE Stored(s)'
    OBVIOUS
  <2>1. PICK b \in Requests : acts[b].op = "init" /\ acts[b].sid = s /\ acts[b].pc \in PCs \ {"connecting"}
    BY DEF Stored, Opened
  <2>2. acts'[b].op = "init" /\ acts'[b].sid = s /\ acts'[b].pc \in PCs \ {"connecting"}
    BY <1>1, <2>1 DEF Opening, Act
  <2> QED
    BY <2>2 DEF Stored, Opened
<1>4. q.pc # "connecting" => Stored(q.sid)'
  <2>1. acts'[r] = q /\ q.op = "init" /\ q.pc \in PCs
    BY <1>1 DEF Opening, Act
  <2> QED
    BY <2>1 DEF Stored, Opened
<1>5. \A s : Known(s) => Known(s)'
  <2> SUFFICES ASSUME NEW s, Known(s) PROVE Known(s)'
    OBVIOUS
  <2>1. PICK b \in Requests : acts[b].op = "init" /\ acts[b].sid = s /\ acts[b].pc \in {"running", "done"}
    BY DEF Known, Opened
  <2>2. acts'[b].op = "init" /\ acts'[b].sid = s /\ acts'[b].pc \in {"running", "done"}
    BY <1>1, <2>1 DEF Opening
  <2> QED
    BY <2>2 DEF Known, Opened
<1>6. \A s : Known(s)' => Known(s) \/ (s = q.sid /\ q.pc \in {"running", "done"})
  BY <1>1 DEF Known, Opened
<1>7. q.pc \in {"running", "done"} => Known(q.sid)'
  <2>1. acts'[r] = q /\ q.op = "init"
    BY <1>1 DEF Opening
  <2> QED
    BY <2>1 DEF Known, Opened
<1> QED
  BY <1>2, <1>3, <1>4, <1>5, <1>6, <1>7

LEMMA OpeningHandlers ==
  ASSUME HttpAssumption, IInv, NEW r \in Requests, NEW q, Opening(r, q), UNCHANGED handlers
  PROVE  \A x \in Sessions : handlers'[x] # None => Opens(handlers[x], x)'
<1> SUFFICES ASSUME NEW x \in Sessions, handlers'[x] # None PROVE Opens(handlers[x], x)'
  OBVIOUS
<1>1. handlers'[x] = handlers[x] /\ handlers[x] \in Requests /\ Opens(handlers[x], x)
  BY DEF IInv, TypeOK, TablesKnow, Owners
<1>2. acts'[handlers[x]].op = "init" /\ acts'[handlers[x]].sid = x
  BY <1>1, OpeningOpens DEF Opens
<1> QED
  BY <1>1, <1>2 DEF Opens

LEMMA OpeningKeeps ==
  ASSUME HttpAssumption, IInv, NEW r \in Requests, NEW q, Opening(r, q),
         TablesKnow', transports' \subseteq Sessions, executors' \subseteq Sessions,
         server' \in [Owners -> Phases], handlers' \in [Owners -> Requests \cup {None}]
  PROVE  IInv'
<1>1. /\ acts \in [Actors -> Act] /\ r \in Actors /\ transport \in [Owners -> Phases]
      /\ q \in Act /\ acts' = [acts EXCEPT ![r] = q]
      /\ \A a \in Actors : acts'[a] = IF a = r THEN q ELSE acts[a]
  BY DEF IInv, TypeOK, Act, Actors, Opening
<1>2. acts' \in [Actors -> Act]
  BY <1>1
<1>3. transport' \in [Owners -> Phases]
  BY <1>1 DEF Opening, Phases
<1>4. TypeOK'
  BY <1>2, <1>3 DEF IInv, TypeOK, Act, Opening, TablesKnow
<1>5. ASSUME NEW a \in Actors PROVE ActKnows(a)'
  <2>1. CASE a = r
    <3>1. acts'[a] = q
      BY <1>1, <2>1
    <3> QED
      BY <2>1, <3>1 DEF ActKnows, Opening
  <2>2. CASE a # r
    <3>1. acts'[a] = acts[a] /\ ActKnows(a) /\ acts[a] \in Act /\ UNCHANGED response
      BY <1>1, <2>2 DEF IInv, Opening
    <3>2. acts[a].op = "post" => Known(acts[a].sid)'
      <4> DEFINE s == acts[a].sid
      <4>1. acts[a].op = "post" => \E b \in Requests :
              acts'[b].op = "init" /\ acts'[b].sid = s /\ acts'[b].pc \in {"running", "done"}
        <5> SUFFICES ASSUME acts[a].op = "post"
                     PROVE  \E b \in Requests : /\ acts'[b].op = "init" /\ acts'[b].sid = s
                                               /\ acts'[b].pc \in {"running", "done"}
          OBVIOUS
        <5>1. PICK b \in Requests : /\ acts[b].op = "init" /\ acts[b].sid = s
                                   /\ acts[b].pc \in {"running", "done"}
          BY <3>1 DEF ActKnows, Known, Opened
        <5>2. acts'[b].op = "init" /\ acts'[b].sid = s /\ acts'[b].pc \in {"running", "done"}
          BY <1>1, <5>1 DEF Opening, Actors
        <5> QED
          BY <5>2
      <4> QED
        BY <3>1, <4>1 DEF Known, Opened
    <3>3. acts[a].op = "post" /\ acts[a].as # None => Opens(acts[a].as, acts[a].sid)'
      <4> SUFFICES ASSUME acts[a].op = "post", acts[a].as # None
                   PROVE  Opens(acts[a].as, acts[a].sid)'
        OBVIOUS
      <4>1. acts[a].as \in Requests /\ Opens(acts[a].as, acts[a].sid)
        BY <3>1 DEF ActKnows, Act
      <4>2. acts'[acts[a].as].op = "init" /\ acts'[acts[a].as].sid = acts[a].sid
        BY <1>1, <4>1 DEF Opening, Opens, Actors
      <4> QED
        BY <3>1, <4>2 DEF Opens
    <3> QED
      BY <3>1, <3>2, <3>3 DEF ActKnows
  <2> QED
    BY <2>1, <2>2
<1>6. OpenedOnce'
  <2>1. \A b \in Requests : acts'[b].op = "init" =>
          /\ b # r => /\ acts[b].op = "init" /\ acts'[b].sid = acts[b].sid
                     /\ transport[acts[b].sid] # "none" /\ acts[b].sid \in Owners
          /\ b = r => acts'[b].sid = q.sid
    BY <1>1 DEF IInv, OpenedOnce, ActKnows, Actors, Owners
  <2>2. q.sid \in Owners
    BY DEF Opening, Owners
  <2>3. CASE acts[r].op = "init" /\ acts[r].sid = q.sid /\ UNCHANGED transport
    <3>1. \A b \in Requests : acts'[b].op = "init" =>
            acts[b].op = "init" /\ acts'[b].sid = acts[b].sid
      BY <2>1, <2>3
    <3> QED
      BY <2>3, <3>1 DEF IInv, OpenedOnce, Opens
  <2>4. CASE transport[q.sid] = "none" /\ transport' = [transport EXCEPT ![q.sid] = "open"]
    <3>1. \A b \in Requests \ {r} : acts'[b].op = "init" =>
            /\ acts[b].op = "init" /\ acts'[b].sid = acts[b].sid /\ acts[b].sid # q.sid
            /\ transport'[acts[b].sid] # "none"
      BY <1>1, <2>1, <2>4
    <3>2. transport'[q.sid] # "none"
      BY <1>1, <2>2, <2>4
    <3> QED
      BY <2>1, <3>1, <3>2 DEF IInv, OpenedOnce, Opens
  <2> QED
    BY <2>3, <2>4 DEF Opening
<1>7. NotCutOff'
  <2>1. \A x \in Requests : transport'[x] = "closed" => transport[x] = "closed"
    BY <1>1 DEF Opening, Owners
  <2>2. \A x \in Requests : acts[x].pc = "failed" => acts'[x].pc = "failed"
    BY <1>1 DEF Opening, Actors
  <2> QED
    BY <2>1, <2>2 DEF IInv, NotCutOff, Opening
<1> QED
  BY <1>4, <1>5, <1>6, <1>7 DEF IInv

LEMMA InitializeKeeps ==
  ASSUME HttpAssumption, IInv, NEW r \in Requests,
         \/ \E s \in Sessions : PostInitialize(r, s)
         \/ SessionInitialized(r) \/ RegisterExecutor(r) \/ ResolveFails(r)
         \/ (acts[r].op = "init" /\ Answered(r))
  PROVE  IInv'
<1>1. /\ acts[r] \in Act /\ ActKnows(r) /\ r \in Actors /\ acts \in [Actors -> Act]
      /\ handlers \in [Owners -> Requests \cup {None}] /\ server \in [Owners -> Phases]
      /\ transports \subseteq Sessions /\ executors \subseteq Sessions /\ Sessions \subseteq Owners
  BY ActFacts DEF Actors, IInv, TypeOK, Owners
<1>2. TablesKnow /\ OpenedOnce
  BY DEF IInv
<1>3. ASSUME NEW s \in Sessions, PostInitialize(r, s)
      PROVE  IInv'
  <2> DEFINE q == [acts[r] EXCEPT !.pc = "connecting", !.op = "init", !.sid = s]
  <2>1. q \in Act /\ q.pc = "connecting" /\ q.op = "init" /\ q.sid = s
    BY <1>1 DEF Act, PCs, Ops
  <2>2. Opening(r, q)
    <3>1. acts' = [acts EXCEPT ![r] = q] /\ acts[r].pc = "idle" /\ acts[r].op = "none"
      BY <1>1, <1>3 DEF PostInitialize, Enter, ActKnows
    <3> HIDE DEF q
    <3> QED
      BY <1>3, <2>1, <3>1 DEF PostInitialize, Opening
  <2> HIDE DEF q
  <2>3. UNCHANGED <<tables, handlers>> /\ server' \in [Owners -> Phases]
    BY <1>1, <1>3 DEF PostInitialize, Phases
  <2>4. TablesKnow'
    <3>1. \A x : (Known(x)' <=> Known(x)) /\ (Stored(x) => Stored(x)')
      BY <2>1, <2>2, OpeningOpens
    <3>3. \A x \in Sessions : handlers'[x] # None => Opens(handlers[x], x)'
      BY <2>2, <2>3, OpeningHandlers
    <3> QED
      BY <1>2, <2>3, <3>1, <3>3 DEF TablesKnow, tables
  <2> QED
    BY <1>1, <2>2, <2>3, <2>4, OpeningKeeps DEF tables
<1>4. CASE SessionInitialized(r)
  <2> DEFINE q == [acts[r] EXCEPT !.pc = "resolving"]
  <2>1. /\ acts[r].op = "init" /\ acts[r].pc = "connecting" /\ acts[r].sid \in Sessions
        /\ acts' = [acts EXCEPT ![r] = q]
        /\ transports' = transports \cup {acts[r].sid}
        /\ mcpServers' = mcpServers \cup {acts[r].sid}
        /\ UNCHANGED <<statelessMode, executors, transport, server, handlers, response>>
    BY <1>1, <1>4 DEF SessionInitialized, At, Goto, ActKnows
  <2>2. q \in Act /\ q.pc = "resolving" /\ q.op = "init" /\ q.sid = acts[r].sid
    BY <1>1, <2>1 DEF Act, PCs
  <2> HIDE DEF q
  <2>3. Opening(r, q)
    BY <2>1, <2>2 DEF Opening
  <2>4. ~Known(q.sid)
    <3>1. \A b \in Requests : acts[b].op = "init" /\ acts[b].sid = q.sid => b = r
      BY <1>2, <2>1, <2>2 DEF OpenedOnce, Opens
    <3> QED
      BY <2>1, <3>1 DEF Known, Opened
  <2>5. TablesKnow'
    <3>1. \A x : /\ (Known(x)' <=> Known(x)) /\ (Stored(x) => Stored(x)')
                 /\ x = acts[r].sid => Stored(x)'
      BY <2>2, <2>3, OpeningOpens
    <3>3. \A x \in Sessions : handlers'[x] # None => Opens(handlers[x], x)'
      BY <2>3, <2>1, OpeningHandlers
    <3>2. \A x : Known(x)' => Known(x) /\ x # acts[r].sid
      <4>1. \A x : Known(x)' => Known(x)
        BY <3>1
      <4>2. \A x : x = acts[r].sid => ~Known(x)
        BY <2>2, <2>4
      <4> QED
        BY <4>1, <4>2
    <3>4. \A x \in transports' : Stored(x)' /\ (Known(x)' => x \in executors')
      <4> SUFFICES ASSUME NEW x \in transports'
                   PROVE  Stored(x)' /\ (Known(x)' => x \in executors')
        OBVIOUS
      <4>1. CASE x = acts[r].sid
        <5>1. Stored(x)'
          BY <3>1, <4>1
        <5>2. ~Known(x)'
          BY <3>2, <4>1
        <5> QED
          BY <5>1, <5>2
      <4>2. CASE x # acts[r].sid
        <5>1. Stored(x) /\ (Known(x) => x \in executors)
          BY <1>2, <2>1, <4>2 DEF TablesKnow
        <5>2. Stored(x)'
          BY <3>1, <5>1
        <5>3. Known(x)' => x \in executors
          BY <3>2, <5>1
        <5> QED
          BY <2>1, <5>2, <5>3
      <4> QED
        BY <4>1, <4>2
    <3>5. \A x \in Sessions : Known(x)' => handlers'[x] # None
      <4>1. \A x \in Sessions : Known(x) => handlers[x] # None
        BY <1>2 DEF TablesKnow
      <4>2. handlers' = handlers
        BY <2>1
      <4> QED
        BY <3>2, <4>1, <4>2
    <3> QED
      BY <1>2, <2>1, <3>3, <3>4, <3>5 DEF TablesKnow
  <2> QED
    BY <1>1, <2>1, <2>3, <2>5, OpeningKeeps
<1>5. CASE RegisterExecutor(r)
  <2> DEFINE s == acts[r].sid
             q == [acts[r] EXCEPT !.pc = "running", !.as = r]
  <2>1. /\ acts[r].op = "init" /\ acts[r].pc = "resolving" /\ s \in Sessions
        /\ executors' = executors \cup {s} /\ handlers' = [handlers EXCEPT ![s] = r]
        /\ UNCHANGED <<statelessMode, transports, mcpServers, transport, server, response>>
    BY <1>1, <1>5 DEF RegisterExecutor, At, ActKnows
  <2>2. handlers'[s] = r /\ handlers' \in [Owners -> Requests \cup {None}]
    BY <1>1, <2>1
  <2>3. acts' = [acts EXCEPT ![r] = q]
    BY <1>1, <1>5, <2>2 DEF RegisterExecutor
  <2>4. q \in Act /\ q.pc = "running" /\ q.op = "init" /\ q.sid = s
    BY <1>1, <2>1 DEF Act, PCs
  <2> HIDE DEF q
  <2>5. Opening(r, q)
    BY <2>1, <2>3, <2>4 DEF Opening
  <2>6. TablesKnow'
    <3>1. \A x : (Known(x)' <=> Known(x) \/ x = s) /\ (Stored(x) => Stored(x)')
      BY <2>4, <2>5, OpeningOpens
    <3>4. \A x \in Sessions : handlers'[x] = IF x = s THEN r ELSE handlers[x]
      BY <1>1, <2>1
    <3>6. \A x \in Sessions : Known(x)' => handlers'[x] # None
      BY <1>2, <3>1, <3>4 DEF TablesKnow, HttpAssumption
    <3>7. \A x \in transports' : Stored(x)' /\ (Known(x)' => x \in executors')
      BY <1>2, <2>1, <3>1 DEF TablesKnow
    <3>8. ASSUME NEW x \in Sessions, handlers'[x] # None PROVE Opens(handlers[x], x)'
      <4>1. CASE x = s
        <5>1. handlers'[x] = r /\ acts'[r].op = "init" /\ acts'[r].sid = x
          BY <2>2, <2>3, <2>4, <1>1, <4>1
        <5> QED
          BY <5>1 DEF Opens
      <4>2. CASE x # s
        <5>1. handlers'[x] = handlers[x] /\ handlers[x] \in Requests /\ Opens(handlers[x], x)
          BY <1>1, <1>2, <3>4, <3>8, <4>2 DEF TablesKnow
        <5>2. acts'[handlers[x]].op = "init" /\ acts'[handlers[x]].sid = x
          BY <1>1, <2>1, <2>3, <2>4, <5>1 DEF Opens, Actors
        <5> QED
          BY <5>1, <5>2 DEF Opens
      <4> QED
        BY <4>1, <4>2
    <3> QED
      BY <1>2, <2>1, <3>6, <3>7, <3>8 DEF TablesKnow
  <2> QED
    BY <1>1, <2>1, <2>2, <2>5, <2>6, OpeningKeeps
<1>6. CASE ResolveFails(r) \/ (acts[r].op = "init" /\ Answered(r))
  <2>1. PICK pc \in {"failed", "done"} :
          /\ acts' = [acts EXCEPT ![r].pc = pc] /\ acts[r].op = "init"
          /\ acts[r].pc \in {"resolving", "running"}
          /\ acts[r].pc = "running" => pc = "done"
          /\ acts[r].pc = "resolving" => pc = "failed"
    BY <1>6 DEF ResolveFails, Answered, At, Goto
  <2> DEFINE q == [acts[r] EXCEPT !.pc = pc]
  <2>2. acts' = [acts EXCEPT ![r] = q]
    BY <1>1, <2>1
  <2>3. q \in Act /\ q.pc = pc /\ q.op = "init" /\ q.sid = acts[r].sid /\ q.sid \in Sessions
    BY <1>1, <2>1 DEF Act, PCs, ActKnows
  <2> HIDE DEF q
  <2>4. UNCHANGED <<statelessMode, tables, transport, server, handlers, response>>
    BY <1>6 DEF ResolveFails, Answered
  <2>5. Opening(r, q)
    BY <2>1, <2>2, <2>3, <2>4 DEF Opening
  <2>6. acts[r].pc = "running" => Known(q.sid)
    BY <2>1, <2>3 DEF Known, Opened
  <2>7. TablesKnow'
    <3>1. \A x : (Known(x)' <=> Known(x)) /\ (Stored(x) => Stored(x)')
      BY <2>1, <2>3, <2>5, <2>6, OpeningOpens
    <3>3. \A x \in Sessions : handlers'[x] # None => Opens(handlers[x], x)'
      BY <2>5, <2>4, OpeningHandlers
    <3> QED
      BY <1>2, <2>4, <3>1, <3>3 DEF TablesKnow, tables
  <2> QED
    BY <1>1, <2>4, <2>5, <2>7, OpeningKeeps DEF tables
<1> QED
  BY <1>3, <1>4, <1>5, <1>6

LEMMA NextOK == ASSUME HttpAssumption, IInv, [Next]_vars PROVE IInv'
<1>1. ASSUME NEW r \in Requests, Answered(r) PROVE IInv'
  <2>1. acts[r].op = "init" \/ acts[r].op = "post"
    BY <1>1 DEF Answered
  <2> QED
    BY <1>1, <2>1, RequestKeeps, InitializeKeeps
<1>2. CASE UNCHANGED vars
  BY <1>2 DEF vars, tables, IInv, TypeOK, ActKnows, Known, Stored, Opened, Opens, OpenedOnce,
              TablesKnow, NotCutOff
<1> QED
  BY <1>1, <1>2, RequestKeeps, InitializeKeeps, StatelessKeeps, CleanupKeeps, SweepKeeps DEF Next
-----------------------------------------------------------------------------
(* What McpSession sees of the state.                                      *)
Phase == [s \in Sessions |-> IF s \in transports THEN "live"
                             ELSE IF Stored(s) THEN "over" ELSE "none"]
OpenerOf == [s \in Sessions |-> IF Stored(s) THEN Opener(s) ELSE None]
Accepted == [r \in Requests |-> IF acts[r].op = "post" /\ acts[r].pc # "refused"
                                THEN acts[r].sid ELSE None]
RanAs == [r \in Requests |-> IF acts[r].op = "post" THEN acts[r].as ELSE None]
Seen == <<Phase, OpenerOf, Accepted, RanAs>>

StoredBy(r, s) == Opens(r, s) /\ acts[r].pc # "connecting"

LEMMA StoredIsBySomeone ==
  ASSUME HttpAssumption, IInv, NEW s \in Sessions
  PROVE  Stored(s) <=> \E r \in Requests : StoredBy(r, s)
<1>1. \A r \in Requests : acts[r].pc \in PCs
  BY ActFacts DEF Act, Actors
<1> QED
  BY <1>1 DEF Stored, Opened, StoredBy, Opens

LEMMA OpenerIs ==
  ASSUME OpenedOnce, NEW r \in Requests, NEW s, Opens(r, s)
  PROVE  Opener(s) = r
<1>1. \A q \in Requests : acts[q].op = "init" /\ acts[q].sid = s => q = r
  BY DEF OpenedOnce, Opens
<1> QED
  BY <1>1 DEF Opener, Opens

LEMMA OpenerStays ==
  ASSUME OpenedOnce', NEW r \in Requests, NEW s, acts'[r].op = "init", acts'[r].sid = s
  PROVE  Opener(s)' = r
<1>1. \A q \in Requests : acts'[q].op = "init" /\ acts'[q].sid = s => q = r
  BY DEF OpenedOnce, Opens
<1> QED
  BY <1>1 DEF Opener

(* The same sessions are stored by the same requests.                      *)
SameStored == \A r \in Requests, s \in Sessions : StoredBy(r, s)' <=> StoredBy(r, s)

(* The same messages are accepted and have run.                            *)
SamePosts ==
  \A r \in Requests : acts[r].op = "post" \/ acts'[r].op = "post" =>
    /\ acts[r].op # "post" => acts'[r].pc = "refused" /\ acts'[r].as = None
    /\ acts[r].op = "post" => /\ acts'[r].op = "post" /\ acts'[r].sid = acts[r].sid
                              /\ acts'[r].as = acts[r].as
                              /\ (acts'[r].pc = "refused") <=> (acts[r].pc = "refused")

LEMMA SameStoredSeen ==
  ASSUME HttpAssumption, IInv, IInv', SameStored, UNCHANGED transports
  PROVE  UNCHANGED <<Phase, OpenerOf>>
<1>1. ASSUME NEW s \in Sessions
      PROVE  /\ Stored(s)' <=> Stored(s)
             /\ Stored(s) => Opener(s)' = Opener(s)
  <2>1. Stored(s) <=> \E r \in Requests : StoredBy(r, s)
    BY StoredIsBySomeone
  <2>2. Stored(s)' <=> \E r \in Requests : StoredBy(r, s)'
    <3>1. \A r \in Requests : acts'[r].pc \in PCs
      BY DEF IInv, TypeOK, Actors
    <3> QED
      BY <3>1 DEF Stored, Opened, StoredBy, Opens
  <2>3. ASSUME NEW r \in Requests, StoredBy(r, s) PROVE Opener(s)' = Opener(s)
    <3>1. Opener(s) = r
      BY <2>3, OpenerIs DEF StoredBy, IInv
    <3>2. acts'[r].op = "init" /\ acts'[r].sid = s
      BY <2>3 DEF SameStored, StoredBy, Opens
    <3>3. Opener(s)' = r
      BY <3>2, OpenerStays DEF IInv
    <3> QED
      BY <3>1, <3>3
  <2> QED
    BY <2>1, <2>2, <2>3 DEF SameStored
<1>2. Phase' = Phase
  BY <1>1 DEF Phase
<1>3. OpenerOf' = OpenerOf
  BY <1>1 DEF OpenerOf
<1> QED
  BY <1>2, <1>3

LEMMA SamePostsSeen == ASSUME SamePosts PROVE UNCHANGED <<Accepted, RanAs>>
<1> SUFFICES ASSUME NEW r \in Requests
             PROVE  /\ (IF acts'[r].op = "post" /\ acts'[r].pc # "refused"
                          THEN acts'[r].sid ELSE None)
                       = (IF acts[r].op = "post" /\ acts[r].pc # "refused"
                            THEN acts[r].sid ELSE None)
                    /\ (IF acts'[r].op = "post" THEN acts'[r].as ELSE None)
                       = (IF acts[r].op = "post" THEN acts[r].as ELSE None)
  BY DEF Accepted, RanAs
<1>1. CASE acts[r].op = "post"
  BY <1>1 DEF SamePosts
<1>2. CASE acts[r].op # "post"
  BY <1>2 DEF SamePosts
<1> QED
  BY <1>1, <1>2

LEMMA Stutters ==
  ASSUME HttpAssumption, IInv, IInv', SameStored, SamePosts, UNCHANGED transports
  PROVE  UNCHANGED Seen
  BY SameStoredSeen, SamePostsSeen DEF Seen

LEMMA QuietStores == ASSUME Quiet PROVE SameStored
  BY DEF Quiet, SameStored, StoredBy, Opens

(* One actor moves, and is not seen to.                                    *)
LEMMA OneStutters ==
  ASSUME HttpAssumption, IInv, IInv', NEW a \in Actors, NEW q, acts' = [acts EXCEPT ![a] = q],
         UNCHANGED transports,
         acts[a].op = "init" \/ q.op = "init" =>
           \/ (acts[a].op # "init" /\ q.pc = "connecting")
           \/ /\ acts[a].op = "init" /\ acts[a].pc # "connecting"
              /\ q.op = "init" /\ q.sid = acts[a].sid /\ q.pc # "connecting",
         acts[a].op = "post" \/ q.op = "post" =>
           /\ acts[a].op # "post" => q.pc = "refused" /\ q.as = None
           /\ acts[a].op = "post" => /\ q.op = "post" /\ q.sid = acts[a].sid /\ q.as = acts[a].as
                                     /\ (q.pc = "refused") <=> (acts[a].pc = "refused")
  PROVE  UNCHANGED Seen
<1>1. \A r \in Requests : acts'[r] = IF r = a THEN q ELSE acts[r]
  BY DEF IInv, TypeOK, Actors
<1>2. SameStored
  BY <1>1 DEF SameStored, StoredBy, Opens
<1>3. SamePosts
  BY <1>1 DEF SamePosts
<1> QED
  BY <1>2, <1>3, Stutters

LEMMA PcStutters ==
  ASSUME HttpAssumption, IInv, IInv', NEW a \in Actors, NEW pc, Goto(a, pc), UNCHANGED transports,
         acts[a].op = "init" => acts[a].pc # "connecting" /\ pc # "connecting",
         acts[a].op = "post" => (pc = "refused") <=> (acts[a].pc = "refused")
  PROVE  UNCHANGED Seen
<1> DEFINE q == [acts[a] EXCEPT !.pc = pc]
<1>1. acts[a] \in Act /\ acts \in [Actors -> Act]
  BY ActFacts
<1>2. acts' = [acts EXCEPT ![a] = q]
  BY <1>1 DEF Goto
<1>3. q.pc = pc /\ q.op = acts[a].op /\ q.sid = acts[a].sid /\ q.as = acts[a].as
  BY <1>1 DEF Act
<1> HIDE DEF q
<1> QED
  BY <1>2, <1>3, OneStutters

LEMMA EnterStutters ==
  ASSUME HttpAssumption, IInv, IInv', NEW r \in Requests, NEW op, NEW s, NEW pc,
         Enter(r, op, s, pc), acts[r].pc = "idle", UNCHANGED transports,
         op = "init" => pc = "connecting", op = "post" => pc = "refused"
  PROVE  UNCHANGED Seen
<1> DEFINE q == [acts[r] EXCEPT !.pc = pc, !.op = op, !.sid = s]
<1>1. acts[r] \in Act /\ acts \in [Actors -> Act] /\ r \in Actors
  BY ActFacts DEF Actors
<1>2. acts' = [acts EXCEPT ![r] = q]
  BY <1>1 DEF Enter
<1>3. q.pc = pc /\ q.op = op /\ q.as = None /\ acts[r].op = "none"
  BY <1>1, ActFacts DEF Act, ActKnows
<1> HIDE DEF q
<1> QED
  BY <1>1, <1>2, <1>3, OneStutters

LEMMA RequestsUnseen ==
  ASSUME HttpAssumption, IInv, IInv', NEW r \in Requests,
         \/ Refuse(r) \/ ResolveFails(r) \/ Answered(r)
         \/ StatelessPost(r) \/ StatelessRegister(r) \/ StatelessHandled(r)
         \/ ResponseEnds(r) \/ StatelessCleanup(r)
         \/ \E s \in Sessions : \/ PostInitialize(r, s) \/ HandleGetRequest(r, s)
                                \/ HandleDeleteRequest(r, s)
  PROVE  UNCHANGED Seen
<1>1. acts[r] \in Act /\ ActKnows(r) /\ r \in Actors
  BY ActFacts DEF Actors
<1>2. UNCHANGED transports
  BY DEF Refuse, ResolveFails, Answered, StatelessPost, StatelessRegister, StatelessHandled,
         ResponseEnds, StatelessCleanup, PostInitialize, HandleGetRequest, HandleDeleteRequest,
         tables
<1>3. CASE Refuse(r)
  <2>1. Goto(r, "refused") /\ acts[r].op = "none"
    BY <1>1, <1>3 DEF Refuse, ActKnows
  <2> QED
    BY <1>1, <1>2, <2>1, PcStutters
<1>4. CASE ResolveFails(r)
  BY <1>1, <1>2, <1>4, PcStutters DEF ResolveFails, At
<1>5. CASE Answered(r)
  BY <1>1, <1>2, <1>5, PcStutters DEF Answered
<1>6. CASE StatelessPost(r)
  BY <1>2, <1>6, EnterStutters DEF StatelessPost
<1>7. CASE StatelessRegister(r) \/ StatelessHandled(r) \/ StatelessCleanup(r)
  <2>1. PICK pc \in {"handling", "failed", "listening", "done"} : Goto(r, pc)
    BY <1>7 DEF StatelessRegister, StatelessHandled, StatelessCleanup
  <2>2. acts[r].op = "stateless"
    BY <1>7 DEF StatelessRegister, StatelessHandled, StatelessCleanup, At
  <2> QED
    BY <1>1, <1>2, <2>1, <2>2, PcStutters
<1>8. CASE ResponseEnds(r)
  <2>1. acts[r].op = "stateless" /\ (Goto(r, "closeOwn") \/ UNCHANGED acts)
    BY <1>8 DEF ResponseEnds
  <2>2. CASE Goto(r, "closeOwn")
    BY <1>1, <1>2, <2>1, <2>2, PcStutters
  <2>3. CASE UNCHANGED acts
    BY <1>2, <2>3, QuietStores, Stutters DEF Quiet, SamePosts
  <2> QED
    BY <2>1, <2>2, <2>3
<1>9. ASSUME NEW s \in Sessions,
             PostInitialize(r, s) \/ HandleGetRequest(r, s) \/ HandleDeleteRequest(r, s)
      PROVE  UNCHANGED Seen
  <2>1. PICK op \in {"init", "get", "delete"}, pc \in PCs :
          Enter(r, op, s, pc) /\ (op = "init" => pc = "connecting")
    BY <1>9 DEF PostInitialize, HandleGetRequest, HandleDeleteRequest, PCs
  <2>2. acts[r].pc = "idle"
    BY <1>9 DEF PostInitialize, HandleGetRequest, HandleDeleteRequest
  <2> QED
    BY <1>2, <2>1, <2>2, EnterStutters
<1> QED
  BY <1>3, <1>4, <1>5, <1>6, <1>7, <1>8, <1>9

LEMMA SweepUnseen ==
  ASSUME HttpAssumption, IInv, IInv', OnModuleDestroy
  PROVE  UNCHANGED Seen
<1>1. \A r \in Requests : acts'[r] = acts[r]
  BY DEF OnModuleDestroy, IInv, TypeOK, HttpAssumption, Actors
<1>2. Quiet /\ SamePosts
  BY <1>1 DEF Quiet, SamePosts
<1>3. UNCHANGED transports
  BY DEF OnModuleDestroy, tables
<1> QED
  BY <1>2, <1>3, QuietStores, Stutters

LEMMA CleanupInSession ==
  ASSUME HttpAssumption, IInv, IInv', NEW a \in Actors,
         CleanupTransport(a) \/ CleanupServer(a) \/ CleanupForget(a) \/ CleanupDone(a)
  PROVE  Session!Next \/ UNCHANGED Seen
<1> DEFINE s == acts[a].sid
<1>1. acts[a] \in Act /\ ActKnows(a)
  BY ActFacts
<1>2. acts[a].op \in {"delete", "sweep"} /\ s \in Sessions
  <2>1. acts[a].pc \in Cleaning
    BY DEF CleanupTransport, CleanupServer, CleanupForget, CleanupDone, Cleaning
  <2>2. acts[a].op \in {"delete", "sweep"}
    BY <1>1, <2>1 DEF ActKnows, Act, Ops, Cleaning
  <2> QED
    BY <1>1, <2>2 DEF ActKnows
<1>3. PICK pc \in PCs : Goto(a, pc)
  BY DEF CleanupTransport, CleanupServer, CleanupForget, CleanupDone, PCs
<1>4. CASE UNCHANGED transports
  BY <1>2, <1>3, <1>4, PcStutters
<1>5. CASE CleanupForget(a) /\ s \in transports
  <2>1. \A r \in Requests : acts'[r].op = acts[r].op /\ acts'[r].sid = acts[r].sid
                            /\ acts'[r].as = acts[r].as
                            /\ (acts[r].op \in {"init", "post"} => acts'[r] = acts[r])
    BY <1>2, <1>3 DEF Goto, IInv, TypeOK, Actors
  <2>2. Quiet /\ SamePosts
    BY <2>1 DEF Quiet, SamePosts
  <2>3. Accepted' = Accepted /\ RanAs' = RanAs
    BY <2>2, SamePostsSeen
  <2>4. \A x \in Sessions : Stored(x)' <=> Stored(x)
    BY <2>2, QuietOpens
  <2>5. OpenerOf' = OpenerOf
    <3>1. \A x : Opener(x)' = Opener(x)
      BY <2>1 DEF Opener
    <3>2. \A x \in Sessions : (IF Stored(x)' THEN Opener(x)' ELSE None)
                              = (IF Stored(x) THEN Opener(x) ELSE None)
      BY <2>4, <3>1
    <3> QED
      BY <3>2 DEF OpenerOf
  <2>6. Stored(s) /\ transports' = transports \ {s}
    BY <1>5 DEF CleanupForget, IInv, TablesKnow
  <2>7. Phase[s] = "live" /\ Phase' = [Phase EXCEPT ![s] = "over"]
    <3>1. Phase[s] = "live"
      BY <1>2, <1>5 DEF Phase
    <3>2. \A x \in Sessions : x = s => Stored(x)'
      BY <2>4, <2>6
    <3>3. \A x \in Sessions : (IF x \in transports' THEN "live" ELSE IF Stored(x)' THEN "over" ELSE "none")
                              = IF x = s THEN "over"
                                ELSE IF x \in transports THEN "live"
                                ELSE IF Stored(x) THEN "over" ELSE "none"
      BY <2>4, <2>6, <3>2
    <3>4. Phase' = [x \in Sessions |-> IF x = s THEN "over" ELSE Phase[x]]
      BY <3>3 DEF Phase
    <3>5. [Phase EXCEPT ![s] = "over"] = [x \in Sessions |-> IF x = s THEN "over" ELSE Phase[x]]
      BY <1>2 DEF Phase
    <3> QED
      BY <3>1, <3>4, <3>5
  <2>8. PICK x \in Sessions : x = s
    BY <1>2
  <2>9. Session!End(x)
    BY <2>3, <2>5, <2>7, <2>8 DEF Session!End, Phase, OpenerOf, Accepted, RanAs
  <2> QED
    BY <2>9 DEF Session!Next
<1>6. CASE CleanupForget(a) /\ s \notin transports
  <2>1. UNCHANGED transports
    BY <1>6 DEF CleanupForget
  <2> QED
    BY <1>4, <2>1
<1> QED
  BY <1>4, <1>5, <1>6 DEF CleanupTransport, CleanupServer, CleanupDone, tables

LEMMA OpenInSession ==
  ASSUME HttpAssumption, IInv, IInv', NEW r \in Requests, SessionInitialized(r)
  PROVE  Session!Next
<1>1. acts[r] \in Act /\ ActKnows(r) /\ r \in Actors /\ acts \in [Actors -> Act]
  BY ActFacts DEF Actors
<1>2. PICK s \in Sessions : s = acts[r].sid
  BY <1>1 DEF SessionInitialized, At, ActKnows
<1>3. /\ acts[r].op = "init" /\ acts[r].pc = "connecting" /\ acts[r].sid = s
      /\ Goto(r, "resolving") /\ transports' = transports \cup {s}
  BY <1>2 DEF SessionInitialized, At
<1>4. \A b \in Requests : /\ acts'[b].op = acts[b].op /\ acts'[b].sid = acts[b].sid
                          /\ acts'[b].as = acts[b].as
                          /\ b # r => acts'[b] = acts[b]
                          /\ b = r => acts'[b].pc = "resolving"
  BY <1>1, <1>3 DEF Goto, Act, Actors
<1>5. SamePosts
  BY <1>3, <1>4 DEF SamePosts
<1>6. Accepted' = Accepted /\ RanAs' = RanAs
  BY <1>5, SamePostsSeen
<1>7. ~Stored(s) /\ s \notin transports
  <2>1. \A b \in Requests : acts[b].op = "init" /\ acts[b].sid = s => b = r
    BY <1>3 DEF IInv, OpenedOnce, Opens
  <2>2. ~Stored(s)
    BY <1>3, <2>1 DEF Stored, Opened
  <2> QED
    BY <2>2 DEF IInv, TablesKnow
<1>8. Stored(s)'
  BY <1>3, <1>4 DEF Stored, Opened, PCs
<1>9. \A x \in Sessions \ {s} : Stored(x)' <=> Stored(x)
  <2> SUFFICES ASSUME NEW x \in Sessions \ {s} PROVE Stored(x)' <=> Stored(x)
    OBVIOUS
  <2>1. \A b \in Requests : acts'[b].op = "init" /\ acts'[b].sid = x /\ acts'[b].pc \in PCs \ {"connecting"}
                      <=> acts[b].op = "init" /\ acts[b].sid = x /\ acts[b].pc \in PCs \ {"connecting"}
    BY <1>3, <1>4
  <2> QED
    BY <2>1 DEF Stored, Opened
<1>10. Phase[s] = "none" /\ Phase' = [Phase EXCEPT ![s] = "live"]
  <2>1. Phase[s] = "none"
    BY <1>7 DEF Phase
  <2>2. \A x \in Sessions : (IF x \in transports' THEN "live" ELSE IF Stored(x)' THEN "over" ELSE "none")
                            = IF x = s THEN "live"
                              ELSE IF x \in transports THEN "live"
                              ELSE IF Stored(x) THEN "over" ELSE "none"
    BY <1>3, <1>9
  <2>3. Phase' = [x \in Sessions |-> IF x = s THEN "live" ELSE Phase[x]]
    BY <2>2 DEF Phase
  <2>4. [Phase EXCEPT ![s] = "live"] = [x \in Sessions |-> IF x = s THEN "live" ELSE Phase[x]]
    BY DEF Phase
  <2> QED
    BY <2>1, <2>3, <2>4
<1>11. OpenerOf' = [OpenerOf EXCEPT ![s] = r]
  <2>1. Opener(s)' = r
    <3>1. acts'[r].op = "init" /\ acts'[r].sid = s
      BY <1>3, <1>4
    <3> QED
      BY <3>1, OpenerStays DEF IInv
  <2>2. \A x : Opener(x)' = Opener(x)
    BY <1>4 DEF Opener
  <2>3. \A x \in Sessions : (IF Stored(x)' THEN Opener(x)' ELSE None)
                            = IF x = s THEN r ELSE IF Stored(x) THEN Opener(x) ELSE None
    BY <1>8, <1>9, <2>1, <2>2
  <2>4. OpenerOf' = [x \in Sessions |-> IF x = s THEN r ELSE OpenerOf[x]]
    BY <2>3 DEF OpenerOf
  <2>5. [OpenerOf EXCEPT ![s] = r] = [x \in Sessions |-> IF x = s THEN r ELSE OpenerOf[x]]
    BY DEF OpenerOf
  <2> QED
    BY <2>4, <2>5
<1>12. Session!Open(s, r)
  BY <1>6, <1>10, <1>11 DEF Session!Open, Phase, OpenerOf, Accepted, RanAs
<1> QED
  BY <1>12 DEF Session!Next

LEMMA ExecutorUnseen ==
  ASSUME HttpAssumption, IInv, IInv', NEW r \in Requests, RegisterExecutor(r)
  PROVE  UNCHANGED Seen
<1>1. acts[r] \in Act /\ r \in Actors /\ acts \in [Actors -> Act]
  BY ActFacts DEF Actors
<1>2. PICK h : h = handlers'[acts[r].sid]
  OBVIOUS
<1>3. /\ acts' = [acts EXCEPT ![r].pc = "running", ![r].as = h]
      /\ acts[r].op = "init" /\ acts[r].pc = "resolving" /\ UNCHANGED transports
  BY <1>2 DEF RegisterExecutor, At
<1> DEFINE q == [acts[r] EXCEPT !.pc = "running", !.as = h]
<1>4. acts' = [acts EXCEPT ![r] = q]
  BY <1>1, <1>3
<1>5. q.pc = "running" /\ q.op = acts[r].op /\ q.sid = acts[r].sid
  BY <1>1 DEF Act
<1> HIDE DEF q
<1>6. PICK p : p = q
  OBVIOUS
<1>7. /\ acts' = [acts EXCEPT ![r] = p] /\ UNCHANGED transports /\ r \in Actors
      /\ acts[r].op = "init" /\ acts[r].pc # "connecting"
      /\ p.op = "init" /\ p.sid = acts[r].sid /\ p.pc # "connecting"
  BY <1>1, <1>3, <1>4, <1>5, <1>6
<1> QED
  BY <1>7, OneStutters

LEMMA PostInSession ==
  ASSUME HttpAssumption, IInv, IInv', NEW r \in Requests, NEW s \in Sessions, PostMessage(r, s)
  PROVE  Session!Next \/ UNCHANGED Seen
<1>1. acts[r] \in Act /\ ActKnows(r) /\ r \in Actors /\ acts \in [Actors -> Act]
  BY ActFacts DEF Actors
<1>2. UNCHANGED transports /\ acts[r].pc = "idle" /\ acts[r].op = "none" /\ acts[r].as = None
  BY <1>1 DEF PostMessage, tables, ActKnows
<1>3. CASE s \notin transports
  <2>1. Enter(r, "post", s, "refused")
    BY <1>3 DEF PostMessage
  <2> QED
    BY <1>2, <2>1, EnterStutters
<1>4. CASE s \in transports
  <2>1. acts' = [acts EXCEPT ![r].pc = "handling", ![r].op = "post", ![r].sid = s]
    BY <1>4 DEF PostMessage, Enter
  <2>2. /\ acts'[r].pc = "handling" /\ acts'[r].op = "post"
        /\ acts'[r].sid = s /\ acts'[r].as = None
    BY <1>1, <1>2, <2>1 DEF Act
  <2>3. \A b \in Requests \ {r} : acts'[b] = acts[b]
    BY <1>1, <2>1 DEF Actors
  <2>4. Quiet
    BY <1>2, <2>2, <2>3 DEF Quiet
  <2>5. Phase' = Phase /\ OpenerOf' = OpenerOf
    BY <1>2, <2>4, QuietStores, SameStoredSeen
  <2>6. Accepted[r] = None /\ Accepted' = [Accepted EXCEPT ![r] = s] /\ RanAs' = RanAs
    BY <1>2, <2>2, <2>3 DEF Accepted, RanAs
  <2>7. Phase[s] = "live"
    BY <1>4 DEF Phase
  <2>8. Session!Accept(r, s)
    BY <2>5, <2>6, <2>7 DEF Session!Accept, Phase, OpenerOf, Accepted, RanAs
  <2> QED
    BY <2>8 DEF Session!Next
<1> QED
  BY <1>3, <1>4

LEMMA RunInSession ==
  ASSUME HttpAssumption, IInv, IInv', NEW r \in Requests, HandleRequest(r)
  PROVE  Session!Next \/ UNCHANGED Seen
<1>1. acts[r] \in Act /\ ActKnows(r) /\ r \in Actors /\ acts \in [Actors -> Act]
  BY ActFacts DEF Actors
<1>2. /\ acts[r].op = "post" /\ acts[r].pc = "handling" /\ acts[r].as = None
      /\ UNCHANGED transports /\ Known(acts[r].sid) /\ acts[r].sid \in Sessions
  BY <1>1 DEF HandleRequest, At, tables, ActKnows
<1>3. PICK s \in Sessions : s = acts[r].sid
  BY <1>2
<1>4. CASE Goto(r, "failed")
  BY <1>1, <1>2, <1>4, PcStutters
<1>5. CASE acts' = [acts EXCEPT ![r].pc = "running", ![r].as = handlers[s]]
  <2>1. PICK b \in Requests : /\ acts[b].op = "init" /\ acts[b].sid = s
                             /\ acts[b].pc \in {"running", "done"}
    BY <1>2, <1>3 DEF Known, Opened
  <2>2. handlers[s] = b /\ Opener(s) = b /\ Stored(s)
    <3>1. Known(s) /\ Stored(s)
      BY <2>1 DEF Known, Stored, Opened, PCs
    <3>2. handlers[s] \in Requests /\ Opens(handlers[s], s)
      BY <3>1 DEF IInv, TypeOK, TablesKnow, Owners
    <3>3. handlers[s] = b
      BY <2>1, <3>2 DEF IInv, OpenedOnce, Opens
    <3>4. Opener(s) = b
      BY <2>1, OpenerIs DEF IInv, Opens
    <3> QED
      BY <3>1, <3>3, <3>4
  <2>3. /\ acts'[r].pc = "running" /\ acts'[r].op = "post"
        /\ acts'[r].sid = s /\ acts'[r].as = b
    BY <1>1, <1>2, <1>3, <1>5, <2>2 DEF Act
  <2>4. \A c \in Requests \ {r} : acts'[c] = acts[c]
    BY <1>1, <1>5 DEF Actors
  <2>5. Quiet
    BY <1>2, <2>3, <2>4 DEF Quiet
  <2>6. Phase' = Phase /\ OpenerOf' = OpenerOf
    BY <1>2, <2>5, QuietStores, SameStoredSeen
  <2>7. Accepted' = Accepted /\ Accepted[r] = s /\ s # None
    BY <1>2, <1>3, <2>3, <2>4 DEF Accepted, HttpAssumption
  <2>8. RanAs[r] = None /\ RanAs' = [RanAs EXCEPT ![r] = b] /\ OpenerOf[s] = b
    BY <1>2, <2>2, <2>3, <2>4 DEF RanAs, OpenerOf
  <2>9. Session!Run(r)
    BY <2>6, <2>7, <2>8 DEF Session!Run, Phase, OpenerOf, Accepted, RanAs
  <2> QED
    BY <2>9 DEF Session!Next
<1> QED
  BY <1>3, <1>4, <1>5 DEF HandleRequest

LEMMA NextInSession ==
  ASSUME HttpAssumption, IInv, IInv', [Next]_vars
  PROVE  [Session!Next]_(Session!vars)
<1>1. UNCHANGED Seen => UNCHANGED Session!vars
  BY DEF Session!vars, Seen, Phase, OpenerOf, Accepted, RanAs
<1>2. CASE UNCHANGED vars
  <2>1. UNCHANGED <<transports, acts>>
    BY <1>2 DEF vars, tables
  <2>2. UNCHANGED Session!vars
    BY <2>1 DEF Session!vars, Stored, Opened, Opener
  <2> QED
    BY <2>2
<1> QED
  BY <1>1, <1>2, RequestsUnseen, SweepUnseen, CleanupInSession, OpenInSession, ExecutorUnseen,
     PostInSession, RunInSession DEF Next

LEMMA InitInSession == ASSUME HttpAssumption, Init PROVE Session!Init
<1>1. transports = {} /\ \A r \in Requests : acts[r].op = "none"
  BY DEF Init, Actors
<1>2. \A s \in Sessions : ~Stored(s)
  BY <1>1 DEF Stored, Opened
<1> QED
  BY <1>1, <1>2 DEF Session!Init
-----------------------------------------------------------------------------
(* Tables, servers, handlers and requests keep their types.                *)
THEOREM HttpTypes == ASSUME HttpAssumption PROVE Spec => []TypeOK
<1>1. Init => IInv
  BY InitOK
<1>2. IInv /\ [Next]_vars => IInv'
  BY NextOK
<1>3. IInv => TypeOK
  BY DEF IInv
<1> QED
  BY <1>1, <1>2, <1>3, PTL DEF Spec

(* The three tables agree: a session that a client can name has its        *)
(* server, its executor and handlers as long as it is stored.              *)
THEOREM HttpTablesAgree == ASSUME HttpAssumption PROVE Spec => []TablesAgree
<1>1. Init => IInv
  BY InitOK
<1>2. IInv /\ [Next]_vars => IInv'
  BY NextOK
<1>3. IInv => TablesAgree
  BY DEF IInv, TypeOK, TablesKnow, TablesAgree
<1> QED
  BY <1>1, <1>2, <1>3, PTL DEF Spec

(* A stateless server is not closed under a response that is being sent.   *)
THEOREM HttpNotCutOff == ASSUME HttpAssumption PROVE Spec => []NotCutOff
<1>1. Init => IInv
  BY InitOK
<1>2. IInv /\ [Next]_vars => IInv'
  BY NextOK
<1>3. IInv => NotCutOff
  BY DEF IInv
<1> QED
  BY <1>1, <1>2, <1>3, PTL DEF Spec

(* The service implements McpSession: every message that runs does so      *)
(* under the request that opened its session.                              *)
THEOREM HttpImplementsSession == ASSUME HttpAssumption PROVE Spec => SessionSpec
<1>1. Init => IInv /\ Session!Init
  BY InitOK, InitInSession
<1>2. IInv /\ [Next]_vars => IInv'
  BY NextOK
<1>3. IInv /\ IInv' /\ [Next]_vars => [Session!Next]_(Session!vars)
  BY NextInSession
<1> QED
  BY <1>1, <1>2, <1>3, PTL DEF Spec, SessionSpec, Session!Spec
=================================================================================
