# A TLA+ model of the CHSM Classroom server

The program (`src/`) is a NestJS service on Bun: accounts, organizations,
students, sessions, grades and practice journals in PostgreSQL through Prisma,
Google Classroom through OAuth, a Telegram bot that calls an internal API, and an
embedded MCP server with an AI chat on top of the same services.

One fact shapes everything below. A request handler is a chain of awaited
queries. JavaScript runs one handler at a time, but at every `await` any other
handler may run, and **no handler opens a database transaction**. So each SQL
statement (with the constraints, unique indexes and delete rules of
`src/prisma/schema.prisma`) is atomic, and nothing larger is. What a handler
read is old by the time it writes. The models make every awaited query one
action and give every request in flight a record of the local variables its
handler keeps between them.

## Inventory

Paths are relative to `src/src/` unless they start with `src/`.

| Component | State | Operations | Hard behaviour | What makes it correct |
|---|---|---|---|---|
| users (`users/`) | tables users, org_members, student rows that reference a user | create, update, changeRole, saveGoogleTokens, upsertFromTelegram, linkEmail, syncTelegramUser, delete; changePassword, reset codes | check-then-write on e-mail and Telegram id, whole-row upserts from stale entities, a merge of two accounts in four statements, swallowed errors | e-mails unique, nothing dangles, a deleted account that nobody holds stays away, a merge completes |
| organization (`organization/`) | organizations, org_members | create, update, delete, add/remove member, change or ensure a role | lookup-then-insert; cascades against saves in flight | memberships reference live rows |
| telegram internal API (`telegram/`) | none of its own; it writes accounts | sync, touch, profile updates, linkEmail, status changes, two broadcast loops | several bot updates of one user at once; a send fails in the middle of a broadcast | the accounts it writes are right |
| practices (`practices/`) | practices, practice_entries | create, update, remove, create/update/remove/approve entry | every right and every type check is made on a journal read queries before the write | one journal per type, entries fit their journal, a request changes only what its user may change then, an approval is replaced by none but an overlapping one |
| students (`students/`) | student cards | create, update, remove, full report | whole-row update of a stale entity | cards reference live users and organizations |
| auth (`auth/`) | none (the JWT carries id and role) | login, loginByTg, JWT strategy, role guard, tenancy guard | the role in a token outlives changeRole and delete | an action is allowed only to members with the role |
| sessions, subjects, enrollments, grades (`sessions/`, `subjects/`, `enrollments/`, `grade/`, `grades/`) | academic tables | CRUD with tenant checks, approve | find-then-write; ids of other tenants in a body; missing uniqueness | references are live; a row is written only for its own organization |
| classroom (`classroom/`) | one OAuth2 client for the process, a cache of one report, `google_auth` rows | read courses, works, students, grades; announce, mail, connect | credentials replaced while another request awaits; calls made whose answer is lost; cache filled and dropped by overlapping requests | tokens are saved with their owner's profile, nothing is posted twice, a report is whole |
| backup (`backup/`) | mirror database, archive files | start-up run, cron run, endpoint | overlapping runs, failures half-way | an archive is a complete dump |
| MCP transports (`mcp/services/`, `mcp/transport/`) | session tables: transports, servers, pings, executors | connect, message, get, delete, clean-up, ping | clean-up that fails half-way, a close during an awaited initialisation, handlers registered anew per message on a shared server | tables agree; a message runs under the right request; a dead session disappears; no server closes under its response |
| MCP registry, executor, handlers | tool tables filled at start | list and call tools, read resources, get prompts | look-up by name and by URI, defined in several places | what is read is what was asked for |
| tool authorization | none | allowed to list, allowed to call, listed authentication | three functions that must agree | what is listed can be called and the reverse; who is not entitled does not get in |
| AI bridge and chat | the message list of one chat | tool loop for OpenAI-like and Gemini models, a tool that is itself a chat | errors in the loop, no bound on rounds | every tool call gets one answer; a chat ends |
| MCP tools over the services | cached id of the default organization | calls of the services above | the cache never expires | the organization exists |
| MCP module, decorators, utilities, adapters; NVIDIA endpoint; bootstrap; scripts | none that changes | wiring, one-off requests | - | - |
| schema (`src/prisma/schema.prisma`) | keys, unique constraints, delete rules | - | - | modelled inside the statements of each table |

Components call each other directly in one process. They share the database and
nothing else, except the caches and session tables named above. `PROJECT.json`
lists each with the modules that model it, and every hazard found at its line.

## Modules

| Module | Models | Notes |
|---|---|---|
| `UserAccounts` | `users/`, the member operations of `organization/`, the account handlers of `telegram/`, student creation and removal | one action per awaited query |
| `MCUserAccounts` | instances | a user from the web with an e-mail, a user from the bot with a Telegram id |
| `UserAccountsProofs` | theorems on `UserAccounts` | |
| `PracticeTables` | students, organizations, memberships, practices, practice_entries and the single statements on them with their constraints | shared by the next two |
| `PracticeBook` | the abstract specification: a request is a visit with at most one change, to what its user may change at that moment | |
| `PracticeJournal` | `practices/practices.service.ts`, query by query, behind the tenancy guard | implements `PracticeBook` |
| `MCPracticeJournal` | instances | |
| `PracticeProofs` | theorems on `PracticeJournal`, among them the implementation of `PracticeBook` | |
| `AcademicRecords` | `sessions/`, `subjects/`, `enrollments/`, `grade/`, `grades/`, student removal | one machine for eight tables |
| `MCAcademicRecords` | instances | two organizations: one with a year, a level, two runs and a student, one with what it makes or is given |
| `AcademicProofs` | theorems on `AcademicRecords`: types, foreign keys, who writes levels, runs and students | |
| `PasswordReset` | `changePassword`, `generateResetCode`, `resetPasswordWithCode`, `forgotPassword` beside the other updates of one account | |
| `MCPasswordReset` | instance | |
| `PasswordResetProofs` | theorems on `PasswordReset` | |
| `ClassroomCredentials` | `classroom/`, mail and announcements of the MCP tools | Google is external |
| `MCClassroom` | instances | |
| `ClassroomProofs` | theorems on `ClassroomCredentials` | |
| `McpSession` | the abstract specification of a transport with sessions | |
| `SseSessions` | `McpSseService`, `SsePingService` | implements `McpSession` |
| `HttpSessions` | `McpStreamableHttpService`, stateful and stateless | implements `McpSession` |
| `McpTransports` | `McpModule`: both services in one process, and the choice of transports | composes the two by `INSTANCE` |
| `MCMcpTransports` | instance | the option of `app.module.ts` among others |
| `HttpProofs`, `McpTransportsProofs` | theorems on `HttpSessions`; on `SseSessions` and the composition | the second instantiates the first |
| `McpTools` | registry, tool authorization, the handlers for tools, resources, prompts | |
| `AiBridge` | `AiBridgeService` and the chat tool, on the registry of `McpTools` | extends `McpTools` |
| `AiBridgeProofs` | theorems on `McpTools` and `AiBridge` | |
| `MCAiBridge` | instance | four applications, five kinds of user |

### UserAccounts

`users[i]` is the row with `mongoId` i. `births` counts how often that row was
created: two rows with one `mongoId`, one after the other, have different
autoincremented `User.id`, which is what `org_members` references; a handler that
kept the integer id of a deleted row fails to insert a member for its successor.
`members[o][i]`, `students` and `orgs` are the other tables with their cascades.

`reqs[r]` is one request: `pc` names the query it awaits next, `ent` is the entity
in memory, `dto` the fields still to be applied, `org` and `role` the arguments of
the role copy, `intId` the integer id it looked up, `victim` the account a merge
or a delete removes.

An arrival action (`Update`, `ChangeRole`, `UpsertFromTelegram`, `SaveGoogleTokens`,
`CreateUser`, `SyncUserData`, `TouchByTgId`, `LinkEmail`, `SyncTelegramUser`,
`DeleteUser`) runs a handler up to and including its first query; the others are
the later queries. All of them end in `BeginSave`, the code's
`PrismaUserRepository.save`: `CheckEmail` (is there another row with this e-mail),
`Upsert` (all columns, creating the row if it is gone), `JoinOrg` (the membership,
any error swallowed), then for update and changeRole `IntId`, `Ensure`, and
`SetRole` or `InsertRole`. `Abort` is a server stop or a rejected query between any
two queries.

A body is applied whole. `main.ts:60` installs a validation pipe without `whitelist`, so a field that is not declared
passes through, and `updateDetails` assigns what it is given. `Bodies` are the Telegram id, e-mail and status a body may hold, beside a role and an
organization: `PATCH /users/:id` sets any Telegram id without a look-up, and the bot's sync applies role and status.
Only update and changeRole copy a role to the membership, and only when an organization is named (`RoleToCopy`).
So neither the uniqueness of Telegram ids nor the agreement of an account's role with its membership's is a
property of this code, and no property states them.

What is abstracted: names, phones, passwords, Google tokens, timestamps and the
registration step, on which no modelled decision depends; statuses other than
active, blocked and archived; an e-mail cleared with the empty string; and an `id` in a body, with which
a client would have one account saved over another.

### PracticeTables, PracticeBook, PracticeJournal

A request passes `create` (`Create`, `FindJournal`, `CreateWrite`), or one of the
operations on a journal: `FindPractice` (lookup by id and organization),
`AssertPracticeOwnership` (students only: the card, its user and its organization),
`FindEntry` (update and remove of an entry), then the write. Checks without an
await between them belong to the action before. `ApproveEntry` looks the entry up
by entry and journal only, as the code does, since it is not given the
organization. `RemoveStudent` and `RemoveOrganization` are the deletes of other
handlers, with the cascades of the schema.

`Enter` is the tenancy guard: it finds the membership and lets the request in; the handler starts later, in a step of its own
(`Create`, `FindPractice`, `ApproveEntry`, or `Read` for the handlers that only read). `members` changes while requests run
(`ChangeMembers`, and with its organization), so a request may act for a user who has just been removed.
`serviceKind` and `location` stand for the optional texts of the two journal types,
each with the values the code tells apart: a text, the empty string, null, and a
field that was not sent. Dates, hours, notes and the approval's timestamp follow
the same paths and are left out; `approvedAt` and `approvedBy` are always written
together and are one field.

`PracticeBook` says what the code promises, which is less than the documentation does. A user enters as a member of an organization
and leaves with at most one change made: `Open`, `SetStatus`, `Discard`, `Record`, `Edit`, `Approve` or `Strike`, atomic
and guarded by `MayChange` or `MayWrite` at that moment. It lets the owner of a journal set any status, also APPROVED (`src/PracticeDoc.md:206-208`
keeps that for staff, the code does not check it), staff approve entries of other organizations, and one approval replace
another. A membership that ends during a visit does not end the visit. The run `practice` checks that `PracticeJournal` implements it (`BookSpec`), with no
discipline on requests: in spite of checks made several queries before the write, no write happens that the
book would not allow then. The reason is the schema: a card's user and organization
never change, ids are never reused, and a card's deletion takes the journals and
entries along, so a stale check can only lead to a write that finds no row.

`ApprovalSettles` is about two approvals that overlap. Both read an entry without an approval, both write, and the second
approver replaces the first; that does happen, and is what the property leaves open: once no request is on its way
to approve an entry that is approved, its approver stays.

### AcademicRecords

The services of the academic tables have one shape, so one machine models them, with the
tables as data: `ColumnsOf` (foreign keys of a table), `Cascading` (which of them cascade), `OwnOrg` and `Via`
(where a row's organization is written, or in which column to look on), `CheckedColumns` (what create
looks up before it inserts) and `Captures` (see below). `rows[i]` is the row with uuid i; `KindOf[i]` is its
table. A request is `Arrive`, then for create one `Check` per looked-up id, for update, approve
and remove one `Find`, then the write (`Insert`, `Update`, `Delete`) or its refusal by the database (`Refuse`).
`GradeService` and `GradeEntryService` write the same table with the same queries and are one kind.

Three facts of the code decide the tenant question:

- **The constructor comes before the guard.** `EnrollmentService`, `GradeService`, `GradeEntryService`,
  `GradebookService` and `AcademicYearService` copy `request.currentOrgId` in their constructor. Nest
  builds request-scoped providers before it runs the guards of the route, and `MultiTenancyGuard` is what sets
  `currentOrgId`. The copy is `undefined`; Prisma treats `undefined` in a `where` as no condition.
  `Seen` is what the service has, `InTenant` its lookup. A new academic year has no organization
  and is always refused. The other services are given the organization by their controller when the handler runs.
- **Create looks up some of the ids**: a subject's run but not its level, a run's level and year not at all.
- **Update looks up its own row but none of the new ids in the body.**

And one of the validation pipe: it strips nothing, so that an `organizationId` in the body of an update reaches Prisma
(`session-run.service.ts:38-41`, `session-level.service.ts:33-36`, `academic-year.service.ts:54-61`). `BodyOwners` are those bodies;
an update with one moves the row to another organization, also between another request's look-up and its write. The row's
references and the rows that name it do not move with it, so **rows of one organization may reference those of another**, and no property says that they do not.

What holds is `ScopedWrites`: of the tables whose services are given the organization (levels, runs, students) a row changes only by a request for the
organization it belongs to at that moment, because the organization is in the `where` of the write itself and not only of the look-up.
`OwnWrites` says it of all tables, as `src/client_auth_update.md:9` does, and is violated (run `records_leak`): a year of
one organization is updated or removed by a request for another. No assumption is made on what clients name.

Of a body only the foreign keys and the organization are inputs. Values, statuses, titles, dates and the
columns of an approval decide nothing and are left out. Left out too: an `id` in a body, deletion of an organization, and the
other rows of a card (its journals are in `PracticeTables`).

### PasswordReset

One account. A request reads it (`Holds`: the whole row becomes the request's copy with the change it is
for), awaits, and saves the whole copy (`Save`, an upsert, also of an account deleted since). `codes` numbers the reset codes; `inbox` holds those that reached the owner through the bot,
the only ones a client can present. `Expire` is the passing of a code's fifteen minutes at any moment. `Update` stands for every other operation
that saves the account: it may change the rest (`other`), set a password (an account without one gets one made of its e-mail, and a
body may hold one, stored as it is: `Raw`), and its body's `metadata` replaces the account's, the reset code with it: a client may put an earlier code back.

Requests lose each other's changes (no lock, no version column), and nothing in the repository says otherwise. The model leaves all of that in, and
`CodeUsedOnce` says what is left of "a code works once": it sets a second password only if another request had it in hand when it set the
first (a second reset, or a copy of the account with the code still in it), or a body put it back. History: `used` are the codes with
which a password was saved, `reused` those with which one was saved again, `revived` those that were in another request's hand, or put back.
Abstracted: bcrypt (a password is compared as a value), that two random codes may be equal, all other columns (`other`).

### ClassroomCredentials

`client` is the credentials of the one `OAuth2Client` all requests share. A request has `tokens` (those it read and
means to use); a call in flight (`flying`) has `as`, what the client held when it started. `Begin` and `SendMail` set
the credentials and make a call with no await between; `Listed`, `NextItem` and the second call for grades use what the client
holds by then, as the loops of the code do. That the client reads its credentials synchronously when a call starts is
an assumption on Google's library.

`ItemDone(g, done, told)` ends a call: refused, done and answered, or done with its answer lost. `Contained` are the
requests that record an error per item, `Serial` those that make one call after the other. `posted` counts, per item, what Google really did.
For a broadcast the items are the entries of the list and not the addresses: the code loops over an array, so an address that is listed twice, or spelled in two
ways, is mailed twice. An entry that is no string ends the broadcast half-way (`NotAnAddress`: it is put in lower case outside the try block).
`cache` is the one cached report, dropped by `refresh=true` and by announcements, and stored for an hour.

Left out: the refresh of an expired access token inside the library, the statistics of `user.controller.ts:136-161`
(the same two calls as a gradebook), the texts. A live report's two calls per course, made
at once and joined, are one. Consequences the code has and no page denies: `refresh=true` may be answered with an older report
that a concurrent request has just stored; so may the next report after an announcement; the error entries of a report are cached for an hour with it;
the students and grades of a failing course are left out of their report without a word.

### McpSession, SseSessions, HttpSessions, McpTransports

`McpSession` is what a transport with sessions promises: sessions open and end once, a message is accepted only by a live
session and runs at most once, under its own request (`PerMessage`) or under the one that opened the session.

`SseSessions`: `transports` and `mcpServers` are the maps of `McpSseService`, `activeConnections` that of `SsePingService`. A message is
`HandleMessage` (look-up, up to the await of the executor), `DispatchMessage` (handlers replaced on the session's
shared server and the message handed over, no await between) and `AnswerMessage`. `handlers[s]` is whose HTTP request the handlers of
a server hold, `msgs[m].as` the one m ran under. That the two are equal for every message, whatever order executors resolve in, is the refinement.

`HttpSessions`: `acts[a]` is what an actor is doing: an HTTP request, or the clean-up of session a by `onModuleDestroy`.
`PostInitialize`, `SessionInitialized`, `RegisterExecutor` open a session in three awaited steps; `CleanupTransport`, `CleanupServer`, `CleanupForget`,
`CleanupDone` end it in as many, for a DELETE and the sweep at the same time; `StatelessPost` to `StatelessCleanup` are the stateless path, whose server and transport
belong to the request. The SDK's `StreamableHTTPServerTransport` is external: it awaits `onsessioninitialized` and `onsessionclosed`, then closes itself.

`McpTransports` composes the two: they share nothing but the process and the registry, and `option` decides which of them serve.

### McpTools, AiBridge

A decorated method is a record (kind, names, public, scopes, roles, URI as a sequence of segments with query variables).
`registry` is filled once. `CanAccessTool`, `ValidateToolAccess` and `SecuritySchemes` are the three functions that decide
listing, calling and advertising; `FindResourceByUri` and `FindResourceTemplateByUri` the matching of URIs. A filtered list of the
code is a set of places in the registry, and its `find` the least place that fits (`First`). `ReadResource` gives the method
that is run and the values of its variables: the last segment a variable stands for, or the query's. A call is `CallTool`
(or `CallResource`, `GetPrompt`), `ToolResolved`, `ToolReturns`, with each error path.

A segment of a template is a literal, a variable or `{name*}`, which `convertTemplate` leaves as it is and path-to-regexp refuses (`Unconvertible`).
`Decode` is `decodeURIComponent`, a parameter: what a text decodes to, or None where it throws. A query is a sequence of pairs; a pair has a name and what
stands between its further `=`, of which `parseQueryString` takes the first; of pairs with one name the last counts. A read looks up a resource and a template before
it chooses, and whatever either look-up throws ends it (`ReadThrows`).

`AiBridge` adds chats: `history` is the message list, `asked` and `next` the calls of the model's last answer. `AsksForTools`, `ExecuteTool`, `ToolEnds`
are the loop for the three styles; `ExecuteGeneralQuery` starts the nested chat of the `general-query` tool and `NestedEnds` takes its answer or
error for the tool's result. Parsing of JSON schemas is a choice (`invalid`); texts, tokens of the caller, streaming and transcription (stubs in the source) are left out.

## Runs

All runs finish exhaustively. `CHECK_DEADLOCK FALSE` throughout: the ids of an
instance run out, after which it really may stop (a real server would generate
another uuid). Symmetry is over request slots and row ids, never in a run with
liveness.

| Run | Question | Bounds |
|---|---|---|
| `accounts_email` | do e-mails stay unique over all writers; can an account that is deleted and that nobody has in memory come back | 3 accounts, 2 spellings of one mailbox, 2 requests, `EmailSerial` |
| `accounts_refs` | does anything ever dangle, with no discipline at all and with crashes | 2 accounts, 2 requests, no discipline |
| `accounts_merge` | does a merge that has deleted the temporary account bind its Telegram id again | 3 accounts, 2 requests, `FairSpec` with `KeepsDisjoint` |
| `practice` | one journal per student and type, entries fit their journal, who may replace an approval; refinement of the book | 3 users, 1 organization, 1 card, 2 journals, 1 entry, 2 requests, no discipline (2.07 million states) |
| `records` | do references stay live; are levels, runs and students written only for their organization | 2 organizations, 5 rows at the start, one new year, subject, enrollment, grade and gradebook, 2 requests, no discipline |
| `records_leak` | expects a violation: is every table written only for its organization | the same rows, the operations on years |
| `password_reset` | can a code set a second password that nobody else had it in hand for | 3 requests, 2 codes, 2 passwords, no discipline |
| `classroom` | are tokens saved with their owner's profile, is nothing posted twice for one entry of a list, are reports whole, does every request end | 2 requests, 2 items, 2 Google accounts; `FairSpec`, `Disturbs` |
| `classroom_shared_client` | expects a violation: does a request use its own tokens for every call | the same, without former administrators |
| `mcp_transports` | do the session tables agree, does every message run under the right request, do dead sessions go, is no server closed under its response; refinement of `McpSession` twice | 1 stream with 3 messages, 1 session with 4 requests, 3 options (237,097 states) |
| `ai_bridge` | do listing, calling and advertising agree, are URIs read by what they match and with their values decoded, are calls and results paired, do chats end | 4 applications, 5 kinds of user, 1 MCP call, a chat and one nested in it, 2 calls an answer, 2 answers with calls; `FairSpec`, `ChatsApart` (2,997 states) |
| `stdio_bypass` | expects a violation: are all tools accessible over standard input | the same |

Two requests are enough for every race of these handlers: each hazard is one
handler's stale read against one other's write. The instance needs a third account
where a creation meets a merge, and a second journal id where a journal is removed and
opened again with the other type. In `practice` one of the three users teaches, one has the card and one has none, so that each guard has somebody to let in and to refuse. In `records` the
second organization is where a row can be moved to and where requests come from that name rows of the first, and one new row of each kind below a run is
enough, since every chain of columns (run, subject, grade; card, enrollment, grade) is then present
while either end is deleted. `accounts_email` has no archived accounts (the bot's look-up passes over them); its theorem is for every status.
`MaxBirths` (2) bounds how often one row may be
created again; once is enough to tell a row from its successor.

`password_reset` needs a third request: one code saved while a reset and another change are in flight. In `classroom` the first request is of any kind and runs against anything the second can do to it:
`Disturbs` lets the second be a callback or a live report over one course (the writers of the client, of `google_auth` and of the cache), and lets
answered requests be forgotten at once, since an answered request has no further step. `mcp_transports` needs four requests over HTTP for an initialize, a
message and two DELETEs at once beside the end of the module, and three messages on one stream for two that wait while a third runs. One session each is
enough, since all tables are keyed by the session and no step of one session looks at another; the theorems speak of any number. In `ai_bridge`
chats and MCP calls share only the registry, which does not change after the start, so `ChatsApart` explores chats in one application, with no call in flight; what depends on users
and options is a function of the state and is evaluated for all of them there.

`mcp_transports`, `ai_bridge` and `classroom` have liveness properties and no symmetry; `password_reset` has symmetry over requests, passwords and values, and
only safety.

### Disciplines

Two properties do not hold of every interleaving; their runs state the overlap they exclude with an `ACTION_CONSTRAINT`, and the exclusion is needed.
All others are checked, and proved, of every order of requests the code allows.

- `EmailSerial` (`EmailUnique`): no two saves of one e-mail for different accounts lie between
  check and write together. Everything else interleaves freely. Without it two accounts get one e-mail. The property
  therefore says that this race is the only way, for every path that writes an account; it does not say that the race is absent.
  `EmailSerialSpec`, of which the theorem speaks, conjoins the same formula to `Next`.
- `KeepsDisjoint` (`MergeKeepsTelegram`): requests in flight share no account, e-mail or Telegram id. Without
  it another request may give the Telegram id to somebody else, or write an older state of the account, before the merge ends.

### Fairness

`FairSpec` of `UserAccounts` adds weak fairness of each request's next query: the event loop
resumes a handler whose query has been answered, and the database answers. Arrivals
are never fair. Abort is not exercised there: a server that stops between the
delete of the temporary account and the save, or a save that fails, does lose the Telegram id. The property
is for a handler that goes on.

`FairSpec` of `ClassroomCredentials` is weak fairness of each request's next step: Google answers or the call fails, and the
database and the cache answer. What clients send is not fair, nor is the expiry of the cache. `RequestsEnd` then
says that no request waits for ever, the loops over items and the mails without tokens included.

`Fairness` of `SseSessions` and `HttpSessions`: timers fire (`SendPingToAllConnections`, while the timer runs), close
events are delivered (`OnClose`), awaited promises settle, a response is sent to its end or its client goes away. `DeadStreamsAreNotPinged`,
`DeletedSessionsGo` and `StatelessIsCleaned` follow from it; a close that throws is not excluded but named in the
properties, since the code then keeps the session.

`FairSpec` of `AiBridge`: the model and the tools answer or fail. That the model stops asking for tools is not
fairness but the bound `MaxRounds`; the code has no bound.

### Divergences found

Three runs expect a violation:

- `classroom_shared_client`: a comment (`classroom/controllers/classroom.controller.ts:151`) says that the live report
  takes the administrator's system token, but only its first call surely does. The calls for each course start after an await and
  go out with whatever credentials another request has set on the shared client by then.
- `records_leak`: `src/client_auth_update.md:9` says that all queries are scoped to the current organization and no data of one school
  leaks to another. Five services look up with an undefined organization, and a request for one organization changes another's row by its id.
- `stdio_bypass`: `src/src/mcp/docs/per-tool-authorization.md:142` says that over standard input all tools are accessible. The handler leaves out the module's guards
  but passes no user, and a tool that asks for scopes or roles refuses a caller without one.

Met while modelling, and described here only:

- Accounts: two saves of one e-mail race between check and upsert; two first messages of one bot user make two accounts; `PATCH /users/:id` sets any
  Telegram id; a save of an account read before its delete brings it back; `owner` as a role makes a student of the account and an
  owner of the member, and a role in the bot's sync (`user.service.ts:343-345`) never reaches the membership.
- Password reset: two resets with one code both succeed when both are checked before either is saved; any other change of the account in flight at that time
  brings the code back, and so does a body with the account's earlier metadata; a password in the body of an update is stored as it is.
- Practices: a student may set the status of a journal to APPROVED, which `src/PracticeDoc.md:206-208` keeps for staff; overlapping approvals
  (`practices.service.ts:325`) replace each other; a user removed from an organization finishes the request he is in; approval by staff acting for another organization, since `approveEntry` is not
  given the organization; an update may empty the `serviceKind` which creation requires (`src/PracticeDoc.md:145`); a journal may go from any
  status to any other (`src/PracticeDoc.md:210`); staff may open a journal in one organization for a
  card of another (no page promises otherwise, so `PracticeBook` allows it).
- Academic tables: an enrollment across organizations that the checks of create let through, since five constructors copy
  the organization before the guard sets it; an update may move a run, level or year to another organization and leave what names it behind.
- Classroom: an address that is listed twice is mailed twice; an entry that is no string ends a broadcast half-way, with an error and no results.
- Transports: a stream that closed before its connection was set up stays in both maps for ever (the ping table forgets it, its
  TODO at `sse-ping.service.ts:131` says so); after a client has gone away, or a response finished before the
  listener was set, a stateless server is never closed; nor is one whose creation failed half-way; standard input is never served when the option is a list
  (`app.module.ts:91-97` gives one).
- Tools: one that asks for roles only, in a module without guards, is listed with the scheme `noauth` but refuses anonymous callers; the
  comment that standard input bypasses authorization is not true of tools that ask for scopes or roles; a template with `{path*}`, which `src/src/mcp/docs/resource-templates.md:66-72` offers for several segments, is not converted, and path-to-regexp throws on it at every read that comes to
  it; a value is cut at its second `=`, and a malformed escape fails the read; two tools of one name are
  not rejected and the first answers for both; a template shadows a resource of the same URI.
- Chat: the AI's tool calls pass neither authorization nor validation; an HTTP error of deepseek is an empty answer.

## Proofs

`UserAccountsProofs` proves for all values of the constants, assuming only
`ConstantsAssumption` and `SeedAssumption` (the e-mails of the initial accounts are
distinct; null is none of the values; lower-casing is idempotent):

- `TypeCorrect`: `Spec => []TypeOK`. `TypeOK` alone is not inductive, because a later query
  uses what an earlier one stored. The invariant `IInv` adds `Knows`: at which
  points a request certainly has an account, a victim, an e-mail or a role in hand.
- `EmailsStayUnique`: `EmailSerialSpec => []EmailUnique`. The inductive invariant
  `EmailInv` adds `StillFree`, the fact the check establishes and which must survive
  until the upsert: at `upsert` no other live row has the e-mail in hand. Another upsert can break
  it only with the same e-mail for another account, which is `EmailOverlap`. Every other
  action is calm: it changes no e-mail of a live row and brings no request to `upsert`.
- `ReferencesStayLive`: `Spec => []ReferencesHold`, with no discipline. Given the types the property is inductive: an upsert only
  brings rows to life, every insert demands a live user and an existing organization, and where a request that
  deletes a user has removed the student cards before another request adds one, the second statement fails.
- `DeletedAccountsStayGone`: `Spec => GoneForGood`, with no discipline and crashes included. A request takes into its hand only an account it has just
  read, a new one, or the one it has already (`Takes`), and an upsert writes only the account in hand. So a row that is dead, has lived, and is
  in nobody's hand is in nobody's hand after any step either. The lemmas say this of each way a request changes.

`PracticeProofs` proves, from `TablesAssumption` and `InputsAssumption` (what belongs to
what; null is none of the values):

- `JournalTypes`, `JournalsStayUnique`, `EntriesKeepFitting`: `Spec => []TypeOK`, `[]OneJournal`,
  `[]EntriesFit`, with no discipline. The invariant `IInv` joins them with `RequestsKnow`, what
  each request still knows of its journal and entry: the id it generated is unused; the journal it
  read is never a new one, and if it is still there it has the card, type and
  organization that were read; from the access check on its user is entitled. `OwnIds` says
  that a generated id is in the hands of one request. The argument has two halves. The
  lemmas `...OK` show that every statement keeps the tables right and that rows only
  `Evolve`: used ids stay used, journals and entries keep what identifies them. `KnowsStays`
  shows that what a request knows survives any such change, so that an action need only be looked at
  for the request that takes it.
- `ImplementsBook`: `Spec => BookSpec`. A visit is the user and organization of a request that is not idle; every write is a change the book
  allows at that moment (`...InBook`), whatever became of the membership meanwhile, and every other step of a request moves no table (`VisitMoves`).
- `ApprovalsSettle`: `Spec => ApprovalSettles`. Only `ApproveWrite` changes who approved an entry (`KeepsApprovals`), and a request is on its way to
  approve an entry only if it found it without an approval (`NewApprover`).

`AcademicProofs` proves, from `RecordsAssumption` (ids belong to tables, null is no id and
no organization) and `SeedAssumption` (the initial rows are whole):

- `RecordTypes`, `RecordsStayWhole`: `Spec => []TypeOK`, `[]RecordsHold`, whatever clients send. `IInv` adds
  `RequestsFit`: a request has the columns of its table in hand, and an id of that table unless it creates.
  The heart is `DoomedClosed`: two rounds of cascading columns are enough, because cards and enrollments are the only
  rows named by such columns and nothing names a grade or a gradebook.
- `ScopedTablesAreOwnersOnly`: `Spec => ScopedWrites`, with no assumption on clients. What reaches a row of such a table has its organization
  in the `where` of the write (`ReachedByOwn`), and none of them is deleted by a cascade from another row (`DoomedScoped`).

`PasswordResetProofs` proves, from `ResetAssumption` (null is neither a password nor a number):

- `ResetTypes`, `CodesWorkOnce`: `Spec => []TypeOK`, `[]CodeUsedOnce`, with no discipline. `IInv` adds `Copies`, what a request in flight is going to change
  of what it has read. `UsedUp` is the heart of `CodesWorkOnce`: a used code that is not in `revived` is nowhere: the account does not have it, and no
  request is going to save it or was let in with it.

`HttpProofs` proves, from `HttpAssumption` (sessions, requests and null are different), `HttpTypes`, `HttpTablesAgree`,
`HttpNotCutOff` and `HttpImplementsSession`. `IInv` adds `ActKnows` (what an actor at each point is doing and knows), `OpenedOnce` (one request opens a session) and `TablesKnow` (a stored
session was stored by the request that opens it, and its handlers are that request's). Most steps are `Quiet`: they touch no request that opens a session, so
one lemma (`QuietKeeps`) covers them; the opening steps are treated by `OpeningKeeps`. In the refinement a message runs under
`Opener(s)`, a CHOOSE whose value `OpenedOnce` fixes.

`McpTransportsProofs` proves the properties of the run `mcp_transports` but for liveness, from `TransportsAssumption`: `TransportTypes`, `TransportTablesAgree`, `TransportsNotCutOff`,
`TransportsImplementSession`. The event streams are proved about in the module itself, under the name `Sse` that `McpTransports` gives them (`SseTypes`,
`SseTablesAgree`, `SseImplementsSession`): `SseInv` adds that a new stream is in no table and `SseKnows`, that a message past its look-up names a session that has
existed, and ran under itself if it ran; the refinement maps a session to new, live (its transport is in the map) or over. For streamable HTTP it instantiates
`HttpProofs` with the parameters of the process. `ServesSse` and `ServesHttp` say that the process behaves, seen by either service, as that service alone.

`ClassroomProofs` proves every safety property of `classroom`, from `OwnersAssumption`: `ClassroomTypes`, `ProfilesStayMatched`,
`PostsAreMadeOnce`, `ReportsAreWhole`. None of the four is inductive: each speaks of what a request has posted or reported, and the answers that lead to it are
still under way. `IInv` says of each request and its calls in flight: `Knows`, that what is known is exactly what was listed and is not to be done any more;
`Posted`, that nothing is posted for an item still to be done; `Fits`, that a call in flight is the request's first, or about an item still to be
done; `Apart`, that no two are about one item, and a loop has one at all. A post then turns 0 into 1, whether its answer arrives or is lost. A request's calls
are its own (`Mine`), so a step is looked at for the request that takes it; the shared client appears only in what the first call and
mails take from it before anything is awaited, and the cache in `CacheOK`, which is kept by whole stores.

`AiBridgeProofs` proves every safety property of `ai_bridge`, from `ToolsAssumption` (what is registered and read is of its type) and `BridgeAssumption`:

- `OnlyEntitledAreServed`: `ToolsHold` adds that a call in flight has what it was validated for and its user is `Entitled` to it. This holds also where
  tools share a name, since what is validated is what runs. The property is for callers over HTTP, where there is a user to be entitled.
- `ListsAreCallable`, `AdvertisedStaysEnforced`, `TemplatesStayRead` hold of every registry: given the types, they compare functions of the same state. The look-ups
  take the least place of a set, which exists because `<` on the numbers is well-founded (`Least`, from the library's `WFMin`, and `Greatest` from it); where names are
  unique, the look-up by name finds the place it started from, and so do the two look-ups of a template by URI and then by name. `ThrowsFor` and `ReadThrowsFor`
  trace whatever a look-up throws to a malformed escape or a `{name*}`, `ParamFrom` a value to the segment or the pair it is decoded from.
- `BridgeTypes`, `HistoriesArePaired`: `ChatsHold` adds what the list of messages is while the calls of an answer run. `PairedBut(h, at, n)` says that the answer
  at place `at` has its first n results and every other answer all of its own; `HasAnswer` that the chat's last answer is at the
  place this leaves, with the results before `next`. A result then makes n into n + 1, and the last one makes the list whole. For the Gemini
  style, which puts a call and its result there together, the list is whole throughout. `ParentRuns` and `NestedOnce` say that a nested
  chat is that of a tool its parent is running, and the only one, so that its end finds the parent waiting.

Every safety and action property of a passing run is the statement of a theorem. Only model-checked is liveness (`MergeKeepsTelegram`, `RequestsEnd`,
`DeadStreamsAreNotPinged`, `DeletedSessionsGo`, `StatelessIsCleaned`, `ChatsEnd`): fairness and ENABLED are outside what the prover does.

## Not modelled, and why

`softDelete` has no caller. The validation pipe (`main.ts:60`) has no `whitelist`, so fields it does not know pass through (only
the grade controller, `grade.controller.ts:24`, has a pipe of its own that strips them); of those the models take the ones the tables have a
column for and something depends on, except an `id` in a body. Bodies that the pipe does reject, and values
that PostgreSQL refuses for their type, are not inputs. `approvedBy` is the id of a user; the code does not check it against a table.
Telegram messages, mail, HTTP calls to AI providers and Google are external.

- Log-in, JWT and the role guard keep no state between requests. The role they decide on is that in the token, which outlives
  `changeRole` by the token's life: one step against one change, with no interleaving of its own.
- Backup: its runs overlap, but what two at once do to the mirror and the archive is decided by `pg_dump`, `pg_restore` and a shell pipeline.
- The two broadcast loops of the Telegram API keep nothing: they send, log a failure and go on.
- `StudentService.update` writes the whole card from memory; its columns depend on nothing and nothing on them, so at stake is one lost edit.
- Create and update of organizations, reports that only read, tools over students and users: single calls of services modelled elsewhere or of no state.
- The NVIDIA endpoint, HTTP adapters, decorators, wiring and scripts have no state.

## Order of work, and what is left

The modules were written in this order: accounts and practices with their proofs, the academic tables with theirs, the MCP
transports, password reset, tools and chat, Google Classroom, then the proofs on the transports, on password reset, on Google Classroom and on tools and chat.
What would come next: a rule for which bodies an account may be given, after which Telegram ids and
roles would have something to promise; references within one organization once updates strip `organizationId`; a model of the backup once its scripts are part of the repository.
