# Verification of the CIO agent

TLA+ models of this repository, model-checked with TLC and proved about with
TLAPS. Everything here is translated from the sources; paths below are relative
to the repository's root.

## 1. The system

The CIO agent is a multi-tenant assistant. A NestJS API (`apps/api`) runs in at
least two replicas (`infra/helm/cio-agent/values.yaml:47`), keeps its rows in
PostgreSQL and its caches, locks, counters and event streams in Redis, and drives
an agent whose logic is a set of TypeScript packages (`packages/*`).

| Part | State it keeps | Operations | What makes it correct |
| --- | --- | --- | --- |
| Agent pipeline (`packages/agent-core`) | the graph state of a run; `agent_sessions` rows | nodes receive, loadContext, compilePrompt, callLlm, decideAction, awaitApproval, execute, complete; `AgentRunner.run`, `resume` | no step is skipped; no write action is executed without its approval; the nodes' transitions are audited; a session ends or waits |
| State machine, decision matrix (`state-machine.ts`, `adm.ts`) | none | `enforceTransition`, `requiresApproval`, `evaluateAdm` | the tables themselves |
| Approvals API (`apps/api/src/approvals`) | `pending_approvals` rows | list, approve, reject | an approval is decided once, and deciding it moves the session on |
| Approval lock (`packages/redis/src/lock.ts`) | a Redis key per session | acquire (SET NX EX), release (compare and delete) | mutual exclusion, released on every way out |
| Audit (`packages/audit`) | append-only events | `log`, `logEvent`, `logStateTransition` | no transition a node logs is missing |
| Credits (`packages/credits`, `packages/redis/src/credits.ts`) | a balance in Redis, an append-only ledger in PostgreSQL | deduct (Lua), refund, getBalance, the interceptor | balance and ledger agree; never negative |
| Connector events (`apps/api/src/connectors`) | `connector_events` rows, the active set, guard keys | create, webhook, retry or dead-letter worker | no event is lost, retried too often or dead-lettered silently |
| Polling and event streams (`polling/`, `packages/redis/src/streams.ts`) | a Redis stream per tenant, its consumer group | poll, publish, read, acknowledge | every entry is handed out once and none is skipped |
| Jira connector (`packages/connector-jira`) | an idempotency record per key | read (search with a cursor), write, health check | one effect per key but for named causes; a search misses no issue that stood still |
| Authentication (`apps/api/src/auth`, the JWT guard) | refresh tokens and a blacklist in Redis | login, refresh, logout, the guard | a rotated token is dead; a login gives one chain of pairs; it does not end without a cause |
| Chat gateway, notifications; the chat page (`apps/api/src/chat`, `apps/web/src/app/chat`, `useWebSocket`) | open sockets per tenant; the page's socket and waiting flag | connect, verify, chat, push, disconnect; open, ask, receive, leave | only live sockets are registered; one question at a time; a question is answered |
| Users and roles (`apps/api/src/users`, `roles`) | rows, grants, a pool of connections | create, update, remove, assign roles | few rows share an e-mail or a name, although nothing forbids it; roles are replaced; the pool comes free |
| Prompt compiler and layers (`packages/prompt-compiler`) | layer rows | compile, budget, conflicts | the prompt fits its budget, and what it leaves out is flagged |
| Memory (`packages/memory`) | encrypted rows per user and role | load, write | every replica can read what any wrote |
| RLS, session and license cache, vault, observability, other pages, infrastructure | see section 6 | | not modelled |

How they meet: the chat page asks its question over a socket of one replica; the
gateway there starts a run of the graph for it; the run loads memories and compiles
the prompt, and its nodes write session rows, audit events and, for an action that
needs it, an approval row under the approval lock, and the graph then ends
("suspends"). The answer, and a notice to the clients of that replica, go back over
the sockets. The approvals API resolves the row in a later request, in any replica,
and runs a second, shorter graph on the same session. Nothing else connects the two
graphs: they share only rows. Webhooks and polling write to the tenant's stream; the
DLQ worker retries event rows. The credit interceptor and the JWT guard wrap API
requests.

What is hard here: every node is a chain of awaited calls, each in a transaction
of its own; runs, requests and replicas interleave between any two of them; any
call may throw and be caught by a handler that does something else; a process may
die between two writes; checks and the writes they justify are separate; no write
of a session or an approval looks at the value it overwrites; sockets close while
their token is verified; tokens, records and guard keys expire while they are used;
and several Redis commands are sent again when their reply is lost
(`packages/redis/src/client.ts`, `maxRetriesPerRequest`).

The hazards, each at its line, with the properties that watch it, are in
`PROJECT.json` under "hazards".

## 2. Plan

Done, in the order in which the parts matter:

1. **AgentSession**, with AgentTables and the abstract **ApprovalGate**: the
   pipeline, the approvals API, the lock and the audit trail. All its safety
   properties are proved.
2. **CreditLedger**: deduct, refund, getBalance and the interceptor over one Redis
   balance and the ledger.
3. **ConnectorEvents**: a connector's creation, the webhook, the dead letter worker's
   overlapping passes, the guard key.
4. **AuthTokens**: login, refresh, logout, the guard, over time.
5. **JiraConnector**: concurrent writes with idempotency keys, searches, polls and
   the consumers of the stream.
6. **ChatGateway**, with the abstract **Conversation**: pages, sockets and replicas, with
   asynchronous verification.
7. **Accounts**: users and roles as concurrent READ COMMITTED transactions over a pool.
8. **AgentContext**: memory and its key, prompt layers and the budget.

Left, in this order:

1. A module for `acquireLock` with its token and its time to live. In AgentSession the
   token decides nothing (below); it would once two processes work on one session.
2. The composition of ChatGateway with AgentSession. Today a run reports to a page
   only that it ended, so ChatGateway keeps of it just that.

## 3. Modules

| Module | Role |
| --- | --- |
| `AgentTables` | the state machine's and the decision matrix's tables |
| `AgentSession` | the pipeline, in detail |
| `ApprovalGate` | what the approval flow promises, in three actions |
| `CreditLedger` | one tenant's credits, in Redis and in the ledger |
| `ConnectorEvents` | a connector's events, retried and dead-lettered |
| `AuthTokens` | the tokens of one user, over time |
| `JiraConnector` | writes, searches and polls of one connector, and the consumers of its stream |
| `ChatGateway` | pages, their sockets, and the gateway of each replica |
| `Conversation` | what the chat promises a page, with no sockets or runs |
| `Accounts` | users and roles of one tenant, as database transactions |
| `AgentContext` | what a run is given before it calls the model: memories and the prompt |

Each of them but `AgentTables` and the two abstract ones, `ApprovalGate` and
`Conversation`, has an `MC` module, which gives TLC its
instance, and a `_proofs` module with its theorems. Every action of a module is one
awaited call of one actor with all the code does up to its next await, so the
interleavings of a model are those of the event loops and processes that run the code.
`at[p]` is the program counter of actor `p`. Definitions that begin with the comment
"Mutant" are the code with a plausible error in it; nothing uses them but the list of
mutants in `PROJECT.json`, which shows that each property can fail.

### AgentSession

An *invocation* is a run of the graph (`Runs`) or a request on an approval
(`Requests`). `at[p]` names the node an invocation is in and the awaited call it is
about to make; each action is one such call with everything the code does up to the
next. Both rows are named after the run that creates them.

| Variable | In the code |
| --- | --- |
| `session` | `agent_sessions.state` |
| `been` | the states each session has ever been in; bookkeeping of the model |
| `approval`, `expired` | `pending_approvals.status`, and whether `isExpired` holds of the row |
| `locks` | keys `lock:<sessionId>` in Redis |
| `trail` | the `AGENT_STATE_TRANSITION` audit events |
| `performed` | invocations that got through the execute node's state write, where the action is to be dispatched |
| `ask`, `req` | the inputs of `AgentRunner.run` and of the approvals service |
| `at` | the program counter of an invocation |
| `faults` | how many calls threw and processes died, bounded by `MaxFaults` |

| Action | Code |
| --- | --- |
| `Receive`, `CreateSession` | `nodes/receive.node.ts`: the check and the insert, two transactions |
| `UpdateState`, `LogTransition` | `updateSessionState` and `logStateTransition` in receive, loadContext, compilePrompt, callLlm, decideAction, execute and the resumed awaitApproval; `From`, `To` and `NextNode` give each node's states and outgoing edge |
| `AcquireApprovalLock`, `CreatePendingApproval`, `ReleaseLock`, `Suspend` | `nodes/await-approval.node.ts`, fresh path |
| `ReadApproval` | the same node, resume path |
| `FetchAndVerify`, `ResolveApproval` | `approvals.service.ts`, approve and reject |
| `MarkFailed` | `safeMarkFailed`, whose own failure is swallowed |
| `Throw`, `Crash` | a call that throws (`Handler` is the catch or finally it lands in), a process that dies |
| `ExpireApproval`, `ExpireLock` | time: 48 hours since the request, the lock's TTL |

Abstractions, each on purpose:

- Reads whose value only decides whether a node throws (the session in
  loadContext, memories, prompt layers) belong to the write after them.
- A call that takes effect and whose reply is lost is the same as the call
  returning and the next one throwing, in every state the properties look at; so
  `Throw` has no effect of its own. The exception is SET NX, which the Redis client
  sends again (`packages/redis/src/client.ts`, `maxRetriesPerRequest`): that is the
  `resent` choice of `AcquireApprovalLock`.
- The session a run works on is the one it created, so no two runs compete for one
  lock key, and the ownership token of the lock is left out.
- The LLM call and the dispatch of the action are placeholders in the code
  (`call-llm.node.ts:5`, `execute.node.ts:5`). They are where their nodes write the
  session's state; `performed` records the second.
- `AgentRunner.run` gives the graph no action type today. `buildGraph` takes any,
  as the tests do (`__tests__/graph.test.ts:208`), so a run may ask for any action.
- Events logged without awaiting them (`void auditService.logEvent`) change nothing
  the pipeline reads.

### ApprovalGate

Three sets: actions that need an approval, actions somebody granted, actions that
were done. An action that needs an approval is done only after it was granted, and
the need is settled before. `AgentSession` implements it under the mapping in
`Gate`: runs are the actions, `NeedsApproval` gates them, an approve request that is
past the approvals service grants, and `performed` is what was done.

### CreditLedger

A call is a request behind `@CreditCost`, a refund or a read of the balance; `at[c]`
is the await it is about to make.

| Variable | In the code |
| --- | --- |
| `balance` | the Redis key `credit:<tenant>:global`, one for all applications of the tenant |
| `cold` | whether the key was missing at first, and so has to be rebuilt |
| `ledger` | per application, the sum of its `credit_ledger` rows; rows are only ever appended and only their sum is read |
| `job`, `at`, `seen` | the call's parameters, its program counter, and the sum a read has in hand |
| `reloaded` | credits of INCRBYs that Redis did although the client had to send them again; bookkeeping of the model |
| `faults` | calls that failed and commands sent twice, bounded by `MaxFaults` |

| Action | Code |
| --- | --- |
| `Call` | `CreditInterceptor.intercept`, or a caller of the service |
| `Deduct`, `Debit` | `CreditService.deduct`: the Lua script, then the debit row, after which the handler runs |
| `Credit`, `Load` | `CreditService.refund`: the credit row, then INCRBY |
| `Lookup`, `Sum`, `Fill` | `CreditService.getBalance`: GET, the sum over the application's rows, SET |
| `Fail`, `LoseReply` | an await that throws or a process that dies; a command Redis ran and gets again, as `client.ts` allows three times |

`Loaded` is the set of what Redis may hold at first: what was bought, or `NoBalance` (the key
was evicted or never set). A refused request
reads the balance once more for its message; that changes nothing and is left out.
Nothing in `src/` calls `refund` or `getBalance` but their tests: they are modelled as
the service's public operations, called in any order.

### ConnectorEvents

A worker is a place a pass of the dead letter worker can run in: `setInterval` starts
one every minute in every replica and does not wait for the last.

| Variable | In the code |
| --- | --- |
| `connector` | the connector's row, and its membership of `active:connectors:jira` |
| `hook` | where the webhook request of an event is |
| `status`, `count`, `old` | `connector_events.status`, `retry_count`, and whether `received_at` is past the five minutes |
| `guard` | the guard key, as the set of workers that have set it since it last expired |
| `messages`, `alerts` | how many entries the stream holds about an event, and how many alerts |
| `at`, `item`, `batch` | a pass: its next await, the row it works on and the rows to come, as its query read them |
| `faults` | failures and resent XADDs, bounded by `MaxFaults` |

| Action | Code |
| --- | --- |
| `CreateConnector`, `ActivateConnector`, `FailActivate` | `ConnectorsService.create`: the row, then SADD |
| `HandleWebhook`, `PublishReceived`, `FailWebhook` | the webhook: the row, then XADD |
| `ProcessMember` | the query, up to `Limit` rows in no order |
| `CheckGuard`, `CountRetry`, `SetGuard`, `PublishRetry` | `retryOrDlq`: EXISTS, the new count, SETEX, XADD |
| `DeadLetter`, `PublishAlert` | `retryOrDlq` at `MAX_RETRIES`: the row, then the alert |
| `FailPass`, `ResendPublish` | an await that throws, which ends the pass, or a process that dies; an XADD sent twice |
| `Age`, `ExpireGuard` | time |

A delivery the sender repeats is another event: the webhook has no notion of a
duplicate.

### AuthTokens

A pair of an access and a refresh token is named after the request that signs it. Time
passes in ticks; `stored` and `banned` hold until when Redis keeps a record.

| Variable | In the code |
| --- | --- |
| `active`, `flips` | `users.status`, and how often it was changed (bounded by `MaxFlips`) |
| `signedAt`, `line` | the `iat` of a pair; the login it goes back to |
| `stored`, `banned` | the `refresh:` keys and, for tokens of either kind, the `blacklist:` keys, with their expiry |
| `op`, `bearer`, `token` | what a request asks for, the token it shows the guard, the refresh token it carries |
| `at`, `found`, `left` | its await; the status it has read; the time to live a logout has computed |
| `now`, `trusted` | the clock; when the user was last active, or seen so by a request under way (bookkeeping) |
| `met` | lines in which two refreshes held one token at the same time (bookkeeping) |

| Action | Code |
| --- | --- |
| `Login`, `Refresh`, `Logout`, `Other` | a request of a client, with tokens of pairs it was answered with |
| `Verify`, `Blacklist` | the guard (`jwt-auth.guard.ts`), and `verifyToken` in refresh |
| `Get`, `ReadUser`, `ReadGrants`, `Revoke`, `Sign`, `Store` | `AuthService.login` and `refresh`, in the order of their awaits |
| `Measure`, `Ban`, `Drop` | `AuthService.logout`; `Drop` swallows what DEL throws |
| `Fail`, `SetStatus`, `Tick` | a call that throws or a process that dies; an administrator; time, at which Redis drops records |

Signatures are abstracted to who signed what and when. The two tokens of a pair are signed
alike and differ in their lifetime only (`packages/auth/src/jwt.ts`), and the guard does not
look at the kind, so the model shows it either. An access token in the place of a refresh
token is left out: no record has its id, so refresh refuses it. The web client only uses login: it keeps the access token and
calls neither refresh nor logout, which are modelled as the API offers them. `login`
reads its user before a tenant is known, outside `withRls`; rows are taken as visible.

### JiraConnector

| Variable | In the code |
| --- | --- |
| `order` | the issues in Jira, in the order of the poll's `updated DESC` |
| `record`, `expired` | the idempotency records in Redis, and those whose 24 hours are over |
| `job`, `answer`, `did` | a call of `write`, what it returned, whether Jira did it |
| `beside` | the writes of its key that were between check and record when a write found no record; bookkeeping |
| `cursor`, `page` | `startAt` of a search; what a poll has read |
| `owed` | what a search is still to return: there when it began and never moved to the front |
| `stream`, `group` | the tenant's stream, the last entry its consumer group was handed |
| `got`, `hand`, `acked` | what each consumer was handed, has still to handle, has acknowledged |

| Action | Code |
| --- | --- |
| `Write`, `CheckIdempotency`, `Call`, `SetIdempotency`, `Expire` | `JiraConnector.write`: GET of the record, the request to Jira (done, refused, or done with its answer lost), SETEX of the record; its time to live |
| `Search`, `SearchIssues` | `JiraConnector.read` page by page, as a caller follows `nextCursor` |
| `Poll`, `PollConnector`, `PublishEvent` | the polling service: the first page, then XADD, which may be sent twice |
| `EnsureConsumerGroup`, `ReadEvents`, `AcknowledgeEvent` | `packages/redis/src/streams.ts`: XGROUP from the first entry, XREADGROUP `>`, XACK |
| `EditInJira`, `Fail`, `RestartConsumer` | users of Jira; a call that throws or a process that dies; a consumer that dies and starts over |

An update and a transition are one action, since both change one issue. Nothing in the
repository consumes the stream, so the consumers are callers of the package's operations
in the order its comments give.

### ChatGateway

A socket is seen from its two ends: `link` is its state in the browser, and the gateway
learns of a close later (`down`).

| Variable | In the code |
| --- | --- |
| `latest`, `current` | the socket a page's effect opened last; `wsRef`, which handlers may clear |
| `loading`, `inVain` | the page's waiting flag; whether its question went into no socket or its socket has gone since |
| `owner`, `link`, `failing`, `failed` | whose handlers a socket calls, its `readyState`, its error event to come or come |
| `host` | the replica it is connected to |
| `verifying`, `ready`, `clients` | the await of `handleConnection`, `isReady`, the registry of the gateway |
| `down`, `late` | `handleDisconnect` was called; the socket was registered after that |
| `asked`, `running`, `events` | messages to the gateway, runs of the agent, messages to the browser |

| Action | Code |
| --- | --- |
| `OpenPage`, `RerunEffect`, `LeavePage` | the effect of `useWebSocket` and its cleanup; React's strict mode runs it twice |
| `HandleSend`, `OnMessage`, `OnError` | the handlers of `page.tsx` and of the hook |
| `HandleConnection`, `Verified`, `Unverified`, `HandleDisconnect` | `chat.gateway.ts`, before and after the await of the token |
| `HandleChat`, `RunEnds` | `handleChat` and what follows the run: an answer, an answer and a notice to the replica's clients, or an error |
| `Break`, `Crash` | a connection that is refused or breaks; a replica that dies |

### Conversation

Four sets of pages: those that are there, those with a connection, those that show they
wait, and those whose question is still to be answered. An answer is to a pending question,
takes it away and ends the waiting; a pending question is lost only with its page's
connection, and the page goes on waiting. `ChatGateway` implements it under the mapping in
`Talk`: a page has a connection while its latest socket is open, and a pending question
while one is under way there, as a message, a run or an answer.

### Accounts

Each operation is a transaction of statements at READ COMMITTED: a statement sees what
was committed when it began and waits for rows that others have changed; `put`,
`dropped`, `added` and `removed` are what a transaction has written and not committed.

| Variable | In the code |
| --- | --- |
| `name`, `active`, `grants` | `users.email` or `roles.name`, `users.status`, `user_roles` |
| `job`, `at` | a request and its statement |
| `put`, `dropped`, `added`, `removed` | its uncommitted writes |
| `had` | the grants its DELETE was to find; bookkeeping |

| Action | Code |
| --- | --- |
| `Request`, `Begin`, `Commit` | the controller and `withRls`: a connection of the pool, BEGIN, COMMIT |
| `CheckName`, `Insert`, `Update` | create, update, remove of a user; create and update of a role |
| `Clear`, `Grant`, `DeleteRole` | `assignRoles`, and remove of a role |
| `FindById`, `Found` | an update with nothing in it, which calls `findById` inside its transaction: a second connection |
| `TimeOut`, `Fail` | `connectionTimeoutMillis`; a statement that throws or a process that dies |

Ids are numbers because the check of a new e-mail compares them. `Empty` is the name `""`:
`UpdateRoleDto` lets it through, the other three DTOs do not, and `roles.service.ts:81` takes
it for no name and writes it unchecked.

### AgentContext

| Variable | In the code |
| --- | --- |
| `secret`, `key` | the encryption key in the environment; the one each process was started with |
| `memory` | per row, the key it was encrypted with |
| `active`, `maxTokens` | the general layers in use; the budget |
| `on`, `loaded`, `chosen`, `result` | a run's replica, the memories it has loaded, the layer its compiler read, what it returned |

| Action | Code |
| --- | --- |
| `StartLoading`, `LoadMemory` | loadContext: both memories side by side; a row that cannot be decrypted fails the run |
| `Compile` | `PromptCompiler.compile`: conflicts, assembly, `enforceBudget` |
| `WriteMemory` | `writeUserMemory`, `writeRoleMemory`, from any replica |
| `Rotate`, `Restart`, `EditLayers` | operators and administrators |

A text is its length, and for a layer whether a conflict pattern matches it.

## 4. Runs

| Run | Instance | Shows |
| --- | --- | --- |
| `agent_safety` | 2 runs, 2 requests, 2 users, 1 fault (1.0 million states) | the safety properties and the refinement hold |
| `agent_live` | 2 runs, 2 requests, 1 user, no faults, fair | the two liveness properties hold |
| `agent_one_active` | 2 runs, 1 user, no faults | finding 1 |
| `agent_terminal` | 2 runs, 1 user, no faults | finding 2 |
| `agent_unapproved` | 1 run, 2 requests, fair | finding 3 |
| `credits` | 4 calls, 2 applications, 3 credits or no balance in Redis, 2 faults | Redis and the ledger stay together; only a stale rebuild mints credits |
| `events` | 1 event, 2 workers, 3 retries, 2 faults, fair | retries are earned, guarded and end with an alert |
| `auth` | 3 requests, access tokens of 1 tick, refresh tokens of 2, 2 ticks, 1 change of status, 1 fault (1.8 million) | what ends tokens, when, and what does not |
| `jira` | 2 writes with 2 keys, 2 issues, 1 search, 1 poll, 2 consumers, pages and reads of 1, 1 edit, 1 fault (3.5 million) | answers, records, searches and consumers |
| `chat` | 2 pages, 2 sockets, 2 replicas, 2 questions, 1 crash, fair (385 thousand) | waiting, registry, answers, and the chat as a Conversation |
| `accounts` | 3 requests of 14 kinds, 2 users and 2 roles (one named `""`) with room for 2 more each, a pool of 2, 1 fault, fair (141 thousand) | names, roles, status, and a pool that comes free |
| `context` | 2 runs, 2 replicas, 3 layers, 5 budgets, 1 rotation (311 thousand) | prompts fit and are honest; memories are readable |

Properties of `agent_safety`:

- `NoApprovalBypass`: an action that needs an approval is executed or done only
  once somebody approved it (`docs/architecture.md:137`, "0% - zero tolerance").
- `TrailLagsByOne`: for every state but FAILED that a session has ever been in, the trail has
  the transitions the nodes made on the way there, all but the last; and it names no state the
  session was never in. FAILED is left out because the code logs nothing of it (see the end of
  this section).
- `ResumeSeesDecision`: a resumed graph always finds its approval decided. So three
  branches of the resume path (missing, pending, expired) are dead from the API.
- `RestingStates`: with no faults, a session nobody works on has ended or waits for
  an approval that exists, what is pending is waiting, and no lock is left over.
- `LifecycleOrder`: a session moves along `VALID_TRANSITIONS`, fails, or, once its
  approval was requested, moves among the last three states; it never goes back
  before AWAITING_APPROVAL. That is the strongest order that unconditional writes
  by two requests and a late run leave (see finding 2).
- `ImplementsGate`: the refinement.

None of these says that an approved action is executed once. Two requests that both find the
row pending (`approvals.service.ts:29`) both resume the graph, and both execute; or one
executes and the other leaves the row `rejected`. Both happen in this run.

Properties of `agent_live`: `SessionsSettle` (a created session ends or waits for an
approval) and `ApprovingSettles` (approving ends a session for good, if the run that
asked for the approval has returned when its row is found pending).

Properties of the credits:

The first three speak of a balance that was in Redis at first and never had to be rebuilt.

- `NeverOverdrawn`: it is never missing and never below zero.
- `SpendingCovered`: what has been served is never more than what was given (the
  ledger's sum is not negative), repeated INCRBYs apart. A deduction whose row was never
  written is the tenant's loss; nothing finds it, and `SpendingCovered` allows it.
- `BooksAgree`: without faults the balance is the ledger's sum less what is in flight
  between the two, exactly. With faults it may be less: a deduction whose row failed,
  or a refund whose INCRBY failed, is lost to the tenant.
- `MintedByStaleFillOnly`: when the balance has to be rebuilt, Redis comes to grant
  more than the ledger only in a step of `getBalance` that overwrites a balance in use,
  or that counts a refund's row before the refund loads it.

Properties of the connector events:

- `CountIsEarned`: every retry the row accounts for was published, is about to be, or was
  lost to a fault, although passes overlap and write each other's counts back.
- `DeadLetterAlerted`: without faults, no event is dead-lettered silently. After a fault
  it may be: nobody selects a row again whose alert was not published.
- `GuardHoldsBack`: while a guard lasts, the worker that set it does not retry the event
  again. That is all EXISTS followed later by SETEX gives: a pass that looked before
  another one set the key retries the event within the same five minutes, so the guard does
  less than `packages/redis/src/keys.ts:58` says ("prevents re-processing the same event
  within the retry interval").
- `RetriesNeverStartOver`: a stale pass may take the count back, never below what the row
  and all passes had reached.
- `EventsDrain`: every event of an active connector ends in the dead letter queue. Nothing
  in the repository marks an event processed, so this is the end of every event; the
  property shows that overlapping passes cannot keep one from it.

Two things to know about the worker, though no run is about them. An event is published
three times in all, by the webhook and by two retries, where `docs/architecture.md:278`
says "Retry 3 times with exponential backoff". And a connector whose SADD fails keeps
receiving events that nobody ever retries.

Properties of `auth`:

- `RotationRevokes`: once a refresh has signed a pair, the token it was given has no
  record, whoever else uses that token: a token and its successor are never both usable.
- `LoggedOutStaysOut`: a logged out access token gets past the guard only after it has
  expired, although the entry's time to live is computed before Redis sets it and several
  logouts overwrite each other's entry.
- `OneHeir`: a line of tokens that goes back to one login has at most one pair that can be used
  for a refresh, or is going to be, as long as no two refreshes of the line have held one token
  at once. When two have, each signs a pair and the line has two from then on, which is why
  such lines are excused.
- `LinesEndForCause`: a line ends only by a logout, the clock, a failure, a refused login,
  or the refusal of a refresh whose token had lost its record; never because two
  refreshes met.
- `DeactivatedOutInTime`: no token shown to the guard verifies later than one lifetime of its
  kind after the user was last active or was seen active by a request still under way.

What the model shows of the tokens besides. A logout does not end a line while a refresh is past
its GET (`auth.service.ts:89`): the logout's DEL finds the old record or none, and the refresh
stores its new pair after it. And since the guard (`jwt-auth.guard.ts:40`) takes a refresh token
as bearer, a deactivated user is let in for up to seven days, not fifteen minutes
(`docs/project_status.md:228`, "access 15m, refresh 7d, rotation"), and a logout, which
blacklists the token it came with, leaves the pair's other token good as bearer until it expires.

Properties of `jira`:

- `AnswerWasDone`: what a write answers was done in Jira under its key, by itself or by an
  earlier write, whatever the record said.
- `DoneIsOnRecord`: what was done is on record, but for an expired record and a write that
  has not made it yet or failed before.
- `DoneTwiceForCause`: one key is done twice only if its record expired, one of the two writes
  failed after its call, or one of them found no record while the other was between its check
  and its record. In the last case the second may call Jira after the first has answered and
  its record stands.
- `MissedOnlyIfMoved`: a search that follows the cursor, an offset into a list that
  changes, misses only issues that moved towards the front or went.
- `EachEntryOnce`: an entry goes to exactly one consumer, those published before the group
  existed included, and is acknowledged, in a hand, or was lost with its consumer.

The model also shows that a key used for another operation returns the first one's
result, as the code has it: `AnswerWasDone` says under its key, not for its request.

Properties of `chat`:

- `OneQuestionPerSocket`: a socket never has two questions under way. The gateway would
  start a run for each; only the page's flag, in another process, keeps to one.
- `WaitsForAnAnswer`: a page waits exactly while its question is under way, unless it had
  no open socket for it or has lost it since. In that case it waits until it is left.
- `RegistryIsExact`: the registry holds the sockets that are ready and connected, and those
  whose token was verified after they had gone, which nothing takes out.
- `MuteByAnOldError`: a page loses hold of its open socket only by the error event of an
  earlier one, as a rerun of the effect leaves behind.
- `ImplementsConversation`: the refinement. Messages carry no name of the question they
  answer, and yet an answer never ends the waiting for a later one.
- `QuestionsAreAnswered`: a question that got into an open socket is answered, or its
  socket goes.

Properties of `accounts`:

- `NamesakesAreBounded`: no role name but `""`, and no e-mail that no update asked for, is ever
  shared by more rows than the pool has connections. Nothing in the database forbids
  namesakes, and requests that check side by side all write; but who checks after one of them
  has committed is refused, whatever is renamed, removed or rolled back meanwhile. The pool is
  that of one process: with two replicas the bound is the sum of their pools. Names come to be
  shared without any race in two ways, which the property leaves out: an update of the user with
  the smaller id (`users.service.ts:161` compares with smaller ids only), two roles renamed to
  `""` (`roles.service.ts:81`). The one row that the check of a role's name
  reads (`limit(1)`) may be the role itself, but only a name that is shared already gets past it so.
- `RolesAreReplaced`: a user who is assigned roles has these, and of the ones had when the
  old were deleted no other. What another assignment commits in between may come on top:
  two assignments that run side by side leave the user with the roles of both.
- `DeactivationSticks`: only a request that asks for it makes a user active again.
- `EveryRequestEnds`: even when each connection is held by a request that waits for its
  second one; the pool's timeout sees to it.

Properties of `context`:

- `PromptFits`: a prompt has at most four characters per token of its budget, with
  rounding, labels and separators.
- `NothingLeftOutSilently`: the general layer is left out only in conflict or over the
  budget, and the flags that make the audit events say which.
- `UnreadableOnlyAfterRotation`: no run fails over a row before the key was rotated. After a
  rotation runs do fail, as long as replicas with both keys are there and for every row
  that is not written again; the property excuses them all.

`packages/db/src/schema/prompt-skill.ts:27` says of a layer's content "AES-256 encrypted". Nothing
decrypts it before the conflict patterns are matched and the prompt is assembled; the model takes
the content as it is stored.

The type invariant of every module is proved below, not model-checked.

Bounds of the agent runs. Two runs are enough for the races between sessions of a user, which is all
runs share; two requests for every race on one approval (approve with approve,
approve with reject) and for one request on each of two approvals; one fault for
every single failure. The proofs cover any number. The messages are a chat, a write that
needs an approval and, in the other runs, the matrix's one draft. Runs and requests are
symmetric. Deadlock is not checked in any run: once all messages and requests have been
used a system is idle.

Bounds of the credit run. Costs and refunds are chosen so that each request alone can
be paid from the three credits and two together cannot; four calls allow two requests
with two refunds or two reads around them, and a stale rebuild needs two reads and two
requests. Two faults cover a command sent twice that then fails. Calls are symmetric.

Bounds of the event run. One event and two workers give every overlap on a row, with
the repository's three retries; a third retry level is what lets a count go back from
two to one.

Bounds of the others. `auth`: three requests give two that meet on one token and a third
that uses what they have left, or a logout between them; an access token that outlives no
more than one tick less than a refresh token lets each expire alone. `jira`: two writes
for every race on one key, and one on another key; pages of one issue make a search of
two and an edit between them. `chat`: two sockets are a page that reconnects, or two pages
that are each other's neighbours in a replica or not. `accounts`: two requests for each
race on a name or a user's roles, a third for one that comes when a connection is free again,
so that a bound of two can be broken, and a pool of two that two empty updates exhaust. Requests
differ in nothing but their jobs; symmetry is not sound with a liveness property, so the
constraint `InOrder` looks at each choice of jobs in one order of the requests only. It cuts off
no step of a request that was made: only `Request` sets a job. `context`: lengths around the multiples of four at
which the rounding and the budgets bite. Replicas, runs, requests, writes and consumers
are symmetric where TLC is told so; runs with liveness properties use no symmetry.

Fairness. AgentSession's `FairSpec` has weak fairness on the steps of an invocation in flight: a
call that was made returns, and JavaScript runs what follows. There is none on
messages and requests arriving, on faults, or on time passing.

ConnectorEvents' has weak fairness on time (five minutes do pass), on the start of a
pass in every worker (the timer) and on the awaits of a pass in flight; none on
creating, delivering or failing. The number of faults is bounded, so every pass is
followed by one that gets through.

ChatGateway's has weak fairness on the delivery of messages both ways (a socket is TCP)
and on the end of a run (which `agent_live` is about); none on verifying a token, opening,
asking, breaking or crashing. Accounts' has it on the next statement of each request, and
the timeout is one of them: statements return, a lock is granted when its holder ends.

Findings, each a run that TLC refutes:

1. `OneActiveSessionPerUser` (`receive.node.ts:10` and `:20`): two messages of one
   user that arrive together both get a session. The documentation says the second
   waits.
2. `TerminalStatesFinal` (`await-approval.node.ts:84`): the run that asked for an
   approval writes AWAITING_APPROVAL once more after the approval is visible. An
   approver who is fast enough sees the action done and the session COMPLETED, and
   the late write takes it back to AWAITING_APPROVAL, where it stays.
3. `UnapprovedSessionEnds` (`approvals.service.ts:50`): nothing resumes the graph of
   a rejected or expired approval, so its session waits for ever and, being active,
   blocks its user.

The models show more things that have no run of their own:

- `getBalance` (`credit.service.ts:60`) sets the key to a sum that may be out of date, over
  deductions made since; requests are then served with credits that were spent. No document
  promises otherwise; `MintedByStaleFillOnly` shows that it is the only way to mint credits.
- The balance is one key per tenant (`packages/redis/src/credits.ts:44`), so an application
  that has bought nothing spends what another one bought. `docs/architecture.md:410` says
  credits do not transfer between applications.
- `docs/architecture.md:56` says "Every state transition is written to the audit log". No change
  to FAILED is: `safeMarkFailed` logs nothing. Nor is the write of AWAITING_APPROVAL at
  `await-approval.node.ts:84`, which finding 2 makes a transition from COMPLETED; and when a
  session that failed after its approval was requested is resumed, FAILED -> EXECUTING is
  logged as AWAITING_APPROVAL -> EXECUTING (`await-approval.node.ts:29-37`). In the terms of the
  model, a `MarkFailed` leaves `trail` as it is.
- `docs/architecture.md:115` says "Duplicate execution of the same key is a no-op", and
  `docs/architecture.md:1081` "Same key on second request returns cached response. Operation does
  not re-execute." The Jira connector does re-execute in the three cases of `DoneTwiceForCause`:
  two writes side by side, a record that expired after its 24 hours, and a stop between the call and
  its record.
- Over the budget, everything but layer 1 is dropped (`token-budget.ts:53`).
  `docs/architecture.md:86` says layer 2 is never trimmed.

## 5. Proofs

`AgentSession_proofs` holds for every set of runs, requests and messages and any
bound on faults, from the four assumptions named in `AgentSession`: runs and requests
are different things, `NoAsk` and `NoRequest` are no message and no request, a
message has one of the four user types, the bound is a natural number.

- `TypeCorrect`: `Spec => [](TypeOK /\ Places)`. `TypeOK` is not inductive: the
  program counter alone allows a run in the approvals service, where the functions
  `From`, `To` and `NextNode` say nothing. `Places` adds, per node, the calls an
  invocation can be at and what was asked of it (a run is in awaitApproval only if
  its action needs an approval; a request beyond the approvals service approves).
- `ApprovalIsNeverBypassed`: `Spec => []NoApprovalBypass`. The invariant says nothing of how
  an action gets to be done, so `Legitimate` strengthens it: who performed is in the
  execute node, and a session that executes or is completed was granted or belongs
  to a run that needs no approval. Grants are stable (`GrantedStable`), only
  `UpdateState` makes a session execute (`ExecutingWrites`), and by `Places` an
  invocation that does so is a granted request or a run without need.
- `PipelineImplementsGate`: `Spec => ImplementsGate`. The gate must learn of the need
  before the grant and the deed, so `Requested` adds that an approval row belongs to a
  run that has started and needs it. Then each step changes at most one of the three
  sets, and by one action of the gate (`ReceiveGates`, `ResolveGrants`,
  `ExecutePerforms`); every other step is a stutter.
- `ResumesAfterDecision`: `Spec => []ResumeSeesDecision`. `Asked` says that a run with an
  approval row is past its insert, so nothing makes a resolved row pending again, and that
  a request in the resumed graph works on a resolved one.
- `SessionsKeepTheOrder`: `Spec => LifecycleOrder`. `InOrder` says that a session without
  an approval row is in the state its run's next write starts from, or has just written;
  once there is a row, only the last three states are written (`RunMoves`, `RequestMoves`).
- `TrailIsNeverTwoBehind`: `Spec => []TrailLagsByOne`, which speaks of the nodes' transitions and
  of none to or out of FAILED. `Logged` says that whoever is
  at a node finds the transitions before that node's own in the trail (`Reached`); the trail
  only grows, and each node logs its transition before the next node is entered.
- `CalmSessionsRest`: `Spec => []RestingStates`. Without faults, `Settled` and `Awaited` tie
  every session that nobody works on to its approval and its lock.

Their steps rest on three lemmas that say what a step of a run or of a request can change
at all (`StepKinds`, `SessionChanges`, `ApprovalChanges`).

`CreditLedger_proofs` holds for every finite set of calls and of applications, any jobs,
any bought credits and any bound on faults, from the assumptions named in `CreditLedger`. All
of them are about the shape of the instance but one: `InStepAssumption`, that a balance Redis
has at first is what the ledger sums to. Only `BooksAlwaysAgree` and `SpendingIsCovered` use it.

- Sums. `Total` and `Pending` are the library's sums over a finite set, which it defines by
  choosing a function that obeys the fold's equation. That there is one (`SumExists`), that it
  does not matter which element comes first (`SumRemove`) and what a changed summand does
  (`SumUpdate`) are inductions over the subsets. The library's induction theorems are no use
  here, but well-foundedness is: among the subsets with a counterexample one has no other
  below it (`SmallestSubset`), and the equation refutes that one.
- `TypeCorrect`: `Spec => []TypeOK`.
- `BalanceIsNeverOverdrawn`: `Spec => []NeverOverdrawn`. The invariant alone is not
  inductive, since a rebuilt balance may be any number (even negative, when an application
  spent what another one bought). `Solvent` adds that while the key was there from the
  start nobody is rebuilding it.
- `BooksAlwaysAgree`, `SpendingIsCovered`: both follow from `Books`: what the ledger grants
  beyond Redis and the calls between the two (`Reserve`) is never below zero, and is zero
  until there is a fault. `ReserveStep` shows why: call, script, row and INCRBY leave it as it
  is, a failure or a repeated deduction only adds to it, and only `Fill` could do
  otherwise, which `Solvent` rules out.
- `OnlyAStaleFillMints`: `Spec => MintedByStaleFillOnly`. By the same lemma the step is a
  `Fill`. If it is not stale, `Missing` says that nobody can have spent so far, so that the
  ledger has only grown since the sum was read, and no application's sum is more than the
  total (`SumAtLeast`).

`ConnectorEvents_proofs` holds for any events, any finite number of workers, any
`MAX_RETRIES` and `Limit` above zero and any bound on faults.

- `TypeCorrect`: `TypeOK` with `Retryable` (a row that is not dead, and a row a pass has
  read, is below `MAX_RETRIES`: so the dead letter branch is taken at `MAX_RETRIES`
  exactly) and `Delivered` (nothing is known of an event before its delivery).
- `GuardAlwaysHoldsBack`, `CountHasAFloor`, `DeathIsAlerted`: inductive with the above.
- `CountIsAlwaysEarned`: `Spec => []CountIsEarned`. A pass writes a count it has read long
  before, so `ReadIsEarned` says the same of what the passes have read. No step takes
  away from what an event has earned (`EarnedGrows`), counting a retry adds to it
  (`CountingOwes`), and the rest is a case analysis of who writes the row.

`AuthTokens_proofs` holds for any requests, any times to live above zero, and any number
of ticks, changes of status and faults. All theorems rest on `Basis`: types, the places a
request can be at given what it asks for, and that the tokens presented are of pairs a
client was answered with (`Presented`; what such a client knows never changes, `KnownStays`).

- `RotationAlwaysRevokes`: `Rotated` extends the property to a refresh that has deleted the
  old record and not signed yet. A record is only stored for a request that was not
  answered, so it is never that of a presented token.
- `LogoutIsKept`: `Covered` says what a logout owes the token from `Measure` on: the entry it
  is about to set, and every entry set, reaches the token's expiry.
- `OneHeirEach`: `Single` strengthens it: in a line where no refreshes met, at most one refresh is
  past its GET, at most one pair is on record, and if there are both it is that refresh's own
  token. `Lineage` and `Rooted` give the line of a pair that is signed and not stored.
- `LineEndsHaveACause`: `EndedOnRecord` adds that only the pairs of requests that have ended
  are on record, so a request that signs its pair takes no record out of another line.
  Then it is a matter of how a record goes (`RecordGoes`) and how a request stops being
  one that may sign (`IssuingEnds`).
- `DeactivationTakesEffect`: `Fresh` bounds every signing time by `trusted`, as whoever is
  about to sign counts as having seen the user active. The lifetime is that of the kind of the
  token shown.

`JiraConnector_proofs` holds for any writes, keys, issues, page sizes, polls and consumers.

- `AnswersAreOfDeeds`, `DeedsAreOnRecord`: `Recorded` joins both with what is on record and
  who has called; records are shared, but each was written from a deed under its key.
- `TwiceHasACause`: `Caused` says the same of a write that has done its work and one that is
  past its check, and needs `Recorded`: who finds no record after the other has made it finds it expired.
- `SearchesMissOnlyTheMoved`: `Ahead` says that what a search owes lies behind its cursor
  in the list; an edit moves an issue over the cursor only in the direction that takes it
  off what is owed (lemmas on `RemoveAt` and on the list's changes).
- `EntriesAreHandedOutOnce`: `Handed` says that what was handed out is shared out among
  the consumers without overlap, and that nothing in nobody's hand is unacknowledged
  without a fault.

`ChatGateway_proofs` holds for any pages, sockets, replicas, questions and crashes.

- `RegistryAlwaysExact`: inductive once it is known that a late socket has been disconnected.
- `OneQuestionEach`, `WaitingIsForAnAnswer`: neither is inductive, and each needs the other.
  `Asking` is both of them with `Fresh` (nothing is under way on a socket that never
  opened) and `Waiting` (a question is in vain if its socket has closed, and only while its
  page waits; an open socket of such a page has nothing under way whose answer would end the
  waiting for another question). `Owned` ties sockets to pages: a living socket is the latest of the page it
  calls. What sending and receiving do to the number of answers in a queue is in
  `CountAppend` and `CountTail`.
- `ChatImplementsConversation`: `Spec => ImplementsConversation`, from `Owned` and `Asking`.
  A handler of a page is one action of the conversation or, for a message that is no
  answer, a stutter; opening a socket takes one page online (`Owned`), and whatever closes
  sockets takes their pages offline (`CutsOff`). Every other step keeps what is under way
  on open sockets (`OutstandingKept`) and is a stutter. That an answer is to a pending
  question, and to the only one, is `OneQuestionPerSocket`.
- `MuteOnlyByAnOldError`: `Holds` says that a page without its socket has had an error of
  one of its own, and `ErrorsAreOfClosed` that errors come from closed sockets only.

`Accounts_proofs` holds for any finite sets of requests, users and roles, any jobs that the
controllers let through (`AccountJobsAssumption`: whoever creates gives a name, only an update of
a role gives `""`), names that are unique at first but for none, and any pool and faults.

- `TypeCorrect`, and an invariant of three parts: where a request is, given what it has written
  (`Progress`); what it wrote fits the row as it found it (`AsFound`); no two requests have
  written one row (`Alone`, which is what the row locks give).
- `NobodyReactivatesByAccident`, `AssigningReplaces`: each from it, for the step that commits.
- `FewShareAName`: `Spec => []NamesakesAreBounded`. `Pooled` says that the pool never lends more
  than it has, which is an induction over the steps with cardinalities, as `FindById` takes a second
  connection. `Bounded` says that the rows which have a name, or will by an update that has passed
  its check, are with the creations that have passed theirs at most as many as the pool is large. A request
  only passes the check while no other row has the name (`CheckFits`): then all who count hold a
  connection (`FitsThePool`), or nobody is added, when the role has the name itself. A commit moves one from those who ask to those who have
  (`CommitFits`), and every other step takes away.

`AgentContext_proofs` holds for any lengths, layers, budgets, replicas and rotations.

- `PromptsFit`, `LeavingOutIsFlagged`: `RoundingUp` states what Math.ceil gives
  (a length counts as at most n tokens iff it is at most four times n), and `Answered` is
  what each outcome of the compiler satisfies.
- `UnreadableByRotation`: `OneKey`: before a rotation all keys and all rows are alike.

Every invariant and every action property of every passing run is proved. Only
model-checked: the liveness properties (`SessionsSettle`, `ApprovingSettles`, `EventsDrain`,
`QuestionsAreAnswered`, `EveryRequestEnds`), which the prover cannot do, as it has no rule
for fairness and ENABLED.

## 6. Not modelled

Contents of prompts, memories, payloads and audit events; the HTTP layer around the
services (validation, error mapping); row level security, which is one SET LOCAL at the
start of each transaction and policies that PostgreSQL evaluates: rows are taken as
visible to the tenant they belong to; the session and license caches, which nothing uses;
the vault, whose only state is its client's token; observability; the dashboard, admin,
approvals and login pages, each of which shows what its last fetch returned; the order of
lists (users, approvals, audit events), which the queries leave open; the seeds and the
deployment. `PROJECT.json` says of each component whether it is modelled, and why not.
