# Verification of the Open Personal Agent Platform

TLA+ models of the platform's stateful core, TLC runs that check them on small
instances, and TLAPS proofs that carry the most important results to every value
of the constants. Paths below are relative to the repository root (`apps/...`,
`packages/...`, `docs/...`).

Run a model with `tlc -workers 2 -config X.cfg MCModule.tla`, check proofs with
`tlapm XProofs.tla`, both in this directory.

## 1. The system

The platform is a set of Cloudflare Workers around a few Durable Objects, one D1
database (`CONTROL_DB`) and R2 buckets. Workers are stateless between requests;
everything that lasts is in a Durable Object's SQLite tables, in D1 or in R2.

| Part | State | Operations | Talks to |
| --- | --- | --- | --- |
| `apps/quota-worker` | Durable Object: `reservations`, `usage_rollups`, `non_ai_budget_policies`, `ai_reservations`, `ai_daily_usage`, `ai_monthly_usage`, `ai_budget_policies`, `legacy_import_markers` | reserve, reserve-batch, settle, settle-batch, release, release-batch, reserve-ai, settle-ai, release-ai, set policies, import a legacy shard, usage report; reaping of expired rows before every reserve | called by every worker that does paid or limited work |
| `apps/audit-ledger-worker` | Durable Object: hash-chained `events`, daily `segments`; checkpoints in R2 and D1; an alarm | append, close, retention, `alarm()` (close, then retention, then the next alarm) | R2, D1 |
| `apps/assistant-worker` | none of its own | the owner's API: messages, tasks, memories, conversations, approvals, budgets, settings | conversation-agent, quota, control, gatekeepers, model providers |
| `apps/conversation-agent` | Durable Object: messages, tasks, memories, connector results, idempotency rows; an alarm | exchanges, task mutations, due tasks, connector results | assistant (as task runner) |
| `apps/policy-control-worker` | D1: approvals, delegated sources, Discord links, settings, plugins | create, decide and reconcile approvals, record their execution, issue leases, settings, plugin administration | audit ledger |
| `apps/google-gatekeeper`, `apps/github-gatekeeper`, `apps/discord-gatekeeper` | D1: execution nonces, OAuth connections, Discord destinations, outbox | verify an execution lease, consume its nonce, call the provider, OAuth, reads; Discord's commands and notices | providers |
| `apps/delegated-source-gatekeeper` | D1: OAuth connections of delegated sources | OAuth, reads behind an allowlist | providers |
| `apps/plugin-runtime-worker` | Durable Object: the coordinator's slots and idempotency rows | invoke a plugin under a slot and a quota batch | quota, containers |
| `apps/delegated-agent-api`, `apps/public-agent-api` | - | queries of other agents against allowed sources | quota, sources |
| `apps/discord-adapter`, `apps/discord-gateway-bridge` | dedupe object, gateway session | receive interactions and gateway events once | assistant |
| `apps/maintenance-worker` | D1, R2 | export, retention | every store |
| `packages/*` | - | pure algorithms: approval leases, cost, policy, provenance, model routing, OAuth state, schedules | imported by the workers |

What is hard in it:

* a Durable Object runs one event at a time, but an `await` on anything that is
  not its own storage opens it to other events unless the code is inside
  `blockConcurrencyWhile`;
* every metered operation spans three objects (reserve in the quota object, work
  somewhere else, settle or release in the quota object): replies are lost after
  their effect, reservations expire under a running handler, retries arrive with
  the same idempotency key, handlers die between two calls;
* an approval spans four workers (decision in D1, audit event, lease, gatekeeper,
  provider, outcome): two decisions race, the lease expires on its way, a call is
  delivered twice, an outcome is unknown and must not be retried;
* the audit ledger's alarm works on a snapshot of its segments while awaiting R2
  and D1, next to appends, and is retried by the platform when it throws.

`PROJECT.json` lists these hazards one by one at the line where each bites, with
the properties that cover it or the reason why none does yet.

What makes each part correct:

* **quota**: counters equal the sums over the rows they summarise; a key owns one
  reservation; an outcome is final; committed totals grow only within the limit in
  force; the free allowance is granted once; the usage report agrees with admission;
* **audit ledger**: the chain does not fork; a segment's row describes its events;
  a closed segment does not change once its day is over; its checkpoints match it; events
  are erased only as whole, checkpointed segments, by the alarm only old ones; every
  segment is eventually closed;
* **owner mutations**: an operation takes effect once per key and is charged at
  most once, after its effect; success is answered only when it was charged;
* **approvals**: the effect happens at most once, after an audited positive
  decision; outcomes tell the truth and are final; a lapsed approval stays undecided;
* **conversation tasks**: the one alarm is the earliest task's; a due task is run; an
  occurrence is recorded once and missed ones are not replayed; a one-time task is not
  retried;
* **message exchange**: a stored exchange is charged once; what a model has billed is not
  given back; one run asks for one approval; who is answered has been charged;
* **settings**: an accepted budget is stored and enforced in both halves of the quota
  object; a repeated definition of a source makes no further version; the providers' last
  update is not taken back by the rollback of an earlier one;
* **plugins**: a plugin holds only what the owner approved; a removed one stays removed; a
  token runs once; no more invocations than slots are under way, and slots come back;
* **transfers of connector results**: a model is given what was approved, the record is
  true, one question has one open transfer;
* **OAuth**: a code is exchanged once; a revoked connection is not read and not revived;
* **Discord**: an interaction acts once, as allowed when it was looked up, and is
  answered; a message is asked about once and not lost by a reconnection; commands called
  unchanged are registered; notices that were shown are not queued;
* **queries of other agents**: who is answered has paid a unit, within the limits; who is
  not let in has paid nothing;
* **conversations**: a deleted one is not listed again, a created one is; a late repetition
  takes no newer memory back;
* **exports and retention**: one export per key, complete when it says so; retention
  forgets and breaks nothing that is in use.

## 2. Modules

| Module | Models |
| --- | --- |
| `QuotaLedger` | the non-AI half of the quota object |
| `AiLedger` | the AI half: daily free neurons, monthly overage |
| `AuditLedger` | the audit ledger object, its alarm, R2 and D1 checkpoints |
| `MeteredOperation` | abstract: per key, at most one effect, then at most one charge |
| `OwnerOperation` | the owner's mutations across assistant, conversation and quota; instantiates `QuotaLedger`; implements `MeteredOperation` |
| `ApprovedWrite` | abstract: one effect at most, after an audited approval |
| `ApprovalFlow` | an approval across control, assistant, gatekeepers, provider and audit; implements `ApprovedWrite` |
| `ConversationTasks` | tasks, schedules and the alarm of a conversation, next to the owner's requests |
| `MessageExchange` | the owner's message: model call, tools, stored exchange; instantiates both ledgers; implements `MeteredOperation` |
| `ConnectorTransfer` | a connector's result between its approval, a change of tool and the model |
| `ControlSettings` | the four kinds of settings, their audit events and rollbacks, the two calls to the quota object |
| `PluginLifecycle` | installations, versions and grants of plugins |
| `PluginRuntime` | the coordinator's slots, tokens, and metered invocations |
| `OAuthConnections` | connections of the three gatekeepers with OAuth, and the assistant's list of them |
| `DiscordLinks` | interactions, link codes, the link, destinations, the deferred replies |
| `DiscordGateway` | direct messages through bridge and adapter |
| `DiscordNotices` | synchronised commands, notices and the outbox |
| `AgentQueries` | the delegated and the public query |
| `ConversationRegistry` | conversations, their registry and storage, memories |
| `Maintenance` | exports, retention, and the archives of plugins |
| `RequestHandlers`, `ApprovalHandlers` | packs: an instance of every component that serves requests, and of every one that needs an approval, with their properties |
| `QuotaLedgerProofs`, `AiLedgerProofs`, `AuditLedgerProofs`, `OwnerOperationProofs`, `MessageExchangeProofs`, `ConversationTasksProofs`, `RequestHandlersProofs`, `ApprovalProofs` (of `ApprovalFlow` and `ApprovalHandlers`) | theorems and proofs |
| `MCFairHandlers` | a pack of its own: audit ledger, gateway, links and runtime on small instances, under their fairness |
| other `MCx` | constants and symmetry for TLC |

The three packs put the instances of components that share no variable side by side.
`RequestHandlers` and `ApprovalHandlers` leave every constant of every instance open, under
`InstanceConstants` (each instance's own assumption), so that theorems can be stated of
them; their MC modules give the values. The variable `part` names the component that runs; the others keep
the values of their `Init`.
So a pack's state space is the sum of its components', not their product, and its properties
are those of the components, each guarded by its part. A property of a pack groups what
its component's module states one by one, with the type of its state; it is violated as
soon as one of its conjuncts is. Where components do interact, one module instantiates the
other: `OwnerOperation` and `MessageExchange` run on the ledgers themselves.

### QuotaLedger

State is the tables' columns: `res` (reservations by id), `used` and `reserved`
(usage_rollups), `policy`, `markers`. `legacy` is a history variable: what each
legacy shard contributed. One handler is one atomic action, because none of them
awaits anything after its body is parsed and the object runs one event at a time.
`#reapExpired` is part of `ReserveItems`, not an action of its own. A hard-limit
denial and an idempotency hit leave the reaping behind and nothing else.
Amounts are whole units, so the sum of the amounts of some rows is the
cardinality of a set of units; `Monus` is SQL's `MAX(0, x - y)`. `#reserve` is
`#reserveBatch` for one item; batches are sets (a request that lists one id
twice is outside the callers' protocol and excluded). `Overrun` bounds by how
much a caller may settle above its estimate, which the code accepts.

### AiLedger

Same shape. Money is counted in the price of one neuron, so a column of
micro-dollars is a number of neurons. A reservation splits into `free` (what was
left of the day's allowance) and `overage`; settling charges the month only for
what exceeds the row's free part. The stored policy wins over the cap the caller
sends. `#importLegacy` writes the tables of both ledgers in one handler; each
module has its projection of it under the same guard.

### AuditLedger

An event is its id, the day it occurred and the hash of its predecessor (the
predecessor's id: hashing is injective here). `log` is a function from the values of
the column `sequence` that are stored to events: AUTOINCREMENT gives each insert the next
value, retention deletes rows and gives no value back, and the last hash is the one of
the greatest value. `fetch()` runs inside
`blockConcurrencyWhile`, so an append and a requested close hold `gate`; their
awaits are separate steps, which only the alarm may interleave with.
`alarm()` is not gated: `run["alarm"]` works through the snapshot it selected, in
steps R2 put, D1 upsert, local update. `AlarmFails` is a rejected call, after
which the platform runs the alarm again; `Reset` is an eviction of the object.
`erased` is a history variable.

`RequestClose` and `RequestRetention` take any date, as the two routes do, which check its
format only. The alarm closes through yesterday and erases after the retention period. So
a segment may be closed before its day is over, which the history field `early` of its row
records, and be erased and opened again on the same day (its checkpoints are then written
over). Nothing in the repository sends these two requests. What holds whatever date they
name is stated as properties (`LogConsistent`, `ClosedIsFrozen`, `CheckpointVerifiable`,
`ErasedOnlyWhenCheckpointed`), what the texts promise and these requests break in section 5
(`CheckpointedIsImmutable`, `ErasedAfterRetention`).

### OwnerOperation

A request walks through `ReserveOwner`, `Apply`, `SettleOwner` or
`ReleaseOwner`; each is a call to another object with its three outcomes (done
and answered, done and the reply lost, not done). The quota object is
`QuotaLedger` with one bucket and single-unit reservations: the actions are its
actions, not copies. A retry is another request with the same key. `Crash` ends
a handler between calls.

### ApprovalFlow

`status`, `exec`, `asked`, `kind` are columns of `approvals`; `at`, `says`, `lease`, `got`
are the local state of the request that decides; `call` has one stage per
delivery of the gatekeeper call; `nonces` is `execution_nonces`; `written`
counts effects. A lease is issued only with a positive decision, so a lease is
named by its request. Kinds: `provider` (Google and GitHub, one protocol),
`discord` (its own codes, and a destination registered before the confirmation
is posted), `model` (transfer of connector results, executed by the assistant),
`plugin` (granted by the control worker in its own batch). Choices worth
knowing:

* the `UPDATE` of a decision is guarded by the status and not by the expiry;
* a decision that could not be audited answers 503 and never gets a lease;
* an error status of a provider is taken for "not made", as the handlers do
  (`Refuse`); a provider that answers 5xx after writing is outside the model;
* `Reconcile` is an owner who looked at the provider after every call has ended;
* the gatekeepers' `idempotency_records` are written and never read, so they
  have no state here.

### ConversationTasks

`row` is the table `tasks`, `answered` the idempotency keys, `alarm` the stored alarm of
the object. A request of the owner is one action (`CreateTask`, `UpdateTask`,
`DeleteTask`, each with the part `Request`): its turn has no await before the alarm is
set. `alarm()` is cut at its awaits: `AlarmFires` reads the due tasks (`Batch`,
`Snapshot`) and asks for the first run (`current`), `RunnerAnswers` writes the row from the
snapshot (`Recorded`) and goes on (`Continue`); between them any request runs, so a
change of the owner to the running task is overwritten, as in the code. The runner
itself is external: it answers with success or failure, in any time; `begun` is what
it was asked for. Choices worth knowing:

* a schedule is the set of instants at which it runs (`Slots`), `nextTaskRunAt` the first
  of them after a moment; time zones and calendars are inside those sets;
* the status `in-progress` is treated like `pending`, as every query does;
* `db` tells the conversation row from the tables: `deleteAll` drops the tables under a
  live object, whose next statement throws, and the constructor makes them anew;
* a request under a known key changes nothing and is a stutter; a refused one too.

### MessageExchange

A request passes `Replay`, `ReserveOwner`, `AnswerLocally` or `ReserveAi`, `Generate`, the
tools (`RunTools` and what follows), `StoreExchange`, `SettleAi`, `SettleOwner`; on the way
out `ReleaseOwner`, `SettleFailed`, `ReleaseAi`. Both reservations are actions of the
ledgers, which share one clock. `billed` is a history variable: the neurons a provider
counted. Tools are told apart by whether they read or write and whether they work; a tool
run costs nothing here.

### ConnectorTransfer

The step between `MessageExchange`, where a result waits, and `ApprovalFlow`, whose kind
`model` is the same approval seen from outside. `approval`, `decidedBy`, `execution` are
columns of the control database, `result` and `answer` rows of the conversation, `ai` the
reservation. The requests are of the owner's two routes: approve or reject (`Approve` to
`Record`, with `Fallback`), and change the tool (`ChangeTool` to `RequestNew`).

### ControlSettings

`Read`, `Write` (or `Delete`), `Audit` and `Rollback` are one handler with four awaits; it
answers a repeated key from the row it has read. `kind` tells the four settings apart,
which differ in their rollback: the providers' asks whether the row is still this update's
(`Restored`), the budget has none. `SetQuota` is the assistant's pair of calls. `audited`
and `last` are history: the requests with an audit event, and the one that wrote the row
last.

Little is promised of rollbacks, because little holds. `LastUpdateStands` is about the
providers' last update: no request that wrote before it takes it back. An audited update
that another request wrote over, having read what was there before, is lost when that
request rolls back, and the rollbacks of preferences and sources ask for no key at all, so
that they undo whatever came in between (`apps/policy-control-worker/src/index.ts:1149` and
`:365`). The model has these outcomes and no property excludes them; no text of the
repository does.

### PluginLifecycle and PluginRuntime

The first has the tables of the control worker, one statement or batch a step; a version is
named by the request that made it, `consented` is history. The second has the
coordinator's two tables (`active`, `consumed`), the container reservation as its states,
and the clock that makes tokens expire and be forgotten. `procs` are the plugins'
processes, which are not the handlers that started them: `Run` may throw after the
start, `Finish` may leave the process behind, and only `Exit` ends it then (section 5).
`lost` is history: slots whose acquisition or release nobody heard of, which the code never
gives back.

### OAuthConnections

`gatekeeper` selects one of the three workers, which differ in how a connection is found
and what a refresh writes. Callbacks, reads and the disconnection are handlers cut at their
awaits; a token is a number, `live` those the provider honours. The assistant's cache is
`FetchList`, `StoreList`, `ForgetList`: a list may be stored after a disconnection emptied
the cache, so that only the gatekeepers' own check keeps a revoked account from being read.

### DiscordLinks, DiscordGateway, DiscordNotices

`DiscordLinks` is the adapter's `Claim` and deferred `Answer` around the assistant's
`Resolve`, `GuildAllowed` and `Act`, or around the linking of an account (`SelectCode` to
`CreateDm`), with the owner's own requests in between. A command of the guild is sent from
the configured channel or from another one, where the policy `owner-any` lets it act, too
(`PlacesOf`). `consumeLinkCode` reads the clock once and compares the expiry with that
time, so `Consume` still takes a code that has expired since it was selected. `was` is
history: what held at some time since an interaction was sent.

`DiscordGateway` has Discord's side (`written`, `current`, `cursor`), the bridge's session
in memory and in its file, its known channel, and the requests on the `wire`. Every
payload with a sequence number awaits the save of the session before it is looked at:
`Receive` and `Save` are two steps for each event, `Identify`, `Ready` and `ReadySaved`
three for READY, and saves end in any order. A message whose save ends before that of the
news of its channel is dropped, with no fault at all; `raced` is history: the messages
that were received beside such news. `spared` is history, too: no fault so far that may
lose a message. There is one direct-message channel; more share no state but the session.

`DiscordNotices` is the gatekeeper alone. The worker is released and rolled back at any
moment (`Release`), synchronisations overlap (`sync`), and each runs with the manifest of
the worker it began in. After a digest that was lost although its manifest was registered,
or two manifests synchronised at once, a rollback makes the code answer "unchanged"
wrongly; `cut` records that this can be so, and `UnchangedIsRegistered` promises nothing
then. Discord itself is external: it keeps a session, sends again, and refuses without
doing.

### AgentQueries

Two workers with one shape, told apart by `surface`. Each call may be refused, throw before
or after its effect; `Expire` is the quota object's reaping. `storing` are the writes to
the edge cache that follow the reply. A refused `settle-ai` goes unnoticed (`SettleAi`), as
in both workers: `ChargedAsAnswered` says what holds all the same, section 5 what does not.

### ConversationRegistry

`object` is the Durable Object of a conversation (its row, first message, keys, memory and
size; `tables` is false between `deleteAll` and the next start of the object), `registry`
the control worker's rows. A creation goes `StorageStatus`, `Initialize`, `Metadata`,
`Register`; a read `ReadState`, `Metadata`, `Register`; a deletion `Erase`, `Mark`. `Fail`
ends any of them between two calls. Memory requests are one atomic handler each; their
metering, like that of creations, is `OwnerOperation`'s. Sizes are counted in writes.
`marked` and `order` are history. `Scenes` bounds which requests come in one behaviour.

### Maintenance

An export is a row, two objects in R2 and their rows, written one after the other;
retention is one sequence of statements (`retention.at`), beside uploads and installations
of an archive. `torn` and `overlapped` are history: what ended between an object and its
row, and an archive that was judged unused while an inspection of it was recorded or
installed, which may then be installed without its archive. The properties except just
these two: no step of the code covers them, and no text of the repository says otherwise.

## 3. Runs

| Run | Instance | Shows |
| --- | --- | --- |
| `quota_ledger` | 2 ids, 2 keys, 2 buckets, amounts to 2, overrun 1, 2 policies, batches of 2, 1 tick, both legacy shards | `CountersExact` (counters exact, keys unique), outcomes final, growth within the limit in force, report agrees with admission |
| `ai_ledger` | 2 ids, 2 keys, 2 days of a month and 1 of the next, 1 free neuron, a cap and none, both shards | `CountersExact` (day and month exact, also of a reservation settled in the next month, free allowance once), spend within cap |
| `conversation_tasks` | 2 tasks, 3 requests, an alarm that reads 1 task, a one-time and a recurring schedule, clock to 2, 1 reset, `FairSpec` | earliest alarm; no replay of missed runs; due tasks run |
| `message_exchange` | 2 requests with one key, estimate 2, 1 free neuron, answers with 2 tool calls, lost calls, crashes, expiry | implements `MeteredOperation` and, seen through their variables, both ledgers; billed neurons kept, success charged, one approval |
| `request_handlers` | pack of 9: owner operation (3 requests, 1 unit), settings (3 requests), OAuth (2 transactions, 2 callbacks, 1 read, 2 connections), queries (2), notices (2 releases, 2 overlapping synchronisations, 2 faults, 1 notice, 1 destination), upkeep (2 exports of a key, 1 upload), audit with late events (3, 4 days), runtime (3 deliveries, 2 tokens, 1 slot), conversations (1; 2 creations, a read and a deletion, or a creation, a deletion and 3 memory requests; limits of 2 and 3 writes) | `MeteredOnce` (the handlers implement `MeteredOperation`, keep the ledger's discipline and answer with success only what was charged), and one group per component |
| `approval_handlers` | pack of 4: approval (any kind, 2 requests, calls delivered twice), plugins (4 requests, 1 capability), transfer (3 requests, 3 results), links (2 interactions of 2 users, 1 code) | implements `ApprovedWrite`; `OutcomeIsTrue`, `DecisionsStand`; plugins, transfers and commands only as approved |
| `fair_handlers` | pack of 4 under fairness: audit (2 events on their day, 3 days, retention 1, requests with any date, 1 failure, 1 reset), gateway (2 events: messages, the channel created or deleted; 2 sessions, 1 fault), links (2 interactions), runtime (2 deliveries, 1 slot) | log consistent, checkpoints match, only what is checkpointed is erased, every segment closes; `MessagesForwarded` (a message is asked about once, reconnections lose none that did not meet news of its channel); `AcceptedWorkEnds` (commands are answered, slots come back) |
| `audit_late_event` | 2 events up to a day late, no failures | **violation** of `CheckpointVerifiable` (finding 1) |
| `owner_unreserved` | the owner operation alone | **violation** of `ReservedBeforeExecution` (finding 2) |
| `approval_discord` | Discord only, single delivery | **violation** of `IndeterminateIsUnknown` (finding 3) |
| `conversation_one_time` | 1 one-time task, 1 reset | **violation** of `OneTimeNotRetried` (finding 4) |
| `message_unsettled` | 1 message, no faults, no expiry | **violation** of `BilledIsSettled` (finding 5) |

Bounds and why they are enough. Two reservations in two buckets let an expiry, a
settlement, a release and a policy change of one meet a reserve of the other; the
laws about counters are sums over rows, and the proofs remove the bound. Clocks run
to 1 or 2, with lifetimes of 1: before, at and after an expiry. Three days with a
retention of one let a segment be opened, closed, expire and be erased while another is
open. Three requests give a retry of the same key and a competitor for the last unit; two
requests per approval give the race; two deliveries the replay. More than one approval adds
nothing that rows do not share (the theorems are for any number). Three requests about
tasks make two tasks and change one of them while either runs; an alarm that reads one
task leaves the other to the next alarm; a recurring schedule with an occurrence at
every instant lets a slow run miss some. One fault and
one reset can strike at every step. Symmetry is used only in runs without liveness.

In the packs: three requests about a setting are an update, its repetition and another
update; four about plugins are an install, two versions and a decision, or an install, its
repetition, a removal and a rollback. Two callbacks of two transactions reconnect an
account while a read refreshes its token and the owner leaves. Two queries meet at the last
unit, of one caller or of two. Three deliveries on one slot give one token twice and a
competitor; the clock to 3 passes a token's life, a reservation's and the memory of
consumed tokens. Two releases and two synchronisations overlap across a release and a
rollback. A read, a repeated creation and a deletion of one
conversation race for its row; a memory written twice under one key and deleted in between
shows a late repetition. Limits of two and three writes let the storage and the object
fill up.

Of the gateway's two events both are messages, of which one is under way when the
connection drops and the other not yet seen, or one is the creation or deletion of its
channel; two sessions give a READY beside the events of the session before. One fault
drops a connection, fails what is under way, or ends the process; that Discord ends a
session is not counted among the faults, so that it may follow one. In `ai_ledger` the third
day belongs to the next month, so that a row of the last day may be settled, released or
expire there.

`CHECK_DEADLOCK FALSE` is set where the system really stops: all requests of a pack's
component, or of `MessageExchange`, are answered and the clock or the bound of the faults is
at its end, when `ConversationTasks` has no request left and no alarm to come, and when the
last event of `DiscordGateway` is handled; in `AuditLedger` to let the calendar end.

Fairness (`ConversationTasks!FairSpec`). `WF` of `AlarmFires`: the platform delivers
a due alarm and repeats a failed one (within its retry budget; resets are bounded by
`MaxResets`). `WF` of the runner's answer, or of the exception: a call between workers
returns or throws. Neither the owner nor time is fair: `DueTaskRuns` starts from a due
task.

Fairness of the parts of `fair_handlers`. It is stated of the module's actions in
conjunction with `part`, over the part's own variables. Audit: `WF` of the append's and the
request's steps: a delivered request runs to its end, and R2 and D1 answer. `SF` of
`StartAlarm` and of the alarm's steps: the platform delivers a due alarm, and an awaited
reply, at least once, however often requests hold the gate in between. `WF` of `Tick`: time
passes. Failures and resets are not fair and are bounded. `EverySegmentCloses`
starts from a state with an alarm set: a reset between the first insert and
`setAlarm` leaves none until the next append.

Gateway: `WF` of the bridge's own steps (its loop reconnects for ever), of what it and
the adapter do with each event, and of the two saves of a READY; Discord, users, faults and
the end of the process are not fair, and `ReconnectsLoseNothing` promises something only
while no fault struck that may lose a message. Links: `WF` of the steps of a handler that
has been started, as `waitUntil` gives them; its being cut off is an outcome of its own.
Runtime: `WF` of the steps of an invocation, whose `finally` block runs unless the Worker
dies, which `SlotsReturned` excludes by `lost`.

## 4. Proofs

All theorems hold for any values of the constants that satisfy the module's
named `ASSUME` (typing of limits and functions, positivity of bounds). They rest on
the library's facts on finite sets and on TLAPS's PTL.

**`QuotaLedgerProofs`.** `Inv` is `TypeOK /\ Accounts /\ OneReservationPerKey`.
Types alone are not inductive: that `reserved` stays a natural number when the clamp
is dropped needs that it *equals* what the active rows hold, and that needs rows
and counters to change together, hence `Accounts` (`ReservedMatchesActive` and
`UsedMatchesSettled`). Units lemmas (`HeldUnion`, `HeldRemove`, `HeldSame` and the
same for spent units) say how the sums move when a set of rows changes status;
`ReturnedExact` shows that the clamp never bites. One lemma per handler gives
`Inv'`, `Final` (for `OutcomeIsFinal`) and `Growth` (for `GrowthWithinLimit`).
`TablesAgree` is `CountersExact` of the run. `UnblockedHasRoom` follows from the
invariant alone: admission reaps before it compares, so it never sees more than the report
does, and what exceeds no limit exceeds none when it is less (`ExceedsMonotone`).

**`AiLedgerProofs`.** `Inv` is `TypeOK /\ CountersExact /\ Unimported` (a shard without a
marker has added nothing). `CountersExact` is inductive only as a whole: the free
allowance is granted from the two counters of the day, so it is given once only because
they are exact, and the month's account counts what a row was granted. The sums are
cardinalities again; one lemma per way a row changes (inserted, settled, given back) moves
all of them at once. `AiSpendWithinCap` uses that a settlement which
reports more than was reserved is refused, so that one bills no more than it releases.

**`AuditLedgerProofs`.** An append awaits a digest between its read of the last hash and
its insert. The invariant says what makes that safe: who is inside
`blockConcurrencyWhile` is alone (`Gated`), so what an append has read is still the end of
the chain (`Chained`: nobody names the last event, and an erased event is never
stored again). `Dated` says that what is closed, or in the snapshot of the alarm, lies
before today unless a request closed it early, and that what the alarm is about to erase is
closed and past its retention period; with it `LogConsistent`, `ClosedIsFrozen` and
`ErasedOnlyWhenCheckpointed` hold with late events, too, and for requests with any date.
`CheckpointVerifiable` does not (finding 1); it is proved for `Late = 0`, by the second
invariant `PunctualInv`: the snapshot of an execution stays the row it
was taken from, and so does what has been written of it. The row, and so the checkpoint, is
that of all the segment's events unless a request closed it early (`SegmentCounts`). `Late < Retain` is assumed: an
event that is older than what retention erases is outside the model.

**`OwnerOperationProofs`.** `Inv` adds to the types: rows belong to their request and
carry its key (`RowsOwned`), one row per key (`OneRow`), a stored key has run
(`StoredRan`), who is past `Apply` has a stored key (`AppliedRan`), a settled row's key has
run (`SettledRan`), an "ok" has a settled row (`OkSettled`). `Kept` and `NoneSettled`
abstract what each ledger action does to the table. `Refinement` maps every step to
`Run`, `Charge` or a stutter of `MeteredOperation`; `KeepsDiscipline` every step that
changes a row of the ledger to a step of `QuotaLedger`: `LedgerDiscipline` is
`Ledger!Init /\ [][UNCHANGED quota \/ Ledger!Next]_quota`, which is `Ledger!Spec`, spelled so
that TLC compares only those steps. `Metering` is both with
`OkCharged` (`MeteredOnce`).

**`MessageExchangeProofs`.** The handler moves rows of two ledgers that are proved about
already. `OwnerKept` and `AiKept` are instances of those proof modules; `OwnerAssumed` and
`AiAssumed` discharge their assumptions, `StepsOfLedgers` shows that every step of the
exchange is one of the ledger or leaves its rows alone (`LedgersWithin`), and with that the
ledgers' invariants hold here without a second proof. `RowsSound` says of each request which rows it may
have and `HandlerSound` what its handler knows where it is: nothing is billed before the
model answers, nothing released once something is, and who is past `SettleAi` has settled
exactly its bill. A step of one handler disturbs these of no other (`OthersSound`), so each
action is checked for its own request only (`StaysSound`). `ExchangeMetered` maps storing
the exchange to `Run` and the settlement of the owner's unit to `Charge`; that one row at
most is settled for a key is the ledger's `OneReservationPerKey`.

**`ConversationTasksProofs`.** `TypeOK` bounds what an alarm carries, which needs the
cardinality of its snapshot (`SnapshotFacts`, `BeginFacts`). `AlarmIsEarliest` is
inductive once types are known: a step that changes a row rearms in the same turn
(`RearmedEarliest`) or belongs to an `alarm()` in progress or owed. `MissedNotReplayed` is
not: `BurstInv` adds that the next run of a row lies after every alarm that recorded
the task (`RowsAhead`), that so do the occurrences a running alarm still carries
(`CarriedAhead`), which are one per task (`CarriedOncePerTask`), and that alarms only move
forward (`RecordedBefore`). The owner's changes keep it because a next run is always after
now; the overwrite after the await because it is after the alarm's start.

**`RequestHandlersProofs`** proves what each component of the pack promises, for all values
of that component's constants. Each proof has the same frame: while it is the component's
turn its inductive invariant holds, a step of it keeps the invariant, and at another's
turn its variables do not change. What the invariants add to the properties:

* runtime (`RuntimeInv`): a delivery past `Acquire` holds its token's slot and shares it
  with no other (`RuntimeSlots`); a token that was consumed is remembered as long as it would
  be accepted (`RuntimeMemory`), which is why forgetting one earlier than its life, the
  assumption `TokenLife <= PurgeAfter` excludes it, would run a plugin twice;
* queries (`QueriesInv`): which reservations a query holds where its handler is, and that
  the neurons of who goes on to answer are not given back (`QueryPlaced`), and that the
  held units, not only the settled ones, keep the limits (`QueriesRationed`);
* notices (`NoticesInv`): up to the first lost digest or overlap of two manifests, what is
  registered is what is stored or about to be (`ManifestInOrder`), and a destination is
  served once (`NoticeServedOnce`);
* upkeep (`UpkeepInv`): how far an export, its objects and its rows are, together
  (`UpkeepPlaced`); the archive an upload or an installation relies on is there unless
  they met retention (`UpkeepArchived`);
* registry (`RegistryInv`): until a deletion begins, what was created is there and listed
  (`CreationsKept`), and an object's memory is that of the last request that took effect
  (`MemoryKept`);
* settings (`SettingsInv`): the two properties about one change need to know what its
  handler has read (`BudgetKept`, `SourceKept`); the third, that the providers' last update
  stands, holds from its write on, whose key no other request's rollback names (`LastKept`);
* OAuth (`OAuthInv`): a code is exchanged by who consumed its transaction
  (`TransactionsSound`), an account has one active connection (`ConnectionsSound`), what a
  callback, a refresh or a read holds is of a connection that exists (`CallsSound`,
  `ReadsSound`);
* audit: the pack's ledger takes late events, and requests with any date; its theorem
  instantiates `AuditLedgerProofs`.

**`ApprovalProofs`**, of `ApprovalFlow`. The heart is `OneWinner`: for an approval at most one
request holds a lease, a nonce or a call; `WinnerDecided` and `GrantAudited` say that its
decision stands and is audited. `WinnerUnwritten`, `LeaseUnwritten`, `CallUnwritten`
say that nothing was written before the one who may write does; `OutcomeOpen` that the
row still waits for the winner; `SuccessTrue` that what is learned as a success is
one. `Refinement` proves `EffectOnceApproved`; `SuccessRecorded`,
`OutcomeNeverRevised` and `LapseFinal` are the other properties. `FailureRecorded`
needs a second invariant and the premise `Plain` (one delivery per call,
no Discord): the two circumstances in which the code does record a failure that may
be a write. Under it even `IndeterminateIsUnknown` holds. `OutcomeTrue` and `DecisionsKept`
state what the run checks as `OutcomeIsTrue` (under `Plain`) and `DecisionsStand`.

Of `ApprovalHandlers`, in the frame of `RequestHandlersProofs`: the transfer
(`TransferInv`: one handler follows up an approval, `SummedOnce`; either a transfer
is open or one request is about to open one, `OneOpen`), the links (`LinkInv`: who consumed a code
alone goes on to make its link, `CodesUsed`, and had sent it while the code was valid,
`Linking`; what lets an interaction act held at some time since it was sent, `Allowed`) and the plugins (`PluginInv`: a version that may be active is
approved or need not ask, `Cleared`, and each of its capabilities was asked for,
`GrantedAsked`; `RemovedStaysRemoved` is proved of each step).

Every other invariant and every action property a passing run checks is proved. Only
model-checked are the four liveness properties (`DueTaskRuns`, `EverySegmentCloses`,
`MessagesForwarded`, `AcceptedWorkEnds`), since this prover has no fairness or ENABLED
reasoning in practice, and the safety that `MessagesForwarded` begins with (`AskedOnce` of
`DiscordGateway`). `CheckpointVerifiable`, `OutcomeIsTrue` and the like are proved under the
circumstances they are checked in. Induction over data and `RECURSIVE` operators are
beyond the installed back ends, so sums are cardinalities of sets of units, for which the
library has the facts. The packs' theorems are about one component at a time, as the packs
are: they say nothing of two components that would share a variable, and none do.

## 5. Findings

1. **A late event outdates a checkpoint** (`audit_late_event`).
   `alarm()` (`apps/audit-ledger-worker/src/index.ts:121`) runs `#closeSegments` outside
   `blockConcurrencyWhile`. An event of yesterday appended while it awaits R2 or D1 is
   counted into the segment whose checkpoint is already written, and the segment is then
   closed. The comment at line 150 promises that the checkpoint stays verifiable.
2. **A retry can run without a reservation** (`owner_unreserved`).
   `reserveOwnerOperation` (`apps/assistant-worker/src/index.ts:605`) takes every 200 of
   `/reserve` for a reservation; a known key is answered 200 with status `released` or
   `expired`. The operation runs, its settlement is refused, the owner is told 503 and
   the effect is free. `docs/en/architecture/overview.md:45` says paid work reserves
   before it executes. (`OkMeansCharged` still holds: success is never answered.)
3. **An uncertain Discord write is recorded as failed** (`approval_discord`).
   The assistant knows the code `EXTERNAL_WRITE_UNKNOWN` only
   (`apps/assistant-worker/src/index.ts:3024`); Discord's gatekeeper answers
   `DISCORD_WRITE_UNKNOWN`. `docs/en/operations/discord-connector.md:86` says it is
   recorded as unknown.
4. **A one-time task can be run again** (`conversation_one_time`).
   `alarm()` (`apps/conversation-agent/src/index.ts:843`) writes the row after the awaited
   run. An object reset in between finds the task still due, and the repeated alarm asks
   for the run again. `docs/en/operations/owner-surface.md:17` says a one-time task is not
   retried after an uncertain execution. The run's idempotency key stops the second one
   only if the first had stored its exchange.
5. **Billed neurons are never counted** (`message_unsettled`).
   After a cloud model has run and asked for tools, a failure to store the tools' results,
   or to request the approval of a write (`apps/assistant-worker/src/index.ts:2423`),
   returns at once. Neither reservation is settled or released; both expire. The comment at
   line 2346 says of the other failure paths that the reservation is settled "instead of
   silently undercounting".

Disagreements without a run of their own. Each is a definition beside the properties, which
TLC refutes at once on the module's instance above; the passing properties state what holds
all the same.

* **A segment can be closed before its day is over** (`CheckpointedIsImmutable`). A request
  to close segments may name today, or any later day
  (`apps/audit-ledger-worker/src/index.ts:105`). The next event of the day is redirected to
  today's segment (line 153), which is the closed one: it is stored there and not counted,
  and the checkpoint does not cover it. The comment at line 150 calls a checkpointed segment
  immutable. Nothing in the repository sends the request; the alarm closes through yesterday.
* **Retention by request has no period** (`ErasedAfterRetention`). A request erases the
  closed, checkpointed segments before any date it names
  (`apps/audit-ledger-worker/src/index.ts:112`). `docs/en/architecture/overview.md:37` says
  that a closed segment can be deleted after 180 days only. Nothing in the repository sends
  this request either.
* **An answer's neurons are not counted** (`AnswersAreCounted`). `finishAi` of both agent
  APIs does not look at the status of its reply: where the reservation has expired while
  the model answered, `settle-ai` is refused and the answer given
  (`apps/delegated-agent-api/src/index.ts:231`, `apps/public-agent-api/src/index.ts:212`).
  `docs/en/operations/phase-4-knowledge.md:40` says the service settles against the actual
  answer.
* **More plugins can run than there are slots** (`PluginsWithinSlots`). The `finally` block
  (`apps/plugin-runtime-worker/src/index.ts:291`) releases the slot although the plugin's
  process may still run: `exec` or `output` threw after the start, or the kill after too
  much output failed. `docs/en/operations/resource-budgets.md:13` says that concurrency 2
  remains enforced. (Invocations are within the slots: `InvocationsBounded`.)
* **A budget change can come into force unaudited** (`BudgetChangesAreAudited`). A change
  whose audit event failed is answered 503 and stays stored with its key; its repetition is
  answered from the row (`apps/policy-control-worker/src/index.ts:949`) and enforced.
  `docs/en/operations/resource-budgets.md:16` says that budget changes create an audit event.

Also seen, and no text of the repository says otherwise: what rollbacks of settings undo
(section 2, ControlSettings), a message that is dropped beside the news of its channel and a
synchronisation that is wrongly called unchanged (DiscordGateway and
DiscordNotices), an archive that is installed while retention deletes it (Maintenance). The
models have these outcomes, and the properties except them by name.

Also seen: a task created in a conversation that was never initialised, or in
a deleted one a Discord account is linked to, makes `alarm()` return early
(`apps/conversation-agent/src/index.ts:848`) after it set itself to the present, again and
again. `DueTaskRuns` is stated of conversations that exist. And `DELETE /v1/conversations/...`
(`apps/assistant-worker/src/index.ts:2128`) takes a call to the object that failed for one
that found nothing: it answers `deleted: true` and the conversation's content stays, where
`docs/en/operations/phase-5-beta.md:28` says that deletion removes the object's state.
A memory written after the deletion stays too, and no later deletion finds it, because
`#deleteConversation` looks for the conversation's row first. A conversation that is created
again with its old key is not listed or counted, because its row stays marked. So
`ConversationsKept` promises what holds: what was marked is not listed.

## 6. Not modelled

* Pure I/O and presentation: `owner-ui` (a browser client of the API), `installer` and
  `setup-engine` (a resumable plan of commands on the owner's machine), `scripts/`, OpenAPI,
  schemas, translations, deployment files.
* Cryptography (lease signatures, hashes, token encryption, PKCE, request signatures) is
  taken as ideal: a lease verifies if it was issued and has not expired, different contents
  have different hashes. So `identity`, `secret-vault` and `security` have no module.
* Pure functions of one value, which unit tests reach: `policy-engine`, `provenance`,
  `cost-control` (its ledgers are test doubles of the quota object), the choice of a model
  in `model-router`, manifests in `plugin-sdk`, `knowledge-api`, `knowledge-source`, the
  providers' message formats, `contracts`.
* `gatekeeper-sdk`: an in-memory nonce store for third parties; the workers here use the
  nonces in D1 that `ApprovalFlow` has.
* Of `assistant-worker` the routes that only forward to one object, and lists; of
  `policy-control-worker` lists; of `conversation-agent` what a prompt is built from.
* The providers beyond "made the write or not, answered or not"; what happens inside a
  plugin's container; a bridge whose saved session file was cut short and is not JSON.
* SQL and D1 as such: a statement is atomic, a batch is atomic, a failed call may
  have happened.

## 7. Plan

1. done: the modules of section 2, in the order what guards money and external effects,
   what the owner sees, what administers.
2. done: proofs of the invariants and action properties of the passing runs (section 4).
3. next: the safety of `DiscordGateway` (`AskedOnce`), which is only model-checked, and
   abstract specifications of the components whose promises are lists of properties (the
   connection of an account, the segment of the audit ledger from open to erased), with
   their refinement proved from the invariants that are there.
4. The safety half of the liveness properties: that the state from which progress is
   promised does not go away unserved (a due task stays due until a run begins).
