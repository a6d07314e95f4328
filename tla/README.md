# A TLA+ development of ezRepo

ezRepo tracks the CI runs of repositories at GitHub, GitLab, Forgejo and Gitea. The API
(`src/apps/api`, NestJS on PostgreSQL through Prisma) polls providers and accepts their
webhooks, keeps workflow runs, sends notifications about finished runs through Apprise, and
serves a web client (`src/apps/web`, Nuxt) and MCP clients. It may run as several instances
on one database, without any coordination but what the database gives.

This directory holds specifications of the parts in which that matters, the instances TLC
checks, and theorems proved with TLAPS. `PROJECT.json` maps every definition to the lines
it models and lists the hazards, the runs, the mutants and the findings.

Contents: [inventory](#1-inventory), [modules](#2-modules), [runs](#3-runs),
[fairness](#4-fairness), [findings](#5-findings), [proofs](#6-proofs),
[limits](#7-abstractions-and-limits), [plan](#8-plan).

The modules form four groups, which share no variable:

| Group | Question | Modules |
| --- | --- | --- |
| **Queue** | who synchronizes what, when, and with which provider account | `SyncQueue`, `ProviderGate` |
| **Notifications** | what happens to a delivery until it is settled | `NotificationDelivery` |
| **History** | what a synchronization and a cleanup make of one repository's runs, and what is shown of them | `ProviderRuns`, `RunHistory`, `RepositorySync`, `RunRetention`, `WorkflowViews`, `RepositoryHistory` |
| **Control plane** | what requests, status events and pages do to one database and to each other | `ApiTables`, `Reports`, `ApiRequests`, `ApiAccess`, `ApiResources`, `SystemStatus`, `Web*`, `ControlPlane` |

## 1. Inventory

Paths are relative to `src/apps/api/src/modules` unless they begin with `src/`.

| Component | State | Operations | Interacts with | Modelled in |
| --- | --- | --- | --- | --- |
| **Synchronization queue** `providers/sync-queue.service.ts` | `repository_sync_requests` (one row per repository: status, attempt, generation, runAfter, lease); lease and rate limit on `provider_accounts` | enqueue (webhook, manual, reconciliation), claim, complete, fail, sweep | called by webhooks, accounts, the sync button and two intervals; calls repository synchronization | `SyncQueue` |
| **Provider retry policy** `providers/provider-retry.ts` | none | retry decision, jittered delay, rate-limit headers | called by the queue and the adapters | `SyncQueue` (decision) |
| **Repository synchronization** `providers/sync.service.ts` | `Repository.lastSyncAt`, workflows, workflow runs, change-request state | list runs since the cursor, refresh active runs, persist and evaluate rules, refresh change requests | called by the queue; calls adapters, notifications, system status | `RepositorySync`, `SystemStatus` |
| **Provider adapters** `providers/*/` | none | listings, conversions | called by sync, accounts, webhooks | `ProviderRuns` |
| **Provider accounts, OAuth** `providers/provider-accounts.service.ts`, `providers/provider-oauth*.ts` | `provider_accounts`; an encrypted state value that expires | create, update, remove, discover, add a repository; authorize, callback | enables, disables and cascades into the queue | `SyncQueue`, `ApiResources` |
| **Webhook intake** `webhooks/webhook.service.ts` | `webhook_deliveries` (unique delivery ids) | verify, record and enqueue in one transaction | calls the queue | `ApiResources` |
| **Notification delivery** `notifications/notification-delivery.service.ts` | `notification_deliveries`, `notification_delivery_attempts` | read due deliveries, send per channel, record, settle, retry | called by an interval and by each sync that created deliveries; calls Apprise | `NotificationDelivery` |
| **Rules and channels** `notifications/notifications.service.ts` | `notification_rules`, `notification_channels`, their links | evaluate a run; create, update, delete | called by sync; calls delivery | `NotificationDelivery`, `ApiResources` |
| **Run retention** `src/apps/api/src/jobs/workflow-run-retention.service.ts` | `Repository.retainedRunDurationMs`, runs | archive durations, delete expired runs | cascades into deliveries | `RunRetention` |
| **Job runner** `src/apps/api/src/jobs/job-runner.service.ts` | none | run a callback if scheduling is enabled; no overlap guard | all intervals | (its lack of a guard) |
| **Repositories, filters, memberships** `repositories/` | `repositories`, filters, memberships | query, update, refresh, configure | read by the queue and by sync | `ApiResources` |
| **Workflow runs, dashboard** `workflow-runs/`, `dashboard/` | none of their own | queries and reports | web client | `WorkflowViews`, `Reports`, `ApiResources` |
| **System status** `system-status/` | in-memory map of running syncs, count of running workflows | begin, update, finish, publish | called by sync; sockets | `SystemStatus` |
| **Authentication, users, settings** `auth/`, `settings/` | users with `authVersion`; one settings row | first-run setup, sign in, change and reset password, profile, administration | every request | `ApiAccess` |
| **MCP access** `mcp/` | tokens | issue, revoke, authenticate; tools | the queries | `ApiAccess`, `ApiResources` |
| **Authorization** `src/apps/api/src/casl/` | none | rights from role and memberships | every request | `ApiTables` |
| **Web client** `src/apps/web` | state of pages and components | search, dashboard, dialogs, status bar | the API | `Web*`, `SystemStatus` |
| **Encryption, health, version, configuration** | none | pure functions, probes, start-up | | not modelled |

Where the difficulty lies, and what correctness means there:

* *The queue.* Passes of the worker overlap: `@Interval` does not wait for the last call,
  a sync may take longer than the five-second interval, and instances share the tables.
  Each pass reads the clock once and then works through a batch of rows it read earlier.
  A crash leaves leases behind. A finish may come after its lease was taken over. Correct
  means: one unexpired lease per provider account; rate limits that only time ends;
  requests that are never lost to the completion of an older sync; a bounded number of
  retries; and everything accepted is eventually synchronized.
* *Notification delivery.* Senders overlap in the same way and lock nothing. A send, its
  record and the final status are three separate steps, and each may fail or be the last
  one before a crash. Correct means: what is shown as delivered was received, nothing is
  resent to a completed channel, a settled delivery stays settled, giving up is
  justified by the permitted number of attempts, and every delivery is settled in the end.
* *Repository synchronization.* An incremental cursor against a provider that goes on
  changing runs, four providers with four ideas of a listing, overlapping syncs of one
  repository, partial failures in a long loop. Correct means: only known gaps lose a change,
  and what is shown as failing, active or waiting agrees with the provider.
* *Retention.* Read, add and delete in one transaction that other instances run at the
  same moment. Correct means: only expired runs go, and their durations stay counted.
* *Requests.* A handler is a sequence of statements; between any two of them memberships,
  users, tokens and rows are changed or removed, passwords change, deliveries repeat.
  Correct means: constraints hold, what a request shows and changes was permitted, tokens
  die with the password they were issued for, a repeated delivery is queued.
* *Clients.* Answers and events come in any order and after the component has moved on.
  Correct means: with nothing on its way, a client shows what the server has.

## 2. Modules

| Module | Role |
| --- | --- |
| `SyncQueue` | the queue, the leases and the passes of the worker |
| `ProviderGate` | abstract: one pass at a time inside each provider account, nobody enters a limited one |
| `SyncQueueProofs` | theorems about it: types, leases, rate limits, and that it implements `ProviderGate` |
| `SyncQueueRequestProofs` | theorems about it: requests and the retry budget |
| `NotificationDelivery` | deliveries, attempts and overlapping senders |
| `NotificationDeliveryProofs` | theorems about it: types, and that what is delivered was received |
| `NotificationContentionProofs` | theorems about it: attempts, settlement and failures, outside and inside of contention |
| `ProviderRuns` | pure: listings, conversions, scopes and filters of the four adapters |
| `RunHistory` | the state of the history group and the provider that changes it |
| `RepositorySync`, `RunRetention` | synchronizations and cleanups as actions on it |
| `WorkflowViews` | pure: what the interface shows of it |
| `RepositoryHistory` | composition of the four, with the properties |
| `RepositoryHistoryProofs` | theorems about it: retention, approvals and missed changes |
| `ApiTables` | tables, constraints, cascades, rights, resources |
| `Reports` | pure: the reports of the dashboard and its charts |
| `ApiRequests` | a request as a route of statements; authentication, errors, crashes |
| `ApiAccess`, `ApiResources` | the statements of all controllers |
| `SystemStatus` | synchronizations as the status sees them, sockets, the listening client |
| `WebClient` | requests a browser sends and answers it gets |
| `WebSearch`, `WebDashboard`, `WebApprovals`, `WebRepositories`, `WebAddRepositories` | the pages that keep state across requests |
| `ControlPlane` | composition, with the properties |
| `ControlPlaneProofs` | theorems about it: passwords and the first-run setup |
| `ControlPlaneAccessProofs`, `ControlPlaneAuthorizationProofs` | theorems about it: what requests show, what they change, and the relations between tables |
| `MC*` | instances |

### SyncQueue

| Variable | Code |
| --- | --- |
| `repository` | `Repository.enabled` |
| `account` | the `ProviderAccount` row: existence, `enabled`, `rateLimitResetAt`, `syncLeaseToken`, `syncLeaseExpiresAt` |
| `request` | the `RepositorySyncRequest` row of each repository, `"ABSENT"` when there is none |
| `worker` | per running call of `processDueRequests`: where it stands, the age of the clock value it holds, its candidates, its `ClaimedSyncRequest`, what `findUnique` returned, what the sync threw |
| `reconciling` | repositories that `enqueueEnabledRepositories` has read and not yet enqueued |
| `asked` | history: is a request accepted for this repository which no verdict answers |

| Action | Code |
| --- | --- |
| `EnqueueWebhookRepository`, `EnqueueRepositorySync` | `enqueueWebhookRepository`, `enqueueRepositorySync` with the upsert of `enqueueRepository` |
| `StartReconciliation`, `ReconcileRepository`, `ReconciliationAborts` | `enqueueEnabledRepositories` |
| `StartPass` | the `deleteMany` of `processDueRequests` |
| `ReadCandidates` | clock and `findMany` of `claimNextRequest` |
| `ClaimCandidate` (`Claim` or `Pass`) | the transaction of `claimCandidate` |
| `SyncSucceeds`, `SyncThrows` | the outcomes of `syncRepositoryById` |
| `FindUnique`, `CompleteRequest`, `CompleteRequestThrows` | the transaction of `completeRequest`, read and write apart |
| `FailRequest`, `FailRequestThrows` | `failRequest` with `providerRetryDecision` |
| `PassAborts` | the process dies, or a statement fails |
| `SetRepositoryEnabled`, `SetAccountEnabled`, `RemoveAccount` | `PATCH /repositories/:id`, `update` and `remove` of provider accounts |
| `Tick` | time |

How the data is reduced:

* **Time is relative.** A stored instant is the number of ticks until it; `Tick` lowers all
  of them together. Nothing compares absolute times, so the state space is finite without
  any bound on the length of behaviours. An instant further back than any captured clock
  can be is kept as `Past`, and NULL with it: every query treats NULL like the past.
* **Captured clocks have an age.** `claimNextRequest` reads the clock once for a whole
  batch, and the lease it writes is dated from that clock. `MaxStale` bounds how long a
  claim loop or an open transaction lasts; Prisma rolls an interactive transaction back
  after five seconds, while a lease lasts an hour. `ConstantsAssumption` asks for
  `SyncLease > 2 * MaxStale`, which that leaves far behind. The delays of a failure count
  from the clock that `failRequest` reads before its transaction.
* **A generation is a flag.** A generation is only ever compared with an earlier reading of
  the same row, so each reading carries `superseded`, set when the row is enqueued again.
* **Tokens are workers, row ids are reused.** A token or a random key is only compared with
  those still held by someone, so a pass's name stands for its token, and a new row takes
  an id that nobody holds. `RowIds` has one more than two passes can hold.
* **Attempts saturate** at `MaxAttempts + 1`; all larger numbers are treated alike.
* **The claim is one step**: both of its updates are conditional and the row lock on the
  account serializes claims of one account. The finish is two steps, because its write
  depends on an earlier plain read under READ COMMITTED.
* **FAILED rows** keep no `runAfter`, which nothing reads until the next enqueue sets it.

### NotificationDelivery

| Variable | Code |
| --- | --- |
| `channel`, `links` | `NotificationChannel.enabled` (or removed), `NotificationRuleChannel` |
| `delivery` | the row of each rule and run: status, and whether `nextAttemptAt` is still ahead |
| `attempts` | `NotificationDeliveryAttempt` rows per delivery and channel, in the order of creation |
| `sender` | per running call of `deliverPending`: ids it was given, the batch it read, the delivery and channel it works on |
| `received` | history: messages that arrived; two stands for more |
| `crashes` | senders that died, bounded by `MaxCrashes` |
| `reconfigured` | history: has a channel or rule changed |
| `contended` | history: deliveries that one call read while another had them in hand |

| Action | Code |
| --- | --- |
| `CreateDeliveries` | `createMany` of `evaluateRulesForRun`, which goes on to `deliverPending` |
| `ReadPending` | `findMany` of `deliverPending`, from the interval or with ids |
| `SettleAtOnce`, `BeginDelivery` | the head of `deliver` |
| `SendSucceeds`, `SendThrows` | `apprise.send`; a command killed by its timeout may have delivered |
| `RecordSuccess`, `RecordSuccessThrows`, `RecordFailure` | the inserts; the first is inside the same `try` as the send |
| `Finish`, `Throws` | the final update by id; an error that leaves the batch |
| `Crash`, `DelayElapses` | a dying process, a reached `nextAttemptAt` |
| `SetChannelEnabled`, `DeleteChannel`, `UpdateRule`, `DeleteRule`, `ExpireRun` | managers and retention, with the cascades of the schema |

A sender works on what it read: a `Job` holds the enabled channels of the rule, the channels
that are done and failed by their latest attempt, and the next attempt number.
Channels are numbers, and a sender takes them in ascending order: `channelLinks` are read
without ORDER BY, and two overlapping readers of an unchanged table are taken to read one
order. (If they did not, two senders could each insert a channel first and throw the other
out on the unique key, over and over; the code has no protection against that but luck.)
`RecordSuccessThrows` is always possible, since any database error lands in that `catch`.

### The history group

One repository, a few runs. `RunHistory` holds the state: `remote` and `change` are the
provider's runs and change requests, `rows`, `workflows`, `repository` and `syncFailed` the
database, `sync` and `cleanup` the control state of each call of `syncRepositoryById` and
`deleteExpiredRuns`, `past` history variables, `setup` the surrounding of a behaviour.

| Actions | Code |
| --- | --- |
| `Trigger`, `Start`, `Conclude`, `Rerun`, `DeleteRemote`, `ChangeRequestChanges`, `Wait` | the provider and time (external) |
| `StartSync`, `ListRuns` | `syncRepository`: the row with the cursor, the listing of the adapter |
| `SelectCurrentRuns`, `RefreshRun`, `StartProcessing` | `findRunsToRefresh` and `getWorkflowRun` of each, the filters |
| `UpsertWorkflow`, `MoveLegacyRuns`, `RemoveLegacyWorkflow`, `UpsertRun`, `EvaluateRules` | `persistRunAndEvaluateRules`, statement by statement |
| `SelectCandidates`, `AskChangeRequest`, `StoreChangeRequest` | `refreshChangeRequestStates` |
| `FinishSync`, `Throw`, `Crash` | the cursor, the recorded error, a process that dies |
| `StartCleanup`, `SumDefault`, `ArchiveDefault`, `ReadOverrides`, `SumOverride`, `ArchiveOverride`, `CleanupFails` | `deleteExpiredRuns`, statement by statement |
| `SetRetentionDays` | `PATCH /repositories/:id` |

Every change at the provider has an instant of its own, so the instant of a run's last change
stands for its state: a row keeps which change it reflects (`seen`) and which one the rules
were evaluated for (`evaluated`). The four listings differ in what they compare the cursor with
(GitHub: creation; GitLab and Forgejo: last update; Gitea: nothing), in their order, and in
whether they go on to a second page.

### The control plane

A database `db` maps each table to its rows. A request has a `call` (operation, credential,
input) and a route: the statements it has still to run, `rest`. Each statement is an action
that reads or writes `db`, keeps what it read in the request, and may end the request with the
status of the exception (`unauthorized`, `forbidden`, `notFound`, `conflict`, `badRequest`).
`Promise.all` is several routes. The controllers are the route tables `AuthRoutes`,
`RepositoriesRoutes`, ..., `McpRoutes`; the action of a statement names the service method it
stands in. Statements that a transaction makes one, or a lock makes wait, say so
(`LockSetup`, `InsertDelivery`, `CommitDelivery`, `RemoveAccount`).

`issued` (history) is every access token signed and the password it was signed for; `witness`
(history) is, per request, the union of the rights its user has had since it was
authenticated. `TimePasses` is the clock up to `setup.until`.

`SystemStatus`: `server` is what the service keeps in memory, `jobs` the synchronizations under
way, `sockets` the connections with the snapshots sent and not yet received. Changes that
happen in one turn of the event loop are one step that publishes several snapshots.

`WebClient`: a component sends requests (`Exchange`), notes what waits for them (component,
generation, function), and goes on when they are answered, which may be never or late.

| Module | State | Code |
| --- | --- | --- |
| `WebSearch` | query, debounce timer, abort controller, groups, overlay | `composables/app/global-search.ts`, `layout/global-search.vue` |
| `WebDashboard` | range, request number, loading flags, parts | `pages/index.vue` with the charts of `Reports` |
| `WebApprovals` | runs, search, alert of the page | `pages/workflows/awaiting-approval.vue` |
| `WebRepositories` | the dialog (`details`) and its cards | `repositories/details-dialog.vue`, `details/*-card.vue` |
| `WebAddRepositories` | account, list, selection of the dialog | `repositories/add-dialog.vue`, `repository-selection-table.vue` |

## 3. Runs

The bounds are in the `.cfg` and `MC` files. Every passing run explores its instance
completely.

| Run | Instance | Question |
| --- | --- | --- |
| `queue_clocks` | 1 repository, 2 passes, lease 3, clocks up to 1 tick old, 2 attempts; webhooks, manual requests, reconciliation, crashes | With stale clocks and snapshots: is the lease exclusive, does an unanswered request stay queued, does the retry budget hold, does only time end a rate limit? |
| `queue_admin` | the same with a lease of 1 and clocks that are never stale, and all administration | Do leases, requests and rate limits survive disabling, enabling and removing at any moment? Is every step one of `ProviderGate`? |
| `queue_drain` | 2 repositories, 1 account, 1 pass, batch of 1, 2 attempts | Does everything queued get its verdict once requests and crashes stop and syncs keep their lease? |
| `queue_taken_up` | 1 repository, 2 passes, webhooks, reconciliation, crashes | After the last webhook and crash, does every accepted request get a sync that began after it? |
| `notify_contended` | 1 rule, 1 run, 2 channels, 2 senders that overlap freely, 2 attempts, 1 crash, one administrative change at any moment | Outside of deliveries that two senders had in hand at once: are attempt numbers fresh, is nothing resent, is a settled delivery final? With overlap too: is FAILED earned? |
| `notify_overlap` | 1 rule, 1 run, 2 channels, 2 senders, 2 attempts, 1 crash, deletions | With overlap: is DELIVERED true although senders race and records fail, and is every delivery settled in the end? |
| `history` | 17 surroundings of 2 runs and 1 change request, up to 2 synchronizations and 2 cleanups, 3 to 6 instants | Is a change missed only in the known gaps; do attention, approvals and active runs agree with the provider; do durations survive, and do only expired runs vanish? |
| `control_plane` | 313 surroundings (447 with the orders of statements): requests in pairs, small groups for passwords, webhooks, OAuth and status, 12 pages | Do constraints hold; is what is shown and changed permitted; do tokens follow passwords; do clients show what the server has? |
| `queue_parallel`, `queue_durable`, `notify_resent`, `history_polling` | small | expected violations, see [findings](#5-findings) |

Why these bounds are enough.

*Queue.* Two passes are the least that overlap, and the properties of the
queue relate at most two. One row and one account reach every conflict between claim, finish,
enqueue, sweep and removal; two repositories of one account compete in `queue_drain` and
`queue_parallel`, and the lease theorems hold for any number of them. `MaxAttempts = 2` has a
first, a last and a too-late try; the code's five add more of the middle kind. A lease of
1 tick expires at once and a lease of 3 with clocks one tick old leaves claims inside, at and
past the end of a lease.

*Notifications.* Two channels give one that is done and one that is not; 2 attempts have
a first and a last, and let overlapping senders be a full attempt apart (the code permits 3).
One change by a manager or the retention meets every step of the two senders
(`OneChangeSpec`). No instance has a
batch of more than one delivery: a batch that is cut short leaves its other deliveries as they
were.

*History.* Two runs are the least of which one supersedes the other, with a page that holds
both or one. Each surrounding (`MCRepositoryHistory`) opens one part of the behaviour: each
provider with a superseding run, each with queued, approved, repeated and deleted runs,
overlapping and failing syncs, a change request that closes, reopens or merges, filters, a
workflow of the earlier release, expiring runs under two cleanups with an override that
changes. `setup.until` leaves each enough instants for a second synchronization after the
change that matters.

*Control plane.* The properties of requests relate one request to what takes its rights or
rows away, so surroundings are pairs: each operation as an administrator, a manager and a
viewer, crossed with the loss of the membership, the user, the session, the token or the
account; passwords, setup, webhooks and OAuth have groups of three or four. Each operation
occurs at least once with a valid and, where it refuses something, once with a refused input.
`setup.sends` bounds what a page sends, `setup.clicks` and `setup.shown` what is clicked;
together the twelve pages reach every action of the web modules, a failing load of each
report of the dashboard, and a dialog that is closed and opened again while a change of its
cards is under way. Pages that send five
requests or more are served one after the other in any order (constraint `OneByOne`): what
crosses there is answers, and interleaved statements are the business of the pairs. Requests
all end and nothing need follow them, so deadlock is not an error in this run.
A week has three days and an hour is a unit of time, enough for a Sunday, a Monday and a week
that starts before the period.

The theorems of section 6 have no bounds.

What the properties say beyond their names:

* `LeaseExclusive` and `RateLimitHonoured` speak about passes *within their lease*. Nothing
  renews a lease, so a longer sync is outside (see `queue_parallel`).
* `UnansweredStaysQueued` excepts requests that arrive between the read and the write of a
  finishing transaction (`asked = "raced"`, see `queue_durable`); `AcceptedIsTakenUp` covers
  those too, with the reconciliation as the remedy.
* `RetriesBounded` bounds the attempts of a row that *waits for a retry*. A row taken over
  after a crash, or after its sync outlived the lease, is claimed again whatever its attempt
  number: that path has no limit in the code.
* `QueueDrains` assumes that syncs do not outlive their leases, since such a sync is retried
  for ever.
* `AcceptedIsTakenUp` is about one repository. With several, the reconciliation can starve one
  under overload: it sets the `runAfter` of a waiting request to the present, behind those
  that are already due, at every round. Its premise that webhooks
  pause is needed too: each delivery sets `runAfter` anew, for a request of the reconciliation
  as well, and a stream of deliveries closer than the debounce keeps it from being due.
* `AttemptIsFresh`, `CompletedNotResent` and `SettledIsFinal` except a delivery that is
  *contended*: one call of `deliverPending` read it while another had it in hand. In that
  case none of them holds: a second sender sends again (`notify_resent`), may reopen a settled
  delivery, and loses the race for an attempt number. What the properties say is that
  nothing else does that: no crash, no failed record, no reconfiguration, and no overlap
  with senders that have other deliveries. `FailureIsEarned`, `DeliveredMeansReceived` and
  `EventuallySettled` hold for contended deliveries too, the first without its last part, that
  the failed channel has had no success since.
* `DeliveredMeansReceived` is checked while things are only taken away, since a channel enabled
  after a delivery was settled has of course received nothing. `FailureIsEarned` holds up to the
  first change of a channel or rule (`reconfigured`): a channel that failed once and was
  disabled since stays among the failed ones and can turn a later success into FAILED.
* `ChangesMissedOnlyInGaps` holds at every moment, also in the middle of a synchronization, and
  names the gaps: changes during a synchronization after its listing, runs beyond the first
  page, GitHub runs created before the cursor (a run that is repeated keeps its creation), rows
  overwritten by an older, overlapping synchronization, and runs that the retention
  deleted in the state they still have. Within the first four a change may stay unseen for ever.
* `DurationsSurviveRetention` holds as long as no other writer came between the sum of a cleanup
  and its deletion (`past.touched`): two instances that clean up at the same moment count the
  same runs twice. `OnlyExpiredRunsVanish` needs no such exception.
* That an expired run stays deleted is no property. Gitea's listing ignores the cursor, so its
  expired runs come back with every synchronization and are deleted and counted every night;
  the three other listings exclude them by their filter, unless the synchronization that had
  stored them failed and left the cursor where it was.
* `ReadsAreAuthorized` and `ChangesAreAuthorized` compare with the rights held at *some* moment
  of the request: a handler reads memberships once, and what is revoked after that is still
  shown or changed by the request under way.
* `SetupOnce` speaks of two administrators made by setup that exist together. Two administrators
  that remove each other at the same moment leave no user, and setup opens again.
* `SessionsFollowPassword` is about access tokens. MCP tokens survive a change of password; a
  status socket that was admitted stays open.
* `DashboardAgrees` is about a dashboard of which no report is marked as failed. A report that
  fails keeps what it showed before, beside the new answers of the others, and the page says so.
  The range can only be changed when no historical report is loading, so the request number with
  which the page discards late answers never decides anything; refreshes cannot overlap
  either, since the button is busy until they have ended.
* `DialogShowsSelected` leaves out an answer to a metadata refresh, which replaces the repository
  on the screen without asking whether it is still the selected one.
* `CardsMirrorServer` compares the list of a card, duplicates included, with the stored rows. It
  leaves out (`crossed`) cards of which the code does not keep that: one that was changed while
  it loaded, whose list then replaces the change, or has it already and gets it appended
  again; one that was mounted while a change of an earlier mount was
  under way, the dialog having been closed and opened, whose list may be older than that
  change; and one that a late answer to a refresh gave another repository.
* `SelectionIsOffered` leaves out the dialog that was closed and opened again while additions
  were under way: their answers then write into the new selection.

`TypeOK` is the one type invariant of each composed module. Each property has a mutant, a small
change of a mapped definition that TLC must find to violate it.

## 4. Fairness

* `WF(Tick)`: time passes.
* `WF(WorkerStep(w))`: `@Interval(5000)` keeps starting passes, statements return, and a sync
  returns: `fetch` has default connect, header and body timeouts, and the loops of a sync are
  over finite lists. Whether it succeeds or throws is never assumed.
* `WF` of the reconciliation: its interval keeps firing and its loop ends.
* `WF(SenderStep(s))`, `WF(DelayElapses(d))`: the retry interval, the 30 s limit of the Apprise
  command, and time.

Enqueueing, administration and crashes are never assumed to happen or to cease, except
where a liveness property says so in its premise: a worker that always crashes, or a webhook
before each debounce has ended, keeps a request waiting, and this is the code's behaviour.
The history group and the control plane state no fairness: their properties are about states
and steps, and "eventually" appears there as "once nothing is under way".

## 5. Findings

| Run | Statement in the repository | What happens |
| --- | --- | --- |
| `queue_parallel` | `docs/provider-webhooks.md:41-43`: instances "never synchronize the same provider account in parallel" | The lease is not renewed; a sync longer than an hour overlaps the next one of its account |
| `queue_durable` | `docs/provider-webhooks.md:15-16`: "Accepted deliveries enqueue a durable repository synchronization"; the test "retains a follow-up request when another delivery arrives during synchronization" | `completeRequest` deletes by id after comparing generations in an earlier statement; a request that arrives between the two is deleted |
| `notify_resent` | the test "records a failed attempt and schedules a retry without resending completed channels"; the schema's "One idempotent notification operation" (`NeverResent`) | Overlapping senders read the same delivery and both send |
| `history_polling` | `docs/provider-webhooks.md:103-104`: "Polling remains the source of truth for run completion status" | `lastSyncAt` is the time at the end of a sync, the listing was made at its start: a Forgejo run that begins and ends in between is not listed by later polls |

## 6. Proofs

All theorems hold for all values of the constants that satisfy `ConstantsAssumption` of their
module: any finite or infinite sets of repositories, accounts, passes, rules, runs and senders,
finitely many channels, any delays and lengths with `SyncLease > 2 * MaxStale`. For the history
`SetupsAssumption` asks that a surrounding names one of the four providers and starts with runs
an earlier synchronization can have stored; runs (finitely many), synchronizations, cleanups,
page sizes, filters, cutoffs and the bounds of time are arbitrary. For the control plane it asks
for a database that is consistent and has rows of the right shape, calls that name an operation
with a credential of its kind, and names for requests and rows that are not taken; how many
requests, pages, users and rows there are, and in which order they act, is arbitrary.

| Module | Theorem | Statement |
| --- | --- | --- |
| `SyncQueueProofs` | `TypeCorrect` | `Spec => []TypeOK` |
| | `LeasesAreExclusive` | `Spec => []LeaseExclusive` |
| | `RateLimitIsHonoured` | `Spec => []RateLimitHonoured` |
| | `RateLimitsOnlyExpire` | `Spec => RateLimitNeverShortened` |
| | `QueueImplementsGate` | `Spec => GateImplemented` |
| `SyncQueueRequestProofs` | `UnansweredIsQueued` | `Spec => []UnansweredStaysQueued` |
| | `RetryBudget` | `Spec /\ [][RetriesLieAhead]_vars => []RetriesBounded` |
| `NotificationDeliveryProofs` | `TypeCorrect` | `Spec => []TypeOK` |
| | `DeliveredIsReceived` | `DeletingSpec => []DeliveredMeansReceived` |
| `NotificationContentionProofs` | `AttemptsAreFresh` | `Spec => []AttemptIsFresh` |
| | `SettledStaysSettled` | `Spec => SettledIsFinal` |
| | `CompletedStaysCompleted` | `Spec => CompletedNotResent` |
| | `FailuresAreEarned` | `Spec => []FailureIsEarned` |
| `RepositoryHistoryProofs` | `OnlyTheExpiredVanish` | `Spec => OnlyExpiredRunsVanish` |
| | `EveryApprovalIsCounted` | `Spec => []ApprovalsAreCounted` |
| | `OnlyGapsMissChanges` | `Spec => []ChangesMissedOnlyInGaps` |
| `ControlPlaneProofs` | `PasswordsEndSessions` | `Spec => []SessionsFollowPassword` |
| | `SetupMakesOneAdministrator` | `Spec => []SetupOnce` |
| `ControlPlaneAuthorizationProofs` | `AnswersAreAuthorized` | `Spec => []ReadsAreAuthorized` |
| | `WritesAreAuthorized` | `Spec => ChangesAreAuthorized` |
| | `RulesUseTheirChannels` | `Spec => []ChannelsStayInRepository` |
| | `NoRowDangles` | no row of any table refers to a row that is gone |

Every safety property which the runs of the queue and of the notifications check is a theorem
(`RetriesBounded` under a hypothesis), three of the history are, and of the control plane those
about passwords, setup, authorization and references. The exceptions that section 3 names
are part of the properties and so of the theorems.

### Leases and the gate

`LeaseExclusive` is not inductive: it says nothing of the row the claims look at. The inductive
invariant is `LeaseInv`, the conjunction of

* `TypeOK`;
* `LeaseHeld`: while a pass is within its lease, the account row, if it still exists, carries
  that pass's token and expires exactly when the lease does, so a claim that finds the account
  free, even by an old clock, finds no pass in its lease;
* `RemovedAccountIsOff`: an account that is gone is disabled and has no rate limit, so nobody
  claims it, which the passes still running for it need;
* `LeasedAccountIsUnlimited`: an account that carries a token, expired or not, has no rate limit
  ahead, because a claim needs it passed and whoever sets it gives the token back;
* `LeaseExclusive`.

The step lemmas follow the actions: enqueueing, claiming (`FreeAccountHasNoLease`,
`ClaimStartsTheOnlyLease`), finishing (`ReleaseKeepsLeases`), administration, time.
`RateLimitsOnlyExpire` follows from the same invariant: a finish writes the limit only with the
account's token, and an account with a token has no limit ahead (`LimitsKept`).

The refinement maps the passes within their lease to those inside the gate (`Using`) and a rate
limit ahead to the ticks until its end (`Limit`). Under `LeaseInv` a claim enters
(`ClaimEnters`), the end of a sync leaves, with or without the news of a limit
(`FinishedPassLeaves`, `AbortedPassLeaves`), time ends leases and limits (`TickImplements`), the
removal of an account ends its limit (`AdministerImplements`), and everything else is a stutter
(`GateStutters`). `LeaseExclusive` is what makes a claim find the gate empty, and
`LeasedAccountIsUnlimited` what lets a limit be announced only when there is none.

### Requests

`UnansweredStaysQueued` can only be broken by a finish that deletes or fails a row, and whether
it may depends on what its pass read in two earlier steps. `AnswerInv` carries that along:

* `LateIsSuperseded`: a request that arrived while a pass was synchronizing its row has raised
  the generation, so the pass finds its reading superseded. This holds for a row that was
  deleted and inserted again because nobody holds the key of a new row (`EnqueueKeepsJobs`);
* `CompletedIsAnswered`: what is still unanswered when a sync has succeeded arrived since it
  began;
* `DecisionLeavesNothingOpen`: a finish that found its row current leaves nothing open that it
  does not answer, except what arrives in the gap between its two statements (`"raced"`);
* `AskedIsEnabled`: a disabled repository is owed nothing.

### The retry budget

The decision to retry is taken from the attempt number a pass claimed, and written without
looking at the row again. Passes that were taken over, and passes that claim from an old
reading of the candidates, decide from numbers that are too small; `AttemptInv` shows that none
of them finds a row it could push past the budget:

* `OwnAttemptCounts`: a pass that still holds the token of a row knows its attempt number;
* `StaleSnapshotIsNotDue`: a row that was tried again since a pass read its candidates is not
  due by that pass's clock, so the conditional update of its claim finds nothing;
* `TakeoverOutlastsDecision`, `OneStaleDecision`: a row that was taken over under a finishing
  transaction is leased beyond the end of that transaction, so of the transactions that found
  one row at most two are open, and one of them still holds it;
* `DecisionWithinBudget`: a pass about to schedule a retry finds the row within the budget.

The theorem is about behaviours in which every retry lies ahead when it is written
(`RetriesLieAhead`): a failing pass that found its row current leaves it with a `runAfter` in
the future. The code does not ensure that: `failRequest` computes the delay from a clock it reads
before the transaction, 1 and 2 seconds for the first transient failures, and the
transaction may take up to five. Without the hypothesis the bound is false, since a row that is
due at once can be claimed by a pass that read it before: with three attempts, a lease of 5
and two ticks of staleness TLC finds a behaviour of four passes that exceeds the budget
by one. `queue_clocks` checks `RetriesBounded` without the hypothesis, with a delay equal to
`MaxStale` and two passes.

The budget is one of retries. A row whose lease expires is claimed again at any attempt number;
neither the property nor the theorem bounds those takeovers, and nothing in the code does.

### Notifications, with overlap

`DeliveredIsReceived` holds for any number of senders that overlap, crash, and fail to record
what they sent, in `DeletingSpec`, in which channels, rules and runs are only taken away (a
channel enabled later has of course received nothing). A sender settles a delivery from what it
read at the start and what it did since, so `ReceivedInv` says of each sender that

* a job names at least the channels that are still enabled, and those it takes for completed
  have received the notification (`JobHonest`);
* while it works on a delivery, each of the job's channels is still to be sent to, has failed,
  or has received it (`SenderHonest`);

and of the tables that a recorded success was received (`SuccessReceived`). `TypeCorrect` needs
that attempt numbers have a greatest one (`NumbersBounded`): the next number is one more than
the maximum, and `BoundedHasMaximum` and `NewNumberIsGreater` show that it exceeds all others.

### Notifications, with contention

With overlapping senders a settled delivery may be reopened and a completed channel sent to
again (`notify_resent`). The history variable `contended` marks where: `ReadPending` adds each
delivery that another call has in hand at that moment (`InHand`: in its batch, or being worked
on). The four theorems hold for any number of overlapping senders that crash, fail to record and
meet managers; three of them speak about the deliveries that are not contended. `CarefulInv`
says of those that

* one call at most has the delivery in hand (`OneHolder`). Other calls work on
  other deliveries at the same time, and leave this one alone (`OthersDoNotHold`);
* what a sender has left to do belongs to deliveries that are not settled, one job each, and an
  attempt it has yet to record is newer than all recorded ones and goes to a channel without a
  success (`BatchCareful`, `WorkCareful`, `Fresh`);
* a recorded success is the last attempt at its channel (`SuccessIsLatest`): this is what makes
  "done by its latest attempt", which the code asks for, mean "ever delivered".

`SettledStaysSettled`, `CompletedStaysCompleted` and `AttemptsAreFresh` follow.
`FailuresAreEarned` is about all deliveries, for as long as nothing was reconfigured. `EarnedInv`
says that attempts are numbered without gaps, by whomever they were made (`NoGaps`), only at
enabled channels (`EnabledAttempted`); that a job names exactly the enabled channels; and that
each of its failed channels was attempted in this round or is still to be (`BatchEarned`,
`WorkEarned`), so failed channels of the last round are not counted twice. Both invariants were
checked with TLC on instances with two senders before they were proved.

### The history

The theorems share `ShapeInv`: what records the synchronizations and cleanups keep, and
that instants at the provider lie in the past (`RemoteInv`).

* `OnlyTheExpiredVanish`: a run vanishes in three statements, the two deletions of a cleanup and
  the cascade of a removed workflow. For the first two, `PoliciesCover` says that the policy in
  force, and the override a cleanup has read, are among those it ran under: a change of the
  policy between its statements is then harmless. For the third, `LegacyIsEmpty` says that
  between the move of its runs and the removal of a legacy workflow no run belongs to it. That
  survives another synchronization because whatever is stored gets an id of this release, which
  differs from every legacy id (`LegacyIsOther`, `SyncKeepsRuns`).
* `EveryApprovalIsCounted`: a run that awaits approval is stored as a queued one
  (`ApprovalIsQueued`), because each adapter normalizes it to that (`ApprovalResolved`). The
  queue of approvals and the summary's count, two different queries, are then the same set.
* `OnlyGapsMissChanges`: `GapsInv` adds to the two invariants before it that instants lie in the
  past (`TimesInv`), that rows, and what a synchronization has found, are states the run has had
  (`RowPast`, `FoundPast`, `FoundInv`), and two statements about who is answerable for a change.
  `MissedInv`: a change before the last completed synchronization was let go by, or is
  kept, with its rules evaluated unless it is no news. `AnswersFor` and `Carried`: a
  synchronization carries each change between its cursor and its listing, which it did not pass
  over, from one stage to the next: it has found it, stores it, evaluates it. The first
  stage is `ListingIsComplete`, proved of the four listings. When a synchronization finishes, the
  second statement gives the first; what an overlapping one does in between may only undo it by
  overwriting the row, which `past.overwritten` remembers until the row is current again. The
  proof showed a fault in this bookkeeping, which had forgotten too early.

TLC checked the invariants on the instance of `history` before they were proved.

### The control plane: passwords and setup

`IInv` carries what single statements rely on:

* `RequestInv`: the statements a request has still to run are a tail of its route; only setups and
  `createUser` have a statement that creates a user;
* `TokenInv`: no issued token is ahead of its user's `authVersion`, and one that is level with it
  was signed for the password the user has. A sign-in reads version and password in one statement
  and signs what it read, so it signs the past, whatever is changed meanwhile;
* `FreshInv`: the identifier of a user who is still to be created was never in a token, so a token
  of a removed user does not come to life again;
* `FirstRunInv`: one setup is past the advisory lock, and it creates the administrator only if
  there is none of another setup.

The lemmas treat the statements of a request by what they may write (`UserAdvances`, `PutAdvances`,
...); all that write no credentials keep the invariant for one reason, proved once (`QuietKeeps`).
That pages and MCP clients never ask for what creates users is read off their routes
(`ControllersNoneCreate`, `WebAsks`).

### The control plane: authorization

`AccessInv` consists of `Tidy`, `FreshRows` and `RequestOk`.

* `Tidy`: the tables have their columns, and no row refers to one that is gone. A removal is the
  removal of rows and three sweeps of what dangles, since the cascades of the schema are three
  deep; the proof shows that a fourth would find nothing. `NoRowDangles` and
  `RulesUseTheirChannels` are parts of it.
* `FreshRows`: a row that a request is still to create has an identifier nobody has. With it, what
  is fixed of a row (the repository of a rule, the user of a token) stays what a handler has
  read (`Stays`), even if the row goes.
* `RequestOk`: the right that a request's next statement relies on was held at a moment of the
  request. `witness` collects the rights of its user from authentication on and only
  grows (`WitnessGrows`), so a right that was once read stays justified; each route is a
  fixed sequence (`RoutesAre`, `MayFollow`), and what is known before one of its statements is what
  the one before it has checked.

A lemma for each statement shows what it changes and what the request may rely on afterwards;
the requests around it only see rows change as `Tidy` and `Stays` permit (`OthersKept`).
`AnswersAreAuthorized` reads the result off the ended requests, and `WritesAreAuthorized` off the
steps, cascades included. TLC checked `IInv` and `AccessInv` on the instance of `control_plane`
before they were proved.

### Only model-checked

* Of the history: `TypeOK` and `DurationsSurviveRetention`, which are about sums over sets of
  runs. A sum is a fold, and what a fold computes needs an induction over data that the prover
  cannot do. `AttentionMirrorsProvider`, `ChangeRequestsAreFresh` and `ActiveRunsSettle` relate
  what each overlapping synchronization has read to what is stored; their inductive invariants
  are not written.
* Of the control plane: `TypeOK` (its references are `NoRowDangles`; uniqueness and the types of
  pages are left), `DuplicateMeansQueued`, and the properties of clients and pages.
* The liveness properties (`QueueDrains`, `AcceptedIsTakenUp`, `EventuallySettled`), which are
  beyond the prover.

## 7. Abstractions and limits

* Isolation is READ COMMITTED: each statement is atomic, and a transaction holds its row locks
  to its end. Deadlocks between a claim (account, then request) and a finish (request, then
  account) are not represented as waits; their effect, one transaction rolled back, is
  (`PassAborts`, `CompleteRequestThrows`).
* Instances are taken to have synchronized clocks. A skew acts like an older captured clock and
  is covered as far as `MaxStale` reaches.
* Delays are members of small sets; exponential growth, jitter and header parsing are left out.
* The groups do not share state. What a sync does inside is left out of `SyncQueue`: it succeeds,
  or throws one of the kinds of errors `providerRetryDecision` tells apart. The queue of the
  control plane is a table with one row per repository, and a synchronization there is what it
  publishes and which run it writes.
* In `SyncQueue` and `NotificationDelivery` everything exists at first and may be removed once;
  creation is in the control plane. A run that is imported again after its expiry is a new
  run with new deliveries.
* The replacement of a rule's channels is taken as atomic; the order in which Prisma executes
  the nested `createMany` and `deleteMany` of `updateRule` is not the code's to decide.
* A synchronization reads one page of every listing; the providers' pages beyond it are what
  `setup.pageSize` cuts off, except Forgejo's, which the adapter follows.
* Notification rules in `RepositorySync` are only "evaluated for this change"; what they do with
  it is `NotificationDelivery`. A process that dies between the upsert of a run and the
  evaluation loses the notification when the run is not listed again.
* Values that requests only carry (names, passwords, URLs, secrets) are members of small sets, and
  encryption and hashing are left out. Sorting, paging and projection of queries are left out;
  queries that select rows are exact.
* Access tokens do not expire in the control plane (an expiry only takes rights
  away), the expiry of MCP tokens and of OAuth states is there. The OAuth state is stored nowhere:
  it can be used again until it expires, and the model lets it.
* Summary reports read in several statements are not one snapshot; `ReadsAreAuthorized` accepts
  the mixture, and `DashboardAgrees` is checked while the database is at rest.
* The row that a table page keeps (`pages/repositories/index.vue`) belongs to the table library.
  Its switch sends the retention period the row had when it was loaded, so switching a repository
  on or off may undo a change of the period made meanwhile; this is `updateRepository` with
  stale input in the model, and no property forbids it.

Not modelled: HTTP clients of the adapters, Apprise URL formats, encryption, health and version
probes, start-up, image conversion of avatars, and of the web client the tables, forms,
translations and layout.

## 8. Plan

Done: the queue with its lease theorems and the refinement of `ProviderGate`; notification
delivery; the history group; the control plane with the pages of the web client that keep state.

Left, in this order:

1. Further theorems of the history: `ChangeRequestsAreFresh`, `AttentionMirrorsProvider` and
   `ActiveRunsSettle`, on top of `GapsInv`.
2. Theorems of the clients: `ClientsMirrorServer` first, whose snapshots are ordered per socket.
3. Liveness of the history: under a fair synchronization and a provider at rest, every current
   run is settled.
4. `RequestLedger`: what the queue promises without leases, clocks and rows (a repository is
   owed a sync, is being synchronized, is not owed one), with `SyncQueue` as its refinement.
5. `RetryPolicy`: delays and header parsing as pure operators against a reference definition.
