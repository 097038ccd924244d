# platfarm: TLA+ models, checks and proofs

Models of platfarm's own core logic, written from the source: what is stored, who changes it, in
which order, and what may come in between. Modules are checked by TLC on small instances; every safety
property so checked is also a theorem, proved by TLAPS for every instance. `PROJECT.json` lists the components, runs,
mutants, findings, hazards and theorems, and maps every definition to the lines it models.

    tlc -workers 2 -config JobQueue_safety.cfg MCJobQueue      # a run
    tlapm JobQueueProofs.tla                                   # proofs

## 1. The system

platfarm is a set of Go services behind a Kong gateway: an identity service (`platform/auth`), ten
or so business services (`services/svc-*`), each with its own PostgreSQL schema, SDKs, and `svc-vision`,
a complete video surveillance system that is half of the Go code. Services call each other over
HTTP with bearer tokens; there is no message broker. One replica per service is the default of
`deploy/` and the compose files; the documents (`docs/architecture-v2.md`) and comments promise that
several replicas work when Redis is there. So concurrency is: requests of one process against each
other (one transaction or none per handler), background goroutines against requests, replicas
against each other through the database.

### 1.1 Inventory

| Component (module) | State | Operations | What is hard | What makes it correct |
|---|---|---|---|---|
| svc-jobs queue: `worker.go`, `main.go` (JobQueue) | table jobs: status, attempts, run_at; per worker an open transaction | enqueue; `deliverBatch`: pick due rows SKIP LOCKED, call webhooks inside the transaction, commit all outcomes | replicas; rollback after calls were made; lost answers; batch longer than a backoff | one recording caller; no lost update; done only if accepted; dead only after max_attempts; every job settles |
| svc-jobs scheduler: `worker.go:158-260` (JobScheduler) | table schedules: last_run_at, enabled | create, update, delete; `runSchedules` in every replica | read, then transaction; no lock between replicas; a transaction that stalls; a scan that fails half way | a tick gives its job, no more than the replicas can justify; a paused schedule stops |
| auth users and sessions: `main.go`, `users.go`, `account.go`, `tenants.go`, `token.go` (AuthSessions) | tables users, tenants; issued token pairs | login, refresh, logout, password change and reset, PATCH of users and tenants | every handler is several statements without a transaction, any of which may fail; tokens are issued from rows read earlier | sessions a change contradicts end; an active admin remains; a refresh token is redeemed once |
| auth revocation store: `redisstore.go`, `token.go:92-114` (TokenStore) | pf:revoke and pf:userkill keys, or two maps and a janitor | revoke, revokeUserTokens, parse, the gateway's check | whole seconds, expiry of entries, restarts, outages of one reader | a revoked token stays dead; a cutoff covers what it is meant for and no more |
| gateway: `gateway/kong.yml` (TokenStore) | none | jwt plugin, revocation check, rate limits, metering | fails open; reads auth's two keys one after the other | what auth has ended does not pass |
| auth external identities, registration limiter: `external.go`, `account.go`, `ratelimit.go` (ExternalAccounts) | tables users, user_identities; a window per address in memory | register, create, find, provision, bind | two first logins at once; a login that dies between its INSERTs; restarts empty the window | one account per identity; the limit per window of one process |
| auth second factor: `account.go:139-220` (SecondFactor) | totp_secret, totp_enabled | setup, enable, disable, reset | verify against one secret, enable another | only a verified secret is enabled |
| auth apps and quota, svc-openapi: `apps.go`, `quota.go`, `client.go` (AppsQuota) | table apps, live tokens, the metering log, a cached service token | create, edit, rotate, issue | read, asked and signed one after the other; the log lags; tokens outlive the check | past the quota for one token lifetime and one request at most |
| svc-notify: `worker.go`, `main.go` (NotifyOutbox) | table notifications | send, mark read, `deliverBatch` in every process | rollback after calls; SMTP without a deadline in a transaction | calls are accounted for; the outbox drains |
| svc-users: `reset.go`, `verify.go` (OneTimeCodes) | table reset_codes | issue, check, use | count then insert; read, compare, then count; used after the effect | limits overshoot by what overlaps; a code works once |
| svc-file: `main.go`, `sweeper.go` (FileStore) | rows of files, objects in S3 | presign, upload, delete, sweep | object and row apart; uploads that end late; a bounded batch of the oldest | only the abandoned is swept, and it is swept |
| svc-data: `ingest.go`, `db.go`, `admin.go` (DataIngest) | rules, records, record_index, deliveries | ingest, edit rules, reindex, purge, query | repetitions; rules changed meanwhile; a reindex against an upsert | filters agree with documents; a delivery is written once |
| svc-oauth: `store.go`, `main.go` (OAuthLogin) | states and codes in Redis or memory | start, callback, exchange | store chosen once at start; replicas; expiry | taken once, and there until then |
| svc-grants (ServiceGrants) | table grants | put, revoke, list | unique without the tenant, listed by tenant | what an admin was told holds |
| svc-gitpulse poller: `poller.go` (RepoSync) | repository, branch, watermark, commits | poll, page, edit | pages newest first; failed details; a switch during a sync | no commit is skipped |
| svc-gitpulse digests: `analyzer.go` (RepoReports) | analyses | after each sync, and on demand | a span of time against a timer; commits pushed late; minutes of matching | every commit is in a digest, but for gaps |
| svc-gitpulse issues: `issues.go`, `analyzer.go` (IssueMatches) | issues, matches | link, ask the AI, confirm, reject, close | single statements of several actors on two tables | an issue's status says what its matches say |
| svc-ai: `main.go`, `admin.go` (AiGateway) | providers, aliases, keys | route, call, meter; PATCH column by column | a call between two columns | endpoint and credential belong together |
| schema migrations: `migrate.go` of eight services (Migrations) | schema_migrations | run at start | replicas of different builds, an unheard commit | each file once, in order |
| svc-vision camera manager, ffmpeg: `internal/camera/service.go`, `pkg/ffmpeg` (CameraRuns) | camera rows, instances, goroutines, streams | create, start, stop, restart, update, delete | unlocked reads; channels replaced; a flag that lags | a stopped camera has no stream, an enabled one has a goroutine |
| svc-vision recordings, storage: `internal/storage/service.go`, `camera/service.go:600-736` (RecordingStore) | segment files, index files, rows, remote copies | insert, upload, write back, expire, capacity, sweep, delete | file, row and two remote copies change apart | listed recordings play; retention works |
| svc-vision alerts, ONVIF events: `internal/alert`, `internal/onvifevent` (CameraAlerts) | alert rows, quiet times, a bounded queue, clips | subscribe, raise, push, acknowledge, clear | marks set before the row is stored; two goroutines; read then update | an alarm is not lost in silence; motion is filmed; the cleared stays cleared |
| svc-vision settings: `internal/api/server.go` (VisionSettings) | memory, system_configs, config.yaml | PUT of five pages, restart | copies of the whole read before and saved after; fields that are not optional | memory and table hold the last edit |
| keys, lifecycle, user console, demo, templates, SDKs, protocol clients, UIs, deployment | - | - | - | not modelled, section 6 |

### 1.2 How the parts meet

* Admin and user requests reach `auth` through the gateway; `auth` writes revocations that the
  gateway reads from Redis on its own. `AuthSessions` has the rows and requests, `TokenStore` the
  clock and the store under `revokeUserTokens`: the first abstracts a kill to "pairs issued before".
* Services enqueue jobs with `POST /api/jobs/enqueue`; a due schedule inserts one itself; the worker calls
  webhooks back through `auth`'s service tokens. `JobScheduler` ends where `JobQueue` begins: the INSERT.
* In svc-vision an API request acts on the camera manager, whose goroutine starts ffmpeg streams
  (`CameraRuns`); a stream's finished segments become files, rows and uploads, and the storage manager
  deletes them (`RecordingStore`). The two meet in "ffmpeg starts" and "ffmpeg ends".
* A login from outside is a state and a code in svc-oauth (`OAuthLogin`) and then an account in auth (`ExternalAccounts`);
  a lost password is a code of svc-users (`OneTimeCodes`) and then a call of auth's set-password (`AuthSessions`).
* svc-gitpulse's sync stores commits (`RepoSync`), then links them to issues (`IssueMatches`), then writes a digest when
  one is due (`RepoReports`); each of the three takes from the one before only which commits are there.

## 2. Modules

### JobLedger, JobQueue: the delivery queue

`JobLedger` is what svc-jobs promises the caller of enqueue: settled at most once, done only after an
accepted delivery, dead only after max_attempts failures. `JobQueue` is the code. One
`deliveryWorker` per replica; `TakeBatch` is the SELECT ... FOR UPDATE SKIP LOCKED with LIMIT (any
subset when rows are due, as large as the limit allows), `StartDelivery`, `DeliverySucceeds`,
`DeliveryFails` are `deliver` and the staged UPDATEs, `TargetAccepts` is the webhook's side (its
answer may be lost), `CommitBatch` makes them visible, `Crash`, `LoseTransaction`, `NoticeLoss` are
every way out that rolls back. Time: `wait` is run_at - now(), `age` the age of the transaction, since `now()` in SQL is its
start. The backoff doubles without a limit; it would overflow at attempt 28, after
waits of centuries, so the model has no overflow. An ambiguous commit is one of two existing outcomes (`CommitBatch`
or a loss). A request that arrives after the caller has timed out only repeats `TargetAccepts`.

### JobScheduler

Times are ticks, a schedule is due every `Period`. `Scan` reads all enabled rows with the time, `Skip` passes one over. The transaction is `BeginFire`,
which fixes the `now()` of its statements, and `CommitFire`: the job, and last_run_at by primary key, set to that time without a comparison. A transaction that
stalls takes last_run_at back behind another's, and a tick fires again (`rewinds`). INSERT, UPDATE and commit are one step, since the UPDATE's row lock is held to the commit and
nobody reads the job before; the wait for that lock is in `BeginFire`. `AbandonScan` is any failure. Admin handlers interleave
anywhere. `fired[s][t]` counts the jobs of tick t, `unwanted[s]` those inserted since s was paused or deleted.

### AuthSessions

Each handler is cut at its statements: `LoginRead`/`LoginIssue`, `RefreshParse`/`RefreshLoad`/`RefreshRotate`,
`ChangeRead`/`ChangeWrite`, `UpdateRead`/`UpdateCount`/`UpdateWrite`/`UpdateTenant`/`Kill`,
`TenantWrite`/`TenantMembers`/`Kill`; a slot holds what the handler holds in local variables. An admin's
token is checked from its claims (`auth` does not look the row up), so a demoted admin's PATCH in progress goes on. What fails after a row was written:
`Fail` is an error of the tenant's UPDATE (a 500 with role and status already written, users.go:165), of the query of a tenant's members (dropped, tenants.go:96) or the end of the
process; `Kill` and `Revoke` lose the SETs of Redis whose errors redisstore.go drops. `spared` and `kept` name the tokens that live on for it. A PATCH of the role that has half failed
and is sent again finds the role as asked and revokes nothing; the model shows this, as `NeedsKill` compares with the row as read.

### TokenStore

One user, because pf:userkill is a key per user. `backend` is chosen in `Init`: "redis" (keys with a time to live, cutoffs in whole
seconds, two readers who may lose Redis separately) or "memory" (exact times, janitor, lost at a restart).
Redis rounding of a TTL to milliseconds is ignored.
The gateway is a request on its way: `GatewayReceive` (the jwt plugin's check of exp), `GatewayToken` and `GatewayUser`, one key each, with revocations, expiry and outages in between. The gateway looks
only after its own login to Redis succeeds (kong.yml:103); a refused login counts as an outage.

### RecordingStore

One camera. ffmpeg opens and closes numbered segments and lists closed ones in the index of its run; `Claim`/`Insert` are the
watcher; each enabled remote store has a goroutine per segment: `Upload`, `GiveUp`, `WriteBack`,
`RemoveLocal`. `doCleanup` is a pass of statements: `StartPass` (query), `DeleteFiles`/`DeleteRow` per row,
`SweepOrphans`, `Measure`, the capacity loop, `SweepSegments`, `SweepRemote`; `StartPassFails`, `SweepOrphansFails` and `MeasureFails` are the early returns by which a part of it
ends and removes nothing (`cut`). A user's deletion is `UserRemove` (row read, local file removed), `UserUnstore` (the DELETE to WebDAV), `UserErase` (the row, or an
error, which leaves a row without a file). Modification times are
"fresh", "settled" (five minutes) and "old" (max_days). A fault (a database error or a crash) may hit anything. Errors of os.Remove are not modelled, nor is
local storage switched off. A remote store lists and deletes what it will: `SweepRemote` takes any set of the copies it may take.
max_days is taken to be at least one: with 0, documented as "no auto-delete" (README.en.md:263), the code takes now as cutoff and deletes
everything; the API refuses 0 but config.yaml does not.

### CameraRuns

One camera, since instances share only a lock. `starts` numbers channels, goroutines and instances.
A request is `Ask` and then the code between two points where others can act: `Lookup`, `Save`, `Decide`,
`StartLookup`, `StartCamera`, `StopCamera`, `Halt`, `Await`, `DeleteCamera`, `Erase`. A goroutine is
`Begin` ... `End`. `Select` takes the channels as they are at that moment: a start that replaces them later is not heard. `Save` is gorm's upsert:
an update racing a delete brings the row back. Waiting fifteen seconds for the done channel and not waiting at all
look the same to the model, so `Await` is always enabled. Unlocked reads are taken to be atomic. Database errors of an update's Save (1071-1073, the request ends with nothing
changed) and of a delete's last statement (1116, the row stays without an instance until a restart) are not modelled.

### NotifyOutbox, FileStore (composed with JobScheduler in MCDeliveries)

`NotifyOutbox`: `HandleSend` is the INSERT (an inbox notice is "sent" at once), `HandleMarkRead` the user's; per process `PickBatch`, `Deliver` per row
and `CommitBatch` are `deliverBatch`, `RollBack` every way out of its transaction; `MailHangs` is smtp.SendMail against a server that says nothing, which has no deadline.
`FileStore`: the row comes with the presigned URL (`HandleUploadURL`), then `UploadBegins`/`UploadEnds` in the bucket, where only the beginning must fall in the
URL's life; a DELETE is `RemoveObject` and `DeleteRow`; the sweeper is `SweepBegins` (the query with its LIMIT), `StatObject` per row, `SweepRow`.

### The parts in MCParts

Each is one component, its state and its handlers cut at their statements. A slot, a call or a request is one handler in progress and holds what
the code holds in local variables.

| Module | Actions and the code they stand for |
|---|---|
| OneTimeCodes | `AskForCode`/`StoreCode` count the codes of the last hour and insert one; `SubmitCode` reads the row and compares, `CountGuess`, `ApplyCode` (the call to auth, whose answer may be lost), `MarkUsed` (error dropped). The same statements for both purposes, `flow` says which |
| SecondFactor | `Setup`, `Check` (reads the row and checks a typed code against it), `Enable`/`Disable` (UPDATE by id), `ResetTOTP`; a code is the pair of secret and time step |
| ExternalAccounts | `LookUp`, `Provision`, `BindFirst` are handleExternalLogin's three statements, `BindExternal`, `Register` (with the limiter, in memory), `CreateUser` |
| OAuthLogin | `StartReplica` chooses the store once; `Authorize` and `ProviderCode` put, `Callback` and `Exchange` take, each on any replica |
| AppsQuota | `AskToken` (SELECT and bcrypt), `AskLog` (the usage the log shows against the quota as read; an error lets the request through), `SignToken`: one request, with edits, requests and the log in between; `Serve`, `Ship` (the log catches up), `FetchToken` of the console, edits |
| ServiceGrants | `Grant` (upsert without the tenant in its key), `Revoke` |
| AiGateway | `Patch` (any of the columns, each optional), `PatchColumn` (one UPDATE per column named, its error dropped), `CallIn`, `CallOut`, `Fallback`, aliases and keys |
| DataIngest | `Ingest`, `UpsertBegins` ... `Answer` are one delivery; `ReindexLoads` ... `ReindexCommits` one transaction under READ COMMITTED, with the row locks that order it against upserts; purges in their statements; `Extract` and `Satisfies` are the rules and the filters on small documents, where of array elements of one key the last one counts (`LastOfKeys`, the ON CONFLICT of the INSERT) |
| RepoSync | `Load`, `Begin` (with the question for the default branch while there is none), `ListPage`, `Item`, `NextPage`, `Finish` are syncRepo; `Push` is the world; edits of the repository between any two |
| IssueMatches | `Take`, `InsertMatch`, `MarkIssue`, `Ask`, `AiAnswers` are the linking after a sync; `Confirm`, `Reject`, `Verify`, `Reopen`, `PatchIssue` the handlers, statement by statement |
| RepoReports | `CommitNow` is the world; `Sync` stores what it finds pushed, however old, by the timer or by hand under the lock of the repository; `RunIfDue` after the matching, `Analyze`, `StoreReport` after the AI's answer. A digest is of the rows `Counted` when it was decided on; `end` and collectStats are one step. Dates are the authors', none later than the push. A weekly report is the same without `Analyst` |
| CameraAlerts | `Subscribe`, `Pull`, `HandleEvent` (the mark), `SaveAlert` (the INSERT), `TellAlert` (queue and clip), with anything in between, `RunMotionRecording`, `SendAlert` and the three channels, the handlers of the table, the end of the process |
| VisionSettings | `PutStorage` ... `PutServer` read the settings, `Set` writes memory (storage and snapshots a whole copy, the server what the request lacks as empty, the others what it names), `SaveSetting` a row; `RestartVision` overlays rows over the file |
| Migrations | `Look` (SELECT EXISTS, BEGIN), `RunFile`, `Record` (waits for and is refused by the primary key: `Insertable`, `Refused`), `CommitFile`, `Dies`, `StartAgain` with any build |

Why one run for fourteen: they share no table, no memory and no call that changes both, so every interleaving of two of them is as good as each alone. `part` says which one
a behaviour is about, the others rest in an initial state (`OthersRest`), and the states add up where a product would multiply. A property that spans several of
them (`SignInHolds`, `AdministrationHolds`, `AnalysisHolds`, `VisionHolds`) is the conjunction of the parts' own, which are stated and commented beside their actions.

## 3. Runs

| Run | Instance | What it shows |
|---|---|---|
| JobQueue_safety | 2 workers, 2 jobs, batch 2, limits 1 and 2, 2 faults | types; `OneRecordingCaller`, `SeenIsCurrent`: SKIP LOCKED and the transaction keep a row to one worker until it is recorded; `DoneWasAccepted`, `AttemptsHonest`, `CallsAccounted`: the books match what webhooks saw; `KeepsTheLedger`: refinement of JobLedger |
| JobQueue_live | the same with a 2-tick minute, 1 fault, fair | `EventuallySettled`; `FailedJobRests`: the commit leaves a failed job waiting |
| JobScheduler_twice | 2 replicas, 1 schedule, 1 tick | finding: two replicas fire one tick twice (`OncePerTick`) |
| AuthSessions | 2 slots, 2 pairs; 2 admins with one PATCH of a user at a time, or 1 user, 1 tenant, 1 password, or an admin against a user with 1 fault | `SurvivorsStraddled`, `SomeActiveAdmin`, `ClosingEndsSessions`, `RedemptionsOverlap` |
| AuthSessions_last_admin | 2 admins, 2 PATCHes at once | finding: both demote each other, no admin is left |
| TokenStore | 2 tokens, 2 ticks a second, 12 ticks, 2 faults, symmetric tokens | `RevokedStaysDead`, `KillCoversOldSeconds`, `KillCoversEarlier` (memory), `FreshTokensLive`, `GatewayTurnsAway` (Redis) |
| RecordingStore | 5 settings of the stores, up to 2 segments, 2 ffmpeg runs, 2 faults, fair watcher | `Reachable`, `RetentionWorks`, `SegmentsRecorded` |
| RecordingStore_archive | local plus WebDAV archive, no fault | finding: the local copy of an archived recording is never cleaned (`RetentionHonoured`) |
| CameraRuns | 2 requests of any kind, 2 attempts to connect, 3 starts, 2 streams, fair goroutines | `StreamsHeld`, `DiesOnlyInHaste`, `EnabledRuns`, `StopIsHeard` |
| Deliveries | outbox: 2 processes, 2 notices, 2 attempts, 2 faults; files: 2, sweeper's batch 1, 2 faults; scheduler: 2 replicas, 1 schedule, ticks 2 and 4, 1 failed scan or transaction; fair | `CallsShown`, `OutboxDrains`; `SweptOnlyAbandoned`, `OrphanSwept`; `OncePerReplica`, `PausedFiresOnce`, `DueScheduleFires` |
| RepoSync_switch | 3 commits, 2 branches, pages of one, one switch | finding: a sync under way at a switch sets the watermark the switch cleared (`SwitchBackfills`) |
| Parts | fourteen parts, bounds in `Parts.cfg` | `EnabledIsProven`, `SignInHolds`, `AdministrationHolds`, `IngestHolds`, `NothingSkipped`, `AnalysisHolds`, `VisionHolds`, `MigratedOnce` |

Each property of a passing run has a mutant in `PROJECT.json`: a definition with a plausible bug under which TLC
finds the property violated.

**Why the bounds are enough.** Two of everything that competes for one thing (workers, replicas, slots,
requests, readers), and two things where order among them matters (jobs in a batch, pairs, tokens, segments). Limits of one and two attempts
hit "dead at once" and "one backoff"; calls of up to two ticks make a batch outlast the first backoff, as a batch of
slow webhooks does. With two ticks a second, access tokens of two seconds and refresh tokens of four, there are tokens
of the same, the next and a later second around a cutoff, and tokens and cutoffs both live and lapse before MaxNow. Two faults in `RecordingStore` are one in a deletion and one in the pass beside it; the properties exempt what a fault hits and look at what it does to the rest.
In `CameraRuns` the initial goroutine plus two requests give three starts at most; segment 2 exists only in the settings without an
exclusive store (with two, the states outgrow the run and nothing relates the segments there but the index).
In `Deliveries` the sweeper reads one row, so that of two files the older hides the younger (200 in the code). In `Parts` every limit is the smallest that can be
reached and overshot: one code in an hour, one guess, two registrations, pages of one commit, a queue of one alert, two builds; every part has two actors
where two can meet, a fault or two, and time enough for what expires to expire and be asked for again. `AiGateway` has one call against two editors, since calls read only; `DataIngest`
has two deliveries of one key, as keys meet in nothing but the purges. `CameraAlerts` begins with no channel on, one or all, and an edit may choose any.

**CHECK_DEADLOCK FALSE** everywhere: with all jobs settled, all pairs issued, the clock at its bound, all requests answered, nothing is left to do. `AuthSessions`' scopes cut what
the others are about, so that two admins, a tenant that closes, and failures under a PATCH or a closing while somebody signs in are all explored without their product.

**Fairness.** `JobQueue`: each worker's own steps and the clock; polling loops never stop and HTTP calls time out. Nothing is assumed of
callers, webhooks or faults. `Deliveries`: the loop of each process of the outbox, the sweeper, each replica's scan, and the
clocks; all are `for` loops around a timer that return errors to themselves. A hanging mail server is not forced to answer, so `OutboxDrains` exempts what it holds. `RecordingStore`: the watcher's steps for a segment
(a two second ticker). `CameraRuns`: each goroutine's own steps; connecting has time limits. No fairness of users, ffmpeg, uploads or cleanup.

### How the conditional properties are meant

Some properties hold except in a window the code leaves open. The window is part of the property, by a history
variable, so that anything else is a violation:

* `SurvivorsStraddled`: a login or refresh that read the row before a change and issued after it. It needs one PATCH at a time, in the run as in the theorem: two
  concurrent PATCHes lose each other's update of role and status, since both fields are written back from what was read. And what a failure `spared`: the very pairs whose
  revocation was to come when a statement, or a SET of Redis, failed. `ClosingEndsSessions` likewise.
* `RedemptionsOverlap`: one refresh token can be redeemed twice, by requests that both parsed it before either was answered, or when Redis did not store its revocation (`kept`).
* `GatewayTurnsAway`: only while Redis answers the gateway (`deaf`), and of tokens auth had ended before the request came: a revocation during the request may be seen by the second key or not at all.
* `OncePerReplica`: one job more per replica for each commit that takes last_run_at back (`rewinds`). `PausedFiresOnce`: a scan that had read the schedule before the pause.
* `Reachable`: database errors and a crash between file and row (`lapsed`), a deletion under way, and remote retention, which ages objects by themselves and never
  looks at rows (`dropped`).
* `StreamsHeld`: a stop during a connect, or a second start beside a living goroutine, leaves an ffmpeg nobody stops (`torn`).
* `DiesOnlyInHaste`, `EnabledRuns`: a request that acts while another is under way, or while a goroutine has been
  spawned but not begun, or told to stop but not ended (`hasty`). The second is not only a matter of microseconds: a stop gives up waiting after
  fifteen seconds while connecting over ONVIF may take longer; starting then finds the flag up and starts nothing. The goroutine closes its done
  channel before it lowers the flag (216-227), so even a stop that has waited returns a moment too early.
* `SweptOnlyAbandoned`, `OrphanSwept`: an upload that ends after PresignTTL and the sweeper's age loses its row (`late`); an orphan behind as many older rows as the sweeper reads is never
  looked at. `OutboxDrains`: `StuckInMail`.
* `CodesHold`: limits overshoot by the requests that overlap and the statements whose errors are dropped; a code works twice when a second request read it before the mark (`raced`) or the mark failed (`unmarked`).
* `EnabledIsProven` (`overtaken`), `AccountsHold` (`overlapped`), `LoginsHold` (`marred`), `GrantsHold` (`elsewhere`), `OverrunBounded` (`free`: the log could not be read), `CredentialFits` (columns still to be set, or `mixed`), `QueriesTrue` (`behind`), `WrittenOnce` (`doubled`),
  `AlarmsTold` (an INSERT under way or failed),
  `SettingsHold` (`contested`, `unsaved`; after a restart the ports, the mode and what was emptied), `NothingSkipped` (`excused`), `MatchesTold` (`resurrected`), `LostOnlyInGaps` (`StoredLate`, `failed`): each has, beside its actions, a history variable that names the steps which make the exception, and the
  comment names the line of the code that allows it. Where a hazard in `PROJECT.json` is such an exception itself, the property does not say that it cannot happen, since it does; it says how far
  the damage goes and that nothing else causes it, and the hazard's note says so.
* `SegmentsRecorded`: an error of this very segment (`lapsed`), of ffmpeg, and a cleanup that deletes the index its run is writing.
* `FailedJobRests`: run_at counts from the start of the transaction. `TokenTicks = 0` here; with the eight seconds a service
  token may take before each call of ten, a batch of ten may outlast the first backoff of two minutes and the property fails.

### Divergences noted without a run

Changing the password ends the access token of that request only, other sessions go on (documents disagree on whether they should); in Redis a token
signed in the second of a user revocation, before it, survives; introspection does not look at the user cutoff (main.go:315-322); MinIO copies
are never deleted with a recording and WebDAV ones at the wrong path (server.go:1768); restarting a camera that is switched off starts it;
the README of svc-vision says `storage_path` is written back after the local copy is deleted, the code does it before.

## 4. Proofs

All theorems hold for every value of the constants under the assumptions named in the modules; TLC evaluates those on every run. They say that
constants have their types, that limits, batches and times to live are positive, that sets which are counted are finite (users, workers, codes,
segments, commits), and the little the code or the deployment fixes: AccessTTL <= RefreshTTL; the seed creates an admin (main.go:205); CacheFor + 1 <=
ServiceTTL, as the console drops its cached token before that expires; a login's default name
is never "none". The bounds on faults, clock and attempts are constants too, so they may be arbitrarily large. Four theorems have a hypothesis
besides, each named in its statement and explained below.

**JobQueueProofs.** `IInv` = TypeOK, WorkerShape (a sleeping worker holds nothing; staged rows belong to the batch), LocksDisjoint (no row in two open
transactions), SeenIsCurrent, StagedBacked (what is staged is backed by what webhooks did), FreshRows, DeadIsBacked, DoneWasAccepted, AttemptsHonest.
The properties alone are not inductive: that a commit writes attempts+1 correctly needs SeenIsCurrent, which needs LocksDisjoint against other
commits; that a commit writes "done" only for accepted jobs needs StagedBacked at the time of staging. Proved from it: `TypeCorrect`, `OneCaller`,
`NoLostUpdate`, `DoneIsDelivered`, `DeadIsExhausted`, `SettledStays` (action property) and `Refinement`: JobQueue implements JobLedger, step by step
(a commit maps to `Settle`, a failed call to `Fail`, all else to `Submit`, `Accept` or a stutter). `NoCallForgotten` is `CallsAccounted` for any
finite set of replicas. It counts the workers that hold an unrecorded call of a job; `HoldersStep` says how the count moves when one worker acts, and
each action is then an equation: a call starts (one send, one holder), a commit turns a holder into an attempt or into "done", a rollback turns it
into `wasted`. `FailureRests` is `FailedJobRests` where `BatchSize * CallLimit < 2 * Minute`: the age of a transaction is at most a `CallLimit` for
each row it has staged, plus the call in progress (`KeepsPace`). The code's numbers meet the condition while the service token is cached (ten calls of
ten seconds against two minutes) and miss it when each call waits for a token as well.

**TokenStoreProofs.** `IInv` = TypeOK, TokenTimes (iat is the start of the second of signing, exp follows from it), SpentKept (an entry is kept as
long as its token lives), OnlySpent (nothing else is listed), CutoffTimes (cutoff, its expiry and the time of the kill belong together), FreshSeconds
(times lie on the grid of seconds), ToBeFound (what ended the token of a request at the gateway is still in the key the gateway has yet to read). The last is what makes "an earlier second" arithmetic: a token of an earlier second is a full second older.
Proved: `TypeCorrect`, `RevokedForGood`, `KillForGood`, `KillIsExact` (memory), `SignInAgain` (Redis), and `GatewayHoldsBack`: the gateway reads two keys at two times, and either may be rewritten or expire before, but not while the token lives.

**JobSchedulerProofs.** `SchedulerInv` = SchedulerTypes, ScansBehind (neither last_run_at nor what a replica has read or begun is after now), FiredIsPast (a tick that has fired is not
after now), Counted, UnwantedCounted. Counted makes `OncePerReplica` inductive: while a scan that began now would still find the tick due, what it has fired is paid for by the rewinds; once
last_run_at has passed it, its jobs and the replicas whose scan may still fire it are one round more, since a scan begun after the tick reads past it. UnwantedCounted is the same
for a paused schedule, which no new scan takes up. Proved: `AtMostOnceEach`, `PausedSchedulesStop`, and `OneReplicaFiresOnce`: with one replica nothing rewinds,
and `OncePerTick`, which the run refutes for two, holds.

**AuthSessionsProofs.** `RotationInv` = types, PairsInOrder (pairs are issued by number), RedeemedIsSpent, RefreshesBegan (a refresh in progress began
before every pair to come): `TokensRedeemedOnce`. `SurvivorInv` = types, RowAsRead (a PATCH in progress holds the row as it is), ReadsActive (a login in
progress read an active row), ResetsPast (no reset is of a password to come) and the two properties themselves; each step that writes a row or ends a request shows for every pair that it is owed a kill, spared or straddled: `ContradictedSessionsEnd`, `ClosedTenantsHaveNoSessions`. `AdminInv` =
types, RowAsRead, OtherAdminLeft (a PATCH that has counted and takes an admin's rights away leaves another one) and the property: `AnAdminRemains`.
Both need that nobody else writes a row between a PATCH's SELECT and its UPDATE, since users.go writes back what it read. That is a hypothesis about
the behaviour: `[]OnePatchPerUser` for the first two, `[]OnePatch` for the last, as two admins who demote each other are two rows. Nothing in the code
enforces it; the run AuthSessions_last_admin shows that without it there may be no admin left. Logins, refreshes, resets and changes of tenants are as
concurrent as they like.

**DeliveriesProofs.** `SweepInv`: what the sweeper has looked at is old, and what it found missing is missing still or came too late
(`NothingInUseIsSwept`); the argument is that age only grows. `OutboxInv`: one transaction holds a notice, what it has staged is the row plus one call
(StagedFromRow), and each notice's books balance (`Booked`), again by counting holders: `CallsAreShown`, for any finite number of processes.

**RecordingStoreProofs.** `RecordingInv` = types, FreshTillSeen (no sweep touches a file whose line waits for the watcher), UploadsFollowRows (what is
stored is there; a local file is removed only of a row that points elsewhere), OldGoes (what was old when a pass began is archived, to be expired, or
without a row, unless the pass was cut) and `Reachable`. Proved: `RowsPointSomewhere`, and from OldGoes the action property `CleanupsFinish`.

**CameraRunsProofs.** Two invariants. `StreamInv` always holds: two goroutines on one instance have both been `crossed`, one that has not been crossed
hears its instance's channel (AloneIsInStep), and every stream of an instance that can run is torn or awaited by a goroutine (StreamsHaveMakers):
`NoStreamIsLost`. `OrderInv` holds until a request is `hasty`: one request at a time with what it has established at each of its steps (OneRequest),
one goroutine on the channels of its own start (OneGoroutine), and row, map and goroutine agree but for the request under way (RowIsServed):
`SurvivesOrderlyRequests`, `OrderlyRequestsAreServed`. The actions are first rewritten field by field (`OnlyLoop`, `OnlyReq`, ...), which is all that
the other steps look at.

**PartsProofs.** The fourteen parts of MCParts. Each part has an invariant of its own and a lemma that its own specification keeps it; the theorems
join what one property spans. Their hypothesis is a conjunction of specifications (`AppsSpec /\ GrantsSpec /\ AiSpec`): components that share no
variable and run at once. `PartsStandAlone` shows that a behaviour of MCParts is one of every part by itself, and `PartsHold` that its specification keeps
all eight invariants of the run.

| Theorem | Invariants | What is hard about it |
|---|---|---|
| `AdministrationIsKept` | `AppsInv`, `AiInv`, `OwnRow` | FullForTokens: while the log shows the quota used up, no checked token is younger than that moment by more than a request takes; Alone and AsMeant: a column that only one PATCH is to set, or none, and that is not mixed, is what the PATCHes meant |
| `SignInIsKept` | `CodesInv`, `OauthInv`, `IdentityInv`, `LimiterInv` | counting requests inside a check against the limits; that a state or code taken by one replica is in no other's memory (OnePlace); that a login which has read "no such identity" is overtaken only by what marks it |
| `AnalysisIsKept` | `MatchesInv`, `ReportsInv` | MatchesTold is inductive as it stands; Waited: for every commit of the table the timer's digest has it, it is excused, or a sync comes to its digest in time, by Pace (how long a sync, its matching and its digest take) |
| `VisionIsKept` | `AlarmsInv`, `TableInv`, `SettingsInv` | an event is recorded by the loop that heard it whatever the other loop does, and one between its mark and its INSERT is Underway, not lost; a PUT that overlapped none has fresh copies of the whole (CopiesFresh), and its last save is what memory has (SavesLast) |
| `NothingIsSkipped` | `SyncInv` | pages are numbered newest first while commits are pushed: PageHolds says of the pages read so far that what is wanted is stored, in hand, or of a rank on a later page. The lemmas on `Rank` (`RankLess`, `RankGrows`, `TopCount`, `PagesAreFull`) say what a page is; a full last page is what excuses |
| `IngestIsKept` | `DataInv` | IndexTrue: the index of a key that is not behind is what the rules extract; RebuildRead: what a reindex has read is there yet, but for keys written since; `ExtractAnswers` relates entries to filters for any document and rules |
| `OnIsProven` | `FactorInv` | a request between check and update has checked the secret it read |
| `AppliedOnce` | `MigrationsInv` | OneInserter: an inserted row that is not committed has one owner and is not in the ledger. MigratedOnce alone does not exclude two replicas about to commit one version |

The strengthened invariants were checked by TLC on the instances of the runs before they were proved. Two proofs changed the model: `ExtractAnswers`
is false where a document repeats a key in an array and the model keeps both entries, which the table does not (db.go:205-215), so `LastOfKeys` was
added and the run's document repeats a key; and constants got the types they were used with.

**Model-checked only.** Liveness (`EventuallySettled`, `DueScheduleFires`, `OutboxDrains`, `OrphanSwept`, `SegmentsRecorded`, `StopIsHeard`) and
anything with ENABLED is out of the prover's reach, and so is what a recursive definition computes for every input. Where a theorem has a hypothesis, the run explores what meets it: one PATCH at a time in `AuthSessions`, short batches in `JobQueue_live`.

## 5. Plan

Done, in the order of importance: the queue with its proofs, sessions and revocation with proofs of the second, the scheduler with its proofs, recordings,
the camera manager, the two other workers that run for ever, then one module for each service or feature with state of its own. What would come next:

1. Preview and HLS streams and the health check inside a stream; the composition of CameraRuns with the runs of RecordingStore.
2. An abstract session specification (a change of a row ends what it contradicts) that AuthSessions refines up to its window.
3. Proofs: that MCDeliveries implements each of its parts' own specification, as MCParts does, and the safety half of the
   liveness arguments (what an enabled step changes about the state it waits for).

## 6. Not modelled

* Of auth: key files and JWKS (no state after start), the drain flag of the lifecycle, plain INSERTs and lists. The user console of svc-users is a proxy of auth.
* Of svc-data: keys of endpoints, subscriptions to notifications, paging and sorting of queries. Of svc-gitpulse: what the AI writes. Of svc-ai: usage summaries.
* Of svc-vision: previews, snapshots, HLS, PTZ, discovery, media tokens, the health check's restarts inside a stream, the migration of old paths, statistics. A watcher that outlives its run
  (a field read without a lock) can only record more and is not modelled.
* Pure I/O and encodings (ONVIF SOAP, WebDAV, S3, SMTP), cryptography and TOTP arithmetic (a code is the secret and the step it was made from), cron expressions (ticks stand for them), formatting,
  metrics, the gateway's routing and rate limits.
* svc-demo and the service templates (examples), SDKs (verification of signatures and readers of claims), user interfaces, deployment files.

Each component's note in `PROJECT.json` says what is left out and why.
