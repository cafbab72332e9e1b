# RelayCheck Desktop: TLA+ models and proofs

RelayCheck Desktop is a Go program that runs on one user's machine. It keeps
accounts of relay sites in a SQLite database, checks them in every day, probes
and synchronises channels, and serves a React front end over a local HTTP API.
This directory holds TLA+ models of the parts of its back end
(`src/relaycheck-desktop/internal` and `main.go`) where goroutines, time,
crashes, lost answers and failing writes meet, the TLC configurations that check
them on small instances, and TLAPS proofs of what matters most.

Run a configuration with `tlc -config CheckinRuns_tasks.cfg MCCheckinRuns` (the
module of each run is in PROJECT.json) and the proofs with
`tlapm CheckinRuns_proofs.tla`, and in the same way for the other `_proofs`
modules.

## 1. Inventory

The process has one `App` (`core/app.go`) with a database handle, an
application context, and services that keep state of their own in memory. Every
HTTP request is a goroutine; tasks, the scheduler, watchdogs of browsers and
digest loops are goroutines beside them.

| Component | State | Operations | Hard because | What makes it correct |
|---|---|---|---|---|
| Batch check-ins (`checkin_*.go`, `dry_run.go`) | previews, the run slot and its published progress, rows of `channel_accounts`, `checkin_logs` | dry run, start task, run all, scheduler batch, single check-in, cancel | three kinds of batches compete for a slot; accounts change, contexts end and midnight passes between any two steps | a preview is used once; one batch at a time; the slot always comes back; what is published is what was done |
| Scheduler (`scheduler*.go`, `sync_job_run_store.go`) | `scheduler_runs`, `channel_schedules`, guards of interval jobs, the plan of the day | start, tick, close; settings and schedules saved meanwhile | plans in the database outlive the process, guards in memory do not; one goroutine for everything; windows over midnight | one daily run a day and on its day; no due window lost; no guard or row left "running" |
| Next run (`channels/schedules.go`) | none | `ComputeNextRun` | skipped dates, cron, random delay, bounds of a loop | the first minute asked for |
| Task streams (`task_runner.go`) | tasks, subscribers and their channels, a counter of streams | start, update, finish, cancel, stream, clean up | snapshot, subscription, full channels and the end of the task interleave | whoever stays is shown the final state; streams end; the counter is exact |
| Account cleanup (`account_cleanup_service.go`) | previews of deletions (64, five minutes, once) | preview, confirm, rebind | accounts drift between preview and confirmation | only what was previewed and is unchanged is deleted, all or nothing |
| Backup, restore, handles (`system.go`, `backup/`) | files, the handle and its holders | restore, roll back, encrypted import | a failure between any two renames; holders of the old handle | the old or the new database, and everybody on it |
| Lifecycle, lock, key, schema (`main.go`, `app.go`, `lock/`, `crypto.go`, `db.go`, `db_fk.go`) | key file, lock file, schema and rows | start, migrate, serve, stop, crash | the lock comes after the migration; every statement commits on its own | no row or secret lost; one server; a later start is not poisoned |
| HTTP surface (`http.go`, `session_token.go`) | address, token | admit or refuse | ports that fall back, two token modes | the program's own page works |
| Notification hub (`notifications/`) | configuration with secrets, maps of limits and digest channels, loops, sends | save, reload, dispatch, close | reloads overlap; maps read under no lock; retries | nothing sent twice, no secret lost, close returns |
| Account credentials, check-in calls, balances, browser logins (`account_*.go`, `accounts.go`, `checkin_executor.go`, `checkin_balance.go`, `browser_*.go`) | one row of `channel_accounts`, the open windows | check in, refresh, test, log in, edit, clear, delete | each reads the row, works for seconds and writes back; the site answers anything | recorded is what the site did; nothing learnt or typed is blanked |
| Sites, detection, imports (`sites/`, `accounts/`) | `upstream_sites`, `imported_channels`, `channel_accounts`, the sync token | sync, preview, mark, detect, add, edit, import, delete | look, scan, write later, in no transaction | no doubles; what a user typed stays; a sync settles |
| Channels, models, prices, read cache (`channels/`, `models_pricing*.go`, `site_task_service.go`, `read_cache_store.go`) | channels, model lists, prices, cached lists | sync, probe, change state, delete, list | limits and turns; values built without the lock | prices have sites; an answered change is seen; turns are fair |
| Dashboard, analytics, outbound URL policy, autostart, version and legacy checks, front end | none of their own | queries, filters, wrappers | | |

How they interact: the scheduler calls the batch orchestrator, which takes the
same slot as the tasks started over HTTP; each item of a batch is a check-in of
one account; tasks report to the task runner, whose streams the front end
follows; every result is a row, which decides who is due next; settings and
schedules are written by handlers and read by every tick; imports and
detections make the sites that accounts, channels and prices hang on, with
foreign keys between them; a restore changes the database under all of them,
and a second start migrates it beside them.

## 2. Plan

The order in which the modules were written, each with what it composes:

1. `RunSlot`, `CheckinRuns`, `CheckinRuns_proofs`: batch check-ins over the
   abstract slot.
2. `NextRun`, `SchedulerRuns`, `SchedulerRuns_proofs`: the calendar as an
   algorithm, the scheduler over it.
3. `TaskFeed`, `TaskStream`: the streams, over the abstract feed.
4. `DatabaseFiles`, `AccountCleanup`, `Restore`, `Restore_proofs`: the database
   replaced under the requests that use it.
5. `NotificationChannels`, `NotificationHub`, `NotificationHub_proofs`: what is
   computed from a configuration, and the hub that runs it.
6. `UpstreamAnswers`, `AccountAccess`, `AccountAccess_proofs`: what a site
   answers, and all operations on one account.
7. `SiteDetection`, `Inventory`, `Inventory_proofs`: the scan as an algorithm,
   and all tasks on sites.
8. `SchemaMigration`, `RequestGate`, `Boot`, `Boot_proofs`: statements of a
   migration, the gate of requests, and starts that overlap.
9. `ModelCatalog`, `Catalog`, `Catalog_proofs`: documents and overviews as
   algorithms, and the batches and cached reads over them; the theorems about
   `TaskStream` are a section of the last.

Left for later: read faults in `SchedulerRuns`; `SchedulerRuns` over `RunSlot` in
place of the job it calls.

No module has a RECURSIVE operator, which no proof could use: the walks through
documents in `UpstreamAnswers` and `ModelCatalog` and the loop of `NextRun` are
recursive functions.

## 3. The modules

### RunSlot and CheckinRuns

`RunSlot` is what `CheckinRunStore` promises: one slot, taken when it is free
and given back, emptied by a restart. `CheckinRuns` models the workers that use
it. A worker is a goroutine with a `pc`, and each of its steps is an action:

| TLA+ | Code |
|---|---|
| `run`, `NewRun`, `MayBegin`, `Recorded`, `Finish` | `CheckinRunStore.state`, `begin`, `updateCurrent`, `recordResult`, `finish` |
| `plans`, `BuildAllDue`, `Expire`, `Claim` | `CheckinPlanStore.Put`, its TTL, `Claim` |
| `BeginTask`, `LoadAuths`, `StartItem`, `StopOnCancel`, `EndLoop`, `Record`, `Update` | `StartCheckin` and the loop it shares in shape with `runWithFilter` |
| `LoadDue`, `BeginBatch` | `CheckinBatchOrchestrator.runWithFilter`: the scheduler and run-all |
| `LoadAuthFails`, `CallSite`, `SaveResult`, `SaveFails` | `CheckinExecutor.Run`, `SaveResult` |
| `StartSingle` | `App.checkinAccount`, which asks for no slot |
| `checked`, `account` | `last_checkin_status` of today, the row itself |
| `upstream` | what the relay sites know (outside the program) |
| `Cancel`, `AddAccount`, `DeleteAccount`, `NewDay`, `Restart` | the user, Asia/Shanghai midnight, the end of the process |

What is simplified: `BuildAllDue` reads the database twice and stores the plan
in one step; `begin` and `taskRunner.start` of one handler are one step, and no
other step can tell them apart; the site limiter only delays, and its context
error is `StopOnCancel`; the modes `scheduled` and `channel.<site>` are one;
`manual_required` counts as `auth_expired`; retries of a request are the
choice of whether it took effect at the site (they are modelled in
`AccountAccess`).

### NextRun and SchedulerRuns

`NextRun` is `ComputeNextRun` as functions over minutes: a day has `DayLen` of
them, a date is a day number, a cron expression the set of minutes of a day it
matches (`CronNext` stands for the cron library), and the loop over the skip list
a recursive function of the number of its rounds (`SkipDates`). `FirstAsked`, in
`SchedulerRuns`, compares it with the definition a user of the calendar would
give, over the schedules in `Schedules`, which are only asked about and need not
be saved by anybody.

`SchedulerRuns` is the scheduler goroutine. `unit` says where it is in the
registry of `schedulerTickRegistry`, `executing` whether inside a job;
`StartTick` to `EndJob` are the statements of the tick handlers in their order;
`rows`, `daily`, `jobConfig`, `siteConfig` and `siteNext` are the database;
`Boot`, `Close` and `Exit` the process. A write of the database fails when
`"write"` is in `Faults`, and always once the context is done; `"crash"` lets
the process end anywhere, `"edit"` lets users save settings and schedules.

What is simplified: time is counted in units, six or twelve to a day, a tick
every two; only jobs take time (at most `MaxRun`), handlers none; the upsert of
the plan and the claim of the row in one handler are one step (a crash between
them is the claim failing, then a crash); reads succeed; final statuses are
"ended"; minute keys of interval jobs and the `__global__` projection row are
left out. The real ticker's buffer of one tick is kept.

### TaskFeed and TaskStream

`TaskFeed` is what a client of `/api/tasks/{id}/stream` is promised. `TaskStream`
models one task's worker (`Start`, `StartItem`, `Update`, `Finish`, `Broadcast`,
`CloseDone`), which unlocks between changing the progress and sending its copy,
and the stream handlers (`Admit` to `Leave`), each with a buffered channel that
drops events when full and the place under the cap it gives back when it
leaves. `Cancel` is `cancelTask` or the application context, `Cleanup` the
removal of the task after its TTL. Item results and the correlation fields of
`pendingContext`, which only reach the log, are left out; a heartbeat that
cannot be written is a client that leaves.

### DatabaseFiles, AccountCleanup and Restore

`DatabaseFiles` says what a database is to its users: a name stands for a file,
a file keeps its identity when it is renamed, and a handle (`sql.DB`) is a pool
that opens new connections by name at any time while those it has stay where
they are. `AccountCleanup` is the service that deletes accounts on such a
database, `Restore` what replaces it, and the composition of both.

| TLA+ | Code |
|---|---|
| `path`, `rows`, `Renamed`, `WriteFile` | `relaycheck.db`, the copies beside it, `os.Rename`, `os.WriteFile` and `copyFile` |
| `handle`, `kept`, `cleanup` | `App.db`; the handle the services that nobody rebinds took when they were built; `AccountCleanupService.db` |
| `open`, `pool`, `Reach`, `Connect`, `CreateMissing`, `Overtaken` | `database/sql` and SQLite, as the code uses them (external) |
| `store`, `Put`, `Expire`, `Claim`, `LoadCandidates` | `AccountCleanupService.previews` and the two requests |
| `Recheck`, `Delete`, `Fail` | the transaction of `ConfirmUnsupportedCheckinAccounts` |
| `Readers`, `RebindDB` | `dbMu`, held for reading over a request and for writing by a restore |
| `BeginRestore`, `Close`, `MoveOld`, `MoveNew`, `MoveBack`, `Migrate`, `Undo` | `restoreFromBackup`, `rollbackRestore` |
| `BeginImport`, `MoveOld`, `WriteImage`, `MoveBack`, `RemoveOld` | `RestoreEncryptedExport` |
| `Reopen`, `Rebind`, `after` | `reopenDatabase`, and what its caller does next |
| `Crash`, `Restart`, `Write` | the end of the process, `NewApp`, any other statement |

What is simplified: an account is fine, unsupported or gone, so the scope flag
of a preview is folded into "unsupported"; the three DELETEs and the commit are
one step, since another connection sees all or nothing of them and SQLite
refuses the first when its snapshot is old; the WAL and its removal are left out,
a commit is in the file; the snapshot made before a restore, the making of
backups and exports, and the settings are left out; one restore or import
happens, on a database that is there; a reader that comes while `RebindDB` waits
is admitted, where Go would make it wait.

### NotificationChannels and NotificationHub

`NotificationChannels` holds what is computed from a configuration: whom a
notice is for, whether a channel can be built, the sliding window of a rate
limit, and the forms a secret takes (blank, typed, asterisks, encrypted) between
the settings page, the table and the hub. `NotificationHub` is the hub as
goroutines that use one mutex for a step at a time.

| TLA+ | Code |
|---|---|
| `DraftSettings`, `CommitSettings` | `handleUpdateSystemSettings`: the stored value is read and merged outside the transaction that writes it |
| `BeginReload`, `Waited`, `LoadConfig`, `LockToFill`, `Fill` | `Hub.Reload` |
| `DispatchBegin`, `DispatchTo`, `DispatchRace` | `Hub.Dispatch`, whose lookups in the two maps no lock protects: Go's runtime may stop the program |
| `Attempt`, `Results` | the senders of the six channels and the retries of a webhook |
| `LoopCollects`, `LoopTicks`, `LoopStops` | `StartDigestLoop` |
| `BeginClose`, `CloseDigests`, `CloseSends` | `Hub.Close` |

What is simplified: a notice is its kind and level; an entry has one secret; a
lost answer counts as a failure that the site did not take, so that
`DeliveredOnce` speaks of acknowledged sends; the digest's tick may come at any
time.

### UpstreamAnswers and AccountAccess

`UpstreamAnswers` is how the program reads JSON whose shape it does not know:
searches by several names through nested maps and lists, in whatever order Go
walks a map (a search is therefore the set of what it may find), the
classification of a check-in's answer, model lists. A search is a recursive
function on what nests in a document, `MaxDepth` levels deep at most.
`AccountAccess` is one row
of `channel_accounts` and every operation that uses or changes its credentials,
two at once.

| TLA+ | Code |
|---|---|
| `row`, `auth`, `got` | the row, an operation's `accountAuthContext`, what it learnt and has not written |
| `Load`, `EnsureStep`, `LoginRefused`, `LoginAnswered`, `SaveSession` | `AccountAuthRepository.Load`, `Ensure`, `LoginWithPassword`, `AccountSessionService.Save` |
| `CallCheckin`, `NextCandidate`, `SaveResult` | `CheckinExecutor.Run`, `callAPIWithRetry`, `SaveResult` |
| `CallBalance`, `InsertSnapshot`, `SaveBalance` | `BalanceRefresher.Run` |
| `TestLogin`, `TestAPIKey`, `MarkStatus` | `AccountValidationService`, `RetryPasswordLogin` |
| `Look`, `StartChrome`, `ReadChrome`, `SaveBrowser`, `DropSession`, `Watchdog` | `BrowserLoginService`, `BrowserSessionStore` |
| `ClearSession`, `UpdateAccount`, `DeleteAccount` | the handlers of the account form |
| `live`, `visited`, `Replies`, `Expire`, `SignIn`, `CloseWindow` | the site and the user at the browser (outside the program) |
| `misled` | a history variable: who was told of a check-in that did not take place |

The module assumes that each operation is of one of the ten kinds, that the rows
to begin with have the fields of an account, that the sessions a site gives
are not empty, and that there is a path to ask for the balance, whose answers
are documents made of maps, lists and scalars.

A site may answer a check-in with any status and body, whether or not it did it:
on a path it does not serve, to a dead session, to a GET. Some answers nobody can
tell from that of a check-in (`Misleads`): a 2xx with nothing in it, or one that
speaks of today. The code takes them for one, as its tests fix, and so
`StatusTruthful` has them as its only exception.

What is simplified: the tries of a login differ only in number; latencies,
messages and masked copies of secrets are left out; a document of the site is
one of a few that have every shape the readers distinguish.

### SiteDetection and Inventory

`SiteDetection` is `DetectUpstream` after its requests: the signals taken from
the answers, from them the kind of panel, what it supports, the confidence, and
the login page. `Inventory` is the tables of sites, channels and accounts and
the tasks that fill them; `task` says what an operation does, `mem` what it has
read and not yet written.

| TLA+ | Code |
|---|---|
| `Begin`, `ReadPage`, `Upsert`, `ImportScan`, `ImportFails` | `SyncLocalNewAPIInstanceData`, `ImportChannelsFromAdminAPIWithOptions`, its SQLite twin, `importChannelRecordOutcome` |
| `Find`, `Store` | `EnsureUpstreamSiteForChannel`: the search and the insert |
| `ReadExisting`, `Mark` | `ReconcileMissingLocalNewAPIInstance` |
| `Read`, `Scan`, `Reread`, `WriteDetection` | `DetectUpstreamSite` and the bulk detection |
| `Look`, `ScanNew`, `Bind` | `EnsureManualSite`, `CreateUpstreamSite`, `AccountCreationService.Create` |
| `LoadAccount`, `Other`, `Meta`, `Move`, `Address` | `account_site_update_service.go` |
| `LookLegacy`, `Put`; `Match`, `Known`, `Insert` | imports of a legacy configuration; of Chrome's passwords |
| `Delete` | `DeleteUpstreamSite` |
| `source`, `SourceChanges` | the channels of the NewAPI (outside the program) |

History variables say what a property may not expect: `excused` are sites that
were typed on while a task that had read them was still to write, `doubles` base
URLs looked for by two tasks at once, `clean` and `settled` a sync or marking
nothing came between, `crowded` two overlapping imports of accounts.

The assumptions say what the schema and the vendor's ids give: rows have distinct
ids, an imported channel has one row per id of its source, an account has its
site, the NewAPI lists an id once, ids to begin with are below `FirstId`; and that
an address a user can type has a base URL.

What is simplified: an address is a value with a base URL given by `BaseOf`, its
verdict by the outbound policy a constant; a record of the source has the fields
the import looks at; a marking and a deletion are one step, being transactions.

### SchemaMigration, RequestGate and Boot

`SchemaMigration` gives every statement of `db.go` and `db_fk.go` as an operator
on a database record, `RequestGate` the answer of `SecureLocalHandler` and
`requireSession` to a request and the port `listenWithFallback` takes. `Boot`
starts, stops and kills processes on one data directory: `pc` names the next
statement, so that a crash and another process may come between any two.

What is simplified: one table stands for those with the same keys
(`checkin_logs` for `balance_snapshots`, accounts for the price cache), two
columns for the later ones; a secret is the number of the key it was encrypted
with; the operating system gives a dead process's lock back; a start that fails
ends its process; the write of the key file is a truncation, a write and the
securing of what was written, and a file that cannot be secured is removed,
whoever has read it (`InsecureKey`). The databases a start may find include those
of a version whose start died between making the search table and filling it
(`db.go:403`, `:430`); `BootAssumption` rules them out only once the foreign keys
are there, whose rebuild fills the table in its own transaction.

### ModelCatalog and Catalog

`ModelCatalog` reads models and prices out of raw configurations and answers,
and builds the overviews. Where Go's order of a map decides, an operator yields
the set of results. `Catalog` has the batches of model syncs (`StartModelSync`,
`SyncChannel`), the sync of prices, the health probe, the changes of a channel,
the sites made and deleted, and the read cache: `Ask`, `RunQuery` and `Store` are
`ReadCacheStore.Get` with the queries of its builder one by one, `ClearCache` the
`Invalidate` at the end of a request. `ShownSites` and what is built on it relate
a cached list to the tables.

A sync of a channel takes the time that it will save before it asks
(`channels/models.go:93`, saved in line 141), so it is two steps: `BeginSync` puts
the batch or the probe into `synced`, the order of those times, and `SaveModels`
puts the channel in its place there, or takes it away when the update fails.
`saved` and `passed` only remember what `RoundRobin` speaks of.

Sites come from a detection (`EnsureSite`, which clears the cache), from imports
(`ImportChannel`; the import clears the cache at its end, a sync of the source does
not), and from the requests that insert a channel with its site
(`CreateUpstreamSite`, `EnsureManualSite`, `UpsertLegacySite`; the second of the
two inserts may fail). Of these only the form for an account clears the cache,
and only once the account is made (`core/accounts.go:117`). A change is either in
`clearing` until it is cleared (`Changes`) or never will be (`Unclear`), and
counts as known to the lists already cached.

Beside the bounds the module assumes that channels are finitely many, each with a
base URL, that some without a key may be made with a site of their own (`Manual`),
that channels are not named like the workers that sync them, and that the tables
to begin with have a row of every channel, of state `none` when it is not there
yet. Its names begin with `Catalog` (`CatalogSpec`) so that its
proofs can share a module with those of `TaskStream`.

What is simplified: lists are shorter than the limits that cut them (40, 80, 200
and 500 rows); times are their order, no two being the same (their text, with
trailing zeros dropped, is taken to sort as they do); no channel or site changes
its address and no account its site (`core/account_site_update_service.go:65`: an
account moved to a site known already changes no list of sites); the search and the insert
of a site, and the statements of an imported record, are one step (the former are
two in `Inventory`).

## 4. The runs

| Run | Question | Bounds |
|---|---|---|
| `CheckinRuns_tasks` | can one preview start two tasks, or a task leave its plan? | two tasks, two previews in a store of one, two accounts; symmetric |
| `CheckinRuns_batches` | can an account be recorded as done that is not? does the slot always come back, and is it `RunSlot`? | a task, the scheduler and a single check-in of one account, any two of them between begin and finish if the slot let them, over midnights, cancellations and restarts; fair goroutines |
| `SchedulerRuns_faults` | one daily run a day? do rows tell the truth? can a due window be lost? is the next run the first asked for? | two days and a bit of the daily run, with windows inside a day and over midnight, or a day of one interval job and one site, three settings each, all faults; `FirstAsked`: a day of six minutes, every time, every cron expression, every list of skipped dates among three, every `now` up to `MaxNow`, nine rounds of the loop, as many as there are matches to skip |
| `SchedulerRuns_prompt` | does the planned run start in time behind the others? | daily run, two sites and one job in one goroutine, a day of twelve units; no faults |
| `TaskStream_all` | are channels and final state right, and is a stream the feed? | three streams under a cap of two, two items, channels of one |
| `Restore_all` | is a deletion what its preview showed, in its own data set? is a failed restore or import undone, the old database kept, a write after a restore in the database? does the operation end? | two requests, one preview, two accounts, three files and handles, up to two failures at any step, a crash included |
| `NotificationHub_all` | is a notice delivered once? does the redacted page keep secrets? what can hold up Close? | two notices, two saves and reloads, a digest webhook or a limited mail with a webhook, a buffer of one, one retry |
| `AccountAccess_all` | is a recorded check-in or balance the site's? are credentials and windows kept? | every two of ten kinds of operations, four accounts, three edits, a POST and a GET candidate of two attempts each, every status with six bodies, two sessions, calls that may all be lost |
| `Inventory_all` | does a sync settle, are marks true, does what was typed stay, is nothing doubled? | every two of twenty-one tasks, empty tables or two sites, four addresses of which one is refused and one excluded, pages of one record, one change of the source, one failure |
| `Inventory_panic` | violation: see section 6 | the same |
| `Boot_all` | are secrets and rows kept, is the search table right, is there one server, can a later start go on, does the page work? | three starts of two processes on a fresh directory and on eleven older databases, with rows without parents or a search table never filled, a key file that cannot be read, written or secured, crashes everywhere, the preferred port or every port taken |
| `Catalog_all` | do prices have sites, is an answered change seen, are turns fair? | two channels of two sites and a third still to be made by hand, two batches of one channel, the probe, two readers, three requests, one failed write |

The bounds are small on purpose and each case they are for occurs. Two tasks or
operations are enough for every race for a preview, the slot, a row or a site,
since a third is in the position of the second; a store of one preview is full
with one; two accounts give an account in hand and one after it, which is what a
cancellation and a deletion tell apart; one midnight and the states around it
are reached with two days; channels of one event are full after one update, and
a cap of two is passed by three streams. Two requests are a preview and its
confirmation; three files are the old database, the new one and one that SQLite
creates when the name is free, three handles after the first the new one, the
one of a rollback and the one of a restart; two failures are an error and the
failure of its rollback. Two processes meet in every statement of a migration,
and a third start finds what both have left. Pages of one record make every
record the last of its page; a third channel made beside two on two sites gives
base URLs of one site and of two, and a batch of one leaves another out: between
the time of one sync and its save the other batch, or the probe, saves the other.
`MaxDepth` is four, enough for every document of a run; `MaxNow` bounds time,
`Previews` the ids handed out, `MaxStarts`, `MaxRequests`,
`MaxChanges` and `MaxFaults` what their names say. `CheckinMaxNetworkAttempts` is
two where the code has three (`checkin_balance.go:30`): a retry after a retry is no
other case.
`CHECK_DEADLOCK FALSE` stands where requests, previews, starts or time run out.
Symmetry is used only for safety, among model values nothing tells apart; the
temporal property of `TaskStream` watches one stream among three that do not
differ. `MCFocus` splits one instance of `SchedulerRuns` in two that share no
state that matters: the daily run alone, and the others alone.

Each passing property has a mutant, a definition with a plausible bug next to
the one it replaces (`Consumed_Kept`, `DailyDue_Again`, `Order_SubscribeFirst`,
`Merged_Blank`, `RebuildAccounts_KeysOn`, ...), under which TLC finds the
property violated.

### Fairness

`CheckinRuns` and `TaskStream`: weak fairness of each goroutine's own steps. Go
schedules them, every HTTP call and query has a timeout or a context, and no
lock is held across one. Nothing obliges a user, a client, the clock or the end
of the process to act. `Restore`: weak fairness of the operation's next step and
of each request that holds `dbMu`; statements have a busy timeout of five
seconds, and none of the two waits for a user. `NotificationHub`: weak fairness
of a reload once it has begun, of a loop that was told to stop, of sends over
HTTP, whose requests have timeouts and contexts, and of Close; nothing obliges a
ticker, a dispatch, or a mail, which has neither.
Whether a step fails is never subject to fairness. `SchedulerRuns`,
`AccountAccess`, `Inventory`, `Boot` and `Catalog` state safety only and assume
none: that the planned run starts in time is stated as a bound on the clock,
which cannot pass the instant at which a job must have ended.

## 5. Proofs

`CheckinRuns_proofs.tla` proves, for any finite set of accounts, any sets of
requests and previews and any cap, from `ConstantsAssumption` alone (the sets of
workers are disjoint, the tables of sites and abilities are functions):

- `TypeCorrect`: `Spec => []TypeOK`. `TypeOK` is not inductive: `Head(todo[w])`
  is an account only while the worker has one in hand. `TypeInv` adds
  `HasCurrent`: between the start of an item and its publication `todo` is not
  empty.
- `RunsExclude`: `Spec => []OneBatchAtATime`. The invariant speaks of the
  holders (workers between begin and finish) and of the published `running`
  flag, and is inductive because it says that the flag is up exactly when there
  is a holder. `SlotStep` shows what each action does to the set of holders:
  nothing, add the one worker that found the flag down, remove the one that
  finishes, or empty it on a restart.
- `SlotSafety`: the same lemma maps every step to a step or a stutter of
  `RunSlot`.
- `RunningTasksHoldTheSlot`: a task whose status is "running" holds the slot
  under its own mode; strengthened by `TaskHolds` (where a task is determines
  its status) and exclusion.
- `PreviewsUsedOnce`: no two tasks ever have the same preview; strengthened by
  the fact that a claimed preview is gone from the store.
- `CancelStopsBatches`: after a cancellation at any step, a batch finishes at
  most the account in hand.
- `TasksFollowTheirPlan`: a task publishes a prefix of its preview's accounts
  and says done only at its end. `FrozenInv` relates what a worker has published,
  what it has in hand and what is to do: put together they are the plan.
- `DoneIsReal`: `Spec => []DoneTodayIsReal`. `DoneInv` adds what makes it inductive:
  the answer a worker is about to save is of a check-in the site has made, or of one
  that was under way at midnight.

`SchedulerRuns_proofs.tla` proves, for any units, windows, edits, durations and
faults, from `SchedulerAssumption`:

- `RowsAndGuards`: the inductive invariant. `Control` says where the goroutine
  can be, `Guards` that a guard is held exactly by the job that executes, which
  is `GuardsAreReleased`; `RunInHand` that the daily run in hand has the row and
  belongs to the day of its tick; `Days` that the counter of a day is one only if
  the row's last day has reached it.
- `OncePerDay`: from `Days`. A run begins only when the row's last day lies
  before its own, and beginning it moves that day; the claim is conditional on
  the row not saying running, so a crash between claim and end cannot add one.
- `RunsOnItsDay`: the day of a plan whose window holds the tick is the day of the
  tick (`CheckinPlan.key`), by arithmetic over days of any length.
- `RunningRowsAreTrue`: part of the invariant, because a process sets every such
  row free before its first tick, or remembers that the write failed.
- `DueWindowsAreKept`: `Spec => DueWindowKept`. `PlansMove` says what a step may do to
  the plan of a site: postpone it after a complete run, or replace it with the one
  of a schedule that is saved. With `SitesShape` (plans are instants, which needs
  `NextRunIsTime`: `ComputeNextRun` returns one) time alone never ends a window.
- `RunsArePrompt`: `Spec => []PlannedRunIsPrompt` under `Undisturbed`: no fault, no
  edit and no end of the process (`Faults` is empty, as in the run), finitely many
  sites, no interval job listed twice. The invariant `Prompt` is a budget: when n
  jobs of a tick have ended, the clock is at most n times `MaxRun` (and what the
  present one has taken) after the tick; the ticker fires at most one period
  later, or has a tick in its buffer. So a tick that finds the plan not yet due is
  followed by the next within the bound. TLC has checked `Prompt` as an invariant
  of `SchedulerRuns_prompt`.
- `NextRunIsFirst`: what `ComputeNextRun` returns before the delay, for any `now`
  and any `Regular` schedule (a time inside the day; an expression that never
  matches two minutes that follow each other, because the loop looks for the match
  after the next minute; one that matches nothing only if nothing is skipped): an
  instant after `now` that matches, with
  nothing before it that is asked for, and not on a skipped date if `MaxIter` is not
  below the number of matches on skipped dates. That last hypothesis is real: 366
  rounds are fewer than the matches of `*/5` on two skipped dates, and the run then
  falls on the second.
- `FirstRunIsAsked`: `Spec => []FirstAsked`, for any `Schedules` with finite lists of
  skipped dates and days of any length, from `NextRunIsFirst`.

The provers have no induction over an operator, so claims about all numbers are
proved from the least one they would fail for (`LeastNumber`, from the
well-foundedness of `<`): that the recursive function of the loop exists
(`RoundsGoOn`, `SkipDatesIsLastRound`), that no round misses a match, that its
values rise (`RoundsIncrease`), and by the pigeonhole principle that it leaves
the skipped dates (`RoundsSuffice`).

`Catalog_proofs.tla` proves, for any finite set of channels, any sites, answers
and prices, any number of batches and loads that overlap, and any failed writes,
from `CatalogAssumption` and `StartsAssumption`:

- `PricesOfSites`: `Spec => []PricesHaveSites`. The invariant is inductive by
  itself; its content is in the steps: a sync of prices writes for a site that was
  deleted while it was asked only what the foreign key then refuses, what it
  writes has sources exactly when it says success (`SyncPricingFacts`,
  `SettlementFacts`), and a deletion takes the prices of its site along.
- `ReadsAreSettled`: `Spec => []SettledWritesAreSeen`, the property that no
  cached list contradicts an answered change that clears the cache, unless its load
  had begun to query before. A cached list says nothing of the queries it was built from, so the invariant (`Reads`)
  speaks of the loads too. `Stale` is what the rows that one query read say of
  sites and channels and is no longer so; `Loads` says that a load knows each of
  them (its `late`), `Cached` that what a cached list says wrongly is known to
  have changed while it was loaded or is about to be cleared. A step that changes
  tables adds to what may be stale (`Shifts`) no more than it tells every load and
  leaves to clear (`Tells`, `TableSteps`); clearing the cache ends that for
  the keys it drops (`Drops`); and what a load stores says wrongly only what one of
  its queries read and is stale (`BuiltFacts`), for each of the five lists. TLC has
  checked `Reads` as an invariant of `Catalog_all`.
- `TurnsAreFair`: `Spec => RoundRobin`. `Turns` says that whoever passed a waiting
  channel was synced, and stands behind it in the order of the times saved. A save
  takes the place of the time its sync took (`ReplacedFacts`), which may be before
  channels saved since; hence the other half of `Turns`: a sync in progress stands
  behind every channel but those in its `saved`, and only for the others is the
  channel it saves counted as one that passed them. A batch takes
  the first rows of that order (`Kept`, a recursive function of the length, is
  shown to keep the order: `KeptFacts`), hence the one that waited before those
  that passed it.

A section of the same module proves of `TaskStream`, for any number of streams,
any buffer and cap, from `StreamAssumption`: `TypeCorrect`; `SendsAreSafe`,
`CapIsExact` and `FinalStateIsShown` from one invariant that relates the worker's
copy to the progress it was made of (`WorkerInv`), and for each stream what its
channel holds to what it has seen (`ChannelInv`, `ClientInv`); and `FeedSafety`,
that every step is a step of `TaskFeed` or leaves the feed alone: the events of a
channel are states of the task in their order, so each shows the client a state
that is not older than the last.

`Boot_proofs.tla` proves, for any number of processes and starts and any
databases, from `BootAssumption`: `LockExcludes` (`LockHeld`: who is past the lock
holds it, and only one can) and `KeyFitsSecrets` (`KeyInv`: the key a process
uses, the one on disk and the one secrets were written with are the same, but
after a first start that met another one, or that took back a key in use; an empty
file is a key nothing can be encrypted with); then what starts do to the database, and what a single start
may count on:

- `StartsLoseNothing`: `Spec => StartsKeepData`. Every statement of a migration is
  `Harmless`: scrubbing takes away only rows without parents, and the rebuilds
  copy the others.
- `SearchIsComplete`: `Spec => []SearchMatches`. `SearchInv`: the search table
  never has more than the accounts; where it lacks its triggers or some of them,
  no foreign key has been recorded, so that a start rebuilds it before the steps
  that take it for full; and no statement undoes a complete one.
- `PageIsLetIn`: `Spec => []OwnPageWorks`, from `PortInv` (a process that serves has
  the port `listenWithFallback` gives) through the definition of the gate, and
  `OriginAssumption`: the page's own origin is not the malformed one.
- `LoneStartsSucceed`: `Spec => []LoneStartSucceeds`. `LoneInv`: what a process that
  is alone has read of the schema still holds, and who holds the lock is past it.

`Restore_proofs.tla` proves, for any accounts, requests, previews and images and
any bounds on files, handles and failures, from `FilesAssumption`,
`CleanupAssumption` and `RestoreAssumption`:

- `TypeCorrect`: `Spec => []TypeOK`, strengthened by `Returns`: whoever reopens
  the database has said what comes after.
- `TokensStay`: `Spec => []TokenStaysInDataSet`. A transaction is on the file of
  its preview because the request found it there (`OnItsFile`); it did, because
  every preview in the store or in a request is of the present database as long
  as cleanup's handle is open (`PreviewsOnDatabase`), and an open handle reaches
  nothing else (`PoolsOnDatabase`). Both survive the exchange of files because
  no handle is open while files move, and the new one is not cleanup's until
  `RebindDB` has emptied store and readers (`Stage`). None of this holds in an
  import, which closes nothing, and the invariant excepts it. `AfterCrash` is
  what a restart relies on.
- `DeletionsArePreviewed`: `Spec => DeletedAsPreviewed`; only its own `Delete`
  ends a checked request with a change of rows, and it deletes when what it
  deletes is the preview.

The recovery, from the same assumptions:

- `OldSurvives` and `FailuresAreUndone`: `OldKept` says in which step the old
  database has its name and in which it is set aside, and `Course` which steps come
  after a failure: there a second one is excluded, which is what the bound of one
  in both properties is for.
- `WritesAreKept`: `Spec => WritesReachDatabase`. Outside of a restore every open
  handle is on the database (`PoolsOnDatabase`), and `Settled` adds the
  transactions: those that outlive a restore are on the file that has its name.

`NotificationHub_proofs.tla` proves, for any channels, notices, buffer and window and
any number of overlapping saves, reloads, dispatches and digest loops:
`NoticesReachOnce` (`DeliveredOnce`) and `RedactedSaveIsSafe`
(`RedactedSaveKeepsSecrets`). Both assume `OwnNames`: in a configuration that a
user saves no two channels share a name. The code does not enforce this, but it
tells channels apart by their names only (the limiter, the digest channel, the
previous secret, with the type), so that two of one name share them.
`DeliveredOnce` is not inductive, for it counts acknowledgements and says nothing
of what is on the way. The invariant is that a notice bound for a channel is at
one place at most (`OnePlace`: ahead of `Dispatch`, buffered, collected, being
sent, acknowledged), with that a buffer holds no notice twice (`QueuesDiffer`), or
a loop would collect the copy that stays, and that a notice not dispatched is
nowhere (`NotYet`). Each step leaves the notice where it is or takes it to one
place (`Moves`, `OnceMoved`). A tick must send to the channel that the notice was
buffered for: `DigestInv` says each loop and each entry of the map comes from a
reload that is over, whose configuration has that digest entry. `ConfigsInv`
keeps every configuration well formed. `RedactedSaveIsSafe` needs no more than
`ConfigsInv`: what is stored is not encrypted again (`StoredOnce`), and an entry
that was masked finds itself under its name (`UnmaskedAgain`, `SavedAsShown`).

`AccountAccess_proofs.tla` proves, for any number of operations of any kinds that
overlap, any answers, paths and sessions of the site and calls that may all be
lost, from `AccessAssumption`, `MeetingsAssumption`, `AccountsAssumption`,
`SessionsAssumption` and `DocumentsAssumption`:

- `RecordedIsDone`: `Spec => []StatusTruthful`, if no account counts as checked in
  before the day begins (nothing then says what the site did). `StatusInv` adds
  what an operation has learnt and not yet written (`Truthful`): it follows a status
  over the paths, retries and logins of an operation to the row, and rests on what
  `classifyCheckinResponse` makes of each answer (`ReadAsDoneMisleads`,
  `LostIsNoSuccess`).
- `NothingIsBlanked`: `Spec => CredentialsKept`. Each write merges what was learnt
  over what is stored (`MergedKeeps`); a browser login writes what it took from a
  window, which is a session only because the window was open (`BrowserInv`).
- `WindowsAreKept`: `Spec => OpenWindowIsKept`, step by step.
- `FindsOutermost`: in a document of any shape that ends within `MaxDepth` levels, the
  search for a number by several names finds only numbers under the first of
  them in a map that has one and is in no other such map, and nothing only if there is
  no such map (`Outermost`). The prover has no induction over data; the proof
  goes by a least counterexample over the levels of the document (`LeastNumber`):
  that the recursive function of the search exists (`SearchEnds`), and what it
  finds from the deepest level up.
- `BalancesAreReported`: `Spec => []BalanceIsReported`, if `Reported` has the balances
  that the site gives in that sense (`ReportsGiven`) and the first row has one of
  them or none. `BalanceInv` adds what an operation has read and not yet written.
  In the run `ReportsGiven` says that `Reported` has 5, the one balance in its
  documents.

`Inventory_proofs.tla` proves, for any number of tasks of any kinds that overlap,
any tables to begin with, addresses, sources, failures and changes of the source,
from the assumptions named in section 3. `Basics` (each task is at a step of its
kind, rows have distinct ids and the sites they refer to) holds throughout. On it
rest:

- `ImportsAddOnce`: `Spec => []NoAccountTwice`, if the first tables have no account
  twice. `FileInv`: of imports that never overlapped at most one has looked and not
  inserted, and what it will insert is still new.
- `TypedPagesStay`: `Spec => []TypedIsKept`. `TypedInv` adds to the rows what tasks have
  read of them: who will overwrite a site that was not typed on since still has its
  typed page and its address (`ReadStill`).
- `ImportsDoubleNoSite`: `Spec => []OneSitePerBase`, if the first tables have no two
  sites of one address. `LookInv`: a task that looked for an address and found none
  is right, or another looked too (`NoneFound`, `OneLooks`).
- `MarkingsAreTrue`: `Spec => []MarksAreTrue`, and `FullSyncsSettle`: `Spec =>
  []SyncSettles`, both under `SourcesFit`: what the NewAPI lists fits in the `MaxPages`
  pages that are read, without which records are never seen. `Reading` relates
  the page a task is at to the records in its hand; `Marks` and `Syncs` say that
  every record of the source is done, in hand, or on a page still to come
  (`Later`), by the arithmetic of pages of any size.

Every safety property that a passing run checks is stated by a theorem, those of
the refinements as `SlotSafety` and `FeedSafety`. Only model-checked, for the
instances of section 4, is liveness: `EveryBatchEnds`, `OperationEnds`,
`CloseReturns` and the fairness parts of `ImplementsRunSlot` and `ImplementsFeed`,
which are out of the prover's reach, as is ENABLED.

## 6. Where code and text disagree

- `Inventory_panic`: `SyncLocalNewAPIInstanceData` declares a second `err` inside
  the branch of the admin API (`accounts/local_newapi.go:65`); the error of the
  import is assigned to it at line 72 and ends with the branch, so that a failed
  import goes on with a nil result and writes to it at line 82. The scheduler,
  which calls it for every instance, expects an error (`core/scheduler.go:415`).

Seen while modelling, with the code that shows it; the models have these
behaviours and no run claims their absence:

- Two overlapping reloads of the notification hub leave digest loops whose cancel
  function was overwritten (`notifications/hub.go:158`), so that Close waits for
  them for ever; so does a loop of a reload that ends after Close has begun.
  `CloseReturns` names these loops, with mails, as all that can hold up Close.
- A mail is sent by `tls.Dial` and `smtp.SendMail` (`notifications/channels.go:826`,
  `:871`), which take neither a context nor a timeout, so Close, which waits for
  every send (`hub.go:650`), waits as long as the mail server likes. The comments at
  `hub.go:59` and `hub.go:633` say that Close cancels sends so as not to be held up
  by slow SMTP endpoints. No fairness is assumed of a mail.
- A 2xx answer to a check-in that says nothing the classifier knows counts as a
  success (`checkin_balance.go:550`; `checkin_status_test.go:322` and `:335` fix it),
  and one that says `today`, as in `"checked_in_today":false`, as done before
  (`:582`). GET candidates are tried after lost POSTs (`capabilities/profile.go:55`),
  and a site's start page answers them. An account may so be recorded as checked in
  although nothing was done; `StatusTruthful` says that nothing else leads to it.
- Dispatch reads both maps of the hub under no
  lock (`hub.go:592`) while a reload fills them, which Go's runtime may answer by
  ending the program (`DispatchRace`).
- An account deleted after its batch was loaded is still checked in, and its item
  carries the site's answer (`checkin_task_service.go:47`);
  `docs/sop/relaycheck-incremental-architecture.md:299` says it ends as failed.
- A daily window without width is hardly ever hit by a tick (`scheduler.go:224`),
  so the check-in of that day does not run.
- The loop that skips dates gives up after 366 matches (`channels/schedules.go:270`),
  so an expression with more matches on skipped dates fires on one; and a delay,
  added after the list was consulted (line 280), may cross midnight into one.
- `backup.Infra` says that `ReopenDatabase` closes the current handle
  (`backup/service.go:32`); it does not (`system.go:368`), and neither does the
  import that calls it. Where an open file can be renamed, the services with the
  old handle go on writing to the replaced file. After a restore, which does close
  it, only `App`, two repositories, the cleanup service and the hub get the new
  one; the others (`kept`) get errors until the process restarts
  (`HANDOFF.md:156` names this as open), and `WritesReachDatabase` shows that they
  write nowhere.
- The health probe takes the sites last updated, up to a limit, and updates them
  (`site_task_service.go:239`): with more sites at risk than the limit it returns
  to the same ones. The sync of prices orders by the last health check, which it
  does not move (`channels/pricing.go:64`).
- A crash between the truncation and the write of the key file leaves an empty
  key, which every later start accepts and no secret can be stored with
  (`crypto.go:33`). A start that cannot secure the key it made removes it
  (`crypto.go:36`); a second first start that has read it meanwhile goes on with
  it, and what it encrypts no later key opens. `SecretsReadable` excepts this, by
  `keyRace`. A start that finds rows nobody can assign after the rebuild
  ends with an error (`db_fk.go:103`), but the next takes the fast path and does
  not look again; accounts with a blank site block every start (`db_fk.go:168`).
- A failed read of a scheduler row counts as a row that never ran
  (`scheduler.go:202`).
- When a failed restore also fails to rename the old database back, the deferred
  remove deletes it (`system.go:324`); the snapshot made before is then the only
  copy. An import takes no lock against cleanup requests (`backup/service.go:248`)
  and writes its settings without `created_at` (line 287), which the table
  requires (`db.go:16`), so that each of these writes fails and is only counted.
- Syncs of models and previews change channels without clearing the cached lists.
  Nor does the form for a site clear them (`core/sites.go:85`), a move of an account
  to a new site (`core/account_site_update_service.go:55`), the form for an account
  that fails after it made the site, an old configuration
  (`accounts/legacy_config.go:111`) or a sync of the source: the new site is missing
  from a cached list until the entry expires, after two or five seconds. A
  site deleted while a list is loading is shown as long
  (`read_cache_store.go:49`). `SettledWritesAreSeen` excepts all of these.
- The turn a channel keeps is that of the time its sync began: a sync that asks for
  long goes behind what was synced before it began, not behind what was saved
  while it asked (`channels/models.go:93`), and `RoundRobin` says no more.
- A marking turns an archived channel active again when the source lists it
  (`accounts/sync_preview.go:12`).

## 7. Not modelled

The frontend is a view of the API. Dashboard, analytics, the action centre and
the pages of accounts are SQL projections without state; what could be stated of
them restates the query. The outbound URL policy, autostart, version and legacy
checks, diagnostics and the discovery of Chrome and of local ports are filters
and wrappers over the operating system. Of the modelled components, wording,
masking, logging, HTTP routing, the vendors' message formats, the list of
notices, the making of backups and exports, and the balance-refresh task (whose
step is in `AccountAccess`) are left out; section 3 says for each module what is
simplified, and PROJECT.json gives the reason per component.
