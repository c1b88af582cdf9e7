# Apple refurbished watch: TLA+ specifications

apple-refurb-watch scans the refurbished section of Apple's China shop every
few minutes, keeps a local inventory in SQLite, matches it with the user's
watches and pushes what appears to up to eight notification providers. A daemon
(`serve`) owns the database; a web page, a command line, a terminal interface
and a desktop shell are its clients.

This directory holds specifications of the parts in which order, time and
failure matter, the TLC configurations that check small instances of them, and
TLAPS proofs for every instance. All source paths below are relative to
`src/apple_refurb_watch/` in the repository.

## 1. Inventory

### Components

| Component | State | Operations | What makes it correct |
| --- | --- | --- | --- |
| Notification outbox (`storage/events.py`, `deliveries.py`) | tables `events`, `notification_outbox`; per worker a leased batch | publish and enqueue, claim, lease expiry, send, acknowledge, cancel, report a death, prune, clear | no attempt is sent twice, leases exclude each other, death only after all attempts and never silent, final states are final, no row without its event, every delivery ends |
| Scan snapshot (`scanner.py`, `storage/products.py`, `storage/watches.py`) | tables `products`, `spec_cache`, `watches`, `watch_sku`; settings `baseline_done`, `last_success_at` | snapshot of settings and watches, fetch of categories and details, one transaction; edits of watches and hits | only what arrived is pushed, what came back is pushed, nothing is marked sold out without evidence, what is in stock is noticed |
| Scan runs (`scanner.py`, `storage/scans.py`, `web/routes_api.py`) | table `scan_runs`, flag `meta.scanning`, `_scan_lock`, background thread | `run_once`, `submit`, recovery, `close` | scans of a process never overlap, the lock is given back, no run or flag is left behind, a verdict stays |
| Doctor (`maintenance.py`) | none of its own | mark abandoned runs failed, reset the flag | it never touches a living run |
| Settings (`settings.py`, `storage/settings.py`, `web/settings_public.py`, `web/routes_settings.py`) | table `meta`, a version counter in memory | read form or patch, normalise, merge and write, count, put the job in place; import and export | a change is undone by none that began, or whose page was opened, after it; a reachable service has a token |
| Access control (`web/auth.py`) | cached token, address and hosts, version | check a request, refresh the cache | no request is judged by settings older than the changes finished before it |
| Application (`web/app.py`) | scheduler job, worker thread, runtime file | start, shutdown, reschedule | shutdown in order, the job follows the settings |
| SQLite store (`storage/sqlite.py`, `storage/schema.py`, `db.py`) | connection, lock, transaction depth, schema version, `app.db.bak-vN` | open, upgrade, units of work, close | a version number means its tables, an upgrade that fails takes no rows |
| Maintenance (`maintenance.py`, `cli.py`) | backup files | backup, restore, compact | a restore is done or not done, and the old content is kept |
| Daemon process (`daemon.py`, `paths.py`, `embedded.py`) | `daemon.lock`, `daemon.json` | serve, embed, ping, ensure, stop, guard of maintenance | one server per database, a runtime file that names it, maintenance beside no server that answers |
| Desktop shell (`desktop.py`) | `desktop.lock`, `desktop.signal`, window state, threads | start, take over, signal, hide, relaunch, leave | the lock is free only after the server was stopped, a signal shows the window |
| Event feed (`storage/events.py`, `desktop.py`) | event ids, poll cursor | add, prune, clear, list, notify | an event that is there is told |
| Shop page (`usecases.py`, `listing.py`, `categories.py`, `filters/`) | none on the server, the rows loaded in the browser | open a listing, pick an option, load the next page | counts, filter and pages agree |
| Status (`status_view.py`) | a cached count | read settings and scan, look up, count, keep | the count was true during the request |
| Terminal interface (`tui_app.py`) | client, tables with generations, threads | connect, refresh, operate, end | every client is closed, an own change is not overwritten by an older answer |
| Fetching, parsing, providers, service registration, event page, update check | none or caches | I/O and text | not modelled, see section 7 |

### Interaction

The scheduler (in the daemon), the API's background thread and `scan --local`
(another process) run the same scan. A scan reads settings and watches, is on
the network for minutes without holding any database lock, and then commits
products, hits, events, outbox rows, the verdict of its run and the idle flag
in one immediate transaction. `OutboxWorker` polls the outbox in a thread of
the daemon; `scan --local` calls the worker once after its scan. Web requests
change settings, watches, hits and events at any time. Clients poll
`scan_runs`, the status page reads `meta.scanning`. `doctor` runs in a process
of its own.

Processes find each other by files. `daemon.lock` is held by whoever serves,
`daemon.json` says where; `default_base` turns it into the address that every
client, the desktop and the maintenance guard ask. The desktop either attaches
to that server or runs one in a thread of its own; `desktop.lock` and
`desktop.signal` are the same for windows. A change of the settings ends in
three places: the table, the access check's copy (by the version counter) and
the scheduler's job (by `reschedule`).

### What is hard

* A scan acts on a snapshot that is minutes old: watches and settings have been
  edited, hits deleted, other scans committed.
* "First scan is silent" is encoded in the order of three timestamps.
* Categories, detail pages, database calls and providers fail one by one.
* A lease covers a batch, but the sends are sequential and slow.
* Locks and rows are handed from one thread to another.
* Processes die at any point; nothing is repaired at start-up.
* Looking at a lock, a file or a pid and acting on it are different steps, with
  other processes in between; waits end by time-out.
* Values are read twice or more in one request, each time without a lock.
* Answers of threads come back in any order, also after the end of the
  interface that asked.

The file `PROJECT.json` lists the places under `hazards`, with the properties
that watch over each.

## 2. Plan

Order of the modules, the most important behaviour first:

1. **Outbox**, **DeliveryPromise** (done, proved): delivery at least once per
   claim and at most once per attempt, and its refinement.
2. **WatchScan** (done, proved): the snapshot, the edits, what is pushed.
3. **ScanRuns** (done, proved): lock, rows, flag, recovery, doctor.
4. **LiveSettings** (done, proved): read-modify-write, job and version cache
   over one settings table, and the rule about tokens.
5. **DaemonHost** (done, proved): lock file, runtime file, pids, serve,
   embedded server, stop, guard.
6. **DataFile** (done, proved): upgrade, units of work, backup and restore
   over SQLite's WAL with failures anywhere.
7. **DesktopShell** (done, proved), **EventFeed** (done, proved): windows, the poll
   cursor.
8. **StatusView** (done, proved), **ShopPage** (done, proved): the cached
   count; pure rules of listings, facets and filters under changes.
9. **TuiConnect**, **TuiTables** (done, proved): threads of the terminal
   interface.
10. Left: the settings switches of the terminal interface, two processes upgrading one database, matching of watches, a
    composition of WatchScan and Outbox, two scanners on one database.

Abstract specifications: DeliveryPromise, implemented by Outbox, and ScanPromise,
implemented by ScanRuns (both done); an inventory that knows only arrivals and
announcements, implemented by WatchScan, has no module yet.

Theorems: every safety invariant, every action property and both refinements
that the runs check are proved (section 5). Left: the inventory and its
refinement.

## 3. Modules

| Module | Content |
| --- | --- |
| `Outbox` | the outbox, its workers, its properties and the inductive invariant `IInv` |
| `DeliveryPromise` | what the outbox promises, without rows, leases, workers or time |
| `MCOutbox` | the retry delays and the symmetry for TLC |
| `OutboxInvariant`, `OutboxTheorems` | the proofs |
| `WatchScan`, `MCWatchScan` | a scan against the user's edits |
| `ScanRuns`, `MCScanRuns` | the life of scan runs in several processes |
| `ScanPromise` | what the scan history promises a client, without threads, locks, flags or doctor |
| `DaemonHost` | the processes of one data directory, `daemon.lock` and `daemon.json` |
| `DataFile` | `app.db`: opening, upgrade, units of work, backup, compact, restore |
| `LiveSettings` | changes of the settings, the job, the access check, start and import |
| `StatusView` | the status request and its cached count |
| `ShopPage` | listings, facets, filters and pages of the shop page |
| `Ranking` | a finite set as a sequence in a given order: `sorted()` and `ORDER BY` |
| `MCService` | `DaemonHost`, `DataFile`, `LiveSettings` (twice) and `StatusView` as scenes of one run |
| `DesktopShell` | desktop windows: lock, signal, clean-up |
| `EventFeed` | the event table and the thread that notifies |
| `TuiConnect`, `TuiTables` | the terminal interface: its client, its tables |
| `MCClients` | these four modules and `ShopPage` as scenes of one run |
| `WatchScanProofs`, `ScanRunsProofs`, `DaemonHostProofs` | the proofs about the module of that name |
| `ServiceProofs` | the proofs about `DataFile`, `LiveSettings` and `StatusView` |
| `ListProofs` | the proofs about `ShopPage` and `EventFeed`, which share `Ranking` |
| `ClientsProofs` | the proofs about `DesktopShell`, `TuiConnect` and `TuiTables` |

Operators whose comment begins with "Mutant" are not part of a specification:
they are definitions with a plausible bug, used to see that the properties
notice it.

### Outbox

A delivery is a row of `notification_outbox`, named by event and channel.
`status`, `attempts`, `token`, `lease` and `retry` are its columns; `events`,
`nextEvent` and `notice` the live events and which of them report a death;
`enabled` the channels of the settings. `pc`, `batch`, `held`, `job`, `result`,
`snap` and `toReport` are the local variables of `run_once`.

`run_once` becomes `CheckDue`, `ReleaseExpired`, `Claim`, `ReportDead`,
`ReadSettings`, and for each row `LookUp`, then `CompleteMissing`,
`CancelDelivery`, or `Send` and `Acknowledge` and perhaps `NoteNotifyFailed`:
one action for each transaction or call, in that order. `Publish` and
`Republish` are the part of a scan's transaction that touches the outbox (a new
fingerprint, a stored one); every `events.add` prunes, and the rows go with
their events. `Abandon` is an exception, the end of the process, or `stop()`
giving up on its thread.

Abstractions. Time is relative: a column that holds a time holds the ticks left
until then. The code takes due rows and walks its batch in id order, here the
order is free. `scan_ok` and `scan_error` events have a quota of their own and
no rows, hence they are absent. What a provider accepted is not known to the
code when the call fails: `Send` leaves it open.

### WatchScan

`stock` is what the shop sells, everything else is stored or local to the scan.
A rule is the set of SKUs it matches once their specifications are known.
`state`, `rule` and `fresh` are the watches, `row` and `marker` the hits,
`events` the fingerprints. Timestamps are replaced by the comparisons the code
makes with them: `fresh` holds the watches with `created_at >= last_success_at`,
and `marker` numbers the mark-outs, as the `updated_at` of a sold-out hit does.
That needs a clock which is strictly monotone between a scan's end and the
creation of a watch, and between two scans.

`Begin` reads settings and watches (two reads in a row; whatever happens between
them commutes with one of the two), `Fetch` and `FetchFails` a category,
`Observe` the detail pages and then the clock, `Commit` is the transaction,
`Abort` any exception or crash. The edits are those of `routes_watches.py` and
the settings page.

Left out: `last_scan_at`, `last_error`, observations and other bookkeeping; the
expiry of the specification cache; a SKU that moves to another category; events
without a fingerprint of a watch. Each SKU in `DetailSku` needs its detail page
for every rule that matches it. `AddEvents` lets the events that survive the
quota be chosen more freely than by id.

`arrived`, `unseen` and `gone` only observe: which SKUs arrived since the watch
last had them in stock, which pairs a complete scan settled without looking
(the watch did not exist yet or was paused, its rule did not match yet, the
category was not selected, the detail page failed), and what the shop was out
of since a scan began.

### ScanRuns

A process has callers and one background thread. Callers run a scan themselves
(`RunOnce`, the scheduler and the command line) or reserve a run (`Submit`,
`Reserve`, `Mark`, `Spawn`, with `Undo` for the except clause). The scan is
`Begin` (before the try statement), `Open`, `Record` (the transaction),
`Report` (the read after it), `Recover` (the except clause) and `Conclude` (the
finally clauses). Every database call may raise, which is counted in `faults`.
`Crash`, `Close`, `Exit` and `Start` are the process; `Examine`,
`MarkAbandoned` and `ResetFlag` are doctor. `_scan_lock` is per process and
vanishes with it.

A caller that does not get the lock answers "busy" and changes nothing, so no
action stands for it. The 30 seconds of `close()` appear as `Exit` being able
to cut off a background scan like a crash.

ScanPromise is what a client that polls `/api/scans` may rely on. It knows for
each run its verdict, which processes scan, and for which run; it has the steps
`Take`, `Begin` and `Settle`. A process is `busy` while its lock is held, and
`doing` is the run that one of its threads carries. The handover from the caller
to the background thread, the flag, the faults' recovery and doctor are steps
that it sees as `Settle` or not at all.

### DaemonHost

`proc` says what runs under a pid, `srv` where that process's server is (`serve`
or embedded), `task` what else it does: attach, embed, ensure, stop, guard. A
pid is taken again by a later process, ours or foreign, so `daemon.json` may
name the wrong one. `TakeLock` to `Unlink` follow `serve` and the life cycle of
`create_app`: lock, open, `write_runtime` (`Claim` looks, `Publish` replaces),
bind, and at the end `clear_runtime` (`ClearLook`, `Unlink`). `Ping` to
`JoinTimesOut` are the desktop, `SpawnChild` to `Maintain` the commands. A
server `Answers` from its bind to the beginning of its shutdown; whoever asks one
gets a `Reply`, which is "ok", too "late" for the client's time-out, or
"refused". After the shutdown has begun the server holds the database for as
long as its scan takes (`Closed`), and no longer answers.
`disowned` and `died` only observe the exceptions that the properties name.

### DataFile

The file holds version, tables, filled-in rows and a number of rows; `wal` is
`app.db-wal`, which a reader prefers and the last closing connection folds in.
`UpgradeFirst` to `RestoreBackup` are `migrate`: copy, script and its own
commit, filling and the second commit, and the restore of the copy, which SQLite
refuses while a transaction is open. `UnitFails` includes a commit that raises
and leaves the transaction open. `StartJob` to `JobReturns` are backup, compact
and restore, `JobFails` everything that can stop them. `code` is the version of
the program that opens the file: programs may be exchanged, also for older ones.

### LiveSettings

A request that changes settings goes through `ReadBefore`, `ReadMerge`,
`Commit`, `Count`, `Look` and `Retime`, because the code reads three times. It
begins as `Call` (a patch of the API, the listen switch) or as `Submit`, the form
of a page that was opened before (`OpenPage`), maybe long before. The page shows
the interval, the access switch and the switches of all channels, no secret and
no token (`Page`); its form posts all of that with the user's edit (`Filled`).
A patch is a function from the settings it names to values; `Normalize`,
`FormPatch` and `FormNotify` are what `normalize_settings_patch` and
`form_settings` make of it: every switch is the form's, and off if the form has
none, a secret left blank stays. The access check is `Arrive` (the copy is
current), `Enter` (the lock is taken), `Fetch`, `Keep` and `Leave`. `Serve` and
`Import` run while nothing else does. `set()` of single keys by a scan counts the
version, too; it invalidates the copy more often and changes nothing else here,
hence it is absent.

`touched` observes, for each setting, the last transaction that somebody made to
set it or that changed it; `Learned` says since when a request knows a setting:
since its page was opened, if the page shows it, else since the request began.

### StatusView and ShopPage

StatusView keeps every statement of a status request apart: the settings, the
scan, the look into the cache, the count, the cache's new value. A product
stands on one or two pages of the shop; a scan puts it on the shelf of one page
it fetched. `seen` observes which counts were true while a request ran.

ShopPage is the request as operators (`PageFor` and what it uses) and the
browser's state between requests. Three dimensions stand for the kinds there
are: `model` from a column, `color` from the shop's data, a column or a label,
`memory` that only Macs have. The tables are samples of the code's tables, with
an entry for each way in which two of them can disagree. The fields `same` and
`promised` of `page` observe whether anything changed since it was opened and
which count was shown beside the option.

### DesktopShell and EventFeed

`stage` is the main thread from `take_desktop_lock` to the end of
`run_desktop`; `helper` the relaunching or forcing thread; `tidy` who runs
`cleanup` and how far. `started`, `last` and `signal` are modification times.
In EventFeed `FirstCursor`, `ReadRows`, `NotifyRow` and `EndPoll` are
`_poll_appeared`; pruning keeps the newest ids, ids are never used again.

### TuiConnect and TuiTables

In TuiConnect `connector` is the thread of `_connect` with the runner around it,
and `on_unmount` is four steps, since that thread goes on between them. In
TuiTables a refresh is a record of the generations it began with and the
versions its thread has read; a handler of the loop is one step. The tables are
those of the listings, the watches and the events. `known` is whether the
settings have been read, without which `reload_listings` reloads everything.
A refresh that fails is remembered in `missed` if the interface tells the user,
else in `hushed`: `reload_all` reports its error only while the generation of
the listings is its own, although watches and events may still depend on it
(`Tells`).

### Scenes

The parts of the service share no variable in these models (what passes between
them is an input of each), and neither do the parts of the user's side. So
`MCService` and `MCClients` choose a scene at the start, move that part and keep
the others in one initial state: the run costs the sum of the parts, and a
property is checked in all behaviours of its part. LiveSettings has two scenes:
pages, forms and patches without access checks, and patches with access checks
but without pages. An access check sees of a change only its commit and its
count, which are the same for forms and patches.

## 4. Runs

| Run | States | Question |
| --- | --- | --- |
| `OutboxSafety` | 2.4 million | the safety properties and the refinement, two different workers |
| `OutboxBatch` | 1.7 million | batches that outlive their lease: the inductive invariant, of which the safety properties are parts; cancellations |
| `OutboxLive` | 137 thousand | does every delivery end? |
| `WatchScanSafety` | 6.3 million | what is pushed, restocked, marked sold out |
| `WatchScanLive` | 70 thousand | is stock noticed in spite of failures? |
| `ScanRuns` | 654 thousand | lock, rows, flag, doctor, ends of runs; the refinement of ScanPromise |
| `Service` | 2.6 million | servers and maintenance, the database file, settings and access, status |
| `Clients` | 382 thousand | desktop windows, notifications, terminal interface, shop page |
| `WatchScanLate` | violation | a watch created during a scan |
| `WatchScanDeleted` | violation | a watch deleted during a scan |
| `WatchScanForgotten` | violation | a hit removed between sold out and restock |
| `ScanRunsStuck` | violation | a failure before the try statement |

Deadlock is checked in every run but `Service` and `Clients`, in which bounded
parts come to their end: all processes have run, all requests are answered.

### Properties

* `SendOncePerAttempt`, `LeaseExclusive`: workers overlap as soon as a lease
  runs out during a batch; attempt numbers and tokens keep them apart.
* `NoEarlyDeath`, `DeathReported`: three tests of the attempt limit agree.
* `NoOrphanRow`, `TerminalStable`: pruning, late acknowledgements and repeated
  enqueues cannot reopen or orphan a row.
* `CancelJustified`: a row is cancelled only if its channel was off since it was
  enqueued. It holds for the service's worker, which reads the settings after
  the claim. It does not hold for `scan --local`, whose settings are older.
* `KeepsPromise`: the refinement of DeliveryPromise.
* `EveryDeliverySettles`, `StockIsNoticed`, `LockIsFreed`, `RunsEnd`: liveness.
* `PushJustified`: a push needs an arrival. Its exemptions are the causes for
  which the code does push old stock: pairs a complete scan settled without
  looking, and watches deleted during a scan.
* `RestockPushed`: a hit that was sold out and returns is pushed.
* `SoldOutIsReal`: only evidence of a scan that looked marks a product out.
* `LockDiscipline`: one thread takes the lock, another returns it, once.
* `RunsAreOwned`, `FlagIsCleared`: how many faults it takes to leave a run
  `running` or the flag set.
* `KeepsScanPromise`: the refinement of ScanPromise. One scan of a process at a
  time, each with the next run; a success is recorded only by the process that
  scans for the run, and taken back only by a fault before that scan is over.
* `AbandonedIsDead`: doctor does not fail a run that the daemon executes.

* `OneServer`, `RuntimeNamesServer`: lock and runtime file over all starts,
  stops, kills and re-used pids, except for what `disowned` names.
* `GuardSeesServer`: the guard asks where the runtime file points, which must be
  where a server is that answers, also on another port. An answer that comes too
  late for the client lets the command through, and so does a server that does
  not answer: one that is starting, or one that is shutting down.
* `VersionMeansUpgraded`: what is missing below the stored version would be
  skipped for ever; the file, its WAL and all copies keep to it.
* `UpgradeKeepsRows`: a failed upgrade must not go back to the copy of an
  earlier attempt.
* `RestoreAtomic`: before, after, or a copy of before; never a success without.
* `FreshVerdict`: the order of commit, count, read of the version and read of
  the settings.
* `BoundHasToken`: what is stored and what is bound differ until the next start;
  forms, patches and imports cannot take the token of a reachable service.
* `ChangesSurvive`: requests that overlap do undo each other's changes, and a
  form undoes what was changed after its page was opened, of the settings that
  the page shows. Nothing else is undone: no secret and no token that was set
  before the request began, however old the page is.
* `CountWasTrue`: no interleaving of scans, settings and cache gives a count
  that was false during the whole request.
* `FacetPredictsPage`: counts, filter, the tables behind both, and paging agree.
* `ServerEndsBeforeLock`: whichever thread cleans up.
* `SignalShows`, `EventsAreNotified`: liveness of the desktop.
* `ClientsAreClosed`: the end at any moment of a connection attempt.
* `OwnEditShown`: refreshes that overlap, and finish in another order. A refresh
  that failed is exempt, with the user told or, for watches and events, in the
  silence described above; the listings are never stale in silence.

### Findings

1. A watch created while a scan is on the network is not silent at its first
   scan (`scanner.py:264`, `scanner.py:429`).
2. A watch deleted while a scan is on the network is served once more: its
   whole stock is pushed, and its hits are stored again (`scanner.py:281`).
3. After the user removes a sold-out hit, the restock reuses the fingerprint of
   the first appearance and is not pushed (`scanner.py:310`).
4. A failure before the try statement leaves a reserved run `running`
   (`scanner.py:222`).

Some more behaviours are visible in the models and have no run of their own:
two processes that scan the same database can push a product that never left
(with two scanners `PushJustified` fails), and a read that fails after the
commit turns a stored success into `failed` (`MayBecome` of ScanPromise allows
it after a fault). Two overlapping changes of the settings may undo one another and may
leave the job at the older interval, and a page that has been open for a while
undoes later changes of all it shows when its form is sent (`Learned`). A full
refresh of the terminal interface that fails after the listings were reloaded
leaves watches or events stale without a word (`hushed`). `EmbeddedServer.stop` gives `daemon.lock` back after eight seconds
even if its server still works (`disowned`). The thread that is to open a window
again dies with a main thread that is faster (`MainReturns`). An upgrade that
fails after its first commit is not undone, because the restore is refused
(`RestoreBackup`); it is completed at the next start. A scan between two pages
of a listing shifts their offsets (`same`). No text of the repository denies
these (`tests/test_schema_migrate.py:131` lets the upgrade fail before its first
statement only), so no run states them.

One more is close to a disagreement. `stop` signals the daemon, waits 0.4
seconds and returns (`daemon.py:228`); the daemon closes its port first and then
awaits its scan with the database open (`web/app.py:139`). Restore, import and
compact ask the port, so right after `stop` they are let through beside it.
`cli.py:85` asks the user to stop the daemon first, as does `README.md:418` of
the repository; neither says that the guard recognises one that is still
stopping, and `GuardSeesServer` does not claim it.

### Bounds

* Outbox: two workers suffice for any race over one row, since every
  interaction is between the owner of a lease and one other worker. One worker
  is a service loop and one a one-shot call, or both are loops. `MaxEvents` 2
  with `EventKeep` 1 makes the second event prune the first while its rows are
  held. `BatchSize` 2 with `Lease` 1 lets a lease run out inside a batch.
  `MaxAttempts` 2 reaches claim, retry and death, 3 in the liveness run. The
  proofs have none of these bounds.
* WatchScan: one watch, because a scan treats watches independently of each
  other; two SKUs in two categories, so that one can be seen while the other's
  category fails; two moves of the shop (sold out and back); two edits (the
  findings need one). `EventKeep` is larger than the number of events, pruning
  is the concern of Outbox.
* ScanRuns: two processes of which one has a background thread at work, two
  runs (an abandoned one and a new one), two faults (the recovery, too, fails)
  and one crash. With three runs and a third caller the safety properties hold
  as well (15.7 million states), which is too long to repeat each time.

* DaemonHost: three processes, each pid used once or again, one crash; two
  servers and a command, or a window, its server and a successor, meet in all
  orders. Two ports, that of the settings and another.
* DataFile: two versions of the schema and one row, so that an upgrade, the loss
  of a row and an exchange of programs can happen; no bound on steps.
* LiveSettings: two pages or requests and one access check at once, two
  transactions: the race of commit, count and refresh needs one writer and one
  visitor, an undone change two writers, of which one may be a page opened
  before. Two channels, so that a form can undo the one it was not about; three
  intervals of which one is refused, so that an interval can be changed to a
  value other than the one at first and be undone.
* StatusView: two readers share the cache, two scans, one change of the
  listings; a MacBook (two pages) and an iPad.
* ShopPage: five products that differ in what decides where they show, pages of
  two rows, three requests (a listing and two picks), one change.
* DesktopShell: an older and a newer window, each of which runs once; the second
  kills or signals the first. A window of the same version takes the path of an
  older one that finds a newer.
* EventFeed: answers of two, three kept of five events: an answer that is full,
  and events pruned behind and before the cursor.
* TuiConnect: three connections. TuiTables: two changes on the server and two
  requests of the user beside the first refresh: three refreshes overlap, four
  after an operation on the listed families.

### Fairness

* Outbox: the clock ticks, and the steps of workers that are service loops
  happen: `OutboxWorker.start` calls `run_once` again after every pass and every
  exception. One-shot workers get no fairness, and abandonments are finite.
* WatchScan: the interval job repeats scans, hence weak fairness for its steps.
  Strong fairness says that no category, detail page or transaction fails every
  time it is tried; without it the shop could be unreachable for ever.
* ScanRuns: threads keep running (weak fairness of their steps). Nothing is
  assumed of callers, doctor or restarts.
* DesktopShell: `watch_signal` looks once a second as long as the session lives
  (weak fairness of `PollSignal`). Nothing is assumed of users and threads that
  leave.
* EventFeed: the thread polls every 12 seconds (weak fairness of its steps); a
  request to the local server that fails is repeated at the next poll.

## 5. Proofs

A run checks one small instance, a theorem all values of the constants that
satisfy the module's named assumption: any number of workers, watches, SKUs,
processes, windows, requests, schema versions, crashes and faults. Before an
inductive invariant was proved, TLC checked it with the constants of the run
that checks the property.

| Module | Theorem | States |
| --- | --- | --- |
| `OutboxTheorems` | `Invariance`, `TypeCorrectness`, `OneSendPerAttempt`, `LeasesExclude`, `DeathIsLate`, `DeathIsReported`, `RowsHaveEvents` | `IInv`, `TypeOK`, `SendOncePerAttempt`, `LeaseExclusive`, `NoEarlyDeath`, `DeathReported`, `NoOrphanRow` |
| | `Finality`, `ImplementsPromise` | `TerminalStable`; the refinement `KeepsPromise` |
| | `CancellationsAreJustified` | `CancelJustified`, if no worker is one-shot |
| `WatchScanProofs` | `TypeCorrectness`, `RestocksArePushed` | `TypeOK`, `RestockPushed` (the latter as long as no commit announces more than `EVENT_KEEP`) |
| | `SoldOutWasGone`, `PushesAreJustified` | `SoldOutIsReal`, `PushJustified`, with one scanner |
| `ScanRunsProofs` | `TypeCorrectness`, `LocksAreKept`, `RunsHaveOwners`, `FlagsAreCleared` | `TypeOK`, `LockDiscipline`, `RunsAreOwned`, `FlagIsCleared` |
| | `ScansKeepPromise`, `DoctorSparesTheLiving` | the refinement `KeepsScanPromise`; `AbandonedIsDead` |
| `DaemonHostProofs` | `ServersAreAlone`, `RuntimeIsTrue`, `GuardsSeeServers` | `OneServer`, `RuntimeNamesServer`, `GuardSeesServer` |
| `ServiceProofs` | `VersionsAreUpgraded`, `RestoresAreAtomic`, `UpgradesKeepRows` | `VersionMeansUpgraded`, `RestoreAtomic`, `UpgradeKeepsRows` |
| | `OldChangesSurvive`, `VerdictsAreFresh`, `TokensAreKept` | `ChangesSurvive`, `FreshVerdict`, `BoundHasToken` |
| | `CountsWereTrue` | `CountWasTrue` |
| `ListProofs` | `FacetsPredictPages` | `FacetPredictsPage` |
| | `EventsAreToldInOrder`, `NoEventIsPassed` | `ToldInOrder`, `NothingPassed` (defined there) |
| `ClientsProofs` | `LockFollowsServer`, `AllClientsAreClosed`, `OwnEditsAreShown` | `ServerEndsBeforeLock`, `ClientsAreClosed`, `OwnEditShown` |

The theorems whose names end in `Invariance`, and `MarkersAreNew`,
`MissingIsGone`, `PagesStayCurrent` and `FeedStaysInOrder`, state the invariants
they rest on. `ToldInOrder` and `NothingPassed` are the safety that belongs to
the liveness property `EventsAreNotified`; no run repeats them, TLC has checked
them with the constants of `Clients`.

### Hypotheses beyond the assumptions on constants

* `NoOneShot` (no worker is handed its settings before its claim): true of the
  daemon's `OutboxWorker`, not of `scan --local`, for which `CancelJustified` is
  false.
* `OneScanner` (two scanners are the same): `_scan_lock` gives it to the daemon,
  as `LocksAreKept` shows; a `scan --local` beside it is a second one, for which
  both properties are false. `RestocksArePushed` and `MissingIsGone` need it not.
* `RoomFor` (a commit announces at most `EVENT_KEEP`, 500, events): `events.add`
  prunes in the same transaction, so a commit that announces more has events
  that are never told.

### The outbox

None of the safety properties is inductive. `IInv` adds to them:

* `LocalInv`: what the program counter says about the batch, the current row
  and the result;
* `EventInv`: event ids are not reused, hence a row that is gone does not come
  back under the same name, and a batch refers only to published events;
* `TokenInv`: a token is on a processing row, it belongs to one worker, and a
  worker whose token is still on the row has the row's attempt number;
* `AttemptInv`: attempts beyond the row's counter have not been sent, a claimed
  attempt has not been sent before its worker is at `ack`, and no two workers
  claimed the same attempt. This is where `SendOncePerAttempt` comes from: a
  second claim always has a higher number, whatever became of the first;
* `LeaseInv`: the row's lease lasts at least as long as its owner's own.

Most actions do nothing that these parts care about. The proofs say so once:
`QuietStep` shows that a step in which rows are kept, removed with their events,
newly enqueued or settled, no event id is used again, and workers only forget
rows, preserves all parts except `LocalInv` and `DeathReported`. Each action
then has one lemma: it is quiet, or (`Claim`, `Send`) it is treated part by part;
`LocalInv` and `DeathReported` follow for the action itself. The same lemmas give
`Advances`, the per-row step relation from which `Finality` and
`ImplementsPromise` follow.

`CancelInv` adds for `CancelJustified`: an open row whose channel is off was
enqueued then or has seen it switched off (`OffInv`); and what a worker that has
read its settings still owns and misses in them is such a row (`SnapInv`), which
is true when it reads them because its rows are open already.

### The scan

* `MarkerInv`: no event is stored under the present marker of a sold-out hit.
  Hence the return of the hit is news to `events.add`.
* `GoneInv`: what a fetched category did not show was missing since the scan
  began.
* `SpecsInv`: a scan is blind only to SKUs that nobody has identified.
  `SettledInv`: a watch that is past its silent scan has among its hits every
  SKU the shop sells, or would be right to announce it. `FoundInv`: the same of
  what a scan has found for such a watch, though the SKU may be gone by now. The
  first and the last relate a snapshot to tables that only this scan writes,
  which is what a second scanner breaks.

### Runs

`IInv` of `ScanRunsProofs` says which thread has which run at which stage
(`StageInv`), that a process has one active thread and its lock is held as long
as that is active (`LockInv`), that no two threads have one run and none has a
verdict before its transaction (`OwnerInv`), how many faults it takes to be at
the undo, recovery or end of a run (`FaultInv`), who is going to clear the flag
(`FlagInv`), and that doctor's candidates are no runs of the daemon (`DeadInv`).

The refinement is proved from it, action by action. `StageInv` and `OwnerInv` say
that what a process is `doing` is one run of one thread, which makes the handover
invisible; a reservation that ends in an exception and the end of a process are
`Settle` steps that free the process; `FaultsGrow` covers the bit `faulty`. Only
the read after the commit can take a success back, and only by raising.

### Processes

`HostInv`: who is past `daemon.lock` has it, a server lives in a process of its
kind, `daemon.json` names the server at work and never one that could shut down.
It is void once a server has been disowned, as the properties are.
`GuardSeesServer` is inductive beside it, because the guard's look is one step:
a server that answers is named by `daemon.json`, so it is the one that is asked,
and its reply is not a refusal.

### The service

* `UpgradeInv` carries through an upgrade what is open, what is being committed
  and the backup it may go back to, which is of this attempt and has its rows;
  `UpkeepInv` how far a restore has come and what it has in hand.
* `ChangeInv`: where an open page shows a field, or a request would write one
  that it does not mean to set, this is what is there, or somebody has set the
  field since the page or the request learned it. The rule that a form carries
  every switch (`PageForm`) is part of it: without a switch the form would turn
  the channel off, whatever its age.
* `FreshInv`: a copy of the settings under the current version holds all that is
  counted, also while another request is fetching one.
* `TokenInv`: a request that clears the token was let in on the loopback address.
* `StatusInv`: a cached count is true of its key, or was true during every
  request that could look the key up.

### The clients

`ShellInv`: a window that runs its server has the lock and has not yet come to
the server in its clean-up. `ConnectInv`: the client in the connecting thread's
hands is registered where the present stage of `on_unmount` will look.
`TablesInv`: a refresh of the current generation has read a version as new as
the user was told of, and a table that is behind has such a refresh on its way,
or its last one failed. A full refresh that fails in silence is never the current
one of the listings.

### Listings and events

Python's `sorted()` and SQLite's `ORDER BY` are the sequence in which the n-th
element has n - 1 elements before it (`InOrder`). Written so, no induction over
data is needed: `InOrderLists` shows for any total order that every element of
the set occurs, exactly once, and in the order, since ranks grow strictly along
the order (`RankGrows`) and lie below the cardinality (`RankBounded`). The number
a facet promises for several values is the sum of their counts, written as the
size of a disjoint union; `CountedByValue` shows it to be the number of the
products that have one of the values, provided that each product has one value
of a dimension.

* `PageInv`: while nothing changed, the page's listing is one the shop has, its
  rows are the first of that listing, and its counts are those of its options.
  `FacetsPredictPages` follows with `CountsPredict`: the products a pick leads to
  are those that pass all other picks and have one of the values. Counts and
  filter take different ways through the tables; the proof has to show that
  restricting the picks to a listing happens once and alike in both
  (`RestrictedTwice`, `ShownTwice`). The tables themselves are the samples of
  ShopPage; the theorem is for any products, prices, sizes of pages and changes.
* `FeedInv`: told ids rise and do not pass the cursor, the rows in hand rise and
  lie after it, and between the cursor and the last of them no stored event of
  the type is missing. It follows that the test `id <= cursor` of
  `_poll_appeared` is never true: the answers are such that no row repeats.

### What stays with TLC

* Liveness: `EveryDeliverySettles`, `StockIsNoticed`, `LockIsFreed`, `RunsEnd`,
  `SignalShows`, `EventsAreNotified`. It depends on `ENABLED`, which the prover
  does not handle.
* The findings, and that the runs reach the cases that matter.

## 6. How to run

    tlc -config OutboxSafety.cfg MCOutbox
    tlapm OutboxTheorems.tla

The other runs are named after their configuration; their modules are listed in
`PROJECT.json`. The theorems are in `OutboxTheorems`, `WatchScanProofs`,
`ScanRunsProofs`, `DaemonHostProofs`, `ServiceProofs`, `ClientsProofs` and
`ListProofs`, lemmas also in `OutboxInvariant`; each takes a few minutes.

## 7. What is not modelled

* Text: parsing of the shop's pages, the formats of the providers, messages,
  the pages and the terminal interface. They have no state of their own.
* The operating system: registration as a service, tray icons, notifications
  of the desktop, permissions of files.
* SQLite itself: a transaction is one step, and a process that dies inside one
  leaves the state before it. DataFile assumes what SQLite documents of its WAL.
* Fetching (`fetch.py`, `listing_source.py`): a retry and a pause around one
  request; WatchScan lets each fetch fail.
* The update check: a cached answer. Its comparison of versions is what
  DesktopShell uses.
* Code without a caller in the program: `deliver_event`, `mark_delivery`,
  `release_delivery`.
* Matching of a watch's text, prices and sizes: in WatchScan a rule is a set.
  The full tables of chips, cores and models, and the cascade between them: they
  are data, of which ShopPage takes samples.
* The rotation of backups, nested transactions, two processes that upgrade one
  database, the settings switches of the terminal interface: item 10 of the plan, as far as it pays.
