# A TLA+ verification of Tadoru

Tadoru is a self-hosted, cookie-less web analytics server: one Node process, one SQLite
database, a small browser tracker, and a set of operator commands. This directory holds TLA+
models of it, the TLC configurations that check them, and TLAPS proofs about them. Paths
below are relative to the repository.

## 1. The system

### Components

| Component | State it keeps | Operations | Interacts with |
|---|---|---|---|
| **Event ingestion** (`RecordEvent`, `collectRoutes`, `BatchingEventRepository`, `SqliteEventRepository`, `SessionId`, `VisitorId`) | the buffer and its flush timer in memory; the `events` table | `execute` (two awaits), `saveBatch`, `flush`, `findLastByVisitor` | the salt, the rate limiter, the process lifecycle |
| **Salt** (`SqliteSaltProvider`, `RotateSalt`) | one row: the salt and when it was made | `current` (creates it), `rotate` | ingestion, the scheduler |
| **Rate limiter** (`TokenBucketRateLimiter`) | a map from key to bucket | `consume`, with its sweep and refill | collect and login routes |
| **Scheduler** (`Scheduler`) | timers, handles, last outcome per job | `start`, `stop`, `#runJob`, `getJobStatuses` | the jobs, `/health` |
| **Daily jobs** (`RotateSalt`, `SqliteRollupBuilder`, `PurgeExpiredData`) | the salt, the rollup tables, the `events` table | one run each | the scheduler |
| **Health** (`healthRoutes`, `jobStaleness`) | none | `isJobStale` | the scheduler |
| **Reporting** (`QuerySiteMetrics`, `SqliteMetricsRepository`, `ScrollDepth`, `TimeRange`) | none of its own | rollups for closed days, raw events for today, merged | the rollup and event tables |
| **Tracker** (`tracker/`, `PagePath`) | engagement clock, scroll milestones, one page view | visibility, pagehide, navigation, scroll | the collect route |
| **Process lifecycle** (`server.ts`, `composition.ts`, `cli/start.ts`, `Database.ts`) | up, draining, down | start, `close()`, SIGTERM and SIGINT | everything |
| **Storage** (`cli/backup`, `cli/restore`, `cli/status`, `Database`, migrations, `bindPort`) | files: database, journal, backups, files moved aside | backup, restore, status, `applyMigrations` | a running server, by its port and its files |
| **Credentials** (`installService`, `resetPassword`, `loadConfig`, `init`, `adminAuth`, the login routes) | `tadoru.env` and its dated copies, `session-secret`, the configuration in a process's memory, a cookie | install, init, reset, load, login, logout | every process that loads the configuration; an editor |
| **Collect routes and value objects** (`collectRoutes`, `requestContext`, `SiteId`, `ReferrerSource`, `ScreenBucket`) | the `sites` table | which site, client, path and source a request is recorded under | the limiter, ingestion |
| **Dashboard** (`dashboardRoutes`, `SiteActivityRepository`, views) | none of its own | the overview and the sites page, a dozen queries each | reporting |
| **Resolvers, localisation, `update-geoip`** | none that two actors change | look up, render | |

Inside the process everything is one JavaScript thread and every adapter is synchronous
(`better-sqlite3`), so what can interleave is exactly what `await`, timers, signals and
sockets let in. Across processes only files are shared.

### What is hard here

* **Awaits.** `execute` reads the salt, awaits, looks up the last event, awaits, saves. Two
  handlers dispatched by one turn of the event loop interleave at these points.
* **Two homes of one event.** The last event of a visitor may be in the buffer, in the table,
  or gone with a failed batch; the session decision has to hold in all three cases.
* **Failure.** A flush empties the buffer before it saves. It is called by a request, by a
  timer and by `close()`, and a failure ends differently in each.
* **Uptime instead of the calendar.** The jobs are counted from the start of the process:
  restarts postpone rotation and purge, and only yesterday is ever rolled up.
* **Lazy state.** A bucket is refilled and forgotten only when somebody calls.
* **Asynchronous runs.** A job's run may outlast its interval, `stop()` and the next `start()`.

`PROJECT.json` lists these hazards line by line ("hazards"), each with the properties that
would catch it going wrong.

### What makes each component correct

* Ingestion: an event is stored once or lost once; batches are atomic; sessions follow the
  inactivity gaps and never cross a salt; losses are bounded by failures; the buffer drains.
* Collect: what passes the limiter and is on a listed site is recorded once, under its own site,
  client and source, however the host is spelled; a site has a row exactly with its events.
* Rate limiter: verdicts are those of an ideal token bucket, and idle keys are forgotten.
* Scheduler: no overlap, no job dropped, a clean stop, an honest record of outcomes, and every
  job runs again.
* Daily jobs: closed days are rolled up, the salt and raw events do not outlive their terms.
* Health: one failure is not an outage; three in a row are.
* Reporting: what a range reports is what was collected in it, whichever tables it came from.
* Dashboard: the parts of a page, each from a query of its own, agree with one another.
* Tracker: an opt-out is silent; paths are redacted; a page view is one view and its events name
  it; a milestone is reported once; the last report of a view is the whole time it was visible.
* Storage: no database is read with another's journal; a restore leaves what it verified; nothing
  that was in the database file is in no file; a server never answers on an old schema; the exit
  code of `status` is right about a server that was up, or down, all the while.
* Credentials: a printed password opens the next server; a reset changes nothing else and keeps a
  copy; sessions outlive restarts.

## 2. Modules

| Module | Models | Kind |
|---|---|---|
| `EventLedger` | what ingestion promises: take, refuse, store a batch, lose a batch | abstract specification |
| `Ingest` | the server process from the accepted request to the `events` table | detailed; implements `EventLedger` |
| `IngestProofs` | theorems about `Ingest`, sessions last | TLAPS |
| `TokenBucket` | one ideal bucket per key | abstract specification |
| `RateLimiter` | `TokenBucketRateLimiter` | detailed; implements `TokenBucket` |
| `Collect` | the collect routes, the value objects and the site rows, composed with the limiter | composition (EXTENDS `RateLimiter`) |
| `CollectProofs` | theorems about `RateLimiter`, and about `Collect` on top of it | TLAPS |
| `Scheduler` | `Scheduler` with asynchronous runs | detailed |
| `Daily` | the three jobs, the process and `/health`, composed with `Scheduler` | composition (EXTENDS `Scheduler`) |
| `DailyProofs` | theorems about `Scheduler`, and about `Daily` on top of it | TLAPS |
| `Reporting` | rollup tables, rebuilds, purge, and the queries that merge rollups with raw events | detailed, with a reference count |
| `Dashboard` | the overview and the sites page, put together from those queries | detailed (EXTENDS `Reporting`) |
| `ReportingProofs` | theorems about `Reporting` and `Dashboard` | TLAPS |
| `Tracker` | the tracker script on one page, and the browser around it | detailed |
| `TrackerProofs` | theorems about `Tracker` | TLAPS |
| `Storage` | the data directory: servers, `backup`, `restore` and `status` | detailed; composes the four |
| `StorageProofs` | theorems about `Storage` | TLAPS |
| `Credentials` | `tadoru.env`, the commands that write it, loading the configuration, sessions | detailed |
| `CredentialsProofs` | theorems about `Credentials` | TLAPS |
| `Selection` | `SelectIn`, what `filter()` leaves of a sequence | operator |
| `FoldProofs` | what folds and sums over sets and sequences compute, as lemmas for the modules above | TLAPS |
| `MCCollect`, `MCScheduler`, `MCDaily`, `MCReporting`, `MCTracker`, `MCStorage`, `MCCredentials` | jobs, intervals, visitors, events, addresses and files for TLC; symmetry | model values |

### Ingest

`micro` is the FIFO queue of continuations of `RecordEvent.execute`. `Dispatch` is the handler
up to its first await, `Lookup` up to the second, `Save` the rest, including the size flush.
`slots` limits how many handlers a turn of the event loop dispatches before their
continuations run: Node drains microtasks after each callback, but the HTTP parser may call
several handlers from one callback (pipelined requests). A timer, a signal or a job is a
macrotask: it needs an empty queue. `Terminate` is `close()`: the scheduler stops, the buffer
is flushed, and accepted requests are still served while Fastify closes ("draining").
A failing flush has three ends, as in the code: `Save` rejects one request, which
`fireAndForget` logs; `FlushTimer` is an unhandled rejection and ends the process;
`Terminate` rejects `close()` and exits. A session id is modelled by the identity of the event
that drew it. `ts` is floored to the second as in `SqliteEventRepository.toRow` while `now`
is finer, so the comparison in `BelongsToSameSession` has the code's units.

### RateLimiter

One tick of the clock is one unit of refill and `PerToken` units make a token, so the code's
floating-point `refillPerMs` becomes whole numbers. `Consume` is `consume()`: sweep, refill,
spend or refuse. `SetBack` is `Date.now()` going backwards, `Observe` an observer who starts
counting at any moment, which turns "in any window" into an invariant.

### Collect

`Request` is what a browser sends for a visit: a beacon has the origin of its page and a body, a
pixel has what the page's referrer policy lets through. `resolveSiteHeader`, `resolveClientIp`,
`createSiteId`, `allowedSites`, `resolveReferrerSource` and `resolveScreenBucket` are the functions
of these names, on addresses already taken apart into a host, its leading "www."s, its trailing dot
and its path. `Collect` is one request from the header to `RecordEvent`, with the token in between;
`Flush` is the transaction of `SqliteEventRepository` in which `idFor` gives sites their rows. The
awaits, the buffer's limits and crashes are left to `Ingest`.

The model shows some things that are easily missed. The limiter's key is the header as it came, so that a
pixel's key may carry the path of its page, although `rateLimit.ts:26` speaks of keys by site. A
`Referer` with ".." in its path is refused as a site, so that such a pixel is not counted. A
trailing dot is stripped from a site and not from a referrer, which makes a click within
`example.com.` external (`OwnPagesAreInternal` leaves those out).

### Scheduler and Daily

`Fire`, `Succeed` and `Throw` are `#runJob` before and after its await; `handles` and `timers`
are separate because `stop()` cancels what `#handles` knows and nothing else. `chain` and
`overtaken` are history: `start()` after `stop()` while a run is in flight gives that job two
chains, and the properties say what holds of all the others. (The server never restarts a
`Scheduler`: `Daily` sets `MaxStarts = 1`.)

`Daily` replaces the abstract run by the three real ones. `buffered` is the ingestion buffer
seen from afar: its events reach `rows` within a tick, possibly after midnight. `rollup` is
the set of events the rollup tables count, so "rebuild a day" is "delete the day's part and
add the day's rows". `Boot` and `Down` are the process; the scheduler's memory goes with it.
`Cutoffs` is `setUTCMonth`: on the 29th to the 31st the cutoff of the purge may be up to `Slip`
later than a month before. `Health` is the answer of `GET /health`, with the database probe.

### Reporting

`tables` and `scroll` are the rollup tables as sets of rows, `rows` the events table.
`Aggregate` is the SQL of `#rebuildDimension` and of `queryRaw`, which is the same query;
`SqlSum` and `SqlMax` keep SQL's rule for NULL, which decides whether a rebuild is accepted.
`path` and `device` stand for the ten dimensions: some dimensions may
differ between the events of one visitor, like the path, others are fixed by the address and
user agent the visitor id is made of, like the device. `Exact` is the reference: it counts over `collected`, every event ever stored,
with no groups, joins or tables. `Daily` says *when* the job covers a day, `Reporting` what a
report says then: `covered` is the link.

### Dashboard

`Totals`, `DailyVisitors`, `BounceRate`, `ScrollDepthRows`, `HasAnyData` and `SiteActivity` are the
queries that `dashboardRoutes` makes for the overview of a range that ends today and for the sites
page. `Percent` is `formatPercent`, in tenths of a percent. `PagesAreConsistent` relates what the
page shows side by side. The queries of one page run in one callback, so they see one database;
that the clock does not pass midnight between them is assumed, since every query reads it anew.
The sites page says that a site has had no events yet also when all of them were purged.

### Tracker

`tracker` is the closure of the script: its variables and `sent`, what it handed to the browser.
Each listener is a function of that record (`Scrolled`, `Navigated`, `hide`), since a listener
runs to its end, and an action is the browser calling one. `signals` is what `shouldTrack` reads
once at load; with a reason to be silent `listening` stays FALSE and every action leaves
`tracker` alone. An address is its segments, parameters and fragment, and `sanitizePagePath`
maps it to what the server will see, so that two addresses may be one path (no new view) and one
stay may be several addresses. `views` is the visit as it really was, against which the
properties hold what was sent. `seen` stops at `pagehide`: from there the browser unloads the
page or keeps it in its cache (`Restore` brings it back).

### Storage

`disk` maps file names to databases, `wal` is `tadoru.db-wal`. `OpenDatabase`,
`ApplyMigrations` and `BindPort` are `tadoru start` in its three steps, between which every
other process may run; a server that finds no port closes again. `RestoreBegin`, `Probe` (one
candidate port after the other), `Verify`, `MoveAside`, `RemoveSidecars`, `CopyBegin` and
`CopyEnd` are `tadoru restore` by its system calls, and `RestoreCrash` may end it between any
two. `StatusBegin`, `StatusProbe` and `Inspect` are `tadoru status`: the same search of the ports,
then the database, opened and read; its totals and counts by site are separate statements in the
code and one step here. A copy or a backup cut short is a file that is not `whole`, which verification may or may
not refuse: it looks at two tables. The journal rules of SQLite are external and as the manual of SQLite
has them: commits go to the journal, the last connection to close checkpoints, a killed process leaves the journal.
From the moment a database is replaced under an open connection (`disturbed`; the case
`--force` warns of) nothing is claimed and the specification stops.

### Credentials

`env` is the sequence of lines of `tadoru.env`; a line is the variable it sets and whose value.
A hash and a salt are named after the password they were made of: a pair opens for a password
when both are its own. `loadConfig` and `resolveSessionSecret` have the names and the order of
refusals of the code; `RewriteLine` is the body of the loop in `rewriteCredentialLines` and
`keys` its two flags. `ResetPassword`, `TruncateEnvFile`, `writeEnvFile` and `PrintPassword` are
`reset-password` by its system calls (`install-service` joins at the second), and `KillCommand` may
end it after each. `RunInit` is `tadoru init`: without `--force` it stops at an existing
configuration file, but not at an existing `tadoru.env`, which it overwrites. `Start`, `CreateSecretFile` and `WriteSecretFile` are a process that loads
its configuration; `status` and `restore` do the same as `start` and then end (`Stop`), so they
write a session secret too when there is none. `shown` is the password the administrator
holds: printed by a command that ended, with nobody editing the file since. systemd is external: of two
assignments in an environment file it takes the later one, and it does not start the service
without the file.

### What a "deliberate fault" is

Definitions so marked (`OverFull`, `SweptEarly`, `LatestDay`, ...) are used by no action.
Each is a plausible bug in the definition after it; put in its place it makes the property it
is paired with in `PROJECT.json` ("mutants") fail, which shows the property says something
about the code.

## 3. Runs

| Run | Checks | Shows |
|---|---|---|
| `Ingest.cfg` | `SessionsMatchGaps`, `SessionHasOneVisitor`, `LossIsBounded`, `LedgerSpec`, `RecordsUseCurrentSalt`, `Settles` | ingestion with one request per turn is correct through failures, kills, shutdowns and rotations |
| `IngestTimerFailure.cfg` | `FailureIsSurvived` (violated) | a database error under the flush timer ends the process |
| `RateLimiter.cfg` (module `MCCollect`) | `WindowIsBounded`, `IdleIsForgotten`, `BucketSpec`, `VisitsAreRecorded`, `OwnPagesAreInternal`, `SitesMatchEvents` | sweeps, refills and a clock set back change no verdict; a visit with a token is recorded once, under the right site, client and source |
| `Scheduler.cfg` | `NoOverlap`, `NoJobIsDropped`, `StopIsQuiet`, `EveryJobRunsAgain` | slow and failing runs, `stop()` and `start()` at any moment |
| `Daily.cfg` | `ClosedDayIsRolledUp`, `SaltFollowsUptime`, `RetentionHolds`, `HealthIsHonest` | days of jobs with failures, late flushes and a restart |
| `Reporting.cfg` | `TypeOK`, `ReportsAreExact`, `HeadlineCountsPeople`, `ScrollCountsTheDeepest`, `BreakdownsAgree`, `PagesAreConsistent` | every range over closed days and today reports what was collected, with late flushes, repeated and rejected rebuilds, and purges; the parts of a page agree |
| `ReportingNull.cfg` | `CompletedDaysAreServed` (violated) | a NULL sum rejects the rebuild of a whole day |
| `Tracker.cfg` | `NothingPersonalIsSent`, `EventsNameTheirPage`, `MilestonesReportedOnce`, `LastReportIsWhole` | the listeners of one page in every order, with navigation, hidden tabs and the back/forward cache |
| `TrackerTime.cfg` | `EngagementIsVisibleTime` (violated) | the clock of a page opened in the background runs; repeated reports add up |
| `Storage.cfg` | `JournalBelongs`, `RestoredIsTheBackup`, `FileIsKept`, `ServerRunsMigrated`, `RestoreRefusesRunning`, `StatusIsHonest` | two servers, backups, restores and status on one directory, interrupted anywhere |
| `StorageWayBack.cfg` | `WayBackIsKept` (violated) | after a kill, restore deletes the journal that holds the last rows |
| `Credentials.cfg` | `ResetTakesEffect`, `OnlyCredentialsChange`, `BackupsAreKept`, `SessionsSurviveRestart` | installs and resets killed anywhere, hand-made files and edits, two processes loading the configuration |

Types are proved for `Ingest`, `RateLimiter`, `Scheduler`, `Daily`, `Storage`, `Tracker` and `Reporting`
(section 4), for the last with the primary keys of its tables, which its run checks; in `Credentials`
`TypeOK` says what the state looks like, and holds when added to the cfg. `EveryRowOnce`, `FlushArmed` and `OutcomeIsReported` are proved for
every instance and have no run. The four violated properties are sentences of the repository
(specifications or comments) that the code does not keep; the "findings" of `PROJECT.json` quote
them.

Smaller divergences are in the models and can be seen in them, without a run of their own:

* a restart begins the 24 hours of the salt anew (`SaltFollowsUptime` says what does hold, while
  `specs/visitor-identity/spec.md` asks for a new salt every 24 hours);
* two processes that load the configuration at once generate a session secret each (`raced` in
  `Credentials`), although `config/Config.ts` says it is generated once;
* two requests of one turn (`TurnSize = 2`) may open a session each;
* a request that `close()` still serves is buffered after the last flush and lost;
* a gap of exactly the inactivity window opens a session when the first event had a fraction of a
  second (`TicksPerSecond > 1`), since stored seconds are compared with milliseconds;
* a pixel's limiter key may hold its page's path, a `Referer` with ".." is refused, and a trailing
  dot makes an own page a referrer (`Collect`);
* `status` loads the whole configuration, so it reads the session secret and writes one when there
  is none, although its specification says that it never reads it (`Credentials`);
* `init` overwrites an existing `tadoru.env` without `--force`, and leaves its mode as it was;
* `backup` looks in `TADORU_DATA_DIR` itself, not in the data directory of a configuration file,
  which `start`, `restore` and `status` use; the models have one data directory.

### Bounds, and why they are enough

* `Ingest`: two clients are enough for one to disturb the other; a buffer of two has both the
  non-flushing and the flushing push; four events fill it twice; a window of one second with
  three clock readings has gaps inside, at and beyond the window; two salts allow a rotation;
  one failure, one kill and one shutdown each, in any order and with restarts. One request per
  turn (`TurnSize = 1`) is the ordinary case, in which `SessionsMatchGaps` holds. The theorems have no such limit.
* `RateLimiter` with `Collect`: one token and two ticks to refill it have empty, partial and full
  buckets; the TTL is the smallest `LimiterAssumption` allows, so the sweep is as early as it can
  be. Two calls are the first and one that meets its bucket again, with a set-back between them.
  The limiter's properties are proved for all constants, and the run only confirms them. `MCVisits`
  has one visit for each case of the handlers, and two visits in a row let the second find the
  site, the token and the row of the first.
* `Scheduler`: intervals of one and two ticks make timers meet and part; five ticks and two
  starts allow a run to survive `stop()` and be overtaken by the second `start()`.
* `Daily`: a day of two ticks separates hourly from daily jobs; eight ticks are four days, more
  than the retention (five ticks, of which the calendar may take `Slip`, one) plus the purge's
  interval; three failing runs make `streak = 3` reachable; one restart. `DayLength` is not 24: the
  properties tell apart only "the rollup job runs several times a day" from "once a day".
* `Reporting` and `Dashboard`: three days have two closed days and today in one range; three events
  of two visitors give a path shared by visitors, a visitor on two paths, a second pageview that
  ends a bounce, and a NULL sum; one event waits for a flush over midnight. The retention is two
  days, the least the assumption allows, so the purge cuts as close to the rebuilt day as it can.
  `Deepest` (2) stands for a depth of 100%, and `TrailingDays` (1 and 3) for the ranges of the
  dashboard: today alone, and one with closed days.
* `Tracker`: two seconds' worth of half-second ticks have times that round up, down and to zero;
  four addresses are one path twice and another twice, with and without parameters and
  identifiers; three offsets on two heights (one of them with nothing to scroll) skip and repeat
  milestones; five events are two views with their milestones or three with engagement. Each
  reason for silence is tried alone, beside a measured page and one opened in the background.
* `Storage`: two servers race to migrate, to bind and to close last; a release with one migration
  more than the installation; two ports, the first of which another program may hold; two
  commands and two faults allow a restore that is killed, and another after it, on the journal
  of a killed server. Servers are symmetric: they differ in nothing but their name.
* `Credentials`: two processes race for the secret, or one restarts; two commands are a reset on
  what a killed one, an install or an edit left, in the same second or a later one. The hand-made
  files are the example of `deploy/`, one of an earlier release and one part-way through the
  migration; the lines written by hand are half a pair, placeholders, empty values, examples and
  plaintext, beside a configuration file with a password or none.

`MaxNow`, `MaxTime`, `MaxEvents`, `MaxOpen`, `MaxSalt`, `MaxFaults`, `MaxKills`, `MaxSignals`,
`MaxCalls`, `MaxRows`, `MaxStops`, `MaxStarts`, `MaxDay`, `MaxBuffered`, `MaxSent`, `MaxViews`,
`MaxShift`, `MaxVisits`, `MaxEdits` and `MaxCommands` exist only to bound TLC and stand in guards.
`Daily` has `CHECK_DEADLOCK FALSE` because its clock ends at `MaxTime`, when everything due has
run; so have `Tracker`, whose page ends when it is left for good or the bounds are reached, and
`Storage` and `Credentials`, where all processes may be down for good. The other models check for deadlock.

### Fairness

`FairSpec` of `Ingest` assumes weak fairness of the continuations (the engine always drains its
microtasks) and strong fairness of the flush timer (libuv serves a due timer on every turn; it
is only intermittently enabled because continuations run first). Nothing is assumed of clients,
kills, signals, jobs or failures. `Settles` needs both.

`FairSpec` of `Scheduler` assumes that time passes (`Tick`), that the event loop serves the timer
of each job once it is due (`FireFor`), and that each run settles (`SettleFor`): what a job awaits
are synchronous database calls, so no run waits for another. `start()` and `stop()` are
free. `EveryJobRunsAgain` needs all three; no other property needs fairness.

## 4. Proofs

The theorems hold for every value of the constants that the named assumptions allow. Every
proof is checked to the last leaf.

* **`IngestProofs`.** `TypeCorrect` is inductive by itself. `BufferIsGuarded` needs only it.
  For the refinement `IngestImplementsLedger` the invariant `LedgerInv` says that the ids in
  flight, stored and lost are disjoint and below `nextId`, that no list holds an id twice and
  that continuations and buffer share none; without the last part a batch could move an id
  that a continuation still owes. Each action then maps to `Take`, `Drop`, `Store`, `Lose` or
  a stutter. `RowsAreUnique` and `EventsHaveOneFate` follow.
  `SessionsHaveOneVisitor` extends this invariant with claims: a session id is the id of the
  event that opened it, and all who carry it, in the queue or in the log, are of one visitor.
  It holds for every `TurnSize`: pipelining may split a session but never join two visitors.
  `SaltsAreCurrent` rests on `SaltInv`: whatever is in the queue was made of the salt of the day,
  since a rotation is a macrotask. `LossesAreBounded` rests on `LossInv`, an account: each fault,
  kill and signal pays for at most one batch, and a signal pays only once its shutdown has
  ended; the handlers of one turn are at most `TurnSize`, so memory never holds more than a batch
  and a turn.
  `SessionsFollowGaps` is about the case in which sessions are right: one
  request per turn, and clocks of whole seconds. `GapInv` says that the log, table and buffer in one,
  is a chronicle (times never fall, and each event follows, by the rule of gaps, the last one of its
  visitor before it), and that a continuation past its look-up still would follow it. With one request in
  the queue nothing can come between its look-up and its save, which is where `TurnSize = 1` enters.
  That `Lookup` finds the latest event, in buffer or table, is `FoundIsLatest`.
* **`CollectProofs`**, the limiter. `IInv` adds to the checked invariants how far below zero a bucket
  can be after set-backs (`Owes`) and that admitted tokens and the present level come from
  burst and time (`Accounted`). `LimiterAssumption` (the TTL is at least a full refill plus
  the set-backs) gives `SweptIsFull`: what the sweep forgets is full, hence
  `LimiterImplementsBucket`. The shipped limiters keep it by nine minutes.
  A request of the routes is a step of the limiter or leaves it alone, so that `CollectIsLimited`
  carries the refinement over to the composition.
* **`CollectProofs`**, the routes. `CollectIInv` says that what is pending are the events of the
  measured among the visits heard, one for one, and that the tables of sites and rows fit each other.
  `HeaderOfVisit` and `InputOfVisit` say what is left of a visit after its headers, and
  `RecordedVisit` that the server records it exactly when it is measured; a flush keeps the
  tables by induction over the batch. `VisitsRecorded` and `OwnPagesInternal` are then about
  a single event, and `SitesMatch` about the tables. `VisitsAssumption` says that an address is
  shaped like one and that NULL is none of the values it stands for, `SitesAssumption`
  that an operator lists sites, not files, with one "www." at most: `SiteId` takes one away each time it
  is made, so that a site with two would not match its own pages.
* **`DailyProofs`**, the scheduler. `SchedulerInv` adds `HandleIsTimer`: the one handle per job is
  the job's pending timer, so cancelling the handles cancels everything. That, with "pending or
  running, never both", is inductive for the jobs that no `start()` overtook. These proofs cite
  `SchedulerAssumption` alone, so they hold for every set of jobs.
* **`DailyProofs`**, the jobs. `DailyInv` keeps an account of each job: a process that is up has exactly one
  timer or run of it, due one interval after its last success (or the start) for each failure since,
  and one more (`Owed`). From it follow the ages of salt and rows (`SaltIsRenewed`,
  `RetentionIsKept`), and both directions of `HealthTellsTheTruth`. `RollupInv` adds that a rollup run
  after the first tick of a day found all of yesterday, and that without an outage such a run falls
  on every day; `ClosedDaysAreRolledUp` needs the day to be longer than the interval of the job, and
  the retention to leave the day in the table, as `DailyAssumption` says.
* **`StorageProofs`.** `IInv` ties files to the steps of a restore (`FilesFit`): nobody has the
  database open while it is replaced, from the removal to the copy there is no journal, and at all
  other times the journal is that of the live file and holds at least its rows. `JournalIsItsOwn` follows.
  `PortsFit` (a server has a port exactly while it is up, none has another's), `MigrationsFit`,
  `SourceIsKept` (what was verified is still there) and `NothingIsLost` (every row that reached a file is
  in some file) are inductive on top of it. For the searches of ports, `SearchFits` and `LookFits` say
  that a server that has been up all the while sits at a port not yet tried: servers keep their port, and
  the commands try them in order. All is claimed until `disturbed`; `NoJournalAssumption` only says
  that NULL is no journal.
* **`CredentialsProofs`.** `BackupsSurvive`: a command copies before it replaces, and never onto a
  copy that is there. `SecretInv`: as long as no two processes generated a secret at once, all who were
  not given one have the stored one, and nobody replaces it; hence `SessionsSurvive`.
  `ResetEffective` and `OnlyCredentials` rest on `ResetResult`: `rewriteCredentialLines` is
  followed line by line (`Rewritten`): the other lines so far are those of the file, each key is
  put at most once, and the first one lies where the first credential did. `PasswordInv` adds
  that a command shows nothing while the file is being replaced, and that what was written last
  accepts its password, whatever `tadoru.config.json` holds. `FilesAssumption` says that a generated
  password is neither one of the published examples nor malformed, and what a line is.
* **`TrackerProofs`.** `IInv` relates the log of what was sent to the views of the page (`Kept`):
  as many page views were sent as there are views, each event belongs to the view that was current, the
  milestones sent for a view are those up to its deepest point, and a view that was left has reported
  its time. `Timed` says that the timer has counted what was visible of the current view. Each listener is
  a page view, a batch of other events or nothing (`PageKeeps`, `BatchKeeps`), and the
  order of a navigation (the old view's report, then the new view) is what keeps `Whole`. The
  properties follow in the order of the module. `PageAssumption` types the addresses and the signals
  of a browser.
* **`ReportingProofs`.** `IInv` says where rows come from (`TablesBuilt`): for each closed day there is
  one set of that day's events from which all tables of the day were made, by one run that was accepted;
  and it is the set of all of them once a run has covered the day and none of its keys is unaccountable
  (`Source`). A flush into a closed day keeps this because it takes the day out of `covered`; a purge,
  because the retention is longer than the day the job looks back on (`RowsRetained`). A
  run that a NULL rejects leaves the old rows of all tables: `RejectedIsUnaccountable` says that this
  happens on unaccountable days only. `CopiesNumbered` is bookkeeping: a collected event is new.
  `SourcesExist` then reads any range, closed days and today alike, as rows made of sets `F[d]`, and what
  is left is arithmetic on them. `KeyMerged`, `RangeMerged` and `RangePeople` turn
  a report into sums over days: that a visitor has one device is where `RangePeople` needs a dimension
  that never varies, and the reason why the headline adds up devices and not paths. `ReportsAreAlwaysExact` compares
  these with the count over all events, row by row (`ExactIsAggregate`); `HeadlineAlwaysCountsPeople` and
  `ScrollAlwaysCountsTheDeepest` count sets of pairs and of milestones, day by day and session by session.
  `BreakdownsAlwaysAgree` needs no day to be covered: both sides are sums over the same `F[d]`.
  For `PagesAreAlwaysConsistent` the parts of a page are compared day by day (`BouncesAreSessions`,
  `ScrollersAreSessions`, `DepthIsAtMost`) and `SumCompare` carries it to the range.
  `ReportingAssumption` says that a hit is of one of the three types, that its value is a number or
  absent, that a visitor has a device, and that the retention is two days at least;
  `DashboardAssumption` that no scroll is deeper than the last milestone.
* **`FoldProofs`**, sums. `SumRemove` takes one element out of a sum, whichever the fold took first; with
  it sums are compared (`SumCompare`, `SumSame`), joined (`SumJoin`), split into parts
  (`SumParts`) and renamed (`SumRenamed`), and a cardinality is a sum of ones (`SumOnes`, `CardParts`).
* **`FoldProofs`**, folds. A fold of the community modules is a recursive function on the subsets of a
  finite set. `FoldExists` and `FoldLeftExists` say that there is such a function, so that its
  equations may be used; `SubsetInduction` and `PrefixInduction` are the inductions they need, from the
  least element of a set of numbers. `SelectIn` is a fold for that reason: `SelectSeq` of the standard
  module cannot be expanded in a proof.

Every safety invariant, action property and refinement that a passing run checks is stated by one
of these theorems. Only model-checked are `Settles` and `EveryJobRunsAgain`: liveness, and with it
`ENABLED`, is outside the prover's reach. The four violated properties are TLC's alone.

## 5. Not modelled, and why

* Payload without control: countries, devices, languages, titles and the properties of custom
  events. Referrers, sources and screens are in `Collect`.
* SQLite's own durability: a committed transaction stays. With WAL and `synchronous = NORMAL`
  a power failure may roll back the last commits; `Kill` is the death of the process, not of
  the machine.
* In `Ingest` and `Daily` the clock does not go back. The retention is counted in ticks; what
  `setUTCMonth` does to calendar months is `Slip`.
* In `Storage`: what happens after a database was replaced under an open connection; power
  failures; a full disk. `--dry-run` is a `Verify` after which the command goes no further.
* `update-geoip`, which runs the updater of a dependency on that dependency's data files; the resolvers,
  which look up in them; the texts of the interface; building the tracker's bundle.
* In `Tracker`: delivery, since a lost request is seen by nobody; the sum of the reports on the server is the
  one fact about it that is used.
* In `Credentials`: an editor at work during the milliseconds of a command; the login rate limit
  (see `RateLimiter`); of the configuration only what decides about the credential and the secret: host,
  sites, language and retention are read once and change no state.
* In `Collect`: addresses are taken apart already, so nothing is said of URL parsing; a host with two
  leading "www." is out of bounds (`SiteId` takes one away each time it is made).
* In `Dashboard`: markup, and a page whose queries read the clock on both sides of midnight.
* `Reporting` is for one site and for whole days, the unit of `TimeRange`. A bounce is what the
  code counts, one pageview in a day's part of a session: the engagement threshold that
  `specs/reporting/spec.md` mentions does not exist in the code.
* Between midnight and the first rollup run of the day, reports lack yesterday; `ReportsAreExact`
  starts with that run.

## 6. Plan

1. Done: `Ingest` with `EventLedger`, `RateLimiter` with `TokenBucket`, `Collect` on top of it,
   `Scheduler` and `Daily`, `Reporting` and `Dashboard`, `Tracker`, `Storage`, `Credentials`, their
   runs, and the theorems about all of them.
2. Left, in the order of what it would show: the link between `Daily` and `Reporting` as a theorem (the
   days that `Daily` says are rolled up are the `covered` days of `Reporting`); the remaining fields of
   the configuration as a precedence of layers; several sites in `Reporting`; a durable and a
   volatile part of the journal, for power failures.
