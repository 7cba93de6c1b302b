# Verification of drogon-api-starter

TLA+ models of the service in this repository, the configurations with which TLC
checks them, and theorems about them that TLAPS proves. Paths below are relative
to the repository; `ErrorReporter.cc` is `observability/ErrorReporter.cc`, and
so on.

`PROJECT.json` lists the components, the runs with their properties, the
mutants (changes to a definition, as a plausible bug would make them, under
which a property must fail), the source lines that each definition stands for,
the hazards of the code, and the theorems.

## 1. The system

A C++ HTTP service on Drogon: request (IO) threads run the handlers, a main
event loop runs timers and signal handlers, PostgreSQL holds users, roles and
permissions, Redis optionally caches lists, and several replicas of the process
share both. Shell scripts migrate and seed the database.

| Component | State it keeps | Operations | What makes it correct |
|---|---|---|---|
| Error reporter (`ErrorReporter.cc`) | queue, `timerId_`, the batches under way | `captureException`, `flushQueue`, `deliver`, `flush`, timer and HTTP callbacks | no event is stranded; queue, batches and attempts are bounded; every batch is settled; the flush at a shutdown takes what was captured before it |
| Circuit breaker (`CircuitState`) | failures, `openUntil`, `probeInFlight` | `allow`, `success`, `failure` | open exactly from the threshold to a success; one probe, unless another batch's answer comes during its delivery; never wedged |
| Metrics and trace context (`Observability.cc`) | ten atomic counters; two attributes of a request | `record…`, `prometheus`, `requestId`, `traceparent` | counters account for every event, also between two of their atomics |
| Reporter configuration (`Observability.cc`, `ErrorReporter.cc`) | the configured reporter, the providers | `configure`, `configureErrorReporter`, `registerErrorReporterProvider` | what the configuration asks for runs; otherwise a no-op |
| Application configuration (`config/AppConfig.cc`) | the `AppConfig` | `findEnvFile`, `load`, `fromValues` | environment before `.env`; every setting in its range |
| Rate limiter (`RateLimiter.cc`, `main.cc`) | a deque of time stamps for each key | `allow` | at most the limit in a window; no refusal without reason |
| List cache (`cache/RedisCache.cc`, both controllers) | lists in Redis with a time to live | `get`, `set`, `erase`, `erasePrefix` | writes that are answered as done invalidate; staleness is bounded whatever fails |
| Services and pagination (`services/`, `pagination/`) | rows | list, find, create, update, delete; `offset`, `hasNext` | a walk over the pages shows what is there; answers are true |
| Handlers (`UserController.cc`, `RoleController.cc`) | the member `client` | ten handlers, `connect` | each request takes effect once and is answered once, for what it did |
| Migrations (`scripts/migrate.sh`, `docker-migrate.sh`) | `schema_migrations`, an advisory lock | the loop over the files | each file once, in order, recorded exactly when applied; runners serialize |
| Seeds, create-tables (`scripts/seed.sh`, `tables/`) | reference rows; tables of an older shape | `create`, `_delete` | a run that lost no connection leaves every table but one that a deadlock took; what is recorded is complete |
| Authentication (`AuthController.cc`, `AuthFilter.cc`, `helpers/`) | none; reads `.env` each time | log in, verify | one answer each, right at one moment of the request |
| HTTP server and routes (`main.cc`) | the counters; the id of a request | three advices, `/health`, `/ready`, `/metrics` | scrapes that agree; of what the limiter lets in, counters that add up and the same id in log and answer |
| Lifecycle (`main.cc`) and gRPC health (`grpc/GrpcServer.cc`) | server, waiting thread, timers | start, stop, signal handlers | the process stops, cuts no call off, and the waiting thread has its server |
| ORM models (`models/`, generated) | fields and dirty flags | constructors, setters, `updateByJson`, validation, insert, update, JSON | what was asked for is written, nothing else |
| Project generator (`scripts/drogon-starter`) | a directory tree | `init`, `enable` | a failure leaves nothing half made |

Interactions: the advices in `main.cc` call the limiter and the metrics for
every request. A handler calls its service, the service the database, and the
controller the cache before and after it. Applications call
`captureException()` on a request thread; the reporter leaves timers and
requests in the event loop, whose callbacks call back into it; every delivery
calls the shared breaker and the metrics. The signal handlers run in the same
loop and call gRPC's stop and the reporter's flush, then arm the timer that
quits. Replicas meet only in PostgreSQL and in Redis. Migration runners meet
only in PostgreSQL.

What is hard here: threads between two critical sections of the reporter;
answers of deliveries that come after the breaker has changed its state; time
stamps read before a lock; reads and invalidations of a cache that pass each
other; failing Redis commands and crashing replicas; migration runners that
crash, fail and start again; processes that make the same tables, and whose
references lock them in different orders; statements that commit while their
result is lost; dates that pass through clocks of several zones; signals that
come during the work of another signal's handler; rows, keys and clocks that
change between two reads of a request; a `shared_ptr` that threads assign
without a lock; and values that are validated in one place and read anew in
another. Each is a hazard in `PROJECT.json`, at its line.

## 2. Modules

    CircuitState ── ErrorReporter ── MCErrorReporter
    EventExport ────┘    └─── ErrorReporterProofs
    RateLimiter ── LimitedPipeline ── LimitedPipelineProofs
    HttpPipeline ──┘
    ListCache ── ListCacheProofs
    ListWalk ────┘    └─ MCListWalk (of ListWalk)
    SchemaEvolution ── Migrations ── MigrationsProofs
    RestResource ── Resources ── ResourcesProofs
    ModelRecord ── Records ──────┘    └─ MCRecords (of Records)
    Lifecycle ── LifecycleProofs
    Configuration ───┘    └─ MCConfiguration (of Configuration)
    Schema ── SchemaProofs
    Sessions ── SessionsProofs

**CircuitState** is `struct CircuitState` as operators on a record; its member
functions run under its mutex, so each is one atomic step of its caller. The
deadline is kept as what `allow()` can tell about it: unset, future or past.

**ErrorReporter** is `HttpErrorReporter`. A thread holds no shared state
between two critical sections, so `pc` names the critical section that it
enters next: `flush` is the queue's in `flushQueue()`, `admit` the breaker's,
`deliver` the first `deliver()`. The counters are atomics without a lock: a
thread is at `count` before the batches and at `size` before their events, at
`rejected` before `circuit_open` and at `dropped` before the last (242-245), so
that others may come between any two. A batch goes through taken, counted,
admitted, sending, backoff and so on; its retries and responses are callbacks
of the event loop, which runs one callback at a time (`LoopIdle`). Timers that
a flush forgets stay pending in the loop, as in the code. `Signal` and `Quit`
are the handlers of `main.cc`. Events are numbers, payloads are left out but may
fail to build (`BuildThrows`). Nothing relates the breaker's pause to the time a
delivery takes: it may end at any moment. `overtaken` is history: the probes
during whose delivery another batch's answer reached the breaker.

**EventExport** is what the reporter promises: accept into a bounded queue or
discard at a full one, export the whole queue, settle each export once.
`ErrorReporter!ImplementsEventExport` maps the queue to what waits, batches
that are taken or in flight to exports, and the rest to what is given up.

**RateLimiter** is `allow()` with the clock read before the mutex: `Arrive`
samples it, `Admit` and `Refuse` are the critical section. `MaxDelay` bounds
how long a thread waits in between. `log` is history.

**ListCache** is one resource (users or roles) with its table, its keys in
Redis and the handlers of several replicas. The content of a list is the
number of committed writes it contains (its version). Every Redis command and
every query is a step. From `Degrade` on, any command may fail (the code logs
and goes on) and any replica may crash between two steps; properties that need
a working Redis have `~ failing` as a premise, the others hold on. A statement
may also commit while its result is lost, with its connection or by a time-out:
then the handler answers an error and never comes to `erasePrefix()`
(`ResultLost`), although Redis works. `age`, `racy` and `lost` are history, the
last only while Redis works. A write that the database refuses changes nothing
and is left out; so is what a write answers.

**SchemaEvolution** and **Migrations**: the abstract log of migrations in the
files' order, and the runners that implement it. One psql process runs one file
in one transaction; what it did becomes visible at `Commit` and is undone by
`Rollback`. A release is an initial segment of the files. A runner may fail at a
statement (`RunFails`) or go away anywhere (`Crash`), and start again. The
database may or may not have `schema_migrations`; creating it is not under the
lock, and of two runners that do so at the same time one may fail
(`CreateCollides`). The INSERT's behaviour under the primary key is in `Record`,
although the lock should make it needless: that is what NoCollision says.

**ListWalk** is a client that follows `has_next` from any page, with the
two statements behind each page (`Count`, `Find`) and rows that are created and
deleted between any of them. `Created` gives
each row its time, which others may share; the order of those is the database's
choice at every `Find`. Integers are as wide as `MaxInt` says;
a product that overflows is either wrapped or computed in a wider register.

**Configuration** follows one process from `.env` and the environment to the
reporter that runs. One setting stands for all that are
read by the same function. Texts are numbers or model values; a duration counts
units, of which `Resolution` make the microsecond that `std::to_string()`
keeps.

**ModelRecord** is one object of a generated model class. The five classes of
`models/` repeat the same functions column by column; a function here takes the
class as a record of its columns, keys and limits, and what the functions of the
code do to each column in turn is said of all columns at once. An object is the
contents of its fields and the set of its dirty columns, as in the code.
Conversions are what they do. A date is a second and its microseconds; what
PostgreSQL writes and reads is the clock of its session, what the process writes
is its own local clock, and neither carries its zone (`Session`, `FromSession`,
`Local`); reading takes a clock for one of the process without summer time
(`Mktime`, for `tm_isdst` is 0). A fraction loses its zeros when it is read from a
row (`WithoutZeros`, five at most). At local midnight (`Midnights`) the text is a
date alone, which is not read at all. The zones are constants, any functions
between seconds and clocks. No code of the repository calls the JSON functions
and the validation: they are what the handlers that a user of the starter adds
will call.

**Records** is several handlers with an object each and one table: they build an
object, from a row or from JSON (with or without a masquerading vector),
validate, set, insert and update, in any order. What PostgreSQL refuses is in
`InsertRefused` and `UpdateRefused`. What is relied on of the classes and their
tables is `ClassesAssumption`: `IsClass` is what the generated `metaData_` and
`insertColumns` say, `IsTable` what the initial migration does. `asked`, `unheard`, `hidden` and `checked`
are history: what each client has asked for since its object was made. MCRecords
has one class of each kind of key of the five: a generated id (users, roles,
permissions), a composite key (role_permissions) and no key
(user_permissions). Its clocks are of six hours, with two of summer time and a
midnight. `Kept`, `Misread` and `LostInJson` say which dates come out of the table, of
a row and of JSON as others. The services use a small part of this; the rest is there
for the handlers that are added to the starter.

**RestResource** is what the handlers of a resource promise: a request takes
effect at most once, at one step between its arrival and its answer, and the
answer says whether it did. **Resources** is the handlers: `connect()` with the
member that nothing protects (`Check`, `AssignBegins`, `AssignEnds`; `Race` is
the undefined behaviour, of which the end of the process is the outcome that
can be seen), the validation, the one statement, and `StatusOf` with the answer
of every handler to every outcome, the framework's 500 for exceptions that a
handler lets out included. A lost result (`ResultLost`) is a statement that ran
and an answer that says it failed. `ImplementsRest` maps a request turned down
for its body to one that failed.

**HttpPipeline** is a request around its handler. `RateLimited`, `PreRouting`
and `PostHandling` are the three advices in the order in which the framework
calls them; `CountResponse` and `CountError` are two steps, because two atomics
are moved, and so are the three loads of a scrape. Whether the framework sends
an answer of its own (401, 404, an exception's 500) by the post-handling advice
is left open: both are possible. `Own` are the requests that bring an id of
their own. `before` is history.

**LimitedPipeline** is RateLimiter and HttpPipeline together, as `runServer()`
registers them. A request is a thread of the limiter's: `Asks` is its arrival,
`LetIn` and `TurnAway` are `Admit` and `Refuse`, and what `TurnAway` refuses is
`RateLimited` in the pipeline; `passed` are the requests between the two advices.

**Lifecycle** is the process from `main()` to its exit. `main` is where the main
thread is; `Stop` and `Destroy` are the two calls of `GrpcServer::stop()`, from
a signal's handler and from the destructor, each in four steps (shut down, wait,
join, reset), because the waiting thread reads `server_` meanwhile. A signal
before its handler is installed ends the process; the loop runs one handler at a
time, and two signals of a kind that wait are one (`raised`).

**Schema** has the processes that make tables, over the shape of each table:
`Make`, `Wait`, `CommitTable` and `Refused` are what CREATE TABLE IF NOT EXISTS
does when another transaction is making the same table. `Refer` is a REFERENCES: it
takes a lock on the table it points to, which only one transaction can have, up to
the end of that transaction (`holder`, `linked`). For create-tables each table has a
transaction of its own and every failure is caught (`Fails`, `EndCreate`); the
migration is one transaction that stops at the first failure. Processes that wait
for each other in a circle are `Deadlocked`, and any of them may be the
`DeadlockVictim`. Migrations has the lock, so here there is one migration at a
time. `whole` is history: the runs that had the extension and lost no connection;
so is `victims`, those of which a deadlock has ended a statement.

**Sessions** is logins and the filter, read by read: a login reads the rows of an
email, checks a password against what it read and signs; the filter reads the
key and then checks the token and its time. Between any two steps users are
written and deleted, the key changes, `.env` goes or comes, and time passes.
`right` is history: what would have been the right answer at each moment of the
request.

### How they go together

ErrorReporter contains CircuitState and is checked against EventExport;
Migrations is checked against SchemaEvolution and Resources against
RestResource; Records composes ModelRecord with a table, and LimitedPipeline the
limiter with the pipeline. The others meet in one variable at a time, which each
abstracts: Resources answers a list as if there were no cache, whose part
ListCache has; Lifecycle has the flush as one step, of which ErrorReporter has
the rest; Sessions lets `key` change at will.

## 3. Runs

| Run | Instance | Shows |
|---|---|---|
| reporter | 2 request threads, 4 captures, batch 2, queue 4, 2 attempts, threshold 1, pauses of any length, payloads that may fail to build | NoStrandedEvents, BatchesBounded, OneProbeUnlessOvertaken, ShutdownFlush, MetricsBalance |
| reporter_live | 2 request threads, 3 captures, batch 2, queue 2, 2 attempts, threshold 2, pauses of any length, fairness | ProbeFlagOwned, ImplementsEventExport, QueueDrains, BatchesSettle, CircuitRecovers |
| pipeline | 3 requests of any kind, 1 with an id of its own, limit 2, window 2, delay 1, 3 ticks | WindowBound, RefusalJustified, ScrapesAgree, AdmittedAreTraced |
| cache | 1 list, 2 writes at a time, 2 pages, TTL 2, delay 1, 2 changes, lost results, failures from `Degrade` on, fairness | StalenessBounded, StaleOnlyByRace, EventuallyFresh |
| migrations | 3 runners, 3 files, 3 runs, a new or an old database, fairness | RecordedIffApplied, MigratedWhenDone, ImplementsSchema, RunsEnd |
| walk | 4 rows, two of them of one time, page sizes 1 to 3, from any page of a 4-bit int | QuietWalkIsExact, SkipsNeedWrites, RepeatsNeedEarlyRows |
| configuration | every `.env` with up to two settings, environments with up to one | ReporterRunsAsConfigured |
| records | 2 clients with 3 and 2 calls, 3 classes of 3 or 4 columns, 3 to 5 JSON objects each, six hours, two of them summer time, one at midnight | ValidatedNeverThrows, JsonRoundTrips, UpdatesAsAsked, RefusalsExplained, InsertsAreAnswered |
| resources | 2 threads, 1 row, users and roles, with and without a database client, fairness | WritersComeFirst, ImplementsRest, Answered |
| lifecycle | 2 gRPC calls, 3 signals, fairness | WaiterHasItsServer, NoCallIsCut, SignalEndsProcess |
| schema | 2 processes of create-tables, 1 migration, 4 runs in all, failing connections | RecordedIsComplete, CreateTablesCompletes |
| sessions | 2 requests, 2 users, 2 emails, 2 passwords, 2 keys or none, life 1, 3 times, 2 writes, fairness | RightAtSomeMoment, Answered |

The type invariant of each module, CircuitCoherent of the breaker, NoCollision of
the migrations and AnsweredOnce of the sessions are proved and not among the
runs.

Why the bounds are enough. Two request threads and the loop are the smallest
number at which a capture, a flush and a timer overlap, and three captures the
smallest at which a second batch is under way while the first is answered. With a
threshold of 1 and two attempts every failure opens the breaker, so that within
four captures it opens, pauses, probes, closes and reopens while batches from
before are still out; with a threshold of 2 it counts as well. A batch of three
events, one more than its size, and a full queue are reached in one run each.
In ListCache only the first missing write matters to a list, so two changes give
every order of a read, a commit, an erase and a store, and two writes at a time
erase the same keys in every order; either change may lose its result. In
Migrations three runners cover a holder of the lock, a waiter and one that
crashes, and three runs one attempt of each or a second and a third of one. In
ListWalk four rows make up to four pages, the two of one time stand on one page or
on both sides of its end, and products of 7 and 3 overflow an int of four bits. In
Records a client with three calls reads or builds, changes and writes; the other
with two does so in between; a fourth call shows nothing new of JSON but the mixes
that JsonRoundTrips is about. Six hours hold two that
the clock shows alike, a midnight and plain ones, and one clock no hour has. In Resources two threads are a
writer and a reader of `client`, and two requests on the one row each other's
past; other rows are not touched. In LimitedPipeline a limit of 2 makes the deque
hold two stamps, of which the later admitted is the older when its thread was late;
the third request then finds both, one or none of them fresh within three ticks.
Two scrapes and a request between them are what ScrapesAgree speaks of. In
Lifecycle three signals are one under way, one that waits and one of the same kind
that is merged, and two timers. In Schema four runs are a run of each process, at
once, and one more that comes to tables that these left half made; two processes
of create-tables and a migration are the circles there can be. In Sessions two
writes change a row and the key, or the key there and back, within one request.
The proofs remove the bounds for the properties they cover. `MaxEvents`,
`MaxTime`, `MaxWrites`, `MaxRuns`, `MaxSignals`, `MaxClock` and `Calls` (of Records) are the bounds on counters; runs
are made with CHECK_DEADLOCK FALSE because each model stops when its bound is
reached, the process has quit or a walk is done.

Numbers are scaled: 65535 and 3600 are edges that matter to comparisons only;
the 10 attempts are 10. Symmetry is used over threads and requests, which no
property singles out, and never with liveness (RefusalJustified speaks of single
steps, of all threads alike).

### Seen while modelling

What the code does and a reader of its documentation may not expect. All of it
is kept in the models; the first seven are why properties are stated as they are.

* A late answer of a batch that is not the probe clears `probeInFlight` and lets a
  second probe out (`ErrorReporter.cc:64`), whenever the circuit's pause is shorter
  than a delivery, which nothing excludes. OneProbeUnlessOvertaken says that this
  is the only way.
* `observability_batches_sent_total` counts batches that an open circuit rejects,
  and `observability_events_dropped_total` ("dropped due to queue pressure") one
  for each of them, whatever its events and the queue (`ErrorReporter.cc:242-245`),
  although `OPERATIONS.md:81-87` reads them as deliveries and queue pressure. MetricsBalance states what they do count.
* The 429 of the limiter has no X-Request-ID and no traceparent and is in no HTTP
  counter, for it ends before the advices that make them (`main.cc:257`), although
  `README.md:310`, `OPERATIONS.md:94` and the HELP text of `http_requests_total`
  speak of every request. AdmittedAreTraced is about what the limiter lets in.
* A list read before a write may be stored after its invalidation, and is then
  cached until its time to live ends (`UserController.cc:54`); and a write whose
  result is lost invalidates nothing (`UserController.cc:124`). StaleOnlyByRace
  says that nothing else escapes while Redis works.
* Rows with equal `created_at` may move between the pages of a table that
  nobody writes (`UserService.cc:20`): one is shown twice, another never.
  QuietWalkIsExact says that a place still shows a row of the time that belongs
  there; the other two properties of walks are about rows of a time of their own.
* Dates are clocks without a zone on every way. Where the zone of the session is
  another than that of the process, or in summer time, a row is read hours off and
  a date is written hours off (`Users.cc:79`); a fraction whose last digit is 0 is
  read as another (`Users.cc:87`); a date at local midnight is not read back from
  JSON (`Users.cc:1299`). These are the exceptions `Misread`, `Kept` and
  `LostInJson` in the statements of InsertsAreAnswered, UpdatesAsAsked and
  JsonRoundTrips.
* create-tables makes user_permissions before role_permissions (`main.cc:50`), the
  migration after it (`001_initial_schema.sql:37`). Each REFERENCES locks its
  parent for the rest of the transaction, so the two may deadlock; if create-tables
  is the victim, `create()` logs it and goes on, and if the migration then rolls
  back, a run that exits with 0 has left no user_permissions. That is the exception
  in CreateTablesCompletes (`victims`); the theorem says that no other table can
  be lost so.
* On a new database create-tables makes nothing and exits with 0, for the
  extension is not there (`main.cc:37`); CreateTablesCompletes is about runs that
  had it.
* Where create-tables came first, a migration is recorded and the seeds fail all
  the same, because the columns differ (`RoleTable.cc:15`); RecordedIsComplete
  is about tables being there.
* Tokens are signed with the key of `.env`, read anew each time, and not with
  the one that the environment overrides (`Env.h:57`).
* A GET of an id that is not there is answered with 500, not 404:
  `findByPrimaryKey()` throws before the handler can see that there is nothing
  (`UserController.cc:88`).
* A probe whose payload cannot be built leaves `probeInFlight` set for ever
  (`ErrorReporter.cc:258`; `BuildFails`). ProbeFlagOwned and CircuitRecovers are
  therefore checked, and the first proved, for payloads that can be built
  (BuildThrows is FALSE in the run reporter_live).
* A late success closes the circuit before its pause is over
  (`ErrorReporter.cc:53`).
* The limiter's key is address and port, not the client's address
  (`main.cc:263`).
* Updating a row that does not exist is answered with 200
  (`UserService.cc:78`).
* Two runs on a new database may collide on creating `schema_migrations`, before
  the lock (`migrate.sh:25`); NoCollision, which is proved, is about what the lock
  protects.
* `offset()` overflows for large pages, which are accepted
  (`PageRequest.h:19`; `FindFails`).
* An empty OBSERVABILITY_TIMEOUT_SECONDS in the environment passes AppConfig and
  disables reporting (`ErrorReporter.cc:435`), and so does a batch delay that
  `std::to_string()` prints as 0: the two premises of ReporterRunsAsConfigured.
* One scrape of `/metrics` may show more responses than requests, because it
  loads the requests first (`Observability.cc:109`); ScrapesAgree says how far
  this goes: never beyond the next scrape's requests.
* `connect()` is a data race until the first requests are answered
  (`UserController.cc:21`; `Race`), and for ever if there is no client to get;
  WritersComeFirst is about the former.
* A login that fails in the database, or any handler whose exception is not
  caught, is answered by the framework with 500; with a lost result a create or
  delete that took effect is answered as one that failed (`ResultLost`).
* While a gRPC call runs, a signal does not end the process, for `Shutdown()`
  has no deadline (`GrpcServer.cc:43`); SignalEndsProcess rests on calls that
  end. The health service's only call returns at once.
* A null member of JSON leaves the old value of a field and marks it dirty, so
  that an update writes the old value (`Users.cc:652`): `unheard` in the statement
  of UpdatesAsAsked.
* `updateByJson()` sets the key without marking it dirty (`RolePermissions.cc:388`).
  Of a class whose key the client makes, an object whose masquerading vector had
  left a key column out may get it so, passes the validation for an insert and
  is inserted without it: the `hidden` in RefusalsExplained.
* `readEnvFile()` ends the process when `.env` cannot be opened, in the middle of
  a request too (`Env.h:16`; `EnvGone`): the second disjunct of Answered.
* With `SENTRY_DSN` set the OTLP reporter sends there (`ErrorReporter.cc:288`).
* An invalid observability setting keeps the server from starting
  (`AppConfig.cc:47`; `LoadFails`), and a duration of `nan` passes both
  validations (`AppConfig.cc:44`; `SecondsOk`).

### Fairness

*Reporter*: a thread in `flushQueue()` is scheduled again, a `runAfter` timer
fires, Drogon's client answers each request or times out, and the clock
advances. Captures and signals are never forced. *Cache*: a handler that has
begun goes on, and time passes; requests and crashes are not forced.
*Migrations*: weak fairness of a runner that is not waiting (psql and the shell
go on), strong fairness of taking the lock (PostgreSQL queues the waiters, so
a lock that comes free again and again is granted). Crashes and starts are not
forced. *Resources* and *Sessions*: a thread goes on with the request it has, for
the database answers or its driver gives up; requests, writes, rotations of the
key and the data race are not forced. *Lifecycle*: the loop runs the handlers
and timers that are due, the waiting thread runs, and a gRPC call that was
accepted ends, for `Check()` does nothing but answer; signals and calls are not
forced.

## 4. Proofs

For every value of the constants, from the named assumptions of the modules:

* **ErrorReporterProofs.** `TypeCorrect`. `NeverStranded` from
  `TimerIdLive`: a valid `timerId_` is a pending timer, or the loop is about to
  reset it; without it a capture that arms no timer could not be justified.
  `BatchesStayBounded` from `QueueBounded`: the queue exceeds the batch size
  minus one by at most the number of workers on their way into `flushQueue()`;
  a batch is a whole queue. `CircuitStaysCoherent`, `ProbeFlagStaysOwned` (if
  no payload fails to build) and `OneProbe` (for pauses of any length) share
  `Ownership` and `Freshness`: a thread past the queue's critical section has a
  batch of its own in the state its `pc` says, so that steps of different
  threads do not change the same batch; `OneProbe` adds `SoloProbe`: a probe that
  nothing has overtaken still has the flag, in a half-open circuit.
  `ShutdownFlushes` from `FlushedAtSignal`, which says of the whole time after
  the signal, but the handler's own flush, what the property says of the loop at
  rest. `ReporterImplementsExport` is the refinement of EventExport, by `Apart`:
  an event is queued once or in one batch, and a batch that exists holds the
  event that names it, so that the sets of two exports differ and settling one
  removes just that one. Each step then maps to `Accept`, `Discard`, `Export`,
  `Settle` or a stutter, a lemma each. `CountersBalance` from `Accounted`: each
  counter of the reporter is the sum, over the batches in some states, of their
  sizes or of their attempts, and two that the code moves one after the other
  differ by the threads between them. A sum is the cardinality of a set of pairs (a
  batch and a number below its size), so that what a step adds or takes away is
  a set, and no induction over the batches is needed.
* **LimitedPipelineProofs.** Of the limiter, `TypeCorrect`, `WindowIsBounded` and
  `RefusalsAreJustified`. The invariant of the second
  says that a key's deque is the end of its log, and that what was popped from
  it is too old to count; then the counted admissions are in the deque, which
  is no longer than the limit. The lemmas say what the eviction loop returns.
  The third adds that a log is in the order of its admissions (`InOrder`): the
  front of the deque is fresh, what is behind it was admitted later, so its
  stamp is at most `MaxDelay` older. Of the composition, `ServerIsLimited` and
  `ServerIsPipeline`: every step of the server is a step of the limiter or a
  stutter, and the same for the pipeline, so that what either promises by
  itself the server promises (`ServerLimits`). `ServerScrapesAgree` and
  `ServerTracesAdmitted`, for any number of requests, from `ServerInv`. The
  counters are the cardinalities of the requests at each stage (`Tallies`): what
  is counted and not yet answered is under way or was answered by the framework
  alone. A scrape that began after another ended reads at least what that one
  read, load by load (`ScrapesInOrder`), which says how scrapes compare and not
  that one adds up by itself. An id that the post-handling advice puts into an
  answer is the one in the log (`IdsKept`); and who waits for the limiter or has
  passed it counts against the limit and has not begun (`Passing`), so that the
  admissions in the limiter's logs are as many as the limited requests that were
  counted. Of requests that are turned away nothing is claimed.
* **ListCacheProofs.** `TypeCorrect`; `StalenessIsBounded` from
  `AgesAreBounded` (the age of the first write a cached list lacks, plus the
  key's time to live, is at most TTL + MaxDelay, and the same for a list still
  held by a handler); `OnlyRacesEscape`, inductive along with it: a write
  with a lost result adds to what a list may lack only its own version.
  Of ListWalk, for any rows, page sizes, width of an int and times, shared ones
  included: `WalkTypeCorrect`, and, if there are no more rows than ints (`Few`,
  which is about tables of more than 2^31 rows), `QuietWalks`, `NothingSkipped` and
  `NothingRepeated`. The rank of a row is the number of rows of an earlier time: in
  every order that the database may choose (`Ordered`) a row of a time of its own
  stands right there, and the others not before it. `WalkInv`: what was
  shown, has a time of its own and is still there ranks before the next offset
  (`NoneShownTwice`), such rows of the beginning rank before what was created
  later and are shown up to that offset (`NoneSkipped`), and without writes the n-th
  row shown has the time of the n-th row of any order (`AllInOrder`). An offset that
  overflows is not assumed away: the first compares ranks with the int that it
  wraps to, and the others follow a walk from the first page, which never gets to
  one.
* **MigrationsProofs.** `TypeCorrect`, `TableIsTheTruth`, `DoneIsMigrated`,
  `RunsSerialize`, and the refinement `AppliedInOrder`,
  all from one invariant: the log is an initial segment of the files
  (`LogIsInitialSegment`), exactly one runner is in a transaction and it holds
  the lock (`LockHeld`), and a runner gets to a file when those before it are
  applied (`Progress`).
* **SchemaProofs.** `TypeCorrect`, `RecordedStays` and `CreateTablesComplete`,
  for any number of processes. `MigrationBehind`: of the tables that a migration
  is past, each is there or made in its transaction; `CreatedBehind`: those that
  a whole run of create-tables is past are there, user_permissions of a victim
  excepted. A failure between the two is why the first is not about what is
  committed, and the order of the tables, parents first, is what makes the second
  hold although failures are swallowed: the only failures that are left are that
  the name is taken and a deadlock. `NamesOwned` and `LocksOwned` say who has which
  name and lock: create-tables only what belongs to the link that it makes, the
  migration what belongs to the links that it makes or has made. In a circle a process of
  create-tables is then at user_permissions (`VictimsPlace`).
* **LifecycleProofs.** `TypeCorrect`, `WaiterSafe` and `CallsAnswered`, for any
  number of calls and signals. `ResetIsFinal`: a server that was reset has no
  thread waiting and no call running; `StopInOrder` says what each step of
  `stop()` may rely on; `StoppedStays`: a timer exists only once the server is
  reset. The type of `timers` needs `TimersCounted`: each goes back to a signal
  of its own. Of Configuration, `ConfigurationTyped` and
  `ConfiguredReporterRuns`, for any `.env`, environment and ranges: what `load()`
  accepted is in range, and a number in range that the environment does not
  blank is read again as the same (`Loaded`, `Made`).
* **ResourcesProofs.** `TypeCorrect`, `EarlyWriters`, and the refinement
  `HandlersImplement`, for any threads and rows. The invariant says where a
  handler with a pending statement or without an answer is (`InStep`), that a
  statement needs the client and the client stays (`NeedsClient`), and that who
  finds no client is early (`CheckedEarly`). Each step then maps to `Ask`,
  `Effect`, `Fail`, `Answer` or a stutter, a lemma each. Of Records, for any
  classes, tables, clients, calls and JSON: `RecordsTyped`, `UpdatesOnlyAsAsked`,
  `InsertsAnswerTheRow`, `ValidationSuffices`, `JsonIsFaithful` and
  `RefusalsAreExplained`, from `ValidInv`, whatever the zones of the process and
  of the session. `Listening`: what a client asked for
  and the object heard is in a dirty field, so that an update that writes the
  dirty columns writes just that, dates that the session takes for others apart.
  `Approval`: what validation saw is still true
  when the write comes, through any setters and updates in between: a column
  that may not be null is not, unless it is `unheard`, a limited text is not too
  long, and an insert has every column but those `hidden`. `RowsApart`: no two
  rows clash, so that an update finds one row; no date is in what must be unique,
  so that the clocks do not bear on it. The rest are lemmas on what a
  constructor, `updateByJson()` and `toMasqueradedJson()` do to one column; the
  code goes through the columns in turn, and ModelRecord says it of all at once,
  so that they need no induction.
* **SessionsProofs.** `TypeCorrect`, `AnswersAreRight` and `OneAnswerEach`, for
  any users, keys, requests and life of a token. What is right now is in the
  history (`NowWasRight`); a row that was found stands for the moment it was
  found at, since emails are unique (`EmailsUnique`, `FoundOne`,
  `FoundWasRight`); a token that still passes passed when its key was read, and
  one that does not is either not of that key or out of time under any
  (`KeyWasRight`).

The hypotheses on constants are the named assumptions of the modules, which TLC
evaluates in the runs, and `Few` of ListWalk and payloads that can be built
(`BuildThrows` is FALSE) of `ProbeFlagStaysOwned`, which are in the theorems. The
code promises neither; the list above says what happens otherwise.

Only model-checked: all liveness (QueueDrains, BatchesSettle, CircuitRecovers,
EventuallyFresh, RunsEnd, SignalEndsProcess and the two properties Answered), for
its proof needs ENABLED and fairness, which the prover does not handle. The
invariants that these rest on are proved. Every other property of the runs is
a theorem.

## 5. Not modelled, and the plan

Not modelled, because it has no behaviour that a model would show:

* the project generator and the set-up scripts (`scripts/drogon-starter`,
  `drogon-generate`, `setup_local.sh`, `compose-start.sh`), the build and CI:
  sequences of copies and tool calls, run once by one user;
* what payloads, log lines and pages of documentation contain; `OPTIONS`
  handlers and files, which answer the same always; `toDrogonJson()`,
  `toPublicJson()` and the like, which copy fields;
* `alter()`, `_delete()` and `dropTables()`, which are empty or not called;
* bcrypt, JWT, PostgreSQL, Redis, gRPC and Drogon beyond what the code relies
  on: external, and modelled as the code uses them;
* providers that an application registers
  (`registerErrorReporterProvider()`): code of the application's own, called
  while the process starts. One that takes the name `otlp` or `sentry` before
  the first configuration is replaced by the built-in provider of that name,
  which is registered then (`ErrorReporter.cc:371`);
* the destruction of statics when the process exits: the order is the
  framework's, whose source is not part of the repository.

In order:

1. The cache of ListCache and the handlers of Resources in one module, with the
   answers of lists related to the effects of writes, and its refinement.
2. The rates of the limiter over any stretch of time, from WindowBound.
3. Providers of an application's own in Configuration.
