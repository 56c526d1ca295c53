# IoTron verification

TLA+ models of IoTron's control plane, the TLC runs that check them on small
instances, and theorems about them checked by TLAPS. IoTron is a Python
service (FastAPI server and `iotron` command line over one `IoTronService`
class, SQLite and a JSON file), a C++ runtime library, bindings and a
dashboard. Paths below are relative to the repository (`iotron/service.py`).

    tlc -workers 2 -config RegistrySequential.cfg MCSequentialRegistry.tla
    tlapm RegistryProofs.tla

`PROJECT.json` lists the runs, the source lines of every definition, the
deliberate faults each property detects, the findings and the hazards.

## Inventory

| Component | State | Operations | What makes it correct |
|---|---|---|---|
| Device registry and telemetry (`service.py`, `storage.py`) | tables `devices`, `telemetry`; the cached copy `_runtime_state`; `_DB_LOCK` | register, heartbeat, ingest, prune, refresh, list | an answered request is in the database; the cache is the database; every request is answered |
| Packages (`service.py`, `storage.py`, `cli.py`) | table `packages`; a cached copy per process; the legacy file | install, update, uninstall, list | an answered change lasts until the next request about the package |
| Job queue (`operations.py`, `storage.py`) | table `jobs`; `_JOBS`, futures and queue of a four-thread executor | submit, execute, claim, complete, get, list | no job runs twice; records only move forward and say what happened; answers agree with the table; jobs finish |
| Rate limiter (`security.py`) | a deque of admission times per client | dispatch | no window admits more than the limit, and nobody with room is refused |
| Project configuration (`service.py`, `storage.py`) | `config.json`; a cached copy per process | select board, enable protocol or network, install dashboard | a setting that was answered lasts; the server's copy is the file |
| Tokens, RBAC, tenants (`security.py`, `oidc.py`, `secrets.py`) | secrets, tables `revoked_tokens`, `rbac_policies`, `tenants` | issue, verify, revoke, rotate, exchange | only good tokens and permitted roles are served, across one rotation, and nobody is refused without a cause |
| Deployments (`toolchains.py`, `service.py`) | the plan; table `deployments` | plan, preflight, execute, record, confirm | what is started was signed; the table tells what the tools did; every request ends |
| Backup and restore (`operations.py`) | `vendor/backups` | create, restore, list | a backup holds all that was answered before it began, and restoring gives back just that |
| Observability (`observability.py`) | metrics, log and trace rings under a lock | record, log, start and finish a trace | a trace follows its request, or is dropped by newer ones |
| Native runtime and drivers (`core/`) | lifecycle and session states, frame buffers, retry counters, each its caller's | enqueue, connect, error, heartbeat, reconnect | a function of one value each |
| Dashboard (`app.js`) | the last answers | load, render | the newest data is shown |
| Protocol adapters, hardware lab, catalog, planner, alerts, API routes, CLI parsing, profiles, bindings, C++ CLI | none, or what the above keep | one blocking call or a pure function each | |

How they interact. The API's handlers are plain functions, so FastAPI runs
them on a pool of threads, all on one `IoTronService` object and without a
lock around a service method; only the checks of tokens are coroutines, which
the event loop runs one at a time. Only `storage._db` locks, one transaction at a
time, and only inside its process; the command line is a process of its own on
the same files. Every mutating service method changes a cached copy, saves the
whole copy, reloads all three copies (`refresh`) and writes an audit row.
Device and operator handlers verify tokens against the database first. Jobs
run on the executor's threads or in external workers that call the API. The
middleware that limits rates runs on the event loop before any of this.

Hard behaviours: threads that interleave inside the cached objects; copies
that are stale within a process and between processes; exceptions between the
change of a copy, its save and its reload; a process that stops between two
statements; lost answers and repeated reports of workers; what lives in memory
only (executor, `_JOBS`, rate windows); bootstrap code that runs on every
connection; clocks. `PROJECT.json` lists them by line under `hazards`.

## Modules

| Module | Models |
|---|---|
| `Registry` | the device registry and telemetry store: threads, cached object, lock, tables |
| `AtomicRegistry` | what it promises: an atomic store |
| `JobQueue` | the job queue: table, `_JOBS`, executor, external workers |
| `PackageStore` | packages in several processes, each with its copy |
| `RateLimiter` | the middleware's deques |
| `SlidingWindow` | what it promises, decided from the complete log |
| `Deployment` | deployments, hardware validation, exchanges: reads of the artifact, the tool, the table, the traces |
| `Tokens` | checks of tokens and permissions beside rotation, revocation and changes of policy |
| `ConfigBackup` | `config.json`, the server's copy of it, and backups of it and of the database |
| `RegistryProofs`, `PackageProofs`, `RateLimiterProofs`, `DeploymentProofs`, `JobQueueProofs`, `TokensProofs`, `ConfigBackupProofs` | the theorems about the module of that name |
| `SequentialRegistryProofs` | the theorems about `Registry` served by one thread, and about `AtomicRegistry` |
| `MCRegistry`, `MCJobQueue`, `MCConfigBackup` | symmetry for TLC |
| `MCSequentialRegistry` | one request at a time, with and without failing statements, against `AtomicRegistry` |
| `MCPackageStore` | one process serves all requests, with and without failing statements |

### Registry

`db` is the committed contents of the two tables, `obj` the runtime-state
objects on the heap and `self` the one `service._runtime_state` refers to. A
thread that found a device in the cache, or passed the cache to
`save_runtime_state`, holds a reference (`ref`) to its object although another
thread replaces the cache meanwhile; cells nobody refers to are emptied. A
handler is the sequence `Receive` (lookup in the cache), `Mutate` (the change
in place), `Capture` (evaluation of the argument `self._runtime_state`),
`SaveDevices` and `SaveTelemetry` (the transaction, under `lock`), `Load` and
`Assign` (the two halves of `refresh`) and `Answer` (the audit row). A prune
starts with `Prune`, a plain refresh (other handlers' saves end in one) with
`Load`. `IntegrityError` is a row SQLite refuses, `Fault` an
OperationalError in any statement, `Restart` a stop of the process anywhere.

The data of a device is `seen`, the request that wrote its `last_seen`; an
event is the request that recorded it and its `recorded_at`, which is the
request's time or an older one the device supplied. A list's duplicates
matter (two threads may append the same new device), so `count` counts a
device's entries. The statements of one transaction run under `_DB_LOCK`, so
one action stands for several of them where no other thread can tell; deleting
and inserting devices is separated from inserting telemetry because other
threads append to the list meanwhile. Appending an event and writing
`last_seen` is one step: between the two nothing reads both. `Prune` lets
SQLite choose among events of equal time. The legacy file
`vendor/runtime_state.json` is imported only while there is no device, and no
operation removes a device, so it is part of the initial state.

### JobQueue

`row` is the table, `stamp` the order of `submitted_at`, `env` the value of
`IOTRON_WORKER_BACKEND`. `submit`, `exec` and `worker` are where `submit_job`,
`_execute_local_job` with its `complete_job`, and each external worker are;
`copy` is the record a `complete_job` in progress has read. `future` and
`listed` are `_JOBS`; `pool` is the executor's queue. Each storage call is one
transaction under the lock and one action. External workers are not in the
repository: they are modelled from the endpoints they call, as clients that
claim, work and report, repeat a report that was not answered and know nothing
of a claim whose answer was lost. `list_jobs` overlays `_JOBS` as `get_job`
does; both are `Reported`.

### PackageStore

`table` maps a package to the time of its installation (0: absent) and `cache`
holds each process's copy. A command-line process is `Begin`, `Start` (the
constructor loads the copy), `Change`, `Save`, `Refresh`, `Answer`; the server
skips `Start`, which it did when it was started. `Reload` is the refresh of the
server's copy by any other request of the server. `Opened` is the import of
`vendor/installed_packages.db` that `_migrate` runs on every connection. A
package a request is about is no longer `promised`, or `removed`, from the
moment the request is made, as it may fail after its commit.

### RateLimiter

`hits` is `_hits`; `log` and `refusals` are history. `dispatch` does not await
before it has decided, so a decision is one step: drop the entries from the
front that have expired, then admit or answer 429. Time is an integer that
never goes back.

### Deployment

Every read of the artifact is a step of its own, as the file is built anew
(`Build`) or deleted (`Delete`) by others between any two: `PlanFlash` or
`PlanOta` (the digest of the plan), `SignBundle`, `SignManifest`, `Preflight`
(`execute_plan` up to `subprocess.run`) and `Probe`
(`run_hardware_validation`). A digest stands for the content it was computed
from, one of a few (`Firmware`), and a build may bring back a content the file
had before: `reverted` are the requests whose plan it was while they were
signing and checking another. `ArtifactMissing` is the `ValueError` of any of
these reads. `StartFails`, `StartTool`, `EndTool` and `ToolTimeout` are
`subprocess.run`, which may raise `OSError` at once; its own read of the file is after every check and
appears nowhere. `Record` and `Log` are the transactions of the table and of
the audit log, after which the request is answered; `Fault` is an SQLite error
in either. `Receive` starts the trace of a validation or an exchange,
`FinishTrace` finishes it, and `Pushed` drops the oldest one. `plan` outlives
its handler only as the answer. A `Restart` loses handlers and traces; a tool
that is running is orphaned, not ended. `tool`, `answer` and `reverted` are history.

### Tokens

A handler's check is `ReadSecret` (the settings are loaded and the current
secret read), `Verify` (the previous secret, the expiry and, if neither secret
fits, the external provider's), `Lookup` (`is_token_revoked`) and `Permit`
(role and policies). The checks of bearers are coroutines without an `await`,
so `Receive` waits until no bearer is being checked (`Checking`); what a
request asks for runs on a thread, and revoking checks the target's token
there with the same four steps. `SetPolicy` changes what operators may do;
`Rotate` makes the current secret the previous one and loses the one before.
A signature is the number of rotations before the secret that made it. `told`,
and the fields `valid`, `granted` and `denied` of a request, are history.

### ConfigBackup

`file` is `config.json` and `config` the server's copy. `Truncate` and `Write`
are the two halves of `write_text` and of `shutil.copy2`, so everybody can see
an empty file between them. Every request that saves something refreshes, one
about devices, telemetry or packages (`"device"`) as well as one that changes
settings: `Load` and `Parse` are the two reads of `_read_json`, `ParseError`
what happens if the file was emptied between them, `Reset` and `Refill` the
rewriting of an empty file by the defaults, and `Assign` replaces the copy.
`Enable` and `AlreadyEnabled` change the copy, `Chosen` being the selected
board that replaces the one before, or anything else that is added.

The database is the set of the rows that requests commit: their data and their
audit row. `Commit` puts a row in the WAL file, under `_DB_LOCK`; closing the
connection moves it to the two halves of the database file, one after the
other (`Checkpoint`, `Close`). The lock does not keep a backup out: `CopyDb` and
`CopyRest` copy the two halves, without the WAL, so that a checkpoint between
them tears the copy. Two halves are enough to tell a copy that was torn from
one that was not; what SQLite reads from a torn one is not modelled, and
nothing is promised of it. `MakeDir` looks at the clock, and two backups of one
second share a directory. `Find` to `WriteDb` are a restore. `Stop` stops the
process at any step and starts it again.

`kept`, `logged` and `gone` record which settings and rows answered requests
promise, and which rows a restore took away; `owed` is what the answer of a
handler will promise, `good` what each answered backup does. `clash` says
whether a change of settings, from the change of the copy to the end of its
writing, has met a refresh, from its first look at the file to its
assignment, or another change. No setting is promised after that, until the
server is started again or a backup is restored: the code loses them.

## Runs

Bounds are constants of the modules. `MaxClock` bounds the requests made,
`MaxTime` the time, `MaxRestarts` the restarts: a system that reaches them
stops, so deadlock is not checked; that no request is stuck is checked by
`RequestAnswered`.

| Run | Shows | Bounds |
|---|---|---|
| `registry_sequential` | with one request at a time, answered requests are durable, never undone by an older copy, and their device stays known, through SQLite errors and restarts; in the behaviours without errors the cache equals the tables between requests, and everything implements `AtomicRegistry`, restarts included | 1 thread, 2 devices, 4 requests, retention 1 |
| `registry_concurrent` | with overlapping requests, errors and restarts every received request is answered or lost with its process | 2 threads, 2 devices, 3 cells, 2 requests |
| `registry_lost_update` | violation: overlapping requests delete an answered event | 2 threads, 3 requests |
| `jobs_safety` | at most one execution, holders and outcomes recorded, records only move forward, a reported completion is in the table | 3 jobs, pool of 2, 2 workers, losses, errors, 1 restart, all backends |
| `jobs_liveness` | every job finishes unless the process restarts; a queued one is claimed even then | 2 jobs, 2 workers, 3 backends, 1 restart |
| `jobs_stale_report` | violation: `get_job` answers queued for a completed external job | 1 job |
| `packages_alone` | the server alone, refreshed by other requests, or commands one after the other, keep their answers, errors and stops included; without errors the server's copy follows the table, imports included | 3 packages, one of them legacy, 5 requests |
| `packages_stale_server` | violation: the server deletes what a command installed | 2 packages, 3 requests |
| `rate_limiter` | the limit holds in every window and the deque decides as the log would | 2 clients, limit 2, period 2, time 0..6 |
| `deployments` | the table tells what the tools did, what is started was signed unless the artifact went back to the content of the plan, answered requests are recorded, traces follow their requests, every request ends but an exchange that never does | 2 requests, 2 contents, 2 builds, ring of 1, 1 restart |
| `tokens` | only good tokens and permitted roles are served, and nobody is refused without a cause | 2 threads, 1 token of any kind, valid for 1 of 2 seconds, 2 rotations |
| `files` | settings last and the server's copy is the file until a change of settings meets a refresh or another change; backups hold what was answered before them unless a checkpoint tore their copy; restores give back exactly the rows of their backup | 2 threads, 3 settings (2 boards), 4 requests, 1 overlap, 2 seconds |

The three violations are disagreements between the code and its documentation;
`findings` quotes both. The following are conditions under which the
properties of the passing runs stop holding, and appear as constants or
hypotheses of the models instead. Two overlapping registrations of one new
device both fail and leave a cached copy that differs from the tables
(`CacheUnlessFaulty` is checked with one request at a time). An exception
without a message is stored as completed and reported as failed (`Verdicts`
with `"raise_empty"`). An SQLite error on a pool thread leaves a job reported
as failed with a record that never becomes final. A local job is lost by a
restart (`FinishesUnlessRestarted`). Removing the last package brings the
legacy ones back (`RemovedStays` excepts them). A process that stops between
truncating `config.json` and writing it loses all settings (`Stop` withdraws
the promise). So may a change of settings that overlaps another change or the
refresh of any other request: the refresh reads the file before the change and
replaces the copy after it, or finds the file empty and writes the defaults
(`clash`). A backup that copies the database file during a checkpoint is torn,
and one that copies `config.json` while it is rewritten has an empty one
(`whole`, `owed`). An artifact that is built to another content and back
between the reads of a deployment passes the preflight although the
signatures are of the other content (`reverted`). An exchange over I2C or MQTT
has no time limit, so its request may never end. A request that raises leaves
its trace started, and a tool that was killed leaves no deployment. External
tokens are not looked up among the revocations. Nothing enforces the retention
the runtime manifest states.

Why the bounds are enough. The registry's hazards need two threads, a device
that both use or one that only one uses, and a third request that writes the
stale copy; four sequential requests are enough to register, ingest beyond a
retention of one, prune and write again. A thread holds at most one object
beside the cache, so one cell more than there are threads is always enough.
Two requests are
enough for every pair of steps of two threads to meet and for either to wait
for the other's lock. Three jobs overfill a pool of two, and two workers
compete for the oldest. Three packages leave one untouched by an
install and a removal. A window of two admissions in seven instants slides,
partly and completely expires. Two builds and two contents are enough for any
two reads of an artifact to differ and for the first content to come back, and
two requests for a trace to be pushed out of a ring
of one by another handler. Two rotations make a secret current, previous and
forgotten; a token that is valid for one second expires by the second; one
token is enough because the checks of different tokens share only secret,
clock and policies, and two threads for one to act while another is checked.
Four requests are a change, a backup, a change and a restore, or two backups
of one second, a commit and a restore; one overlap puts every step of one
request between any two of another, so every pair of a change, a refresh, a
checkpoint and a copy meets, but not three requests at once: those are left to
the theorems.

Fairness. Every thread that can take a step of its handler eventually does
(`WF_vars(Step(t))`): handlers run on operating-system threads, hold no lock
while they wait for one, and release `_DB_LOCK` when they raise. Weak fairness
is enough because finitely many requests are received, so no thread is
overtaken for ever. In `JobQueue` the threads of the server and of the
executor are fair; that external workers keep asking and reporting is an
assumption about them. In `Deployment` the steps a handler takes by itself are
fair (`WF_vars(Handle(r))`), the time limit of `subprocess.run` among them;
that a tool ends is never assumed, nor that an exchange does: `protocol_io.py`
discards the time limit for I2C and uses it for MQTT as keepalive only, so
`RequestAnswered` leaves out a request that is inside an exchange. No client is obliged to send anything, and no error,
loss or restart is ever forced.

## Proofs

Every safety property a passing run checks is also a theorem, for every value
of the constants the modules' `ConstantsAssumption`s allow (TLC evaluates them
on every run). `Spec => []TypeOK` is proved for each module that has a
`TypeOK`. Each theorem rests on an invariant that is inductive; those are:

* `RegistryProofs` (any number of threads): `TypeCorrect`. A reference
  is typed only at the steps that use it (`HandlerOK`), and the invariant adds
  that the committed tables satisfy the schema, which the save steps check as
  SQLite does; `SequentialRegistryProofs` starts from both.
* `SequentialRegistryProofs` (`OneThread`: requests do not overlap):
  `AckedHolds`, `LastSeenHolds` and `KnownHolds` say that `AckedIsDurable`,
  `LastSeenIsLatest` and `AckedIsKnown` hold whatever statement fails and
  wherever the process stops; `CacheHolds` and `RefinesAtomicRegistry` are
  about `MCSpec`, whose behaviours decide at the start whether statements may
  fail. `SInv` says why a rewrite of both tables from a cache loses nothing:
  the cache is never *behind* the database (`CacheInv`). A request that failed
  between its change and its save leaves it ahead, and a later save then writes
  the change of a request that was answered with an error; so the cache equals
  the tables (`FaithfulInv`) only when nothing fails. Where nothing fails, the
  commit of a save or of a prune and the answer are the steps that map to steps
  of the abstract store, and every other one stutters; the behaviours in which
  statements may fail are mapped to a store nobody uses, and say nothing.
  `OneThread` cannot be dropped: `registry_lost_update` is the counterexample
  with two.
* `RateLimiterProofs`: `LimitHolds` (`WindowLimit`) and `RefinesSlidingWindow`
  (`ImplementsSlidingWindow`). The deque is a suffix of the log, in order, what
  was dropped has expired, and the suffix never exceeds the limit; then the
  number of recent admissions is the length of what is left of the deque.
* `PackageProofs`: `InstalledHolds` and `RemovedHolds` under `NoStaleCopy`:
  there is one process, or all are commands that run one after the other. It is
  the assumption `packages_stale_server` violates. The invariant says that the
  table and every copy that may still be written keep all promises, that at
  most one process is inside a request, and what that request has written; a
  `Reload` between requests then only copies the table.
  `TypeCorrect` needs no such assumption. `ServerHolds` (`ServerIsCurrent`) is
  about `MCSpec`; its invariant `Current` says from which step to which the
  copy is the table, and that a table that was opened once is not imported into
  again, so that the connection that writes the audit row changes nothing.
* `DeploymentProofs`: `DispatchHolds`, `HistoryHolds`, `AnswersHold` and
  `TracesFollow`. The invariant `IInv` says for each request what its plan
  (`PlanOK`), its tool (`ToolOK`) and its answer (`AnswerOK`) must be at the
  step it is at. The plan's digest is compared with neither signature; what
  makes `DispatchedIsSigned` hold is that an artifact that has the plan's
  content now, and has not gone back to it since, has had it at every read, so
  what was signed meanwhile is that content. Without the exception for
  `reverted` this is false, and so is the property. `TracesFollow` adds
  `TraceInv`: a request that arrives is in no trace yet, only validations and
  exchanges are in one, and those never reach a step that executes or records.
* `JobQueueProofs`: `RunsOnce`, `HolderHolds`, `OutcomeHolds`, `ReportHolds`,
  `LocalReportHolds`, and the action property `ForwardHolds` (`StatusForward`).
  No lock spans the steps of a job, and `complete_job` writes back a record it
  read earlier. `IInv` says who can still write to a record at each step
  (`ExecInv` of a pool thread, `WorkerInv` of a worker) and that every copy to
  be written back equals the record but for the fields it changes; that a job
  in the pool's queue is there once and has not been started (`PoolInv`); and
  that record, outcome, runs and future agree (`RowInv`, `FutureInv`).
  `OutcomeHolds` and `LocalReportHolds` assume that no exception has an empty
  text (`"raise_empty" \notin Verdicts`), as `jobs_safety` does: `complete_job`
  takes such an exception for success, and then the properties are false.
* `TokensProofs`: `OnlyValidServed`, `OnlyPermittedServed` and
  `RefusalsHaveCause`, the action properties `ServedIsValid`,
  `ServedIsPermitted` and `RefusedForCause`. A check reads secrets, clock,
  revocations and policies one after the other while all of them change. What
  makes a token bad (time, rotation, an answered revocation) does not go away,
  so `ValidInv` can say for each step of a check of a bad token that a cause
  for refusal is still ahead of it; `PolicyInv` says what the policy has been
  since the check began.
* `ConfigBackupProofs`: `SettingHolds`, `CopyHolds`, `BackupHolds` and
  `RestoreHolds`, for any number of handlers that overlap. `IInv` has four
  parts. `TInv`: which steps belong to which request, that a restore is alone,
  and that one connection at a time is being closed. `SInv`: until a clash, at
  most one handler is changing settings and none is refreshing meanwhile, so
  that a refresh that is under way has read what the file still says
  (`InStep`), what is about to be written is the copy, and every promise is in
  the copy and in the file (`Kept`, `Owed`); a clash takes all of them back.
  `BInv`: a backup that still promises rows has read the first half of a file
  that has not changed since (`CopiedRows`), and nobody promises anything of a
  directory that two write (`Shared`). `DInv`: a row is in the WAL file only
  while its connection is being closed, and reaches the first half before the
  second (`Wal`); what is promised is in both halves (`Stored`); rows a
  restore took away are in neither, and since rows are numbered by their
  request nobody commits one again (`Aged`, `Gone`).

Each invariant was checked with TLC on the instance of its run before it was
proved, except `TraceInv`, `Types` and `Current`, which were proved directly.

Only model-checked is all liveness: `RequestAnswered` of `Registry` and of
`Deployment`, `FinishesUnlessRestarted` and `QueuedIsClaimed`. Fairness and
ENABLED are out of the prover's reach. Nothing is computed by recursion, so no
induction over data is left out.

## Plan

Theorems to come: an abstract queue, in which a job is submitted, held by one
owner for the rest of its life and finished once, and `JobQueue` shown to
implement it; which part of `AckedIsDurable` survives overlapping requests,
found with TLC first; `SequentialRegistryProofs` for several threads that take
turns, instead of one.

Models to come: the composition of the packages with the other copies one
`refresh` replaces, where a request about devices can discard a change of
packages that another thread has not saved yet (`ConfigBackup` has it for
settings); overlapping loads of the dashboard.

## Not modelled

The catalog and the planner, alerts, argument parsing, profiles and the C++
command line are constants or pure functions. The protocol adapters are one
blocking call each, which `Deployment` represents by its outcome. The bindings
make one request at a time. The native runtime and its drivers are functions
of one value of their caller's, which nothing in the repository calls in a
sequence or concurrently: a model of them would restate single assignments.
Routes are modelled where a request starts (guards, error answers), not
otherwise.

In the modelled parts: the text of records; metrics and log lines; tenants and
notification channels, single rows nothing else consults; in `Registry`, the
copies of packages and configuration that `refresh` reloads as well; in
`JobQueue`, reports by a worker that does not hold the job; in `Deployment`,
command lines and rollout policies; in `Tokens`, a file of secrets that is read
while it is being rewritten, for which `secrets.py` takes the default: it is
assumed to be replaced atomically; in `ConfigBackup`, what SQLite reads from a
torn copy, restores that overlap other requests, whose effect on an open
database is SQLite's, and the command line as a second process on
`config.json`. The clocks are taken to be monotonic.
