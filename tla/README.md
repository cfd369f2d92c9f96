# Verification of api-monitor

TLA+ models of the api-monitor service, checked with TLC and proved with TLAPS.
Paths are relative to the repository (`src/`).

## 1. The system

api-monitor periodically requests a set of HTTP targets. A REST API manages the
targets, which are stored in PostgreSQL; a scheduler runs one goroutine per
enabled target; the goroutines hand their checks to a worker pool of fixed size.

| Component | State | Operations | Talks to |
|---|---|---|---|
| Scheduler (`internal/scheduler`) | the `running` map, one goroutine, context and ticker per target, a wait group | `Start`, `reconcile`, `start`, `stop`, `runTarget`, `runCheck` | lists targets through the service, calls `TargetChecker.Check` |
| Worker pool (`internal/worker`) | the bounded queue, N worker goroutines, one result channel per job | `Submit`, `Check`, `runWorker`, `process`, `safeCheck`, `Start` | is the scheduler's `TargetChecker`, calls the checker |
| Checker (`internal/checker`) | one context per check | `Check`, `classify`, `finish`, `CheckResult.Validate` | `net/http` |
| REST API (`internal/api`) | none, one goroutine per request | list, get, create, update, delete; `writeServiceError` | the service |
| Target domain and service (`internal/target`) | none | `New`, `Validate`, `Service.*` | the repository |
| Memory repository (`internal/storage`) | a map under a mutex | `Create`, `Get`, `List`, `Update`, `Delete` | |
| PostgreSQL repository (`internal/storage/postgres`) | the `targets` table, a pool of 10 connections | the same, one SQL statement each | PostgreSQL |
| Lifecycle (`cmd/api-monitor`) | the signal context, the HTTP server, two "done" channels | start everything, wait, stop in order | all |
| Config, id, middleware, health, migrations | none at run time | | |
| Incident, alert | a value type that is not wired, a doc comment | | |

**How they interact.** The scheduler never sees a request: it lists the targets
every 10 s (`scheduler.go`'s default: `main` leaves the interval unset) and compares the listing with its own map, while requests go on
changing the table. A per-target goroutine blocks in `Pool.Check` for as long as
its check waits for room, waits in the queue and runs; a worker runs a check
under the *pool's* context, not its caller's. One signal cancels the context of
the scheduler (parent of every goroutine's) and of the pool.

**What is hard.** Everything between these goroutines: acting on a listing that
is already outdated; a goroutine that was told to stop but lives on beside its
replacement; a caller that gives up while its job is queued, running or just
delivered; a full queue at shutdown; `select` with several ready cases; a
statement that fails after it was committed; `Service.Update`, which reads,
validates and then writes. The list of hazards with their lines is in
`PROJECT.json`.

**What makes each part correct.**

* Scheduler: no orphaned goroutine, the map agrees with the last listing, a
  change of the table takes effect in the end, an unchanged target is left alone,
  nothing outlives `Start`.
* Worker pool: no submitted check is lost, run twice or answered for somebody
  else; `canceled` is reported truthfully; every call returns; `Start` returns.
* Both together: what workers run for somebody who still wants it is what the
  running map names at that moment (the map itself follows the table pass by pass);
  stale checks die out; a live target is not crowded out; one signal stops
  everything.
* Scheduler, pool and API on one table: wanted checks follow the table, and a
  deletion that was noticed is final.
* Target rules: POST and PUT mean the same, what is shown can be sent back, and
  the documented bodies are accepted.
* REST API, service and repositories: concurrent requests are linearizable, no
  deleted row comes back, an invalid target is never stored, and each error is
  answered with the status the documentation gives it.
* Checker: a racing cancellation, deadline and response give the outcome the
  comments promise, building a result never panics, and a check always ends.
* Cadence of one target: slow checks neither pile up nor shift the schedule.
* Lifecycle: it never serves on a half-migrated schema, shutdown cuts no request
  short unless it timed out, the database pool outlives the scheduler, no
  connection leaks, nobody is starved of one, and the process does end.

## 2. Modules

| Module | Models | Kind |
|---|---|---|
| `Scheduler` | `scheduler.go` and the table it lists | component |
| `TargetChecker` | the contract of `scheduler.TargetChecker` | abstract specification |
| `WorkerPool` | `pool.go` | component, implements `TargetChecker` |
| `Monitor` | scheduler and pool as `main.go` wires them | composition of `Scheduler` and `WorkerPool` |
| `TargetTypes` | rows, requests and their effects on the table | data |
| `TargetStore` | what the REST API promises | abstract specification |
| `TargetApi` | handlers, service and repositories | component, implements `TargetStore` |
| `TargetRules` | `target.go`, `target_dto.go`: defaults, normalisation, validation | operators |
| `Application` | the API and the engine on one table, as `main.go` wires them | composition of `TargetApi` and `Monitor` |
| `Checker` | `check.go` and `check_result.go` | component, implements `TargetChecker` |
| `Cadence` | `runTarget` in discrete time | component |
| `Lifecycle` | `main.go`, the HTTP server's life and the connection pool | component |
| `SchedulerProofs`, `WorkerPoolProofs`, `TargetApiProofs`, `MonitorProofs`, `ApplicationProofs`, `CheckerProofs`, `CadenceProofs`, `LifecycleProofs` | theorems | proofs |
| `MC*` and `*.cfg` | small instances for TLC | runs |

Operators whose comment begins with "Mutant:" are deliberate bugs. No
specification uses them; each replaces one definition to show that a property can
fail.

### Scheduler

`spc` is the program counter of the goroutine in `Start`: `list` (in
`targets.List`), `visit` (the loop of `reconcile`), `select`, `drain` (in
`wg.Wait`), `returned`. `listed` is what the last successful `List` returned and
`todo` the part of it the loop has not reached; the loop visits the listed
targets in any order, since the order is by name. A `Slots` element is a
goroutine, `running[i]` the map entry, `pc`, `runs`, `canceled` and `tick` the
goroutine's position, the target it closes over, its context, and its ticker's
one-slot channel. `Visit` is one iteration of the first loop; `stop` and `start`
within it are two steps, so that requests, ticks and the signal can fall between
them. `Sweep` is the second loop.

A target is `[ID, Enabled, everything else]`: the comparison `rt.target == t` of
the code is equality of ID and configuration here. `Usable` are the
configurations with a positive interval. Time is abstracted: discovery and
per-target tickers fire at any moment, which covers every real timing.

`CreateTarget`, `UpdateTarget` and `DeleteTarget` are the effect of a request on
the table. A new target is enabled, an ID is never used twice, and a deleted row
does not come back: that the API keeps to this is `Application`'s
`ImplementsMonitor`.

### WorkerPool and TargetChecker

`call[c]` follows a caller through `Check` and `Submit`: `submit` (the first
`select`), `blocked` (the inner one, after the queue was found full), `waiting`
(the last one), `answered`. A job is its target and the caller that holds the
other end of its result channel. A caller that gives up turns its job's caller
into `None`: the job stays where it is and its result goes to a channel nobody
reads. A check ends in `Process`, which delivers its result, or `Panics`: the
worker is then `panicking` until the `recover` deferred in `safeCheck` (`Recovers`)
turns the panic into a result that `process` delivers like any other. A
`recover` one frame further out would save the worker and lose the answer, which
is what `WaitingJobInOnePlace` and `ImplementsTargetChecker` refuse. A worker whose context is done may still take a job, as Go's
`select` allows.

`TargetChecker` says what the scheduler may rely on: a call returns one result,
for its own target, `canceled` only if its context is done, and it returns.
`WorkerPool` implements it, with `submit`, `blocked` and `waiting` all mapped to
"pending" and a result hidden until it is received.

### Monitor

The per-target goroutines are the pool's callers and the context they pass is
their own. `CallsCheck` and `CheckReturns` are joint steps; every other step is
one part's alone. TLC checks that the composition implements each part's own
specification: `ImplementsPool` (the scheduler calls the pool as the pool's
module allows) and `ImplementsScheduler` (the pool is the checker the scheduler's
module assumes, "a check returns" included). What is proved of the parts alone
thereby holds in the composition, and `MonitorProofs` uses it there.

### TargetApi, TargetStore and TargetTypes

Each repository method is one step: the memory repository holds its mutex, the
PostgreSQL repository runs one statement; `backend` says which is wired.
`Service.Update` is two, `Find` (its `Get`, then `Validate`) and `Replace` (its
`Update`). `Fail` is a PostgreSQL call
that returns an error, its statement executed or not: a broken connection, or a
client that went away (`r.Context()`). A body is a valid row, `Garbage` (does not
decode) or `Invalid` (refused by `Validate`); a path ID is one that may have been
generated or `Malformed`. An omitted `enabled` is the value `TRUE`.
`TargetStore` is the atomic store: each request takes effect at one moment
between its arrival and its answer.

### Application

The variables of both parts, and nothing that connects them but `table`:
`Stored`, the scheduler's `store`, is `table` with every disabled row seen as
`Disabled`, since `reconcile` looks at nothing else of it. `ApiStep` is a step of
`TargetApi` on the PostgreSQL repository, `EngineStep` one of `Monitor`. `Sent` are
the requests clients make, all of them in the proofs. `Usable` are all
configurations, because `Validate` lets only positive intervals into the table
(`TargetRules`).

An `Update` that found its row may write long after the row was deleted and the
scheduler noticed it; a `List` may be overtaken by any number of requests.
`ImplementsMonitor` says that nothing of this is more than the engine's modules
assume, so that what holds of `Monitor` holds here. `ChecksFollowTable` and
`DeletedStaysUnscheduled` relate checks and schedule to the rows themselves.

### TargetRules

Operators on bodies and rows, without behaviour. `New` and `Updated` are the two struct
literals of `target.New` and `Service.Update`, with the defaults, `TrimSpace` and
`ToUpper`; `Valid` is `Validate` without the order of its rules, which only decides
the message. `Edited` is the body of a client that replaces one field of what it was
shown and sends it back. A text is its trimmed content and whether there was space around it
(a method also: whether it was in lower case); a URL is what `url.Parse` makes of
it; a duration string is its value, `Omitted` or `Unparsable`.

`PostAndPutAgree` is what allows `TargetTypes` to have one kind of valid body for
both methods, and `StoresNormal` what `Application` assumes of intervals. They,
`AcceptsLegal` (the rules of `docs/api.md`) and `EditIsLocal` are proved in
`ApplicationProofs`; `RulesConstants`, a hypothesis there, only says what kind of
thing each constant is. `MCTargetApi` has a small instance with bodies on either
side of every rule (codes 0, 99, 100, 599 and 600, durations 0 and 1), for which TLC
evaluates all of it when it starts.

### Checker

One call of `Check` per caller: `doing` (in `httpClient.Do`), `draining` (the
result is made, `drainAndClose` reads the body), `answered`. `checkErr` is
`checkCtx.Err()`, the first reason the check's own context is done for; the
timeout (`expired`) and the caller's cancellation may come in either order and at
any moment. `Finish` is everything from Do's return to the end of `finish`, with
the classification of errors (`Classify`), the range of status codes (`Observed`)
and `CheckResult.Validate`, whose failure would be a panic. What `net/http` does
is free: any response or error at any moment, or nothing at all, and a body that
never ends. `net`'s own dial time-out counts as a deadline, as `errors.Is` takes
it.

`Checker` implements `TargetChecker`, where the only thing that has to happen is
that time passes and that `net/http` gives up when its context is done. This is
what justifies weak fairness of the end of a check in `WorkerPool`, and of `CheckReturns` in
`Scheduler` when the scheduler uses the checker directly: the whole chain rests on
the target's timeout alone.

### Cadence

`Scheduler` lets tickers fire at any time. `Cadence` has one goroutine with its
ticker in discrete time: `next` counts down to the next firing, `tick` is the
ticker's one-element channel, and `since`, `gap` and `lastGap` are the times since
the latest start of a check and between the starts before. A check takes any time.
The ticker starts when the first check has returned (`Ticking`), and drops a tick
when there is one in the channel. Clocks stop at one more than the interval. The
goroutine's own steps take no time, and no time passes while its `select` is ready.

### Lifecycle

`pc` is main: `connect`, `ping`, `migrate`, `serve` (the `select`), `shutdown` (in
`server.Shutdown`), `stop`, `waitScheduler`, `waitPool`, `close`, `closing` (in
`pool.Close`), and the ways a process is gone: `exit0`, `exit1`, `killed` by a
signal, `crashed`. `migration` is how far `Migrate` has got, `sqlDB` the
`sql.DB` it opens for itself: each of its error returns is an action with the
clean-up that return does (`OpenFails`, `DriverFails`, `SourceFails`,
`MigratorFails`, `UpFails`), after which main gives up (`abort`, `MigrateFailed`).
`schema` is golang-migrate's record in the database: it is the only state that
survives the process, and marked dirty while a migration runs. `Restart`
starts the program again on it.

The scheduler and every HTTP request are users of the connection pool; `at[u]`
says whether a user is idle, accepted, handling, waiting for a connection
(`acquire`) or in a statement (`query`), `left` how many repository calls a request
still makes, and `held` who holds a connection. `ConnectionsAccounted` compares the last two views.
`Begin`, `Call`, `Respond`, `Panics` are a request; `Accept` and `Drop` a connection
it may come on. `Shutdown` closes the listener and the idle connections, but one that
was `accepted` before may still send its request, and `Shutdown` returns without an
error only when no such connection is left either; `Acquire`, `Release`,
`Breaks` and `Refused` a repository call that succeeds, fails, or finds the pool
closed. Signals are swallowed or kill, depending on whether `stop()` was called.
The worker pool does not use the database, so only its return matters here.

## 3. Runs

| Run | Instance | Shows |
|---|---|---|
| `scheduler` | 1 ID, 3 configurations (one not usable), 2 goroutines | no orphan, map and listing agree, unchanged targets undisturbed, only deleted ones swept; changes take effect, checks go on, stopped goroutines exit |
| `pool` | 2 callers, 2 workers, queue of 1, 2 targets | accounting of jobs, own answers, truthful `canceled`, implements `TargetChecker`, stops |
| `monitor_safety` | 1 ID, 2 configurations, 2 goroutines, 1 worker, queue of 1 | wanted jobs are those of the running map, one slot per target, implements `WorkerPool` |
| `monitor_liveness` | the same with 1 goroutine at a time | checks go on, stale ones die out, shutdown, implements `Scheduler` |
| `api_safety` | 3 requests, 2 IDs, either repository | linearizable, rows evolve as the scheduler assumes |
| `application` | 2 requests, 1 ID, 1 goroutine, 1 worker, queue of 1 | the API is the engine's environment, checks follow the table, deletions are final |
| `checker` | 2 callers, 2 targets | outcomes are what happened, no panic, implements `TargetChecker` |
| `cadence` | an interval of 6 units | no burst, latency is not added |
| `lifecycle` | 3 requests and the scheduler on 2 connections | start-up, shutdown, crashes and restarts; connections; nobody starves; the process ends |
| `monitor_overlap`, `api_failure`, `lifecycle_close` | smallest that show it | violations of documented claims, section 5 |

**Bounds.** Every set is a bound; nothing else is capped but the number of
creations, by `Ids` (`IdLeft` in `TargetApi`, `Unborn` in `Scheduler`).

* Two goroutines for one target let its superseded goroutine go on beside the new
  one. When no slot is free, `Start` waits for a goroutine to exit, which they always
  can: slots bound how many coexist, not how many are ever started. Targets meet
  only in one listing and one loop over it; the theorems hold for any sets of
  targets and goroutines, so that only the liveness of several targets at once rests
  on the instance with one.
* One queue slot and two callers make the queue empty, full and blocking, since a
  caller that gave up leaves its job in the queue and comes back with another; two
  workers let an abandoned job run beside a live one. The theorems hold for any
  number of callers and every `QueueSize`.
* In `monitor_liveness` one goroutine exists at a time, so a restart waits until
  the old one has left `Pool.Check`. The overlap of the two is in
  `monitor_safety` and `monitor_overlap`.
* In `application` an update that disables, a create and a delete race for one row:
  enough for an update that is overtaken by the deletion and by a pass of the
  scheduler. One goroutine at a time suffices there, since overlapping ones are in
  `monitor_safety`. `TargetApi`'s runs have the reading and the refused requests.
* Two IDs and three requests let two requests race for one row while a third
  lists.
* Two connections and four users that want one: two requests can hold what a third
  and the scheduler wait for, and an update asks twice. The theorems hold for any
  numbers.
* Two checks at once share a parent context and have contexts of their own. A
  check never sees another one.
* In `cadence` the longest distinguishable time is one more than the interval; six
  units leave room for early, late and very late checks.

Runs with liveness properties use no symmetry. That the scheduler returns when the
context is done is `ShutdownTerminates` of `Monitor`, of both parts together. Every
component has a type invariant and a theorem `TypeCorrect`; those of `Lifecycle`,
`Checker` and `Cadence` are proved and not checked again in their runs.

**Fairness**, and why the code justifies it:

* weak for every step a goroutine can take by itself: the Go runtime schedules
  runnable goroutines; weak for tickers and for the end of a check
  (`Process`, `Panics` or `Recovers`), since every check is bounded by the target's timeout;
* strong for `Shutdown`, `RunnerExits` and `WorkerExits`: a `select` with several
  ready cases chooses uniformly at random, so a case that is ready again and
  again is chosen in the end;
* strong for `Send`: the runtime queues senders that are blocked on a full
  channel first in, first out;
* strong for `ListOk`: a database that never fails for ever. It is an assumption
  about the environment, and needed only where a change must take effect;
* in `Lifecycle`, weak for main (which includes that the ten seconds of `Shutdown`
  pass), for handlers and for the end of a statement; strong for `Acquire`,
  because pgxpool serves waiters in order; strong for `SchedulerReturns`, because
  the scheduler's `select` does not choose another pass for ever. That a statement
  ends is an assumption about PostgreSQL: neither `List` nor `pool.Close` has a
  time limit of its own;
* in `Checker`, weak for the timer and for `net/http` giving up when the context is
  done. No target has to answer.

That a check returns is fairness in `Scheduler` (`CheckFairness`), and a checked
consequence in `Monitor`. No environment action is fair: no request and no signal
has to come.

Deadlock is checked in every run. `Terminated` is the stuttering of a program that
has shut down.

## 4. Theorems

TLAPS proves, for arbitrary constants that satisfy the named assumptions
(`SchedulerAssumption`, `PoolAssumption`, `TargetAssumption`, `CheckerAssumption`:
the marks `None`, `Deleted`, ... differ from the values they are mixed with, and
`QueueSize` is positive, as `New` ensures; `MonitorAssumption` is the first two
together; `ApplicationAssumption` all three; `RulesConstants`: GET is a method, and
the marks are no numbers; `IntervalAssumption`: the interval is positive, which the
scheduler checks before it starts a goroutine; `LifecycleAssumption`: finitely many requests
and a positive number of connections):

`SchedulerProofs`
* `TypeCorrect`.
* `NoOrphan`. `NoOrphanRunner` becomes inductive together with `Serving`: a live
  goroutine serves a target. `stop` cancels exactly the goroutine whose entry it
  removes, and `start` finds its entry vacant.
* `ScheduleFollowsListing`. The invariant `PassInv` says in addition that during a
  pass the visited part of the listing already agrees, and what was not listed is
  left for the sweep.
* `CurrentUndisturbed`, an action property, from `ScheduleInv`.
* `SweepIsRight`, an action property. The invariant `PastInv` relates the old
  listing to the present table: what was deleted stays deleted, what existed in
  the listing exists or was deleted since. With `ScheduleInv`, what the sweep
  stops was deleted before the listing.
* `NoneOutlivesStart`.
* `DeletionIsKept`, a lemma on one step from `PastInv`: an entry the listing has as
  deleted stays so and gets no goroutine. `AllToldInvariant`: from the end of
  `Start`'s loop on, every goroutine was told to stop.

`WorkerPoolProofs`
* `TypeCorrect`, with the invariant that says which positions have a target, and
  that a worker inside `process` has a job (`TypeInv`).
* `JobAccounting`. `PlaceInv` adds that results are only there for callers that
  wait or were answered. The hardest step is `Take`, which shifts the queue.
* `OwnAnswers` and `CanceledIsTrue`, from `AnswerInv`: a job on its way carries
  the target its caller asked for, also when its check panics, and `canceled` is
  stored only under a done context.
* `NoneOutlivesStart`.
* `PoolIsTargetChecker`: `Spec => TC!Spec`, the safety part of the refinement,
  step by step under `AnswerInv`.

`TargetApiProofs`
* `TypeCorrect` and `RowsOnlyEvolve`, from `ApiInv`: a request in progress is
  known, and one between the two calls of `Service.Update` is an update to a valid
  row under a proper ID. `EffectsEvolve` says what one statement can do, and
  `Evolves` that a step changes one row at most.
* `ApiIsStore`: `Spec => TS!Spec`. Each answer is given by the request's last
  repository call, which is the moment the request takes effect; `Find` that goes
  on to `Replace` is a stuttering step.

`MonitorProofs` instantiates the two proof modules for the composition's
variables.
* `RunsScheduler`: `Spec => Sched!Spec`. A step of the pool leaves the scheduler's
  variables alone.
* `RunsPool`: `Spec => ImplementsPool`. It needs `LinkInv`: a call belongs to a
  goroutine that is inside a check, for the target it runs. Then no step of the
  scheduler renews the context of a goroutine whose call is in progress.
* `WantedAreScheduled`. By the two theorems above, `OrphanInv` (of
  `SchedulerProofs`) and `AnswerInv` (of `WorkerPoolProofs`) hold here. With
  `LinkInv` a job that has a caller is the current call of a live goroutine, for
  the target that goroutine runs (`JobsLinked`), and a goroutine nobody told to
  stop is the one the map names. The theorem is about the map and says nothing of
  the table: until the next pass, a wanted check may be of a row that was deleted or
  changed since the listing. `WantedListedInvariant` below and `ChecksFollow`
  (`ApplicationProofs`) say what relates the two.
* `WantedNeverOverlap`: two wanted checks of one target would have the same caller
  by `WantedAreScheduled`, and the pool has a caller's job in one place
  (`PlaceInv`).
* `WantedListedInvariant`: between passes a wanted check is of what the latest
  listing has (`ScheduleInv` and `WantedAreScheduled`).

`ApplicationProofs` instantiates `TargetApiProofs` and `MonitorProofs` for the
application's variables.
* `RunsMonitor`: `Spec => ImplementsMonitor`. `ApiIsEnvironment` takes each change
  that `Evolves` allows to `CreateTarget`, `UpdateTarget` or `DeleteTarget` on
  `Stored`, or to a stuttering step when the scheduler cannot see it. The types of
  rows come from `ApiInv`. This discharges the assumptions of `Scheduler` about its
  environment, and what is proved of the engine becomes a fact about the API's
  table.
* `RequestsLinearizable` and `WantedChecks`: the results of both parts, in the
  composition. `WantedChecks` relates checks to the running map, as
  `WantedAreScheduled` does, and includes the one slot per target.
* `ChecksFollow`, from `WantedListedInvariant` and the types of rows.
* `DeletionIsFinal`, from `RunsMonitor` and `DeletionIsKept`.
* `RowsAreNormal`, `PostAndPutAlike`, `LegalBodies`, `EditsChangeOneField`, of
  `TargetRules`, for any names, URLs, methods, durations and codes: of the operators,
  without a behaviour. `MadeIsNormal` says that what a body makes is a fixed point of the normalisation, `FieldByField`
  that each field of a row depends on one field of the body.

`CheckerProofs`
* `TypeCorrect`, `OutcomesAreTrue`, `NeverPanicking`, from `CheckerInv`: the reason
  a check's context is done for is a fact of the call in progress. `ObservedResult`
  says what is made of each way a request can end.
* `CheckerIsTargetChecker`: `Spec => Promise!Spec`.

`CadenceProofs`
* `TypeCorrect`, `NeverBursts`, `LatencyNotAdded`, from `TickInv`: the ticker's next
  firing is an interval after the latest start at least if a tick is waiting, and
  at most if none is.

`LifecycleProofs`
* `TypeCorrect`, and `NoConnectionLeaks` by itself (connections move one at a time).
* `CleanShutdown`, `MigratedFirst`, `SchedulerFirst`, `NothingLeftOpen`, from
  `PlaceInv` and `DatabaseInv`: what each place in main says about what is started,
  open, closed or has returned. `UserStepEffect` says what a step of a request, the
  scheduler or a connection cannot do to it.

Only model-checked: every liveness property and the liveness part of the
refinements (temporal proofs with fairness need `ENABLED`, which the prover does
not support): in `Monitor` and `Application`, that changes of the table take effect and
that checks go on. The lemmas named `Same...` say that definitions reached through
two instances are the same.

## 5. Where the code and its documentation differ

Three have a run in which TLC finds the documented claim violated.

1. `monitor_overlap`: "checks never overlap for a single target" and "no target
   can ever occupy more than one queue/worker slot" fail when a target is edited
   while its check runs. What does hold is `OneSlotPerTarget`, the claim for the
   checks somebody wants: at most one of the overlapping checks is still wanted. By
   `WantedJobsAreScheduled` that one is the check of the goroutine, and has the
   configuration, that the running map names.
2. `api_failure`: a database failure during create or update is answered 400 with
   the driver's message, where `docs/api.md` says 500 and a generic message.
3. `lifecycle_close`: "nothing can still be using it by this point" is false of
   `pool.Close` when `Shutdown` gave up after ten seconds: handlers still running
   hold connections or ask for one. What holds is that `Close` waits for the former
   and refuses the latter (`ShutdownCompletes`, `LeavesNothingOpen`).

Others were met while modelling and are stated here without a run:

* `Pool.Start`'s comment says that a worker stops pulling new jobs once the context
  is done; its `select` may still pull some (`WorkerPool`'s `Take`).
* With PostgreSQL a lookup of a malformed UUID is answered 500, with the memory
  repository 404; the documentation says 404 (`TargetApi`'s `LookupError`).
* `"enabled": false` is ignored on create, where `docs/api.md` documents `true` as
  the default of an omitted field (`TargetTypes`).
* `"expected_status_code": 0` is taken for an omitted code and stored as 200, where
  `docs/api.md` says that a code outside 100-599 is answered 400 and that 200 is the
  default of an omitted one (`TargetRules`' `normalizeExpectedStatusCode`;
  `AcceptsLegal` has the rule as it is).
* `target_test.go` says that `New` cannot reach the rule against an empty method; a
  method of nothing but space gets there (`TargetRules`' `normalizeMethod`), and is
  refused as documented.
* `runTarget`'s comment speaks of evenly spaced checks. After a slow check the one
  waiting tick is taken at once, so that the next start may follow sooner than an
  interval; `NoBurst` bounds how much sooner.
* The ticker is created when the first check has returned (`scheduler.go:291-293`), so
  that the duration of this one check shifts the schedule; `LatencyIsNotAdded` is
  about the later ones and exempts it.
* The dialer's own 30 s limit is reported as `timeout`, also when the target's
  timeout is longer (`Checker`'s `dial_timeout`).
* main's comment where it builds the scheduler says that it does not use
  the database; it lists the targets from it.
* A server that fails to listen, or breaks, ends the process with status 0.
* A migration that was interrupted leaves the schema dirty, and every later start
  fails with status 1 until somebody repairs it by hand.

## 6. Not modelled, and the plan

Not modelled, and why:

* Configuration: it reads the environment once, before anything runs concurrently.
  That `WORKER_COUNT` and `QUEUE_SIZE` are positive is an assumption. A
  `QUEUE_SIZE` beyond what can be allocated panics in `make`; that limit is the
  runtime's.
* Middleware: request IDs, logging and recovery keep no state. That a panicking
  handler is answered is part of `Lifecycle` (`Panics`).
* Identifiers: random UUIDs; `TargetApi` takes them as fresh.
* Incident: a value type with one transition that nothing calls. Alert: no code.
* Wording and layout of responses and logs, URL and duration parsing, latency, the
  SQL of the migration, TLS and HTTP themselves.

Left in the plan:

1. `Lifecycle` over `Application` instead of the parts' returns. TLC cannot hold the
   product. `RunsMonitor` and `DeletionIsFinal` show how its safety part would be
   proved; what is interesting about it, that the parts do return, is liveness and
   stays with the runs.
2. `Cadence` under `Scheduler`: a refinement from ticks in discrete time to tickers
   that fire at any moment.
