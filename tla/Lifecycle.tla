----------------------------- MODULE Lifecycle -----------------------------
(***************************************************************************)
(* The process: main's start-up and shutdown (cmd/api-monitor/main.go),    *)
(* the HTTP server with its requests in progress, the scheduler as the     *)
(* other user of the database, and the pool of connections they share      *)
(* (internal/storage/postgres/pool.go).                                    *)
(*                                                                         *)
(* main is one goroutine with a program counter.  The scheduler and the    *)
(* worker pool are reduced to what main sees of them: they run until the   *)
(* context is done and then return, which module Monitor shows they do.    *)
(* http.Server, pgxpool and os/signal are libraries, modelled from the     *)
(* way main uses them.  Durations are not: a time-out may expire at any    *)
(* moment, and does if what it waits for never comes.                      *)
(***************************************************************************)
EXTENDS Integers, FiniteSets

CONSTANTS
  Requests,   \* HTTP requests that may be in progress at the same time
  Sched,      \* the scheduler, as a user of the connection pool
  MaxConns    \* size of the connection pool

ASSUME LifecycleAssumption ==
  /\ IsFiniteSet(Requests) /\ Sched \notin Requests
  /\ MaxConns \in Nat \ {0}

VARIABLES
  pc,           \* where main is
  ctxDone,      \* the context of signal.NotifyContext is done
  notify,       \* signals go to that context, and no longer kill the process
  server,       \* http.Server
  timedOut,     \* Shutdown gave up
  workersDone,  \* worker.Pool.Start has returned
  migration,    \* how far Migrate has got
  sqlDB,        \* its own short-lived sql.DB
  schema,       \* golang-migrate's record in the database; outlives the process
  db,           \* the pgxpool.Pool
  at,           \* where each user of db is
  left,         \* repository calls a request is still going to make
  held          \* the users that hold one of db's connections

signalVars == <<ctxDone, notify>>
dbVars     == <<migration, sqlDB, schema, db>>
mainVars   == <<pc, signalVars, server, timedOut, workersDone, dbVars>>
userVars   == <<at, left, held>>
vars       == <<mainVars, userVars>>

Users == Requests \cup {Sched}

StartUp   == {"connect", "ping", "migrate", "abort"}
Serving   == {"serve", "shutdown"}
Stopping  == {"stop", "waitScheduler", "waitPool", "close", "closing"}
Exited    == {"exit0", "exit1", "killed", "crashed"}

Init ==
  /\ pc = "connect" /\ ctxDone = FALSE /\ notify = FALSE
  /\ server = "off" /\ timedOut = FALSE /\ workersDone = FALSE
  /\ migration = "none" /\ sqlDB = "none" /\ schema = "empty" /\ db = "none"
  /\ at = [u \in Users |-> "idle"]
  /\ left = [r \in Requests |-> 0]
  /\ held = {}

-----------------------------------------------------------------------------
(* Start-up.  NewPool makes the pool and pings; a failure of either stops  *)
(* the program with status 1.                                              *)
OpenPool ==
  /\ pc = "connect"
  /\ \/ pc' = "ping"  /\ db' = "open"
     \/ pc' = "exit1" /\ db' = db
  /\ UNCHANGED <<signalVars, server, timedOut, workersDone, migration, sqlDB, schema,
                 userVars>>

Ping ==
  /\ pc = "ping"
  /\ \/ pc' = "migrate" /\ db' = db
     \/ pc' = "exit1"   /\ db' = "closed"
  /\ UNCHANGED <<signalVars, server, timedOut, workersDone, migration, sqlDB, schema,
                 userVars>>

(* Migrate opens a sql.DB of its own, then builds the driver, the source   *)
(* and the migrator.                                                       *)
AfterStage == [none |-> "open", open |-> "driver", driver |-> "source", source |-> "migrator"]

MigrateStep ==
  /\ pc = "migrate" /\ migration \in DOMAIN AfterStage
  /\ migration' = AfterStage[migration]
  /\ sqlDB' = "open"
  /\ UNCHANGED <<pc, signalVars, server, timedOut, workersDone, schema, db, userVars>>

(* Migrate returns an error from the given stage; main goes on to give up. *)
FailsAt(stages) ==
  /\ pc = "migrate" /\ migration \in stages
  /\ migration' = "returned" /\ pc' = "abort"
  /\ UNCHANGED <<signalVars, server, timedOut, workersDone, schema, db, userVars>>

(* sql.Open fails, and there is nothing to close.                          *)
OpenFails == FailsAt({"none"}) /\ sqlDB' = sqlDB

(* pgxmigrate.WithInstance fails: db.Close.                                *)
DriverFails == FailsAt({"open"}) /\ sqlDB' = "closed"

(* Mutant: the sql.DB is left to the deferred m.Close, which is not there. *)
SourceFailsOpen == FailsAt({"driver"}) /\ sqlDB' = sqlDB

(* iofs.New fails: db.Close.                                               *)
SourceFails == FailsAt({"driver"}) /\ sqlDB' = "closed"

(* migrate.NewWithInstance fails: db.Close.                                *)
MigratorFails == FailsAt({"source"}) /\ sqlDB' = "closed"

(* Up marks the schema as dirty while its statements run.                  *)
MigrateUp ==
  /\ pc = "migrate" /\ migration = "migrator" /\ schema = "empty"
  /\ migration' = "running" /\ schema' = "dirty"
  /\ UNCHANGED <<pc, signalVars, server, timedOut, workersDone, sqlDB, db, userVars>>

(* Up fails, at once or in the middle, and always on a schema it finds     *)
(* dirty: the deferred m.Close closes driver and sql.DB.                   *)
UpFails == FailsAt({"migrator", "running"}) /\ sqlDB' = "closed"

(* main gives up: pool.Close and os.Exit(1).                               *)
MigrateFailed ==
  /\ pc = "abort"
  /\ db' = "closed" /\ pc' = "exit1"
  /\ UNCHANGED <<signalVars, server, timedOut, workersDone, migration, sqlDB, schema,
                 userVars>>

(* Mutant: Up's error for a dirty schema is ignored as ErrNoChange is.     *)
MigratedOrDirty ==
  /\ pc = "migrate"
  /\ migration = "running" \/ (migration = "migrator" /\ schema # "empty")
  /\ migration' = "returned" /\ sqlDB' = "closed"
  /\ schema' = IF migration = "running" THEN "applied" ELSE schema
  /\ pc' = "serve" /\ notify' = TRUE
  /\ UNCHANGED <<ctxDone, server, timedOut, workersDone, db, userVars>>

(* Up ran its statements, or has nothing to do (ErrNoChange), and m.Close  *)
(* ran.  main wires the rest: signals go to ctx from now on, and the       *)
(* server, the workers and the scheduler are started.                      *)
Migrated ==
  /\ pc = "migrate"
  /\ migration = "running" \/ (migration = "migrator" /\ schema = "applied")
  /\ migration' = "returned" /\ sqlDB' = "closed" /\ schema' = "applied"
  /\ pc' = "serve" /\ notify' = TRUE
  /\ UNCHANGED <<ctxDone, server, timedOut, workersDone, db, userVars>>

-----------------------------------------------------------------------------
(* SIGINT or SIGTERM: the first one cancels ctx, later ones are swallowed  *)
(* until stop() gives the signal back its default effect.                  *)
Signal ==
  /\ pc \notin Exited
  /\ IF notify THEN ctxDone' = TRUE /\ pc' = pc
               ELSE pc' = "killed"  /\ ctxDone' = ctxDone
  /\ UNCHANGED <<notify, server, timedOut, workersDone, dbVars, userVars>>

(* The goroutine of ListenAndServe: it listens or fails to, and a listener *)
(* may break later while connections already made are still served.        *)
ListenAndServe ==
  /\ pc = "serve"
  /\ \/ server = "off" /\ server' \in {"listening", "failed"}
     \/ server = "listening" /\ server' = "broken"
  /\ UNCHANGED <<pc, signalVars, timedOut, workersDone, dbVars, userVars>>

(* Mutant: stop() is called at once, so that a second signal kills.        *)
LeaveSelectAndStop ==
  /\ pc = "serve"
  /\ ctxDone \/ server \in {"failed", "broken"}
  /\ pc' = "shutdown" /\ server' = "closed"
  /\ ctxDone' = TRUE /\ notify' = FALSE
  /\ UNCHANGED <<timedOut, workersDone, dbVars, userVars>>

(* main's select.  Shutdown starts by closing the listener and the idle    *)
(* connections; one that was accepted and has not sent its request yet is  *)
(* left, and may still send it.                                            *)
LeaveSelect ==
  /\ pc = "serve"
  /\ ctxDone \/ server \in {"failed", "broken"}
  /\ pc' = "shutdown" /\ server' = "closed"
  /\ UNCHANGED <<signalVars, timedOut, workersDone, dbVars, userVars>>

(* Shutdown returns when no request is in progress and no accepted         *)
(* connection is waiting for one, or after ten seconds.                    *)
ShutdownReturns ==
  /\ pc = "shutdown"
  /\ \A r \in Requests : at[r] = "idle"
  /\ pc' = "stop"
  /\ UNCHANGED <<signalVars, server, timedOut, workersDone, dbVars, userVars>>

ShutdownTimesOut ==
  /\ pc = "shutdown"
  /\ pc' = "stop" /\ timedOut' = TRUE
  /\ UNCHANGED <<signalVars, server, workersDone, dbVars, userVars>>

(* Mutant: stop() only runs when main returns.                             *)
StopDeferred ==
  /\ pc = "stop"
  /\ pc' = "waitScheduler"
  /\ UNCHANGED <<signalVars, server, timedOut, workersDone, dbVars, userVars>>

StopCalled ==
  /\ pc = "stop"
  /\ pc' = "waitScheduler" /\ ctxDone' = TRUE /\ notify' = FALSE
  /\ UNCHANGED <<server, timedOut, workersDone, dbVars, userVars>>

(* Mutant: main does not wait for the scheduler.                           *)
NoWaitScheduler ==
  /\ pc = "waitScheduler"
  /\ pc' = "waitPool"
  /\ UNCHANGED <<signalVars, server, timedOut, workersDone, dbVars, userVars>>

WaitScheduler ==
  /\ pc = "waitScheduler" /\ at[Sched] = "returned"
  /\ pc' = "waitPool"
  /\ UNCHANGED <<signalVars, server, timedOut, workersDone, dbVars, userVars>>

WaitPool ==
  /\ pc = "waitPool" /\ workersDone
  /\ pc' = "close"
  /\ UNCHANGED <<signalVars, server, timedOut, workersDone, dbVars, userVars>>

(* pool.Close refuses new users at once and waits for the connections that *)
(* are in use.                                                             *)
ClosePool ==
  /\ pc = "close"
  /\ pc' = "closing" /\ db' = "closed"
  /\ UNCHANGED <<signalVars, server, timedOut, workersDone, migration, sqlDB, schema,
                 userVars>>

MainReturns ==
  /\ pc = "closing" /\ held = {}
  /\ pc' = "exit0"
  /\ UNCHANGED <<signalVars, server, timedOut, workersDone, dbVars, userVars>>

-----------------------------------------------------------------------------
(* The users of the database run until the process exits.                  *)

(* A connection is made, and its request has not been read yet.            *)
Accept(r) ==
  /\ pc \notin Exited /\ at[r] = "idle" /\ server = "listening"
  /\ at' = [at EXCEPT ![r] = "accepted"]
  /\ UNCHANGED <<mainVars, left, held>>

(* The client leaves, ReadTimeout passes, or Shutdown takes a connection   *)
(* that stays silent for idle.                                             *)
Drop(r) ==
  /\ pc \notin Exited /\ at[r] = "accepted"
  /\ at' = [at EXCEPT ![r] = "idle"]
  /\ UNCHANGED <<mainVars, left, held>>

(* A request is read from a new connection, or from an idle one that was   *)
(* kept alive and that a Shutdown would have closed.  It makes no          *)
(* repository call (health, a bad body), one, or two (an update).          *)
Begin(r) ==
  /\ pc \notin Exited
  /\ at[r] = "accepted" \/ (at[r] = "idle" /\ server \in {"listening", "broken"})
  /\ at' = [at EXCEPT ![r] = "handling"]
  /\ \E n \in 0..2 : left' = [left EXCEPT ![r] = n]
  /\ UNCHANGED <<mainVars, held>>

Call(r) ==
  /\ pc \notin Exited /\ at[r] = "handling" /\ left[r] > 0
  /\ at' = [at EXCEPT ![r] = "acquire"]
  /\ left' = [left EXCEPT ![r] = @ - 1]
  /\ UNCHANGED <<mainVars, held>>

Respond(r) ==
  /\ pc \notin Exited /\ at[r] = "handling" /\ left[r] = 0
  /\ at' = [at EXCEPT ![r] = "idle"]
  /\ UNCHANGED <<mainVars, left, held>>

(* A handler panics: Recovery answers for it.                              *)
Panics(r) ==
  /\ pc \notin Exited /\ at[r] = "handling"
  /\ at' = [at EXCEPT ![r] = "idle"]
  /\ left' = [left EXCEPT ![r] = 0]
  /\ UNCHANGED <<mainVars, held>>

(* A reconciliation lists the targets.                                     *)
SchedulerLists ==
  /\ pc \in Serving \cup Stopping /\ at[Sched] = "idle"
  /\ at' = [at EXCEPT ![Sched] = "acquire"]
  /\ UNCHANGED <<mainVars, left, held>>

SchedulerReturns ==
  /\ pc \notin Exited /\ at[Sched] = "idle" /\ ctxDone
  /\ at' = [at EXCEPT ![Sched] = "returned"]
  /\ UNCHANGED <<mainVars, left, held>>

WorkersReturn ==
  /\ pc \notin Exited /\ ctxDone /\ ~workersDone
  /\ workersDone' = TRUE
  /\ UNCHANGED <<pc, signalVars, server, timedOut, dbVars, userVars>>

Acquire(u) ==
  /\ pc \notin Exited /\ at[u] = "acquire"
  /\ db = "open" /\ Cardinality(held) < MaxConns
  /\ at' = [at EXCEPT ![u] = "query"]
  /\ held' = held \cup {u}
  /\ UNCHANGED <<mainVars, left>>

(* Where a user is after a repository call.                                *)
AfterCall(u) == IF u = Sched THEN "idle" ELSE "handling"

(* Mutant: List does not close its rows.                                   *)
ReleaseLeaks(u) ==
  /\ pc \notin Exited /\ at[u] = "query"
  /\ at' = [at EXCEPT ![u] = AfterCall(u)]
  /\ UNCHANGED <<mainVars, left, held>>

(* A repository call is over and its connection is back in the pool.       *)
Release(u) ==
  /\ pc \notin Exited /\ at[u] = "query"
  /\ at' = [at EXCEPT ![u] = AfterCall(u)]
  /\ held' = held \ {u}
  /\ UNCHANGED <<mainVars, left>>

(* Mutant: a call that fails is made again, without a limit.               *)
GiveUpRetries(u) ==
  /\ at' = [at EXCEPT ![u] = "acquire"]
  /\ held' = held \ {u}
  /\ UNCHANGED <<mainVars, left>>

(* A failing call ends the request's work with an error answer.            *)
GiveUp(u) ==
  /\ at' = [at EXCEPT ![u] = AfterCall(u)]
  /\ left' = [r \in Requests |-> IF r = u THEN 0 ELSE left[r]]
  /\ held' = held \ {u}
  /\ UNCHANGED mainVars

(* The database or the client goes away, or a connection cannot be made.   *)
Breaks(u) == pc \notin Exited /\ at[u] \in {"acquire", "query"} /\ GiveUp(u)

(* A closed pool refuses everybody, and a context that is done ends the    *)
(* scheduler's wait for a connection.                                      *)
Refused(u) ==
  /\ pc \notin Exited /\ at[u] = "acquire"
  /\ db # "open" \/ (u = Sched /\ ctxDone)
  /\ GiveUp(u)

-----------------------------------------------------------------------------
(* The process may die at any moment.  A process that is gone, for         *)
(* whatever reason, may be started again on the same database.             *)
FreshProcess ==
  /\ ctxDone' = FALSE /\ notify' = FALSE
  /\ server' = "off" /\ timedOut' = FALSE /\ workersDone' = FALSE
  /\ migration' = "none" /\ sqlDB' = "none" /\ db' = "none"
  /\ at' = [u \in Users |-> "idle"]
  /\ left' = [r \in Requests |-> 0]
  /\ held' = {}
  /\ UNCHANGED schema

Crash   == pc \notin Exited /\ pc' = "crashed" /\ FreshProcess
Restart == pc \in Exited /\ pc' = "connect" /\ FreshProcess

Main ==
  \/ OpenPool \/ Ping
  \/ MigrateStep \/ MigrateUp \/ Migrated
  \/ OpenFails \/ DriverFails \/ SourceFails \/ MigratorFails \/ UpFails \/ MigrateFailed
  \/ LeaveSelect \/ ShutdownReturns \/ ShutdownTimesOut \/ StopCalled
  \/ WaitScheduler \/ WaitPool \/ ClosePool \/ MainReturns

Request(r) ==
  Accept(r) \/ Drop(r) \/ Begin(r) \/ Call(r) \/ Respond(r) \/ Panics(r)
Database(u) == Acquire(u) \/ Release(u) \/ Breaks(u) \/ Refused(u)

Next ==
  \/ Main
  \/ Signal \/ ListenAndServe
  \/ SchedulerLists \/ SchedulerReturns \/ WorkersReturn
  \/ \E r \in Requests : Request(r)
  \/ \E u \in Users : Database(u)
  \/ Crash \/ Restart

Spec == Init /\ [][Next]_vars

(* main and the handlers take their steps, ten seconds pass, statements    *)
(* end and waiters get a free connection in turn (pgxpool serves them in   *)
(* order).  The scheduler's select prefers neither ctx nor its ticker, so  *)
(* it does not choose another pass for ever.  Nobody has to send a request *)
(* or a signal or to start the process again, and nothing has to fail.     *)
Fairness ==
  /\ WF_vars(Main) /\ SF_vars(SchedulerReturns) /\ WF_vars(WorkersReturn)
  /\ \A r \in Requests : WF_vars(Call(r) \/ Respond(r))
  /\ \A u \in Users : SF_vars(Acquire(u)) /\ WF_vars(Release(u) \/ Refused(u))

FairSpec == Spec /\ Fairness

-----------------------------------------------------------------------------
(* The variables hold values of their types.                               *)
TypeOK ==
  /\ pc \in StartUp \cup Serving \cup Stopping \cup Exited
  /\ ctxDone \in BOOLEAN /\ notify \in BOOLEAN
  /\ timedOut \in BOOLEAN /\ workersDone \in BOOLEAN
  /\ server \in {"off", "listening", "failed", "broken", "closed"}
  /\ migration \in {"none", "open", "driver", "source", "migrator", "running", "returned"}
  /\ sqlDB \in {"none", "open", "closed"}
  /\ schema \in {"empty", "dirty", "applied"}
  /\ db \in {"none", "open", "closed"}
  /\ at \in [Users -> {"idle", "accepted", "handling", "acquire", "query", "returned"}]
  /\ left \in [Requests -> 0..2]
  /\ held \subseteq Users

(* pool.go's ten connections: exactly the users inside a statement hold    *)
(* one, whatever failed before, and there are never more than MaxConns.    *)
ConnectionsAccounted ==
  /\ held = {u \in Users : at[u] = "query"}
  /\ Cardinality(held) <= MaxConns

(* main.go: a shutdown that the server called clean, and a second signal   *)
(* during a shutdown, cut no request short: once Shutdown has returned nil *)
(* or the process was killed no request is in progress, and none comes.    *)
RequestsFinish ==
  pc \in Stopping \cup {"exit0", "killed"} /\ ~timedOut =>
    \A r \in Requests : at[r] = "idle"

(* pool.go: it is safe to migrate at every start.  Whenever the process    *)
(* died before, in the middle of a migration too, it never serves on a     *)
(* schema that is not wholly there.                                        *)
ServesOnlyMigrated == pc \in Serving \cup Stopping => schema = "applied"

(* The scheduler never meets a closed pool: main closes it only after the  *)
(* scheduler has returned, on either way out of main's select.             *)
SchedulerBeforePool ==
  db = "closed" => at[Sched] = "returned" \/ pc = "exit1"

(* A process that exits by itself leaves nothing open and nobody running   *)
(* behind, whichever stage of the start-up fails: each error path closes   *)
(* what the stages before it opened.                                       *)
LeavesNothingOpen ==
  pc \in {"exit0", "exit1"} =>
    /\ db # "open" /\ sqlDB # "open" /\ held = {}
    /\ pc = "exit0" => workersDone /\ at[Sched] = "returned"

(* A signal, or a server that fails, always ends the process, whatever the *)
(* requests, the scheduler and the connections are doing.                  *)
ShutdownCompletes ==
  ctxDone \/ server \in {"failed", "broken"} ~> pc \in Exited

(* Every request that was read is answered unless the process exits first: *)
(* no number of requests can lock one another out of the connection pool.  *)
RequestsAnswered ==
  \A r \in Requests : at[r] = "handling" ~> at[r] = "idle" \/ pc \in Exited

(* A reconciliation always gets its connection or an error: requests       *)
(* cannot starve it.                                                       *)
SchedulerNotStarved == at[Sched] = "acquire" ~> at[Sched] # "acquire" \/ pc \in Exited

(* main.go, before pool.Close: "nothing can still be using it by this      *)
(* point".                                                                 *)
NothingUsesPoolAtClose ==
  pc = "closing" => \A r \in Requests : at[r] \notin {"acquire", "query"}
=============================================================================
