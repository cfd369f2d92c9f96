-------------------------- MODULE LifecycleProofs --------------------------
(***************************************************************************)
(* Proofs that the safety properties of module Lifecycle hold for any      *)
(* number of requests and any size of the connection pool.                 *)
(***************************************************************************)
EXTENDS Lifecycle, FiniteSetTheorems, TLAPS

(* Before main starts the rest, nothing but main runs.                     *)
Quiet ==
  /\ \A u \in Users : at[u] = "idle"
  /\ held = {} /\ server = "off" /\ ~notify /\ ~ctxDone

(* What each place in main says of the rest of the process: what is        *)
(* started, open, closed or has returned by then.                          *)
PlaceInv ==
  /\ pc \in StartUp \cup {"exit1"} => Quiet
  /\ pc \in Serving => notify
  /\ pc \in {"shutdown", "exit0"} \cup Stopping => server = "closed"
  /\ pc \in {"waitPool", "close", "closing", "exit0"} => at[Sched] = "returned"
  /\ pc \in {"close", "closing", "exit0"} => workersDone
  /\ pc = "exit0" => held = {}

(* And of the database.                                                    *)
DatabaseInv ==
  /\ pc = "connect" => db = "none"
  /\ pc \in {"ping", "migrate", "abort", "stop", "waitScheduler", "waitPool", "close"} \cup Serving =>
       db = "open"
  /\ pc \in {"closing", "exit0"} => db = "closed"
  /\ pc = "exit1" => db # "open"
  /\ pc \in {"connect", "ping"} => migration = "none"
  /\ migration \in {"none", "returned"} => sqlDB # "open"
  /\ pc \in {"abort", "exit0"} \cup Serving \cup Stopping => migration = "returned"
  /\ pc = "exit1" => migration \in {"none", "returned"}

LifecycleInv ==
  /\ TypeOK /\ ConnectionsAccounted /\ PlaceInv /\ DatabaseInv
  /\ RequestsFinish /\ ServesOnlyMigrated /\ SchedulerBeforePool

-----------------------------------------------------------------------------
(* Every step keeps each variable in its type.                             *)
LEMMA TypeStep == TypeOK /\ [Next]_vars => TypeOK'
<1> SUFFICES ASSUME TypeOK, [Next]_vars PROVE TypeOK'
  OBVIOUS
<1> DEFINE BooleansOK ==
             /\ ctxDone \in BOOLEAN /\ notify \in BOOLEAN
             /\ timedOut \in BOOLEAN /\ workersDone \in BOOLEAN
<1> USE DEF TypeOK, mainVars, signalVars, dbVars, userVars, Users,
            StartUp, Serving, Stopping, Exited
<1>1. CASE OpenPool \/ Ping
  BY <1>1 DEF OpenPool, Ping
<1>2. CASE MigrateStep
  <2>1. migration' \in {"open", "driver", "source", "migrator"}
    BY <1>2 DEF MigrateStep, AfterStage
  <2> QED
    BY <1>2, <2>1 DEF MigrateStep
<1>3. CASE MigrateUp \/ MigrateFailed \/ Migrated
  <2>1. BooleansOK'
    BY <1>3 DEF MigrateUp, MigrateFailed, Migrated
  <2> QED
    BY <1>3, <2>1 DEF MigrateUp, MigrateFailed, Migrated
<1>3a. CASE OpenFails \/ DriverFails \/ SourceFails \/ MigratorFails \/ UpFails
  BY <1>3a DEF OpenFails, DriverFails, SourceFails, MigratorFails, UpFails, FailsAt
<1>4. CASE LeaveSelect \/ ShutdownReturns \/ ShutdownTimesOut \/ StopCalled
  <2>1. BooleansOK'
    BY <1>4 DEF LeaveSelect, ShutdownReturns, ShutdownTimesOut, StopCalled
  <2> QED
    BY <1>4, <2>1 DEF LeaveSelect, ShutdownReturns, ShutdownTimesOut, StopCalled
<1>5. CASE WaitScheduler \/ WaitPool \/ ClosePool \/ MainReturns
  BY <1>5 DEF WaitScheduler, WaitPool, ClosePool, MainReturns
<1>6. CASE Signal \/ ListenAndServe \/ WorkersReturn
  <2>1. BooleansOK'
    BY <1>6 DEF Signal, ListenAndServe, WorkersReturn
  <2> QED
    BY <1>6, <2>1 DEF Signal, ListenAndServe, WorkersReturn
<1>7. CASE SchedulerLists \/ SchedulerReturns
  BY <1>7 DEF SchedulerLists, SchedulerReturns
<1>8. ASSUME NEW r \in Requests, Request(r) PROVE TypeOK'
  BY <1>8 DEF Request, Accept, Drop, Begin, Call, Respond, Panics
<1>9. ASSUME NEW u \in Users, Database(u) PROVE TypeOK'
  <2>1. AfterCall(u) \in {"idle", "handling"}
    BY DEF AfterCall
  <2>2. CASE Acquire(u) \/ Release(u)
    BY <2>1, <2>2 DEF Acquire, Release
  <2>3. CASE GiveUp(u)
    BY <2>1, <2>3 DEF GiveUp
  <2> QED
    BY <1>9, <2>2, <2>3 DEF Database, Breaks, Refused
<1>10. CASE Crash \/ Restart
  <2>1. BooleansOK'
    BY <1>10 DEF Crash, Restart, FreshProcess
  <2> QED
    BY <1>10, <2>1 DEF Crash, Restart, FreshProcess
<1>11. CASE UNCHANGED vars
  BY <1>11 DEF vars
<1> QED
  BY <1>1, <1>2, <1>3, <1>4, <1>5, <1>6, <1>7, <1>8, <1>9, <1>10, <1>11, <1>3a
     DEF Next, Main

(* Connections are taken and given back by the steps into and out of a     *)
(* query only, one at a time and only when one is free.                    *)
LEMMA ConnectionsStep ==
  TypeOK /\ ConnectionsAccounted /\ [Next]_vars => ConnectionsAccounted'
<1> SUFFICES ASSUME TypeOK, ConnectionsAccounted, [Next]_vars PROVE ConnectionsAccounted'
  OBVIOUS
<1>0. IsFiniteSet(held) /\ Cardinality(held) \in Nat
  <2>1. IsFiniteSet(Users)
    BY LifecycleAssumption, FS_AddElement DEF Users
  <2> QED
    BY <2>1, FS_Subset, FS_CardinalityType DEF TypeOK
<1>a. at \in [Users -> {"idle", "accepted", "handling", "acquire", "query", "returned"}]
  BY DEF TypeOK
<1>b. Requests \subseteq Users /\ Sched \in Users
  BY DEF Users
<1> USE DEF ConnectionsAccounted, mainVars, userVars
<1>1. CASE UNCHANGED userVars
  BY <1>1
<1>2. CASE Main \/ Signal \/ ListenAndServe \/ WorkersReturn
  BY <1>1, <1>2
     DEF Main, OpenPool, Ping, MigrateStep, MigrateUp, Migrated, OpenFails, DriverFails,
         SourceFails, MigratorFails, UpFails, FailsAt, MigrateFailed, LeaveSelect,
         ShutdownReturns, ShutdownTimesOut, StopCalled, WaitScheduler, WaitPool, ClosePool,
         MainReturns, Signal, ListenAndServe, WorkersReturn
<1>3. ASSUME NEW u \in Users, held' = held, at[u] # "query",
             NEW x \in {"idle", "accepted", "handling", "acquire", "returned"},
             at' = [at EXCEPT ![u] = x]
      PROVE ConnectionsAccounted'
  BY <1>a, <1>3
<1>4. CASE SchedulerLists \/ SchedulerReturns
  BY <1>b, <1>3, <1>4 DEF SchedulerLists, SchedulerReturns
<1>5. ASSUME NEW r \in Requests, Request(r) PROVE ConnectionsAccounted'
  BY <1>b, <1>3, <1>5 DEF Request, Accept, Drop, Begin, Call, Respond, Panics
<1>6. ASSUME NEW u \in Users, Acquire(u) PROVE ConnectionsAccounted'
  <2>1. u \notin held /\ held' = held \cup {u}
    BY <1>6 DEF Acquire
  <2>2. Cardinality(held') = Cardinality(held) + 1
    BY <1>0, <2>1, FS_AddElement
  <2>3. held' = {v \in Users : at'[v] = "query"}
    BY <1>a, <1>6 DEF Acquire
  <2> QED
    BY <1>0, <1>6, <2>2, <2>3, LifecycleAssumption DEF Acquire
<1>7. ASSUME NEW u \in Users, held' = held \ {u}, at' = [at EXCEPT ![u] = AfterCall(u)]
      PROVE ConnectionsAccounted'
  <2>1. AfterCall(u) # "query"
    BY DEF AfterCall
  <2>2. held' = {v \in Users : at'[v] = "query"}
    BY <1>a, <1>7, <2>1
  <2>3. Cardinality(held') <= Cardinality(held) /\ Cardinality(held') \in Nat
    BY <1>0, <1>7, FS_Subset, FS_CardinalityType
  <2> QED
    BY <1>0, <2>2, <2>3, LifecycleAssumption
<1>8. ASSUME NEW u \in Users, Database(u) PROVE ConnectionsAccounted'
  BY <1>6, <1>7, <1>8 DEF Database, Release, Breaks, Refused, GiveUp
<1>9. CASE Crash \/ Restart
  <2>1. held' = {} /\ held' = {v \in Users : at'[v] = "query"}
    BY <1>9 DEF Crash, Restart, FreshProcess
  <2> QED
    BY <2>1, FS_EmptySet, LifecycleAssumption
<1> QED
  BY <1>1, <1>2, <1>4, <1>5, <1>8, <1>9 DEF Next, vars

-----------------------------------------------------------------------------
(* What a step of the users may do: none starts or ends for good but the   *)
(* scheduler, which only returns when the context is done.                 *)
UserStep ==
  \/ SchedulerLists \/ SchedulerReturns
  \/ \E r \in Requests : Request(r)
  \/ \E u \in Users : Database(u)

(* A step of the users leaves main and the database alone, is none of a    *)
(* process that has exited or is quiet, never takes the scheduler's return *)
(* back, and begins a request only while the server takes them.            *)
LEMMA UserStepEffect ==
  ASSUME TypeOK, UserStep
  PROVE  /\ pc \notin Exited /\ UNCHANGED mainVars
         /\ pc \in StartUp => ~Quiet
         /\ at[Sched] = "returned" => at'[Sched] = "returned"
         /\ server = "closed" =>
              \A r \in Requests : at[r] = "idle" => at'[r] = "idle"
<1> USE DEF TypeOK
<1>1. CASE SchedulerLists \/ SchedulerReturns
  BY <1>1, LifecycleAssumption
     DEF SchedulerLists, SchedulerReturns, Quiet, Users, StartUp, Serving, Stopping, Exited
<1>2. ASSUME NEW r \in Requests, Request(r) PROVE
        /\ pc \notin Exited /\ UNCHANGED mainVars
        /\ pc \in StartUp => ~Quiet
        /\ at'[Sched] = at[Sched]
        /\ server = "closed" => at[r] # "idle" /\ \A q \in Requests \ {r} : at'[q] = at[q]
  BY <1>2, LifecycleAssumption DEF Request, Accept, Drop, Begin, Call, Respond, Panics, Quiet, Users
<1>3. ASSUME NEW u \in Users, Database(u) PROVE
        /\ pc \notin Exited /\ UNCHANGED mainVars
        /\ at[u] \in {"acquire", "query"}
        /\ \A v \in Users \ {u} : at'[v] = at[v]
  BY <1>3 DEF Database, Acquire, Release, Breaks, Refused, GiveUp
<1>4. CASE \E r \in Requests : Request(r)
  BY <1>2, <1>4
<1>5. CASE \E u \in Users : Database(u)
  BY <1>3, <1>5 DEF Users, Quiet
<1> QED
  BY <1>1, <1>4, <1>5 DEF UserStep

-----------------------------------------------------------------------------
StateInv ==
  PlaceInv /\ DatabaseInv /\ RequestsFinish /\ ServesOnlyMigrated /\ SchedulerBeforePool

(* main, signals and failures move the process from one place to the next  *)
(* only when what the next place says has come true.                       *)
LEMMA StateStep == TypeOK /\ StateInv /\ [Next]_vars => StateInv'
<1> SUFFICES ASSUME TypeOK, StateInv, [Next]_vars PROVE StateInv'
  OBVIOUS
<1> USE DEF StateInv, PlaceInv, DatabaseInv, Quiet, RequestsFinish, ServesOnlyMigrated,
            SchedulerBeforePool, StartUp, Serving, Stopping, Exited,
            mainVars, signalVars, dbVars, userVars
<1>1. CASE OpenPool
  BY <1>1 DEF OpenPool
<1>2. CASE Ping
  BY <1>2 DEF Ping
<1>3. CASE MigrateStep
  BY <1>3 DEF MigrateStep, AfterStage
<1>4. CASE MigrateUp
  BY <1>4 DEF MigrateUp
<1>5. CASE OpenFails \/ DriverFails \/ SourceFails \/ MigratorFails \/ UpFails
  BY <1>5 DEF OpenFails, DriverFails, SourceFails, MigratorFails, UpFails, FailsAt
<1>5a. CASE MigrateFailed
  BY <1>5a DEF MigrateFailed
<1>6. CASE Migrated
  BY <1>6 DEF Migrated, Users
<1>7. CASE LeaveSelect
  BY <1>7 DEF LeaveSelect
<1>8. CASE ShutdownReturns
  BY <1>8 DEF ShutdownReturns
<1>9. CASE ShutdownTimesOut
  BY <1>9 DEF ShutdownTimesOut
<1>10. CASE StopCalled
  BY <1>10 DEF StopCalled
<1>11. CASE WaitScheduler
  BY <1>11 DEF WaitScheduler
<1>12. CASE WaitPool
  BY <1>12 DEF WaitPool
<1>13. CASE ClosePool
  BY <1>13 DEF ClosePool
<1>14. CASE MainReturns
  BY <1>14 DEF MainReturns
<1>15. CASE Signal
  BY <1>15, TypeOK DEF Signal, TypeOK, Users
<1>16. CASE ListenAndServe
  BY <1>16 DEF ListenAndServe
<1>17. CASE WorkersReturn
  BY <1>17 DEF WorkersReturn
<1>18. CASE UserStep
  BY <1>18, UserStepEffect
<1>19. CASE Crash \/ Restart
  BY <1>19 DEF Crash, Restart, FreshProcess
<1>20. CASE UNCHANGED vars
  BY <1>20 DEF vars
<1> QED
  BY <1>1, <1>2, <1>3, <1>4, <1>5, <1>6, <1>7, <1>8, <1>9, <1>10, <1>11, <1>12, <1>13, <1>14,
     <1>15, <1>16, <1>17, <1>18, <1>19, <1>20, <1>5a DEF Next, Main, UserStep

(* The process begins with nothing running and no connection.              *)
LEMMA LifecycleInit == Init => LifecycleInv
<1> SUFFICES ASSUME Init PROVE LifecycleInv
  OBVIOUS
<1> USE DEF Init, Users
<1>1. TypeOK
  <2>1. /\ ctxDone \in BOOLEAN /\ notify \in BOOLEAN
        /\ timedOut \in BOOLEAN /\ workersDone \in BOOLEAN
    OBVIOUS
  <2> QED
    BY <2>1 DEF TypeOK, StartUp
<1>2. ConnectionsAccounted
  BY FS_EmptySet, LifecycleAssumption DEF ConnectionsAccounted
<1>3. StateInv
  BY DEF StateInv, PlaceInv, DatabaseInv, Quiet, RequestsFinish, ServesOnlyMigrated,
         SchedulerBeforePool, StartUp, Serving, Stopping
<1> QED
  BY <1>1, <1>2, <1>3 DEF LifecycleInv, StateInv

LEMMA LifecycleStep == LifecycleInv /\ [Next]_vars => LifecycleInv'
BY TypeStep, ConnectionsStep, StateStep DEF LifecycleInv, StateInv

LEMMA LifecycleInvariant == Spec => []LifecycleInv
BY LifecycleInit, LifecycleStep, PTL DEF Spec

-----------------------------------------------------------------------------
(* The process's state is in its types, for any requests and any pool.     *)
THEOREM TypeCorrect == Spec => []TypeOK
<1>1. LifecycleInv => TypeOK
  BY DEF LifecycleInv
<1> QED
  BY <1>1, LifecycleInvariant, PTL

(* A connection is held by whoever is inside a statement and by nobody     *)
(* else, and there are never more than the pool's size.                    *)
THEOREM NoConnectionLeaks == Spec => []ConnectionsAccounted
<1>1. LifecycleInv => ConnectionsAccounted
  BY DEF LifecycleInv
<1> QED
  BY <1>1, LifecycleInvariant, PTL

(* A shutdown the server calls clean, and a second signal, cut no request  *)
(* short.                                                                  *)
THEOREM CleanShutdown == Spec => []RequestsFinish
<1>1. LifecycleInv => RequestsFinish
  BY DEF LifecycleInv
<1> QED
  BY <1>1, LifecycleInvariant, PTL

(* After any crashes and restarts the process serves a whole schema only.  *)
THEOREM MigratedFirst == Spec => []ServesOnlyMigrated
<1>1. LifecycleInv => ServesOnlyMigrated
  BY DEF LifecycleInv
<1> QED
  BY <1>1, LifecycleInvariant, PTL

(* The scheduler never meets a closed pool.                                *)
THEOREM SchedulerFirst == Spec => []SchedulerBeforePool
<1>1. LifecycleInv => SchedulerBeforePool
  BY DEF LifecycleInv
<1> QED
  BY <1>1, LifecycleInvariant, PTL

(* A process that exits by itself leaves nothing open or running behind.   *)
THEOREM NothingLeftOpen == Spec => []LeavesNothingOpen
<1>1. LifecycleInv => LeavesNothingOpen
  BY DEF LifecycleInv, PlaceInv, DatabaseInv, Quiet, LeavesNothingOpen
<1> QED
  BY <1>1, LifecycleInvariant, PTL
=============================================================================
