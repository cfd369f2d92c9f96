------------------------------ MODULE Monitor ------------------------------
(***************************************************************************)
(* The monitoring engine main.go wires together: the Scheduler's Checker   *)
(* is the worker pool, and both run under one context, the one that        *)
(* signal.NotifyContext cancels.                                           *)
(*                                                                         *)
(* Each per-target goroutine of module Scheduler is a caller of module     *)
(* WorkerPool, and the context it passes is its own: callerDone is         *)
(* canceled.  A step of the composition is a step of one module that       *)
(* leaves the other's private variables alone, except where the scheduler  *)
(* calls Check and where Check returns.                                    *)
(***************************************************************************)
EXTENDS Naturals, Sequences

CONSTANTS Ids, Confs, Usable, Slots, Unborn, Deleted, Disabled, Workers, QueueSize, None

(* The assumptions of the two modules.                                     *)
ASSUME MonitorAssumption ==
  /\ Usable \subseteq Confs
  /\ {Unborn, Deleted, Disabled, None} \cap Confs = {}
  /\ Unborn # Disabled /\ Deleted # Disabled /\ Unborn # Deleted
  /\ QueueSize \in Nat \ {0}
  /\ None \notin Slots
  /\ None \notin [slot : Slots, conf : Confs]
  /\ None \notin [id : Ids, conf : Confs]
  /\ None \notin [caller : Slots \cup {None}, target : [id : Ids, conf : Confs]]
  /\ None \notin [target : [id : Ids, conf : Confs],
                 outcome : {"observed", "recovered", "canceled"}]

VARIABLES
  store, ctxDone, spc, listed, todo, running, pc, runs, canceled, tick,  \* Scheduler
  call, asked, result, queue, wpc, job, stopped                          \* WorkerPool

schedVars == <<store, spc, listed, todo, running, pc, runs, tick>>
poolVars  == <<call, asked, result, queue, wpc, job, stopped>>
vars      == <<ctxDone, canceled, schedVars, poolVars>>

Sched == INSTANCE Scheduler
Pool  == INSTANCE WorkerPool WITH Callers <- Slots, callerDone <- canceled,
                                  Targets <- [id : Ids, conf : Confs]

Init == Sched!Init /\ Pool!Init

-----------------------------------------------------------------------------
(* runCheck calls s.checker.Check, that is Pool.Check, with the target the *)
(* goroutine closes over; the goroutine is inside that call until          *)
(* CheckReturns.                                                           *)
CallsCheck(g) ==
  /\ Sched!Checking(g)
  /\ Pool!Check(g, runs[g])
  /\ UNCHANGED schedVars

(* Mutant: the goroutine does not wait for a check that was canceled.      *)
LeavesCheck(g) ==
  /\ Sched!CheckReturns(g)
  /\ \/ Pool!Return(g)
     \/ Sched!Done(g) /\ UNCHANGED <<ctxDone, canceled, poolVars>>

CheckReturns(g) == Sched!CheckReturns(g) /\ Pool!Return(g)

SchedulerStep ==
  /\ Sched!Environment \/ Sched!StartLoop \/ \E g \in Slots : Sched!Runner(g)
  /\ UNCHANGED poolVars

PoolStep ==
  /\ \/ \E g \in Slots : Pool!Submit(g)
     \/ \E w \in Workers : Pool!Worker(w)
     \/ Pool!StartReturns
  /\ UNCHANGED schedVars

(* Both Start calls have returned.                                         *)
Terminated == spc = "returned" /\ stopped /\ UNCHANGED vars

Next ==
  \/ SchedulerStep
  \/ PoolStep
  \/ \E g \in Slots : CallsCheck(g) \/ CheckReturns(g)
  \/ Terminated

Spec == Init /\ [][Next]_vars

(* What the Go runtime, the tickers and the database are assumed to give   *)
(* each part; that Check returns is not assumed but follows.               *)
Fairness ==
  /\ Sched!StartFairness /\ Sched!RunnerFairness /\ Pool!PoolFairness
  /\ \A g \in Slots : WF_vars(CallsCheck(g)) /\ WF_vars(CheckReturns(g))

FairSpec == Spec /\ Fairness

-----------------------------------------------------------------------------
QueuedJobs  == {queue[k] : k \in DOMAIN queue}
RunningJobs == {job[w] : w \in {v \in Workers : Pool!AtWork(v)}}

(* A job somebody may still want the result of, because neither its caller *)
(* nor the whole service was told to stop.                                 *)
Wanted(j) == j.caller # None /\ ~canceled[j.caller]

(* Every wanted job in the queue or on a worker was submitted by the       *)
(* goroutine that the running map names for its target at this moment, and *)
(* is for the configuration the map has there: once a pass has stopped or  *)
(* restarted a target, no earlier job of it is wanted.  The map may still  *)
(* be behind the table: until the next pass a job of a row that was        *)
(* deleted or changed may be wanted (see WantedAreListed in MonitorProofs  *)
(* and ChecksFollowTable in Application for what the table guarantees).    *)
(* That a goroutine has one job only is OneSlotPerTarget.                  *)
WantedJobsAreScheduled ==
  \A j \in QueuedJobs \cup RunningJobs :
    Wanted(j) => running[j.target.id] = [slot |-> j.caller, conf |-> j.target.conf]

WantedInQueue(i) == {k \in DOMAIN queue : Wanted(queue[k]) /\ queue[k].target.id = i}
WantedAtWork(i)  ==
  {w \in Workers : Pool!AtWork(w) /\ Wanted(job[w]) /\ job[w].target.id = i}

(* No target ever occupies more than one queue or worker slot with checks  *)
(* somebody wants, however often it was stopped and started again: what    *)
(* remains of the documented claim when a target is edited during a check  *)
(* (ChecksNeverOverlap below).                                             *)
OneSlotPerTarget ==
  \A i \in Ids :
    /\ WantedInQueue(i) = {} \/ WantedAtWork(i) = {}
    /\ \A k, l \in WantedInQueue(i) : k = l
    /\ \A v, w \in WantedAtWork(i) : v = w

(* The pool, behind the TargetChecker interface, gives the scheduler the   *)
(* behaviours its own module describes, and Check always returns, whether  *)
(* or not the queue is full and the workers are gone.                      *)
ImplementsScheduler == Sched!Spec /\ Sched!CheckFairness

(* The scheduler uses the pool as the pool's module allows: one call per   *)
(* goroutine at a time, and no new context inside a call.                  *)
ImplementsPool == Pool!Spec

(* A target that stays enabled is run by the workers again and again, with *)
(* the configuration it has, for a goroutine that is still wanted: stale   *)
(* and abandoned jobs cannot crowd it out of the queue for ever.           *)
KeepsRunningChecks ==
  \A i \in Ids : \A c \in Usable :
    <>[](store[i] = c /\ ~ctxDone) =>
      []<>(\E j \in RunningJobs : Wanted(j) /\ j.target = [id |-> i, conf |-> c])

(* After the last change of a target, checks of what it used to be die out *)
(* of the queue and of the workers, those of a deleted target included.    *)
StaleChecksDieOut ==
  \A i \in Ids : \A e \in Sched!Entries :
    <>[](store[i] = e /\ ~ctxDone) =>
      <>[](\A j \in QueuedJobs \cup RunningJobs :
             j.target.id = i => e \in Usable /\ j.target.conf = e)

(* One signal stops both: Scheduler.Start and Pool.Start return, so that   *)
(* main's two waits end, whatever is queued, running or blocked.           *)
ShutdownTerminates == ctxDone ~> (spc = "returned" /\ stopped)

(* scheduler.go and docs/architecture.md: checks never overlap for a       *)
(* single target, no target ever occupies more than one worker slot at a   *)
(* time (stated here for a service that is not shutting down).             *)
ChecksNeverOverlap ==
  ~ctxDone =>
    \A v, w \in Workers :
      Pool!AtWork(v) /\ Pool!AtWork(w) /\ job[v].target.id = job[w].target.id => v = w
=============================================================================
