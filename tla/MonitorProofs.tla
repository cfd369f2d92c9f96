--------------------------- MODULE MonitorProofs ---------------------------
(***************************************************************************)
(* Proofs about the composition of the scheduler with the worker pool.     *)
(* Each step of the composition is a step of either module, so that what   *)
(* SchedulerProofs and WorkerPoolProofs prove holds of the composition as  *)
(* well; what links a goroutine to its call is proved here.                *)
(***************************************************************************)
EXTENDS Monitor, TLAPS

SchedP == INSTANCE SchedulerProofs
PoolP  == INSTANCE WorkerPoolProofs WITH Callers <- Slots, callerDone <- canceled,
                                         Targets <- [id : Ids, conf : Confs]

(* The proof modules have the definitions of the modules they extend.      *)
LEMMA SameScheduler ==
  /\ Sched!Init => SchedP!Init
  /\ [Sched!Next]_Sched!vars => [SchedP!Next]_SchedP!vars
<1>1. UNCHANGED Sched!vars => UNCHANGED SchedP!vars
  BY DEF Sched!vars, SchedP!vars, Sched!goVars, SchedP!goVars
<1>2. Sched!Environment => SchedP!Environment
  BY DEF Sched!Environment, Sched!CreateTarget, Sched!UpdateTarget, Sched!DeleteTarget,
         Sched!SetEntry, Sched!Cancel, Sched!goVars,
         SchedP!Environment, SchedP!CreateTarget, SchedP!UpdateTarget, SchedP!DeleteTarget,
         SchedP!SetEntry, SchedP!Cancel, SchedP!goVars
<1>3. Sched!Reconcile => SchedP!Reconcile
  BY DEF Sched!Reconcile, Sched!ListOk, Sched!Snapshot, Sched!ListFail, Sched!Visit, Sched!Sweep,
         Sched!Stop, Sched!Start, Sched!Old, Sched!Fresh, Sched!ListedConf, Sched!Current,
         Sched!Present, Sched!goVars,
         SchedP!Reconcile, SchedP!ListOk, SchedP!Snapshot, SchedP!ListFail, SchedP!Visit,
         SchedP!Sweep, SchedP!Stop, SchedP!Start, SchedP!Old, SchedP!Fresh, SchedP!ListedConf,
         SchedP!Current, SchedP!Present, SchedP!goVars
<1>4. Sched!StartLoop => SchedP!StartLoop
  BY <1>3
     DEF Sched!StartLoop, Sched!Discover, Sched!Shutdown, Sched!StartReturns, Sched!AllExited,
         Sched!Old, Sched!goVars,
         SchedP!StartLoop, SchedP!Discover, SchedP!Shutdown, SchedP!StartReturns,
         SchedP!AllExited, SchedP!Old, SchedP!goVars
<1>5. ASSUME NEW g \in Slots, Sched!Runner(g) \/ Sched!CheckReturns(g)
      PROVE  SchedP!Runner(g) \/ SchedP!CheckReturns(g)
  BY <1>5
     DEF Sched!Runner, Sched!TickerFires, Sched!TakeTick, Sched!RunnerExits, Sched!Done,
         Sched!CheckReturns, Sched!Checking,
         SchedP!Runner, SchedP!TickerFires, SchedP!TakeTick, SchedP!RunnerExits, SchedP!Done,
         SchedP!CheckReturns, SchedP!Checking
<1>6. Sched!Init => SchedP!Init
  BY Zenon DEF Sched!Init, SchedP!Init
<1>7. Sched!Terminated => SchedP!Terminated
  BY DEF Sched!Terminated, Sched!vars, Sched!goVars,
         SchedP!Terminated, SchedP!vars, SchedP!goVars
<1> QED
  BY <1>1, <1>2, <1>4, <1>5, <1>6, <1>7 DEF Sched!Next, SchedP!Next

LEMMA SamePool ==
  /\ Pool!Init => PoolP!Init
  /\ [Pool!Next]_Pool!vars => [PoolP!Next]_PoolP!vars
<1> USE DEF Pool!callVars, Pool!workerVars, PoolP!callVars, PoolP!workerVars
<1>1. UNCHANGED Pool!vars => UNCHANGED PoolP!vars
  BY DEF Pool!vars, PoolP!vars
<1>2. Pool!Contexts => PoolP!Contexts
  BY DEF Pool!Contexts, PoolP!Contexts
<1>3. ASSUME NEW c \in Slots, Pool!Submit(c) PROVE PoolP!Submit(c)
  BY <1>3
     DEF Pool!Submit, Pool!Send, Pool!Block, Pool!HasRoom, Pool!GiveUp, Pool!MayGiveUp,
         Pool!Orphaned, Pool!Done, Pool!Receive,
         PoolP!Submit, PoolP!Send, PoolP!Block, PoolP!HasRoom, PoolP!GiveUp, PoolP!MayGiveUp,
         PoolP!Orphaned, PoolP!Done, PoolP!Receive
<1>4. ASSUME NEW c \in Slots, NEW t \in [id : Ids, conf : Confs], Pool!Check(c, t)
      PROVE  PoolP!Check(c, t)
  BY <1>4 DEF Pool!Check, PoolP!Check
<1>5. ASSUME NEW c \in Slots, Pool!Return(c) PROVE PoolP!Return(c)
  BY <1>5 DEF Pool!Return, PoolP!Return
<1>6. ASSUME NEW w \in Workers, Pool!Worker(w) PROVE PoolP!Worker(w)
  BY <1>6
     DEF Pool!Worker, Pool!Take, Pool!Process, Pool!PossibleOutcomes, Pool!Deliver,
         Pool!Panics, Pool!Recovers, Pool!WorkerExits,
         PoolP!Worker, PoolP!Take, PoolP!Process, PoolP!PossibleOutcomes, PoolP!Deliver,
         PoolP!Panics, PoolP!Recovers, PoolP!WorkerExits
<1>7. Pool!StartReturns => PoolP!StartReturns
  BY DEF Pool!StartReturns, Pool!AllExited, PoolP!StartReturns, PoolP!AllExited
<1>8. Pool!Init => PoolP!Init
  BY Zenon DEF Pool!Init, PoolP!Init
<1> QED
  BY <1>1, <1>2, <1>3, <1>4, <1>5, <1>6, <1>7, <1>8 DEF Pool!Next, PoolP!Next

-----------------------------------------------------------------------------
(* Every step of the composition is a step of the scheduler or leaves its  *)
(* variables alone: the pool has no say in them but for ending a check.    *)
LEMMA SchedulerRefinement == [Next]_vars => [Sched!Next]_Sched!vars
<1> SUFFICES ASSUME [Next]_vars PROVE [Sched!Next]_Sched!vars
  OBVIOUS
<1>1. CASE SchedulerStep
  BY <1>1 DEF SchedulerStep, Sched!Next
<1>2. ASSUME UNCHANGED schedVars, UNCHANGED <<ctxDone, canceled>> PROVE UNCHANGED Sched!vars
  BY <1>2 DEF schedVars, Sched!vars, Sched!goVars
<1>3. CASE PoolStep
  <2>1. UNCHANGED <<ctxDone, canceled>>
    BY <1>3
       DEF PoolStep, Pool!Submit, Pool!Send, Pool!Block, Pool!GiveUp, Pool!Receive,
           Pool!Worker, Pool!Take, Pool!Process, Pool!Panics, Pool!Recovers,
           Pool!WorkerExits, Pool!StartReturns
  <2> QED
    BY <1>2, <1>3, <2>1 DEF PoolStep
<1>4. ASSUME NEW g \in Slots, CallsCheck(g) PROVE [Sched!Next]_Sched!vars
  BY <1>2, <1>4 DEF CallsCheck, Pool!Check
<1>5. ASSUME NEW g \in Slots, CheckReturns(g) PROVE Sched!Next
  BY <1>5 DEF CheckReturns, Sched!Next
<1>6. CASE Terminated \/ UNCHANGED vars
  BY <1>2, <1>6 DEF Terminated, vars
<1> QED
  BY <1>1, <1>3, <1>4, <1>5, <1>6 DEF Next

(* The scheduler's behaviour is the one its own module describes, whatever *)
(* the pool does.                                                          *)
THEOREM RunsScheduler == Spec => Sched!Spec
<1>1. Init => Sched!Init
  BY DEF Init
<1> QED
  BY <1>1, SchedulerRefinement, PTL DEF Spec, Sched!Spec

(* A behaviour of the composition is one that SchedulerProofs is about.    *)
LEMMA RunsSchedP == Spec => SchedP!Spec
<1>1. Init => SchedP!Init
  BY SameScheduler DEF Init
<1>2. [Next]_vars => [SchedP!Next]_SchedP!vars
  BY SameScheduler, SchedulerRefinement
<1> QED
  BY <1>1, <1>2, PTL DEF Spec, SchedP!Spec

(* What SchedulerProofs proves of goroutines holds in the composition.     *)
LEMMA SchedulerInvariant == Spec => []SchedP!OrphanInv
<1>1. SchedP!Spec => []SchedP!OrphanInv
  BY SchedP!OrphanInvariant, MonitorAssumption
<1> QED
  BY <1>1, RunsSchedP, PTL

(* So does what it proves of the schedule, of listings and of shutdown.    *)
LEMMA ScheduleInvariant == Spec => [](SchedP!ScheduleInv /\ SchedP!PastInv /\ SchedP!AllTold)
<1>1. SchedP!Spec => []SchedP!ScheduleInv
  BY SchedP!ScheduleInvariant, MonitorAssumption
<1>2. SchedP!Spec => []SchedP!PastInv
  BY SchedP!PastInvariant, MonitorAssumption
<1>3. SchedP!Spec => []SchedP!AllTold
  BY SchedP!AllToldInvariant, MonitorAssumption
<1> QED
  BY <1>1, <1>2, <1>3, RunsSchedP, PTL

(* A deletion that a listing showed is final in the composition too.       *)
LEMMA DeletionIsKept ==
  ASSUME SchedP!PastInv, [Next]_vars, NEW i \in Ids, listed[i] = Deleted
  PROVE  listed'[i] = Deleted /\ (running[i] = None => running'[i] = None)
<1>1. [SchedP!Next]_SchedP!vars
  BY SameScheduler, SchedulerRefinement
<1> QED
  BY <1>1, SchedP!DeletionIsKept, MonitorAssumption

-----------------------------------------------------------------------------
(* A call belongs to a goroutine inside a check, of the target it runs.    *)
LinkInv ==
  /\ call \in [Slots -> {"idle", "submit", "blocked", "waiting", "answered"}]
  /\ asked \in [Slots -> [id : Ids, conf : Confs] \cup {None}]
  /\ \A g \in Slots : call[g] # "idle" => Sched!Checking(g) /\ asked[g] = runs[g]

(* No step of the scheduler takes a goroutine out of its call, or renews   *)
(* its context in one.                                                     *)
LEMMA SchedulerKeepsCalls ==
  ASSUME SchedP!OrphanInv, LinkInv, SchedulerStep
  PROVE  \A g \in Slots : call[g] # "idle" =>
           pc'[g] = pc[g] /\ runs'[g] = runs[g] /\ (canceled[g] => canceled'[g])
<1> USE DEF LinkInv, Sched!Checking, Sched!goVars
<1>0. /\ pc \in [Slots -> {"free", "first", "select", "check"}]
      /\ runs \in [Slots -> [id : Ids, conf : Confs] \cup {None}]
      /\ canceled \in [Slots -> BOOLEAN]
  BY DEF SchedP!OrphanInv, SchedP!TypeOK, SchedP!Targets
<1>1. CASE Sched!Environment
  BY <1>1 DEF Sched!Environment, Sched!CreateTarget, Sched!UpdateTarget, Sched!DeleteTarget,
              Sched!SetEntry, Sched!Cancel
<1>2. CASE Sched!ListOk \/ Sched!ListFail \/ Sched!Discover \/ Sched!StartReturns
  BY <1>2 DEF Sched!ListOk, Sched!ListFail, Sched!Discover, Sched!StartReturns
<1>3. ASSUME NEW S, Sched!Stop(S)
      PROVE  UNCHANGED <<pc, runs>> /\ \A g \in Slots : canceled[g] => canceled'[g]
  BY <1>0, <1>3 DEF Sched!Stop
<1>4. ASSUME NEW i \in Ids, Sched!Visit(i)
      PROVE  \/ UNCHANGED <<pc, runs>> /\ \A g \in Slots : canceled[g] => canceled'[g]
             \/ \E g \in Slots : Sched!Start(i, g)
  BY <1>3, <1>4 DEF Sched!Visit
<1>5. ASSUME NEW i \in Ids, NEW g \in Slots, Sched!Start(i, g)
      PROVE  /\ call[g] = "idle"
             /\ \A h \in Slots \ {g} : pc'[h] = pc[h] /\ runs'[h] = runs[h]
                                       /\ canceled'[h] = canceled[h]
  BY <1>0, <1>5 DEF Sched!Start, Sched!Fresh
<1>6. CASE Sched!Sweep
  BY <1>3, <1>6 DEF Sched!Sweep
<1>7. CASE Sched!Shutdown
  BY <1>0, <1>7 DEF Sched!Shutdown
<1>8. ASSUME NEW h \in Slots, Sched!Runner(h)
      PROVE  \A g \in Slots : call[g] # "idle" =>
               pc'[g] = pc[g] /\ runs'[g] = runs[g] /\ canceled'[g] = canceled[g]
  BY <1>0, <1>8 DEF Sched!Runner, Sched!TickerFires, Sched!TakeTick, Sched!RunnerExits
<1> QED
  BY <1>1, <1>2, <1>4, <1>5, <1>6, <1>7, <1>8
     DEF SchedulerStep, Sched!StartLoop, Sched!Reconcile

LEMMA LinkStep ==
  ASSUME SchedP!OrphanInv, LinkInv, [Next]_vars
  PROVE  LinkInv'
<1> USE DEF LinkInv, Sched!Checking
<1>0. /\ pc \in [Slots -> {"free", "first", "select", "check"}]
      /\ runs \in [Slots -> [id : Ids, conf : Confs] \cup {None}]
      /\ \A g \in Slots : pc[g] # "free" => runs[g] \in [id : Ids, conf : Confs]
  BY DEF SchedP!OrphanInv, SchedP!TypeOK, SchedP!Targets, SchedP!Serving
<1>1. CASE SchedulerStep
  <2>1. UNCHANGED <<call, asked>>
    BY <1>1 DEF SchedulerStep, poolVars
  <2> QED
    BY <1>1, <2>1, SchedulerKeepsCalls
<1>2. ASSUME UNCHANGED <<pc, runs, asked>>,
             call' \in [Slots -> {"idle", "submit", "blocked", "waiting", "answered"}],
             \A g \in Slots : call[g] = "idle" => call'[g] = "idle"
      PROVE  LinkInv'
  BY <1>2
<1>3. CASE PoolStep
  <2>1. UNCHANGED <<pc, runs>>
    BY <1>3 DEF PoolStep, schedVars
  <2>2. UNCHANGED asked
    BY <1>3 DEF PoolStep, Pool!Submit, Pool!Send, Pool!Block, Pool!GiveUp, Pool!Receive,
           Pool!Worker, Pool!Take, Pool!Process, Pool!Panics, Pool!Recovers,
           Pool!WorkerExits, Pool!StartReturns,
           Pool!callVars
  <2>3. /\ call' \in [Slots -> {"idle", "submit", "blocked", "waiting", "answered"}]
        /\ \A g \in Slots : call[g] = "idle" => call'[g] = "idle"
    BY <1>3 DEF PoolStep, Pool!Submit, Pool!Send, Pool!Block, Pool!GiveUp, Pool!MayGiveUp,
           Pool!Receive, Pool!Worker, Pool!Take, Pool!Process, Pool!Panics,
           Pool!Recovers, Pool!WorkerExits, Pool!StartReturns, Pool!callVars
  <2> QED
    BY <1>2, <2>1, <2>2, <2>3
<1>4. ASSUME NEW g \in Slots, CallsCheck(g) PROVE LinkInv'
  BY <1>0, <1>4 DEF CallsCheck, Pool!Check, schedVars
<1>5. ASSUME NEW g \in Slots, CheckReturns(g) PROVE LinkInv'
  BY <1>0, <1>5 DEF CheckReturns, Sched!CheckReturns, Pool!Return
<1>6. CASE Terminated \/ UNCHANGED vars
  BY <1>2, <1>6 DEF Terminated, vars, schedVars, poolVars
<1> QED
  BY <1>1, <1>3, <1>4, <1>5, <1>6 DEF Next

LEMMA LinkInvariant == Spec => []LinkInv
<1>1. Init => LinkInv
  BY DEF Init, Pool!Init, LinkInv
<1>2. SchedP!OrphanInv /\ LinkInv /\ [Next]_vars => LinkInv'
  BY LinkStep
<1> QED
  BY <1>1, <1>2, SchedulerInvariant, PTL DEF Spec

-----------------------------------------------------------------------------
(* Every step of the composition is a step of the pool or of its callers:  *)
(* a goroutine's context is renewed between two calls only.                *)
LEMMA PoolRefinement ==
  ASSUME SchedP!OrphanInv, SchedP!OrphanInv', LinkInv, [Next]_vars
  PROVE  [Pool!Next]_Pool!vars
<1> USE DEF Pool!callVars, Pool!workerVars
<1>0. /\ ctxDone \in BOOLEAN /\ canceled \in [Slots -> BOOLEAN]
      /\ ctxDone' \in BOOLEAN /\ canceled' \in [Slots -> BOOLEAN]
      /\ \A g \in Slots : Sched!Checking(g) => runs[g] \in [id : Ids, conf : Confs]
  BY DEF SchedP!OrphanInv, SchedP!TypeOK, SchedP!Targets, SchedP!Serving, Sched!Checking
<1>1. CASE SchedulerStep
  <2>1. ctxDone => ctxDone'
    BY <1>1
       DEF SchedulerStep, Sched!Environment, Sched!CreateTarget, Sched!UpdateTarget,
           Sched!DeleteTarget, Sched!SetEntry, Sched!Cancel, Sched!StartLoop, Sched!Reconcile,
           Sched!ListOk, Sched!ListFail, Sched!Visit, Sched!Sweep, Sched!Discover,
           Sched!Shutdown, Sched!StartReturns, Sched!Runner, Sched!TickerFires,
           Sched!TakeTick, Sched!RunnerExits
  <2>2. \A g \in Slots : canceled[g] /\ ~canceled'[g] => call[g] = "idle"
    BY <1>1, SchedulerKeepsCalls
  <2> QED
    BY <1>0, <1>1, <2>1, <2>2 DEF SchedulerStep, poolVars, Pool!Next, Pool!Contexts
<1>2. CASE PoolStep
  BY <1>2 DEF PoolStep, Pool!Next
<1>3. ASSUME NEW g \in Slots, CallsCheck(g) PROVE Pool!Next
  BY <1>0, <1>3 DEF CallsCheck, Pool!Next
<1>4. ASSUME NEW g \in Slots, CheckReturns(g) PROVE Pool!Next
  BY <1>4 DEF CheckReturns, Pool!Next
<1>5. CASE Terminated \/ UNCHANGED vars
  BY <1>5 DEF Terminated, vars, poolVars, Pool!vars
<1> QED
  BY <1>1, <1>2, <1>3, <1>4, <1>5 DEF Next

(* The scheduler uses the pool as the pool's own module allows.            *)
THEOREM RunsPool == Spec => ImplementsPool
<1>1. Init => Pool!Init
  BY DEF Init
<1>2. SchedP!OrphanInv /\ SchedP!OrphanInv' /\ LinkInv /\ [Next]_vars => [Pool!Next]_Pool!vars
  BY PoolRefinement
<1> QED
  BY <1>1, <1>2, SchedulerInvariant, LinkInvariant, PTL DEF Spec, ImplementsPool, Pool!Spec

(* What WorkerPoolProofs proves of jobs holds in the composition.          *)
LEMMA PoolInvariant == Spec => []PoolP!AnswerInv
<1>1. PoolP!Spec => []PoolP!AnswerInv
  BY PoolP!AnswerInvariant, MonitorAssumption
<1>2. Pool!Init => PoolP!Init
  BY SamePool
<1>3. [Pool!Next]_Pool!vars => [PoolP!Next]_PoolP!vars
  BY SamePool
<1> QED
  BY <1>1, <1>2, <1>3, RunsPool, PTL DEF ImplementsPool, Pool!Spec, PoolP!Spec

-----------------------------------------------------------------------------
(* A job that still has a caller is the call of a goroutine in the middle  *)
(* of a check, for the target that goroutine runs.                         *)
JobsLinked ==
  \A j \in QueuedJobs \cup RunningJobs : j.caller # None =>
    j.caller \in Slots /\ pc[j.caller] # "free" /\ j.target = runs[j.caller]

LEMMA JobsAreLinked == PoolP!AnswerInv /\ LinkInv => JobsLinked
<1> SUFFICES ASSUME PoolP!AnswerInv, LinkInv PROVE JobsLinked
  OBVIOUS
<1>1. /\ \A k \in DOMAIN queue : queue[k] \in PoolP!Jobs
      /\ \A w \in Workers : PoolP!AtWork(w) => job[w] \in PoolP!Jobs
      /\ PoolP!WaitingJobInOnePlace /\ PoolP!QueuedAsAsked /\ PoolP!RunningAsAsked
  BY PoolP!QueueDomain, MonitorAssumption
     DEF PoolP!AnswerInv, PoolP!PlaceInv, PoolP!TypeInv
<1>2. ASSUME NEW g \in Slots, PoolP!QueuedFor(g) # {} \/ PoolP!RunningFor(g) # {}
      PROVE  pc[g] # "free" /\ asked[g] = runs[g]
  <2>1. call[g] = "waiting"
    BY <1>1, <1>2 DEF PoolP!WaitingJobInOnePlace
  <2> QED
    BY <2>1 DEF LinkInv, Sched!Checking
<1>3. ASSUME NEW k \in DOMAIN queue, queue[k].caller # None
      PROVE  /\ queue[k].caller \in Slots /\ pc[queue[k].caller] # "free"
             /\ queue[k].target = runs[queue[k].caller]
  <2>1. queue[k].caller \in Slots
    BY <1>1, <1>3 DEF PoolP!Jobs
  <2>2. k \in PoolP!QueuedFor(queue[k].caller)
    BY DEF PoolP!QueuedFor
  <2> QED
    BY <1>1, <1>2, <1>3, <2>1, <2>2 DEF PoolP!QueuedAsAsked
<1>4. ASSUME NEW w \in Workers, PoolP!AtWork(w), job[w].caller # None
      PROVE  /\ job[w].caller \in Slots /\ pc[job[w].caller] # "free"
             /\ job[w].target = runs[job[w].caller]
  <2>1. job[w].caller \in Slots
    BY <1>1, <1>4 DEF PoolP!Jobs
  <2>2. w \in PoolP!RunningFor(job[w].caller)
    BY <1>4 DEF PoolP!RunningFor
  <2> QED
    BY <1>1, <1>2, <1>4, <2>1, <2>2 DEF PoolP!RunningAsAsked
<1> QED
  BY <1>3, <1>4 DEF JobsLinked, QueuedJobs, RunningJobs, Pool!AtWork, PoolP!AtWork

(* Every wanted check in the queue or on a worker is that of the goroutine *)
(* the running map names for its target at this moment, and has the        *)
(* configuration the map has, for any number of targets, goroutines and    *)
(* workers and any queue size.  The map is what the last pass made it, and *)
(* may be behind the table.                                                *)
THEOREM WantedAreScheduled == Spec => []WantedJobsAreScheduled
<1>1. JobsLinked /\ SchedP!OrphanInv => WantedJobsAreScheduled
  BY DEF JobsLinked, SchedP!OrphanInv, SchedP!NoOrphanRunner, WantedJobsAreScheduled, Wanted
<1>2. PoolP!AnswerInv /\ LinkInv => JobsLinked
  BY JobsAreLinked
<1> QED
  BY <1>1, <1>2, SchedulerInvariant, LinkInvariant, PoolInvariant, PTL

(* Two wanted jobs of one target have one caller, the goroutine the map    *)
(* names, and the pool has a caller's job in one place.                    *)
LEMMA OneSlotOnly ==
  ASSUME SchedP!OrphanInv, PoolP!AnswerInv, JobsLinked
  PROVE  OneSlotPerTarget
<1> SUFFICES ASSUME NEW i \in Ids
             PROVE  /\ WantedInQueue(i) = {} \/ WantedAtWork(i) = {}
                    /\ \A k, l \in WantedInQueue(i) : k = l
                    /\ \A v, w \in WantedAtWork(i) : v = w
  BY DEF OneSlotPerTarget
<1>1. ASSUME NEW j \in QueuedJobs \cup RunningJobs, Wanted(j), j.target.id = i
      PROVE  j.caller \in Slots /\ j.caller = running[i].slot
  <2>1. /\ j.caller \in Slots /\ pc[j.caller] # "free" /\ ~canceled[j.caller]
        /\ j.target = runs[j.caller]
    BY <1>1 DEF JobsLinked, Wanted
  <2>2. running[i] = [slot |-> j.caller, conf |-> j.target.conf]
    BY <1>1, <2>1 DEF SchedP!OrphanInv, SchedP!NoOrphanRunner
  <2> QED
    BY <2>1, <2>2
<1> DEFINE c == running[i].slot
<1>2. ASSUME NEW k \in WantedInQueue(i) PROVE c \in Slots /\ k \in PoolP!QueuedFor(c)
  <2>1. queue[k] \in QueuedJobs /\ Wanted(queue[k]) /\ queue[k].target.id = i
    BY <1>2 DEF WantedInQueue, QueuedJobs
  <2> QED
    BY <1>1, <1>2, <2>1 DEF PoolP!QueuedFor, WantedInQueue
<1>3. ASSUME NEW w \in WantedAtWork(i) PROVE c \in Slots /\ w \in PoolP!RunningFor(c)
  <2>1. job[w] \in RunningJobs /\ Wanted(job[w]) /\ job[w].target.id = i
    BY <1>3 DEF WantedAtWork, RunningJobs
  <2> QED
    BY <1>1, <1>3, <2>1 DEF PoolP!RunningFor, WantedAtWork, Pool!AtWork, PoolP!AtWork
<1>4. c \in Slots =>
        /\ PoolP!QueuedFor(c) = {} \/ PoolP!RunningFor(c) = {}
        /\ \A k, l \in PoolP!QueuedFor(c) : k = l
        /\ \A v, w \in PoolP!RunningFor(c) : v = w
  BY DEF PoolP!AnswerInv, PoolP!PlaceInv, PoolP!WaitingJobInOnePlace
<1> HIDE DEF c
<1> QED
  BY <1>2, <1>3, <1>4

(* Checks somebody wants of one target never overlap, for any number of    *)
(* targets, goroutines and workers and any queue size.                     *)
THEOREM WantedNeverOverlap == Spec => []OneSlotPerTarget
<1>1. PoolP!AnswerInv /\ LinkInv => JobsLinked
  BY JobsAreLinked
<1>2. SchedP!OrphanInv /\ PoolP!AnswerInv /\ JobsLinked => OneSlotPerTarget
  BY OneSlotOnly
<1> QED
  BY <1>1, <1>2, SchedulerInvariant, LinkInvariant, PoolInvariant, PTL

(* Except in the middle of a pass of reconcile, a wanted check is one the  *)
(* last listing asks for.  Module ApplicationProofs takes it from here to  *)
(* the table.                                                              *)
WantedAreListed ==
  spc # "visit" =>
    \A j \in QueuedJobs \cup RunningJobs : Wanted(j) =>
      j.target.id \in Ids /\ j.target.conf \in Usable /\ listed[j.target.id] = j.target.conf

LEMMA ListedOnly ==
  ASSUME SchedP!OrphanInv, SchedP!ScheduleInv, SchedP!AllTold, JobsLinked
  PROVE  WantedAreListed
<1> SUFFICES ASSUME spc # "visit", NEW j \in QueuedJobs \cup RunningJobs, Wanted(j)
             PROVE  /\ j.target.id \in Ids /\ j.target.conf \in Usable
                    /\ listed[j.target.id] = j.target.conf
  BY DEF WantedAreListed
<1>1. /\ j.caller \in Slots /\ pc[j.caller] # "free" /\ ~canceled[j.caller]
      /\ j.target = runs[j.caller]
  BY DEF JobsLinked, Wanted
<1>2. j.target \in [id : Ids, conf : Confs]
  BY <1>1 DEF SchedP!OrphanInv, SchedP!Serving, SchedP!Targets
<1>3. running[j.target.id] = [slot |-> j.caller, conf |-> j.target.conf]
  BY <1>1 DEF SchedP!OrphanInv, SchedP!NoOrphanRunner
<1>4. running[j.target.id] # None
  BY <1>1, <1>2, <1>3, MonitorAssumption
<1>5. spc \in {"list", "select"}
  BY <1>1 DEF SchedP!OrphanInv, SchedP!TypeOK, SchedP!AllTold
<1>6. SchedP!Agrees(j.target.id)
  BY <1>2, <1>5 DEF SchedP!ScheduleInv, SchedP!PassInv
<1> QED
  BY <1>2, <1>3, <1>4, <1>6 DEF SchedP!Agrees

LEMMA WantedListedInvariant == Spec => []WantedAreListed
<1>1. /\ SchedP!OrphanInv /\ LinkInv /\ PoolP!AnswerInv
      /\ SchedP!ScheduleInv /\ SchedP!PastInv /\ SchedP!AllTold
      => WantedAreListed
  BY JobsAreLinked, ListedOnly
<1> QED
  BY <1>1, SchedulerInvariant, ScheduleInvariant, LinkInvariant, PoolInvariant, PTL
=============================================================================
