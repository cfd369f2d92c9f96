------------------------- MODULE ApplicationProofs -------------------------
(***************************************************************************)
(* Proofs about the application: what TargetApiProofs proves of the table  *)
(* discharges what Scheduler assumes of its environment, and what          *)
(* MonitorProofs proves of the engine is then about the table the API      *)
(* writes, for any numbers of requests, targets, goroutines and workers.   *)
(* Its last part proves of TargetRules what the others abstract from.      *)
(***************************************************************************)
EXTENDS Application, Integers, TLAPS

ApiP == INSTANCE TargetApiProofs WITH pc <- handler
MonP == INSTANCE MonitorProofs WITH store <- Stored, Usable <- Confs

(* The proof modules have the definitions of the modules they extend.      *)
LEMMA SameTypes ==
  /\ Api!Rows = ApiP!Rows /\ Api!Requests = ApiP!Requests
  /\ \A t, i : Api!Exists(t, i) = ApiP!Exists(t, i)
  /\ \A t, S : Api!Shown(t, S) = ApiP!Shown(t, S)
  /\ \A b : Api!AsCreated(b) = ApiP!AsCreated(b)
  /\ \A t, r : Api!Effects(t, r) = ApiP!Effects(t, r)
  /\ \A i : Api!LookupError(i) = ApiP!LookupError(i)
  /\ Api!IdLeft = ApiP!IdLeft
<1>1. Api!Rows = ApiP!Rows
  BY DEF Api!Rows, ApiP!Rows
<1>2. Api!Requests = ApiP!Requests
  BY <1>1 DEF Api!Bodies, ApiP!Bodies, Api!Requests, ApiP!Requests
<1>3. \A t, i : Api!Exists(t, i) = ApiP!Exists(t, i)
  BY DEF Api!Exists, ApiP!Exists
<1>4. \A t, S : Api!Shown(t, S) = ApiP!Shown(t, S)
  BY <1>3 DEF Api!Shown, ApiP!Shown
<1>5. \A b : Api!AsCreated(b) = ApiP!AsCreated(b)
  BY DEF Api!AsCreated, ApiP!AsCreated
<1>6. \A t, r : Api!Effects(t, r) = ApiP!Effects(t, r)
  BY <1>1, <1>3, <1>5 DEF Api!Effects, ApiP!Effects
<1>7. \A i : Api!LookupError(i) = ApiP!LookupError(i)
  BY DEF Api!LookupError, ApiP!LookupError
<1>8. Api!IdLeft = ApiP!IdLeft
  BY Zenon DEF Api!IdLeft, ApiP!IdLeft, Api!Cardinality, ApiP!Cardinality
<1> QED
  BY <1>1, <1>2, <1>3, <1>4, <1>5, <1>6, <1>7, <1>8

LEMMA SameApi ==
  /\ Api!Init => ApiP!Init
  /\ [Api!Next]_Api!vars => [ApiP!Next]_ApiP!vars
<1> USE SameTypes DEF Api!Handling, Api!Return, ApiP!Handling, ApiP!Return
<1>1. Api!Init => ApiP!Init
  BY DEF Api!Init, ApiP!Init
<1>2. ASSUME NEW c \in Clients
      PROVE  /\ Api!Request(c) => ApiP!Request(c)
             /\ Api!Refuse(c) => ApiP!Refuse(c)
             /\ Api!Create(c) => ApiP!Create(c)
             /\ Api!List(c) => ApiP!List(c)
             /\ Api!Get(c) => ApiP!Get(c)
  BY DEF Api!Request, ApiP!Request, Api!Refuse, ApiP!Refuse, Api!Create, ApiP!Create,
         Api!List, ApiP!List, Api!Get, ApiP!Get
<1>3. ASSUME NEW c \in Clients
      PROVE  /\ Api!Find(c) => ApiP!Find(c)
             /\ Api!Replace(c) => ApiP!Replace(c)
             /\ Api!Delete(c) => ApiP!Delete(c)
             /\ Api!Fail(c) => ApiP!Fail(c)
             /\ Api!Respond(c) => ApiP!Respond(c)
  BY DEF Api!Find, ApiP!Find, Api!Replace, ApiP!Replace, Api!Delete, ApiP!Delete,
         Api!Fail, ApiP!Fail, Api!Respond, ApiP!Respond
<1>4. UNCHANGED Api!vars => UNCHANGED ApiP!vars
  BY DEF Api!vars, ApiP!vars
<1> QED
  BY <1>1, <1>2, <1>3, <1>4 DEF Api!Next, ApiP!Next

LEMMA SameEngine ==
  /\ Engine!Init => MonP!Init
  /\ [Engine!Next]_Engine!vars => [MonP!Next]_MonP!vars
<1>1. Engine!Init => MonP!Init
  BY DEF Engine!Init, Engine!Sched!Init, Engine!Pool!Init,
         MonP!Init, MonP!Sched!Init, MonP!Pool!Init
<1>2. [Engine!Next]_Engine!vars => [MonP!Next]_MonP!vars
  BY DEF Engine!Next, Engine!vars, Engine!schedVars, Engine!poolVars,
         Engine!SchedulerStep, Engine!PoolStep, Engine!CallsCheck, Engine!CheckReturns,
         Engine!Terminated,
         Engine!Sched!Environment, Engine!Sched!CreateTarget, Engine!Sched!UpdateTarget,
         Engine!Sched!DeleteTarget, Engine!Sched!SetEntry, Engine!Sched!Cancel,
         Engine!Sched!goVars, Engine!Sched!Reconcile, Engine!Sched!ListOk,
         Engine!Sched!Snapshot, Engine!Sched!ListFail, Engine!Sched!Visit,
         Engine!Sched!Sweep, Engine!Sched!Stop, Engine!Sched!Start, Engine!Sched!Old,
         Engine!Sched!Fresh, Engine!Sched!ListedConf, Engine!Sched!Current,
         Engine!Sched!Present, Engine!Sched!StartLoop, Engine!Sched!Discover,
         Engine!Sched!Shutdown, Engine!Sched!StartReturns, Engine!Sched!AllExited,
         Engine!Sched!Runner, Engine!Sched!TickerFires, Engine!Sched!TakeTick,
         Engine!Sched!RunnerExits, Engine!Sched!Done, Engine!Sched!CheckReturns,
         Engine!Sched!Checking,
         Engine!Pool!callVars, Engine!Pool!workerVars, Engine!Pool!Submit, Engine!Pool!Send,
         Engine!Pool!Block, Engine!Pool!HasRoom, Engine!Pool!GiveUp, Engine!Pool!MayGiveUp,
         Engine!Pool!Orphaned, Engine!Pool!Done, Engine!Pool!Receive, Engine!Pool!Check,
         Engine!Pool!Return, Engine!Pool!Worker, Engine!Pool!Take, Engine!Pool!Process,
         Engine!Pool!PossibleOutcomes, Engine!Pool!Deliver, Engine!Pool!Panics,
         Engine!Pool!Recovers,
         Engine!Pool!WorkerExits, Engine!Pool!StartReturns, Engine!Pool!AllExited,
         MonP!Next, MonP!vars, MonP!schedVars, MonP!poolVars,
         MonP!SchedulerStep, MonP!PoolStep, MonP!CallsCheck, MonP!CheckReturns,
         MonP!Terminated,
         MonP!Sched!Environment, MonP!Sched!CreateTarget, MonP!Sched!UpdateTarget,
         MonP!Sched!DeleteTarget, MonP!Sched!SetEntry, MonP!Sched!Cancel,
         MonP!Sched!goVars, MonP!Sched!Reconcile, MonP!Sched!ListOk,
         MonP!Sched!Snapshot, MonP!Sched!ListFail, MonP!Sched!Visit,
         MonP!Sched!Sweep, MonP!Sched!Stop, MonP!Sched!Start, MonP!Sched!Old,
         MonP!Sched!Fresh, MonP!Sched!ListedConf, MonP!Sched!Current,
         MonP!Sched!Present, MonP!Sched!StartLoop, MonP!Sched!Discover,
         MonP!Sched!Shutdown, MonP!Sched!StartReturns, MonP!Sched!AllExited,
         MonP!Sched!Runner, MonP!Sched!TickerFires, MonP!Sched!TakeTick,
         MonP!Sched!RunnerExits, MonP!Sched!Done, MonP!Sched!CheckReturns,
         MonP!Sched!Checking,
         MonP!Pool!callVars, MonP!Pool!workerVars, MonP!Pool!Submit, MonP!Pool!Send,
         MonP!Pool!Block, MonP!Pool!HasRoom, MonP!Pool!GiveUp, MonP!Pool!MayGiveUp,
         MonP!Pool!Orphaned, MonP!Pool!Done, MonP!Pool!Receive, MonP!Pool!Check,
         MonP!Pool!Return, MonP!Pool!Worker, MonP!Pool!Take, MonP!Pool!Process,
         MonP!Pool!PossibleOutcomes, MonP!Pool!Deliver, MonP!Pool!Panics,
         MonP!Pool!Recovers,
         MonP!Pool!WorkerExits, MonP!Pool!StartReturns, MonP!Pool!AllExited
<1> QED
  BY <1>1, <1>2

-----------------------------------------------------------------------------
(* The engine's steps leave the API's variables alone.                     *)
LEMMA RunsApiP == Spec => ApiP!Spec
<1>1. Init => ApiP!Init
  BY SameApi DEF Init
<1>2. [Next]_vars => [Api!Next]_Api!vars
  BY DEF Next, ApiStep, EngineStep, vars, apiVars, Api!vars
<1>3. [Next]_vars => [ApiP!Next]_ApiP!vars
  BY <1>2, SameApi
<1> QED
  BY <1>1, <1>3, PTL DEF Spec, ApiP!Spec

(* What TargetApiProofs proves of the table holds in the application.      *)
LEMMA TableInvariant == Spec => []ApiP!ApiInv
<1>1. ApiP!Spec => []ApiP!ApiInv
  BY ApiP!ApiInvariant, ApplicationAssumption, SameTypes
<1> QED
  BY <1>1, RunsApiP, PTL

LEMMA SameStoreTypes ==
  /\ Api!TS!Rows = ApiP!TS!Rows /\ Api!TS!Requests = ApiP!TS!Requests
  /\ \A t, i : Api!TS!Exists(t, i) = ApiP!TS!Exists(t, i)
  /\ \A t, S : Api!TS!Shown(t, S) = ApiP!TS!Shown(t, S)
  /\ \A b : Api!TS!AsCreated(b) = ApiP!TS!AsCreated(b)
  /\ \A t, r : Api!TS!Effects(t, r) = ApiP!TS!Effects(t, r)
<1>1. Api!TS!Rows = ApiP!TS!Rows
  BY DEF Api!TS!Rows, ApiP!TS!Rows
<1>2. Api!TS!Requests = ApiP!TS!Requests
  BY <1>1 DEF Api!TS!Bodies, ApiP!TS!Bodies, Api!TS!Requests, ApiP!TS!Requests
<1>3. \A t, i : Api!TS!Exists(t, i) = ApiP!TS!Exists(t, i)
  BY DEF Api!TS!Exists, ApiP!TS!Exists
<1>4. \A t, S : Api!TS!Shown(t, S) = ApiP!TS!Shown(t, S)
  BY <1>3 DEF Api!TS!Shown, ApiP!TS!Shown
<1>5. \A b : Api!TS!AsCreated(b) = ApiP!TS!AsCreated(b)
  BY DEF Api!TS!AsCreated, ApiP!TS!AsCreated
<1>6. \A t, r : Api!TS!Effects(t, r) = ApiP!TS!Effects(t, r)
  BY <1>1, <1>3, <1>5 DEF Api!TS!Effects, ApiP!TS!Effects
<1> QED
  BY <1>1, <1>2, <1>3, <1>4, <1>5, <1>6

(* Sharing the table with the engine, requests are still linearizable.     *)
THEOREM RequestsLinearizable == Spec => Api!Linearizable
<1>1. ApiP!Spec => ApiP!Linearizable
  BY ApiP!ApiIsStore, ApplicationAssumption, SameTypes
<1>2. UNCHANGED ApiP!TS!vars => UNCHANGED Api!TS!vars
  BY DEF ApiP!TS!vars, Api!TS!vars
<1>3. ApiP!TS!Init => Api!TS!Init
  BY DEF ApiP!TS!Init, Api!TS!Init
<1>4. ASSUME NEW c \in Clients
      PROVE  /\ ApiP!TS!Request(c) => Api!TS!Request(c)
             /\ ApiP!TS!Refuse(c) => Api!TS!Refuse(c)
             /\ ApiP!TS!Missing(c) => Api!TS!Missing(c)
             /\ ApiP!TS!Create(c) => Api!TS!Create(c)
             /\ ApiP!TS!Read(c) => Api!TS!Read(c)
             /\ ApiP!TS!Update(c) => Api!TS!Update(c)
             /\ ApiP!TS!Delete(c) => Api!TS!Delete(c)
             /\ ApiP!TS!Fail(c) => Api!TS!Fail(c)
             /\ ApiP!TS!Reply(c) => Api!TS!Reply(c)
  BY SameStoreTypes
     DEF ApiP!TS!Request, Api!TS!Request, ApiP!TS!Refuse, Api!TS!Refuse,
         ApiP!TS!Missing, Api!TS!Missing, ApiP!TS!Create, Api!TS!Create,
         ApiP!TS!Read, Api!TS!Read, ApiP!TS!Update, Api!TS!Update,
         ApiP!TS!Delete, Api!TS!Delete, ApiP!TS!Fail, Api!TS!Fail,
         ApiP!TS!Reply, Api!TS!Reply, ApiP!TS!Asked, Api!TS!Asked,
         ApiP!TS!Answer, Api!TS!Answer
<1>5. [ApiP!TS!Next]_ApiP!TS!vars => [Api!TS!Next]_Api!TS!vars
  BY <1>2, <1>4 DEF ApiP!TS!Next, Api!TS!Next
<1>6. ApiP!Linearizable => Api!Linearizable
  BY <1>3, <1>5, PTL DEF ApiP!Linearizable, Api!Linearizable, ApiP!TS!Spec, Api!TS!Spec
<1> QED
  BY <1>1, <1>6, RunsApiP, PTL

-----------------------------------------------------------------------------
(* A statement that writes one row changes one entry of what the scheduler *)
(* would list.                                                             *)
LEMMA StoredRow ==
  ASSUME ApiP!ApiInv, NEW i \in Ids, NEW e \in Api!Rows \cup {Deleted},
         table' = [table EXCEPT ![i] = e]
  PROVE  Stored' = [Stored EXCEPT ![i] = IF e \in Api!Rows THEN Seen(e) ELSE e]
<1>1. table \in [Ids -> Api!Rows \cup {Unborn, Deleted}]
  BY SameTypes DEF ApiP!ApiInv, ApiP!TypeOK
<1>2. ASSUME NEW k \in Ids
      PROVE  Stored'[k] = [Stored EXCEPT ![i] = IF e \in Api!Rows THEN Seen(e) ELSE e][k]
  BY <1>1 DEF Stored, Seen
<1> QED
  BY <1>2 DEF Stored

(* What a row is in the scheduler's eyes.                                  *)
LEMMA SeenRow ==
  ASSUME NEW r \in Api!Rows
  PROVE  /\ Seen(r) \in Confs \cup {Disabled} /\ Seen(r) \notin {Unborn, Deleted}
         /\ r.enabled => Seen(r) = r.conf /\ r.conf \in Confs
         /\ Seen(r) \in Confs => r.enabled
  BY ApplicationAssumption DEF Seen, Api!Rows

(* What Scheduler assumes of its environment is what a handler, or a       *)
(* repository call that fails on its behalf, does to the table.            *)
LEMMA ApiIsEnvironment ==
  ASSUME ApiP!ApiInv, ApiStep
  PROVE  [Engine!Next]_Engine!vars
<1> DEFINE Entry(e) == IF e \in Api!Rows THEN Seen(e) ELSE e
<1>0. /\ UNCHANGED engineVars
      /\ ApiP!Evolves(table, table')
  BY SameApi, ApiP!ApiStep, ApplicationAssumption, SameTypes DEF ApiStep
<1>1. table \in [Ids -> Api!Rows \cup {Unborn, Deleted}]
  BY SameTypes DEF ApiP!ApiInv, ApiP!TypeOK
<1>2. Unborn \notin Api!Rows /\ Deleted \notin Api!Rows
  BY ApplicationAssumption
<1>3. Stored' = Stored => UNCHANGED Engine!vars
  BY <1>0 DEF engineVars, Engine!vars, Engine!schedVars, Engine!poolVars
<1>4. ASSUME NEW i \in Ids, \/ Engine!Sched!CreateTarget(i) \/ Engine!Sched!UpdateTarget(i)
                            \/ Engine!Sched!DeleteTarget(i)
      PROVE  Engine!Next
  BY <1>0, <1>4 DEF engineVars, Engine!Next, Engine!SchedulerStep, Engine!poolVars,
                    Engine!Sched!Environment
<1>5. ASSUME NEW i \in Ids, NEW e, Stored' = [Stored EXCEPT ![i] = e]
      PROVE  Engine!Sched!SetEntry(i, e)
  BY <1>0, <1>5 DEF engineVars, Engine!Sched!SetEntry, Engine!Sched!goVars
<1>6. CASE table' = table
  BY <1>3, <1>6 DEF Stored
<1>7. ASSUME NEW i \in Ids, table[i] = Unborn, NEW r \in Api!Rows, r.enabled,
             table' = [table EXCEPT ![i] = r]
      PROVE  Engine!Next
  <2>1. Stored' = [Stored EXCEPT ![i] = Seen(r)]
    BY <1>7, StoredRow
  <2>2. Seen(r) \in Confs /\ Stored[i] = Unborn
    BY <1>2, <1>7, SeenRow DEF Stored
  <2>3. Engine!Sched!CreateTarget(i)
    BY <1>5, <2>1, <2>2 DEF Engine!Sched!CreateTarget
  <2> QED
    BY <1>4, <2>3
<1>8. ASSUME NEW i \in Ids, table[i] \in Api!Rows, NEW e \in Api!Rows \cup {Deleted},
             table' = [table EXCEPT ![i] = e]
      PROVE  [Engine!Next]_Engine!vars
  <2>1. Stored' = [Stored EXCEPT ![i] = Entry(e)]
    BY <1>8, StoredRow
  <2>2. Stored[i] \notin {Unborn, Deleted}
    BY <1>8, SeenRow DEF Stored
  <2>3. CASE e = Deleted
    <3>1. Engine!Sched!DeleteTarget(i)
      BY <1>2, <1>5, <2>1, <2>2, <2>3 DEF Engine!Sched!DeleteTarget
    <3> QED
      BY <1>4, <3>1
  <2>4. CASE e \in Api!Rows /\ Seen(e) # Stored[i]
    <3>1. Engine!Sched!UpdateTarget(i)
      BY <1>5, <2>1, <2>2, <2>4, SeenRow DEF Engine!Sched!UpdateTarget
    <3> QED
      BY <1>4, <3>1
  <2>5. CASE e \in Api!Rows /\ Seen(e) = Stored[i]
    <3>1. Stored' = Stored
      BY <2>1, <2>5 DEF Stored
    <3> QED
      BY <1>3, <3>1
  <2> QED
    BY <2>3, <2>4, <2>5
<1> QED
  BY <1>0, <1>6, <1>7, <1>8, SameTypes DEF ApiP!Evolves

(* So every step of the application is one of the engine's or leaves it    *)
(* alone.                                                                  *)
LEMMA EngineRefinement == ApiP!ApiInv /\ [Next]_vars => [Engine!Next]_Engine!vars
<1>1. UNCHANGED vars => UNCHANGED Engine!vars
  BY DEF vars, apiVars, engineVars, Stored, Engine!vars, Engine!schedVars, Engine!poolVars
<1>2. ApiP!ApiInv /\ ApiStep => [Engine!Next]_Engine!vars
  BY ApiIsEnvironment
<1> QED
  BY <1>1, <1>2 DEF Next, EngineStep

(* Whatever the requests do, race and fail like, the engine behaves as     *)
(* module Monitor says.                                                    *)
THEOREM RunsMonitor == Spec => ImplementsMonitor
<1>1. Init => Engine!Init
  BY DEF Init
<1> QED
  BY <1>1, EngineRefinement, TableInvariant, PTL DEF Spec, ImplementsMonitor, Engine!Spec

(* What MonitorProofs proves of the engine holds in the application.       *)
LEMMA RunsMonP == Spec => MonP!Spec
<1>1. Engine!Init => MonP!Init
  BY SameEngine
<1>2. [Engine!Next]_Engine!vars => [MonP!Next]_MonP!vars
  BY SameEngine
<1> QED
  BY <1>1, <1>2, RunsMonitor, PTL DEF ImplementsMonitor, Engine!Spec, MonP!Spec

-----------------------------------------------------------------------------
(* The checks somebody wants are those the table asks for, as soon as the  *)
(* scheduler has seen what the table now holds.                            *)
THEOREM ChecksFollow == Spec => []ChecksFollowTable
<1>1. MonP!Spec => []MonP!WantedAreListed
  BY MonP!WantedListedInvariant, ApplicationAssumption
<1>2. ApiP!ApiInv /\ MonP!WantedAreListed => ChecksFollowTable
  <2> SUFFICES ASSUME ApiP!ApiInv, MonP!WantedAreListed,
                      NEW j \in Engine!QueuedJobs \cup Engine!RunningJobs,
                      Engine!Wanted(j), spc # "visit",
                      listed[j.target.id] = Stored[j.target.id]
               PROVE  /\ table[j.target.id] \in Api!Rows /\ table[j.target.id].enabled
                      /\ table[j.target.id].conf = j.target.conf
    BY DEF ChecksFollowTable
  <2>1. /\ j.target.id \in Ids /\ j.target.conf \in Confs
        /\ Stored[j.target.id] = j.target.conf
    BY DEF MonP!WantedAreListed, MonP!QueuedJobs, Engine!QueuedJobs, MonP!RunningJobs,
           Engine!RunningJobs, MonP!Wanted, Engine!Wanted,
           MonP!Pool!AtWork, Engine!Pool!AtWork
  <2>2. table[j.target.id] \in Api!Rows \cup {Unborn, Deleted}
    BY <2>1, SameTypes DEF ApiP!ApiInv, ApiP!TypeOK
  <2>3. table[j.target.id] \in Api!Rows /\ Seen(table[j.target.id]) = j.target.conf
    BY <2>1, <2>2, ApplicationAssumption DEF Stored
  <2> QED
    BY <2>1, <2>3, SeenRow
<1> QED
  BY <1>1, <1>2, RunsMonP, TableInvariant, PTL

(* No request and no later listing brings back to the schedule a target    *)
(* whose deletion the scheduler has noticed.                               *)
THEOREM DeletionIsFinal == Spec => DeletedStaysUnscheduled
<1>1. MonP!Spec => [](MonP!SchedP!ScheduleInv /\ MonP!SchedP!PastInv /\ MonP!SchedP!AllTold)
  BY MonP!ScheduleInvariant, ApplicationAssumption
<1>2. MonP!SchedP!PastInv /\ ApiP!ApiInv /\ [Next]_vars =>
        [\A i \in Ids :
           listed[i] = Deleted => /\ listed'[i] = Deleted
                                  /\ running[i] = None => running'[i] = None]_vars
  BY EngineRefinement, SameEngine, MonP!DeletionIsKept, ApplicationAssumption
<1> QED
  BY <1>1, <1>2, RunsMonP, TableInvariant, PTL DEF Spec, DeletedStaysUnscheduled

(* With the API as its environment, whatever the requests do, every wanted *)
(* check is the one the running map has for its target at this moment, and *)
(* no target holds two queue or worker slots with wanted checks.  The map  *)
(* is that of the last pass: how far it agrees with the table is           *)
(* ChecksFollowTable's to say.                                             *)
THEOREM WantedChecks == Spec => [](Engine!WantedJobsAreScheduled /\ Engine!OneSlotPerTarget)
<1>1. MonP!Spec => []MonP!WantedJobsAreScheduled /\ []MonP!OneSlotPerTarget
  BY MonP!WantedAreScheduled, MonP!WantedNeverOverlap, ApplicationAssumption
<1>2. MonP!WantedJobsAreScheduled => Engine!WantedJobsAreScheduled
  BY DEF MonP!WantedJobsAreScheduled, Engine!WantedJobsAreScheduled,
         MonP!QueuedJobs, Engine!QueuedJobs, MonP!RunningJobs, Engine!RunningJobs,
         MonP!Wanted, Engine!Wanted, MonP!Pool!AtWork, Engine!Pool!AtWork
<1>3. MonP!OneSlotPerTarget => Engine!OneSlotPerTarget
  BY DEF MonP!OneSlotPerTarget, Engine!OneSlotPerTarget,
         MonP!WantedInQueue, Engine!WantedInQueue, MonP!WantedAtWork, Engine!WantedAtWork,
         MonP!Wanted, Engine!Wanted, MonP!Pool!AtWork, Engine!Pool!AtWork
<1> QED
  BY <1>1, <1>2, <1>3, RunsMonP, PTL

-----------------------------------------------------------------------------
(* What TargetTypes and Application take for granted of the bodies and the *)
(* rows: that a body is valid or not whatever the method, that both make   *)
(* the same row of it, and that a stored interval is positive.             *)
CONSTANTS Words, Urls, WebUrls, Methods, Durations, Codes, Omitted, Unparsable

Rules == INSTANCE TargetRules

(* Bodies whose durations and code need not be among those that clients    *)
(* send: a client may send back any row.                                   *)
AnyBodies ==
  [name : Rules!Texts(Words), url : Rules!Texts(Urls), method : Rules!MethodTexts,
   interval : Int \cup {Omitted, Unparsable}, timeout : Int \cup {Omitted, Unparsable},
   code : Int \cup {Omitted}, enabled : BOOLEAN \cup {Omitted}]

(* The two copies of the defaulting rules make the same of a body.         *)
LEMMA SameRow ==
  ASSUME NEW b \in AnyBodies
  PROVE  /\ Rules!Valid(Rules!New(b)) <=> Rules!Valid(Rules!Updated(b))
         /\ [Rules!New(b) EXCEPT !.enabled = Rules!EnabledOf(b)] = Rules!Updated(b)
<1>1. [Rules!New(b) EXCEPT !.enabled = Rules!EnabledOf(b)] = Rules!Updated(b)
  BY DEF Rules!New, Rules!Updated
<1>2. Rules!Valid(Rules!New(b)) <=> Rules!Valid(Rules!Updated(b))
  BY DEF Rules!Valid, Rules!New, Rules!Updated
<1> QED
  BY <1>1, <1>2

(* A row that a body makes, and Validate lets pass, is in normal form.     *)
LEMMA MadeIsNormal ==
  ASSUME Rules!RulesConstants, NEW b \in AnyBodies, Rules!Decodes(b),
         NEW t \in {Rules!New(b), Rules!Updated(b)}, Rules!Valid(t)
  PROVE  Rules!Normal(t)
<1> DEFINE m == Rules!normalizeMethod(b.method)
<1>1. /\ Rules!Trim(b.name) \in Rules!Texts(Words)
      /\ Rules!Trim(b.url) \in Rules!Texts(Urls)
      /\ ~Rules!Trim(b.name).space /\ ~Rules!Trim(b.url).space
  BY DEF AnyBodies, Rules!Trim, Rules!Texts
<1>2. /\ t.name = Rules!Trim(b.name) /\ t.url = Rules!Trim(b.url) /\ t.method = m
      /\ t.interval = Rules!Parsed(b.interval) /\ t.timeout = Rules!Parsed(b.timeout)
      /\ t.code = Rules!normalizeExpectedStatusCode(b.code)
      /\ t.enabled \in BOOLEAN
      /\ t = [name |-> t.name, url |-> t.url, method |-> t.method,
              interval |-> t.interval, timeout |-> t.timeout, code |-> t.code,
              enabled |-> t.enabled]
  <2>1. Rules!EnabledOf(b) \in BOOLEAN
    BY DEF AnyBodies, Rules!EnabledOf
  <2>2. CASE t = Rules!New(b)
    BY <2>2 DEF Rules!New
  <2>3. CASE t = Rules!Updated(b)
    BY <2>1, <2>3 DEF Rules!Updated
  <2> QED
    BY <2>2, <2>3
<1>3. /\ t.interval \in Int /\ t.timeout \in Int /\ t.code \in Int
      /\ t.interval > 0 /\ t.timeout > 0 /\ t.code \in 100..599
  <2>1. /\ b.interval \in Int \cup {Omitted} /\ b.timeout \in Int \cup {Omitted}
        /\ b.code \in Int \cup {Omitted}
    BY DEF AnyBodies, Rules!Decodes
  <2>2. t.interval \in Int /\ t.timeout \in Int /\ t.code \in Int
    BY <1>2, <2>1 DEF Rules!Parsed, Rules!normalizeExpectedStatusCode
  <2> QED
    BY <2>2 DEF Rules!Valid
<1>4. m \in Rules!MethodTexts /\ m.core # "" /\ ~m.space /\ ~m.lower
  BY <1>2 DEF AnyBodies, Rules!MethodTexts, Rules!normalizeMethod, Rules!Get, Rules!IsEmpty,
              Rules!Trim, Rules!Valid, Rules!allowedMethods, Rules!RulesConstants
<1>5. Rules!Trim(t.name) = t.name /\ Rules!Trim(t.url) = t.url
  BY <1>1, <1>2 DEF Rules!Trim, Rules!Texts
<1>6. Rules!normalizeMethod(m) = m
  BY <1>4 DEF Rules!normalizeMethod, Rules!IsEmpty, Rules!Trim, Rules!MethodTexts
<1>7. /\ Rules!Parsed(t.interval) = t.interval /\ Rules!Parsed(t.timeout) = t.timeout
      /\ Rules!normalizeExpectedStatusCode(t.code) = t.code
      /\ t.enabled # Omitted
  BY <1>2, <1>3 DEF Rules!Parsed, Rules!normalizeExpectedStatusCode, Rules!RulesConstants
<1>8. Rules!Updated(Rules!Shown(t)) = t
  BY <1>2, <1>5, <1>6, <1>7 DEF Rules!Updated, Rules!Shown, Rules!EnabledOf
<1>9. t.url \in Rules!Texts(WebUrls)
  BY <1>1, <1>2 DEF Rules!Valid, Rules!Texts
<1> QED
  BY <1>1, <1>2, <1>3, <1>4, <1>8, <1>9 DEF Rules!Normal

(* A body with one field of another, or a row with one field of a body, is *)
(* a body.                                                                 *)
LEMMA EditIsBody ==
  ASSUME Rules!RulesConstants, NEW t, Rules!Normal(t), NEW b \in AnyBodies, NEW f \in Rules!Fields
  PROVE  Rules!Shown(t) \in AnyBodies /\ Rules!Edited(t, f, b[f]) \in AnyBodies
<1>1. Rules!Shown(t) \in AnyBodies
  BY DEF Rules!Normal, AnyBodies, Rules!Shown, Rules!Texts, Rules!RulesConstants
<1>2. Rules!Edited(t, f, b[f]) \in AnyBodies
  BY <1>1 DEF AnyBodies, Rules!Fields, Rules!Edited
<1> QED
  BY <1>1, <1>2

(* Rows are in normal form and can be scheduled, for any names, URLs,      *)
(* methods, durations and codes.                                           *)
THEOREM RowsAreNormal ==
  Rules!RulesConstants => \A b \in AnyBodies : Rules!StoresNormal(b)
BY MadeIsNormal DEF Rules!StoresNormal

(* POST and PUT accept the same bodies and make the same row of them.      *)
THEOREM PostAndPutAlike ==
  Rules!RulesConstants => \A b \in AnyBodies : Rules!PostAndPutAgree(b)
BY SameRow DEF Rules!PostAndPutAgree

(* The rules of docs/api.md, one by one, are those of New and Validate.    *)
THEOREM LegalBodies ==
  Rules!RulesConstants => \A b \in AnyBodies : Rules!AcceptsLegal(b)
<1> SUFFICES ASSUME Rules!RulesConstants, NEW b \in AnyBodies
             PROVE  Rules!Decodes(b) /\ Rules!Valid(Rules!New(b)) <=>
                      /\ b.name.core # "" /\ b.url.core \in WebUrls
                      /\ \/ Rules!IsEmpty(b.method)
                         \/ b.method.core \in Rules!allowedMethods
                      /\ {b.interval, b.timeout} \subseteq Nat \ {0}
                      /\ b.code \in {Omitted, 0} \cup 100..599
  BY DEF Rules!AcceptsLegal
<1> DEFINE m == Rules!normalizeMethod(b.method)
<1>1. Omitted \notin Int /\ Unparsable \notin Int
  BY DEF Rules!RulesConstants
<1>2. /\ ~Rules!IsEmpty(Rules!Trim(b.name)) <=> b.name.core # ""
      /\ Rules!Trim(b.url).core \in WebUrls <=> b.url.core \in WebUrls
  BY DEF AnyBodies, Rules!Texts, Rules!IsEmpty, Rules!Trim
<1>3. m.core \in Rules!allowedMethods /\ ~m.space /\ ~m.lower <=>
        Rules!IsEmpty(b.method) \/ b.method.core \in Rules!allowedMethods
  BY DEF AnyBodies, Rules!MethodTexts, Rules!normalizeMethod, Rules!Get,
              Rules!IsEmpty, Rules!Trim, Rules!allowedMethods
<1>4. ASSUME NEW d \in Int \cup {Omitted, Unparsable}
      PROVE  d # Unparsable /\ Rules!Parsed(d) > 0 <=> d \in Nat \ {0}
  <2>1. CASE d \in Int
    BY <1>1, <2>1 DEF Rules!Parsed
  <2>2. CASE d = Unparsable
    BY <1>1, <2>2
  <2>3. CASE d = Omitted
    BY <1>1, <2>3 DEF Rules!Parsed
  <2> QED
    BY <2>1, <2>2, <2>3
<1>5. /\ b.interval \in Int \cup {Omitted, Unparsable}
      /\ b.timeout \in Int \cup {Omitted, Unparsable}
      /\ b.code \in Int \cup {Omitted}
  BY DEF AnyBodies
<1>6. Rules!Decodes(b) /\ Rules!Parsed(b.interval) > 0 /\ Rules!Parsed(b.timeout) > 0
        <=> {b.interval, b.timeout} \subseteq Nat \ {0}
  BY <1>4, <1>5 DEF Rules!Decodes
<1>7. Rules!normalizeExpectedStatusCode(b.code) \in 100..599 <=>
        b.code \in {Omitted, 0} \cup 100..599
  <2>1. CASE b.code = Omitted
    BY <2>1 DEF Rules!normalizeExpectedStatusCode
  <2>2. CASE b.code \in Int
    BY <1>1, <2>2 DEF Rules!normalizeExpectedStatusCode
  <2> QED
    BY <1>5, <2>1, <2>2
<1>8. Rules!Valid(Rules!New(b)) <=>
        /\ ~Rules!IsEmpty(Rules!Trim(b.name)) /\ Rules!Trim(b.url).core \in WebUrls
        /\ m.core \in Rules!allowedMethods /\ ~m.space /\ ~m.lower
        /\ Rules!Parsed(b.interval) > 0 /\ Rules!Parsed(b.timeout) > 0
        /\ Rules!normalizeExpectedStatusCode(b.code) \in 100..599
  BY DEF Rules!Valid, Rules!New
<1> QED
  <2> HIDE DEF m
  <2>1. ASSUME Rules!Decodes(b), Rules!Valid(Rules!New(b))
        PROVE  /\ b.name.core # "" /\ b.url.core \in WebUrls
               /\ \/ Rules!IsEmpty(b.method)
                  \/ b.method.core \in Rules!allowedMethods
               /\ {b.interval, b.timeout} \subseteq Nat \ {0}
               /\ b.code \in {Omitted, 0} \cup 100..599
    <3>1. /\ ~Rules!IsEmpty(Rules!Trim(b.name)) /\ Rules!Trim(b.url).core \in WebUrls
          /\ m.core \in Rules!allowedMethods /\ ~m.space /\ ~m.lower
          /\ Rules!Parsed(b.interval) > 0 /\ Rules!Parsed(b.timeout) > 0
          /\ Rules!normalizeExpectedStatusCode(b.code) \in 100..599
      BY <1>8, <2>1, Zenon
    <3>2. b.name.core # "" /\ b.url.core \in WebUrls
      BY <1>2, <3>1, Zenon
    <3>3. Rules!IsEmpty(b.method) \/ b.method.core \in Rules!allowedMethods
      BY <1>3, <3>1, Zenon
    <3>4. {b.interval, b.timeout} \subseteq Nat \ {0}
      BY <1>6, <2>1, <3>1, Zenon
    <3>5. b.code \in {Omitted, 0} \cup 100..599
      BY <1>7, <3>1, Zenon
    <3> QED
      BY <3>2, <3>3, <3>4, <3>5, Zenon
  <2>2. ASSUME /\ b.name.core # "" /\ b.url.core \in WebUrls
               /\ \/ Rules!IsEmpty(b.method)
                  \/ b.method.core \in Rules!allowedMethods
               /\ {b.interval, b.timeout} \subseteq Nat \ {0}
               /\ b.code \in {Omitted, 0} \cup 100..599
        PROVE  Rules!Decodes(b) /\ Rules!Valid(Rules!New(b))
    BY <1>2, <1>3, <1>6, <1>7, <1>8, <2>2, Zenon
  <2> QED
    BY <2>1, <2>2

(* Each field of a row is made of the same field of the body.              *)
LEMMA FieldByField ==
  ASSUME NEW b \in AnyBodies, NEW c \in AnyBodies, NEW g \in Rules!Fields, b[g] = c[g]
  PROVE  Rules!Updated(b)[g] = Rules!Updated(c)[g]
<1>1. \A d : /\ Rules!Updated(d)["name"] = Rules!Trim(d["name"])
             /\ Rules!Updated(d)["url"] = Rules!Trim(d["url"])
             /\ Rules!Updated(d)["method"] = Rules!normalizeMethod(d["method"])
             /\ Rules!Updated(d)["interval"] = Rules!Parsed(d["interval"])
             /\ Rules!Updated(d)["timeout"] = Rules!Parsed(d["timeout"])
             /\ Rules!Updated(d)["code"] = Rules!normalizeExpectedStatusCode(d["code"])
  BY DEF Rules!Updated
<1>2. \A d : Rules!Updated(d)["enabled"] = IF d["enabled"] = Omitted THEN TRUE ELSE d["enabled"]
  BY DEF Rules!Updated, Rules!EnabledOf
<1>3. CASE g = "enabled"
  BY <1>2, <1>3, Zenon
<1>4. CASE g \in {"name", "url", "method", "interval", "timeout", "code"}
  BY <1>1, <1>4
<1> QED
  BY <1>3, <1>4 DEF Rules!Fields

(* A client that sends back what it was shown, but for one field, changes  *)
(* no other.                                                               *)
THEOREM EditsChangeOneField ==
  ASSUME Rules!RulesConstants, NEW t, Rules!Normal(t), NEW f \in Rules!Fields, NEW b \in AnyBodies
  PROVE  Rules!EditIsLocal(t, f, b[f])
<1> DEFINE edited == Rules!Edited(t, f, b[f])
<1>1. edited \in AnyBodies /\ Rules!Shown(t) \in AnyBodies
  BY EditIsBody
<1>2. ASSUME NEW g \in Rules!Fields \ {f}
      PROVE  Rules!Updated(edited)[g] = t[g]
  <2>1. edited[g] = Rules!Shown(t)[g]
    BY <1>2 DEF Rules!Edited, Rules!Shown, Rules!Fields
  <2>2. Rules!Updated(edited)[g] = Rules!Updated(Rules!Shown(t))[g]
    BY <1>1, <2>1, FieldByField
  <2> QED
    BY <2>2 DEF Rules!Normal
<1> QED
  BY <1>2 DEF Rules!EditIsLocal
=============================================================================
