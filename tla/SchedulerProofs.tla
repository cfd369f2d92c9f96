-------------------------- MODULE SchedulerProofs --------------------------
(***************************************************************************)
(* Proofs that the safety properties of module Scheduler hold for any      *)
(* numbers of targets, configurations and goroutines.                      *)
(*                                                                         *)
(* Each property is a consequence of an inductive invariant; the invariant *)
(* of a theorem may use that of the theorems before it.                    *)
(***************************************************************************)
EXTENDS Scheduler, TLAPS

(* Every step of the program, idle steps included, keeps each variable in  *)
(* its type.                                                               *)
LEMMA TypeStep == TypeOK /\ [Next]_vars => TypeOK'
<1> SUFFICES ASSUME TypeOK, [Next]_vars PROVE TypeOK'
  OBVIOUS
<1> USE SchedulerAssumption DEF TypeOK, Entries, RunningTargets, Targets, goVars
<1>1. ASSUME NEW i \in Ids, CreateTarget(i) \/ UpdateTarget(i) \/ DeleteTarget(i)
      PROVE TypeOK'
  BY <1>1 DEF CreateTarget, UpdateTarget, DeleteTarget, SetEntry
<1>2. CASE Cancel
  BY <1>2 DEF Cancel
<1>3. CASE ListOk
  BY <1>3 DEF ListOk, Snapshot
<1>4. CASE ListFail
  BY <1>4 DEF ListFail
<1>5. ASSUME NEW i \in Ids, Visit(i) PROVE TypeOK'
  <2>1. CASE running[i] # None /\ ~Current(i) /\ Stop({i}) /\ UNCHANGED todo
    BY <1>5, <2>1 DEF Visit, Stop
  <2>2. CASE todo' = todo \ {i} /\ UNCHANGED <<running, goVars>>
    BY <1>5, <2>2 DEF Visit
  <2>3. ASSUME NEW g \in Slots, listed[i] \in Usable, Start(i, g), todo' = todo \ {i}
        PROVE TypeOK'
    BY <1>5, <2>3 DEF Visit, Start, ListedConf
  <2> QED
    BY <1>5, <2>1, <2>2, <2>3 DEF Visit
<1>6. CASE Sweep
  BY <1>6 DEF Sweep, Stop
<1>7. CASE Discover \/ Shutdown \/ StartReturns
  BY <1>7 DEF Discover, Shutdown, StartReturns
<1>8. ASSUME NEW g \in Slots, TickerFires(g) \/ TakeTick(g) \/ RunnerExits(g) \/ CheckReturns(g)
      PROVE TypeOK'
  BY <1>8 DEF TickerFires, TakeTick, RunnerExits, CheckReturns
<1>9. CASE UNCHANGED vars
  BY <1>9 DEF vars
<1> QED
  BY <1>1, <1>2, <1>3, <1>4, <1>5, <1>6, <1>7, <1>8, <1>9
     DEF Next, Environment, StartLoop, Reconcile, Runner, Terminated

(* The variables keep their types in every reachable state.                *)
THEOREM TypeCorrect == Spec => []TypeOK
<1>1. Init => TypeOK
  BY SchedulerAssumption DEF Init, TypeOK, Entries
<1> QED
  BY <1>1, TypeStep, PTL DEF Spec

-----------------------------------------------------------------------------
(* NoOrphanRunner is inductive once a live goroutine is known to have a    *)
(* target: stop cancels exactly the goroutine whose entry it removes, and  *)
(* start finds its entry vacant.                                           *)
Serving == \A g \in Slots : pc[g] # "free" => runs[g] \in Targets

OrphanInv == TypeOK /\ Serving /\ NoOrphanRunner

(* No step makes an orphan.                                                *)
LEMMA OrphanStep == OrphanInv /\ [Next]_vars => OrphanInv'
<1> SUFFICES ASSUME OrphanInv, [Next]_vars PROVE OrphanInv'
  OBVIOUS
<1>0. TypeOK /\ TypeOK'
  BY TypeStep DEF OrphanInv
<1> SUFFICES ASSUME NEW g \in Slots, pc'[g] # "free"
             PROVE  /\ runs'[g] \in Targets
                    /\ ~canceled'[g] =>
                         running'[runs'[g].id] = [slot |-> g, conf |-> runs'[g].conf]
  BY <1>0 DEF OrphanInv, Serving, NoOrphanRunner
<1>a. pc[g] # "free" =>
        /\ runs[g] \in Targets
        /\ ~canceled[g] => running[runs[g].id] = [slot |-> g, conf |-> runs[g].conf]
  BY DEF OrphanInv, Serving, NoOrphanRunner
<1> USE SchedulerAssumption, <1>0, <1>a DEF TypeOK, RunningTargets, Targets, goVars
<1> HIDE DEF OrphanInv
<1>1. ASSUME NEW i \in Ids, CreateTarget(i) \/ UpdateTarget(i) \/ DeleteTarget(i)
      PROVE UNCHANGED <<running, goVars>>
  BY <1>1 DEF CreateTarget, UpdateTarget, DeleteTarget, SetEntry
<1>2. CASE UNCHANGED <<running, goVars>>
  BY <1>2
<1>3. ASSUME NEW S \in SUBSET Ids, Stop(S)
      PROVE  /\ runs'[g] \in Targets
             /\ ~canceled'[g] =>
                  running'[runs'[g].id] = [slot |-> g, conf |-> runs'[g].conf]
  <2>1. /\ runs'[g] = runs[g] /\ pc'[g] = pc[g]
        /\ ~canceled'[g] => ~canceled[g] /\ \A i \in S : g \notin Old(i)
    BY <1>3 DEF Stop
  <2>2. runs[g] \in Targets /\ runs[g].id \in Ids
    BY <2>1
  <2>3. ASSUME ~canceled'[g] PROVE running'[runs[g].id] = running[runs[g].id]
    <3>1. running[runs[g].id] = [slot |-> g, conf |-> runs[g].conf]
      BY <2>1, <2>3
    <3>2. running[runs[g].id] # None
      BY <2>2, <3>1
    <3>3. g \in Old(runs[g].id)
      BY <3>1, <3>2 DEF Old
    <3> QED
      BY <1>3, <2>1, <2>2, <2>3, <3>3 DEF Stop
  <2> QED
    BY <2>1, <2>2, <2>3
<1>4. ASSUME NEW i \in Ids, Visit(i)
      PROVE  /\ runs'[g] \in Targets
             /\ ~canceled'[g] =>
                  running'[runs'[g].id] = [slot |-> g, conf |-> runs'[g].conf]
  <2>1. CASE Stop({i})
    BY <1>3, <2>1
  <2>2. CASE UNCHANGED <<running, goVars>>
    BY <1>2, <2>2
  <2>3. ASSUME NEW h \in Slots, running[i] = None, listed[i] \in Usable, Start(i, h)
        PROVE  /\ runs'[g] \in Targets
               /\ ~canceled'[g] =>
                    running'[runs'[g].id] = [slot |-> g, conf |-> runs'[g].conf]
    BY <2>3 DEF Start, ListedConf
  <2> QED
    BY <1>4, <2>1, <2>2, <2>3 DEF Visit
<1>5. CASE Sweep
  BY <1>3, <1>5 DEF Sweep
<1>6. CASE Shutdown
  BY <1>6 DEF Shutdown
<1>7. ASSUME NEW h \in Slots, TickerFires(h) \/ TakeTick(h) \/ RunnerExits(h) \/ CheckReturns(h)
      PROVE  /\ runs'[g] \in Targets
             /\ ~canceled'[g] =>
                  running'[runs'[g].id] = [slot |-> g, conf |-> runs'[g].conf]
  BY <1>7 DEF TickerFires, TakeTick, RunnerExits, CheckReturns, Checking
<1> QED
  BY <1>1, <1>2, <1>4, <1>5, <1>6, <1>7
     DEF Next, Environment, StartLoop, Reconcile, Runner, Terminated, vars,
         Cancel, ListOk, ListFail, Discover, StartReturns

(* Module MonitorProofs uses the whole invariant.                          *)
LEMMA OrphanInvariant == Spec => []OrphanInv
<1>1. Init => OrphanInv
  BY SchedulerAssumption DEF Init, OrphanInv, TypeOK, Entries, Serving, NoOrphanRunner
<1> QED
  BY <1>1, OrphanStep, PTL DEF Spec

(* Every goroutine that nobody told to stop is the registered one of its   *)
(* target, whatever the API, the signal and the reconciliations do.        *)
THEOREM NoOrphan == Spec => []NoOrphanRunner
<1>1. OrphanInv => NoOrphanRunner
  BY DEF OrphanInv
<1> QED
  BY <1>1, OrphanInvariant, PTL

-----------------------------------------------------------------------------
(* ScheduleMatchesListing during the pass that establishes it: the listed  *)
(* IDs the loop has visited already agree, and those not listed at all are *)
(* left to the sweep.                                                      *)
PassInv ==
  /\ \A i \in Ids : running[i] # None => running[i].conf \in Usable
  /\ spc \in {"list", "select"} => \A i \in Ids : Agrees(i)
  /\ spc = "visit" => \A i \in Ids \ todo : Present(i) => Agrees(i)

ScheduleInv == TypeOK /\ PassInv

(* Each step of a pass moves one ID from todo to those that agree.         *)
LEMMA ScheduleStep == ScheduleInv /\ [Next]_vars => ScheduleInv'
<1> SUFFICES ASSUME ScheduleInv, [Next]_vars PROVE PassInv'
  BY TypeStep DEF ScheduleInv
<1>0. TypeOK /\ TypeOK' /\ PassInv
  BY TypeStep DEF ScheduleInv
<1> USE SchedulerAssumption, <1>0 DEF TypeOK, RunningTargets, Entries, goVars, Agrees, Present
<1>1. ASSUME NEW i \in Ids, CreateTarget(i) \/ UpdateTarget(i) \/ DeleteTarget(i)
      PROVE UNCHANGED <<spc, listed, todo, running>>
  BY <1>1 DEF CreateTarget, UpdateTarget, DeleteTarget, SetEntry
<1>2. CASE UNCHANGED <<spc, listed, todo, running>>
  BY <1>2 DEF PassInv
<1>3. CASE ListOk
  BY <1>3 DEF ListOk, Snapshot, PassInv
<1>4. CASE ListFail \/ Discover \/ Shutdown \/ StartReturns
  BY <1>4 DEF ListFail, Discover, Shutdown, StartReturns, PassInv
<1>5. ASSUME NEW i \in Ids, Visit(i) PROVE PassInv'
  <2>0. spc = "visit" /\ i \in todo /\ UNCHANGED <<spc, listed>>
    BY <1>5 DEF Visit
  <2>1. CASE Stop({i}) /\ UNCHANGED todo
    BY <2>0, <2>1 DEF Stop, PassInv
  <2>2. CASE todo' = todo \ {i} /\ Current(i) /\ UNCHANGED <<running, goVars>>
    BY <2>0, <2>2 DEF Current, PassInv
  <2>3. CASE /\ todo' = todo \ {i} /\ running[i] = None
             /\ listed[i] \notin Usable /\ UNCHANGED <<running, goVars>>
    BY <2>0, <2>3 DEF PassInv
  <2>4. ASSUME NEW g \in Slots, todo' = todo \ {i}, listed[i] \in Usable, Start(i, g)
        PROVE PassInv'
    BY <2>0, <2>4 DEF Start, ListedConf, PassInv
  <2> QED
    BY <1>5, <2>1, <2>2, <2>3, <2>4 DEF Visit
<1>6. CASE Sweep
  BY <1>6 DEF Sweep, Stop, PassInv
<1>7. ASSUME NEW g \in Slots, TickerFires(g) \/ TakeTick(g) \/ RunnerExits(g) \/ CheckReturns(g)
      PROVE UNCHANGED <<spc, listed, todo, running>>
  BY <1>7 DEF TickerFires, TakeTick, RunnerExits, CheckReturns
<1> QED
  BY <1>1, <1>2, <1>3, <1>4, <1>5, <1>6, <1>7
     DEF Next, Environment, StartLoop, Reconcile, Runner, Terminated, vars, Cancel

(* Module MonitorProofs uses the whole invariant.                          *)
LEMMA ScheduleInvariant == Spec => []ScheduleInv
<1>1. Init => ScheduleInv
  BY SchedulerAssumption
     DEF Init, ScheduleInv, TypeOK, Entries, PassInv, Agrees, Present
<1> QED
  BY <1>1, ScheduleStep, PTL DEF Spec

(* Between passes the schedule is the last listing's, neither more nor     *)
(* less, however many listings failed or became stale on the way.          *)
THEOREM ScheduleFollowsListing == Spec => []ScheduleMatchesListing
<1>1. ScheduleInv => ScheduleMatchesListing
  BY DEF ScheduleInv, PassInv, ScheduleMatchesListing
<1> QED
  BY <1>1, ScheduleInvariant, PTL

(* What runs as listed is not touched by any step.                         *)
THEOREM CurrentUndisturbed == Spec => UnchangedTargetUndisturbed
<1>1. TypeOK /\ [Next]_vars => [\A i \in Ids : Current(i) => running'[i] = running[i]]_vars
  <2> SUFFICES ASSUME TypeOK, Next, NEW i \in Ids, Current(i)
               PROVE  running'[i] = running[i]
    OBVIOUS
  <2> USE SchedulerAssumption DEF TypeOK, RunningTargets, goVars
  <2>1. CASE UNCHANGED running
    BY <2>1
  <2>2. ASSUME NEW j \in Ids, Visit(j) PROVE running'[i] = running[i]
    <3>1. CASE ~Current(j) /\ Stop({j})
      BY <3>1 DEF Stop
    <3>2. ASSUME NEW g \in Slots, running[j] = None, Start(j, g)
          PROVE running'[i] = running[i]
      BY <3>2 DEF Start, Current
    <3> QED
      BY <2>1, <2>2, <3>1, <3>2 DEF Visit
  <2>3. CASE Sweep
    <3>1. Present(i)
      BY DEF Current, Present
    <3> QED
      BY <2>3, <3>1 DEF Sweep, Stop
  <2> QED
    BY <2>1, <2>2, <2>3
       DEF Next, Environment, CreateTarget, UpdateTarget, DeleteTarget, SetEntry, Cancel,
           StartLoop, Reconcile, ListOk, ListFail, Discover, Shutdown, StartReturns,
           Runner, TickerFires, TakeTick, RunnerExits, CheckReturns, Terminated, vars
<1> QED
  BY <1>1, TypeCorrect, PTL DEF Spec, UnchangedTargetUndisturbed

-----------------------------------------------------------------------------
(* A listing is of the past, and of that only: an ID that was once handed  *)
(* out or deleted stays so in the store, and nothing is scheduled that was *)
(* never listed.                                                           *)
ListingIsPast ==
  \A i \in Ids :
    /\ listed[i] # Unborn => store[i] # Unborn
    /\ listed[i] = Deleted => store[i] = Deleted
    /\ running[i] # None => listed[i] # Unborn

PastInv == TypeOK /\ ListingIsPast

(* Neither the API nor a listing turns this back.                          *)
LEMMA PastStep == PastInv /\ [Next]_vars => PastInv'
<1> SUFFICES ASSUME PastInv, [Next]_vars PROVE ListingIsPast'
  BY TypeStep DEF PastInv
<1>0. TypeOK /\ TypeOK' /\ ListingIsPast
  BY TypeStep DEF PastInv
<1> USE SchedulerAssumption, <1>0 DEF TypeOK, RunningTargets, Entries, goVars, ListingIsPast
<1>1. ASSUME NEW i \in Ids, CreateTarget(i) \/ UpdateTarget(i) \/ DeleteTarget(i)
      PROVE ListingIsPast'
  BY <1>1 DEF CreateTarget, UpdateTarget, DeleteTarget, SetEntry
<1>2. CASE UNCHANGED <<store, listed, running>>
  BY <1>2
<1>3. CASE ListOk
  BY <1>3 DEF ListOk, Snapshot
<1>4. ASSUME NEW i \in Ids, Visit(i) PROVE ListingIsPast'
  <2>1. CASE Stop({i})
    BY <1>4, <2>1 DEF Visit, Stop
  <2>2. CASE UNCHANGED <<running, goVars>>
    BY <1>4, <2>2 DEF Visit
  <2>3. ASSUME NEW g \in Slots, listed[i] \in Usable, Start(i, g) PROVE ListingIsPast'
    BY <1>4, <2>3 DEF Visit, Start
  <2> QED
    BY <1>4, <2>1, <2>2, <2>3 DEF Visit
<1>5. CASE Sweep
  BY <1>5 DEF Sweep, Stop
<1>6. ASSUME NEW g \in Slots, TickerFires(g) \/ TakeTick(g) \/ RunnerExits(g) \/ CheckReturns(g)
      PROVE UNCHANGED <<store, listed, running>>
  BY <1>6 DEF TickerFires, TakeTick, RunnerExits, CheckReturns
<1> QED
  BY <1>1, <1>2, <1>3, <1>4, <1>5, <1>6
     DEF Next, Environment, StartLoop, Reconcile, Runner, Terminated, vars,
         Cancel, ListFail, Discover, Shutdown, StartReturns

(* Module MonitorProofs uses the whole invariant.                          *)
LEMMA PastInvariant == Spec => []PastInv
<1>1. Init => PastInv
  BY SchedulerAssumption DEF Init, PastInv, TypeOK, Entries, ListingIsPast
<1> QED
  BY <1>1, PastStep, PTL DEF Spec

(* What a listing showed as deleted no later listing shows otherwise, and  *)
(* it is not started again.                                                *)
LEMMA DeletionIsKept ==
  ASSUME PastInv, [Next]_vars, NEW i \in Ids, listed[i] = Deleted
  PROVE  listed'[i] = Deleted /\ (running[i] = None => running'[i] = None)
<1> USE SchedulerAssumption DEF PastInv, TypeOK, RunningTargets, Entries, goVars
<1>1. CASE UNCHANGED <<listed, running>>
  BY <1>1
<1>2. CASE ListOk
  BY <1>2 DEF ListOk, Snapshot, ListingIsPast
<1>3. ASSUME NEW S \in SUBSET Ids, Stop(S), running[i] = None PROVE running'[i] = None
  BY <1>3 DEF Stop
<1>4. ASSUME NEW j \in Ids, Visit(j)
      PROVE  listed'[i] = Deleted /\ (running[i] = None => running'[i] = None)
  <2>1. ASSUME NEW g \in Slots, listed[j] \in Usable, Start(j, g)
        PROVE  running'[i] = running[i]
    BY <2>1 DEF Start
  <2> QED
    BY <1>3, <1>4, <2>1 DEF Visit
<1>5. CASE Sweep
  BY <1>3, <1>5 DEF Sweep
<1> QED
  BY <1>1, <1>2, <1>4, <1>5
     DEF Next, Environment, CreateTarget, UpdateTarget, DeleteTarget, SetEntry, Cancel,
         StartLoop, Reconcile, ListFail, Discover, Shutdown, StartReturns,
         Runner, TickerFires, TakeTick, RunnerExits, CheckReturns, Terminated, vars

(* "Deleted" is never concluded from a failed, partial or old listing.     *)
THEOREM SweepIsRight == Spec => OnlyDeletedAreSwept
<1>1. PastInv /\ [Next]_vars =>
        [\A i \in Ids : running[i] # None /\ running'[i] = None /\ spc' = "select"
                           => store[i] = Deleted]_vars
  <2> SUFFICES ASSUME PastInv, Next, NEW i \in Ids,
                      running[i] # None, running'[i] = None, spc' = "select"
               PROVE  store[i] = Deleted
    OBVIOUS
  <2>1. CASE Sweep
    BY <2>1, SchedulerAssumption
       DEF Sweep, Stop, Present, PastInv, TypeOK, ListingIsPast, RunningTargets
  <2>2. ASSUME NEW j \in Ids, Visit(j) PROVE FALSE
    BY <2>2 DEF Visit
  <2> QED
    BY <2>1, <2>2
       DEF Next, Environment, CreateTarget, UpdateTarget, DeleteTarget, SetEntry, Cancel,
           StartLoop, Reconcile, ListOk, ListFail, Discover, Shutdown, StartReturns,
           Runner, TickerFires, TakeTick, RunnerExits, CheckReturns, Terminated, vars
<1> QED
  BY <1>1, PastInvariant, PTL DEF Spec, OnlyDeletedAreSwept

-----------------------------------------------------------------------------
(* Once Start has left its loop, no goroutine is alive that nobody told to *)
(* stop: the deferred function goes through the running map, and that is   *)
(* enough because no goroutine is an orphan.                               *)
AllTold == spc \in {"drain", "returned"} => \A g \in Slots : pc[g] # "free" => canceled[g]

LEMMA AllToldStep ==
  ASSUME OrphanInv, AllTold, [Next]_vars
  PROVE  AllTold'
<1> SUFFICES ASSUME spc' \in {"drain", "returned"}, NEW g \in Slots, pc'[g] # "free"
             PROVE  canceled'[g]
  BY DEF AllTold
<1> USE SchedulerAssumption DEF OrphanInv, TypeOK, RunningTargets, Targets, goVars, AllTold
<1>1. CASE Shutdown
  <2>1. /\ pc'[g] = pc[g]
        /\ canceled'[g] = (canceled[g] \/ \E i \in Ids : g \in Old(i))
    BY <1>1 DEF Shutdown
  <2>2. ASSUME ~canceled[g] PROVE runs[g].id \in Ids /\ g \in Old(runs[g].id)
    <3>1. runs[g].id \in Ids /\ runs[g].conf \in Confs
      BY <2>1 DEF Serving
    <3>2. running[runs[g].id] = [slot |-> g, conf |-> runs[g].conf]
      BY <2>1, <2>2 DEF NoOrphanRunner
    <3>3. running[runs[g].id] # None
      BY <3>1, <3>2
    <3> QED
      BY <3>1, <3>2, <3>3 DEF Old
  <2> QED
    BY <2>1, <2>2
<1>2. ASSUME NEW i \in Ids, Visit(i) PROVE FALSE
  BY <1>2 DEF Visit
<1>3. ASSUME NEW h \in Slots, TickerFires(h) \/ TakeTick(h) \/ RunnerExits(h) \/ CheckReturns(h)
      PROVE  canceled'[g]
  BY <1>3 DEF TickerFires, TakeTick, RunnerExits, CheckReturns, Checking
<1> QED
  BY <1>1, <1>2, <1>3
     DEF Next, Environment, CreateTarget, UpdateTarget, DeleteTarget, SetEntry, Cancel,
         StartLoop, Reconcile, ListOk, ListFail, Sweep, Discover, StartReturns,
         Runner, Terminated, vars

LEMMA AllToldInvariant == Spec => []AllTold
<1>1. Init => AllTold
  BY DEF Init, AllTold
<1>2. OrphanInv /\ AllTold /\ [Next]_vars => AllTold'
  BY AllToldStep
<1> QED
  BY <1>1, <1>2, OrphanInvariant, PTL DEF Spec

-----------------------------------------------------------------------------
(* wg.Wait is enough: nothing starts a goroutine after it.                 *)
THEOREM NoneOutlivesStart == Spec => []NoRunnerOutlivesStart
<1>1. Init => NoRunnerOutlivesStart
  BY DEF Init, NoRunnerOutlivesStart
<1>2. TypeOK /\ NoRunnerOutlivesStart /\ [Next]_vars => NoRunnerOutlivesStart'
  <2> SUFFICES ASSUME TypeOK, NoRunnerOutlivesStart, [Next]_vars, spc' = "returned",
                      NEW g \in Slots
               PROVE  pc'[g] = "free"
    BY DEF NoRunnerOutlivesStart
  <2> USE DEF TypeOK, goVars
  <2>1. CASE spc = "returned"
    <3>1. pc[g] = "free" /\ \A h \in Slots : pc[h] = "free"
      BY <2>1 DEF NoRunnerOutlivesStart
    <3> QED
      BY <2>1, <3>1
         DEF Next, Environment, CreateTarget, UpdateTarget, DeleteTarget, SetEntry, Cancel,
             StartLoop, Reconcile, ListOk, ListFail, Visit, Sweep, Discover, Shutdown,
             StartReturns, Runner, TickerFires, TakeTick, RunnerExits, CheckReturns,
             Checking, Terminated, vars
  <2>2. CASE StartReturns
    BY <2>2 DEF StartReturns, AllExited
  <2> QED
    BY <2>1, <2>2
       DEF Next, Environment, CreateTarget, UpdateTarget, DeleteTarget, SetEntry, Cancel,
           StartLoop, Reconcile, ListOk, ListFail, Visit, Sweep, Discover, Shutdown,
           Runner, TickerFires, TakeTick, RunnerExits, CheckReturns, Terminated, vars
<1> QED
  BY <1>1, <1>2, TypeCorrect, PTL DEF Spec
=============================================================================
