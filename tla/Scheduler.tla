----------------------------- MODULE Scheduler -----------------------------
(***************************************************************************)
(* internal/scheduler: the reconciliation loop of Scheduler.Start and the  *)
(* per-target goroutines it starts and cancels (runTarget).                *)
(*                                                                         *)
(* The store behind TargetLister is part of the model: the REST API        *)
(* creates, updates and deletes targets at any time, and the scheduler     *)
(* only ever sees the snapshot its last successful List returned.  The     *)
(* TargetChecker is an interface here: a check returns some time after it  *)
(* began (module TargetChecker states that contract, module Monitor plugs  *)
(* the worker pool in).                                                    *)
(***************************************************************************)
CONSTANTS
  Ids,       \* target IDs the REST API may hand out (UUIDs, never reused)
  Confs,     \* values of the fields of a Target other than ID and Enabled
  Usable,    \* the configurations whose Interval is positive
  Slots,     \* identities of per-target goroutines; bounds how many exist at once
  Unborn,    \* store entry: this ID has not been handed out yet
  Deleted,   \* store entry: this ID was deleted
  Disabled,  \* store entry: a target with Enabled = false
  None

ASSUME SchedulerAssumption ==
  /\ Usable \subseteq Confs
  /\ {Unborn, Deleted, Disabled, None} \cap Confs = {}
  /\ None \notin [slot : Slots, conf : Confs]
  /\ None \notin [id : Ids, conf : Confs]
  /\ Unborn # Disabled /\ Deleted # Disabled /\ Unborn # Deleted

VARIABLES
  store,     \* the targets table, by ID
  ctxDone,   \* the context passed to Start has been canceled
  spc,       \* where the goroutine that runs Start is
  listed,    \* what the last successful List returned
  todo,      \* listed IDs the loop of reconcile has not visited yet
  running,   \* the map of runningTarget: which goroutine serves an ID, with which value
  pc,        \* where each per-target goroutine is
  runs,      \* the target each goroutine closes over
  canceled,  \* the cancel function of the goroutine's own context was called
  tick       \* a tick sits in the one-slot channel of the goroutine's ticker

goVars == <<pc, runs, canceled, tick>>
vars   == <<store, ctxDone, spc, listed, todo, running, goVars>>

Entries        == Confs \cup {Unborn, Deleted, Disabled}
RunningTargets == [slot : Slots, conf : Confs]
Targets        == [id : Ids, conf : Confs]

(* Mutant: reconcile never records an ID as seen.                          *)
NeverSeen(i) == FALSE

(* List returns neither an ID that was never created nor a deleted one.    *)
Present(i) == listed[i] \notin {Unborn, Deleted}

(* Mutant: the goroutine is given the context of Start, not its own.       *)
RootDone(g) == ctxDone

(* A context is done when it or its parent is canceled.                    *)
Done(g) == ctxDone \/ canceled[g]

Init ==
  /\ store = [i \in Ids |-> Unborn]
  /\ ctxDone = FALSE
  /\ spc = "list"
  /\ listed = [i \in Ids |-> Unborn]
  /\ todo = {}
  /\ running = [i \in Ids |-> None]
  /\ pc = [g \in Slots |-> "free"]
  /\ runs = [g \in Slots |-> None]
  /\ canceled = [g \in Slots |-> FALSE]
  /\ tick = [g \in Slots |-> FALSE]

-----------------------------------------------------------------------------
(* The environment: the REST API writes the store, a signal cancels ctx.   *)

SetEntry(i, e) ==
  /\ store' = [store EXCEPT ![i] = e]
  /\ UNCHANGED <<ctxDone, spc, listed, todo, running, goVars>>

CreateTarget(i) ==
  /\ store[i] = Unborn
  /\ \E c \in Confs : SetEntry(i, c)

UpdateTarget(i) ==
  /\ store[i] \notin {Unborn, Deleted}
  /\ \E e \in Confs \cup {Disabled} : e # store[i] /\ SetEntry(i, e)

DeleteTarget(i) ==
  /\ store[i] \notin {Unborn, Deleted}
  /\ SetEntry(i, Deleted)

Cancel ==
  /\ ~ctxDone
  /\ ctxDone' = TRUE
  /\ UNCHANGED <<store, spc, listed, todo, running, goVars>>

-----------------------------------------------------------------------------
(* The goroutine that runs Start: reconcile, then wait for a tick or ctx.  *)

(* Mutant: the first listing that shows a target is cached for good.       *)
CachedSnapshot == IF \E i \in Ids : Present(i) THEN listed ELSE store

Snapshot == store

(* List succeeded: the loop below works on this snapshot, whatever the     *)
(* store becomes meanwhile.                                                *)
ListOk ==
  /\ spc = "list"
  /\ listed' = Snapshot
  /\ todo' = {i \in Ids : Snapshot[i] \notin {Unborn, Deleted}}
  /\ spc' = "visit"
  /\ UNCHANGED <<store, ctxDone, running, goVars>>

(* Mutant: an error is taken for an empty listing.                         *)
ListFailAsEmpty ==
  /\ spc = "list"
  /\ listed' = [i \in Ids |-> Unborn]
  /\ todo' = {}
  /\ spc' = "visit"
  /\ UNCHANGED <<store, ctxDone, running, goVars>>

(* List failed: the previous schedule stays as it is.                      *)
ListFail ==
  /\ spc = "list"
  /\ spc' = "select"
  /\ UNCHANGED <<store, ctxDone, listed, todo, running, goVars>>

Old(i) == IF running[i] = None THEN {} ELSE {running[i].slot}

(* Mutant: the entry is deleted without calling cancel.                    *)
StopForgetsCancel(S) ==
  /\ running' = [i \in Ids |-> IF i \in S THEN None ELSE running[i]]
  /\ UNCHANGED goVars

(* cancel is called and the entry deleted; the goroutine is not waited for. *)
Stop(S) ==
  /\ canceled' = [g \in Slots |-> canceled[g] \/ \E i \in S : g \in Old(i)]
  /\ running' = [i \in Ids |-> IF i \in S THEN None ELSE running[i]]
  /\ UNCHANGED <<pc, runs, tick>>

(* A goroutine is fresh: no slot that is alive or still referred to by the *)
(* running map is reused.                                                  *)
Fresh(g) == pc[g] = "free" /\ \A i \in Ids : g \notin Old(i)

(* Mutant: start takes the target's present row, not the listed one.       *)
RowConf(i) == store[i]

ListedConf(i) == listed[i]

Start(i, g) ==
  /\ Fresh(g)
  /\ running' = [running EXCEPT ![i] = [slot |-> g, conf |-> ListedConf(i)]]
  /\ pc' = [pc EXCEPT ![g] = "first"]
  /\ runs' = [runs EXCEPT ![g] = [id |-> i, conf |-> ListedConf(i)]]
  /\ canceled' = [canceled EXCEPT ![g] = FALSE]
  /\ UNCHANGED tick

(* Mutant: any goroutine will do, whatever it was started with.            *)
CurrentByIdOnly(i) == running[i] # None

Current(i) == running[i] # None /\ running[i].conf = listed[i]

(* The loop of reconcile over the listed targets.  A goroutine that is not *)
(* current is stopped, which only tells it to stop; then, without waiting  *)
(* for it, an enabled target with a positive interval gets a new one.      *)
Visit(i) ==
  /\ spc = "visit" /\ i \in todo
  /\ \/ running[i] # None /\ ~Current(i) /\ Stop({i}) /\ UNCHANGED todo
     \/ /\ todo' = todo \ {i}
        /\ \/ Current(i) /\ UNCHANGED <<running, goVars>>
           \/ running[i] = None /\ listed[i] \notin Usable /\ UNCHANGED <<running, goVars>>
           \/ running[i] = None /\ listed[i] \in Usable /\ \E g \in Slots : Start(i, g)
  /\ UNCHANGED <<store, ctxDone, spc, listed>>

(* The second loop of reconcile: what was not listed any more is stopped.  *)
Sweep ==
  /\ spc = "visit" /\ todo = {}
  /\ Stop({i \in Ids : ~Present(i)})
  /\ spc' = "select"
  /\ UNCHANGED <<store, ctxDone, listed, todo>>

(* select: the discovery ticker fired.  When ctx is done too, the runtime  *)
(* picks either case.                                                      *)
Discover ==
  /\ spc = "select"
  /\ spc' = "list"
  /\ UNCHANGED <<store, ctxDone, listed, todo, running, goVars>>

(* select: ctx is done; the deferred function cancels every goroutine.     *)
Shutdown ==
  /\ spc = "select" /\ ctxDone
  /\ spc' = "drain"
  /\ canceled' = [g \in Slots |-> canceled[g] \/ \E i \in Ids : g \in Old(i)]
  /\ UNCHANGED <<store, ctxDone, listed, todo, running, pc, runs, tick>>

AllExited == \A g \in Slots : pc[g] = "free"

(* wg.Wait returned: every per-target goroutine has exited.                *)
StartReturns ==
  /\ spc = "drain"
  /\ AllExited
  /\ spc' = "returned"
  /\ UNCHANGED <<store, ctxDone, listed, todo, running, goVars>>

-----------------------------------------------------------------------------
(* A per-target goroutine (runTarget).                                     *)

Checking(g) == pc[g] \in {"first", "check"}

(* Check returned: back to the select; after the first check the ticker    *)
(* exists.                                                                 *)
CheckReturns(g) ==
  /\ Checking(g)
  /\ pc' = [pc EXCEPT ![g] = "select"]
  /\ UNCHANGED <<store, ctxDone, spc, listed, todo, running, runs, canceled, tick>>

(* The ticker fires; a tick that finds the channel full is dropped.        *)
TickerFires(g) ==
  /\ pc[g] \in {"select", "check"} /\ ~tick[g]
  /\ tick' = [tick EXCEPT ![g] = TRUE]
  /\ UNCHANGED <<store, ctxDone, spc, listed, todo, running, pc, runs, canceled>>

(* Mutant: the goroutine returns on a tick.                                *)
TickEndsRunner(g) ==
  /\ pc[g] = "select" /\ tick[g]
  /\ tick' = [tick EXCEPT ![g] = FALSE]
  /\ pc' = [pc EXCEPT ![g] = "free"]
  /\ UNCHANGED <<store, ctxDone, spc, listed, todo, running, runs, canceled>>

(* select: a tick was received, also when the context is done.             *)
TakeTick(g) ==
  /\ pc[g] = "select" /\ tick[g]
  /\ tick' = [tick EXCEPT ![g] = FALSE]
  /\ pc' = [pc EXCEPT ![g] = "check"]
  /\ UNCHANGED <<store, ctxDone, spc, listed, todo, running, runs, canceled>>

(* select: the goroutine's context is done; it exits (wg.Done).  The slot  *)
(* is cleared, context included: nothing reads it before the next start.   *)
RunnerExits(g) ==
  /\ pc[g] = "select" /\ Done(g)
  /\ pc' = [pc EXCEPT ![g] = "free"]
  /\ runs' = [runs EXCEPT ![g] = None]
  /\ tick' = [tick EXCEPT ![g] = FALSE]
  /\ canceled' = [canceled EXCEPT ![g] = FALSE]
  /\ UNCHANGED <<store, ctxDone, spc, listed, todo, running>>

-----------------------------------------------------------------------------
Environment ==
  \/ \E i \in Ids : CreateTarget(i) \/ UpdateTarget(i) \/ DeleteTarget(i)
  \/ Cancel

Reconcile == ListOk \/ ListFail \/ (\E i \in Ids : Visit(i)) \/ Sweep

StartLoop == Reconcile \/ Discover \/ Shutdown \/ StartReturns

(* What a per-target goroutine does on its own, without its TargetChecker. *)
Runner(g) == TickerFires(g) \/ TakeTick(g) \/ RunnerExits(g)

Terminated == spc = "returned" /\ UNCHANGED vars

Next ==
  \/ Environment
  \/ StartLoop
  \/ \E g \in Slots : Runner(g) \/ CheckReturns(g)
  \/ Terminated

(***************************************************************************)
(* Fairness.  The goroutines are scheduled by the Go runtime (weak), the   *)
(* tickers keep firing (weak), and a select with several ready cases picks *)
(* one at random, so that no ready case is passed over forever (strong).   *)
(* ListOk is strong: the database is assumed not to fail for ever.         *)
(***************************************************************************)
StartFairness ==
  /\ WF_vars(ListOk \/ ListFail) /\ SF_vars(ListOk)
  /\ \A i \in Ids : WF_vars(Visit(i))
  /\ WF_vars(Sweep) /\ WF_vars(Discover)
  /\ SF_vars(Shutdown) /\ WF_vars(StartReturns)

RunnerFairness ==
  \A g \in Slots :
    /\ WF_vars(TickerFires(g)) /\ WF_vars(TakeTick(g))
    /\ SF_vars(RunnerExits(g))

CheckFairness == \A g \in Slots : WF_vars(CheckReturns(g))

Spec == Init /\ [][Next]_vars
FairSpec == Spec /\ StartFairness /\ RunnerFairness /\ CheckFairness

-----------------------------------------------------------------------------
(* Every variable holds a value of its Go counterpart's type.              *)
TypeOK ==
  /\ store \in [Ids -> Entries]
  /\ ctxDone \in BOOLEAN
  /\ spc \in {"list", "visit", "select", "drain", "returned"}
  /\ listed \in [Ids -> Entries]
  /\ todo \in SUBSET Ids
  /\ running \in [Ids -> RunningTargets \cup {None}]
  /\ pc \in [Slots -> {"free", "first", "select", "check"}]
  /\ runs \in [Slots -> Targets \cup {None}]
  /\ canceled \in [Slots -> BOOLEAN]
  /\ tick \in [Slots -> BOOLEAN]

(* A goroutine that nobody told to stop is the one the running map names   *)
(* for its target, with the same value: none is orphaned by a restart, and *)
(* no target has two of them (reconcile, start, stop).                     *)
NoOrphanRunner ==
  \A g \in Slots :
    pc[g] # "free" /\ ~canceled[g] =>
      running[runs[g].id] = [slot |-> g, conf |-> runs[g].conf]

Agrees(i) == IF listed[i] \in Usable
             THEN running[i] # None /\ running[i].conf = listed[i]
             ELSE running[i] = None

(* Between two reconciliations the running map is exactly what the last    *)
(* successful listing asks for: every enabled target with a positive       *)
(* interval, each with the listed configuration, and nothing else.         *)
ScheduleMatchesListing == spc = "select" => \A i \in Ids : Agrees(i)

(* No goroutine is left running after Start has returned.                  *)
NoRunnerOutlivesStart ==
  spc = "returned" => \A g \in Slots : pc[g] = "free"

(* Reconciling never disturbs a target whose listed configuration is the   *)
(* one it runs with: its goroutine and its ticker stay.                    *)
UnchangedTargetUndisturbed ==
  [][\A i \in Ids : Current(i) => running'[i] = running[i]]_vars

(* A target whose row is still in the store is never unscheduled as        *)
(* "deleted", however old the snapshot, and not by a failed List either.   *)
OnlyDeletedAreSwept ==
  [][\A i \in Ids : running[i] # None /\ running'[i] = None /\ spc' = "select"
                      => store[i] = Deleted]_vars

(* A change of a target takes effect: once its entry stops changing, the   *)
(* schedule agrees with it for good, as long as Start keeps running.       *)
Converges ==
  \A i \in Ids : \A e \in Entries :
    <>[](store[i] = e /\ ~ctxDone) =>
      <>[](IF e \in Usable THEN running[i] # None /\ running[i].conf = e
                           ELSE running[i] = None)

(* A target that stays enabled is checked again and again, with the        *)
(* configuration it has, by a goroutine nobody told to stop.               *)
KeepsChecking ==
  \A i \in Ids : \A c \in Usable :
    <>[](store[i] = c /\ ~ctxDone) =>
      \A p \in {"check", "select"} :
        []<>(\E g \in Slots : /\ pc[g] = p /\ ~canceled[g]
                              /\ runs[g] = [id |-> i, conf |-> c])

(* A goroutine told to stop exits: the two ready cases of its select       *)
(* cannot keep it ticking.                                                 *)
StoppedRunnersExit ==
  \A g \in Slots : (pc[g] # "free" /\ canceled[g]) ~> (pc[g] = "free")
=============================================================================
