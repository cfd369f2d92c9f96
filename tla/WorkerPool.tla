----------------------------- MODULE WorkerPool -----------------------------
(***************************************************************************)
(* internal/worker: Pool.Check and Submit, called by many goroutines at    *)
(* once, the bounded queue, the worker goroutines, and the shutdown of     *)
(* Pool.Start.                                                             *)
(*                                                                         *)
(* A job is the pair of the target to check and the caller that holds the  *)
(* other end of job.result.  A caller that gives up leaves its job behind: *)
(* the job stays in the queue or on its worker, and its caller becomes     *)
(* None because nobody will receive from that channel again.               *)
(***************************************************************************)
EXTENDS Naturals, Sequences

CONSTANTS
  Callers,    \* goroutines that call Check, each at most once at a time
  Workers,    \* the WorkerCount worker goroutines
  QueueSize,  \* capacity of the queue; New replaces a value <= 0 by 100
  Targets,
  None

ASSUME PoolAssumption ==
  /\ QueueSize \in Nat \ {0}
  /\ None \notin Callers
  /\ None \notin Targets
  /\ None \notin [caller : Callers \cup {None}, target : Targets]
  /\ None \notin [target : Targets, outcome : {"observed", "recovered", "canceled"}]

VARIABLES
  ctxDone,     \* the context of Start, parent of the callers', is canceled
  callerDone,  \* the context of each caller is canceled
  call,        \* where each caller is in Check and Submit
  asked,       \* the target each caller submits
  result,      \* content of its job's result channel, then what Check returns
  queue,       \* the buffered channel of jobs
  wpc,         \* where each worker goroutine is
  job,         \* the job each worker processes
  stopped      \* Start has returned

callVars   == <<call, asked, result>>
workerVars == <<wpc, job>>
vars == <<ctxDone, callerDone, callVars, queue, workerVars, stopped>>

Outcomes == {"observed", "recovered", "canceled"}
Results  == [target : Targets, outcome : Outcomes]
Jobs     == [caller : Callers \cup {None}, target : Targets]

Done(c) == ctxDone \/ callerDone[c]

Init ==
  /\ ctxDone = FALSE
  /\ callerDone = [c \in Callers |-> FALSE]
  /\ call = [c \in Callers |-> "idle"]
  /\ asked = [c \in Callers |-> None]
  /\ result = [c \in Callers |-> None]
  /\ queue = <<>>
  /\ wpc = [w \in Workers |-> "idle"]
  /\ job = [w \in Workers |-> None]
  /\ stopped = FALSE

-----------------------------------------------------------------------------
(* The contexts belong to whoever calls: they are canceled at any moment,  *)
(* several at once, and a caller gets a new one only between two calls.    *)
Contexts ==
  /\ ctxDone' \in BOOLEAN /\ (ctxDone => ctxDone')
  /\ callerDone' \in [Callers -> BOOLEAN]
  /\ \A c \in Callers : callerDone[c] /\ ~callerDone'[c] => call[c] = "idle"
  /\ UNCHANGED <<callVars, queue, workerVars, stopped>>

-----------------------------------------------------------------------------
(* Pool.Check and Pool.Submit, run by the caller.                          *)

Check(c, t) ==
  /\ call[c] = "idle"
  /\ call' = [call EXCEPT ![c] = "submit"]
  /\ asked' = [asked EXCEPT ![c] = t]
  /\ UNCHANGED <<ctxDone, callerDone, result, queue, workerVars, stopped>>

(* Mutant: the queue is an unbounded list.                                 *)
AlwaysRoom == TRUE

HasRoom == Len(queue) < QueueSize

(* Mutant: after the first select succeeded, the blocking send runs too.   *)
SendTwice(c) ==
  /\ call[c] \in {"submit", "blocked"}
  /\ HasRoom
  /\ queue' = Append(queue, [caller |-> c, target |-> asked[c]])
  /\ call' = [call EXCEPT ![c] = IF @ = "submit" THEN "blocked" ELSE "waiting"]
  /\ UNCHANGED <<ctxDone, callerDone, asked, result, workerVars, stopped>>

(* p.queue <- j, in the first select or in the blocking one.               *)
Send(c) ==
  /\ call[c] \in {"submit", "blocked"}
  /\ HasRoom
  /\ queue' = Append(queue, [caller |-> c, target |-> asked[c]])
  /\ call' = [call EXCEPT ![c] = "waiting"]
  /\ UNCHANGED <<ctxDone, callerDone, asked, result, workerVars, stopped>>

(* The default case: the queue is full and the context is not done.        *)
Block(c) ==
  /\ call[c] = "submit"
  /\ ~HasRoom /\ ~Done(c)
  /\ call' = [call EXCEPT ![c] = "blocked"]
  /\ UNCHANGED <<ctxDone, callerDone, asked, result, queue, workerVars, stopped>>

Orphaned(j, c) == IF j # None /\ j.caller = c THEN [j EXCEPT !.caller = None] ELSE j

(* Mutant: the blocking send is a plain send, without ctx.Done().          *)
MayGiveUpUnlessBlocked(c) == call[c] \in {"submit", "waiting"} /\ Done(c)

MayGiveUp(c) == call[c] \in {"submit", "blocked", "waiting"} /\ Done(c)

(* <-ctx.Done(), in any of the three selects and whatever else is ready:   *)
(* Submit returns ctx.Err() and Check makes a canceled result of it.  The  *)
(* job, if it was sent, stays where it is.                                 *)
GiveUp(c) ==
  /\ MayGiveUp(c)
  /\ call' = [call EXCEPT ![c] = "answered"]
  /\ result' = [result EXCEPT ![c] = [target |-> asked[c], outcome |-> "canceled"]]
  /\ queue' = [k \in DOMAIN queue |-> Orphaned(queue[k], c)]
  /\ job' = [w \in Workers |-> Orphaned(job[w], c)]
  /\ UNCHANGED <<ctxDone, callerDone, asked, wpc, stopped>>

(* <-j.result in the last select.                                          *)
Receive(c) ==
  /\ call[c] = "waiting" /\ result[c] # None
  /\ call' = [call EXCEPT ![c] = "answered"]
  /\ UNCHANGED <<ctxDone, callerDone, asked, result, queue, workerVars, stopped>>

(* Check returns its result to the caller.                                 *)
Return(c) ==
  /\ call[c] = "answered"
  /\ call' = [call EXCEPT ![c] = "idle"]
  /\ asked' = [asked EXCEPT ![c] = None]
  /\ result' = [result EXCEPT ![c] = None]
  /\ UNCHANGED <<ctxDone, callerDone, queue, workerVars, stopped>>

-----------------------------------------------------------------------------
(* A worker goroutine (runWorker, process, safeCheck).                     *)

(* select: a job was received, also when ctx is done.                      *)
Take(w) ==
  /\ wpc[w] = "idle" /\ queue # <<>>
  /\ wpc' = [wpc EXCEPT ![w] = "busy"]
  /\ job' = [job EXCEPT ![w] = Head(queue)]
  /\ queue' = Tail(queue)
  /\ UNCHANGED <<ctxDone, callerDone, callVars, stopped>>

(* Mutant: the checker reports its own deadline as canceled.               *)
AnyOutcome == {"observed", "canceled"}

(* What a check that returns under the pool's context can end with.        *)
PossibleOutcomes == IF ctxDone THEN {"observed", "canceled"} ELSE {"observed"}

(* Mutant: all jobs share one result channel.                              *)
DeliverShared(w, r) ==
  \E c \in Callers :
    /\ call[c] = "waiting" /\ result[c] = None
    /\ result' = [result EXCEPT ![c] = r]

(* Mutant: the result channel has no buffer, the send needs a receiver.    *)
DeliverUnbuffered(w, r) ==
  /\ job[w].caller # None
  /\ result' = [c \in Callers |-> IF job[w].caller = c THEN r ELSE result[c]]

(* j.result <- result: into the one-slot channel of the job, which nobody  *)
(* may be waiting on any more.                                             *)
Deliver(w, r) ==
  result' = [c \in Callers |-> IF job[w].caller = c THEN r ELSE result[c]]

(* The check returns, under the context of the pool and not the caller's.  *)
Process(w) ==
  /\ wpc[w] = "busy"
  /\ \E o \in PossibleOutcomes : Deliver(w, [target |-> job[w].target, outcome |-> o])
  /\ wpc' = [wpc EXCEPT ![w] = "idle"]
  /\ job' = [job EXCEPT ![w] = None]
  /\ UNCHANGED <<ctxDone, callerDone, call, asked, queue, stopped>>

(* The check panics; the panic unwinds the worker's stack.                 *)
Panics(w) ==
  /\ wpc[w] = "busy"
  /\ wpc' = [wpc EXCEPT ![w] = "panicking"]
  /\ UNCHANGED <<ctxDone, callerDone, callVars, queue, job, stopped>>

(* Mutant: the recover is deferred in process, so that the panic skips the *)
(* send of the result.                                                     *)
RecoversInProcess(w) ==
  /\ wpc[w] = "panicking"
  /\ wpc' = [wpc EXCEPT ![w] = "idle"]
  /\ job' = [job EXCEPT ![w] = None]
  /\ UNCHANGED <<ctxDone, callerDone, callVars, queue, stopped>>

(* The recover deferred in safeCheck stops the panic there and makes a     *)
(* connection_error of it, which process delivers like any other result.   *)
Recovers(w) ==
  /\ wpc[w] = "panicking"
  /\ Deliver(w, [target |-> job[w].target, outcome |-> "recovered"])
  /\ wpc' = [wpc EXCEPT ![w] = "idle"]
  /\ job' = [job EXCEPT ![w] = None]
  /\ UNCHANGED <<ctxDone, callerDone, call, asked, queue, stopped>>

(* select: ctx is done; the worker returns and the queue is not drained.   *)
WorkerExits(w) ==
  /\ wpc[w] = "idle" /\ ctxDone
  /\ wpc' = [wpc EXCEPT ![w] = "exited"]
  /\ UNCHANGED <<ctxDone, callerDone, callVars, queue, job, stopped>>

AllExited == \A w \in Workers : wpc[w] = "exited"

(* wg.Wait returned: every worker has exited.                              *)
StartReturns ==
  /\ ~stopped
  /\ AllExited
  /\ stopped' = TRUE
  /\ UNCHANGED <<ctxDone, callerDone, callVars, queue, workerVars>>

-----------------------------------------------------------------------------
Submit(c) == Send(c) \/ Block(c) \/ GiveUp(c) \/ Receive(c)

Worker(w) == Take(w) \/ Process(w) \/ Panics(w) \/ Recovers(w) \/ WorkerExits(w)

Next ==
  \/ Contexts
  \/ \E c \in Callers : (\E t \in Targets : Check(c, t)) \/ Submit(c) \/ Return(c)
  \/ \E w \in Workers : Worker(w)
  \/ StartReturns

(***************************************************************************)
(* Fairness.  Goroutines are scheduled (weak).  Senders blocked on a full  *)
(* channel are served first come first served by the runtime, so none is   *)
(* overtaken for ever (strong), and a worker's select with a ready job and *)
(* a done context picks at random (strong).  A check ends, with a result   *)
(* or in a panic, within the target's Timeout (weak).                      *)
(***************************************************************************)
PoolFairness ==
  /\ \A c \in Callers : WF_vars(Submit(c)) /\ SF_vars(Send(c))
  /\ \A w \in Workers :
       /\ WF_vars(Take(w)) /\ SF_vars(WorkerExits(w))
       /\ WF_vars(Process(w) \/ Panics(w) \/ Recovers(w))
  /\ WF_vars(StartReturns)

Spec == Init /\ [][Next]_vars
FairSpec == Spec /\ PoolFairness

-----------------------------------------------------------------------------
(* Every variable holds a value of its Go counterpart's type; the queue    *)
(* never exceeds its capacity.                                             *)
TypeOK ==
  /\ ctxDone \in BOOLEAN
  /\ callerDone \in [Callers -> BOOLEAN]
  /\ call \in [Callers -> {"idle", "submit", "blocked", "waiting", "answered"}]
  /\ asked \in [Callers -> Targets \cup {None}]
  /\ result \in [Callers -> Results \cup {None}]
  /\ queue \in Seq(Jobs) /\ Len(queue) <= QueueSize
  /\ wpc \in [Workers -> {"idle", "busy", "panicking", "exited"}]
  /\ job \in [Workers -> Jobs \cup {None}]
  /\ stopped \in BOOLEAN

(* A worker goroutine inside process, with its job.                        *)
AtWork(w) == wpc[w] \in {"busy", "panicking"}

QueuedFor(c)  == {k \in DOMAIN queue : queue[k].caller = c}
RunningFor(c) == {w \in Workers : AtWork(w) /\ job[w].caller = c}

(* No submitted check is lost or run twice, whether or not checks panic:   *)
(* while its caller waits and no result is there, its job is in exactly    *)
(* one place, the queue or one worker at work; and a job with a caller is  *)
(* one that caller still waits for.  Hence a worker that delivers finds    *)
(* the channel's one slot empty and never blocks, and no result is         *)
(* overwritten.                                                            *)
WaitingJobInOnePlace ==
  \A c \in Callers :
    /\ call[c] = "waiting" /\ result[c] = None =>
         QueuedFor(c) # {} \/ RunningFor(c) # {}
    /\ QueuedFor(c) # {} \/ RunningFor(c) # {} =>
         call[c] = "waiting" /\ result[c] = None
    /\ QueuedFor(c) = {} \/ RunningFor(c) = {}
    /\ \A k, l \in QueuedFor(c) : k = l
    /\ \A v, w \in RunningFor(c) : v = w

(* A caller is answered for the target it asked about, whatever other jobs *)
(* and abandoned jobs were processed meanwhile.                            *)
AnswersOwnTarget ==
  \A c \in Callers : result[c] # None => result[c].target = asked[c]

(* A check is reported as canceled only to a caller whose context is done. *)
CanceledOnlyWhenDone ==
  \A c \in Callers :
    result[c] # None /\ result[c].outcome = "canceled" => Done(c)

(* Start returns only when no worker is in the middle of a check.          *)
NoCheckOutlivesStart ==
  stopped => \A w \in Workers : wpc[w] = "exited"

(* Cancelling ctx makes Start return, however long the queue is and        *)
(* whatever the callers still submit.                                      *)
PoolStops == ctxDone ~> stopped

(* A call counts as pending until Submit has returned, wherever its job is. *)
TC == INSTANCE TargetChecker WITH
        call   <- [c \in Callers |-> IF call[c] \in {"submit", "blocked", "waiting"}
                                     THEN "pending" ELSE call[c]],
        result <- [c \in Callers |-> IF call[c] = "answered" THEN result[c] ELSE None]

(* The pool is a drop-in TargetChecker: each call returns exactly one      *)
(* result, for its own target, "canceled" only if its context is done, and *)
(* it does return.                                                         *)
ImplementsTargetChecker == TC!FairSpec
=============================================================================
