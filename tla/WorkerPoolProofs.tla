-------------------------- MODULE WorkerPoolProofs --------------------------
(***************************************************************************)
(* Proofs that the safety properties of module WorkerPool hold for any     *)
(* numbers of callers and workers and any queue size, and that the pool    *)
(* implements module TargetChecker as far as safety goes.                  *)
(***************************************************************************)
EXTENDS WorkerPool, SequenceTheorems, TLAPS

(* TypeOK is inductive together with the fact that None stands for no      *)
(* target and no job only where there is none.                             *)
TypeInv ==
  /\ TypeOK
  /\ \A c \in Callers : call[c] # "idle" => asked[c] \in Targets
  /\ \A w \in Workers : AtWork(w) => job[w] \in Jobs

(* Orphaning a job keeps it a job, for the same target.                    *)
LEMMA OrphanedJob ==
  ASSUME NEW j \in Jobs, NEW c \in Callers
  PROVE  /\ Orphaned(j, c) \in Jobs
         /\ Orphaned(j, c).target = j.target
         /\ Orphaned(j, c).caller = IF j.caller = c THEN None ELSE j.caller
<1>1. j # None
  BY PoolAssumption DEF Jobs
<1> QED
  BY <1>1 DEF Orphaned, Jobs

(* What a worker delivers is an outcome, for the target of its job.        *)
LEMMA SomeOutcome ==
  ASSUME NEW w \in Workers, Process(w) \/ Recovers(w)
  PROVE  \E o \in Outcomes :
           /\ Deliver(w, [target |-> job[w].target, outcome |-> o])
           /\ o = "canceled" => ctxDone
BY DEF Process, Recovers, PossibleOutcomes, Outcomes

(* Every step keeps each variable in its type, the queue within capacity.  *)
LEMMA TypeStep == TypeInv /\ [Next]_vars => TypeInv'
<1> SUFFICES ASSUME TypeInv, [Next]_vars PROVE TypeInv'
  OBVIOUS
<1> USE PoolAssumption DEF TypeInv, TypeOK, AtWork, Outcomes, callVars, workerVars
<1>1. CASE Contexts
  BY <1>1 DEF Contexts
<1>2. ASSUME NEW c \in Callers, NEW t \in Targets, Check(c, t) PROVE TypeInv'
  BY <1>2 DEF Check
<1>3. ASSUME NEW c \in Callers, Send(c) PROVE TypeInv'
  <2>1. [caller |-> c, target |-> asked[c]] \in Jobs
    BY <1>3 DEF Send, Jobs
  <2>2. queue' \in Seq(Jobs) /\ Len(queue') <= QueueSize
    BY <1>3, <2>1 DEF Send, HasRoom
  <2> QED
    BY <1>3, <2>2 DEF Send
<1>4. ASSUME NEW c \in Callers, Block(c) \/ Receive(c) \/ Return(c) PROVE TypeInv'
  BY <1>4 DEF Block, Receive, Return
<1>5. ASSUME NEW c \in Callers, GiveUp(c) PROVE TypeInv'
  <2>1. queue' \in Seq(Jobs) /\ Len(queue') <= QueueSize
    <3>1. \A k \in 1..Len(queue) : Orphaned(queue[k], c) \in Jobs
      BY OrphanedJob
    <3>2. queue' = [k \in 1..Len(queue) |-> Orphaned(queue[k], c)]
      BY <1>5 DEF GiveUp
    <3> QED
      BY <3>1, <3>2
  <2>2. /\ job' \in [Workers -> Jobs \cup {None}]
        /\ \A w \in Workers : AtWork(w)' => job'[w] \in Jobs
    <3>1. Orphaned(None, c) = None
      BY DEF Orphaned
    <3> QED
      BY <1>5, <3>1, OrphanedJob DEF GiveUp
  <2>3. result' \in [Callers -> Results \cup {None}]
    BY <1>5 DEF GiveUp, MayGiveUp, Results
  <2>4. /\ call' \in [Callers -> {"idle", "submit", "blocked", "waiting", "answered"}]
        /\ \A d \in Callers : call'[d] # "idle" => asked[d] \in Targets
        /\ UNCHANGED <<ctxDone, callerDone, asked, wpc, stopped>>
    BY <1>5 DEF GiveUp, MayGiveUp
  <2> HIDE DEF Outcomes
  <2> QED
    BY <2>1, <2>2, <2>3, <2>4
<1>6. ASSUME NEW w \in Workers, Take(w) PROVE TypeInv'
  <2>1. Head(queue) \in Jobs /\ Tail(queue) \in Seq(Jobs) /\ Len(Tail(queue)) <= QueueSize
    BY <1>6, HeadTailProperties DEF Take
  <2> QED
    BY <1>6, <2>1 DEF Take
<1>7. ASSUME NEW w \in Workers, Process(w) \/ Recovers(w) PROVE TypeInv'
  <2>1. PICK o \in Outcomes : Deliver(w, [target |-> job[w].target, outcome |-> o])
    BY <1>7, SomeOutcome
  <2>2. job[w].target \in Targets
    BY <1>7 DEF Process, Recovers, Jobs
  <2>3. result' \in [Callers -> Results \cup {None}]
    BY <2>1, <2>2 DEF Deliver, Results
  <2> QED
    BY <1>7, <2>3 DEF Process, Recovers
<1>8. ASSUME NEW w \in Workers, Panics(w) \/ WorkerExits(w) PROVE TypeInv'
  BY <1>8 DEF Panics, WorkerExits
<1>9. CASE StartReturns \/ UNCHANGED vars
  BY <1>9 DEF StartReturns, vars
<1> QED
  BY <1>1, <1>2, <1>3, <1>4, <1>5, <1>6, <1>7, <1>8, <1>9 DEF Next, Submit, Worker

(* The initial state has the types.                                        *)
LEMMA TypeInit == Init => TypeInv
<1>1. <<>> \in Seq(Jobs) /\ Len(<<>>) <= QueueSize
  BY EmptySeq, PoolAssumption
<1> QED
  BY <1>1 DEF Init, TypeInv, TypeOK, AtWork

(* The variables keep their types in every reachable state.                *)
THEOREM TypeCorrect == Spec => []TypeOK
<1>1. TypeInv => TypeOK
  BY DEF TypeInv
<1> QED
  BY <1>1, TypeInit, TypeStep, PTL DEF Spec

-----------------------------------------------------------------------------
(* WaitingJobInOnePlace is inductive once it is known that a caller that   *)
(* has not sent its job yet finds its result channel empty.                *)
NoEarlyResult ==
  \A c \in Callers : call[c] \in {"idle", "submit", "blocked"} => result[c] = None

PlaceInv == TypeInv /\ WaitingJobInOnePlace /\ NoEarlyResult

(* The queue of a state in its type, as the steps below use it.            *)
LEMMA QueueDomain ==
  ASSUME TypeInv
  PROVE  /\ queue \in Seq(Jobs) /\ Len(queue) \in Nat
         /\ DOMAIN queue = 1..Len(queue)
         /\ \A k \in DOMAIN queue : queue[k] \in Jobs
<1>1. queue \in Seq(Jobs)
  BY DEF TypeInv, TypeOK
<1> QED
  BY <1>1, LenProperties

(* A step that touches neither the queue nor a worker's job, nor, for a    *)
(* caller that waits, the call and its result.                             *)
LEMMA PlaceFrame ==
  ASSUME PlaceInv, UNCHANGED <<queue, wpc, job>>,
         \A d \in Callers :
           \/ UNCHANGED <<call[d], result[d]>>
           \/ /\ ~(call[d] = "waiting" /\ result[d] = None)
              /\ ~(call'[d] = "waiting" /\ result'[d] = None)
  PROVE  WaitingJobInOnePlace'
  BY DEF PlaceInv, WaitingJobInOnePlace, QueuedFor, RunningFor, AtWork

(* Send, the one step that puts a job into the queue.                      *)
LEMMA PlaceSend ==
  ASSUME PlaceInv, NEW c \in Callers, Send(c)
  PROVE  WaitingJobInOnePlace'
<1>1. /\ queue \in Seq(Jobs) /\ Len(queue) \in Nat /\ DOMAIN queue = 1..Len(queue)
      /\ call[c] \in {"submit", "blocked"} /\ result[c] = None
      /\ QueuedFor(c) = {} /\ RunningFor(c) = {}
  BY QueueDomain DEF PlaceInv, NoEarlyResult, WaitingJobInOnePlace, Send
<1>2. /\ call \in [Callers -> {"idle", "submit", "blocked", "waiting", "answered"}]
      /\ [caller |-> c, target |-> asked[c]] \in Jobs
  BY <1>1 DEF PlaceInv, TypeInv, TypeOK, Jobs
<1>3. /\ Len(queue') = Len(queue) + 1 /\ DOMAIN queue' = 1..(Len(queue) + 1)
      /\ \A k \in 1..Len(queue) : queue'[k] = queue[k]
      /\ queue'[Len(queue) + 1].caller = c
  <2>1. queue' \in Seq(Jobs) /\ queue' = Append(queue, [caller |-> c, target |-> asked[c]])
    BY <1>1, <1>2, AppendProperties DEF Send
  <2> QED
    BY <1>1, <1>2, <2>1, AppendProperties, LenProperties
<1> SUFFICES ASSUME NEW d \in Callers
             PROVE  (/\ call[d] = "waiting" /\ result[d] = None =>
                          QueuedFor(d) # {} \/ RunningFor(d) # {}
                     /\ QueuedFor(d) # {} \/ RunningFor(d) # {} =>
                          call[d] = "waiting" /\ result[d] = None
                     /\ QueuedFor(d) = {} \/ RunningFor(d) = {}
                     /\ \A k, l \in QueuedFor(d) : k = l
                     /\ \A v, w \in RunningFor(d) : v = w)'
  BY DEF WaitingJobInOnePlace
<1>4. RunningFor(d)' = RunningFor(d)
  BY DEF Send, workerVars, RunningFor, AtWork
<1>5. CASE d = c
  <2>1. QueuedFor(c)' = {Len(queue) + 1}
    BY <1>1, <1>3 DEF QueuedFor
  <2> QED
    BY <1>1, <1>2, <1>4, <1>5, <2>1 DEF Send
<1>6. CASE d # c
  <2>1. QueuedFor(d)' = QueuedFor(d)
    BY <1>1, <1>3, <1>6 DEF QueuedFor
  <2>2. UNCHANGED <<call[d], result[d]>>
    BY <1>2, <1>6 DEF Send
  <2> QED
    BY <1>4, <2>1, <2>2 DEF PlaceInv, WaitingJobInOnePlace
<1> QED
  BY <1>5, <1>6

(* Giving up leaves no job with the caller's name anywhere.                *)
LEMMA PlaceGiveUp ==
  ASSUME PlaceInv, NEW c \in Callers, GiveUp(c)
  PROVE  WaitingJobInOnePlace'
<1>1. /\ queue \in Seq(Jobs) /\ Len(queue) \in Nat /\ DOMAIN queue = 1..Len(queue)
      /\ \A k \in DOMAIN queue : queue[k] \in Jobs
      /\ \A w \in Workers : AtWork(w) => job[w] \in Jobs
      /\ call \in [Callers -> {"idle", "submit", "blocked", "waiting", "answered"}]
      /\ result \in [Callers -> Results \cup {None}]
  BY QueueDomain DEF PlaceInv, TypeInv, TypeOK
<1>2. /\ DOMAIN queue' = DOMAIN queue
      /\ \A k \in DOMAIN queue : queue'[k] = Orphaned(queue[k], c)
      /\ \A w \in Workers : job'[w] = Orphaned(job[w], c)
      /\ wpc' = wpc
  BY DEF GiveUp
<1>3. None \notin Callers
  BY PoolAssumption
<1>4. \A d \in Callers :
        /\ QueuedFor(d)' = IF d = c THEN {} ELSE QueuedFor(d)
        /\ RunningFor(d)' = IF d = c THEN {} ELSE RunningFor(d)
  BY <1>1, <1>2, <1>3, OrphanedJob DEF QueuedFor, RunningFor, AtWork
<1>5. call'[c] = "answered" /\ \A d \in Callers \ {c} : UNCHANGED <<call[d], result[d]>>
  BY <1>1 DEF GiveUp
<1> QED
  BY <1>4, <1>5 DEF PlaceInv, WaitingJobInOnePlace

(* Taking a job moves it from the head of the queue to one worker.         *)
LEMMA PlaceTake ==
  ASSUME PlaceInv, NEW w \in Workers, Take(w)
  PROVE  WaitingJobInOnePlace'
<1>1. /\ queue \in Seq(Jobs) /\ Len(queue) \in Nat /\ DOMAIN queue = 1..Len(queue)
      /\ wpc \in [Workers -> {"idle", "busy", "panicking", "exited"}]
      /\ job \in [Workers -> Jobs \cup {None}]
  BY QueueDomain DEF PlaceInv, TypeInv, TypeOK
<1>2. /\ queue # <<>> /\ Len(queue) > 0 /\ Head(queue) = queue[1]
      /\ DOMAIN queue' = 1..(Len(queue) - 1)
      /\ \A k \in 1..(Len(queue) - 1) : queue'[k] = queue[k + 1]
  <2>1. queue # <<>> /\ queue' = Tail(queue)
    BY DEF Take
  <2>2. Len(queue) \in Nat \ {0}
    BY <1>1, <2>1, EmptySeq
  <2> QED
    BY <1>1, <2>1, <2>2, HeadTailProperties, LenProperties
<1> SUFFICES ASSUME NEW d \in Callers
             PROVE  (/\ call[d] = "waiting" /\ result[d] = None =>
                          QueuedFor(d) # {} \/ RunningFor(d) # {}
                     /\ QueuedFor(d) # {} \/ RunningFor(d) # {} =>
                          call[d] = "waiting" /\ result[d] = None
                     /\ QueuedFor(d) = {} \/ RunningFor(d) = {}
                     /\ \A k, l \in QueuedFor(d) : k = l
                     /\ \A u, v \in RunningFor(d) : u = v)'
  BY DEF WaitingJobInOnePlace
<1>3. /\ call[d] = "waiting" /\ result[d] = None =>
           QueuedFor(d) # {} \/ RunningFor(d) # {}
      /\ QueuedFor(d) # {} \/ RunningFor(d) # {} =>
           call[d] = "waiting" /\ result[d] = None
      /\ QueuedFor(d) = {} \/ RunningFor(d) = {}
      /\ \A k, l \in QueuedFor(d) : k = l
      /\ \A u, v \in RunningFor(d) : u = v
      /\ UNCHANGED <<call[d], result[d]>>
  BY DEF PlaceInv, WaitingJobInOnePlace, Take, callVars
<1>4. QueuedFor(d)' = {k \in 1..(Len(queue) - 1) : k + 1 \in QueuedFor(d)}
  BY <1>1, <1>2 DEF QueuedFor
<1>5. CASE queue[1].caller = d
  <2>1. QueuedFor(d) = {1}
    BY <1>1, <1>2, <1>3, <1>5 DEF QueuedFor
  <2>2. QueuedFor(d)' = {}
    BY <1>1, <1>4, <2>1
  <2>3. RunningFor(d)' = {w}
    BY <1>1, <1>2, <1>3, <1>5, <2>1 DEF Take, RunningFor, AtWork
  <2> QED
    BY <1>3, <2>1, <2>2, <2>3
<1>6. CASE queue[1].caller # d
  <2>1. RunningFor(d)' = RunningFor(d)
    BY <1>1, <1>2, <1>6 DEF Take, RunningFor, AtWork
  <2>2. \A k \in QueuedFor(d) : k - 1 \in QueuedFor(d)'
    <3> SUFFICES ASSUME NEW k \in QueuedFor(d) PROVE k - 1 \in QueuedFor(d)'
      OBVIOUS
    <3>1. k \in 1..Len(queue) /\ k # 1
      BY <1>1, <1>6 DEF QueuedFor
    <3>2. k - 1 \in 1..(Len(queue) - 1) /\ (k - 1) + 1 = k
      BY <1>1, <3>1
    <3> QED
      BY <1>4, <3>2
  <2>3. \A k, l \in QueuedFor(d)' : k = l
    BY <1>1, <1>3, <1>4
  <2>4. QueuedFor(d)' = {} <=> QueuedFor(d) = {}
    BY <1>4, <2>2
  <2> QED
    BY <1>3, <2>1, <2>3, <2>4
<1> QED
  BY <1>5, <1>6

(* Delivering takes the job off its worker when the result is there.       *)
LEMMA PlaceProcess ==
  ASSUME PlaceInv, NEW w \in Workers, Process(w) \/ Recovers(w)
  PROVE  WaitingJobInOnePlace'
<1>1. /\ wpc \in [Workers -> {"idle", "busy", "panicking", "exited"}]
      /\ job \in [Workers -> Jobs \cup {None}]
      /\ AtWork(w)
  BY DEF PlaceInv, TypeInv, TypeOK, AtWork, Process, Recovers
<1>2. PICK o \in Outcomes : Deliver(w, [target |-> job[w].target, outcome |-> o])
  BY SomeOutcome
<1>3. [target |-> job[w].target, outcome |-> o] # None
  BY <1>1, PoolAssumption DEF PlaceInv, TypeInv, Jobs, Outcomes
<1> SUFFICES ASSUME NEW d \in Callers
             PROVE  (/\ call[d] = "waiting" /\ result[d] = None =>
                          QueuedFor(d) # {} \/ RunningFor(d) # {}
                     /\ QueuedFor(d) # {} \/ RunningFor(d) # {} =>
                          call[d] = "waiting" /\ result[d] = None
                     /\ QueuedFor(d) = {} \/ RunningFor(d) = {}
                     /\ \A k, l \in QueuedFor(d) : k = l
                     /\ \A u, v \in RunningFor(d) : u = v)'
  BY DEF WaitingJobInOnePlace
<1>4. QueuedFor(d)' = QueuedFor(d) /\ call'[d] = call[d]
  BY DEF Process, Recovers, QueuedFor
<1>5. RunningFor(d)' = RunningFor(d) \ {w}
  BY <1>1 DEF Process, Recovers, RunningFor, AtWork
<1>6. CASE job[w].caller = d
  <2>1. w \in RunningFor(d)
    BY <1>1, <1>6 DEF RunningFor
  <2>2. RunningFor(d)' = {} /\ QueuedFor(d) = {}
    BY <1>5, <2>1 DEF PlaceInv, WaitingJobInOnePlace
  <2>3. result'[d] # None
    BY <1>2, <1>3, <1>6 DEF Deliver
  <2> QED
    BY <1>4, <2>2, <2>3
<1>7. CASE job[w].caller # d
  <2>1. w \notin RunningFor(d)
    BY <1>7 DEF RunningFor
  <2>2. result'[d] = result[d]
    BY <1>2, <1>7 DEF Deliver
  <2> QED
    BY <1>4, <1>5, <2>1, <2>2 DEF PlaceInv, WaitingJobInOnePlace
<1> QED
  BY <1>6, <1>7

(* A worker's job that has a caller belongs to one that waits for it.      *)
LEMMA RunningIsWaitedFor ==
  ASSUME PlaceInv, NEW w \in Workers, AtWork(w), NEW c \in Callers,
         job[w].caller = c
  PROVE  call[c] = "waiting" /\ result[c] = None
<1>1. w \in RunningFor(c)
  BY DEF RunningFor
<1> QED
  BY <1>1 DEF PlaceInv, WaitingJobInOnePlace

(* All steps together.                                                     *)
LEMMA PlaceStep == PlaceInv /\ [Next]_vars => PlaceInv'
<1> SUFFICES ASSUME PlaceInv, [Next]_vars
             PROVE  WaitingJobInOnePlace' /\ NoEarlyResult'
  BY TypeStep DEF PlaceInv
<1>0. /\ TypeOK /\ TypeInv /\ NoEarlyResult
      /\ call \in [Callers -> {"idle", "submit", "blocked", "waiting", "answered"}]
      /\ result \in [Callers -> Results \cup {None}]
  BY DEF PlaceInv, TypeInv, TypeOK
<1>1. CASE Contexts \/ StartReturns \/ UNCHANGED vars
  <2>1. UNCHANGED <<call, result, queue, wpc, job>>
    BY <1>1 DEF Contexts, StartReturns, vars, callVars, workerVars
  <2> QED
    BY <1>0, <2>1, PlaceFrame DEF NoEarlyResult
<1>2. ASSUME NEW c \in Callers, NEW t \in Targets, Check(c, t)
      PROVE WaitingJobInOnePlace' /\ NoEarlyResult'
  <2>1. /\ UNCHANGED <<queue, wpc, job, result>>
        /\ call[c] = "idle" /\ call'[c] = "submit"
        /\ \A d \in Callers \ {c} : call'[d] = call[d]
    BY <1>0, <1>2 DEF Check, workerVars
  <2> QED
    BY <1>0, <2>1, PlaceFrame DEF NoEarlyResult
<1>3. ASSUME NEW c \in Callers, Send(c) PROVE WaitingJobInOnePlace' /\ NoEarlyResult'
  BY <1>0, <1>3, PlaceSend DEF Send, NoEarlyResult
<1>4. ASSUME NEW c \in Callers, Block(c) \/ Receive(c) \/ Return(c)
      PROVE WaitingJobInOnePlace' /\ NoEarlyResult'
  <2>1. /\ UNCHANGED <<queue, wpc, job>>
        /\ \A d \in Callers \ {c} : UNCHANGED <<call[d], result[d]>>
        /\ ~(call[c] = "waiting" /\ result[c] = None)
        /\ call'[c] # "waiting"
        /\ call'[c] = "answered" \/ result'[c] = None
    BY <1>0, <1>4 DEF Block, Receive, Return, workerVars, NoEarlyResult
  <2> QED
    BY <1>0, <2>1, PlaceFrame DEF NoEarlyResult
<1>5. ASSUME NEW c \in Callers, GiveUp(c) PROVE WaitingJobInOnePlace' /\ NoEarlyResult'
  BY <1>0, <1>5, PlaceGiveUp DEF GiveUp, NoEarlyResult
<1>6. ASSUME NEW w \in Workers, Take(w) PROVE WaitingJobInOnePlace' /\ NoEarlyResult'
  BY <1>0, <1>6, PlaceTake DEF Take, callVars, NoEarlyResult
<1>7. ASSUME NEW w \in Workers, Process(w) \/ Recovers(w)
      PROVE WaitingJobInOnePlace' /\ NoEarlyResult'
  <2>1. ASSUME NEW c \in Callers, call[c] # "waiting" PROVE result'[c] = result[c]
    BY <1>7, <2>1, RunningIsWaitedFor DEF Process, Recovers, AtWork, Deliver
  <2> QED
    BY <1>0, <1>7, <2>1, PlaceProcess DEF Process, Recovers, NoEarlyResult
<1>8. ASSUME NEW w \in Workers, Panics(w) \/ WorkerExits(w)
      PROVE WaitingJobInOnePlace' /\ NoEarlyResult'
  <2>1. /\ UNCHANGED <<call, result, queue, job>>
        /\ \A v \in Workers : AtWork(v)' = AtWork(v)
    BY <1>0, <1>8 DEF Panics, WorkerExits, AtWork, callVars, TypeOK
  <2>2. \A d \in Callers : QueuedFor(d)' = QueuedFor(d) /\ RunningFor(d)' = RunningFor(d)
    BY <2>1 DEF QueuedFor, RunningFor
  <2> QED
    BY <1>0, <2>1, <2>2 DEF PlaceInv, WaitingJobInOnePlace, NoEarlyResult
<1> QED
  BY <1>1, <1>2, <1>3, <1>4, <1>5, <1>6, <1>7, <1>8 DEF Next, Submit, Worker

(* The initial state satisfies it.                                         *)
LEMMA PlaceInit == Init => PlaceInv
<1> SUFFICES ASSUME Init PROVE WaitingJobInOnePlace /\ NoEarlyResult
  BY TypeInit DEF PlaceInv
<1>1. DOMAIN queue = {}
  <2>1. <<>> \in Seq(Jobs) /\ Len(<<>>) = 0
    BY EmptySeq
  <2>2. DOMAIN <<>> = 1..Len(<<>>)
    BY <2>1, LenProperties
  <2>3. 1..0 = {}
    OBVIOUS
  <2> QED
    BY <2>1, <2>2, <2>3 DEF Init
<1>2. \A c \in Callers : QueuedFor(c) = {} /\ RunningFor(c) = {}
  BY <1>1 DEF Init, QueuedFor, RunningFor, AtWork
<1> QED
  BY <1>2 DEF Init, WaitingJobInOnePlace, NoEarlyResult

(* No submitted check is lost, run twice or delivered to a full channel,   *)
(* for any number of callers and workers and any queue size.               *)
THEOREM JobAccounting == Spec => []WaitingJobInOnePlace
<1>1. PlaceInv => WaitingJobInOnePlace
  BY DEF PlaceInv
<1> QED
  BY <1>1, PlaceInit, PlaceStep, PTL DEF Spec

-----------------------------------------------------------------------------
(* Who asked for what: a job that still has a caller carries the target    *)
(* its caller asked about.                                                 *)
QueuedAsAsked ==
  \A k \in DOMAIN queue : queue[k].caller # None => queue[k].target = asked[queue[k].caller]

RunningAsAsked ==
  \A w \in Workers :
    AtWork(w) /\ job[w].caller # None => job[w].target = asked[job[w].caller]

AnswerInv ==
  PlaceInv /\ QueuedAsAsked /\ RunningAsAsked /\ AnswersOwnTarget /\ CanceledOnlyWhenDone

(* A step that touches neither the queue, nor a worker's job, nor what the *)
(* caller of a job asked.                                                  *)
LEMMA AskedFrame ==
  ASSUME AnswerInv, UNCHANGED <<queue, wpc, job>>,
         NEW d \in Callers, QueuedFor(d) = {} /\ RunningFor(d) = {},
         \A c \in Callers \ {d} : asked'[c] = asked[c]
  PROVE  QueuedAsAsked' /\ RunningAsAsked'
<1>1. /\ \A k \in DOMAIN queue : queue[k] \in Jobs /\ queue[k].caller # d
      /\ \A w \in Workers : AtWork(w) => job[w] \in Jobs /\ job[w].caller # d
  BY QueueDomain DEF AnswerInv, PlaceInv, TypeInv, QueuedFor, RunningFor
<1> QED
  BY <1>1 DEF AnswerInv, QueuedAsAsked, RunningAsAsked, AtWork, Jobs

(* The jobs stay as asked.                                                 *)
LEMMA AskedStep ==
  ASSUME AnswerInv, [Next]_vars
  PROVE  QueuedAsAsked' /\ RunningAsAsked'
<1>0. /\ PlaceInv /\ TypeInv /\ TypeOK /\ QueuedAsAsked /\ RunningAsAsked
      /\ queue \in Seq(Jobs) /\ Len(queue) \in Nat /\ DOMAIN queue = 1..Len(queue)
      /\ \A k \in DOMAIN queue : queue[k] \in Jobs
      /\ \A w \in Workers : AtWork(w) => job[w] \in Jobs
      /\ wpc \in [Workers -> {"idle", "busy", "panicking", "exited"}]
      /\ job \in [Workers -> Jobs \cup {None}]
      /\ asked \in [Callers -> Targets \cup {None}]
  BY QueueDomain DEF AnswerInv, PlaceInv, TypeInv, TypeOK
<1>1. CASE UNCHANGED <<queue, wpc, job, asked>>
  BY <1>0, <1>1 DEF QueuedAsAsked, RunningAsAsked, AtWork
<1>2. ASSUME NEW c \in Callers, Return(c) \/ \E t \in Targets : Check(c, t)
      PROVE QueuedAsAsked' /\ RunningAsAsked'
  <2>1. /\ UNCHANGED <<queue, wpc, job>> /\ call[c] # "waiting"
        /\ \A d \in Callers \ {c} : asked'[d] = asked[d]
    BY <1>0, <1>2 DEF Return, Check, workerVars
  <2>2. QueuedFor(c) = {} /\ RunningFor(c) = {}
    BY <1>0, <2>1 DEF PlaceInv, WaitingJobInOnePlace
  <2> QED
    BY <2>1, <2>2, AskedFrame
<1>3. ASSUME NEW c \in Callers, Send(c) PROVE QueuedAsAsked' /\ RunningAsAsked'
  <2>1. [caller |-> c, target |-> asked[c]] \in Jobs
    BY <1>0, <1>3 DEF Send, TypeInv, Jobs
  <2>2. /\ DOMAIN queue' = 1..(Len(queue) + 1)
        /\ \A k \in 1..Len(queue) : queue'[k] = queue[k]
        /\ queue'[Len(queue) + 1] = [caller |-> c, target |-> asked[c]]
        /\ UNCHANGED <<asked, wpc, job>>
    <3>1. queue' \in Seq(Jobs) /\ queue' = Append(queue, [caller |-> c, target |-> asked[c]])
      BY <1>0, <1>3, <2>1, AppendProperties DEF Send
    <3> QED
      BY <1>0, <1>3, <2>1, <3>1, AppendProperties, LenProperties DEF Send, workerVars
  <2> QED
    BY <1>0, <2>2 DEF QueuedAsAsked, RunningAsAsked, AtWork
<1>4. ASSUME NEW c \in Callers, GiveUp(c) PROVE QueuedAsAsked' /\ RunningAsAsked'
  <2>1. /\ DOMAIN queue' = DOMAIN queue
        /\ \A k \in DOMAIN queue : queue'[k] = Orphaned(queue[k], c)
        /\ \A w \in Workers : job'[w] = Orphaned(job[w], c)
        /\ UNCHANGED <<asked, wpc>>
    BY <1>4 DEF GiveUp
  <2>2. \A k \in DOMAIN queue :
          queue'[k].target = queue[k].target
            /\ (queue'[k].caller # None => queue'[k].caller = queue[k].caller)
    BY <1>0, <2>1, OrphanedJob
  <2>3. \A w \in Workers : AtWork(w) =>
          job'[w].target = job[w].target
            /\ (job'[w].caller # None => job'[w].caller = job[w].caller)
    BY <1>0, <2>1, OrphanedJob
  <2> QED
    BY <1>0, <2>1, <2>2, <2>3 DEF QueuedAsAsked, RunningAsAsked, AtWork
<1>5. ASSUME NEW w \in Workers, Take(w) PROVE QueuedAsAsked' /\ RunningAsAsked'
  <2>1. /\ Len(queue) > 0 /\ Head(queue) = queue[1]
        /\ DOMAIN queue' = 1..(Len(queue) - 1)
        /\ \A k \in 1..(Len(queue) - 1) : queue'[k] = queue[k + 1]
    <3>1. queue # <<>> /\ queue' = Tail(queue)
      BY <1>5 DEF Take
    <3>2. Len(queue) \in Nat \ {0}
      BY <1>0, <3>1, EmptySeq
    <3> QED
      BY <1>0, <3>1, <3>2, HeadTailProperties, LenProperties
  <2>2. /\ \A v \in Workers : job'[v] = IF v = w THEN queue[1] ELSE job[v]
        /\ \A v \in Workers \ {w} : wpc'[v] = wpc[v]
        /\ UNCHANGED asked
    BY <1>0, <1>5, <2>1 DEF Take, callVars
  <2>3. QueuedAsAsked'
    <3> SUFFICES ASSUME NEW k \in DOMAIN queue', queue'[k].caller # None
                 PROVE  queue'[k].target = asked'[queue'[k].caller]
      BY DEF QueuedAsAsked
    <3>1. k + 1 \in DOMAIN queue /\ queue'[k] = queue[k + 1]
      BY <1>0, <2>1
    <3> QED
      BY <1>0, <2>2, <3>1 DEF QueuedAsAsked
  <2>4. RunningAsAsked'
    BY <1>0, <2>1, <2>2 DEF QueuedAsAsked, RunningAsAsked, AtWork
  <2> QED
    BY <2>3, <2>4
<1>6. ASSUME NEW w \in Workers, Process(w) \/ Panics(w) \/ Recovers(w) \/ WorkerExits(w)
      PROVE QueuedAsAsked' /\ RunningAsAsked'
  <2>1. /\ UNCHANGED <<queue, asked>>
        /\ \A v \in Workers : AtWork(v)' => AtWork(v) /\ job'[v] = job[v]
    BY <1>0, <1>6 DEF Process, Panics, Recovers, WorkerExits, AtWork, callVars
  <2> QED
    BY <1>0, <2>1 DEF QueuedAsAsked, RunningAsAsked
<1> QED
  BY <1>1, <1>2, <1>3, <1>4, <1>5, <1>6
     DEF Next, Submit, Worker, Contexts, Block, Receive, StartReturns, vars, callVars, workerVars

(* A result is made when its caller gives up or when its job ends; asked   *)
(* does not change, and a done context stays done, while it is there.      *)
LEMMA AnswerStep == AnswerInv /\ [Next]_vars => AnswerInv'
<1> SUFFICES ASSUME AnswerInv, [Next]_vars
             PROVE  AnswersOwnTarget' /\ CanceledOnlyWhenDone'
  BY PlaceStep, AskedStep DEF AnswerInv
<1>0. /\ PlaceInv /\ NoEarlyResult /\ AnswersOwnTarget /\ CanceledOnlyWhenDone /\ RunningAsAsked
      /\ \A w \in Workers : AtWork(w) => job[w] \in Jobs
      /\ call \in [Callers -> {"idle", "submit", "blocked", "waiting", "answered"}]
      /\ result \in [Callers -> Results \cup {None}]
      /\ asked \in [Callers -> Targets \cup {None}]
  BY DEF AnswerInv, PlaceInv, TypeInv, TypeOK
<1> USE DEF AnswersOwnTarget, CanceledOnlyWhenDone, Done
<1>1. CASE UNCHANGED <<result, asked, ctxDone, callerDone>>
  BY <1>0, <1>1
<1>2. CASE Contexts
  <2>1. UNCHANGED <<result, asked>> /\ \A c \in Callers : result[c] # None /\ Done(c) => Done(c)'
    BY <1>0, <1>2 DEF Contexts, callVars, NoEarlyResult
  <2> QED
    BY <1>0, <2>1
<1>3. ASSUME NEW c \in Callers, Return(c) \/ \E t \in Targets : Check(c, t)
      PROVE AnswersOwnTarget' /\ CanceledOnlyWhenDone'
  <2>1. /\ result'[c] = None
        /\ \A d \in Callers \ {c} : UNCHANGED <<result[d], asked[d]>>
        /\ UNCHANGED <<ctxDone, callerDone>>
    BY <1>0, <1>3 DEF Return, Check, NoEarlyResult
  <2> QED
    BY <1>0, <2>1
<1>4. ASSUME NEW c \in Callers, GiveUp(c) PROVE AnswersOwnTarget' /\ CanceledOnlyWhenDone'
  BY <1>0, <1>4 DEF GiveUp, MayGiveUp
<1>5. ASSUME NEW w \in Workers, Process(w) \/ Recovers(w)
      PROVE AnswersOwnTarget' /\ CanceledOnlyWhenDone'
  <2>1. PICK o \in Outcomes :
          /\ Deliver(w, [target |-> job[w].target, outcome |-> o])
          /\ o = "canceled" => ctxDone
    BY <1>5, SomeOutcome
  <2>2. UNCHANGED <<asked, ctxDone, callerDone>> /\ AtWork(w)
    BY <1>5 DEF Process, Recovers, AtWork
  <2> SUFFICES ASSUME NEW c \in Callers
               PROVE  result'[c] # None =>
                        /\ result'[c].target = asked[c]
                        /\ result'[c].outcome = "canceled" => Done(c)
    BY <2>2
  <2>4. CASE job[w].caller = c
    <3>1. result'[c] = [target |-> job[w].target, outcome |-> o]
      BY <2>1, <2>4 DEF Deliver
    <3>2. job[w].target = asked[c]
      BY <1>0, <2>2, <2>4, PoolAssumption DEF RunningAsAsked
    <3> QED
      BY <2>1, <3>1, <3>2
  <2>5. CASE job[w].caller # c
    BY <1>0, <2>1, <2>5 DEF Deliver
  <2> QED
    BY <2>4, <2>5
<1> QED
  BY <1>1, <1>2, <1>3, <1>4, <1>5
     DEF Next, Submit, Worker, Send, Block, Receive, Take, Panics, WorkerExits, StartReturns,
         vars, callVars, workerVars

(* The initial state satisfies it.                                         *)
LEMMA AnswerInit == Init => AnswerInv
<1> SUFFICES ASSUME Init
             PROVE  QueuedAsAsked /\ RunningAsAsked /\ AnswersOwnTarget /\ CanceledOnlyWhenDone
  BY PlaceInit DEF AnswerInv
<1>1. DOMAIN queue = {}
  <2>1. <<>> \in Seq(Jobs) /\ Len(<<>>) = 0
    BY EmptySeq
  <2>2. DOMAIN <<>> = 1..Len(<<>>) /\ 1..0 = {}
    BY <2>1, LenProperties
  <2> QED
    BY <2>1, <2>2 DEF Init
<1> QED
  BY <1>1
     DEF Init, QueuedAsAsked, RunningAsAsked, AtWork, AnswersOwnTarget, CanceledOnlyWhenDone

(* Module MonitorProofs uses the whole invariant.                          *)
LEMMA AnswerInvariant == Spec => []AnswerInv
BY AnswerInit, AnswerStep, PTL DEF Spec

(* Nobody gets somebody else's result.                                     *)
THEOREM OwnAnswers == Spec => []AnswersOwnTarget
<1>1. AnswerInv => AnswersOwnTarget
  BY DEF AnswerInv
<1> QED
  BY <1>1, AnswerInvariant, PTL

(* "Canceled" is reported for the caller's own cancellation only.          *)
THEOREM CanceledIsTrue == Spec => []CanceledOnlyWhenDone
<1>1. AnswerInv => CanceledOnlyWhenDone
  BY DEF AnswerInv
<1> QED
  BY <1>1, AnswerInvariant, PTL

-----------------------------------------------------------------------------
(* wg.Wait is enough: a worker that has returned never checks again.       *)
THEOREM NoneOutlivesStart == Spec => []NoCheckOutlivesStart
<1>1. Init => NoCheckOutlivesStart
  BY DEF Init, NoCheckOutlivesStart
<1>2. TypeInv /\ NoCheckOutlivesStart /\ [Next]_vars => NoCheckOutlivesStart'
  <2> SUFFICES ASSUME TypeInv, NoCheckOutlivesStart, [Next]_vars, stopped',
                      NEW v \in Workers
               PROVE  wpc'[v] = "exited"
    BY DEF NoCheckOutlivesStart
  <2>1. CASE StartReturns
    BY <2>1 DEF StartReturns, AllExited, workerVars
  <2>2. CASE stopped /\ wpc[v] = "exited" /\ ~StartReturns
    BY <2>2
       DEF Next, Submit, Worker, Contexts, Check, Send, Block, GiveUp, Receive, Return, Take,
           Process, Panics, Recovers, WorkerExits, vars, workerVars, TypeInv, TypeOK
  <2> QED
    BY <2>1, <2>2
       DEF Next, Submit, Worker, Contexts, Check, Send, Block, GiveUp, Receive, Return, Take,
           Process, Panics, Recovers, WorkerExits, vars, NoCheckOutlivesStart
<1> QED
  BY <1>1, <1>2, TypeInit, TypeStep, PTL DEF Spec

-----------------------------------------------------------------------------
(* Every step of the pool is a step of TargetChecker or leaves its         *)
(* variables alone: submitting, blocking and all the workers do are        *)
(* invisible, and a call is answered by Receive or by GiveUp.              *)
LEMMA RefinementStep == AnswerInv /\ [Next]_vars => [TC!Next]_TC!vars
<1> SUFFICES ASSUME AnswerInv, [Next]_vars PROVE [TC!Next]_TC!vars
  OBVIOUS
<1> DEFINE callMap   == [c \in Callers |-> IF call[c] \in {"submit", "blocked", "waiting"}
                                           THEN "pending" ELSE call[c]]
           resultMap == [c \in Callers |-> IF call[c] = "answered" THEN result[c] ELSE None]
<1>0. /\ PlaceInv /\ NoEarlyResult /\ AnswersOwnTarget /\ CanceledOnlyWhenDone
      /\ call \in [Callers -> {"idle", "submit", "blocked", "waiting", "answered"}]
      /\ result \in [Callers -> Results \cup {None}]
      /\ asked \in [Callers -> Targets \cup {None}]
  BY DEF AnswerInv, PlaceInv, TypeInv, TypeOK
<1>a. ASSUME UNCHANGED <<ctxDone, callerDone, asked>>, callMap' = callMap, resultMap' = resultMap
      PROVE [TC!Next]_TC!vars
  BY <1>a DEF TC!vars
<1>1. CASE Contexts
  BY <1>0, <1>1 DEF Contexts, callVars, TC!Next, TC!Contexts
<1>2. ASSUME NEW c \in Callers, NEW t \in Targets, Check(c, t) PROVE TC!Check(c, t)
  BY <1>0, <1>2 DEF Check, TC!Check
<1>3. ASSUME NEW c \in Callers, Send(c) \/ Block(c) PROVE [TC!Next]_TC!vars
  <2>1. callMap' = callMap /\ resultMap' = resultMap
    BY <1>0, <1>3 DEF Send, Block
  <2> QED
    BY <1>3, <1>a, <2>1 DEF Send, Block
<1>4. ASSUME NEW c \in Callers, GiveUp(c) PROVE TC!Answer(c)
  <2>1. /\ callMap[c] = "pending" /\ callMap' = [callMap EXCEPT ![c] = "answered"]
        /\ resultMap' =
             [resultMap EXCEPT ![c] = [target |-> asked[c], outcome |-> "canceled"]]
    BY <1>0, <1>4 DEF GiveUp, MayGiveUp
  <2>2. TC!Done(c) /\ "canceled" \in TC!Outcomes
    BY <1>4 DEF GiveUp, MayGiveUp, Done, TC!Done, TC!Outcomes
  <2> QED
    BY <1>4, <2>1, <2>2 DEF GiveUp, TC!Answer
<1>5. ASSUME NEW c \in Callers, Receive(c) PROVE TC!Answer(c)
  <2>1. result[c] \in Results /\ result[c].target = asked[c]
    BY <1>0, <1>5 DEF Receive, AnswersOwnTarget
  <2>2. result[c] = [target |-> asked[c], outcome |-> result[c].outcome]
    BY <2>1 DEF Results
  <2>3. /\ result[c].outcome \in TC!Outcomes
        /\ result[c].outcome = "canceled" => TC!Done(c)
    BY <1>0, <1>5, <2>1
       DEF Receive, CanceledOnlyWhenDone, Results, Outcomes, Done, TC!Outcomes, TC!Done
  <2>4. /\ callMap[c] = "pending" /\ callMap' = [callMap EXCEPT ![c] = "answered"]
        /\ resultMap' = [resultMap EXCEPT ![c] = result[c]]
    BY <1>0, <1>5 DEF Receive
  <2> QED
    BY <1>5, <2>2, <2>3, <2>4 DEF Receive, TC!Answer
<1>6. ASSUME NEW c \in Callers, Return(c) PROVE TC!Return(c)
  BY <1>0, <1>6 DEF Return, TC!Return
<1>7. ASSUME NEW w \in Workers, Process(w) \/ Recovers(w) PROVE [TC!Next]_TC!vars
  <2>1. \A c \in Callers : call[c] = "answered" => result'[c] = result[c]
    BY <1>0, <1>7, RunningIsWaitedFor DEF Process, Recovers, AtWork, Deliver
  <2>2. callMap' = callMap /\ resultMap' = resultMap
    BY <1>0, <1>7, <2>1 DEF Process, Recovers
  <2> QED
    BY <1>7, <1>a, <2>2 DEF Process, Recovers
<1>8. ASSUME UNCHANGED <<ctxDone, callerDone, callVars>> PROVE [TC!Next]_TC!vars
  BY <1>8, <1>a DEF callVars
<1> QED
  BY <1>1, <1>2, <1>3, <1>4, <1>5, <1>6, <1>7, <1>8
     DEF Next, Submit, Worker, Take, Panics, WorkerExits, StartReturns, vars, TC!Next

(* The pool is a TargetChecker: what its callers see is one call at a time *)
(* that returns one result, for its own target and truthful about          *)
(* cancellation.                                                           *)
THEOREM PoolIsTargetChecker == Spec => TC!Spec
<1>1. Init => TC!Init
  BY DEF Init, TC!Init
<1> QED
  BY <1>1, AnswerInit, AnswerStep, RefinementStep, PTL DEF Spec, TC!Spec
=============================================================================
