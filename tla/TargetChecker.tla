--------------------------- MODULE TargetChecker ---------------------------
(***************************************************************************)
(* What scheduler.TargetChecker promises its callers: Check(ctx, t) blocks *)
(* and then returns one result, for t; it reports "canceled" only when the *)
(* caller's context is done; and it always returns.  checker.Checker and   *)
(* worker.Pool both stand behind this interface; module WorkerPool is      *)
(* shown to implement this one.                                            *)
(***************************************************************************)
CONSTANTS
  Callers,   \* goroutines that call Check, each at most once at a time
  Targets,
  None

VARIABLES
  ctxDone,     \* the context that is the parent of every caller's is canceled
  callerDone,  \* the caller's own context is canceled
  call,        \* where the call of each caller is
  asked,       \* the target it was called with
  result       \* the result it returns

vars == <<ctxDone, callerDone, call, asked, result>>

(* Outcomes, as far as the pool and its callers tell them apart: what the  *)
(* checker observed (success, unexpected_status, timeout or                *)
(* connection_error), the connection_error that stands for a recovered     *)
(* panic, and canceled.                                                    *)
Outcomes == {"observed", "recovered", "canceled"}
Results  == [target : Targets, outcome : Outcomes]

Done(c) == ctxDone \/ callerDone[c]

Init ==
  /\ ctxDone = FALSE
  /\ callerDone = [c \in Callers |-> FALSE]
  /\ call = [c \in Callers |-> "idle"]
  /\ asked = [c \in Callers |-> None]
  /\ result = [c \in Callers |-> None]

(* The contexts belong to whoever calls: they are canceled at any moment,  *)
(* several at once, and a caller gets a new one only between two calls.    *)
Contexts ==
  /\ ctxDone' \in BOOLEAN /\ (ctxDone => ctxDone')
  /\ callerDone' \in [Callers -> BOOLEAN]
  /\ \A c \in Callers : callerDone[c] /\ ~callerDone'[c] => call[c] = "idle"
  /\ UNCHANGED <<call, asked, result>>

Check(c, t) ==
  /\ call[c] = "idle"
  /\ call' = [call EXCEPT ![c] = "pending"]
  /\ asked' = [asked EXCEPT ![c] = t]
  /\ UNCHANGED <<ctxDone, callerDone, result>>

Answer(c) ==
  /\ call[c] = "pending"
  /\ call' = [call EXCEPT ![c] = "answered"]
  /\ \E o \in Outcomes :
       /\ o = "canceled" => Done(c)
       /\ result' = [result EXCEPT ![c] = [target |-> asked[c], outcome |-> o]]
  /\ UNCHANGED <<ctxDone, callerDone, asked>>

Return(c) ==
  /\ call[c] = "answered"
  /\ call' = [call EXCEPT ![c] = "idle"]
  /\ asked' = [asked EXCEPT ![c] = None]
  /\ result' = [result EXCEPT ![c] = None]
  /\ UNCHANGED <<ctxDone, callerDone>>

Next ==
  \/ Contexts
  \/ \E c \in Callers : (\E t \in Targets : Check(c, t)) \/ Answer(c) \/ Return(c)

Spec == Init /\ [][Next]_vars
FairSpec == Spec /\ \A c \in Callers : WF_vars(Answer(c))
=============================================================================
