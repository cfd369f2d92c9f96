------------------------------ MODULE Checker ------------------------------
(***************************************************************************)
(* checker.Checker (internal/checker/check.go, check_result.go): one HTTP  *)
(* check under a context of its own, in which the response, an error, the  *)
(* target's timeout and the caller's cancellation race.  The response's    *)
(* body is drained after the result is made and before Check returns.      *)
(*                                                                         *)
(* Status codes are told apart as far as Check does: the expected one,     *)
(* another between 100 and 599, and one outside that range.  net/http is a *)
(* library: Do returns a response or an error at any moment, or never      *)
(* while its context is not done.                                          *)
(***************************************************************************)
CONSTANTS
  Callers,   \* goroutines that call Check, each at most once at a time
  Targets,
  None

ASSUME CheckerAssumption == None \notin {"canceled", "deadline"}

VARIABLES
  ctxDone,     \* the context that is the parent of every caller's is canceled
  callerDone,  \* the caller's own context is canceled
  call,        \* where the call of each caller is
  asked,       \* the target it was called with
  checkErr,    \* checkCtx.Err(): the first reason the check's context is done for
  expired,     \* the target's timeout has passed since Check was called
  saw,         \* what ended the request
  result       \* the CheckResult

vars == <<ctxDone, callerDone, call, asked, checkErr, expired, saw, result>>
ctxVars == <<ctxDone, callerDone>>

(* What can end a request: a response, by its status code; an error of the *)
(* connection or of the request itself; net's own dial time-out, which     *)
(* errors.Is takes for DeadlineExceeded; or the context.                   *)
Responses == {"expected", "other", "odd"}
Events    == Responses \cup {"connection", "dial_timeout", "context"}

Outcomes == {"success", "unexpected_status", "timeout", "connection_error", "canceled"}
Codes    == {"valid", "invalid", "absent"}
Results  == [target : Targets, outcome : Outcomes, code : Codes, message : BOOLEAN]

Done(c) == ctxDone \/ callerDone[c]

Init ==
  /\ ctxDone = FALSE
  /\ callerDone = [c \in Callers |-> FALSE]
  /\ call = [c \in Callers |-> "idle"]
  /\ asked = [c \in Callers |-> None]
  /\ checkErr = [c \in Callers |-> None]
  /\ expired = [c \in Callers |-> FALSE]
  /\ saw = [c \in Callers |-> None]
  /\ result = [c \in Callers |-> None]

(* The contexts belong to whoever calls: they are canceled at any moment,  *)
(* and a caller gets a new one only between two calls.                     *)
Contexts ==
  /\ ctxDone' \in BOOLEAN /\ (ctxDone => ctxDone')
  /\ callerDone' \in [Callers -> BOOLEAN]
  /\ \A c \in Callers : callerDone[c] /\ ~callerDone'[c] => call[c] = "idle"
  /\ UNCHANGED <<call, asked, checkErr, expired, saw, result>>

-----------------------------------------------------------------------------
(* The start of Check.  context.WithTimeout of a context that is done is   *)
(* done for the same reason at once.                                       *)
Check(c, t) ==
  /\ call[c] = "idle"
  /\ call' = [call EXCEPT ![c] = "doing"]
  /\ asked' = [asked EXCEPT ![c] = t]
  /\ checkErr' = [checkErr EXCEPT ![c] = IF Done(c) THEN "canceled" ELSE None]
  /\ UNCHANGED <<ctxVars, expired, saw, result>>

InProgress(c) == call[c] \in {"doing", "draining"}

(* Mutant: the check runs under the caller's context only.                 *)
TimeoutIgnored(c) ==
  /\ InProgress(c) /\ ~expired[c]
  /\ expired' = [expired EXCEPT ![c] = TRUE]
  /\ UNCHANGED <<ctxVars, call, asked, checkErr, saw, result>>

(* The timer of checkCtx fires.                                            *)
TimeoutPasses(c) ==
  /\ InProgress(c) /\ ~expired[c]
  /\ expired' = [expired EXCEPT ![c] = TRUE]
  /\ checkErr' = [checkErr EXCEPT ![c] = IF @ = None THEN "deadline" ELSE @]
  /\ UNCHANGED <<ctxVars, call, asked, saw, result>>

(* The caller's cancellation reaches checkCtx; the timer may have fired    *)
(* between the two.                                                        *)
CancelPropagates(c) ==
  /\ InProgress(c) /\ Done(c) /\ checkErr[c] = None
  /\ checkErr' = [checkErr EXCEPT ![c] = "canceled"]
  /\ UNCHANGED <<ctxVars, call, asked, expired, saw, result>>

-----------------------------------------------------------------------------
(* Mutant: any error is a timeout once the check's context is done.        *)
ClassifyByContext(e, err) ==
  CASE e = "dial_timeout" \/ err # None -> "timeout"
    [] OTHER                            -> "connection_error"

(* How Check makes a result of what Do returned.                           *)
Classify(e, err) ==
  CASE e = "context" /\ err = "canceled" -> "canceled"
    [] e = "context" /\ err = "deadline" -> "timeout"
    [] e = "dial_timeout"                -> "timeout"
    [] OTHER                             -> "connection_error"

(* Mutant: a status code outside 100-599 is passed through.                *)
ObservedUnchecked(t, e, err) ==
  CASE e = "expected" ->
         [target |-> t, outcome |-> "success", code |-> "valid", message |-> FALSE]
    [] e \in {"other", "odd"} ->
         [target |-> t, outcome |-> "unexpected_status",
          code |-> IF e = "odd" THEN "invalid" ELSE "valid", message |-> FALSE]
    [] OTHER ->
         [target |-> t, outcome |-> Classify(e, err), code |-> "absent", message |-> TRUE]

Observed(t, e, err) ==
  CASE e = "expected" ->
         [target |-> t, outcome |-> "success", code |-> "valid", message |-> FALSE]
    [] e = "other" ->
         [target |-> t, outcome |-> "unexpected_status", code |-> "valid", message |-> FALSE]
    [] OTHER ->
         [target |-> t, outcome |-> Classify(e, err), code |-> "absent", message |-> TRUE]

(* CheckResult.Validate; the IDs, the timestamp and the latency are always  *)
(* in order.                                                               *)
Validate(r) ==
  /\ r.outcome \in Outcomes
  /\ IF r.outcome \in {"success", "unexpected_status"}
     THEN r.code = "valid" /\ (r.outcome = "success" => ~r.message)
     ELSE r.code = "absent" /\ r.message

(* Do returns, or the request could not even be made, and finish builds    *)
(* the result, or panics when it does not validate.  The context's own     *)
(* error is possible only when it is done; any other may beat it.  A       *)
(* response has a body to be drained first.                                *)
Finish(c) ==
  /\ call[c] = "doing"
  /\ \E e \in Events :
       LET r == Observed(asked[c], e, checkErr[c]) IN
       /\ e = "context" => checkErr[c] # None
       /\ saw' = [saw EXCEPT ![c] = e]
       /\ result' = [result EXCEPT ![c] = r]
       /\ call' = [call EXCEPT ![c] = IF ~Validate(r) THEN "panicked"
                                      ELSE IF e \in Responses THEN "draining" ELSE "answered"]
  /\ UNCHANGED <<ctxVars, asked, checkErr, expired>>

(* drainAndClose is through: the body ended, its limit was reached, or     *)
(* reading it failed, as it does when checkCtx is done.                    *)
Drained(c) ==
  /\ call[c] = "draining"
  /\ call' = [call EXCEPT ![c] = "answered"]
  /\ UNCHANGED <<ctxVars, asked, checkErr, expired, saw, result>>

Return(c) ==
  /\ call[c] = "answered"
  /\ call' = [call EXCEPT ![c] = "idle"]
  /\ asked' = [asked EXCEPT ![c] = None]
  /\ checkErr' = [checkErr EXCEPT ![c] = None]
  /\ expired' = [expired EXCEPT ![c] = FALSE]
  /\ saw' = [saw EXCEPT ![c] = None]
  /\ result' = [result EXCEPT ![c] = None]
  /\ UNCHANGED ctxVars

Step(c) ==
  \/ TimeoutPasses(c) \/ CancelPropagates(c)
  \/ Finish(c) \/ Drained(c) \/ Return(c)

Next == Contexts \/ \E c \in Callers : Step(c) \/ \E t \in Targets : Check(c, t)

Spec == Init /\ [][Next]_vars

(* Time passes, and net/http gives up a request and a body whose context   *)
(* is done.  No target has to answer.                                      *)
Ends(c) == checkErr[c] # None /\ (Finish(c) \/ Drained(c))

FairSpec == Spec /\ \A c \in Callers : WF_vars(TimeoutPasses(c)) /\ WF_vars(Ends(c))

-----------------------------------------------------------------------------
(* The variables hold values of their types.                               *)
TypeOK ==
  /\ ctxDone \in BOOLEAN
  /\ callerDone \in [Callers -> BOOLEAN]
  /\ call \in [Callers -> {"idle", "doing", "draining", "answered", "panicked"}]
  /\ asked \in [Callers -> Targets \cup {None}]
  /\ checkErr \in [Callers -> {None, "canceled", "deadline"}]
  /\ expired \in [Callers -> BOOLEAN]
  /\ saw \in [Callers -> Events \cup {None}]
  /\ result \in [Callers -> Results \cup {None}]

HasResult(c) == call[c] \in {"draining", "answered"}

(* check.go: canceled and timeout are never conflated.  Canceled is only   *)
(* reported when the caller was told to stop before the check's own budget *)
(* ran out; a timeout only when that budget, or net's dial budget, had run *)
(* out; and a response, once it was there, is the outcome even if the      *)
(* context ends while its body is drained.                                 *)
OutcomeIsTrue ==
  \A c \in Callers : HasResult(c) =>
    LET o == result[c].outcome IN
    /\ o = "canceled" => Done(c) /\ checkErr[c] = "canceled"
    /\ o = "timeout"  => saw[c] = "dial_timeout" \/ (expired[c] /\ checkErr[c] = "deadline")
    /\ o = "success"  <=> saw[c] = "expected"
    /\ o = "unexpected_status" <=> saw[c] = "other"
    /\ o = "connection_error"  <=> saw[c] \in {"odd", "connection"}

(* finish never panics: whatever a server sends and whenever the contexts  *)
(* end, the result Check builds passes CheckResult.Validate.               *)
NeverPanics == \A c \in Callers : call[c] # "panicked"

(* Checker behind the TargetChecker interface: it answers every call with  *)
(* a result for the target asked about, whether or not the target ever     *)
(* sends a response or the end of a body.                                  *)
Promise == INSTANCE TargetChecker WITH
  call   <- [c \in Callers |-> IF InProgress(c) THEN "pending" ELSE call[c]],
  result <- [c \in Callers |->
               IF call[c] = "answered"
               THEN [target  |-> result[c].target,
                     outcome |-> IF result[c].outcome = "canceled" THEN "canceled"
                                 ELSE "observed"]
               ELSE None]

ImplementsTargetChecker == Promise!FairSpec
=============================================================================
