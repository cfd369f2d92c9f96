--------------------------- MODULE CheckerProofs ---------------------------
(***************************************************************************)
(* Proofs that the safety properties of module Checker hold for any        *)
(* numbers of callers and targets, and that the checker implements module  *)
(* TargetChecker as far as safety goes.                                    *)
(***************************************************************************)
EXTENDS Checker, TLAPS

(* What a result says is what happened.                                    *)
Truthful(c) ==
  LET o == result[c].outcome IN
  /\ o = "canceled" => checkErr[c] = "canceled"
  /\ o = "timeout"  => saw[c] = "dial_timeout" \/ checkErr[c] = "deadline"
  /\ o = "success"  <=> saw[c] = "expected"
  /\ o = "unexpected_status" <=> saw[c] = "other"
  /\ o = "connection_error"  <=> saw[c] \in {"odd", "connection"}

(* The reason a check's context is done for is a fact of the call that     *)
(* made it, and no call has one before it begins.                          *)
CallInv(c) ==
  /\ call[c] = "idle" => checkErr[c] = None
  /\ call[c] # "idle" => asked[c] \in Targets
  /\ checkErr[c] = "canceled" => Done(c)
  /\ checkErr[c] = "deadline" => expired[c]
  /\ HasResult(c) => result[c] \in Results /\ result[c].target = asked[c] /\ Truthful(c)
  /\ call[c] # "panicked"

CheckerInv == TypeOK /\ \A c \in Callers : CallInv(c)

(* Whatever ends a request, the result made of it validates, and says what *)
(* that was.                                                               *)
LEMMA ObservedResult ==
  ASSUME NEW t \in Targets, NEW e \in Events, NEW err \in {None, "canceled", "deadline"},
         e = "context" => err # None
  PROVE  LET r == Observed(t, e, err) IN
         /\ r \in Results /\ r.target = t /\ Validate(r)
         /\ r.outcome = "canceled" => err = "canceled"
         /\ r.outcome = "timeout"  => e = "dial_timeout" \/ err = "deadline"
         /\ r.outcome = "success"  <=> e = "expected"
         /\ r.outcome = "unexpected_status" <=> e = "other"
         /\ r.outcome = "connection_error"  <=> e \in {"odd", "connection"}
<1> USE CheckerAssumption DEF Results, Outcomes, Codes, Validate
<1>1. CASE e = "expected"
  BY <1>1 DEF Observed
<1>2. CASE e = "other"
  BY <1>2 DEF Observed
<1>3. CASE e \in {"odd", "connection", "dial_timeout", "context"}
  <2>1. Observed(t, e, err) =
          [target |-> t, outcome |-> Classify(e, err), code |-> "absent", message |-> TRUE]
    BY <1>3 DEF Observed
  <2>2. /\ e \in {"odd", "connection"} => Classify(e, err) = "connection_error"
        /\ e = "dial_timeout" => Classify(e, err) = "timeout"
        /\ e = "context" /\ err = "canceled" => Classify(e, err) = "canceled"
        /\ e = "context" /\ err = "deadline" => Classify(e, err) = "timeout"
    BY DEF Classify
  <2> QED
    BY <1>3, <2>1, <2>2
<1> QED
  BY <1>1, <1>2, <1>3 DEF Events, Responses

(* No call is in progress at first.                                        *)
LEMMA CheckerInit == Init => CheckerInv
BY CheckerAssumption DEF Init, CheckerInv, CallInv, TypeOK, HasResult

(* A step of one call leaves the others alone, and no context that a call  *)
(* depends on is taken back while it lasts.                                *)
LEMMA CheckerStep == CheckerInv /\ [Next]_vars => CheckerInv'
<1> SUFFICES ASSUME CheckerInv, [Next]_vars PROVE CheckerInv'
  OBVIOUS
<1> USE CheckerAssumption DEF CheckerInv, TypeOK, CallInv, HasResult, Truthful, ctxVars
<1>1. CASE Contexts
  <2>1. \A c \in Callers : call[c] # "idle" /\ Done(c) => Done(c)'
    BY <1>1 DEF Contexts, Done
  <2> QED
    BY <1>1, <2>1 DEF Contexts
<1>2. ASSUME NEW c \in Callers, NEW t \in Targets, Check(c, t) PROVE CheckerInv'
  BY <1>2 DEF Check, Done
<1>3. ASSUME NEW c \in Callers, TimeoutPasses(c) PROVE CheckerInv'
  BY <1>3 DEF TimeoutPasses, InProgress, Done
<1>4. ASSUME NEW c \in Callers, CancelPropagates(c) PROVE CheckerInv'
  BY <1>4 DEF CancelPropagates, InProgress, Done
<1>5. ASSUME NEW c \in Callers, Finish(c) PROVE CheckerInv'
  <2>1. PICK e \in Events :
          LET r == Observed(asked[c], e, checkErr[c]) IN
          /\ e = "context" => checkErr[c] # None
          /\ saw' = [saw EXCEPT ![c] = e]
          /\ result' = [result EXCEPT ![c] = r]
          /\ call' = [call EXCEPT ![c] = IF ~Validate(r) THEN "panicked"
                                         ELSE IF e \in Responses THEN "draining" ELSE "answered"]
    BY <1>5 DEF Finish
  <2> DEFINE r == Observed(asked[c], e, checkErr[c])
  <2>2. call[c] = "doing" /\ asked[c] \in Targets
    BY <1>5 DEF Finish
  <2>3. /\ r \in Results /\ r.target = asked[c] /\ Validate(r)
        /\ r.outcome = "canceled" => checkErr[c] = "canceled"
        /\ r.outcome = "timeout"  => e = "dial_timeout" \/ checkErr[c] = "deadline"
        /\ r.outcome = "success"  <=> e = "expected"
        /\ r.outcome = "unexpected_status" <=> e = "other"
        /\ r.outcome = "connection_error"  <=> e \in {"odd", "connection"}
    BY <2>1, <2>2, ObservedResult
  <2> HIDE DEF r
  <2>4. /\ call' \in [Callers -> {"idle", "doing", "draining", "answered", "panicked"}]
        /\ call'[c] \in {"draining", "answered"}
        /\ result'[c] = r /\ saw'[c] = e
    BY <2>1, <2>3 DEF r
  <2>5. \A d \in Callers \ {c} :
          call'[d] = call[d] /\ result'[d] = result[d] /\ saw'[d] = saw[d]
    BY <2>1
  <2>6. /\ result' \in [Callers -> Results \cup {None}]
        /\ saw' \in [Callers -> Events \cup {None}]
    BY <2>1, <2>3 DEF r
  <2> QED
    BY <1>5, <2>2, <2>3, <2>4, <2>5, <2>6 DEF Finish, Done
<1>6. ASSUME NEW c \in Callers, Drained(c) PROVE CheckerInv'
  BY <1>6 DEF Drained, Done
<1>7. ASSUME NEW c \in Callers, Return(c) PROVE CheckerInv'
  BY <1>7 DEF Return, Done
<1>8. CASE UNCHANGED vars
  BY <1>8 DEF vars, Done
<1> QED
  BY <1>1, <1>2, <1>3, <1>4, <1>5, <1>6, <1>7, <1>8 DEF Next, Step

(* Check's state is in its types, for any callers and targets.             *)
THEOREM TypeCorrect == Spec => []TypeOK
<1>1. CheckerInv => TypeOK
  BY DEF CheckerInv
<1> QED
  BY <1>1, CheckerInit, CheckerStep, PTL DEF Spec

(* A result never takes a timeout for a cancellation, an error for a       *)
(* response, or one of these for another.                                  *)
THEOREM OutcomesAreTrue == Spec => []OutcomeIsTrue
<1>1. CheckerInv => OutcomeIsTrue
  BY DEF CheckerInv, CallInv, Truthful, OutcomeIsTrue
<1> QED
  BY <1>1, CheckerInit, CheckerStep, PTL DEF Spec

(* finish never panics.                                                    *)
THEOREM NeverPanicking == Spec => []NeverPanics
<1>1. CheckerInv => NeverPanics
  BY DEF CheckerInv, CallInv, NeverPanics
<1> QED
  BY <1>1, CheckerInit, CheckerStep, PTL DEF Spec

-----------------------------------------------------------------------------
(* A result is visible once its body is drained; what comes before is one  *)
(* pending call.                                                           *)
LEMMA RefinementStep == CheckerInv /\ [Next]_vars => [Promise!Next]_Promise!vars
<1> SUFFICES ASSUME CheckerInv, [Next]_vars PROVE [Promise!Next]_Promise!vars
  OBVIOUS
<1> DEFINE
      callMap   == [c \in Callers |-> IF InProgress(c) THEN "pending" ELSE call[c]]
      outcome(c) == IF result[c].outcome = "canceled" THEN "canceled" ELSE "observed"
      resultMap == [c \in Callers |->
                      IF call[c] = "answered"
                      THEN [target |-> result[c].target, outcome |-> outcome(c)] ELSE None]
<1>0. /\ call \in [Callers -> {"idle", "doing", "draining", "answered", "panicked"}]
      /\ result \in [Callers -> Results \cup {None}]
      /\ asked \in [Callers -> Targets \cup {None}]
      /\ \A c \in Callers : CallInv(c)
  BY DEF CheckerInv, TypeOK
<1>c. CheckerInv'
  BY CheckerStep
<1>a. ASSUME UNCHANGED <<ctxDone, callerDone, asked>>, callMap' = callMap, resultMap' = resultMap
      PROVE [Promise!Next]_Promise!vars
  BY <1>a DEF Promise!vars
<1>1. CASE Contexts
  BY <1>0, <1>1 DEF Contexts, InProgress, Promise!Next, Promise!Contexts
<1>2. ASSUME NEW c \in Callers, NEW t \in Targets, Check(c, t) PROVE Promise!Check(c, t)
  BY <1>0, <1>2 DEF Check, InProgress, ctxVars, Promise!Check
<1>3. ASSUME NEW c \in Callers, TimeoutPasses(c) \/ CancelPropagates(c)
      PROVE [Promise!Next]_Promise!vars
  <2>1. UNCHANGED <<ctxDone, callerDone, call, asked, result>>
    BY <1>3 DEF TimeoutPasses, CancelPropagates, ctxVars
  <2> QED
    BY <2>1, <1>a DEF InProgress
<1>4. ASSUME NEW c \in Callers, Finish(c) \/ Drained(c), call'[c] = "answered"
      PROVE Promise!Answer(c)
  <2>1. /\ UNCHANGED <<ctxVars, asked>>
        /\ call[c] \in {"doing", "draining"} /\ call' = [call EXCEPT ![c] = "answered"]
        /\ \A d \in Callers \ {c} : result'[d] = result[d]
    BY <1>0, <1>4 DEF Finish, Drained
  <2>2. /\ callMap[c] = "pending" /\ callMap' = [callMap EXCEPT ![c] = "answered"]
        /\ resultMap' = [resultMap EXCEPT ![c] =
                           [target |-> result'[c].target, outcome |-> outcome(c)']]
    BY <1>0, <2>1 DEF InProgress
  <2>3. result'[c].target = asked[c] /\ (result'[c].outcome = "canceled" => Done(c))
    BY <1>c, <1>4, <2>1 DEF CheckerInv, CallInv, HasResult, Truthful, Done, ctxVars
  <2>4. /\ outcome(c)' \in Promise!Outcomes
        /\ outcome(c)' = "canceled" => Promise!Done(c)
    BY <2>3 DEF Promise!Outcomes, Promise!Done, Done
  <2> QED
    BY <2>1, <2>2, <2>3, <2>4 DEF Promise!Answer, ctxVars
<1>5. ASSUME NEW c \in Callers, Finish(c), call'[c] = "draining"
      PROVE [Promise!Next]_Promise!vars
  <2>1. /\ UNCHANGED <<ctxVars, asked>>
        /\ call[c] = "doing" /\ call' = [call EXCEPT ![c] = "draining"]
        /\ \A d \in Callers \ {c} : result'[d] = result[d]
    BY <1>0, <1>5 DEF Finish
  <2>2. callMap' = callMap /\ resultMap' = resultMap
    BY <1>0, <2>1 DEF InProgress
  <2> QED
    BY <2>1, <2>2, <1>a DEF ctxVars
<1>6. ASSUME NEW c \in Callers, Finish(c) \/ Drained(c) PROVE [Promise!Next]_Promise!vars
  <2>1. call'[c] \in {"draining", "answered"}
    BY <1>0, <1>6, <1>c DEF Finish, Drained, CheckerInv, CallInv
  <2>2. call'[c] = "draining" => Finish(c)
    BY <1>0, <1>6 DEF Drained
  <2> QED
    BY <1>4, <1>5, <1>6, <2>1, <2>2 DEF Promise!Next
<1>7. ASSUME NEW c \in Callers, Return(c) PROVE Promise!Return(c)
  BY <1>0, <1>7 DEF Return, InProgress, ctxVars, Promise!Return
<1>8. CASE UNCHANGED vars
  BY <1>8, <1>a DEF vars, InProgress
<1> QED
  BY <1>1, <1>2, <1>3, <1>6, <1>7, <1>8 DEF Next, Step, Promise!Next

(* The checker is a TargetChecker: one call at a time that returns one     *)
(* result, for its own target and truthful about cancellation.             *)
THEOREM CheckerIsTargetChecker == Spec => Promise!Spec
<1>1. Init => Promise!Init
  BY DEF Init, Promise!Init, InProgress
<1> QED
  BY <1>1, CheckerInit, CheckerStep, RefinementStep, PTL DEF Spec, Promise!Spec
=============================================================================
