------------------------------ MODULE Cadence ------------------------------
(***************************************************************************)
(* Scheduler.runTarget (internal/scheduler/scheduler.go) in time: when one *)
(* target is checked.  Module Scheduler has the same goroutine with every  *)
(* other event, but lets its ticker fire at any moment.                    *)
(*                                                                         *)
(* Time is discrete and the clocks are relative: they count up to a cap or *)
(* down to the ticker's next firing.  A check takes any time, since it may *)
(* wait for a worker.  The goroutine itself takes none: no time passes     *)
(* while its select has a case that is ready.                              *)
(***************************************************************************)
EXTENDS Naturals

CONSTANT Interval   \* t.Interval, in units of time

ASSUME IntervalAssumption == Interval \in Nat \ {0}

VARIABLES
  phase,     \* "checking", "waiting" in the select, or "exited"
  canceled,  \* the goroutine's context is done
  first,     \* no check but the first one has started
  next,      \* time until the ticker fires
  tick,      \* the one-element channel ticker.C holds a tick
  since,     \* time since the latest check started, at most Cap
  gap,       \* time between the starts of the two latest checks, at most Cap
  lastGap    \* and between the two starts before, at most Cap

vars == <<phase, canceled, first, next, tick, since, gap, lastGap>>

(* Clocks need not tell apart times longer than the interval.              *)
Cap == Interval + 1
Later(n) == IF n < Cap THEN n + 1 ELSE Cap

(* runTarget checks at once; gaps before the first check count as long.    *)
Init ==
  /\ phase = "checking" /\ canceled = FALSE
  /\ first = TRUE /\ next = Interval /\ tick = FALSE
  /\ since = 0 /\ gap = Cap /\ lastGap = Cap

Cancel ==
  /\ ~canceled /\ canceled' = TRUE
  /\ UNCHANGED <<phase, first, next, tick, since, gap, lastGap>>

(* Mutant: wait for the interval after each check.                         *)
CheckReturnsAndResets ==
  /\ phase = "checking"
  /\ phase' = "waiting"
  /\ next' = Interval
  /\ UNCHANGED <<canceled, first, tick, since, gap, lastGap>>

(* runCheck returns; after the first check, NewTicker starts the ticker.   *)
CheckReturns ==
  /\ phase = "checking"
  /\ phase' = "waiting"
  /\ next' = IF first THEN Interval ELSE next
  /\ UNCHANGED <<canceled, first, tick, since, gap, lastGap>>

(* Mutant: the tick stays in the channel.                                  *)
PeekTick ==
  /\ phase = "waiting" /\ tick
  /\ phase' = "checking" /\ first' = FALSE
  /\ since' = 0 /\ gap' = since /\ lastGap' = gap
  /\ UNCHANGED <<canceled, next, tick>>

(* The select receives from ticker.C, which it may do even when the        *)
(* context is done, and checks again.                                      *)
TakeTick ==
  /\ phase = "waiting" /\ tick
  /\ phase' = "checking" /\ first' = FALSE /\ tick' = FALSE
  /\ since' = 0 /\ gap' = since /\ lastGap' = gap
  /\ UNCHANGED <<canceled, next>>

Exit ==
  /\ phase = "waiting" /\ canceled
  /\ phase' = "exited"
  /\ UNCHANGED <<canceled, first, next, tick, since, gap, lastGap>>

(* The ticker exists once the first check has returned.                    *)
Ticking == ~first \/ phase # "checking"

(* A unit of time.  The ticker puts a tick into the channel, or drops it   *)
(* when there is one.                                                      *)
Time ==
  /\ phase = "checking" \/ (phase = "waiting" /\ ~tick /\ ~canceled)
  /\ since' = Later(since)
  /\ IF ~Ticking THEN UNCHANGED <<next, tick>>
     ELSE IF next = 1 THEN next' = Interval /\ tick' = TRUE
     ELSE next' = next - 1 /\ UNCHANGED tick
  /\ UNCHANGED <<phase, canceled, first, gap, lastGap>>

Exited == phase = "exited" /\ UNCHANGED vars

Next == Cancel \/ CheckReturns \/ TakeTick \/ Exit \/ Time \/ Exited

Spec == Init /\ [][Next]_vars

-----------------------------------------------------------------------------
(* The variables hold values of their types, and the ticker always has a   *)
(* firing ahead of it.                                                     *)
TypeOK ==
  /\ phase \in {"checking", "waiting", "exited"}
  /\ canceled \in BOOLEAN /\ first \in BOOLEAN /\ tick \in BOOLEAN
  /\ next \in 1..Interval
  /\ since \in 0..Cap /\ gap \in 0..Cap /\ lastGap \in 0..Cap

(* scheduler.go: "nothing queues up".  However long checks take, a target  *)
(* is never checked three times within less than one interval: the one     *)
(* tick that waits for a slow check to end is all that is made up for.     *)
NoBurst == gap + lastGap >= Interval

(* scheduler.go: "a fixed schedule, not a completion-based one".  From the *)
(* second check on, a check's own latency does not postpone the next: once *)
(* an interval has passed since a check started, the next one is due.      *)
LatencyIsNotAdded ==
  phase = "waiting" /\ ~first /\ since >= Interval => tick
=============================================================================
