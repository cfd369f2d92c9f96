--------------------------- MODULE CadenceProofs ---------------------------
(***************************************************************************)
(* Proofs that the properties of module Cadence hold for any interval.     *)
(***************************************************************************)
EXTENDS Cadence, TLAPS

(* A tick that waits was put there since the latest check started, so the  *)
(* firing after it is an interval away from that start at least.  Without  *)
(* one the next start can only follow the next firing, which is then at    *)
(* most an interval away from the latest start, and far enough from the    *)
(* start before.                                                           *)
TickInv ==
  /\ first => gap = Cap
  /\ first /\ phase = "checking" => ~tick /\ next = Interval
  /\ tick \/ first => since + next >= Interval /\ gap + since >= Interval
  /\ gap + since + next >= Interval
  /\ ~first /\ ~tick => since + next <= Interval

CadenceInv == TypeOK /\ TickInv /\ NoBurst /\ LatencyIsNotAdded

(* The clock that counts up stays within its bound, and never runs back.   *)
LEMMA LaterBound ==
  ASSUME NEW n \in 0..Cap
  PROVE  /\ Later(n) \in 0..Cap
         /\ n < Cap => Later(n) = n + 1
         /\ n = Cap => Later(n) = Cap
BY IntervalAssumption DEF Later, Cap

(* The first check starts with a full interval ahead of it.                *)
LEMMA CadenceInit == Init => CadenceInv
<1> SUFFICES ASSUME Init PROVE CadenceInv
  OBVIOUS
<1>1. TypeOK
  <2>1. canceled \in BOOLEAN /\ first \in BOOLEAN /\ tick \in BOOLEAN
    BY DEF Init
  <2> QED
    BY <2>1, IntervalAssumption DEF Init, TypeOK, Cap
<1>2. phase = "checking" /\ first /\ ~tick /\ next = Interval
  BY DEF Init
<1>3. TickInv /\ NoBurst /\ LatencyIsNotAdded
  BY <1>2, IntervalAssumption DEF Init, TickInv, NoBurst, LatencyIsNotAdded, Cap
<1> QED
  BY <1>1, <1>3 DEF CadenceInv

(* Every step keeps the clocks and the ticker in step with one another.    *)
LEMMA CadenceStep == CadenceInv /\ [Next]_vars => CadenceInv'
<1> SUFFICES ASSUME CadenceInv, [Next]_vars PROVE CadenceInv'
  OBVIOUS
<1> USE IntervalAssumption DEF CadenceInv, TypeOK, TickInv, NoBurst, LatencyIsNotAdded
<1>1. CASE Cancel
  BY <1>1 DEF Cancel, Cap
<1>2. CASE CheckReturns
  BY <1>2 DEF CheckReturns, Cap
<1>3. CASE TakeTick
  <2>1. phase' = "checking" /\ ~first' /\ ~tick'
    BY <1>3 DEF TakeTick
  <2>2. since + next >= Interval /\ gap + since >= Interval
    BY <1>3 DEF TakeTick
  <2>3. canceled' \in BOOLEAN /\ first' \in BOOLEAN /\ tick' \in BOOLEAN
    BY <1>3 DEF TakeTick
  <2> QED
    BY <1>3, <2>1, <2>2, <2>3 DEF TakeTick, Cap
<1>4. CASE Exit
  BY <1>4 DEF Exit, Cap
<1>5. CASE Time
  <2>1. since' = Later(since) /\ since' \in 0..Cap
    BY <1>5, LaterBound DEF Time
  <2>2. CASE ~Ticking
    BY <1>5, <2>1, <2>2, LaterBound DEF Time, Ticking, Cap
  <2>3. CASE Ticking /\ next = 1
    BY <1>5, <2>1, <2>3, LaterBound DEF Time, Ticking, Cap
  <2>4. CASE Ticking /\ next # 1
    BY <1>5, <2>1, <2>4, LaterBound DEF Time, Ticking, Cap
  <2> QED
    BY <2>2, <2>3, <2>4
<1>6. CASE UNCHANGED vars
  BY <1>6 DEF vars, Cap
<1> QED
  BY <1>1, <1>2, <1>3, <1>4, <1>5, <1>6 DEF Next, Exited

(* runTarget's state is in its types, for any interval.                    *)
THEOREM TypeCorrect == Spec => []TypeOK
<1>1. CadenceInv => TypeOK
  BY DEF CadenceInv
<1> QED
  BY <1>1, CadenceInit, CadenceStep, PTL DEF Spec

(* A target is never checked three times within less than one interval.    *)
THEOREM NeverBursts == Spec => []NoBurst
<1>1. CadenceInv => NoBurst
  BY DEF CadenceInv
<1> QED
  BY <1>1, CadenceInit, CadenceStep, PTL DEF Spec

(* Once an interval has passed since a check started, the next is due.     *)
THEOREM LatencyNotAdded == Spec => []LatencyIsNotAdded
<1>1. CadenceInv => LatencyIsNotAdded
  BY DEF CadenceInv
<1> QED
  BY <1>1, CadenceInit, CadenceStep, PTL DEF Spec
=============================================================================
