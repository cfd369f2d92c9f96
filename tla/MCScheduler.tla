---------------------------- MODULE MCScheduler ----------------------------
(* A small instance of Scheduler for TLC: the cfg file gives the sets as   *)
(* model values.                                                           *)
EXTENDS Scheduler
=============================================================================
