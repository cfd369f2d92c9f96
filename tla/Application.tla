---------------------------- MODULE Application ----------------------------
(***************************************************************************)
(* The REST API and the monitoring engine on one targets table, as main.go *)
(* wires them: the target.Service the handlers call is the TargetLister    *)
(* the scheduler calls.                                                    *)
(*                                                                         *)
(* Nothing else connects the two.  A request never reaches the scheduler,  *)
(* and the scheduler only ever reads the table; a step of one part leaves  *)
(* the other's variables alone.  What module Scheduler assumes of its      *)
(* environment is shown here to be what the API does to the table.         *)
(***************************************************************************)
EXTENDS Naturals, Sequences

CONSTANTS
  Clients, Malformed, Garbage, Invalid,    \* of TargetApi
  Slots, Workers, QueueSize, Disabled,     \* of Monitor
  Ids, Confs, Unborn, Deleted, None,       \* of both
  Sent         \* the requests that clients make

VARIABLES
  backend, table, handler, req, answer,                             \* TargetApi
  ctxDone, spc, listed, todo, running, pc, runs, canceled, tick,    \* Scheduler
  call, asked, result, queue, wpc, job, stopped                     \* WorkerPool

apiVars    == <<backend, table, handler, req, answer>>
engineVars == <<ctxDone, spc, listed, todo, running, pc, runs, canceled, tick,
                call, asked, result, queue, wpc, job, stopped>>
vars       == <<apiVars, engineVars>>

Api == INSTANCE TargetApi WITH pc <- handler

(* Mutant: the scheduler does not see that a row is disabled.              *)
ConfOnly(row) == row.conf

(* What reconcile makes of a row.                                          *)
Seen(row) == IF row.enabled THEN row.conf ELSE Disabled

(* The table in the scheduler's eyes.                                      *)
Stored == [i \in Ids |-> IF table[i] \in Api!Rows THEN Seen(table[i]) ELSE table[i]]

(* Validate lets no row into the table whose interval is not positive.     *)
Engine == INSTANCE Monitor WITH store <- Stored, Usable <- Confs

(* The assumptions of the two parts.                                       *)
ASSUME ApplicationAssumption ==
  /\ Malformed \notin Ids
  /\ {Garbage, Invalid, Unborn, Deleted, None} \cap Api!Rows = {}
  /\ Garbage # Invalid /\ None \notin {Garbage, Invalid}
  /\ None \notin Api!Requests /\ Sent \subseteq Api!Requests
  /\ {Unborn, Deleted, Disabled, None} \cap Confs = {}
  /\ Unborn # Disabled /\ Deleted # Disabled /\ Unborn # Deleted
  /\ QueueSize \in Nat \ {0}
  /\ None \notin Slots
  /\ None \notin [slot : Slots, conf : Confs]
  /\ None \notin [id : Ids, conf : Confs]
  /\ None \notin [caller : Slots \cup {None}, target : [id : Ids, conf : Confs]]
  /\ None \notin [target : [id : Ids, conf : Confs],
                 outcome : {"observed", "recovered", "canceled"}]

(* main.go wires the PostgreSQL repository.                                *)
Init == Api!Init /\ backend = "postgres" /\ Engine!Init

(* A handler, or the repository on its behalf.                             *)
ApiStep ==
  /\ Api!Next
  /\ \A c \in Clients : req'[c] \in {req[c], None} \cup Sent
  /\ UNCHANGED engineVars

(* The scheduler, a per-target goroutine, a worker, or the signal.         *)
EngineStep == UNCHANGED apiVars /\ Engine!Next

Next == ApiStep \/ EngineStep

Spec == Init /\ [][Next]_vars

-----------------------------------------------------------------------------
(* The API is the environment the engine's own modules assume: whatever    *)
(* the requests do, race and fail like, the engine behaves as they say.    *)
ImplementsMonitor == Engine!Spec

(* The checks somebody wants are those the table asks for: once a pass of  *)
(* reconcile is over that saw what the table now holds of a target, no     *)
(* wanted check of it is queued or run unless its row is there, enabled,   *)
(* and has the configuration of the check.                                 *)
ChecksFollowTable ==
  \A j \in Engine!QueuedJobs \cup Engine!RunningJobs :
    LET i == j.target.id
    IN  Engine!Wanted(j) /\ spc # "visit" /\ listed[i] = Stored[i] =>
          table[i] \in Api!Rows /\ table[i].enabled /\ table[i].conf = j.target.conf

(* A deletion the scheduler has noticed is final: no request in progress,  *)
(* an update that found the row before it was deleted included, and no     *)
(* later listing brings the target back to the schedule.                   *)
DeletedStaysUnscheduled ==
  [][\A i \in Ids :
       listed[i] = Deleted => /\ listed'[i] = Deleted
                              /\ running[i] = None => running'[i] = None]_vars
=============================================================================
