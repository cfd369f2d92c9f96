----------------------------- MODULE TargetApi -----------------------------
(***************************************************************************)
(* Target management: internal/api (TargetHandler), target.Service and the *)
(* repositories, with many requests in progress at once.                   *)
(*                                                                         *)
(* A repository method is one step: it holds the mutex                     *)
(* (MemoryTargetRepository) or is a single SQL statement (PostgreSQL).     *)
(* Service.Update is two of them, a Get and an Update, and anything may    *)
(* happen in between.  A PostgreSQL call can fail before or after its      *)
(* statement took effect: the connection breaks, or the client goes away   *)
(* and r.Context() is canceled.                                            *)
(***************************************************************************)
EXTENDS TargetTypes, Naturals, FiniteSets

VARIABLES
  backend, \* the repository in use: "postgres", what main.go wires, or "memory"
  table,   \* the rows of the targets table, by ID
  pc,      \* where the handler of each request is
  req,     \* the request it serves
  answer   \* the error and the targets the service returned

vars == <<backend, table, pc, req, answer>>

Errors == {"ok", "invalid", "not found", "failed"}

Init ==
  /\ backend \in {"postgres", "memory"}
  /\ table = [i \in Ids |-> Unborn]
  /\ pc = [c \in Clients |-> "idle"]
  /\ req = [c \in Clients |-> None]
  /\ answer = [c \in Clients |-> None]

(* Bound: no more targets are created than there are IDs.                  *)
IdLeft ==
  Cardinality({c \in Clients : pc[c] = "handling" /\ req[c].op = "create"})
    < Cardinality({i \in Ids : table[i] = Unborn})

Request(c) ==
  /\ pc[c] = "idle"
  /\ pc' = [pc EXCEPT ![c] = "handling"]
  /\ \E r \in Requests :
       /\ (r.op = "create" /\ r.body \in Rows) => IdLeft
       /\ req' = [req EXCEPT ![c] = r]
  /\ UNCHANGED <<table, answer>>

Handling(c, op) == pc[c] = "handling" /\ req[c].op = op

Return(c, err, shown) ==
  /\ pc' = [pc EXCEPT ![c] = "answered"]
  /\ answer' = [answer EXCEPT ![c] = [err |-> err, shown |-> shown]]
  /\ UNCHANGED req

-----------------------------------------------------------------------------
(* The body does not decode, or (Create) New refuses it: no repository is  *)
(* reached.                                                                *)
Refuse(c) ==
  /\ \/ Handling(c, "create") /\ req[c].body \in {Garbage, Invalid}
     \/ Handling(c, "update") /\ req[c].body = Garbage
  /\ Return(c, "invalid", {})
  /\ UNCHANGED table

(* ErrAlreadyExists needs a UUID to be generated twice and is left out.    *)
Create(c) ==
  /\ Handling(c, "create") /\ req[c].body \in Rows
  /\ \E i \in Ids :
       /\ table[i] = Unborn
       /\ table' = [table EXCEPT ![i] = AsCreated(req[c].body)]
       /\ Return(c, "ok", {<<i, AsCreated(req[c].body)>>})

List(c) ==
  /\ Handling(c, "list")
  /\ Return(c, "ok", Shown(table, Ids))
  /\ UNCHANGED table

(* PostgreSQL refuses a malformed UUID with an error that mapError does    *)
(* not know; the map of the memory repository just has no such key.        *)
LookupError(i) == IF i = Malformed /\ backend = "postgres" THEN "failed" ELSE "not found"

Get(c) ==
  /\ Handling(c, "get")
  /\ IF Exists(table, req[c].id) THEN Return(c, "ok", Shown(table, {req[c].id}))
                                 ELSE Return(c, LookupError(req[c].id), {})
  /\ UNCHANGED table

(* Mutant: Validate is not called.                                         *)
FindUnvalidated(c) ==
  /\ Handling(c, "update") /\ req[c].body # Garbage
  /\ UNCHANGED table
  /\ IF Exists(table, req[c].id)
     THEN pc' = [pc EXCEPT ![c] = "found"] /\ UNCHANGED <<req, answer>>
     ELSE Return(c, LookupError(req[c].id), {})

(* The Get of Service.Update, then Validate.                               *)
Find(c) ==
  /\ Handling(c, "update") /\ req[c].body # Garbage
  /\ UNCHANGED table
  /\ \/ ~Exists(table, req[c].id) /\ Return(c, LookupError(req[c].id), {})
     \/ Exists(table, req[c].id) /\ req[c].body = Invalid /\ Return(c, "invalid", {})
     \/ /\ Exists(table, req[c].id) /\ req[c].body # Invalid
        /\ pc' = [pc EXCEPT ![c] = "found"]
        /\ UNCHANGED <<req, answer>>

(* Mutant: the row is written whether or not it is still there.            *)
Upsert(c) ==
  /\ pc[c] = "found"
  /\ table' = [table EXCEPT ![req[c].id] = req[c].body]
  /\ Return(c, "ok", {<<req[c].id, req[c].body>>})

(* Mutant: RowsAffected is not looked at.                                  *)
ReplaceBlindly(c) ==
  /\ pc[c] = "found"
  /\ table' = IF Exists(table, req[c].id)
              THEN [table EXCEPT ![req[c].id] = req[c].body] ELSE table
  /\ Return(c, "ok", {<<req[c].id, req[c].body>>})

(* The Update of Service.Update: all columns at once, if the row is still  *)
(* there.                                                                  *)
Replace(c) ==
  /\ pc[c] = "found"
  /\ IF Exists(table, req[c].id)
     THEN /\ table' = [table EXCEPT ![req[c].id] = req[c].body]
          /\ Return(c, "ok", {<<req[c].id, req[c].body>>})
     ELSE Return(c, "not found", {}) /\ UNCHANGED table

Delete(c) ==
  /\ Handling(c, "delete")
  /\ IF Exists(table, req[c].id)
     THEN table' = [table EXCEPT ![req[c].id] = Deleted] /\ Return(c, "ok", {})
     ELSE Return(c, LookupError(req[c].id), {}) /\ UNCHANGED table

(* The repository call that is next fails, its statement executed or not.  *)
Fail(c) ==
  /\ backend = "postgres"
  /\ \/ Handling(c, "create") /\ req[c].body \in Rows
     \/ Handling(c, "update") /\ req[c].body # Garbage
     \/ Handling(c, "get") \/ Handling(c, "list") \/ Handling(c, "delete")
     \/ pc[c] = "found"
  /\ table' \in {table} \cup
       (IF pc[c] = "found" \/ req[c].op # "update" THEN Effects(table, req[c]) ELSE {})
  /\ Return(c, "failed", {})

(* The response is written.                                                *)
Respond(c) ==
  /\ pc[c] = "answered"
  /\ pc' = [pc EXCEPT ![c] = "idle"]
  /\ req' = [req EXCEPT ![c] = None]
  /\ answer' = [answer EXCEPT ![c] = None]
  /\ UNCHANGED table

-----------------------------------------------------------------------------
Next ==
  /\ UNCHANGED backend
  /\ \E c \in Clients :
       \/ Request(c) \/ Refuse(c) \/ Create(c) \/ List(c) \/ Get(c)
       \/ Find(c) \/ Replace(c) \/ Delete(c) \/ Fail(c) \/ Respond(c)

Spec == Init /\ [][Next]_vars

(* The status line of an answer: the success code of the handler, or what  *)
(* writeServiceError makes of the error.  allowValidation is true for      *)
(* create and update.                                                      *)
Status(op, err) ==
  CASE err = "ok"        -> [create |-> 201, list |-> 200, get |-> 200,
                             update |-> 200, delete |-> 204][op]
    [] err = "not found" -> 404
    [] err = "invalid"   -> 400
    [] err = "failed"    -> IF op \in {"create", "update"} THEN 400 ELSE 500

Answered(c) == pc[c] = "answered"
StatusOf(c) == Status(req[c].op, answer[c].err)

-----------------------------------------------------------------------------
(* Every variable holds a value of its Go counterpart's type; in           *)
(* particular every stored row is a valid target.                          *)
TypeOK ==
  /\ backend \in {"postgres", "memory"}
  /\ table \in [Ids -> Rows \cup {Unborn, Deleted}]
  /\ pc \in [Clients -> {"idle", "handling", "found", "answered"}]
  /\ req \in [Clients -> Requests \cup {None}]
  /\ answer \in [Clients -> [err : Errors, shown : SUBSET (Ids \X Rows)] \cup {None}]

(* Between the Get and the Update of Service.Update the row may be         *)
(* replaced or deleted: still no deleted row comes back, no ID is used     *)
(* twice, and a row appears only as an enabled target.  This is what       *)
(* module Scheduler assumes of its store.                                  *)
RowsEvolve ==
  [][\A i \in Ids :
       \/ table'[i] = table[i]
       \/ table[i] = Unborn /\ table'[i] \in Rows /\ table'[i].enabled
       \/ table[i] \in Rows /\ table'[i] \in Rows \cup {Deleted}]_vars

TS == INSTANCE TargetStore WITH
        phase <- [c \in Clients |-> IF pc[c] \in {"handling", "found"} THEN "asked" ELSE pc[c]]

(* Requests are linearizable: each behaves as if it happened at one        *)
(* moment, the two-step update included, and a success is never reported   *)
(* for a change that was not made.                                         *)
Linearizable == TS!Spec

(* docs/api.md: an unexpected server-side failure is answered 500.         *)
FailureIs500 ==
  \A c \in Clients :
    Answered(c) /\ answer[c].err = "failed" /\ req[c].id # Malformed
      => StatusOf(c) = 500
=============================================================================
