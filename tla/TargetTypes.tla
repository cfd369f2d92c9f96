---------------------------- MODULE TargetTypes ----------------------------
(***************************************************************************)
(* The data of the target management API: rows of the targets table,       *)
(* requests and what a request does to the table.                          *)
(***************************************************************************)
CONSTANTS
  Clients,    \* concurrent HTTP requests
  Ids,        \* the UUIDs id.New may generate, each once
  Confs,      \* valid values of the fields of a Target other than ID and Enabled
  Malformed,  \* a path segment that is no UUID
  Garbage,    \* a body that is not JSON, or has a duration that does not parse
  Invalid,    \* a body that decodes, to a target that Validate refuses
  Unborn,     \* table entry: this ID has not been generated yet
  Deleted,    \* table entry: the row was deleted
  None

Rows   == [conf : Confs, enabled : BOOLEAN]
Bodies == Rows \cup {Garbage, Invalid}

Requests ==
  [op : {"create"}, id : {None}, body : Bodies]
    \cup [op : {"update"}, id : Ids \cup {Malformed}, body : Bodies]
    \cup [op : {"get", "delete"}, id : Ids \cup {Malformed}, body : {None}]
    \cup [op : {"list"}, id : {None}, body : {None}]

ASSUME TargetAssumption ==
  /\ Malformed \notin Ids
  /\ {Garbage, Invalid, Unborn, Deleted, None} \cap Rows = {}
  /\ Garbage # Invalid /\ None \notin {Garbage, Invalid}
  /\ None \notin Requests

(* There is a row with this ID.                                            *)
Exists(table, i) == i \in Ids /\ table[i] \notin {Unborn, Deleted}

(* The targets that an answer shows are a set of pairs of an ID and a row. *)
Shown(table, S) == {<<i, table[i]>> : i \in {k \in S : Exists(table, k)}}

(* Mutant: created as the body says, disabled too.                         *)
AsSent(body) == body

(* target.New: what is created is enabled, whatever the body says.         *)
AsCreated(body) == [body EXCEPT !.enabled = TRUE]

(* The tables that the one SQL statement of a request can leave behind.    *)
Effects(table, r) ==
  CASE r.op = "create" /\ r.body \in Rows ->
         {[table EXCEPT ![i] = AsCreated(r.body)] : i \in {k \in Ids : table[k] = Unborn}}
    [] r.op = "update" /\ r.body \in Rows /\ Exists(table, r.id) ->
         {[table EXCEPT ![r.id] = r.body]}
    [] r.op = "delete" /\ Exists(table, r.id) ->
         {[table EXCEPT ![r.id] = Deleted]}
    [] OTHER -> {table}
=============================================================================
