---------------------------- MODULE TargetStore ----------------------------
(***************************************************************************)
(* What the REST API promises its clients (docs/api.md, the comments of    *)
(* target.Service and target.Repository): each request takes effect at one *)
(* moment between its arrival and its answer, and the answer is the one    *)
(* that moment calls for.  A request that fails may or may not have taken  *)
(* effect.  Module TargetApi is shown to implement this one.               *)
(***************************************************************************)
EXTENDS TargetTypes

VARIABLES
  table,   \* the targets, by ID
  phase,   \* where each client's request is
  req,     \* the request
  answer   \* its answer

vars == <<table, phase, req, answer>>

Init ==
  /\ table = [i \in Ids |-> Unborn]
  /\ phase = [c \in Clients |-> "idle"]
  /\ req = [c \in Clients |-> None]
  /\ answer = [c \in Clients |-> None]

Request(c) ==
  /\ phase[c] = "idle"
  /\ phase' = [phase EXCEPT ![c] = "asked"]
  /\ \E r \in Requests : req' = [req EXCEPT ![c] = r]
  /\ UNCHANGED <<table, answer>>

Asked(c, ops) == phase[c] = "asked" /\ req[c].op \in ops

Answer(c, err, shown) ==
  /\ phase' = [phase EXCEPT ![c] = "answered"]
  /\ answer' = [answer EXCEPT ![c] = [err |-> err, shown |-> shown]]
  /\ UNCHANGED req

(* A bad body is refused; for an update of a missing target it may be the  *)
(* missing target that is reported.                                        *)
Refuse(c) ==
  /\ Asked(c, {"create", "update"}) /\ req[c].body \in {Garbage, Invalid}
  /\ Answer(c, "invalid", {}) /\ UNCHANGED table

Missing(c) ==
  /\ Asked(c, {"get", "update", "delete"}) /\ ~Exists(table, req[c].id)
  /\ Answer(c, "not found", {}) /\ UNCHANGED table

Create(c) ==
  /\ Asked(c, {"create"}) /\ req[c].body \in Rows
  /\ \E i \in Ids :
       /\ table[i] = Unborn
       /\ table' = [table EXCEPT ![i] = AsCreated(req[c].body)]
       /\ Answer(c, "ok", {<<i, AsCreated(req[c].body)>>})

Read(c) ==
  /\ UNCHANGED table
  /\ \/ Asked(c, {"list"}) /\ Answer(c, "ok", Shown(table, Ids))
     \/ /\ Asked(c, {"get"}) /\ Exists(table, req[c].id)
        /\ Answer(c, "ok", Shown(table, {req[c].id}))

Update(c) ==
  /\ Asked(c, {"update"}) /\ req[c].body \in Rows /\ Exists(table, req[c].id)
  /\ table' = [table EXCEPT ![req[c].id] = req[c].body]
  /\ Answer(c, "ok", {<<req[c].id, req[c].body>>})

Delete(c) ==
  /\ Asked(c, {"delete"}) /\ Exists(table, req[c].id)
  /\ table' = [table EXCEPT ![req[c].id] = Deleted]
  /\ Answer(c, "ok", {})

(* The client does not learn what became of it.                            *)
Fail(c) ==
  /\ phase[c] = "asked"
  /\ Answer(c, "failed", {})
  /\ table' \in {table} \cup Effects(table, req[c])

Reply(c) ==
  /\ phase[c] = "answered"
  /\ phase' = [phase EXCEPT ![c] = "idle"]
  /\ req' = [req EXCEPT ![c] = None]
  /\ answer' = [answer EXCEPT ![c] = None]
  /\ UNCHANGED table

Next ==
  \E c \in Clients :
    \/ Request(c) \/ Refuse(c) \/ Missing(c) \/ Create(c) \/ Read(c) \/ Update(c)
    \/ Delete(c) \/ Fail(c) \/ Reply(c)

Spec == Init /\ [][Next]_vars
=============================================================================
