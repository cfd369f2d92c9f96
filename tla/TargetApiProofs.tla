-------------------------- MODULE TargetApiProofs --------------------------
(***************************************************************************)
(* Proofs about module TargetApi for any numbers of requests, IDs and      *)
(* rows: what the table may do, and that requests are linearizable.        *)
(***************************************************************************)
EXTENDS TargetApi, TLAPS

(* A request in progress is known, and between the two repository calls of *)
(* Service.Update it is an update to a valid row under a proper ID.        *)
ProgressInv ==
  \A c \in Clients :
    /\ pc[c] \in {"handling", "found"} => req[c] \in Requests
    /\ pc[c] = "found" => req[c].op = "update" /\ req[c].body \in Rows /\ req[c].id \in Ids

ApiInv == TypeOK /\ ProgressInv

(* The table may change from t to u by at most one request, which is about *)
(* one row at most.                                                        *)
Evolves(t, u) ==
  \/ u = t
  \/ \E i \in Ids :
       \/ t[i] = Unborn /\ \E r \in Rows : r.enabled /\ u = [t EXCEPT ![i] = r]
       \/ t[i] \in Rows /\ \E e \in Rows \cup {Deleted} : u = [t EXCEPT ![i] = e]

Tables == [Ids -> Rows \cup {Unborn, Deleted}]

(* A created target is an enabled row.                                     *)
LEMMA CreatedIsEnabled ==
  ASSUME NEW b \in Rows
  PROVE  AsCreated(b) \in Rows /\ AsCreated(b).enabled
  BY DEF AsCreated, Rows

(* What exists is a row, and only a proper ID exists.                      *)
LEMMA ExistingIsRow ==
  ASSUME NEW t \in Tables, NEW i, Exists(t, i)
  PROVE  i \in Ids /\ t[i] \in Rows
  BY DEF Exists, Tables

(* One statement, executed or not, leaves a table of the right type.       *)
LEMMA EffectsEvolve ==
  ASSUME NEW t \in Tables, NEW r \in Requests, NEW u \in {t} \cup Effects(t, r)
  PROVE  u \in Tables /\ Evolves(t, u)
<1>1. CASE u = t
  BY <1>1 DEF Evolves
<1>2. CASE r.op = "create" /\ r.body \in Rows /\ u # t
  <2>1. PICK i \in Ids : t[i] = Unborn /\ u = [t EXCEPT ![i] = AsCreated(r.body)]
    BY <1>2 DEF Effects
  <2> QED
    BY <1>2, <2>1, CreatedIsEnabled DEF Tables, Evolves
<1>3. CASE r.op = "update" /\ r.body \in Rows /\ Exists(t, r.id) /\ u # t
  <2>1. u = [t EXCEPT ![r.id] = r.body]
    BY <1>3 DEF Effects
  <2> QED
    BY <1>3, <2>1, ExistingIsRow DEF Tables, Evolves
<1>4. CASE r.op = "delete" /\ Exists(t, r.id) /\ u # t
  <2>1. u = [t EXCEPT ![r.id] = Deleted]
    BY <1>4 DEF Effects
  <2> QED
    BY <1>4, <2>1, ExistingIsRow DEF Tables, Evolves
<1> QED
  BY <1>1, <1>2, <1>3, <1>4 DEF Effects

(* The rows that an answer shows are rows of the table.                    *)
LEMMA ShownAreRows ==
  ASSUME NEW t \in Tables, NEW S \in SUBSET Ids
  PROVE  Shown(t, S) \in SUBSET (Ids \X Rows)
  BY ExistingIsRow DEF Shown

(* A handler that returns keeps the types and is no longer in progress.    *)
LEMMA ReturnKeeps ==
  ASSUME ApiInv, NEW c \in Clients, NEW err \in Errors,
         NEW shown \in SUBSET (Ids \X Rows), Return(c, err, shown),
         table' \in Tables, backend' = backend
  PROVE  ApiInv'
  BY DEF ApiInv, TypeOK, ProgressInv, Return, Tables

(* Every step keeps ApiInv, and changes the table as RowsEvolve says.      *)
LEMMA ApiStep == ApiInv /\ [Next]_vars => ApiInv' /\ Evolves(table, table')
<1> SUFFICES ASSUME ApiInv, [Next]_vars PROVE ApiInv' /\ Evolves(table, table')
  OBVIOUS
<1>0. table \in Tables
  BY DEF ApiInv, TypeOK, Tables
<1>a. table' = table => table' \in Tables /\ Evolves(table, table')
  BY <1>0 DEF Evolves
<1>b. {} \in SUBSET (Ids \X Rows)
  OBVIOUS
<1>1. CASE UNCHANGED vars
  BY <1>1, <1>a DEF vars, ApiInv, TypeOK, ProgressInv
<1>2. CASE Next
  <2> backend' = backend
    BY <1>2 DEF Next
  <2> SUFFICES ASSUME NEW c \in Clients,
                      \/ Request(c) \/ Refuse(c) \/ Create(c) \/ List(c) \/ Get(c)
                      \/ Find(c) \/ Replace(c) \/ Delete(c) \/ Fail(c) \/ Respond(c)
               PROVE  ApiInv' /\ Evolves(table, table')
    BY <1>2 DEF Next
  <2>0. pc[c] \in {"handling", "found"} => req[c] \in Requests
    BY DEF ApiInv, ProgressInv
  <2>1. CASE Request(c)
    BY <2>1, <1>a DEF Request, ApiInv, TypeOK, ProgressInv
  <2>2. CASE Refuse(c)
    BY <2>2, <1>a, <1>b, ReturnKeeps DEF Refuse, Errors
  <2>3. CASE Create(c)
    <3>1. PICK i \in Ids :
            /\ table[i] = Unborn
            /\ table' = [table EXCEPT ![i] = AsCreated(req[c].body)]
            /\ Return(c, "ok", {<<i, AsCreated(req[c].body)>>})
      BY <2>3 DEF Create
    <3>2. AsCreated(req[c].body) \in Rows /\ AsCreated(req[c].body).enabled
      BY <2>3, CreatedIsEnabled DEF Create
    <3>3. table' \in Tables /\ Evolves(table, table')
      BY <1>0, <3>1, <3>2 DEF Tables, Evolves
    <3>4. {<<i, AsCreated(req[c].body)>>} \in SUBSET (Ids \X Rows)
      BY <3>2
    <3>5. "ok" \in Errors
      BY DEF Errors
    <3> QED
      BY <3>1, <3>3, <3>4, <3>5, ReturnKeeps
  <2>4. CASE List(c)
    BY <2>4, <1>0, <1>a, ShownAreRows, ReturnKeeps DEF List, Errors
  <2>5. CASE Get(c)
    <3>1. Exists(table, req[c].id) => Shown(table, {req[c].id}) \in SUBSET (Ids \X Rows)
      BY <1>0, ExistingIsRow, ShownAreRows
    <3> QED
      BY <2>5, <3>1, <1>a, <1>b, ReturnKeeps DEF Get, LookupError, Errors
  <2>6. CASE Find(c)
    <3>1. CASE pc' = [pc EXCEPT ![c] = "found"]
      <4>1. /\ req[c] \in Requests /\ req[c].op = "update" /\ req[c].id \in Ids
            /\ req[c].body \notin {Garbage, Invalid}
            /\ UNCHANGED <<table, req, answer>>
        BY <2>0, <2>6, <3>1, <1>0, ExistingIsRow, TargetAssumption
           DEF Find, Handling, Return, ApiInv, TypeOK
      <4>2. req[c].body \in Rows
        BY <4>1 DEF Requests, Bodies
      <4> QED
        BY <3>1, <4>1, <4>2, <1>a DEF ApiInv, TypeOK, ProgressInv
    <3>2. CASE pc' # [pc EXCEPT ![c] = "found"]
      BY <2>6, <3>2, <1>a, <1>b, ReturnKeeps DEF Find, LookupError, Errors
    <3> QED
      BY <3>1, <3>2
  <2>7. CASE Replace(c)
    <3>1. req[c].body \in Rows /\ req[c].id \in Ids
      BY <2>7 DEF Replace, ApiInv, ProgressInv
    <3>2. CASE Exists(table, req[c].id)
      <4>1. table' \in Tables /\ Evolves(table, table')
        BY <2>7, <3>1, <3>2, <1>0, ExistingIsRow DEF Replace, Tables, Evolves
      <4>2. {<<req[c].id, req[c].body>>} \in SUBSET (Ids \X Rows)
        BY <3>1
      <4>3. Return(c, "ok", {<<req[c].id, req[c].body>>})
        BY <2>7, <3>2 DEF Replace
      <4>4. "ok" \in Errors
        BY DEF Errors
      <4> QED
        BY <4>1, <4>2, <4>3, <4>4, ReturnKeeps
    <3>3. CASE ~Exists(table, req[c].id)
      BY <2>7, <3>3, <1>a, <1>b, ReturnKeeps DEF Replace, Errors
    <3> QED
      BY <3>2, <3>3
  <2>8. CASE Delete(c)
    <3>1. CASE Exists(table, req[c].id)
      <4>1. table' \in Tables /\ Evolves(table, table')
        BY <2>8, <3>1, <1>0, ExistingIsRow DEF Delete, Tables, Evolves
      <4> QED
        BY <2>8, <3>1, <4>1, <1>b, ReturnKeeps DEF Delete, Errors
    <3>2. CASE ~Exists(table, req[c].id)
      BY <2>8, <3>2, <1>a, <1>b, ReturnKeeps DEF Delete, LookupError, Errors
    <3> QED
      BY <3>1, <3>2
  <2>9. CASE Fail(c)
    <3>1. req[c] \in Requests
      BY <2>0, <2>9 DEF Fail, Handling
    <3>2. table' \in {table} \cup Effects(table, req[c])
      BY <2>9 DEF Fail
    <3>3. table' \in Tables /\ Evolves(table, table')
      BY <1>0, <3>1, <3>2, EffectsEvolve
    <3> QED
      BY <2>9, <3>3, <1>b, ReturnKeeps DEF Fail, Errors
  <2>10. CASE Respond(c)
    BY <2>10, <1>a DEF Respond, ApiInv, TypeOK, ProgressInv
  <2> QED
    BY <2>1, <2>2, <2>3, <2>4, <2>5, <2>6, <2>7, <2>8, <2>9, <2>10
<1> QED
  BY <1>1, <1>2

(* No request is in progress initially.                                    *)
LEMMA ApiInit == Init => ApiInv
  BY DEF Init, ApiInv, TypeOK, ProgressInv

(* Module ApplicationProofs uses the whole invariant.                      *)
LEMMA ApiInvariant == Spec => []ApiInv
  BY ApiInit, ApiStep, PTL DEF Spec

(* The variables keep their types; no invalid target is ever stored.       *)
THEOREM TypeCorrect == Spec => []TypeOK
<1>1. ApiInv => TypeOK
  BY DEF ApiInv
<1> QED
  BY <1>1, ApiInvariant, PTL

(* No deleted row comes back, no ID is used twice, and a row appears only  *)
(* as an enabled target, however the requests interleave and fail.         *)
THEOREM RowsOnlyEvolve == Spec => RowsEvolve
<1>1. ApiInv /\ [Next]_vars =>
        [\A i \in Ids :
           \/ table'[i] = table[i]
           \/ table[i] = Unborn /\ table'[i] \in Rows /\ table'[i].enabled
           \/ table[i] \in Rows /\ table'[i] \in Rows \cup {Deleted}]_vars
  BY ApiStep DEF Evolves, ApiInv, TypeOK
<1> QED
  BY <1>1, ApiInit, ApiStep, PTL DEF Spec, RowsEvolve

-----------------------------------------------------------------------------
(* TargetApi implements TargetStore: each answer is given by the last      *)
(* repository call of its request, and that call is the moment at which    *)
(* the request takes effect.                                               *)

Phase == [k \in Clients |-> IF pc[k] \in {"handling", "found"} THEN "asked" ELSE pc[k]]

(* A handler that returns is a request that is answered.                   *)
LEMMA PhaseMoves ==
  ASSUME ApiInv, NEW c \in Clients, pc' = [pc EXCEPT ![c] = "answered"]
  PROVE  Phase' = [Phase EXCEPT ![c] = "answered"]
  BY DEF ApiInv, TypeOK, Phase

(* A handler at work is a request that was asked.                          *)
LEMMA HandlerIsAsked ==
  ASSUME NEW c \in Clients, pc[c] \in {"handling", "found"}, NEW ops, req[c].op \in ops
  PROVE  TS!Asked(c, ops)
  BY DEF TS!Asked

(* Every step is a step of TargetStore or changes nothing it shows.        *)
LEMMA RefinementStep == ApiInv /\ [Next]_vars => [TS!Next]_TS!vars
<1> SUFFICES ASSUME ApiInv, [Next]_vars PROVE [TS!Next]_TS!vars
  OBVIOUS
<1>1. CASE UNCHANGED vars
  BY <1>1 DEF vars, TS!vars
<1>2. CASE Next
  <2> SUFFICES ASSUME NEW c \in Clients,
                      \/ Request(c) \/ Refuse(c) \/ Create(c) \/ List(c) \/ Get(c)
                      \/ Find(c) \/ Replace(c) \/ Delete(c) \/ Fail(c) \/ Respond(c)
               PROVE  [TS!Next]_TS!vars
    BY <1>2 DEF Next
  <2>0. pc[c] = "found" => req[c].op = "update" /\ req[c].body \in Rows /\ req[c].id \in Ids
    BY DEF ApiInv, ProgressInv
  <2>a. pc' = [pc EXCEPT ![c] = "answered"] => Phase' = [Phase EXCEPT ![c] = "answered"]
    BY PhaseMoves
  <2> USE DEF Return, TS!Answer, Phase
  <2>1. CASE Request(c)
    <3>a. TS!Requests = Requests
      BY DEF TS!Requests, Requests, TS!Bodies, Bodies, TS!Rows, Rows
    <3>1. TS!Request(c)
      BY <2>1, <3>a DEF Request, ApiInv, TypeOK, TS!Request
    <3> QED
      BY <3>1 DEF TS!Next
  <2>2. CASE Refuse(c)
    <3>1. TS!Refuse(c)
      BY <2>2, <2>a, HandlerIsAsked DEF Refuse, Handling, TS!Refuse
    <3> QED
      BY <3>1 DEF TS!Next
  <2>3. CASE Create(c)
    <3>1. pc[c] = "handling" /\ req[c].op = "create" /\ req[c].body \in TS!Rows
      BY <2>3 DEF Create, Handling, Rows, TS!Rows
    <3>2. PICK i \in Ids :
            /\ table[i] = Unborn
            /\ table' = [table EXCEPT ![i] = TS!AsCreated(req[c].body)]
            /\ Return(c, "ok", {<<i, TS!AsCreated(req[c].body)>>})
      BY <2>3 DEF Create, AsCreated, TS!AsCreated
    <3>3. TS!Create(c)
      BY <3>1, <3>2, <2>a, HandlerIsAsked DEF TS!Create
    <3> QED
      BY <3>3 DEF TS!Next
  <2>4. CASE List(c)
    <3>1. Return(c, "ok", TS!Shown(table, Ids)) /\ UNCHANGED table
      BY <2>4 DEF List, Shown, TS!Shown, Exists, TS!Exists
    <3>2. TS!Read(c)
      BY <2>4, <3>1, <2>a, HandlerIsAsked DEF List, Handling, TS!Read
    <3> QED
      BY <3>2 DEF TS!Next
  <2>5. CASE Get(c)
    <3>1. TS!Asked(c, {"get"}) /\ TS!Asked(c, {"get", "update", "delete"})
      BY <2>5, HandlerIsAsked DEF Get, Handling
    <3>2. CASE Exists(table, req[c].id)
      <4>1. Return(c, "ok", TS!Shown(table, {req[c].id})) /\ UNCHANGED table
        BY <2>5, <3>2 DEF Get, Shown, TS!Shown, Exists, TS!Exists
      <4>2. TS!Read(c)
        BY <2>5, <3>1, <3>2, <4>1, <2>a DEF Get, Handling, Exists, TS!Exists, TS!Read
      <4> QED
        BY <4>2 DEF TS!Next
    <3>3. CASE ~Exists(table, req[c].id)
      <4>1. TS!Missing(c) \/ TS!Fail(c)
        BY <2>5, <3>1, <3>3, <2>a
           DEF Get, Handling, LookupError, Exists, TS!Exists, TS!Missing, TS!Fail, TS!Asked
      <4> QED
        BY <4>1 DEF TS!Next
    <3> QED
      BY <3>2, <3>3
  <2>6. CASE Find(c)
    <3>1. TS!Asked(c, {"create", "update"}) /\ TS!Asked(c, {"get", "update", "delete"})
      BY <2>6, HandlerIsAsked DEF Find, Handling
    <3>2. CASE /\ pc' = [pc EXCEPT ![c] = "found"]
               /\ UNCHANGED <<table, req, answer>>
      BY <2>6, <3>2 DEF Find, Handling, ApiInv, TypeOK, TS!vars
    <3>3. CASE ~Exists(table, req[c].id) /\ Return(c, LookupError(req[c].id), {})
      <4>1. TS!Missing(c) \/ TS!Fail(c)
        BY <2>6, <3>1, <3>3, <2>a
           DEF Find, Handling, LookupError, Exists, TS!Exists, TS!Missing, TS!Fail, TS!Asked
      <4> QED
        BY <4>1 DEF TS!Next
    <3>4. CASE req[c].body = Invalid /\ Return(c, "invalid", {})
      <4>1. TS!Refuse(c)
        BY <2>6, <3>1, <3>4, <2>a DEF Find, Handling, TS!Refuse
      <4> QED
        BY <4>1 DEF TS!Next
    <3> QED
      BY <2>6, <3>2, <3>3, <3>4 DEF Find
  <2>7. CASE Replace(c)
    <3>0. pc[c] = "found" /\ req[c].op = "update" /\ req[c].body \in TS!Rows
      BY <2>0, <2>7 DEF Replace, Rows, TS!Rows
    <3>1. TS!Asked(c, {"update"}) /\ TS!Asked(c, {"get", "update", "delete"})
      BY <3>0, HandlerIsAsked
    <3>2. TS!Update(c) \/ TS!Missing(c)
      BY <2>7, <3>0, <3>1, <2>a DEF Replace, Exists, TS!Exists, TS!Update, TS!Missing
    <3> QED
      BY <3>2 DEF TS!Next
  <2>8. CASE Delete(c)
    <3>1. TS!Asked(c, {"delete"}) /\ TS!Asked(c, {"get", "update", "delete"})
      BY <2>8, HandlerIsAsked DEF Delete, Handling
    <3>2. TS!Delete(c) \/ TS!Missing(c) \/ TS!Fail(c)
      BY <2>8, <3>1, <2>a
         DEF Delete, Handling, LookupError, Exists, TS!Exists, TS!Delete, TS!Missing,
             TS!Fail, TS!Asked
    <3> QED
      BY <3>2 DEF TS!Next
  <2>9. CASE Fail(c)
    <3>1. pc[c] \in {"handling", "found"} /\ Return(c, "failed", {})
      BY <2>9 DEF Fail, Handling
    <3>2. table' \in {table} \cup TS!Effects(table, req[c])
      BY <2>9 DEF Fail, Effects, TS!Effects, AsCreated, TS!AsCreated, Exists, TS!Exists,
                  Rows, TS!Rows
    <3>3. TS!Fail(c)
      BY <3>1, <3>2, <2>a DEF TS!Fail
    <3> QED
      BY <3>3 DEF TS!Next
  <2>10. CASE Respond(c)
    <3>1. TS!Reply(c)
      BY <2>10 DEF Respond, ApiInv, TypeOK, TS!Reply
    <3> QED
      BY <3>1 DEF TS!Next
  <2> QED
    BY <2>1, <2>2, <2>3, <2>4, <2>5, <2>6, <2>7, <2>8, <2>9, <2>10
<1> QED
  BY <1>1, <1>2

(* Requests are linearizable, whatever their number.                       *)
THEOREM ApiIsStore == Spec => Linearizable
<1>1. Init => TS!Init
  BY DEF Init, TS!Init
<1> QED
  BY <1>1, ApiInit, ApiStep, RefinementStep, PTL DEF Spec, Linearizable, TS!Spec
=============================================================================
