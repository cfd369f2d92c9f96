--------------------------- MODULE MCApplication ---------------------------
(* A small instance of Application for TLC.  Requests are interchangeable. *)
EXTENDS Application, TLC

(* The requests that may change the table: a create, whose "enabled" is    *)
(* false and ignored, an update that disables, and a delete.  TargetApi's  *)
(* runs have the others.                                                   *)
Writes == {r \in Api!Requests :
             /\ r.id # Malformed
             /\ \/ r.op = "create" /\ r.body \in Api!Rows /\ ~r.body.enabled
                \/ r.op = "update" /\ r.body \in Api!Rows /\ ~r.body.enabled
                \/ r.op = "delete"}

Symmetry == Permutations(Clients)
=============================================================================
