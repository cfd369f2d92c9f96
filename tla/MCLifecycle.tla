---------------------------- MODULE MCLifecycle ----------------------------
(* A small instance of Lifecycle for TLC: the cfg files give the sets as   *)
(* model values.                                                           *)
EXTENDS Lifecycle
=============================================================================
