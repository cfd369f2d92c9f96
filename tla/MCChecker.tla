----------------------------- MODULE MCChecker -----------------------------
(* A small instance of Checker for TLC: the cfg file gives the sets as     *)
(* model values.                                                           *)
EXTENDS Checker
=============================================================================
