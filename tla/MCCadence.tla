----------------------------- MODULE MCCadence -----------------------------
(* A small instance of Cadence for TLC.                                    *)
EXTENDS Cadence
=============================================================================
