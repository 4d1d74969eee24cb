------------------------------- MODULE MCHub -------------------------------
(* Instances of ChaosHub for TLC. *)
EXTENDS ChaosHub
=============================================================================
