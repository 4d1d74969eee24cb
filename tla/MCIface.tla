------------------------------ MODULE MCIface -------------------------------
(* Instances of ChaosIface for TLC. *)
EXTENDS ChaosIface

CONSTANTS me, other

(* Enable, enable and loop back, take the next packet, give it up, reset.  *)
Writes == {{"REN", "TEN"}, {"LUP", "REN"}, {"RCL"}, {"TCL"}, {"RST"}}
=============================================================================
