------------------------------- MODULE MCConn -------------------------------
(* Instances of ChaosConn for TLC. *)
EXTENDS ChaosConn
MCBoth   == {User, Server}
MCServer == {Server}
MCUser   == {User}
MCNone   == {}
=============================================================================
