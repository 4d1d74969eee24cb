-------------------------------- MODULE Lan --------------------------------
(***************************************************************************)
(* What the hub stands for: one wire.  Packets appear on it one after the  *)
(* other, and a station that is attached hears every packet put on the     *)
(* wire since it was attached, once, in the order of the wire.             *)
(***************************************************************************)
EXTENDS Naturals, Sequences

CONSTANTS Tap, Packet     \* the places a station can be attached to the wire

VARIABLES
  wire,       \* every packet put on the wire, in order
  tap,        \* tap[t]: "free", "on" or "off"
  from,       \* from[t]: length of the wire when t was attached
  heard       \* heard[t]: what came out at t

vars == <<wire, tap, from, heard>>

Init ==
  /\ wire = <<>>
  /\ tap = [t \in Tap |-> "free"]
  /\ from = [t \in Tap |-> 0]
  /\ heard = [t \in Tap |-> <<>>]

Attach(t) ==
  /\ tap[t] = "free"
  /\ tap' = [tap EXCEPT ![t] = "on"]
  /\ from' = [from EXCEPT ![t] = Len(wire)]
  /\ UNCHANGED <<wire, heard>>

Talk(p) == wire' = Append(wire, p) /\ UNCHANGED <<tap, from, heard>>

Hear(t) ==
  LET n == from[t] + Len(heard[t]) + 1
  IN  /\ tap[t] = "on" /\ n <= Len(wire)
      /\ heard' = [heard EXCEPT ![t] = Append(@, wire[n])]
      /\ UNCHANGED <<wire, tap, from>>

(* A station may be gone before it was ever attached. *)
Detach(t) ==
  /\ tap[t] # "off"
  /\ tap' = [tap EXCEPT ![t] = "off"]
  /\ UNCHANGED <<wire, from, heard>>

Next == \/ \E p \in Packet : Talk(p)
        \/ \E t \in Tap : Attach(t) \/ Hear(t) \/ Detach(t)

Spec == Init /\ [][Next]_vars
=============================================================================
