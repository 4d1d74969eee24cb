--------------------------- MODULE MCPacketQueues ---------------------------
(* An instance of PacketQueues for TLC: the buffers are interchangeable.   *)
EXTENDS PacketQueues, TLC
Symmetry == Permutations(Buf)

(* Bound: packets written and stored together.  Four of the peer's, so     *)
(* that routorder holds three, or three of the user's, so that thead holds *)
(* three, come with one of the other's, and two with two.                  *)
Together == Cardinality(Written) * Cardinality(seen) <= 4
=============================================================================
