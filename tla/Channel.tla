------------------------------- MODULE Channel -------------------------------
(***************************************************************************)
(* What a Chaosnet connection promises its two users.  The User asks, the  *)
(* Server answers, and only then is the connection established for the     *)
(* User.  Each end's user puts items into a stream, and the other end's    *)
(* user takes them out: every item once, in the order they were put, none  *)
(* that was not put.                                                       *)
(***************************************************************************)
EXTENDS Naturals, Sequences

CONSTANTS User, Server, Item

VARIABLES
  phase,      \* phase[e]: how far end e is
  answered,   \* the Server has accepted
  stream,     \* stream[e]: what e's user has put, in order
  taken       \* taken[e]: what e's user has taken, in order

vars == <<phase, answered, stream, taken>>

End     == {User, Server}
Peer(e) == IF e = User THEN Server ELSE User

Init ==
  /\ phase = [e \in End |-> "idle"]
  /\ answered = FALSE
  /\ stream = [e \in End |-> <<>>]
  /\ taken = [e \in End |-> <<>>]

Enter(e, ph) == phase' = [phase EXCEPT ![e] = ph]

Ask ==
  /\ phase[User] = "idle"
  /\ Enter(User, "asking")
  /\ UNCHANGED <<answered, stream, taken>>

Answer ==
  /\ phase[Server] = "idle" /\ phase[User] # "idle"
  /\ Enter(Server, "open")
  /\ answered' = TRUE
  /\ UNCHANGED <<stream, taken>>

Establish ==
  /\ phase[User] = "asking" /\ answered
  /\ Enter(User, "open")
  /\ UNCHANGED <<answered, stream, taken>>

Put(e, x) ==
  /\ phase[e] = "open"
  /\ stream' = [stream EXCEPT ![e] = Append(@, x)]
  /\ UNCHANGED <<phase, answered, taken>>

Take(e) ==
  /\ phase[e] \in {"open", "done"}
  /\ Len(taken[e]) < Len(stream[Peer(e)])
  /\ taken' = [taken EXCEPT ![e] = Append(@, stream[Peer(e)][Len(@) + 1])]
  /\ UNCHANGED <<phase, answered, stream>>

(* Closed here, or learnt that the other end is. *)
Finish(e) ==
  /\ phase[e] # "done"
  /\ Enter(e, "done")
  /\ UNCHANGED <<answered, stream, taken>>

Next ==
  \/ Ask \/ Answer \/ Establish
  \/ \E e \in End : Take(e) \/ Finish(e) \/ \E x \in Item : Put(e, x)

Spec == Init /\ [][Next]_vars
=============================================================================
