-------------------------- MODULE ChaosConnChannel --------------------------
(***************************************************************************)
(* What a step of ChaosConn may do to a connection structure, and what     *)
(* follows from it: the numbers of a connection only grow (Forward), the   *)
(* receiver never holds more than its window (BufferBounded), a captive    *)
(* server's queue never stalls, a connection nobody closes is not lost     *)
(* (HealthyStaysOpen), and the connection implements Channel.              *)
(***************************************************************************)
EXTENDS ChaosConnProofs, FiniteSetTheorems, SequenceTheorems

-----------------------------------------------------------------------------
(***************************************************************************)
(* The moves of one end.  r and t are its structure before and after the   *)
(* step, S and T what it has sent, g and h what its user was given.        *)
(***************************************************************************)
SameIn(r, t) ==
  /\ t.rread = r.rread /\ t.rlast = r.rlast /\ t.rhead = r.rhead
  /\ t.routorder = r.routorder /\ t.input = r.input

(* The sender half and what is acknowledged never go back. *)
Acks(r, t) ==
  /\ r.trecvd <= t.trecvd /\ r.tacked <= t.tacked
  /\ t.racked \in {r.racked, r.rread, t.rread}

Stays(r, t)   == t.state = r.state /\ SameIn(r, t)
Listens(r, t) == r.state = "NONE" /\ t.state = "LISTEN" /\ SameIn(r, t)
Matches(r, t) == /\ r.state \in {"NONE", "LISTEN"} /\ t.state = "RFCRCVD"
                 /\ t.rread = 1 /\ t.rlast = 1 /\ t.routorder = r.routorder

Establishes(e, r, t) ==
  /\ e = User /\ r.state = "RFCSENT" /\ t.state = "OPEN"
  /\ sent[Peer(e)] # <<>>
  /\ t.rread = 1 /\ t.rlast = 1
  /\ t.rhead = r.rhead /\ t.routorder = r.routorder

(* The k packets that follow what is in order, x the one that came in. *)
Delivers(e, r, t) ==
  /\ r.state = "OPEN" /\ t.state = "OPEN" /\ ~r.input /\ t.rread = r.rread
  /\ t.input = (e \in Captive /\ r.rhead = <<>>)
  /\ \E x \in Element(DataOps) : \E k \in Nat :
       /\ x.pkn = r.rlast + 1 /\ x.pkn <= r.rread + RwSize
       /\ k >= 1 /\ t.rlast = r.rlast + k
       /\ \A i \in 1 .. k : \E y \in (r.routorder \cup {x}) \ t.routorder :
            y.pkn = r.rlast + i
       /\ t.routorder \subseteq r.routorder \cup {x}
       /\ \A y \in t.routorder : y.pkn # r.rlast + k + 1

Keeps(r, t) ==
  /\ r.state = "OPEN" /\ t.state = "OPEN"
  /\ t.rread = r.rread /\ t.rlast = r.rlast /\ t.rhead = r.rhead /\ t.input = r.input
  /\ \E x \in Element(DataOps) :
       /\ r.rlast + 1 < x.pkn /\ x.pkn <= r.rread + RwSize
       /\ \A y \in r.routorder : y.pkn # x.pkn
       /\ t.routorder = r.routorder \cup {x}

Ends(r, t) ==
  /\ t.state \in Ended
  /\ t.rread = r.rread /\ t.rlast = r.rlast /\ t.routorder \subseteq r.routorder

Asks(e, r, t, S, T) ==
  /\ e = User /\ r.state = "NONE" /\ t.state = "RFCSENT" /\ SameIn(r, t)
  /\ T = Append(S, "RFC")

Accepts(e, r, t, S, T) ==
  /\ e = Server /\ r.state = "RFCRCVD" /\ t.state = "OPEN"
  /\ t.rread = r.rread /\ t.rlast = r.rlast
  /\ t.rhead = <<>> /\ t.routorder = r.routorder
  /\ T = Append(S, "OPN")

Writes(r, t, S, T) ==
  r.state = "OPEN" /\ Stays(r, t) /\ \E op \in DataOps : T = Append(S, op)

Reads(e, r, t, g, h) ==
  /\ r.rhead # <<>> /\ t.rhead = Tail(r.rhead)
  /\ t.state = r.state /\ t.rlast = r.rlast /\ t.routorder = r.routorder
  /\ t.rread = (IF Head(r.rhead).op \in ContOps THEN Head(r.rhead).pkn ELSE r.rread)
  /\ h = (IF Head(r.rhead).op \in DataOps THEN Append(g, Head(r.rhead).op) ELSE g)
  /\ (e \in Captive => r.input) /\ t.input = (r.input /\ t.rhead # <<>>)

Move(e, r, t, S, T, g, h) ==
  \/ /\ T = S /\ h = g
     /\ \/ Stays(r, t) \/ Listens(r, t) \/ Matches(r, t) \/ Establishes(e, r, t)
        \/ Delivers(e, r, t) \/ Keeps(r, t) \/ Ends(r, t)
  \/ /\ h = g
     /\ Asks(e, r, t, S, T) \/ Accepts(e, r, t, S, T) \/ Writes(r, t, S, T)
  \/ T = S /\ Reads(e, r, t, g, h)

(* A step moves one end and leaves the other alone. *)
Moves(e) ==
  /\ conn'[Peer(e)] = conn[Peer(e)] /\ sent'[Peer(e)] = sent[Peer(e)]
  /\ given'[Peer(e)] = given[Peer(e)]
  /\ Acks(conn[e], conn'[e])
  /\ Move(e, conn[e], conn'[e], sent[e], sent'[e], given[e], given'[e])

-----------------------------------------------------------------------------
(***************************************************************************)
(* What the operators do to the fields the moves speak of.                 *)
(***************************************************************************)
LEMMA Only ==
  ASSUME IInv, NEW e \in End, NEW t, conn' = [conn EXCEPT ![e] = t]
  PROVE  conn'[e] = t /\ conn'[Peer(e)] = conn[Peer(e)]
BY Peers DEF IInv, TypeOK

(* Reading the numbers as they are is the most common move. *)
LEMMA StayMove ==
  ASSUME IInv, NEW e \in End, NEW t, conn' = [conn EXCEPT ![e] = t],
         UNCHANGED <<sent, given>>, Stays(conn[e], t), Acks(conn[e], t)
  PROVE  Moves(e)
BY Only DEF Moves, Move

LEMMA SetAckFields ==
  ASSUME NEW r \in Connection
  PROVE  /\ Stays(r, SetAck(r)) /\ SetAck(r) \in Connection
         /\ SetAck(r).trecvd = r.trecvd /\ SetAck(r).tacked = r.tacked
         /\ SetAck(r).racked = r.rread /\ SetAck(r).fidx = r.fidx
         /\ SetAck(r).twsize = r.twsize
BY SetAckType DEF SetAck, Connection, Stays, SameIn

LEMMA ToldFields ==
  ASSUME NEW r \in Connection, NEW A
  PROVE  /\ Stays(r, Told(r, A)) /\ Told(r, A) \in Connection
         /\ Told(r, A).trecvd = r.trecvd /\ Told(r, A).tacked = r.tacked
         /\ Told(r, A).racked \in {r.racked, r.rread} /\ Told(r, A).fidx = r.fidx
         /\ Told(r, A).twsize = r.twsize
<1>1. CASE A = {}
  BY <1>1 DEF Told, Stays, SameIn
<1>2. CASE A # {}
  BY <1>2, SetAckFields DEF Told
<1> QED BY <1>1, <1>2

(* receipt() only moves the sender half, and forward. *)
LEMMA ReceiptMove ==
  ASSUME IInv, NEW e \in End, NEW r \in Connection, NEW a \in Num, NEW b \in Num,
         Sender(e, r, conn[Peer(e)], sent[e]),
         a <= conn[Peer(e)].rread, b <= conn[Peer(e)].rlast
  PROVE  /\ Receipt(r, a, b) \in Connection
         /\ Stays(r, Receipt(r, a, b)) /\ Receipt(r, a, b).racked = r.racked
         /\ r.trecvd <= Receipt(r, a, b).trecvd
         /\ r.tacked <= Receipt(r, a, b).tacked
         /\ Receipt(r, a, b).fidx = r.fidx /\ Receipt(r, a, b).twsize = r.twsize
<1> DEFINE s == conn[Peer(e)]
           S == sent[e]
           t == Receipt(r, a, b)
<1>1. /\ s \in Connection /\ S \in Seq(ContOps) /\ Len(S) <= MaxPkts
      /\ s.rread <= s.rlast /\ s.rlast <= Len(S)
  BY Facts
<1>2. Sender(e, r, s, S) /\ a <= s.rread /\ b <= s.rlast
  OBVIOUS
<1> HIDE DEF s, S
<1>3. r.trecvd <= t.trecvd /\ r.tacked <= t.tacked
  BY <1>1, <1>2, ReceiptSender
<1>4. t \in Connection
  BY ReceiptType
<1>5. /\ t.state = r.state /\ t.rlast = r.rlast /\ t.racked = r.racked
      /\ t.rread = r.rread /\ t.rhead = r.rhead /\ t.routorder = r.routorder
      /\ t.input = r.input /\ t.fidx = r.fidx /\ t.twsize = r.twsize
  BY ReceiptFields
<1> HIDE DEF t
<1> QED BY <1>3, <1>4, <1>5 DEF t, Stays, SameIn

LEMMA ReceiptedMove ==
  ASSUME IInv, NEW p \in net
  PROVE  /\ p.to \in End /\ Receipted(p) \in Connection
         /\ Stays(conn[p.to], Receipted(p)) /\ Receipted(p).racked = conn[p.to].racked
         /\ conn[p.to].trecvd <= Receipted(p).trecvd
         /\ conn[p.to].tacked <= Receipted(p).tacked
         /\ Receipted(p).fidx = conn[p.to].fidx
         /\ Receipted(p).twsize = conn[p.to].twsize
BY Incoming, Facts, ReceiptMove DEF Receipted

(* A transmitted packet is numbered and kept: the sender half only.        *)
LEMMA SentFields ==
  ASSUME NEW r \in Connection, NEW op
  PROVE  /\ Stays(r, Sent(r, op))
         /\ Sent(r, op).trecvd = r.trecvd /\ Sent(r, op).tacked = r.tacked
         /\ Sent(r, op).racked = r.rread /\ Sent(r, op).fidx = r.fidx
         /\ Sent(r, op).twsize = r.twsize
<1> DEFINE v == [r EXCEPT !.tlast = Succ(r.tlast), !.racked = r.rread]
           q == [op |-> op, pkn |-> Succ(r.tlast)]
           w == XmitDone(v, q)
<1>1. /\ v.state = r.state /\ v.rread = r.rread /\ v.rlast = r.rlast
      /\ v.rhead = r.rhead /\ v.routorder = r.routorder /\ v.input = r.input
      /\ v.trecvd = r.trecvd /\ v.tacked = r.tacked /\ v.racked = r.rread
      /\ v.fidx = r.fidx /\ v.twsize = r.twsize
  BY DEF Connection
<1>2. w = v \/ w = [v EXCEPT !.thead = @ \cup {q}]
  BY DEF XmitDone
<1>3. /\ w.state = v.state /\ w.rread = v.rread /\ w.rlast = v.rlast
      /\ w.rhead = v.rhead /\ w.routorder = v.routorder /\ w.input = v.input
      /\ w.trecvd = v.trecvd /\ w.tacked = v.tacked /\ w.racked = v.racked
      /\ w.fidx = v.fidx /\ w.twsize = v.twsize
  BY <1>2 DEF Connection
<1>4. Sent(r, op) = w
  BY DEF Sent
<1> HIDE DEF w, v
<1> QED BY <1>1, <1>3, <1>4 DEF Stays, SameIn

-----------------------------------------------------------------------------
(***************************************************************************)
(* Every action is a move.                                                 *)
(***************************************************************************)
LEMMA OpenMove ==
  ASSUME IInv, Open(User)
  PROVE  Moves(User)
<1> DEFINE r == conn[User]
           t == [r EXCEPT !.state = "RFCSENT"]
<1>1. User \in End /\ Peer(User) # User /\ r \in Connection
  BY Peers, Facts DEF End
<1>2. /\ r.state = "NONE" /\ Transmit(User, t, "RFC", {}) /\ UNCHANGED given
  BY DEF Open
<1>3. /\ t \in Connection /\ SameIn(r, t) /\ t.state = "RFCSENT"
      /\ t.trecvd = r.trecvd /\ t.tacked = r.tacked /\ t.racked = r.racked
  BY <1>1 DEF Connection, States, SameIn
<1> HIDE DEF t
<1>4. /\ conn' = [conn EXCEPT ![User] = Sent(t, "RFC")]
      /\ sent' = [sent EXCEPT ![User] = Append(@, "RFC")]
  BY <1>2 DEF Transmit, Sent
<1>5. /\ conn'[User] = Sent(t, "RFC") /\ conn'[Peer(User)] = conn[Peer(User)]
      /\ sent'[User] = Append(sent[User], "RFC")
      /\ sent'[Peer(User)] = sent[Peer(User)]
  BY <1>1, <1>4, Only DEF IInv, TypeOK
<1>6. /\ Stays(t, Sent(t, "RFC")) /\ Sent(t, "RFC").trecvd = t.trecvd
      /\ Sent(t, "RFC").tacked = t.tacked /\ Sent(t, "RFC").racked = t.rread
  BY <1>3, SentFields
<1>7. /\ SameIn(r, Sent(t, "RFC")) /\ Sent(t, "RFC").state = "RFCSENT"
      /\ Acks(r, Sent(t, "RFC"))
  <2>1. r.trecvd <= r.trecvd /\ r.tacked <= r.tacked
    BY <1>1, ConnNumbers
  <2> QED BY <1>3, <1>6, <2>1 DEF Stays, SameIn, Acks
<1> QED BY <1>2, <1>5, <1>7 DEF Moves, Move, Asks

LEMMA WriteMove ==
  ASSUME IInv, NEW e \in End, NEW op \in DataOps, Write(e, op)
  PROVE  Moves(e)
<1> DEFINE r == conn[e]
           w == Sent(r, op)
<1>1. Peer(e) # e /\ r \in Connection
  BY Peers, Facts
<1>2. /\ r.state = "OPEN" /\ Transmit(e, r, op, {}) /\ UNCHANGED given
  BY DEF Write
<1>3. /\ conn' = [conn EXCEPT ![e] = w]
      /\ sent' = [sent EXCEPT ![e] = Append(@, op)]
  BY <1>2 DEF Transmit, Sent
<1>4. /\ Stays(r, w) /\ w.trecvd = r.trecvd /\ w.tacked = r.tacked
      /\ w.racked = r.rread
  BY <1>1, SentFields
<1> HIDE DEF w
<1>5. /\ conn'[e] = w /\ conn'[Peer(e)] = conn[Peer(e)]
      /\ sent'[e] = Append(sent[e], op) /\ sent'[Peer(e)] = sent[Peer(e)]
  BY <1>1, <1>3, Only DEF IInv, TypeOK
<1>6. Acks(r, w)
  BY <1>1, <1>4, ConnNumbers DEF Acks
<1> QED BY <1>2, <1>4, <1>5, <1>6 DEF Moves, Move, Writes

(* ch_accept() reads the RFC, if its user has not, and nothing else. *)
LEMMA AcceptRead ==
  ASSUME IInv, conn[Server].state = "RFCRCVD",
         NEW c, c = (IF conn[Server].rhead # <<>> /\ Head(conn[Server].rhead).op = "RFC"
                     THEN ChRead(Server, conn[Server]).conn ELSE conn[Server])
  PROVE  /\ c \in Connection /\ c.rhead = <<>>
         /\ c.rread = conn[Server].rread /\ c.rlast = conn[Server].rlast
         /\ c.routorder = conn[Server].routorder /\ c.trecvd = conn[Server].trecvd
         /\ c.tacked = conn[Server].tacked /\ c.fidx = conn[Server].fidx
         /\ c.twsize = conn[Server].twsize
<1> DEFINE r == conn[Server]
<1>1. /\ Server \in End /\ r \in Connection /\ r.rhead \in Seq(Queued)
      /\ Receiver(Server, r, sent[Peer(Server)], given[Server])
  BY Facts, ConnNumbers DEF End
<1>2. r.rread = 1 /\ r.rlast = 1
  BY <1>1 DEF Receiver
<1>3. CASE r.rhead = <<>>
  BY <1>1, <1>3
<1>4. CASE r.rhead # <<>>
  <2>1. Len(r.rhead) >= 1 /\ Len(r.rhead) \in Nat /\ Head(r.rhead) = r.rhead[1]
    BY <1>1, <1>4
  <2>2. InPlace(r, sent[Peer(Server)], 1)
    BY <1>1, <2>1 DEF Receiver
  <2>3. r.rhead[1].op = "RFC" /\ r.rhead[1].pkn = 1 /\ Len(r.rhead) = 1
    BY <1>2, <2>2 DEF InPlace
  <2>4. Tail(r.rhead) = <<>>
    BY <1>1, <2>3, Single
  <2>5. c = ChRead(Server, r).conn
    BY <1>4, <2>1, <2>3
  <2> HIDE DEF r
  <2>6. c \in Connection /\ c.rhead = <<>> /\ c.rread = 1
    <3>1. c \in Connection
      BY <1>1, <1>4, <2>5, ChReadType
    <3>2. /\ c.rhead = Tail(r.rhead)
          /\ c.rread = (IF Head(r.rhead).op \in ContOps THEN Head(r.rhead).pkn
                       ELSE r.rread)
      BY <1>1, <1>4, <2>5, ChReadFields
    <3>3. Head(r.rhead).op \in ContOps /\ Head(r.rhead).pkn = 1
      BY <2>1, <2>3 DEF ContOps
    <3> QED BY <2>4, <3>1, <3>2, <3>3
  <2>7. /\ c.rlast = r.rlast /\ c.routorder = r.routorder /\ c.trecvd = r.trecvd
        /\ c.tacked = r.tacked /\ c.fidx = r.fidx /\ c.twsize = r.twsize
    BY <1>1, <1>4, <2>5, ChReadFields
  <2> QED BY <1>2, <2>6, <2>7 DEF r
<1> QED BY <1>3, <1>4

LEMMA AcceptMove ==
  ASSUME IInv, Accept(Server)
  PROVE  Moves(Server)
<1> DEFINE r == conn[Server]
           isRFC == r.rhead # <<>> /\ Head(r.rhead).op = "RFC"
           c == IF isRFC THEN ChRead(Server, r).conn ELSE r
           f == IF isRFC THEN ChRead(Server, r).sts ELSE {}
           t == [c EXCEPT !.state = "OPEN", !.tlast = 0]
           w == Sent(t, "OPN")
<1>1. Server \in End /\ Peer(Server) # Server /\ r \in Connection
  BY Peers, Facts DEF End
<1>2. /\ r.state = "RFCRCVD" /\ Transmit(Server, t, "OPN", f) /\ UNCHANGED given
  BY DEF Accept
<1>3. /\ c \in Connection /\ c.rhead = <<>> /\ c.rread = r.rread
      /\ c.rlast = r.rlast /\ c.routorder = r.routorder
      /\ c.trecvd = r.trecvd /\ c.tacked = r.tacked
  BY <1>2, AcceptRead
<1> HIDE DEF c, f
<1>4. /\ t \in Connection /\ t.state = "OPEN" /\ t.rhead = <<>>
      /\ t.rread = r.rread /\ t.rlast = r.rlast /\ t.routorder = r.routorder
      /\ t.trecvd = r.trecvd /\ t.tacked = r.tacked
  BY <1>3, NumFacts DEF Connection, States
<1> HIDE DEF t
<1>5. /\ conn' = [conn EXCEPT ![Server] = w]
      /\ sent' = [sent EXCEPT ![Server] = Append(@, "OPN")]
  BY <1>2 DEF Transmit, Sent
<1>6. /\ Stays(t, w) /\ w.trecvd = t.trecvd /\ w.tacked = t.tacked
      /\ w.racked = t.rread
  BY <1>4, SentFields
<1> HIDE DEF w
<1>7. /\ conn'[Server] = w /\ conn'[Peer(Server)] = conn[Peer(Server)]
      /\ sent'[Server] = Append(sent[Server], "OPN")
      /\ sent'[Peer(Server)] = sent[Peer(Server)]
  BY <1>1, <1>5, Only DEF IInv, TypeOK
<1>8. Acks(r, w)
  BY <1>1, <1>4, <1>6, ConnNumbers DEF Acks
<1>9. Accepts(Server, r, w, sent[Server], sent'[Server])
  BY <1>2, <1>4, <1>6, <1>7 DEF Accepts, Stays, SameIn
<1> QED BY <1>2, <1>7, <1>8, <1>9 DEF Moves, Move

LEMMA LsnMatchFields ==
  ASSUME NEW r \in Connection
  PROVE  /\ LsnMatch(r, 1).state = "RFCRCVD" /\ LsnMatch(r, 1).rread = 1
         /\ LsnMatch(r, 1).rlast = 1 /\ LsnMatch(r, 1).routorder = r.routorder
         /\ LsnMatch(r, 1).trecvd = r.trecvd /\ LsnMatch(r, 1).tacked = r.tacked
         /\ LsnMatch(r, 1).racked = r.racked /\ LsnMatch(r, 1).fidx
         /\ LsnMatch(r, 1).twsize = r.twsize
BY DEF LsnMatch, Connection

LEMMA MatchMove ==
  ASSUME IInv, NEW e \in End, conn[e].state \in {"NONE", "LISTEN"},
         conn' = [conn EXCEPT ![e] = LsnMatch(@, 1)], UNCHANGED <<sent, given>>
  PROVE  Moves(e)
<1>1. conn[e] \in Connection
  BY Facts
<1>2. /\ conn'[e] = LsnMatch(conn[e], 1) /\ conn'[Peer(e)] = conn[Peer(e)]
  BY Only
<1>3. Matches(conn[e], conn'[e])
  BY <1>1, <1>2, LsnMatchFields DEF Matches
<1>4. Acks(conn[e], conn'[e])
  BY <1>1, <1>2, LsnMatchFields, ConnNumbers DEF Acks
<1> QED BY <1>2, <1>3, <1>4 DEF Moves, Move

LEMMA ListenMove ==
  ASSUME IInv, Listen(Server)
  PROVE  Moves(Server)
<1>1. Server \in End /\ conn[Server] \in Connection
  BY Facts DEF End
<1>2. conn[Server].state = "NONE" /\ UNCHANGED <<sent, given>>
  BY DEF Listen
<1>3. CASE conn' = [conn EXCEPT ![Server] = LsnMatch(@, 1)]
  BY <1>1, <1>2, <1>3, MatchMove
<1>4. CASE conn' = [conn EXCEPT ![Server].state = "LISTEN"]
  <2> DEFINE r == conn[Server]
             t == [r EXCEPT !.state = "LISTEN"]
  <2>1. /\ SameIn(r, t) /\ t.state = "LISTEN" /\ t.trecvd = r.trecvd
        /\ t.tacked = r.tacked /\ t.racked = r.racked
    BY <1>1 DEF Connection, SameIn
  <2>2. conn' = [conn EXCEPT ![Server] = t]
    BY <1>4
  <2> HIDE DEF t
  <2>3. conn'[Server] = t /\ conn'[Peer(Server)] = conn[Peer(Server)]
    BY <1>1, <2>2, Only
  <2>4. Listens(r, t) /\ Acks(r, t)
    BY <1>1, <1>2, <2>1, ConnNumbers DEF Listens, Acks
  <2> QED BY <1>2, <2>3, <2>4 DEF Moves, Move
<1> QED BY <1>3, <1>4 DEF Listen

LEMMA ConsumeMove ==
  ASSUME IInv, NEW e \in End, Consume(e), e \in Captive => conn[e].input
  PROVE  Moves(e)
<1> DEFINE r == conn[e]
           c == ChRead(e, r).conn
           t == [c EXCEPT !.input = @ /\ c.rhead # <<>>]
           p == Head(r.rhead)
<1>1. /\ r \in Connection /\ r.rhead # <<>> /\ Peer(e) # e
  BY Facts, Peers DEF Consume
<1>2. conn' = [conn EXCEPT ![e] = t] /\ UNCHANGED sent
  BY DEF Consume
<1>3. /\ given'[e] = (IF p.op \in DataOps THEN Append(given[e], p.op) ELSE given[e])
      /\ given'[Peer(e)] = given[Peer(e)]
  BY <1>1 DEF Consume, IInv, TypeOK
<1>4. /\ c \in Connection /\ c.state = r.state /\ c.trecvd = r.trecvd
      /\ c.tacked = r.tacked /\ c.rlast = r.rlast /\ c.routorder = r.routorder
      /\ c.input = r.input /\ c.rhead = Tail(r.rhead)
      /\ c.rread = (IF p.op \in ContOps THEN p.pkn ELSE r.rread)
      /\ c.racked \in {r.racked, c.rread}
  BY <1>1, ChReadType, ChReadFields
<1> HIDE DEF c
<1>5. /\ t.state = c.state /\ t.trecvd = c.trecvd /\ t.tacked = c.tacked
      /\ t.rlast = c.rlast /\ t.routorder = c.routorder /\ t.rhead = c.rhead
      /\ t.rread = c.rread /\ t.racked = c.racked
  BY <1>4 DEF Connection
<1>6. t.input = (r.input /\ t.rhead # <<>>)
  <2>1. t.input = (c.input /\ c.rhead # <<>>)
    BY <1>4 DEF Connection
  <2> HIDE DEF t
  <2> QED BY <1>4, <1>5, <2>1
<1> HIDE DEF t, p
<1>7. conn'[e] = t /\ conn'[Peer(e)] = conn[Peer(e)]
  BY <1>2, Only
<1>8. Acks(r, t)
  BY <1>1, <1>4, <1>5, ConnNumbers DEF Acks
<1>9. Reads(e, r, t, given[e], given'[e])
  BY <1>1, <1>3, <1>4, <1>5, <1>6 DEF Reads, p
<1> QED BY <1>2, <1>3, <1>7, <1>8, <1>9 DEF Moves, Move

LEMMA ClsConnFields ==
  ASSUME NEW r \in Connection, NEW st, NEW last
  PROVE  /\ ClsConn(r, st, last).state = st
         /\ ClsConn(r, st, last).rread = r.rread /\ ClsConn(r, st, last).rlast = r.rlast
         /\ ClsConn(r, st, last).routorder = r.routorder
         /\ ClsConn(r, st, last).racked = r.racked
         /\ ClsConn(r, st, last).trecvd = r.trecvd
         /\ ClsConn(r, st, last).tacked = r.tacked
BY DEF ClsConn, Connection

LEMMA EndMove ==
  ASSUME IInv, NEW e \in End, NEW t, conn' = [conn EXCEPT ![e] = t],
         UNCHANGED <<sent, given>>, Ends(conn[e], t), Acks(conn[e], t)
  PROVE  Moves(e)
BY Only DEF Moves, Move

LEMMA ClsConnMove ==
  ASSUME IInv, NEW e \in End, NEW r \in Connection, Stays(conn[e], r),
         Acks(conn[e], r), NEW st \in Ended, NEW last,
         conn' = [conn EXCEPT ![e] = ClsConn(r, st, last)], UNCHANGED <<sent, given>>
  PROVE  Moves(e)
<1>1. Ends(conn[e], ClsConn(r, st, last)) /\ Acks(conn[e], ClsConn(r, st, last))
  BY ClsConnFields DEF Ends, Acks, Stays, SameIn
<1> QED BY <1>1, EndMove

LEMMA CloseMove ==
  ASSUME IInv, NEW e \in End, NEW release \in BOOLEAN, Close(e, release)
  PROVE  Moves(e)
<1> DEFINE r == conn[e]
           c == IF r.state \in {"OPEN", "RFCRCVD", "RFCSENT"}
                THEN ClsConn(r, "CLOSED", <<>>) ELSE r
           t == IF release THEN RlsConn(c) ELSE c
<1>1. r \in Connection /\ r.trecvd <= r.trecvd /\ r.tacked <= r.tacked
  BY Facts, ConnNumbers
<1>2. conn' = [conn EXCEPT ![e] = t] /\ UNCHANGED <<sent, given>>
  BY DEF Close
<1>3. /\ c.rread = r.rread /\ c.rlast = r.rlast /\ c.routorder = r.routorder
      /\ c.racked = r.racked /\ c.trecvd = r.trecvd /\ c.tacked = r.tacked
      /\ c.state = "CLOSED" \/ c = r
      /\ c \in Connection
  <2>1. CASE r.state \in {"OPEN", "RFCRCVD", "RFCSENT"}
    <3>1. c = ClsConn(r, "CLOSED", <<>>)
      BY <2>1
    <3>2. c.state = "CLOSED"
      BY <1>1, <3>1, ClsConnFields
    <3>3. <<>> \in Seq(Queued) /\ "CLOSED" \in States
      BY DEF States
    <3>4. c \in Connection
      BY <1>1, <3>1, <3>3, ClsConnType
    <3> QED BY <1>1, <3>1, <3>2, <3>4, ClsConnFields
  <2>2. CASE r.state \notin {"OPEN", "RFCRCVD", "RFCSENT"}
    BY <1>1, <2>2
  <2> QED BY <2>1, <2>2
<1> HIDE DEF c
<1>4. CASE release
  <2>1. /\ t.state = "GONE" /\ t.rread = c.rread /\ t.rlast = c.rlast
        /\ t.routorder = {} /\ t.racked = c.racked /\ t.trecvd = c.trecvd
        /\ t.tacked = c.tacked
    BY <1>3, <1>4 DEF RlsConn, Connection
  <2> HIDE DEF t
  <2>2. Ends(r, t) /\ Acks(r, t)
    BY <1>1, <1>3, <2>1 DEF Ends, Acks, Ended
  <2> QED BY <1>2, <2>2, EndMove
<1>5. CASE ~release /\ c.state = "CLOSED"
  <2>1. Ends(r, c) /\ Acks(r, c)
    BY <1>1, <1>3, <1>5 DEF Ends, Acks, Ended
  <2> QED BY <1>2, <1>5, <2>1, EndMove
<1>6. CASE ~release /\ c = r
  <2>1. Stays(r, r) /\ Acks(r, r)
    BY <1>1 DEF Stays, SameIn, Acks
  <2> QED BY <1>2, <1>6, <2>1, StayMove
<1> QED BY <1>3, <1>4, <1>5, <1>6

(* The steps of rcvpkt() and ch_clock() that only acknowledge and resend. *)
LEMMA AckMove ==
  ASSUME IInv, NEW e \in End, NEW r \in Connection, NEW A,
         Stays(conn[e], r), r.racked = conn[e].racked,
         conn[e].trecvd <= r.trecvd, conn[e].tacked <= r.tacked,
         UNCHANGED <<sent, given>>,
         \/ Set(e, r) \/ Set(e, SetAck(r)) \/ Set(e, Told(r, A))
         \/ Set(e, SetAck(Told(r, A)))
  PROVE  Moves(e)
<1>1. PICK t : conn' = [conn EXCEPT ![e] = t] /\ Stays(r, t)
               /\ t.trecvd = r.trecvd /\ t.tacked = r.tacked
               /\ t.racked \in {r.racked, r.rread}
  <2>1. CASE Set(e, r)
    BY <2>1 DEF Set, Stays, SameIn
  <2>2. CASE Set(e, SetAck(r))
    BY <2>2, SetAckFields DEF Set
  <2>3. CASE Set(e, Told(r, A))
    BY <2>3, ToldFields DEF Set
  <2>4. CASE Set(e, SetAck(Told(r, A)))
    <3> DEFINE v == Told(r, A)
    <3>1. /\ v \in Connection /\ Stays(r, v) /\ v.trecvd = r.trecvd
          /\ v.tacked = r.tacked
      BY ToldFields
    <3> HIDE DEF v
    <3>2. /\ Stays(v, SetAck(v)) /\ SetAck(v).trecvd = v.trecvd
          /\ SetAck(v).tacked = v.tacked /\ SetAck(v).racked = v.rread
      BY <3>1, SetAckFields
    <3>3. conn' = [conn EXCEPT ![e] = SetAck(v)]
      BY <2>4 DEF Set, v
    <3> QED BY <3>1, <3>2, <3>3 DEF Stays, SameIn
  <2> QED BY <2>1, <2>2, <2>3, <2>4
<1>2. Stays(conn[e], t) /\ Acks(conn[e], t)
  BY <1>1 DEF Stays, SameIn, Acks
<1> QED BY <1>1, <1>2, StayMove

LEMMA ClockMove ==
  ASSUME IInv, NEW e \in End, ChClock(e)
  PROVE  Moves(e)
<1>1. /\ conn[e] \in Connection /\ Stays(conn[e], conn[e])
      /\ conn[e].trecvd <= conn[e].trecvd /\ conn[e].tacked <= conn[e].tacked
  BY Facts, ConnNumbers DEF Stays, SameIn
<1>2. UNCHANGED <<sent, given>>
  BY DEF ChClock
<1>3. PICK A : \/ Set(e, Told(conn[e], A)) \/ Set(e, SetAck(Told(conn[e], A)))
               \/ Set(e, ClsConn(Told(conn[e], A), "INCT", <<>>))
  BY DEF ChClock
<1>4. CASE Set(e, ClsConn(Told(conn[e], A), "INCT", <<>>))
  <2>1. /\ Told(conn[e], A) \in Connection /\ Stays(conn[e], Told(conn[e], A))
        /\ Acks(conn[e], Told(conn[e], A))
    BY <1>1, ToldFields DEF Acks
  <2> QED BY <1>2, <1>4, <2>1, ClsConnMove DEF Set, Ended
<1> QED BY <1>1, <1>2, <1>3, <1>4, AckMove

LEMMA OPNMove ==
  ASSUME IInv, NEW p \in net, RcvOPN(p)
  PROVE  Moves(p.to)
<1> DEFINE e == p.to
           w == [conn[e] EXCEPT !.state = "OPEN", !.fidx = TRUE,
                                !.rread = p.pkn, !.rlast = p.pkn, !.twsize = p.rwsize]
           r == Receipt(w, p.ackn, p.ackn)
<1>1. /\ e \in End /\ conn[e] \in Connection /\ p.pkn \in Num /\ p.ackn \in Num
      /\ p.rwsize \in Num /\ p.rwsize <= RwSize
      /\ Sender(e, conn[e], conn[Peer(e)], sent[e])
      /\ Receiver(e, conn[e], sent[Peer(e)], given[e])
      /\ p.ackn <= conn[Peer(e)].rread /\ p.ackn <= conn[Peer(e)].rlast
  BY Incoming, Facts
<1>2. /\ conn[e].state = "RFCSENT" /\ p.op = "OPN" /\ Set(e, SetAck(r))
      /\ UNCHANGED <<sent, given>>
  BY DEF RcvOPN
<1>3. /\ e = User /\ p.pkn = 1 /\ sent[Peer(e)] # <<>>
  <2>1. p.pkn \in 1 .. Len(sent[Peer(e)]) /\ sent[Peer(e)][p.pkn] = "OPN"
    BY <1>2, Incoming DEF ContOps
  <2>2. Opening(Peer(e), sent[Peer(e)]) /\ sent[Peer(e)] \in Seq(ContOps)
    BY <1>1, Facts
  <2>3. Peer(e) = Server /\ p.pkn = 1
    BY <2>1, <2>2 DEF Opening
  <2>4. Len(sent[Peer(e)]) >= 1
    BY <2>1, <2>2
  <2>5. sent[Peer(e)] # <<>>
    BY <2>2, <2>4
  <2> QED BY <1>1, <2>3, <2>5, Peers DEF End, Peer
<1>4. /\ w \in Connection /\ w.state = "OPEN" /\ w.rread = 1 /\ w.rlast = 1
      /\ w.rhead = conn[e].rhead /\ w.routorder = conn[e].routorder
      /\ w.tlast = conn[e].tlast /\ w.trecvd = conn[e].trecvd
      /\ w.tacked = conn[e].tacked /\ w.thead = conn[e].thead /\ w.twsize = p.rwsize
      /\ w.racked = conn[e].racked
  BY <1>1, <1>3 DEF Connection, States
<1> HIDE DEF w
<1>5. Sender(e, w, conn[Peer(e)], sent[e])
  BY <1>1, <1>2, <1>4 DEF Sender
<1>6. /\ r \in Connection /\ Stays(w, r) /\ r.racked = w.racked
      /\ w.trecvd <= r.trecvd /\ w.tacked <= r.tacked
  BY <1>1, <1>4, <1>5, ReceiptMove
<1> HIDE DEF r
<1>7. /\ Stays(r, SetAck(r)) /\ SetAck(r).trecvd = r.trecvd
      /\ SetAck(r).tacked = r.tacked /\ SetAck(r).racked = r.rread
  BY <1>6, SetAckFields
<1>8. Establishes(e, conn[e], SetAck(r)) /\ Acks(conn[e], SetAck(r))
  BY <1>2, <1>3, <1>4, <1>6, <1>7 DEF Establishes, Acks, Stays, SameIn
<1>9. /\ conn'[e] = SetAck(r) /\ conn'[Peer(e)] = conn[Peer(e)]
  BY <1>1, <1>2, Only DEF Set
<1> QED BY <1>2, <1>8, <1>9 DEF Moves, Move

LEMMA STSMove ==
  ASSUME IInv, NEW p \in net, RcvSTS(p)
  PROVE  Moves(p.to)
<1> DEFINE e == p.to
           w == [conn[e] EXCEPT !.twsize = p.rwsize]
           r == Receipt(w, p.ackn, p.receipt)
<1>1. /\ e \in End /\ conn[e] \in Connection /\ p.ackn \in Num /\ p.receipt \in Num
      /\ p.rwsize \in Num /\ p.rwsize <= RwSize
      /\ Sender(e, conn[e], conn[Peer(e)], sent[e])
      /\ p.ackn <= conn[Peer(e)].rread /\ p.receipt <= conn[Peer(e)].rlast
  BY Incoming, Facts
<1>2. PICK A : Set(e, Told(r, A))
  BY DEF RcvSTS
<1>3. UNCHANGED <<sent, given>>
  BY DEF RcvSTS
<1>4. /\ w \in Connection /\ Stays(conn[e], w) /\ w.racked = conn[e].racked
      /\ w.trecvd = conn[e].trecvd /\ w.tacked = conn[e].tacked
      /\ w.tlast = conn[e].tlast /\ w.thead = conn[e].thead /\ w.twsize = p.rwsize
  BY <1>1 DEF Connection, Stays, SameIn
<1> HIDE DEF w
<1>5. Sender(e, w, conn[Peer(e)], sent[e])
  BY <1>1, <1>4 DEF Sender, Stays
<1>6. /\ r \in Connection /\ Stays(w, r) /\ r.racked = w.racked
      /\ w.trecvd <= r.trecvd /\ w.tacked <= r.tacked
  BY <1>1, <1>4, <1>5, ReceiptMove
<1> HIDE DEF r
<1>7. /\ Stays(conn[e], r) /\ r.racked = conn[e].racked
      /\ conn[e].trecvd <= r.trecvd /\ conn[e].tacked <= r.tacked
  BY <1>4, <1>6 DEF Stays, SameIn
<1> QED BY <1>1, <1>2, <1>3, <1>6, <1>7, AckMove

LEMMA RFCMove ==
  ASSUME IInv, NEW p \in net, RcvRFC(p)
  PROVE  Moves(p.to)
<1>1. /\ p.to \in End /\ conn[p.to] \in Connection /\ Waiting(p.to)
      /\ Opening(Peer(p.to), sent[Peer(p.to)])
  BY Incoming, Facts DEF IInv
<1>2. UNCHANGED <<sent, given>> /\ p.pkn = 1
  <2>1. /\ p.pkn \in 1 .. Len(sent[Peer(p.to)])
        /\ sent[Peer(p.to)][p.pkn] = "RFC"
    BY Incoming DEF RcvRFC, Await, ContOps
  <2> QED BY <1>1, <2>1 DEF Opening, RcvRFC, Await
<1>3. CASE lsn[p.to]
  <2>1. conn' = [conn EXCEPT ![p.to] = LsnMatch(conn[p.to], 1)]
    BY <1>2, <1>3 DEF RcvRFC, Await, Set
  <2>2. conn[p.to].state \in {"NONE", "LISTEN"}
    BY <1>1, <1>3 DEF Waiting
  <2> QED BY <1>1, <1>2, <2>1, <2>2, MatchMove
<1>4. CASE ~lsn[p.to]
  <2>1. UNCHANGED conn
    BY <1>4 DEF RcvRFC, Await
  <2>2. Stays(conn[p.to], conn[p.to]) /\ Acks(conn[p.to], conn[p.to])
    BY <1>1, ConnNumbers DEF Stays, SameIn, Acks
  <2> QED BY <1>1, <1>2, <2>1, <2>2 DEF Moves, Move
<1> QED BY <1>3, <1>4

(* The window test of rcvdata(), in the first half turn of the circle. *)
LEMMA Window ==
  ASSUME IInv, NEW p \in net, p.op \in DataOps, InWindow(p)
  PROVE  /\ p.pkn \in Nat /\ p.pkn <= conn[p.to].rread + RwSize
         /\ p.pkn <= Len(sent[Peer(p.to)])
         /\ [op |-> p.op, pkn |-> p.pkn] \in Element(DataOps)
<1> DEFINE r == conn[p.to]
<1>1. /\ p.to \in End /\ r \in Connection /\ Len(sent[Peer(p.to)]) <= MaxPkts
      /\ sent[Peer(p.to)] \in Seq(ContOps) /\ Len(sent[Peer(p.to)]) \in Nat
      /\ r.rread <= r.rlast /\ r.rlast <= Len(sent[Peer(p.to)])
  BY Incoming, Facts DEF Receiver
<1>2. p.pkn \in 1 .. Len(sent[Peer(p.to)]) /\ p.pkn \in Num
  BY Incoming DEF ContOps
<1>3. r.rread \in Nat /\ r.rlast \in Nat
  BY <1>1, ConnNumbers
<1> HIDE DEF r
<1>4. /\ p.pkn \in Nat /\ p.pkn <= MaxPkts + RwSize
      /\ r.rread + RwSize \in Nat /\ r.rread + RwSize <= MaxPkts + RwSize
  BY <1>1, <1>2, <1>3, Bounds
<1>5. cmp_le(p.pkn, r.rread + RwSize) <=> p.pkn <= r.rread + RwSize
  BY <1>4, Small, CompareLe
<1> QED BY <1>2, <1>4, <1>5 DEF InWindow, Element, r

LEMMA EarlyMove ==
  ASSUME IInv, NEW p \in net, RcvEarly(p)
  PROVE  Moves(p.to)
<1> DEFINE e == p.to
           r == Receipted(p)
           x == [op |-> p.op, pkn |-> p.pkn]
           t == [r EXCEPT !.routorder = @ \cup {x}]
<1>1. /\ e \in End /\ conn[e] \in Connection /\ r \in Connection
      /\ Stays(conn[e], r) /\ r.racked = conn[e].racked
      /\ conn[e].trecvd <= r.trecvd /\ conn[e].tacked <= r.tacked
  BY Facts, ReceiptedMove
<1>2. /\ p.op \in DataOps /\ InWindow(p) /\ conn[e].state = "OPEN"
      /\ ~cmp_le(p.pkn, r.rlast) /\ p.pkn # Succ(r.rlast)
      /\ \A q \in r.routorder : q.pkn # p.pkn
      /\ Set(e, t) /\ UNCHANGED <<sent, given>>
  BY DEF RcvEarly, InOpen
<1>3. /\ x.pkn \in Nat /\ x.pkn = p.pkn /\ x.pkn <= conn[e].rread + RwSize
      /\ x \in Element(DataOps) /\ p.pkn <= Len(sent[Peer(e)])
  BY <1>2, Window
<1> HIDE DEF r
<1>4. conn[e].rlast + 1 < x.pkn
  <2>1. /\ r.rlast = conn[e].rlast /\ r.rlast \in Nat
        /\ Len(sent[Peer(e)]) <= MaxPkts /\ sent[Peer(e)] \in Seq(ContOps)
        /\ r.rlast <= Len(sent[Peer(e)])
    BY <1>1, Facts, ConnNumbers DEF Stays, SameIn, Receiver
  <2>2. /\ p.pkn \in Nat /\ p.pkn <= MaxPkts + RwSize
        /\ r.rlast <= MaxPkts + RwSize
    BY <1>3, <2>1, Bounds
  <2>3. p.pkn > r.rlast
    BY <1>2, <2>1, <2>2, Small, CompareLe
  <2>4. r.rlast < MaxPkts
    BY <1>3, <2>1, <2>3, Bounds
  <2>5. p.pkn # r.rlast + 1
    BY <1>2, <2>1, <2>4, SmallSucc
  <2> QED BY <1>3, <2>1, <2>3, <2>5
<1>5. /\ t.state = r.state /\ t.rread = r.rread /\ t.rlast = r.rlast
      /\ t.rhead = r.rhead /\ t.input = r.input /\ t.trecvd = r.trecvd
      /\ t.tacked = r.tacked /\ t.racked = r.racked
      /\ t.routorder = r.routorder \cup {x}
  BY <1>1 DEF Connection
<1> HIDE DEF t, x
<1>6. Keeps(conn[e], t)
  BY <1>1, <1>2, <1>3, <1>4, <1>5 DEF Keeps, Stays, SameIn
<1>7. Acks(conn[e], t)
  BY <1>1, <1>5 DEF Acks
<1>8. conn'[e] = t /\ conn'[Peer(e)] = conn[Peer(e)]
  BY <1>1, <1>2, Only DEF Set
<1> QED BY <1>2, <1>6, <1>7, <1>8 DEF Moves, Move

LEMMA InOrderMove ==
  ASSUME IInv, NEW p \in net, RcvInOrder(p), ~conn[p.to].input
  PROVE  Moves(p.to)
<1> DEFINE e == p.to
           r == Receipted(p)
           x == [op |-> p.op, pkn |-> p.pkn]
           q == r.routorder \cup {x}
           P == sent[Peer(e)]
<1>1. /\ e \in End /\ conn[e] \in Connection /\ r \in Connection
      /\ Stays(conn[e], r) /\ r.racked = conn[e].racked
      /\ conn[e].trecvd <= r.trecvd /\ conn[e].tacked <= r.tacked
  BY Facts, ReceiptedMove
<1>2. /\ p.op \in DataOps /\ InWindow(p) /\ conn[e].state = "OPEN"
      /\ p.pkn = Succ(r.rlast) /\ UNCHANGED <<sent, given>>
  BY DEF RcvInOrder, InOpen
<1>a. PICK k \in 1 .. Cardinality(q) : \E run \in [1 .. k -> q] :
        /\ \A i \in 1 .. k : run[i].pkn = (r.rlast + i) % NumMod
        /\ \A y \in q : y.pkn # (r.rlast + k + 1) % NumMod
        /\ Set(e, Deliver(e, r, run, k, q))
  BY DEF RcvInOrder
<1>3. PICK run \in [1 .. k -> q] :
        /\ \A i \in 1 .. k : run[i].pkn = (r.rlast + i) % NumMod
        /\ \A y \in q : y.pkn # (r.rlast + k + 1) % NumMod
        /\ Set(e, Deliver(e, r, run, k, q))
  BY <1>a
<1> DEFINE rest == {y \in q : \A i \in 1 .. k : y # run[i]}
           t == Deliver(e, r, run, k, q)
<1>4. /\ x.pkn \in Nat /\ x.pkn = p.pkn /\ x.pkn <= conn[e].rread + RwSize
      /\ x \in Element(DataOps) /\ p.pkn <= Len(P)
  BY <1>2, Window
<1>5. /\ r.rlast = conn[e].rlast /\ r.rlast \in Nat /\ r.rread = conn[e].rread
      /\ P \in Seq(ContOps) /\ Len(P) <= MaxPkts /\ Len(P) \in Nat
      /\ r.rlast <= Len(P) /\ r.routorder = conn[e].routorder
      /\ \A y \in r.routorder : y.pkn \in 1 .. Len(P)
      /\ r.rhead = conn[e].rhead
  BY <1>1, Facts, ConnNumbers DEF Stays, SameIn, Receiver
<1>6. k \in Nat /\ k >= 1
  OBVIOUS
<1>7. p.pkn \in 1 .. Len(P)
  BY <1>2, Incoming DEF ContOps
<1>8. Known(q, P) /\ Consecutive(run, k, r.rlast)
  BY <1>3, <1>4, <1>5, <1>7 DEF Known, Consecutive
<1>9. \A i \in 1 .. k : run[i] \in q /\ run[i] \notin rest
  OBVIOUS
<1> HIDE DEF r, P, q, x
<1>10. /\ r.rlast + k <= Len(P)
       /\ (r.rlast + k) % NumMod = r.rlast + k
       /\ (r.rlast + k + 1) % NumMod = r.rlast + k + 1
       /\ \A i \in 1 .. k : run[i].pkn = r.rlast + i
  <2>1. P \in Seq(ContOps) /\ Len(P) <= MaxPkts /\ run \in [1 .. k -> q]
    BY <1>5
  <2>2. r.rlast \in Nat /\ r.rlast <= Len(P) /\ k \in Nat
    BY <1>5, <1>6
  <2> QED BY <1>8, <2>1, <2>2, RunNumbers
<1>11. x.pkn = r.rlast + 1
  <2>1. r.rlast < MaxPkts
    BY <1>5, <1>6, <1>10, Bounds
  <2> QED BY <1>2, <1>4, <1>5, <2>1, SmallSucc
<1>12. /\ t.state = r.state /\ t.rread = r.rread /\ t.rlast = r.rlast + k
       /\ t.trecvd = r.trecvd /\ t.tacked = r.tacked /\ t.racked = r.racked
       /\ t.routorder = rest
  BY <1>1, <1>10 DEF Connection, Deliver
<1>13. t.input = (e \in Captive /\ conn[e].rhead = <<>>)
  <2>1. t.input = (e \in Captive /\ r.rhead = <<>>)
    BY <1>1 DEF Connection, Deliver
  <2> HIDE DEF t
  <2> QED BY <1>5, <2>1
<1>14. rest \subseteq q /\ \A y \in rest : y.pkn # r.rlast + k + 1
  BY <1>3, <1>10
<1>15. \A i \in 1 .. k : \E y \in q \ rest : y.pkn = r.rlast + i
  BY <1>9, <1>10
<1> HIDE DEF t, rest
<1>16. conn'[e] = t /\ conn'[Peer(e)] = conn[Peer(e)]
  BY <1>1, <1>3, Only DEF Set, t
<1>17. \E y \in Element(DataOps) : \E n \in Nat :
         /\ y.pkn = conn[e].rlast + 1 /\ y.pkn <= conn[e].rread + RwSize
         /\ n >= 1 /\ t.rlast = conn[e].rlast + n
         /\ \A i \in 1 .. n : \E z \in (conn[e].routorder \cup {y}) \ t.routorder :
              z.pkn = conn[e].rlast + i
         /\ t.routorder \subseteq conn[e].routorder \cup {y}
         /\ \A z \in t.routorder : z.pkn # conn[e].rlast + n + 1
  <2>1. q = conn[e].routorder \cup {x}
    BY <1>5 DEF q
  <2>2. /\ x.pkn = conn[e].rlast + 1 /\ x.pkn <= conn[e].rread + RwSize
        /\ k >= 1 /\ t.rlast = conn[e].rlast + k
        /\ \A i \in 1 .. k : \E z \in q \ t.routorder : z.pkn = conn[e].rlast + i
        /\ t.routorder \subseteq q
        /\ \A z \in t.routorder : z.pkn # conn[e].rlast + k + 1
    BY <1>4, <1>5, <1>6, <1>11, <1>12, <1>14, <1>15
  <2> QED BY <1>4, <1>6, <2>1, <2>2, Zenon
<1>18. ~conn[e].input
  OBVIOUS
<1>19. Delivers(e, conn[e], t) /\ Acks(conn[e], t)
  <2>1. t.state = "OPEN" /\ t.rread = conn[e].rread
    BY <1>1, <1>2, <1>5, <1>12 DEF Stays
  <2>2. Delivers(e, conn[e], t)
    BY <1>2, <1>13, <1>17, <1>18, <2>1, Zenon DEF Delivers
  <2>3. Acks(conn[e], t)
    BY <1>1, <1>12 DEF Acks
  <2> QED BY <2>2, <2>3
<1> QED BY <1>2, <1>16, <1>19 DEF Moves, Move

LEMMA ReceiveMove ==
  ASSUME IInv, NEW p \in net, RcvPkt(p)
  PROVE  Moves(p.to)
<1> DEFINE e == p.to
<1>1. e \in End /\ conn[e] \in Connection
  BY Incoming, Facts
<1>2. /\ Stays(conn[e], conn[e]) /\ conn[e].racked = conn[e].racked
      /\ conn[e].trecvd <= conn[e].trecvd /\ conn[e].tacked <= conn[e].tacked
      /\ Acks(conn[e], conn[e])
  BY <1>1, ConnNumbers DEF Stays, SameIn, Acks
<1>3. CASE RcvDupRFC(p)
  <2>1. PICK A : Set(e, Told(conn[e], A))
    BY <1>3 DEF RcvDupRFC
  <2>2. UNCHANGED <<sent, given>>
    BY <1>3 DEF RcvDupRFC
  <2> QED BY <1>1, <1>2, <2>1, <2>2, AckMove
<1>4. CASE RcvForNone(p) \/ RcvBadReply(p) \/ RcvOutOfWindow(p) \/ RcvDupOPN(p)
  <2>1. UNCHANGED <<conn, sent, given>>
    BY <1>4 DEF RcvForNone, RcvBadReply, RcvOutOfWindow, RcvDupOPN
  <2> QED BY <1>1, <1>2, <2>1 DEF Moves, Move
<1>5. CASE RcvRefusal(p) \/ RcvEnd(p)
  <2>1. UNCHANGED <<sent, given>>
    BY <1>5 DEF RcvRefusal, RcvEnd
  <2>2. PICK st \in {"CLOSED", "LOST"} :
          Set(e, ClsConn(conn[e], st, <<[op |-> p.op, pkn |-> 0]>>))
    BY <1>5 DEF RcvRefusal, RcvEnd
  <2>3. st \in Ended
    BY DEF Ended
  <2> QED BY <1>1, <1>2, <2>1, <2>2, <2>3, ClsConnMove DEF Set
<1>6. CASE RcvDuplicate(p) \/ RcvSNS(p)
  <2>1. UNCHANGED <<sent, given>> /\ Set(e, SetAck(Receipted(p)))
    BY <1>6 DEF RcvDuplicate, RcvSNS
  <2> QED BY <1>1, <2>1, ReceiptedMove, AckMove
<1>7. CASE RcvInOrder(p)
  <2>1. ~conn[e].input
    BY DEF RcvPkt
  <2> QED BY <1>7, <2>1, InOrderMove
<1> QED BY <1>3, <1>4, <1>5, <1>6, <1>7, RFCMove, OPNMove, STSMove, EarlyMove
        DEF RcvPkt

LEMMA MoveStep ==
  ASSUME IInv, [Next]_vars
  PROVE  \E e \in End : Moves(e)
<1>1. CASE Open(User) \/ Listen(Server) \/ Accept(Server)
  BY <1>1, OpenMove, ListenMove, AcceptMove DEF End
<1>2. CASE \E e \in End : \E op \in DataOps : Write(e, op)
  BY <1>2, WriteMove
<1>3. CASE \E e \in End : ServerInput(e) \/ UserRead(e)
  BY <1>3, ConsumeMove DEF ServerInput, UserRead
<1>4. CASE \E e \in End : \E release \in BOOLEAN : Close(e, release)
  BY <1>4, CloseMove
<1>5. CASE \E e \in End : ChClock(e)
  BY <1>5, ClockMove
<1>6. CASE \E p \in net : RcvPkt(p)
  BY <1>6, ReceiveMove, Incoming
<1>7. CASE UNCHANGED <<conn, sent, given>>
  <2>1. User \in End /\ conn[User] \in Connection
    BY Facts DEF End
  <2>2. Stays(conn[User], conn[User]) /\ Acks(conn[User], conn[User])
    BY <2>1, ConnNumbers DEF Stays, SameIn, Acks
  <2> QED BY <1>7, <2>1, <2>2 DEF Moves, Move
<1> QED BY <1>1, <1>2, <1>3, <1>4, <1>5, <1>6, <1>7 DEF Next, Lose, vars

-----------------------------------------------------------------------------
(***************************************************************************)
(* The numbers only grow.                                                  *)
(***************************************************************************)
(* What is at the head of rhead: the next data packet, the RFC that was    *)
(* read when it was matched, or the last word of the connection.           *)
LEMMA HeadPlace ==
  ASSUME NEW e, NEW r \in Connection, NEW P, NEW g, Receiver(e, r, P, g),
         r.rhead # <<>>
  PROVE  LET p == Head(r.rhead)
         IN  /\ p \in Queued
             /\ p.op \in DataOps => /\ r.rread >= 1 /\ p.pkn = r.rread + 1
                                    /\ p.pkn <= r.rlast /\ p.op = P[p.pkn]
             /\ p.op \notin DataOps /\ p.op \in ContOps => p.pkn = r.rread
<1>1. r.rhead \in Seq(Queued) /\ Len(r.rhead) \in Nat /\ Len(r.rhead) >= 1
  BY ConnNumbers
<1>2. Head(r.rhead) = r.rhead[1] /\ r.rhead[1] \in Queued
  BY <1>1
<1>3. InPlace(r, P, 1)
  BY <1>1 DEF Receiver
<1>4. DataOps \cap EndOps = {} /\ "RFC" \notin DataOps \cup EndOps
      /\ ContOps \cap EndOps = {}
  BY DEF DataOps, EndOps, ContOps
<1> QED BY <1>2, <1>3, <1>4 DEF InPlace

LEMMA MoveGrows ==
  ASSUME NEW e, NEW r \in Connection, NEW t \in Connection, NEW S, NEW T, NEW P,
         NEW g, NEW h, Receiver(e, r, P, g), Move(e, r, t, S, T, g, h)
  PROVE  /\ r.rread <= t.rread /\ r.rlast <= t.rlast
         /\ r.state \in Ended => t.state \in Ended
<1>1. /\ r.rread \in Nat /\ r.rlast \in Nat /\ t.rread \in Nat /\ t.rlast \in Nat
      /\ r.rread <= r.rlast
  BY ConnNumbers DEF Receiver
<1>2. \A s \in {"NONE", "LISTEN", "RFCSENT", "RFCRCVD", "OPEN"} : s \notin Ended
  BY DEF Ended
<1>3. CASE Matches(r, t) \/ Establishes(e, r, t)
  <2>1. r.rlast = 0 /\ t.rread = 1 /\ t.rlast = 1 /\ r.state \notin Ended
    BY <1>2, <1>3 DEF Matches, Establishes, Receiver
  <2> QED BY <1>1, <2>1
<1>4. CASE Reads(e, r, t, g, h)
  <2>1. r.rread <= t.rread
    BY <1>1, <1>4, HeadPlace DEF Reads, ContOps
  <2> QED BY <1>1, <1>4, <2>1 DEF Reads
<1>5. CASE Delivers(e, r, t)
  <2>1. /\ r.state = "OPEN" /\ t.rread = r.rread
        /\ \E k \in Nat : t.rlast = r.rlast + k
    BY <1>5 DEF Delivers
  <2> QED BY <1>1, <1>2, <2>1
<1>6. CASE Ends(r, t) \/ Keeps(r, t) \/ Accepts(e, r, t, S, T)
  BY <1>1, <1>2, <1>6 DEF Ends, Keeps, Accepts
<1>7. CASE Stays(r, t) \/ Listens(r, t) \/ Asks(e, r, t, S, T) \/ Writes(r, t, S, T)
  BY <1>1, <1>2, <1>7 DEF Stays, Listens, Asks, Writes, SameIn
<1> QED BY <1>3, <1>4, <1>5, <1>6, <1>7 DEF Move

(* The numbers of a connection and its end are never taken back. *)
THEOREM MovesForward == Spec => Forward
<1>1. ASSUME IInv, IInv', [Next]_vars
      PROVE  \A e \in End :
               /\ conn[e].rread <= conn'[e].rread /\ conn[e].rlast <= conn'[e].rlast
               /\ conn[e].racked <= conn'[e].racked
               /\ conn[e].trecvd <= conn'[e].trecvd /\ conn[e].tacked <= conn'[e].tacked
               /\ conn[e].state \in Ended => conn'[e].state \in Ended
  <2>1. PICK m \in End : Moves(m)
    BY <1>1, MoveStep
  <2> SUFFICES ASSUME NEW e \in End
               PROVE  /\ conn[e].rread <= conn'[e].rread
                      /\ conn[e].rlast <= conn'[e].rlast
                      /\ conn[e].racked <= conn'[e].racked
                      /\ conn[e].trecvd <= conn'[e].trecvd
                      /\ conn[e].tacked <= conn'[e].tacked
                      /\ conn[e].state \in Ended => conn'[e].state \in Ended
    OBVIOUS
  <2> DEFINE r == conn[e]
             t == conn'[e]
  <2>2. /\ r \in Connection /\ Receiver(e, r, sent[Peer(e)], given[e])
        /\ r.racked <= r.rread
    BY <1>1, Facts DEF Receiver
  <2>3. t \in Connection
    BY <1>1 DEF IInv, TypeOK
  <2>4. /\ r.rread \in Nat /\ r.rlast \in Nat /\ r.racked \in Nat /\ r.trecvd \in Nat
        /\ r.tacked \in Nat /\ t.rread \in Nat /\ t.racked \in Nat
    BY <2>2, <2>3, ConnNumbers
  <2>5. CASE e = m
    <3>1. /\ Acks(r, t)
          /\ Move(e, r, t, sent[e], sent'[e], given[e], given'[e])
      BY <2>1, <2>5 DEF Moves
    <3> HIDE DEF r, t
    <3>2. /\ r.rread <= t.rread /\ r.rlast <= t.rlast
          /\ r.state \in Ended => t.state \in Ended
      BY <2>2, <2>3, <3>1, MoveGrows
    <3>3. /\ r.trecvd <= t.trecvd /\ r.tacked <= t.tacked
          /\ t.racked \in {r.racked, r.rread, t.rread}
      BY <3>1 DEF Acks
    <3>4. r.racked <= t.racked
      BY <2>2, <2>4, <3>2, <3>3
    <3> QED BY <3>2, <3>3, <3>4 DEF r, t
  <2>6. CASE e # m
    <3>1. e = Peer(m)
      BY <2>6, Peers
    <3> QED BY <2>1, <2>2, <2>4, <3>1, ConnNumbers DEF Moves
  <2> QED BY <2>5, <2>6
<1> QED BY <1>1, Invariance, PTL DEF Spec, Forward

-----------------------------------------------------------------------------
(***************************************************************************)
(* The room of the receiver.  Two more parts of the invariant: what is     *)
(* early lies past the gap and inside the window, one packet for each      *)
(* number; and an end that asked or opened has sent its first packet, a    *)
(* captive one is inside server_input() whenever it holds something.       *)
(***************************************************************************)
Room(r) ==
  /\ r.rlast <= r.rread + RwSize
  /\ \A q \in r.routorder : r.rlast + 1 < q.pkn /\ q.pkn <= r.rread + RwSize
  /\ \A q1, q2 \in r.routorder : q1.pkn = q2.pkn => q1 = q2
  /\ r.state \in {"NONE", "LISTEN", "RFCSENT", "RFCRCVD"} => r.routorder = {}

Ready(e, r, S) ==
  /\ r.state \in {"RFCSENT", "OPEN"} => S # <<>>
  /\ e \in Captive /\ r.state = "OPEN" /\ r.rhead # <<>> => r.input

RoomInv == \A e \in End : Room(conn[e]) /\ Ready(e, conn[e], sent[e])

(* The packets that become in order leave routorder: nothing behind the    *)
(* new gap stays on it.                                                    *)
LEMMA DeliversRoom ==
  ASSUME NEW e, NEW r \in Connection, NEW t \in Connection, Room(r),
         Delivers(e, r, t)
  PROVE  Room(t)
<1>1. /\ r.rread \in Nat /\ r.rlast \in Nat /\ t.rread \in Nat /\ t.rlast \in Nat
      /\ RwSize \in Nat /\ \A q \in r.routorder : q.pkn \in Nat
  BY ConnNumbers, Bounds, NumFacts DEF Connection, Element
<1>2. PICK x \in Element(DataOps) : \E k \in Nat :
        /\ x.pkn = r.rlast + 1 /\ x.pkn <= r.rread + RwSize
        /\ k >= 1 /\ t.rlast = r.rlast + k
        /\ \A i \in 1 .. k : \E y \in (r.routorder \cup {x}) \ t.routorder :
             y.pkn = r.rlast + i
        /\ t.routorder \subseteq r.routorder \cup {x}
        /\ \A y \in t.routorder : y.pkn # r.rlast + k + 1
  BY DEF Delivers
<1>3. PICK k \in Nat :
        /\ x.pkn = r.rlast + 1 /\ x.pkn <= r.rread + RwSize
        /\ k >= 1 /\ t.rlast = r.rlast + k
        /\ \A i \in 1 .. k : \E y \in (r.routorder \cup {x}) \ t.routorder :
             y.pkn = r.rlast + i
        /\ t.routorder \subseteq r.routorder \cup {x}
        /\ \A y \in t.routorder : y.pkn # r.rlast + k + 1
  BY <1>2
<1>4. t.rread = r.rread /\ t.state = "OPEN"
  BY DEF Delivers
<1>5. /\ \A y \in r.routorder \cup {x} : /\ r.rlast + 1 <= y.pkn
                                         /\ y.pkn <= r.rread + RwSize
                                         /\ y.pkn \in Nat
      /\ \A y, z \in r.routorder \cup {x} : y.pkn = z.pkn => y = z
  BY <1>1, <1>3 DEF Room
<1>6. t.rlast <= t.rread + RwSize
  <2>1. k \in 1 .. k
    BY <1>3
  <2>2. PICK y \in r.routorder \cup {x} : y.pkn = r.rlast + k
    BY <1>3, <2>1
  <2> QED BY <1>3, <1>4, <1>5, <2>2
<1>7. ASSUME NEW q \in t.routorder
      PROVE  t.rlast + 1 < q.pkn /\ q.pkn <= t.rread + RwSize
  <2>1. q \in r.routorder \cup {x}
    BY <1>3
  <2>2. q.pkn \in Nat /\ r.rlast + 1 <= q.pkn /\ q.pkn <= r.rread + RwSize
    BY <1>5, <2>1
  <2>3. ~(q.pkn <= r.rlast + k)
    <3> SUFFICES ASSUME q.pkn <= r.rlast + k PROVE FALSE
      OBVIOUS
    <3>1. q.pkn - r.rlast \in 1 .. k /\ q.pkn = r.rlast + (q.pkn - r.rlast)
      BY <1>1, <2>2
    <3>2. PICK y \in (r.routorder \cup {x}) \ t.routorder : y.pkn = q.pkn
      BY <1>3, <3>1
    <3>3. y = q
      BY <1>5, <2>1, <3>2
    <3> QED BY <3>2, <3>3
  <2>4. q.pkn # r.rlast + k + 1
    BY <1>3
  <2> QED BY <1>1, <1>3, <1>4, <2>2, <2>3, <2>4
<1>8. \A q1, q2 \in t.routorder : q1.pkn = q2.pkn => q1 = q2
  BY <1>3, <1>5
<1> QED BY <1>4, <1>6, <1>7, <1>8 DEF Room

LEMMA KeepsRoom ==
  ASSUME NEW r \in Connection, NEW t \in Connection, Room(r), Keeps(r, t)
  PROVE  Room(t)
<1>1. PICK x \in Element(DataOps) :
        /\ r.rlast + 1 < x.pkn /\ x.pkn <= r.rread + RwSize
        /\ \A y \in r.routorder : y.pkn # x.pkn
        /\ t.routorder = r.routorder \cup {x}
  BY DEF Keeps
<1>2. t.state = "OPEN" /\ t.rread = r.rread /\ t.rlast = r.rlast
  BY DEF Keeps
<1> QED BY <1>1, <1>2 DEF Room

LEMMA MoveRoom ==
  ASSUME NEW e, NEW r \in Connection, NEW t \in Connection, NEW S, NEW T, NEW P,
         NEW g, NEW h, Receiver(e, r, P, g), Move(e, r, t, S, T, g, h), Room(r)
  PROVE  Room(t)
<1>1. /\ r.rread \in Nat /\ r.rlast \in Nat /\ t.rread \in Nat /\ t.rlast \in Nat
      /\ RwSize \in Nat /\ \A q \in r.routorder : q.pkn \in Nat
  BY ConnNumbers, Bounds, NumFacts DEF Connection, Element
<1>2. r.rread <= t.rread
  BY MoveGrows
<1>3. CASE Stays(r, t) \/ Listens(r, t) \/ Asks(e, r, t, S, T) \/ Writes(r, t, S, T)
  BY <1>3 DEF Stays, Listens, Asks, Writes, SameIn, Room
<1>4. CASE Matches(r, t) \/ Establishes(e, r, t)
  <2>1. t.routorder = {} /\ t.rread = 1 /\ t.rlast = 1
    BY <1>4 DEF Matches, Establishes, Room
  <2> QED BY <1>1, <2>1 DEF Room
<1>5. CASE Ends(r, t)
  <2>1. \A s \in {"NONE", "LISTEN", "RFCSENT", "RFCRCVD"} : s \notin Ended
    BY DEF Ended
  <2> QED BY <1>5, <2>1 DEF Ends, Room
<1>6. CASE Accepts(e, r, t, S, T)
  BY <1>6 DEF Accepts, Room
<1>7. CASE Reads(e, r, t, g, h)
  <2>1. t.state = r.state /\ t.rlast = r.rlast /\ t.routorder = r.routorder
    BY <1>7 DEF Reads
  <2> QED BY <1>1, <1>2, <2>1 DEF Room
<1> QED BY <1>3, <1>4, <1>5, <1>6, <1>7, DeliversRoom, KeepsRoom DEF Move

LEMMA MoveReady ==
  ASSUME NEW e \in End, NEW r \in Connection, NEW t \in Connection,
         NEW S \in Seq(ContOps), NEW T, NEW P, NEW g, NEW h,
         Receiver(e, r, P, g), Move(e, r, t, S, T, g, h), Ready(e, r, S)
  PROVE  Ready(e, t, T)
<1>1. \A op \in ContOps : Append(S, op) # <<>>
  BY AppendProperties
<1>2. CASE Stays(r, t) /\ T = S
  BY <1>2 DEF Stays, SameIn, Ready
<1>3. CASE Listens(r, t) \/ Matches(r, t) \/ Ends(r, t)
  BY <1>3 DEF Listens, Matches, Ends, Ended, Ready
<1>4. CASE Establishes(e, r, t) /\ T = S
  BY <1>4 DEF Establishes, Receiver, Ready
<1>5. CASE Delivers(e, r, t) /\ T = S
  <2>1. /\ r.state = "OPEN" /\ ~r.input
        /\ t.input = (e \in Captive /\ r.rhead = <<>>)
    BY <1>5 DEF Delivers
  <2>2. e \in Captive => t.input
    BY <2>1 DEF Ready
  <2> QED BY <1>5, <2>1, <2>2 DEF Ready
<1>6. CASE Keeps(r, t) /\ T = S
  BY <1>6 DEF Keeps, Ready
<1>7. CASE Asks(e, r, t, S, T) \/ Accepts(e, r, t, S, T)
  BY <1>1, <1>7 DEF Asks, Accepts, Ready, ContOps
<1>8. CASE Writes(r, t, S, T)
  BY <1>1, <1>8 DEF Writes, Stays, SameIn, Ready, ContOps
<1>9. CASE Reads(e, r, t, g, h) /\ T = S
  <2>1. /\ t.state = r.state /\ (e \in Captive => r.input)
        /\ t.input = (r.input /\ t.rhead # <<>>)
    BY <1>9 DEF Reads
  <2>2. e \in Captive /\ t.rhead # <<>> => t.input
    BY <2>1
  <2> QED BY <1>9, <2>1, <2>2 DEF Ready
<1> QED BY <1>2, <1>3, <1>4, <1>5, <1>6, <1>7, <1>8, <1>9 DEF Move

LEMMA RoomStep == IInv /\ IInv' /\ [Next]_vars /\ RoomInv => RoomInv'
<1> SUFFICES ASSUME IInv, IInv', [Next]_vars, RoomInv, NEW e \in End
             PROVE  Room(conn'[e]) /\ Ready(e, conn'[e], sent'[e])
  BY DEF RoomInv
<1>1. PICK m \in End : Moves(m)
  BY MoveStep
<1>2. CASE e = m
  <2>1. /\ conn[e] \in Connection /\ Receiver(e, conn[e], sent[Peer(e)], given[e])
        /\ sent[e] \in Seq(ContOps) /\ conn'[e] \in Connection
    BY Facts DEF IInv, TypeOK
  <2>2. Move(e, conn[e], conn'[e], sent[e], sent'[e], given[e], given'[e])
    BY <1>1, <1>2 DEF Moves
  <2>3. Room(conn[e]) /\ Ready(e, conn[e], sent[e])
    BY DEF RoomInv
  <2>4. Room(conn'[e])
    BY <2>1, <2>2, <2>3, MoveRoom
  <2>5. Ready(e, conn'[e], sent'[e])
    BY <2>1, <2>2, <2>3, MoveReady
  <2> QED BY <2>4, <2>5
<1>3. CASE e # m
  <2>1. e = Peer(m)
    BY <1>3, Peers
  <2>2. conn'[e] = conn[e] /\ sent'[e] = sent[e]
    BY <1>1, <2>1 DEF Moves
  <2> QED BY <2>2 DEF RoomInv
<1> QED BY <1>2, <1>3

LEMMA RoomKept == Spec => []RoomInv
<1>1. Init => RoomInv
  <2> SUFFICES ASSUME Init, NEW e \in End
               PROVE  Room(conn[e]) /\ Ready(e, conn[e], sent[e])
    BY DEF RoomInv
  <2>1. conn[e] = Fresh
    BY DEF Init
  <2> QED BY <2>1, Bounds DEF Fresh, Room, Ready
<1> QED BY <1>1, RoomStep, Invariance, PTL DEF Spec

(* CaptiveNeverStalls: a captive server's queue is being read whenever     *)
(* there is something in it.                                               *)
THEOREM NeverStalls == Spec => []CaptiveNeverStalls
<1>1. RoomInv => CaptiveNeverStalls
  <2>1. Captive \subseteq End
    BY ConnAssumption DEF End
  <2> QED BY <2>1 DEF RoomInv, Ready, CaptiveNeverStalls
<1> QED BY <1>1, RoomKept, PTL


(* The data on rhead are numbered from rread on, one packet each; those on *)
(* routorder have different numbers past the gap.                          *)
LEMMA HeldData ==
  ASSUME NEW e, NEW r \in Connection, NEW P, NEW g, Receiver(e, r, P, g)
  PROVE  LET D == {i \in 1 .. Len(r.rhead) : r.rhead[i].op \in DataOps}
         IN  IsFiniteSet(D) /\ Cardinality(D) <= r.rlast - r.rread
<1> DEFINE D == {i \in 1 .. Len(r.rhead) : r.rhead[i].op \in DataOps}
           n == r.rlast - r.rread
<1>1. /\ r.rread \in Nat /\ r.rlast \in Nat /\ r.rread <= r.rlast
      /\ r.rhead \in Seq(Queued) /\ Len(r.rhead) \in Nat
  BY ConnNumbers DEF Receiver
<1>2. ASSUME NEW i \in D PROVE i \in 1 .. n
  <2>1. InPlace(r, P, i) /\ i \in Nat /\ i >= 1
    BY <1>1 DEF Receiver
  <2>2. r.rhead[i].op \in DataOps /\ r.rhead[i].op \notin EndOps \cup {"RFC"}
    BY DEF DataOps, EndOps
  <2>3. r.rread + i <= r.rlast
    BY <2>1, <2>2 DEF InPlace
  <2> QED BY <1>1, <2>1, <2>3
<1>3. n \in Nat /\ D \in SUBSET (1 .. n)
  BY <1>1, <1>2
<1> HIDE DEF D, n
<1>4. IsFiniteSet(1 .. n) /\ Cardinality(1 .. n) = n
  BY <1>3, FS_Interval
<1>5. IsFiniteSet(D) /\ Cardinality(D) <= n
  BY <1>3, <1>4, FS_Subset
<1> QED BY <1>5 DEF D, n

LEMMA EarlyData ==
  ASSUME NEW r \in Connection, Room(r), r.rread <= r.rlast
  PROVE  /\ IsFiniteSet(r.routorder) /\ Cardinality(r.routorder) \in Nat
         /\ Cardinality(r.routorder) + (r.rlast - r.rread) <= RwSize
<1> DEFINE Q == r.routorder
           a == r.rlast + 2
           b == r.rread + RwSize
           N == a .. b
           f == [q \in Q |-> q.pkn]
<1>1. /\ r.rread \in Nat /\ r.rlast \in Nat /\ RwSize \in Nat
      /\ \A q \in Q : q.pkn \in Nat
  BY ConnNumbers, Bounds, NumFacts DEF Connection, Element
<1>2. r.rlast <= r.rread + RwSize
  BY DEF Room
<1>3. f \in Injection(Q, N)
  <2>1. \A q \in Q : f[q] \in N
    BY <1>1 DEF Room
  <2>2. \A q1, q2 \in Q : f[q1] = f[q2] => q1 = q2
    BY DEF Room
  <2> QED BY <2>1, <2>2 DEF Injection, IsInjective
<1>4. a \in Int /\ b \in Int /\ a = r.rlast + 2 /\ b = r.rread + RwSize
  BY <1>1
<1> HIDE DEF a, b
<1>5. IsFiniteSet(N) /\ Cardinality(N) = (IF a > b THEN 0 ELSE b - a + 1)
  BY <1>4, FS_Interval
<1> HIDE DEF f, Q, N
<1>6. IsFiniteSet(Q) /\ Cardinality(Q) <= Cardinality(N)
  BY <1>3, <1>5, FS_Injection
<1>7. Cardinality(Q) \in Nat
  BY <1>6, FS_CardinalityType
<1>8. Cardinality(Q) + (r.rlast - r.rread) <= RwSize
  BY <1>1, <1>2, <1>4, <1>6, <1>7, <1>5
<1> QED BY <1>6, <1>7, <1>8 DEF Q

(* BufferBounded: what an end holds for its user, in order or not, is at   *)
(* most a window of different packets.                                     *)
THEOREM BuffersBounded == Spec => []BufferBounded
<1>1. IInv /\ RoomInv => BufferBounded
  <2> SUFFICES ASSUME IInv, RoomInv, NEW e \in End
               PROVE  LET r == conn[e]
                          D == {i \in 1 .. Len(r.rhead) : r.rhead[i].op \in DataOps}
                      IN  /\ Cardinality(D) + Cardinality(r.routorder) <= RwSize
                          /\ \A q \in r.routorder : r.rlast + 1 < q.pkn
                                                    /\ q.pkn <= r.rread + RwSize
                          /\ \A q1, q2 \in r.routorder : q1.pkn = q2.pkn => q1 = q2
    BY DEF BufferBounded
  <2> DEFINE r == conn[e]
             D == {i \in 1 .. Len(r.rhead) : r.rhead[i].op \in DataOps}
  <2>1. r \in Connection /\ Receiver(e, r, sent[Peer(e)], given[e])
    BY Facts
  <2>2. Room(r)
    BY DEF RoomInv
  <2>3. r.rread \in Nat /\ r.rlast \in Nat /\ r.rread <= r.rlast /\ RwSize \in Nat
    BY <2>1, ConnNumbers, Bounds DEF Receiver
  <2> HIDE DEF r
  <2>4. IsFiniteSet(D) /\ Cardinality(D) <= r.rlast - r.rread
    BY <2>1, HeldData
  <2>5. /\ Cardinality(r.routorder) \in Nat
        /\ Cardinality(r.routorder) + (r.rlast - r.rread) <= RwSize
    BY <2>1, <2>2, <2>3, EarlyData
  <2>6. Cardinality(D) \in Nat
    BY <2>4, FS_CardinalityType
  <2>7. Cardinality(D) + Cardinality(r.routorder) <= RwSize
    <3> HIDE DEF D
    <3> QED BY <2>3, <2>4, <2>5, <2>6
  <2> QED BY <2>2, <2>7 DEF Room, r
<1> QED BY <1>1, RoomKept, Invariance, PTL


-----------------------------------------------------------------------------
(***************************************************************************)
(* The connection implements Channel.                                      *)
(***************************************************************************)
(* Written() drops the first packet, the RFC or the OPN.                   *)
LEMMA WrittenFields ==
  ASSUME NEW T, NEW s \in Seq(T)
  PROVE  /\ Written(s) \in Seq(T) /\ Len(s) \in Nat
         /\ Len(Written(s)) = (IF Len(s) = 0 THEN 0 ELSE Len(s) - 1)
         /\ \A i \in 1 .. Len(s) - 1 : Written(s)[i] = s[i + 1]
<1>1. Len(s) \in Nat /\ \A i \in 2 .. Len(s) : s[i] \in T
  OBVIOUS
<1>2. /\ SubSeq(s, 2, Len(s)) \in Seq(T)
      /\ Len(SubSeq(s, 2, Len(s))) = (IF 2 <= Len(s) THEN Len(s) - 2 + 1 ELSE 0)
      /\ \A i \in 1 .. Len(s) - 2 + 1 : SubSeq(s, 2, Len(s))[i] = s[2 + i - 1]
  BY <1>1, SubSeqProperties
<1> QED BY <1>1, <1>2 DEF Written

LEMMA WrittenAppend ==
  ASSUME NEW T, NEW s \in Seq(T), NEW x \in T
  PROVE  /\ s = <<>> => Written(Append(s, x)) = Written(s)
         /\ s # <<>> => Written(Append(s, x)) = Append(Written(s), x)
<1> DEFINE a == Append(s, x)
           w == Written(s)
           v == Written(a)
<1>1. /\ a \in Seq(T) /\ Len(a) = Len(s) + 1 /\ Len(s) \in Nat
      /\ \A i \in 1 .. Len(s) : a[i] = s[i]
      /\ a[Len(s) + 1] = x
  BY AppendProperties
<1> HIDE DEF a
<1>2. /\ w \in Seq(T) /\ Len(w) = (IF Len(s) = 0 THEN 0 ELSE Len(s) - 1)
      /\ \A i \in 1 .. Len(s) - 1 : w[i] = s[i + 1]
  BY WrittenFields
<1>3. /\ v \in Seq(T) /\ Len(v) = Len(s)
      /\ \A i \in 1 .. Len(s) : v[i] = a[i + 1]
  BY <1>1, WrittenFields
<1> HIDE DEF w, v
<1>4. CASE s = <<>>
  <2>1. Len(s) = 0
    BY <1>4
  <2>2. v = w
    BY <1>2, <1>3, <2>1, SeqEqual
  <2> QED BY <1>4, <2>2 DEF v, w, a
<1>5. CASE s # <<>>
  <2>1. Len(s) >= 1
    BY <1>5
  <2>2. /\ Append(w, x) \in Seq(T) /\ Len(Append(w, x)) = Len(s)
        /\ \A i \in 1 .. Len(s) - 1 : Append(w, x)[i] = w[i]
        /\ Append(w, x)[Len(s)] = x
    BY <1>1, <1>2, <2>1, AppendProperties
  <2>3. \A i \in 1 .. Len(s) : v[i] = Append(w, x)[i]
    BY <1>1, <1>2, <1>3, <2>1, <2>2
  <2>4. v = Append(w, x)
    BY <1>3, <2>2, <2>3, SeqEqual
  <2> QED BY <1>5, <2>4 DEF v, w, a
<1> QED BY <1>4, <1>5

Phases  == [e \in End |-> Phase(conn[e])]
Streams == [e \in End |-> Written(sent[e])]
Answered == sent[Server] # <<>>

(* A function that is given the value it has at one point is as it was.    *)
LEMMA SameExcept ==
  ASSUME NEW D, NEW f, f = [x \in D |-> f[x]], NEW m \in D
  PROVE  [f EXCEPT ![m] = f[m]] = f
OBVIOUS

LEMMA MapsMove ==
  ASSUME IInv, IInv', NEW m \in End, Moves(m)
  PROVE  /\ Phases' = [Phases EXCEPT ![m] = Phase(conn'[m])]
         /\ Streams' = [Streams EXCEPT ![m] = Written(sent'[m])]
         /\ given' = [given EXCEPT ![m] = given'[m]]
         /\ sent' = [sent EXCEPT ![m] = sent'[m]]
<1>1. /\ conn'[Peer(m)] = conn[Peer(m)] /\ sent'[Peer(m)] = sent[Peer(m)]
      /\ given'[Peer(m)] = given[Peer(m)]
  BY DEF Moves
<1>2. \A e \in End : e = m \/ e = Peer(m)
  BY Peers
<1>3. /\ sent \in [End -> Seq(ContOps)] /\ given \in [End -> Seq(DataOps)]
      /\ sent' \in [End -> Seq(ContOps)] /\ given' \in [End -> Seq(DataOps)]
  BY DEF IInv, TypeOK
<1>4. Phases' = [Phases EXCEPT ![m] = Phase(conn'[m])]
  <2>1. \A e \in End : Phases'[e] = Phase(conn'[e]) /\ Phases[e] = Phase(conn[e])
    BY DEF Phases
  <2>2. /\ Phases' = [e \in End |-> Phases'[e]]
        /\ Phases = [e \in End |-> Phases[e]]
    BY DEF Phases
  <2> QED BY <1>1, <1>2, <2>1, <2>2
<1>5. Streams' = [Streams EXCEPT ![m] = Written(sent'[m])]
  <2>1. \A e \in End : /\ Streams'[e] = Written(sent'[e])
                       /\ Streams[e] = Written(sent[e])
    BY DEF Streams
  <2>2. /\ Streams' = [e \in End |-> Streams'[e]]
        /\ Streams = [e \in End |-> Streams[e]]
    BY DEF Streams
  <2> QED BY <1>1, <1>2, <2>1, <2>2
<1>6. given' = [given EXCEPT ![m] = given'[m]] /\ sent' = [sent EXCEPT ![m] = sent'[m]]
  BY <1>1, <1>2, <1>3
<1> QED BY <1>4, <1>5, <1>6

LEMMA PhaseOf ==
  ASSUME NEW r
  PROVE  /\ r.state \in {"NONE", "LISTEN", "RFCRCVD"} => Phase(r) = "idle"
         /\ r.state = "RFCSENT" => Phase(r) = "asking"
         /\ r.state = "OPEN" => Phase(r) = "open"
         /\ r.state \in Ended => Phase(r) = "done"
BY DEF Phase, Ended

(* Nothing the users see. *)
LEMMA SilentMove ==
  ASSUME IInv, IInv', NEW m \in End, Moves(m), sent'[m] = sent[m],
         given'[m] = given[m], Phase(conn'[m]) = Phase(conn[m])
  PROVE  UNCHANGED <<Phases, Answered, Streams, given>>
<1>1. /\ Phases' = [Phases EXCEPT ![m] = Phases[m]]
      /\ Streams' = [Streams EXCEPT ![m] = Streams[m]]
      /\ given' = [given EXCEPT ![m] = given[m]]
      /\ sent' = [sent EXCEPT ![m] = sent[m]]
  BY MapsMove DEF Phases, Streams
<1>2. Phases' = Phases /\ Streams' = Streams
  BY <1>1 DEF Phases, Streams
<1>3. given' = given /\ sent' = sent
  BY <1>1 DEF IInv, TypeOK
<1> QED BY <1>2, <1>3 DEF Answered

(* The data packet at the head of rhead is the next item of the stream. *)
LEMMA HeadItem ==
  ASSUME IInv, NEW m \in End, conn[m].rhead # <<>>, Head(conn[m].rhead).op \in DataOps
  PROVE  /\ Phase(conn[m]) \in {"open", "done"}
         /\ Len(given[m]) < Len(Streams[Peer(m)])
         /\ Streams[Peer(m)][Len(given[m]) + 1] = Head(conn[m].rhead).op
<1> DEFINE r == conn[m]
           P == sent[Peer(m)]
           g == given[m]
           p == Head(r.rhead)
<1>1. /\ r \in Connection /\ Receiver(m, r, P, g) /\ P \in Seq(ContOps)
  BY Facts, Peers DEF IInv, TypeOK
<1>2. Streams[Peer(m)] = Written(P)
  BY Peers DEF Streams
<1>3. r.rread \in Nat /\ r.rlast \in Nat /\ r.rlast <= Len(P) /\ Len(P) \in Nat
  BY <1>1, ConnNumbers DEF Receiver
<1> HIDE DEF P, g, r
<1>4. r.rread >= 1 /\ r.rread + 1 <= r.rlast /\ p.op = P[r.rread + 1]
  <2>1. r.rhead # <<>> /\ Head(r.rhead).op \in DataOps
    BY DEF r
  <2> QED BY <1>1, <2>1, HeadPlace
<1>5. Len(g) = r.rread - 1
  BY <1>1, <1>3, <1>4 DEF Receiver
<1>6. /\ Len(Written(P)) = Len(P) - 1
      /\ \A i \in 1 .. Len(P) - 1 : Written(P)[i] = P[i + 1]
  BY <1>1, <1>3, <1>4, WrittenFields
<1>7. Len(g) < Len(Written(P)) /\ Written(P)[Len(g) + 1] = P[r.rread + 1]
  BY <1>3, <1>4, <1>5, <1>6
<1>8. Phase(r) \in {"open", "done"}
  <2>1. r.state \notin {"NONE", "LISTEN", "RFCSENT", "RFCRCVD"}
    BY <1>1, <1>3, <1>4 DEF Receiver
  <2> QED BY <2>1 DEF Phase
<1> QED BY <1>2, <1>4, <1>7, <1>8 DEF r, P, g


(* Channel's actions, on the connection's state. *)
LEMMA ChannelActions ==
  /\ Ch!Init <=> /\ Phases = [e \in End |-> "idle"] /\ Answered = FALSE
                 /\ Streams = [e \in End |-> <<>>] /\ given = [e \in End |-> <<>>]
  /\ UNCHANGED Ch!vars <=> UNCHANGED <<Phases, Answered, Streams, given>>
  /\ Ch!Ask <=> /\ Phases[User] = "idle"
                /\ Phases' = [Phases EXCEPT ![User] = "asking"]
                /\ UNCHANGED <<Answered, Streams, given>>
  /\ Ch!Answer <=> /\ Phases[Server] = "idle" /\ Phases[User] # "idle"
                   /\ Phases' = [Phases EXCEPT ![Server] = "open"]
                   /\ Answered' = TRUE
                   /\ UNCHANGED <<Streams, given>>
  /\ Ch!Establish <=> /\ Phases[User] = "asking" /\ Answered
                      /\ Phases' = [Phases EXCEPT ![User] = "open"]
                      /\ UNCHANGED <<Answered, Streams, given>>
  /\ \A e \in End : \A x \in DataOps :
       Ch!Put(e, x) <=> /\ Phases[e] = "open"
                        /\ Streams' = [Streams EXCEPT ![e] = Append(@, x)]
                        /\ UNCHANGED <<Phases, Answered, given>>
  /\ \A e \in End :
       Ch!Take(e) <=> /\ Phases[e] \in {"open", "done"}
                      /\ Len(given[e]) < Len(Streams[Peer(e)])
                      /\ given' = [given EXCEPT ![e] =
                                     Append(@, Streams[Peer(e)][Len(@) + 1])]
                      /\ UNCHANGED <<Phases, Answered, Streams>>
  /\ \A e \in End :
       Ch!Finish(e) <=> /\ Phases[e] # "done"
                        /\ Phases' = [Phases EXCEPT ![e] = "done"]
                        /\ UNCHANGED <<Answered, Streams, given>>
  /\ Ch!Next <=> \/ Ch!Ask \/ Ch!Answer \/ Ch!Establish
                 \/ \E e \in End : \/ Ch!Take(e) \/ Ch!Finish(e)
                                   \/ \E x \in DataOps : Ch!Put(e, x)
<1>1. Ch!End = End /\ \A e : Ch!Peer(e) = Peer(e)
  BY DEF Ch!End, End, Ch!Peer, Peer
<1>2. UNCHANGED Ch!vars <=> UNCHANGED <<Phases, Answered, Streams, given>>
  BY DEF Ch!vars, Phases, Answered, Streams
<1>3. Ch!Init <=> /\ Phases = [e \in End |-> "idle"] /\ Answered = FALSE
                  /\ Streams = [e \in End |-> <<>>] /\ given = [e \in End |-> <<>>]
  BY <1>1, Zenon DEF Ch!Init, Phases, Answered, Streams
<1>4. Ch!Ask <=> /\ Phases[User] = "idle"
                 /\ Phases' = [Phases EXCEPT ![User] = "asking"]
                 /\ UNCHANGED <<Answered, Streams, given>>
  BY Zenon DEF Ch!Ask, Ch!Enter, Phases, Answered, Streams
<1>5. Ch!Answer <=> /\ Phases[Server] = "idle" /\ Phases[User] # "idle"
                    /\ Phases' = [Phases EXCEPT ![Server] = "open"]
                    /\ Answered' = TRUE
                    /\ UNCHANGED <<Streams, given>>
  BY Zenon DEF Ch!Answer, Ch!Enter, Phases, Answered, Streams
<1>6. Ch!Establish <=> /\ Phases[User] = "asking" /\ Answered
                       /\ Phases' = [Phases EXCEPT ![User] = "open"]
                       /\ UNCHANGED <<Answered, Streams, given>>
  BY Zenon DEF Ch!Establish, Ch!Enter, Phases, Answered, Streams
<1>7. ASSUME NEW e \in End, NEW x \in DataOps
      PROVE  Ch!Put(e, x) <=> /\ Phases[e] = "open"
                              /\ Streams' = [Streams EXCEPT ![e] = Append(@, x)]
                              /\ UNCHANGED <<Phases, Answered, given>>
  BY Zenon DEF Ch!Put, Phases, Answered, Streams
<1>8. ASSUME NEW e \in End
      PROVE  Ch!Take(e) <=> /\ Phases[e] \in {"open", "done"}
                            /\ Len(given[e]) < Len(Streams[Peer(e)])
                            /\ given' = [given EXCEPT ![e] =
                                           Append(@, Streams[Peer(e)][Len(@) + 1])]
                            /\ UNCHANGED <<Phases, Answered, Streams>>
  BY <1>1, Zenon DEF Ch!Take, Phases, Answered, Streams
<1>9. ASSUME NEW e \in End
      PROVE  Ch!Finish(e) <=> /\ Phases[e] # "done"
                              /\ Phases' = [Phases EXCEPT ![e] = "done"]
                              /\ UNCHANGED <<Answered, Streams, given>>
  BY Zenon DEF Ch!Finish, Ch!Enter, Phases, Answered, Streams
<1>10. Ch!Next <=> \/ Ch!Ask \/ Ch!Answer \/ Ch!Establish
                   \/ \E e \in End : \/ Ch!Take(e) \/ Ch!Finish(e)
                                     \/ \E x \in DataOps : Ch!Put(e, x)
  BY <1>1, Zenon DEF Ch!Next
<1> QED BY <1>2, <1>3, <1>4, <1>5, <1>6, <1>7, <1>8, <1>9, <1>10, Zenon


(* The first packet of an end is its RFC or OPN: a later one is an item.   *)
LEMMA AskChannel ==
  ASSUME IInv, IInv', NEW m \in End, Moves(m), given'[m] = given[m],
         Asks(m, conn[m], conn'[m], sent[m], sent'[m])
  PROVE  Ch!Ask
<1>1. /\ m = User /\ conn[m].state = "NONE" /\ conn'[m].state = "RFCSENT"
      /\ sent'[m] = Append(sent[m], "RFC")
  BY DEF Asks
<1>2. sent[m] = <<>> /\ sent[m] \in Seq(ContOps)
  BY <1>1 DEF IInv, TypeOK, Sender
<1>3. Written(sent'[m]) = Written(sent[m])
  <2>1. "RFC" \in ContOps
    BY DEF ContOps
  <2>2. Written(Append(sent[m], "RFC")) = Written(sent[m])
    BY <1>2, <2>1, WrittenAppend
  <2> QED BY <1>1, <2>2
<1>4. /\ Phases[User] = "idle"
      /\ Phases' = [Phases EXCEPT ![User] = "asking"]
  BY <1>1, MapsMove, PhaseOf DEF Phases
<1>5. UNCHANGED <<Streams, given>>
  <2>1. /\ Streams' = [Streams EXCEPT ![m] = Streams[m]]
        /\ given' = [given EXCEPT ![m] = given[m]]
    BY <1>3, MapsMove DEF Streams
  <2> QED BY <2>1 DEF Streams, IInv, TypeOK
<1>6. UNCHANGED Answered
  <2>1. Peer(m) = Server
    BY <1>1 DEF Peer
  <2> QED BY <2>1 DEF Moves, Answered
<1> QED BY <1>4, <1>5, <1>6, ChannelActions, Zenon

LEMMA AnswerChannel ==
  ASSUME IInv, IInv', NEW m \in End, Moves(m), given'[m] = given[m],
         Accepts(m, conn[m], conn'[m], sent[m], sent'[m])
  PROVE  Ch!Answer
<1>1. /\ m = Server /\ conn[m].state = "RFCRCVD" /\ conn'[m].state = "OPEN"
      /\ sent'[m] = Append(sent[m], "OPN")
  BY DEF Accepts
<1>2. sent[m] = <<>> /\ sent[m] \in Seq(ContOps)
  BY <1>1 DEF IInv, TypeOK, Sender
<1>3. Written(sent'[m]) = Written(sent[m]) /\ sent'[m] # <<>>
  <2>1. "OPN" \in ContOps
    BY DEF ContOps
  <2>2. Written(Append(sent[m], "OPN")) = Written(sent[m])
    BY <1>2, <2>1, WrittenAppend
  <2>3. Append(sent[m], "OPN") # <<>>
    BY <1>2, <2>1, AppendProperties
  <2> QED BY <1>1, <2>2, <2>3
<1>4. /\ Phases[Server] = "idle"
      /\ Phases' = [Phases EXCEPT ![Server] = "open"]
  BY <1>1, MapsMove, PhaseOf DEF Phases
<1>5. Phases[User] # "idle"
  <2>1. /\ User \in End /\ Peer(m) = User
    BY <1>1, Peers DEF End, Peer
  <2>2. conn[m].rlast = 1 /\ conn[m].rlast <= Len(sent[User])
    BY <1>1, <2>1, Facts DEF Receiver
  <2>3. sent[User] # <<>>
    <3>1. Len(sent[User]) # 0
      BY <2>2
    <3>2. Len(<<>>) = 0
      OBVIOUS
    <3> QED BY <3>1, <3>2, Zenon
  <2>4. conn[User].state \notin {"NONE", "LISTEN", "RFCRCVD"}
    BY <2>1, <2>3 DEF IInv, Sender
  <2> QED BY <2>1, <2>4 DEF Phases, Phase
<1>6. UNCHANGED <<Streams, given>>
  <2>1. /\ Streams' = [Streams EXCEPT ![m] = Streams[m]]
        /\ given' = [given EXCEPT ![m] = given[m]]
    BY <1>3, MapsMove DEF Streams
  <2> QED BY <2>1 DEF Streams, IInv, TypeOK
<1>7. Answered' = TRUE
  BY <1>1, <1>3 DEF Answered
<1> QED BY <1>4, <1>5, <1>6, <1>7, ChannelActions, Zenon

LEMMA PutChannel ==
  ASSUME IInv, IInv', RoomInv, NEW m \in End, Moves(m), given'[m] = given[m],
         Writes(conn[m], conn'[m], sent[m], sent'[m])
  PROVE  \E x \in DataOps : Ch!Put(m, x)
<1>1. PICK x \in DataOps : sent'[m] = Append(sent[m], x)
  BY DEF Writes
<1>2. conn[m].state = "OPEN" /\ conn'[m].state = "OPEN"
  BY DEF Writes, Stays
<1>3. sent[m] # <<>> /\ sent[m] \in Seq(ContOps)
  BY <1>2 DEF RoomInv, Ready, IInv, TypeOK
<1>4. Written(sent'[m]) = Append(Written(sent[m]), x) /\ sent'[m] # <<>>
  BY <1>1, <1>3, WrittenAppend, AppendProperties DEF ContOps
<1>5. Phases[m] = "open" /\ UNCHANGED <<Phases, given>>
  <2>1. Phase(conn[m]) = "open" /\ Phase(conn'[m]) = "open"
    BY <1>2, PhaseOf
  <2>2. /\ Phases[m] = "open" /\ Phases' = [Phases EXCEPT ![m] = Phases[m]]
        /\ given' = [given EXCEPT ![m] = given[m]]
    BY <2>1, MapsMove DEF Phases
  <2> QED BY <2>2 DEF Phases, IInv, TypeOK
<1>6. Streams' = [Streams EXCEPT ![m] = Append(@, x)]
  BY <1>4, MapsMove DEF Streams
<1>7. UNCHANGED Answered
  <2>1. CASE m = Server
    BY <1>3, <1>4, <2>1 DEF Answered
  <2>2. CASE m # Server
    <3>1. Peer(m) = Server
      BY <2>2 DEF Peer, End
    <3> QED BY <3>1 DEF Moves, Answered
  <2> QED BY <2>1, <2>2
<1> QED BY <1>5, <1>6, <1>7, ChannelActions, Zenon

LEMMA TakeChannel ==
  ASSUME IInv, IInv', NEW m \in End, Moves(m), sent'[m] = sent[m],
         Reads(m, conn[m], conn'[m], given[m], given'[m])
  PROVE  Ch!Take(m) \/ UNCHANGED Ch!vars
<1> DEFINE p == Head(conn[m].rhead)
<1>1. conn[m].rhead # <<>> /\ conn'[m].state = conn[m].state
  BY DEF Reads
<1>2. Phase(conn'[m]) = Phase(conn[m])
  BY <1>1 DEF Phase
<1>3. CASE p.op \notin DataOps
  <2>1. given'[m] = given[m]
    BY <1>3 DEF Reads
  <2> QED BY <1>2, <2>1, SilentMove, ChannelActions, Zenon
<1>4. CASE p.op \in DataOps
  <2>1. given'[m] = Append(given[m], p.op)
    BY <1>4 DEF Reads
  <2>2. /\ Phases[m] \in {"open", "done"}
        /\ Len(given[m]) < Len(Streams[Peer(m)])
        /\ Streams[Peer(m)][Len(given[m]) + 1] = p.op
    BY <1>1, <1>4, HeadItem DEF Phases
  <2>3. /\ Phases' = [Phases EXCEPT ![m] = Phases[m]]
        /\ Streams' = [Streams EXCEPT ![m] = Streams[m]]
        /\ sent' = [sent EXCEPT ![m] = sent[m]]
    BY <1>2, MapsMove DEF Phases, Streams
  <2>4. UNCHANGED <<Phases, Answered, Streams>>
    <3>1. /\ Phases = [e \in End |-> Phases[e]] /\ Streams = [e \in End |-> Streams[e]]
          /\ sent = [e \in End |-> sent[e]]
      BY DEF Phases, Streams, IInv, TypeOK
    <3>2. Phases' = Phases /\ Streams' = Streams /\ sent' = sent
      BY <2>3, <3>1, SameExcept
    <3> QED BY <3>2 DEF Answered
  <2>5. given' = [given EXCEPT ![m] = Append(@, Streams[Peer(m)][Len(@) + 1])]
    BY <2>1, <2>2, MapsMove DEF IInv, TypeOK
  <2> QED BY <2>2, <2>4, <2>5, ChannelActions, Zenon
<1> QED BY <1>3, <1>4

LEMMA PhaseChannel ==
  ASSUME IInv, IInv', NEW m \in End, Moves(m), sent'[m] = sent[m],
         given'[m] = given[m],
         Establishes(m, conn[m], conn'[m]) \/ Ends(conn[m], conn'[m])
  PROVE  Ch!Establish \/ Ch!Finish(m) \/ UNCHANGED Ch!vars
<1>1. UNCHANGED <<Answered, Streams, given>>
  <2>1. /\ Streams' = [Streams EXCEPT ![m] = Streams[m]]
        /\ sent' = [sent EXCEPT ![m] = sent[m]]
        /\ given' = [given EXCEPT ![m] = given[m]]
    BY MapsMove DEF Streams
  <2>2. /\ Streams = [e \in End |-> Streams[e]] /\ sent = [e \in End |-> sent[e]]
        /\ given = [e \in End |-> given[e]]
    BY DEF Streams, IInv, TypeOK
  <2>3. Streams' = Streams /\ sent' = sent /\ given' = given
    BY <2>1, <2>2, SameExcept
  <2> QED BY <2>3 DEF Answered
<1>2. Phases[m] = Phase(conn[m])
  BY DEF Phases
<1>3. CASE Establishes(m, conn[m], conn'[m])
  <2>1. /\ m = User /\ conn[m].state = "RFCSENT" /\ conn'[m].state = "OPEN"
        /\ sent[Peer(m)] # <<>>
    BY <1>3 DEF Establishes
  <2>2. Phases[User] = "asking" /\ Phases' = [Phases EXCEPT ![User] = "open"]
    BY <1>2, <2>1, MapsMove, PhaseOf
  <2>3. Answered
    BY <2>1 DEF Answered, Peer
  <2> QED BY <1>1, <2>2, <2>3, ChannelActions, Zenon
<1>4. CASE Ends(conn[m], conn'[m])
  <2>1. Phase(conn'[m]) = "done"
    BY <1>4, PhaseOf DEF Ends
  <2>2. CASE Phases[m] = "done"
    BY <1>2, <2>1, <2>2, SilentMove, ChannelActions, Zenon
  <2>3. CASE Phases[m] # "done"
    <3>1. Phases' = [Phases EXCEPT ![m] = "done"]
      BY <2>1, MapsMove
    <3> QED BY <1>1, <2>3, <3>1, ChannelActions, Zenon
  <2> QED BY <2>2, <2>3
<1> QED BY <1>3, <1>4

LEMMA ChannelMove ==
  ASSUME IInv, IInv', RoomInv, NEW m \in End, Moves(m)
  PROVE  [Ch!Next]_(Ch!vars)
<1> DEFINE r == conn[m]
           t == conn'[m]
           Silent == sent'[m] = sent[m] /\ given'[m] = given[m]
<1>1. Move(m, r, t, sent[m], sent'[m], given[m], given'[m])
  BY DEF Moves
<1>2. CASE Silent /\ (Stays(r, t) \/ Delivers(m, r, t) \/ Keeps(r, t))
  <2>1. t.state = r.state
    BY <1>2 DEF Stays, Delivers, Keeps
  <2>2. Phase(t) = Phase(r)
    BY <2>1 DEF Phase
  <2> QED BY <1>2, <2>2, SilentMove, ChannelActions, Zenon
<1>3. CASE Silent /\ (Listens(r, t) \/ Matches(r, t))
  <2>1. Phase(t) = Phase(r)
    BY <1>3, PhaseOf DEF Listens, Matches
  <2> QED BY <1>3, <2>1, SilentMove, ChannelActions, Zenon
<1>4. CASE Silent /\ (Establishes(m, r, t) \/ Ends(r, t))
  BY <1>4, PhaseChannel, ChannelActions, Zenon
<1>5. CASE given'[m] = given[m] /\ Asks(m, r, t, sent[m], sent'[m])
  BY <1>5, AskChannel, ChannelActions, Zenon
<1>6. CASE given'[m] = given[m] /\ Accepts(m, r, t, sent[m], sent'[m])
  BY <1>6, AnswerChannel, ChannelActions, Zenon
<1>7. CASE given'[m] = given[m] /\ Writes(r, t, sent[m], sent'[m])
  BY <1>7, PutChannel, ChannelActions, Zenon
<1>8. CASE sent'[m] = sent[m] /\ Reads(m, r, t, given[m], given'[m])
  BY <1>8, TakeChannel, ChannelActions, Zenon
<1> QED BY <1>1, <1>2, <1>3, <1>4, <1>5, <1>6, <1>7, <1>8, Zenon DEF Move

LEMMA ChannelInit == Init => Ch!Init
<1> SUFFICES ASSUME Init PROVE Ch!Init
  OBVIOUS
<1>1. /\ \A e \in End : conn[e] = Fresh /\ sent[e] = <<>>
      /\ given = [e \in End |-> <<>>] /\ Server \in End
  BY DEF Init, End
<1>2. Fresh.state = "NONE"
  BY DEF Fresh
<1>3. Phase(Fresh) = "idle"
  BY <1>2, PhaseOf
<1>4. Written(<<>>) = <<>>
  <2>1. <<>> \in Seq(ContOps) /\ Len(<<>>) = 0
    OBVIOUS
  <2>2. Written(<<>>) \in Seq(ContOps) /\ Len(Written(<<>>)) = 0
    BY <2>1, WrittenFields
  <2> QED BY <2>1, <2>2, SeqEqual
<1>5. Phases = [e \in End |-> "idle"] /\ Streams = [e \in End |-> <<>>]
  BY <1>1, <1>3, <1>4 DEF Phases, Streams
<1>6. Answered = FALSE
  BY <1>1 DEF Answered
<1> QED BY <1>1, <1>5, <1>6, ChannelActions, Zenon

(* IsChannel: established for the User only after the Server accepted, and *)
(* what one end's user writes the other's takes, in order, each once.      *)
THEOREM ImplementsChannel == Spec => IsChannel
<1>1. IInv /\ IInv' /\ RoomInv /\ [Next]_vars => [Ch!Next]_(Ch!vars)
  BY MoveStep, ChannelMove
<1> QED BY <1>1, ChannelInit, RoomKept, Invariance, PTL DEF Spec, IsChannel, Ch!Spec


-----------------------------------------------------------------------------
(***************************************************************************)
(* A connection nobody closes is not lost.  Calm is the hypothesis of      *)
(* HealthyStaysOpen.  Under it the two ends come up in order, the User     *)
(* only after the Server, and until the User is open nothing is in the     *)
(* network but its RFC and the OPN that answers it.                        *)
(***************************************************************************)
Calm == Closers = {} /\ Hasty = {} /\ Clock = {} /\ RwSize > 2

Passes(p) ==
  \/ p.to = Server /\ p.op = "RFC"
  \/ p.to = User /\ p.op = "OPN" /\ p.didx /\ conn[User].state \in {"RFCSENT", "OPEN"}
  \/ p.op \in DataOps \cup {"STS"} /\ p.didx /\ conn[User].state = "OPEN"

Steady ==
  /\ conn[User].state \in {"NONE", "RFCSENT", "OPEN"}
  /\ conn[Server].state \in {"NONE", "LISTEN", "RFCRCVD", "OPEN"}
  /\ conn[User].state = "OPEN" => conn[Server].state = "OPEN" /\ conn[User].fidx
  /\ conn[Server].state \in {"RFCRCVD", "OPEN"} => conn[Server].fidx
  /\ conn[Server].twsize > 0 \/ Len(sent[User]) > 1 => conn[User].state = "OPEN"
  /\ \A p \in net : Passes(p)

LEMMA TwoEnds ==
  /\ User \in End /\ Server \in End /\ User # Server
  /\ Peer(User) = Server /\ Peer(Server) = User
  /\ \A e \in End : e = User \/ e = Server
BY ConnAssumption DEF End, Peer

(* A step that opens nothing, and puts nothing wrong into the network. *)
LEMMA SteadyFrame ==
  ASSUME Steady, NEW m \in End,
         conn'[Peer(m)] = conn[Peer(m)],
         conn'[m].state = conn[m].state, conn'[m].fidx = conn[m].fidx,
         conn'[m].twsize = conn[m].twsize \/ conn[User].state = "OPEN",
         sent'[User] = sent[User] \/ conn[User].state = "OPEN",
         \A p \in net' : p \in net \/ Passes(p)
  PROVE  Steady'
<1>1. /\ conn'[User].state = conn[User].state
      /\ conn'[Server].state = conn[Server].state
      /\ conn'[User].fidx = conn[User].fidx /\ conn'[Server].fidx = conn[Server].fidx
      /\ conn'[Server].twsize = conn[Server].twsize \/ conn[User].state = "OPEN"
  BY TwoEnds
<1>2. \A p \in net' : Passes(p)
  BY DEF Steady
<1>3. \A p \in net' : Passes(p)'
  BY <1>1, <1>2 DEF Passes
<1>4. conn'[Server].twsize > 0 \/ Len(sent'[User]) > 1 => conn'[User].state = "OPEN"
  BY <1>1 DEF Steady
<1> QED BY <1>1, <1>3, <1>4 DEF Steady

LEMMA StsPasses ==
  ASSUME conn[User].state = "OPEN", NEW e, NEW r
  PROVE  Passes(Sts(e, r))
BY DEF Passes, Sts, Blank

LEMMA DataPasses ==
  ASSUME conn[User].state = "OPEN", NEW e, NEW r, r.fidx, NEW op \in DataOps, NEW n
  PROVE  Passes(Numbered(e, r, op, n))
BY DEF Passes, Numbered, Blank, DataOps

(* The RFC is read without a word to the peer. *)
LEMMA ReadQuiet ==
  ASSUME NEW e, NEW r \in Connection, NEW P, NEW g, Receiver(e, r, P, g),
         r.rhead # <<>>, Head(r.rhead).op = "RFC", RwSize > 2
  PROVE  ChRead(e, r).sts = {}
<1> DEFINE n == [r EXCEPT !.rhead = Tail(@),
                          !.rread = IF Head(r.rhead).op \in ContOps
                                    THEN Head(r.rhead).pkn ELSE @]
<1>1. /\ r.rhead \in Seq(Queued) /\ Len(r.rhead) \in Nat /\ Len(r.rhead) >= 1
      /\ Head(r.rhead) = r.rhead[1]
      /\ r.racked \in Nat /\ r.rread \in Nat /\ r.racked <= r.rread
  BY ConnNumbers DEF Receiver
<1>2. InPlace(r, P, 1)
  BY <1>1 DEF Receiver
<1>3. Head(r.rhead).pkn = 1 /\ r.rread = 1
  BY <1>1, <1>2 DEF InPlace, DataOps, EndOps
<1>4. n.rread = 1 /\ n.racked = r.racked
  BY <1>3 DEF Connection
<1> HIDE DEF n
<1>5. n.rread - n.racked \in {0, 1}
  BY <1>1, <1>3, <1>4
<1>6. Short(0) = 0 /\ Short(1) = 1
  BY DEF Short, NumMod, NumHalf
<1>7. ~(3 * Short(n.rread - n.racked) > RwSize)
  <2>1. Short(n.rread - n.racked) = 0 \/ Short(n.rread - n.racked) = 1
    BY <1>5, <1>6
  <2> QED BY <2>1, Bounds
<1>8. ~TellsPeer(n, Head(r.rhead).op)
  BY <1>7 DEF TellsPeer
<1> QED BY <1>8, Zenon DEF ChRead, n

LEMMA OpenSteady ==
  ASSUME IInv, Steady, Open(User)
  PROVE  Steady'
<1> DEFINE r == conn[User]
           t == [r EXCEPT !.state = "RFCSENT"]
           w == Sent(t, "RFC")
           N == Numbered(User, t, "RFC", Succ(t.tlast))
<1>1. r \in Connection /\ sent[User] \in Seq(ContOps) /\ Sender(User, r, conn[Server], sent[User])
  BY TwoEnds, Facts
<1>2. /\ r.state = "NONE" /\ Transmit(User, t, "RFC", {})
  BY DEF Open
<1>3. t \in Connection /\ t.state = "RFCSENT"
  BY <1>1 DEF Connection, States
<1> HIDE DEF t
<1>4. /\ conn' = [conn EXCEPT ![User] = w]
      /\ sent' = [sent EXCEPT ![User] = Append(@, "RFC")]
      /\ net' = net \cup {} \cup {N}
  BY <1>2 DEF Transmit, Sent
<1>5. w.state = "RFCSENT"
  BY <1>3, SentFields DEF Stays
<1> HIDE DEF w
<1>6. /\ conn'[User].state = "RFCSENT" /\ conn'[Server] = conn[Server]
  BY <1>4, <1>5, TwoEnds DEF IInv, TypeOK
<1>7. Len(sent'[User]) <= 1
  <2>1. sent[User] = <<>>
    BY <1>1, <1>2 DEF Sender
  <2>2. sent'[User] = Append(<<>>, "RFC")
    BY <1>4, <2>1, TwoEnds DEF IInv, TypeOK
  <2> QED BY <2>2
<1>8. N.to = Server /\ N.op = "RFC"
  BY TwoEnds DEF Numbered, Blank
<1> HIDE DEF N
<1>9. \A p \in net' : Passes(p)'
  BY <1>2, <1>4, <1>6, <1>8 DEF Steady, Passes
<1>10. ~(conn[Server].twsize > 0)
  BY <1>2 DEF Steady
<1> QED BY <1>6, <1>7, <1>9, <1>10 DEF Steady

LEMMA MatchSteady ==
  ASSUME IInv, Steady, conn[Server].state \in {"NONE", "LISTEN"}, NEW t,
         conn' = [conn EXCEPT ![Server] = t], sent' = sent, net' \subseteq net,
         t.twsize = conn[Server].twsize,
         t.state = "LISTEN" \/ (t.state = "RFCRCVD" /\ t.fidx)
  PROVE  Steady'
<1>1. conn'[Server] = t /\ conn'[User] = conn[User]
  BY TwoEnds DEF IInv, TypeOK
<1>2. \A p \in net' : Passes(p)'
  BY <1>1 DEF Steady, Passes
<1>3. conn[User].state # "OPEN"
  BY DEF Steady
<1> QED BY <1>1, <1>2, <1>3 DEF Steady

LEMMA AcceptSteady ==
  ASSUME IInv, Steady, Accept(Server), RwSize > 2
  PROVE  Steady'
<1> DEFINE r == conn[Server]
           isRFC == r.rhead # <<>> /\ Head(r.rhead).op = "RFC"
           c == IF isRFC THEN ChRead(Server, r).conn ELSE r
           f == IF isRFC THEN ChRead(Server, r).sts ELSE {}
           t == [c EXCEPT !.state = "OPEN", !.tlast = 0]
           w == Sent(t, "OPN")
           N == Numbered(Server, t, "OPN", Succ(t.tlast))
<1>1. /\ r.state = "RFCRCVD" /\ Transmit(Server, t, "OPN", f)
  BY DEF Accept
<1>2. /\ c \in Connection /\ c.fidx = r.fidx /\ c.twsize = r.twsize
  BY <1>1, AcceptRead
<1>3. f = {}
  <2>1. CASE isRFC
    BY <2>1, TwoEnds, Facts, ReadQuiet
  <2>2. CASE ~isRFC
    BY <2>2
  <2> QED BY <2>1, <2>2
<1> HIDE DEF c, f
<1>4. t \in Connection /\ t.state = "OPEN" /\ t.fidx = r.fidx /\ t.twsize = r.twsize
  BY <1>2, NumFacts DEF Connection, States
<1> HIDE DEF t
<1>5. w.state = "OPEN" /\ w.fidx = r.fidx /\ w.twsize = r.twsize
  BY <1>4, SentFields DEF Stays
<1>6. /\ conn' = [conn EXCEPT ![Server] = w]
      /\ sent' = [sent EXCEPT ![Server] = Append(@, "OPN")]
      /\ net' = net \cup f \cup {N}
  BY <1>1 DEF Transmit, Sent
<1> HIDE DEF w
<1>7. conn'[Server] = w /\ conn'[User] = conn[User] /\ sent'[User] = sent[User]
  BY <1>6, TwoEnds DEF IInv, TypeOK
<1>8. N.to = User /\ N.op = "OPN" /\ N.didx = r.fidx
  BY <1>4, TwoEnds DEF Numbered, Blank
<1> HIDE DEF N
<1>9. r.fidx /\ conn[User].state # "OPEN"
  BY <1>1 DEF Steady
<1>10. conn[User].state = "RFCSENT"
  <2>1. r.rlast = 1 /\ r.rlast <= Len(sent[User])
    BY <1>1, TwoEnds, Facts DEF Receiver
  <2>2. Len(<<>>) = 0
    OBVIOUS
  <2>3. sent[User] # <<>>
    <3>1. Len(sent[User]) # 0
      BY <2>1
    <3> QED BY <2>2, <3>1, Zenon
  <2>4. conn[User].state # "NONE"
    BY <2>3, TwoEnds, Facts DEF Sender
  <2> QED BY <1>9, <2>4 DEF Steady
<1>11. \A p \in net' : Passes(p)'
  BY <1>3, <1>6, <1>7, <1>8, <1>9, <1>10 DEF Steady, Passes
<1> QED BY <1>5, <1>7, <1>9, <1>10, <1>11 DEF Steady


(* Before the Server has heard from the User its window is 0: it is full.  *)
LEMMA ServerWaits ==
  ASSUME IInv, Steady, conn[Server].state = "OPEN", ~chtfull(conn[Server])
  PROVE  conn[User].state = "OPEN"
<1> DEFINE r == conn[Server]
           d == r.tlast - r.tacked
<1>1. /\ r.tlast \in Nat /\ r.tacked \in Nat /\ r.twsize \in Nat
      /\ conn[User].rread \in Nat /\ conn[User].rlast \in Nat
  BY TwoEnds, Facts, ConnNumbers
<1>2. /\ r.tacked <= conn[User].rread /\ conn[User].rread <= conn[User].rlast
      /\ conn[User].rlast <= Len(sent[Server]) /\ r.tlast = Len(sent[Server])
      /\ r.tlast <= MaxPkts
  BY TwoEnds, Facts DEF Sender
<1>3. d \in Nat /\ d <= MaxPkts + RwSize
  BY <1>1, <1>2, Bounds
<1> HIDE DEF d
<1>4. d % NumMod = d /\ d < NumHalf
  BY <1>3, Small
<1>5. Short(d) = d
  BY <1>3, <1>4, Bounds DEF Short
<1>6. r.twsize > 0
  BY <1>1, <1>3, <1>5 DEF chtfull, d
<1> QED BY <1>6 DEF Steady

LEMMA WriteSteady ==
  ASSUME IInv, Steady, NEW e \in End, NEW op \in DataOps, Write(e, op), Hasty = {}
  PROVE  Steady'
<1> DEFINE r == conn[e]
           w == Sent(r, op)
           N == Numbered(e, r, op, Succ(r.tlast))
<1>1. /\ r \in Connection /\ r.state = "OPEN" /\ ~chtfull(r) /\ Transmit(e, r, op, {})
  BY Facts DEF Write
<1>2. conn[User].state = "OPEN"
  BY <1>1, TwoEnds, ServerWaits
<1>3. r.fidx
  BY <1>1, <1>2, TwoEnds DEF Steady
<1>4. /\ conn' = [conn EXCEPT ![e] = w] /\ net' = net \cup {} \cup {N}
  BY <1>1 DEF Transmit, Sent
<1>5. Passes(N)
  BY <1>2, <1>3, DataPasses
<1>6. w.state = r.state /\ w.fidx = r.fidx /\ w.twsize = r.twsize
  BY <1>1, SentFields DEF Stays
<1> HIDE DEF w, N
<1>7. conn'[e] = w /\ conn'[Peer(e)] = conn[Peer(e)]
  BY <1>4, Only
<1>8. \A p \in net' : p \in net \/ Passes(p)
  BY <1>4, <1>5
<1> QED BY <1>2, <1>6, <1>7, <1>8, SteadyFrame

LEMMA ConsumeSteady ==
  ASSUME IInv, Steady, NEW e \in End, Consume(e), RwSize > 2
  PROVE  Steady'
<1> DEFINE r == conn[e]
           c == ChRead(e, r).conn
           t == [c EXCEPT !.input = @ /\ c.rhead # <<>>]
           p == Head(r.rhead)
<1>1. /\ r \in Connection /\ r.rhead # <<>>
      /\ Receiver(e, r, sent[Peer(e)], given[e])
  BY Facts DEF Consume
<1>2. /\ conn' = [conn EXCEPT ![e] = t] /\ UNCHANGED sent
      /\ net' = net \cup ChRead(e, r).sts
  BY DEF Consume
<1>3. c \in Connection /\ c.state = r.state /\ c.fidx = r.fidx /\ c.twsize = r.twsize
  BY <1>1, ChReadType, ChReadFields
<1>4. t.state = r.state /\ t.fidx = r.fidx /\ t.twsize = r.twsize
  BY <1>3 DEF Connection
<1> HIDE DEF t
<1>5. conn'[e] = t /\ conn'[Peer(e)] = conn[Peer(e)]
  BY <1>2, Only
<1>6. \A x \in ChRead(e, r).sts : Passes(x)
  <2>1. CASE p.op = "RFC"
    BY <1>1, <2>1, ReadQuiet
  <2>2. CASE p.op \in DataOps
    <3>1. conn[User].state = "OPEN"
      <4>1. /\ r.rread >= 1 /\ r.rread + 1 <= r.rlast /\ r.rread \in Nat
            /\ r.rlast \in Nat /\ r.rlast <= Len(sent[Peer(e)])
            /\ Len(sent[Peer(e)]) \in Nat
        <5>1. r.rread >= 1 /\ p.pkn = r.rread + 1 /\ p.pkn <= r.rlast
          BY <1>1, <2>2, HeadPlace
        <5>2. r.rread \in Nat /\ r.rlast \in Nat /\ r.rlast <= Len(sent[Peer(e)])
          BY <1>1, ConnNumbers DEF Receiver
        <5>3. Len(sent[Peer(e)]) \in Nat
          BY Facts
        <5> QED BY <5>1, <5>2, <5>3
      <4>2. CASE e = User
        <5>1. r.state \notin {"NONE", "RFCSENT"}
          BY <1>1, <4>1 DEF Receiver
        <5> QED BY <4>2, <5>1 DEF Steady
      <4>3. CASE e = Server
        <5>1. Len(sent[User]) > 1
          BY <4>1, <4>3, TwoEnds
        <5> QED BY <5>1 DEF Steady
      <4> QED BY <4>2, <4>3, TwoEnds
    <3>2. \A x \in ChRead(e, r).sts : x = Sts(e, ChRead(e, r).conn)
      BY <1>1, ChReadFields
    <3>3. Passes(Sts(e, ChRead(e, r).conn))
      BY <3>1, StsPasses
    <3> QED BY <3>2, <3>3
  <2>3. CASE p.op \notin ContOps
    <3>1. ChRead(e, r).sts = {}
      BY <2>3 DEF ChRead
    <3> QED BY <3>1
  <2>4. p.op \in DataOps \cup EndOps \cup {"RFC"}
    <3>1. p \in Queued
      BY <1>1, HeadPlace
    <3> QED BY <3>1 DEF Queued, Element
  <2> QED BY <2>1, <2>2, <2>3, <2>4 DEF ContOps, EndOps, DataOps
<1>7. \A x \in net' : x \in net \/ Passes(x)
  BY <1>2, <1>6
<1> QED BY <1>2, <1>4, <1>5, <1>7, SteadyFrame

(* Without a clock nothing is sent again. *)
LEMMA NoClock ==
  ASSUME Clock = {}, NEW e, NEW r, NEW S \in Aged(e, r)
  PROVE  S = {} /\ Told(r, S) = r /\ Retran(e, r, S) = {}
BY DEF Aged, Told, Retran

LEMMA RFCSteady ==
  ASSUME IInv, Steady, NEW p \in net, Clock = {}, RcvDupRFC(p) \/ RcvRFC(p)
  PROVE  Steady'
<1>1. p.op = "RFC" /\ p.to \in End
  BY Incoming DEF RcvDupRFC, RcvRFC, Await
<1>2. p.to = Server
  BY <1>1 DEF Steady, Passes, DataOps
<1>3. CASE RcvDupRFC(p)
  <2>1. PICK S \in (IF conn[p.to].state = "OPEN" THEN Aged(p.to, conn[p.to]) ELSE {{}}) :
          Set(p.to, Told(conn[p.to], S)) /\ Arrive(p, Retran(p.to, conn[p.to], S))
    BY <1>3 DEF RcvDupRFC
  <2>2. S = {}
    BY <2>1, NoClock
  <2>3. Told(conn[p.to], S) = conn[p.to] /\ Retran(p.to, conn[p.to], S) = {}
    BY <2>2 DEF Told, Retran
  <2>4. UNCHANGED conn /\ \A x \in net' : x \in net
    BY <1>1, <2>1, <2>3 DEF Set, Arrive, IInv, TypeOK
  <2>5. UNCHANGED sent
    BY <1>3 DEF RcvDupRFC
  <2> QED BY <1>1, <2>4, <2>5, SteadyFrame
<1>4. CASE RcvRFC(p)
  <2>1. UNCHANGED sent /\ net' \subseteq net
    BY <1>4 DEF RcvRFC, Await, Arrive
  <2>2. CASE lsn[p.to]
    <3>1. conn[Server].state \in {"NONE", "LISTEN"}
      BY <1>2, <2>2, TwoEnds DEF IInv, Waiting
    <3>2. p.pkn = 1
      <4>1. /\ p.pkn \in 1 .. Len(sent[Peer(p.to)])
            /\ sent[Peer(p.to)][p.pkn] = "RFC"
        BY <1>1, Incoming DEF ContOps
      <4>2. Opening(Peer(p.to), sent[Peer(p.to)])
        BY <1>1, Facts
      <4> QED BY <4>1, <4>2 DEF Opening
    <3>3. conn' = [conn EXCEPT ![Server] = LsnMatch(conn[Server], 1)]
      BY <1>2, <1>4, <2>2, <3>2 DEF RcvRFC, Await, Set
    <3>4. conn[Server] \in Connection
      BY TwoEnds, Facts
    <3> QED BY <2>1, <3>1, <3>3, <3>4, LsnMatchFields, MatchSteady
  <2>3. CASE ~lsn[p.to]
    <3>1. UNCHANGED conn
      BY <1>4, <2>3 DEF RcvRFC, Await
    <3> QED BY <1>1, <2>1, <3>1, SteadyFrame
  <2> QED BY <2>2, <2>3
<1> QED BY <1>3, <1>4

LEMMA OPNSteady ==
  ASSUME IInv, IInv', Steady, NEW p \in net, RcvOPN(p)
  PROVE  Steady'
<1> DEFINE e == p.to
           w == [conn[e] EXCEPT !.state = "OPEN", !.fidx = TRUE,
                                !.rread = p.pkn, !.rlast = p.pkn, !.twsize = p.rwsize]
           r == Receipt(w, p.ackn, p.ackn)
<1>1. /\ e \in End /\ conn[e] \in Connection /\ p.pkn \in Num /\ p.ackn \in Num
      /\ p.rwsize \in Num
  BY Incoming, Facts
<1>2. /\ conn[e].state = "RFCSENT" /\ p.op = "OPN" /\ Set(e, SetAck(r))
      /\ Arrive(p, {Sts(e, r)}) /\ UNCHANGED sent
  BY DEF RcvOPN
<1>3. e = User
  BY <1>1, <1>2, TwoEnds DEF Steady
<1>4. w \in Connection /\ w.state = "OPEN" /\ w.fidx
  BY <1>1 DEF Connection, States
<1> HIDE DEF w
<1>5. r \in Connection /\ r.state = "OPEN" /\ r.fidx
  BY <1>1, <1>4, ReceiptType, ReceiptFields
<1> HIDE DEF r
<1>6. SetAck(r).state = "OPEN" /\ SetAck(r).fidx
  BY <1>5, SetAckFields DEF Stays
<1>7. conn'[User].state = "OPEN" /\ conn'[User].fidx /\ conn'[Server] = conn[Server]
  BY <1>2, <1>3, <1>6, TwoEnds DEF Set, IInv, TypeOK
<1>8. conn[Server].state = "OPEN"
  <2>1. p.pkn \in 1 .. Len(sent[Server])
    BY <1>2, <1>3, TwoEnds, Incoming DEF ContOps
  <2>2. Len(<<>>) = 0
    OBVIOUS
  <2>3. sent[Server] # <<>>
    <3>1. Len(sent[Server]) # 0
      BY <2>1
    <3> QED BY <2>2, <3>1, Zenon
  <2>4. conn[Server].state \notin {"NONE", "LISTEN", "RFCRCVD"}
    BY <2>3, TwoEnds, Facts DEF Sender
  <2> QED BY <2>4 DEF Steady
<1>9. \A x \in net' : x \in net \/ x = Sts(e, r)
  BY <1>2 DEF Arrive
<1>10. \A x \in net : Passes(x)'
  BY <1>7 DEF Steady, Passes
<1>11. \A x \in net' : Passes(x)'
  <2> SUFFICES ASSUME NEW x \in net' PROVE Passes(x)'
    OBVIOUS
  <2>1. CASE x = Sts(e, r)
    BY <1>7, <2>1 DEF Passes, Sts, Blank
  <2> QED BY <1>9, <1>10, <2>1
<1> QED BY <1>7, <1>8, <1>11 DEF Steady


(* The packets of an open connection are answered with an STS at most.     *)
LEMMA OpenPacketSteady ==
  ASSUME IInv, Steady, NEW p \in net, p.op \in DataOps \cup {"STS", "OPN"},
         conn[p.to].state = "OPEN", sent' = sent,
         NEW t, Set(p.to, t), t.state = conn[p.to].state, t.fidx = conn[p.to].fidx,
         t.twsize = conn[p.to].twsize \/ p.op = "STS",
         NEW Q, Arrive(p, Q), \A x \in Q : \E r : x = Sts(p.to, r)
  PROVE  Steady'
<1>1. p.to \in End
  BY Incoming
<1>2. conn[User].state = "OPEN"
  BY <1>1, TwoEnds DEF Steady, Passes, DataOps
<1>3. conn'[p.to] = t /\ conn'[Peer(p.to)] = conn[Peer(p.to)]
  BY <1>1, Only DEF Set
<1>4. \A x \in net' : x \in net \/ Passes(x)
  <2>1. \A x \in Q : Passes(x)
    BY <1>2, StsPasses
  <2> QED BY <2>1 DEF Arrive
<1> QED BY <1>1, <1>2, <1>3, <1>4, SteadyFrame

LEMMA DataSteady ==
  ASSUME IInv, Steady, NEW p \in net,
         \/ RcvOutOfWindow(p) \/ RcvDuplicate(p) \/ RcvInOrder(p) \/ RcvEarly(p)
         \/ RcvDupOPN(p)
  PROVE  Steady'
<1> DEFINE e == p.to
           r == Receipted(p)
<1>1. /\ e \in End /\ conn[e] \in Connection /\ r \in Connection
      /\ r.state = conn[e].state /\ r.fidx = conn[e].fidx
      /\ r.twsize = conn[e].twsize
  BY Facts, ReceiptedMove DEF Stays
<1>2. conn[e].state = "OPEN" /\ p.op \in DataOps \cup {"STS", "OPN"} /\ sent' = sent
  BY DEF RcvOutOfWindow, RcvDuplicate, RcvInOrder, RcvEarly, RcvDupOPN, InOpen
<1>3. CASE RcvOutOfWindow(p) \/ RcvDupOPN(p)
  <2>1. UNCHANGED conn /\ Arrive(p, {})
    BY <1>3 DEF RcvOutOfWindow, RcvDupOPN
  <2>2. Set(e, conn[e])
    BY <2>1 DEF Set, IInv, TypeOK
  <2> QED BY <1>2, <2>1, <2>2, OpenPacketSteady
<1>4. CASE RcvDuplicate(p)
  <2>1. Set(e, SetAck(r)) /\ Arrive(p, {Sts(e, r)})
    BY <1>4 DEF RcvDuplicate
  <2>2. /\ SetAck(r).state = conn[e].state /\ SetAck(r).fidx = conn[e].fidx
        /\ SetAck(r).twsize = conn[e].twsize
    BY <1>1, SetAckFields DEF Stays
  <2>3. \A x \in {Sts(e, r)} : \E s : x = Sts(e, s)
    OBVIOUS
  <2> QED BY <1>2, <2>1, <2>2, <2>3, OpenPacketSteady
<1>5. CASE RcvEarly(p)
  <2> DEFINE t == [r EXCEPT !.routorder = @ \cup {[op |-> p.op, pkn |-> p.pkn]}]
  <2>1. Set(e, t) /\ Arrive(p, {})
    BY <1>5 DEF RcvEarly
  <2>2. /\ t.state = conn[e].state /\ t.fidx = conn[e].fidx
        /\ t.twsize = conn[e].twsize
    BY <1>1 DEF Connection
  <2> HIDE DEF t
  <2> QED BY <1>2, <2>1, <2>2, OpenPacketSteady
<1>6. CASE RcvInOrder(p)
  <2>1. PICK k, run, q : Set(e, Deliver(e, r, run, k, q))
    BY <1>6 DEF RcvInOrder
  <2> DEFINE t == Deliver(e, r, run, k, q)
  <2>2. /\ t.state = conn[e].state /\ t.fidx = conn[e].fidx
        /\ t.twsize = conn[e].twsize
    BY <1>1 DEF Connection, Deliver
  <2>3. Arrive(p, {})
    BY <1>6 DEF RcvInOrder
  <2> HIDE DEF t
  <2>4. Set(e, t)
    BY <2>1 DEF t
  <2> QED BY <1>2, <2>2, <2>3, <2>4, OpenPacketSteady
<1> QED BY <1>3, <1>4, <1>5, <1>6

LEMMA STSSteady ==
  ASSUME IInv, Steady, NEW p \in net, RcvSTS(p), Clock = {}
  PROVE  Steady'
<1> DEFINE e == p.to
           w == [conn[e] EXCEPT !.twsize = p.rwsize]
           r == Receipt(w, p.ackn, p.receipt)
<1>1. /\ e \in End /\ conn[e] \in Connection /\ p.ackn \in Num /\ p.receipt \in Num
      /\ p.rwsize \in Num
  BY Incoming, Facts
<1>2. conn[e].state = "OPEN" /\ p.op = "STS" /\ sent' = sent
  BY DEF RcvSTS, InOpen
<1>3. w \in Connection /\ w.state = conn[e].state /\ w.fidx = conn[e].fidx
  BY <1>1 DEF Connection
<1> HIDE DEF w
<1>4. r.state = conn[e].state /\ r.fidx = conn[e].fidx
  BY <1>1, <1>3, ReceiptFields
<1>5. PICK S \in Aged(e, r) : Set(e, Told(r, S)) /\ Arrive(p, Retran(e, r, S))
  BY DEF RcvSTS, w
<1> HIDE DEF r
<1>6. Told(r, S) = r /\ Retran(e, r, S) = {}
  BY <1>5, NoClock
<1>7. Set(e, r) /\ Arrive(p, {})
  BY <1>5, <1>6
<1> QED BY <1>2, <1>4, <1>7, OpenPacketSteady

LEMMA ReceiveSteady ==
  ASSUME IInv, IInv', Steady, NEW p \in net, RcvPkt(p), Clock = {}
  PROVE  Steady'
<1>1. p.to \in End /\ Passes(p)
  BY Incoming DEF Steady
<1>2. p.op # "RFC" => /\ Exists(p.to) /\ p.didx
                      /\ conn[p.to].state \in {"RFCSENT", "OPEN"}
  BY <1>1, TwoEnds DEF Steady, Passes, Exists
<1>3. conn[p.to].state = "RFCSENT" => p.op \in {"RFC", "OPN"}
  BY <1>1, TwoEnds DEF Steady, Passes
<1>4. ~RcvForNone(p)
  BY <1>2 DEF RcvForNone, Reaches
<1>5. ~RcvRefusal(p) /\ ~RcvBadReply(p)
  BY <1>3 DEF RcvRefusal, RcvBadReply
<1>6. ~RcvSNS(p) /\ ~RcvEnd(p)
  BY <1>1 DEF RcvSNS, RcvEnd, Passes, DataOps, EndOps
<1> QED BY <1>4, <1>5, <1>6, RFCSteady, OPNSteady, DataSteady, STSSteady DEF RcvPkt

LEMMA ListenSteady ==
  ASSUME IInv, Steady, Listen(Server)
  PROVE  Steady'
<1>1. conn[Server].state = "NONE" /\ conn[Server] \in Connection
  BY TwoEnds, Facts DEF Listen
<1>2. UNCHANGED <<net, sent>>
  BY DEF Listen
<1>3. CASE rfcq[Server]
  <2>1. conn' = [conn EXCEPT ![Server] = LsnMatch(conn[Server], 1)]
    BY <1>3, TwoEnds DEF Listen, IInv, TypeOK
  <2> QED BY <1>1, <1>2, <2>1, LsnMatchFields, MatchSteady
<1>4. CASE ~rfcq[Server]
  <2> DEFINE t == [conn[Server] EXCEPT !.state = "LISTEN"]
  <2>1. conn' = [conn EXCEPT ![Server] = t]
    BY <1>4, TwoEnds DEF Listen, IInv, TypeOK
  <2>2. t.state = "LISTEN" /\ t.twsize = conn[Server].twsize
    BY <1>1 DEF Connection
  <2> HIDE DEF t
  <2> QED BY <1>1, <1>2, <2>1, <2>2, MatchSteady
<1> QED BY <1>3, <1>4

LEMMA SteadyStep == Calm /\ IInv /\ IInv' /\ Steady /\ [Next]_vars => Steady'
<1> SUFFICES ASSUME Calm, IInv, IInv', Steady, [Next]_vars PROVE Steady'
  OBVIOUS
<1>1. Closers = {} /\ Hasty = {} /\ Clock = {} /\ RwSize > 2
  BY DEF Calm
<1>2. CASE Open(User) \/ Listen(Server) \/ Accept(Server)
  BY <1>1, <1>2, OpenSteady, ListenSteady, AcceptSteady
<1>3. CASE \E e \in End : \E op \in DataOps : Write(e, op)
  BY <1>1, <1>3, WriteSteady
<1>4. CASE \E e \in End : ServerInput(e) \/ UserRead(e)
  BY <1>1, <1>4, ConsumeSteady DEF ServerInput, UserRead
<1>5. ~(\E e \in End : \E release \in BOOLEAN : Close(e, release))
  BY <1>1 DEF Close
<1>6. ~(\E e \in End : ChClock(e))
  BY <1>1 DEF ChClock
<1>7. CASE \E p \in net : RcvPkt(p)
  BY <1>1, <1>7, ReceiveSteady
<1>8. CASE UNCHANGED <<conn, sent>> /\ net' \subseteq net
  BY <1>8, TwoEnds, SteadyFrame
<1>9. (\E p \in net : Lose(p)) \/ UNCHANGED vars => UNCHANGED <<conn, sent>> /\ net' \subseteq net
  BY DEF Lose, vars
<1> QED BY <1>2, <1>3, <1>4, <1>5, <1>6, <1>7, <1>8, <1>9 DEF Next

(* HealthyStaysOpen: a connection nobody closes, writes to in haste or     *)
(* runs a clock for is not lost, if the window is at least three.          *)
THEOREM StaysOpen == Spec => []HealthyStaysOpen
<1>1. Init => Steady
  <2> SUFFICES ASSUME Init PROVE Steady
    OBVIOUS
  <2>1. conn[User] = Fresh /\ conn[Server] = Fresh /\ net = {} /\ sent[User] = <<>>
    BY TwoEnds DEF Init
  <2>2. Fresh.state = "NONE" /\ Fresh.twsize = 0
    BY DEF Fresh
  <2>3. ~(Len(<<>>) > 1)
    OBVIOUS
  <2>4. ~(Fresh.twsize > 0 \/ Len(sent[User]) > 1)
    BY <2>1, <2>2, <2>3
  <2> QED BY <2>1, <2>2, <2>4 DEF Steady
<1>2. Steady => HealthyStaysOpen
  <2> SUFFICES ASSUME Steady
               PROVE  /\ \A e \in End : conn[e].state \notin {"CLOSED", "LOST"}
                      /\ \A p \in net : p.op # "LOS"
    BY DEF HealthyStaysOpen
  <2> QED BY TwoEnds DEF Steady, Passes, DataOps
<1>3. CASE Calm
  BY <1>1, <1>2, <1>3, SteadyStep, Invariance, PTL DEF Spec
<1>4. CASE ~Calm
  <2>1. HealthyStaysOpen
    BY <1>4 DEF Calm, HealthyStaysOpen
  <2> QED BY <2>1, PTL
<1> QED BY <1>3, <1>4

=============================================================================
