--------------------------- MODULE ChaosConnProofs ---------------------------
(***************************************************************************)
(* Safety of ChaosConn: type correctness, for any windows, bounds and      *)
(* networks that ConnAssumption and NumberAssumption admit; the inductive  *)
(* invariant of the connection, and what follows from it.                  *)
(***************************************************************************)
EXTENDS ChaosConn, TLAPS

-----------------------------------------------------------------------------
(***************************************************************************)
(* Types.                                                                  *)
(***************************************************************************)
(* The two ends are each other's peer. *)
LEMMA Peers ==
  \A e \in End : /\ Peer(e) \in End /\ Peer(e) # e /\ Peer(Peer(e)) = e
                 /\ \A x \in End : x = e \/ x = Peer(e)
BY ConnAssumption DEF End, Peer

LEMMA InRange == ASSUME NEW m \in Nat, NEW x \in Nat, x < m PROVE x \in 0 .. m - 1
OBVIOUS

LEMMA Bounds ==
  /\ NumMod \in Nat /\ NumHalf \in Nat /\ 0 < NumHalf /\ NumHalf + NumHalf = NumMod
  /\ RwSize \in Nat /\ 0 < RwSize /\ MaxPkts \in Nat /\ MaxPkts + RwSize < NumHalf
BY NumberAssumption DEF NumMod, NumHalf

LEMMA NumFacts ==
  /\ \A n \in Num : n \in Nat /\ n < NumMod
  /\ \A n \in Nat : n < NumMod => n \in Num
  /\ 0 \in Num /\ 1 \in Num /\ RwSize \in Num
  /\ \A n \in Int : n % NumMod \in Num
  /\ \A n \in Num : Succ(n) \in Num
<1>1. \A n \in Num : n \in Nat /\ n < NumMod
  BY Bounds DEF Num
<1>2. ASSUME NEW n \in Nat, n < NumMod PROVE n \in Num
  BY <1>2, Bounds, InRange DEF Num
<1>3. 0 \in Num /\ 1 \in Num /\ RwSize \in Num
  BY <1>2, Bounds
<1>4. ASSUME NEW n \in Int PROVE n % NumMod \in Num
  <2>1. n % NumMod \in Nat /\ n % NumMod < NumMod
    BY DEF NumMod
  <2> QED BY <2>1, <1>2
<1>5. ASSUME NEW n \in Num PROVE Succ(n) \in Num
  BY <1>1, <1>4 DEF Succ
<1> QED BY <1>1, <1>2, <1>3, <1>4, <1>5

-----------------------------------------------------------------------------
(***************************************************************************)
(* Types of what the operators build.                                      *)
(***************************************************************************)
LEMMA BlankType ==
  ASSUME NEW e \in End, NEW op \in Ops
  PROVE  Blank(e, op) \in Packet
BY Peers, NumFacts DEF Blank, Packet

LEMMA NumberedType ==
  ASSUME NEW e \in End, NEW r \in Connection, NEW op \in ContOps, NEW n \in Num
  PROVE  /\ Numbered(e, r, op, n) \in Packet
         /\ Numbered(e, r, op, n).to = Peer(e)
         /\ Numbered(e, r, op, n).op = op
         /\ Numbered(e, r, op, n).pkn = n
         /\ Numbered(e, r, op, n).ackn = r.rread
         /\ Numbered(e, r, op, n).receipt = 0
         /\ Numbered(e, r, op, n).rwsize \in {0, RwSize}
BY Peers, NumFacts DEF Numbered, Blank, Packet, Connection, Ops

LEMMA StsType ==
  ASSUME NEW e \in End, NEW r \in Connection
  PROVE  /\ Sts(e, r) \in Packet
         /\ Sts(e, r).to = Peer(e) /\ Sts(e, r).op = "STS"
         /\ Sts(e, r).ackn = r.rread /\ Sts(e, r).receipt = r.rlast
         /\ Sts(e, r).rwsize = RwSize
BY Peers, NumFacts DEF Sts, Blank, Packet, Connection, Ops

LEMMA SetAckType ==
  ASSUME NEW r \in Connection
  PROVE  SetAck(r) \in Connection
BY DEF SetAck, Connection

LEMMA ReceiptType ==
  ASSUME NEW r \in Connection, NEW a \in Num, NEW b \in Num
  PROVE  Receipt(r, a, b) \in Connection
<1> DEFINE F == [r EXCEPT !.thead = {q \in @ : cmp_gt(q.pkn, b)}, !.trecvd = b]
<1>1. F \in Connection
  BY DEF Connection
<1>2. [F EXCEPT !.tacked = a] \in Connection /\ [r EXCEPT !.tacked = a] \in Connection
  BY <1>1 DEF Connection
<1> QED BY <1>1, <1>2 DEF Receipt

LEMMA XmitDoneType ==
  ASSUME NEW r \in Connection, NEW q \in Element(ContOps)
  PROVE  XmitDone(r, q) \in Connection
BY DEF XmitDone, Connection

LEMMA RetranType ==
  ASSUME NEW e \in End, NEW r \in Connection, NEW S \in SUBSET r.thead
  PROVE  Retran(e, r, S) \subseteq Packet
<1> SUFFICES ASSUME NEW q \in S PROVE Numbered(e, r, q.op, q.pkn) \in Packet
  BY DEF Retran
<1>1. q \in r.thead /\ q \in Element(ContOps)
  BY DEF Connection
<1>2. q.op \in ContOps /\ q.pkn \in Num
  BY <1>1 DEF Element
<1> QED BY <1>2, NumberedType

LEMMA LosType ==
  ASSUME NEW e \in End, NEW p \in Packet
  PROVE  Los(e, p) \subseteq Packet
BY BlankType DEF Los, Ops, EndOps

LEMMA LsnMatchType ==
  ASSUME NEW r \in Connection, NEW n \in Num
  PROVE  LsnMatch(r, n) \in Connection
<1>1. [op |-> "RFC", pkn |-> n] \in Queued
  BY DEF Queued, Element
<1>2. <<[op |-> "RFC", pkn |-> n]>> \in Seq(Queued)
  BY <1>1
<1> QED BY <1>2 DEF LsnMatch, Connection, States

LEMMA ClsConnType ==
  ASSUME NEW r \in Connection, NEW st \in States, NEW last \in Seq(Queued)
  PROVE  ClsConn(r, st, last) \in Connection
<1>1. r.rhead \o last \in Seq(Queued)
  BY DEF Connection
<1> QED BY <1>1 DEF ClsConn, Connection

LEMMA RlsConnType ==
  ASSUME NEW r \in Connection
  PROVE  RlsConn(r) \in Connection
<1>1. <<>> \in Seq(Queued)
  OBVIOUS
<1> QED BY <1>1 DEF RlsConn, Connection, States

LEMMA ChReadType ==
  ASSUME NEW e \in End, NEW r \in Connection, r.rhead # <<>>
  PROVE  /\ ChRead(e, r).conn \in Connection
         /\ ChRead(e, r).sts \subseteq Packet
         /\ Head(r.rhead) \in Queued
<1> DEFINE p == Head(r.rhead)
           n == [r EXCEPT !.rhead = Tail(@),
                          !.rread = IF p.op \in ContOps THEN p.pkn ELSE @]
<1>1. r.rhead \in Seq(Queued)
  BY DEF Connection
<1>2. p \in Queued /\ Tail(r.rhead) \in Seq(Queued)
  BY <1>1
<1>3. p.pkn \in Num
  BY <1>2 DEF Queued, Element
<1>4. n \in Connection
  BY <1>2, <1>3 DEF Connection
<1>5. SetAck(n) \in Connection /\ Sts(e, n) \in Packet
  BY <1>4, SetAckType, StsType
<1> HIDE DEF n
<1>6. ChRead(e, r).conn \in {n, SetAck(n)} /\ ChRead(e, r).sts \in {{}, {Sts(e, n)}}
  BY DEF ChRead, n
<1> QED BY <1>2, <1>4, <1>5, <1>6

LEMMA SetType ==
  ASSUME TypeOK, NEW e \in End, NEW r \in Connection, Set(e, r)
  PROVE  conn' \in [End -> Connection]
BY DEF TypeOK, Set

LEMMA ArriveType ==
  ASSUME TypeOK, NEW p \in net, NEW R \in SUBSET Packet, Arrive(p, R)
  PROVE  net' \subseteq Packet
BY DEF TypeOK, Arrive

LEMMA TransmitType ==
  ASSUME TypeOK, NEW e \in End, NEW r \in Connection, NEW op \in ContOps,
         NEW first \in SUBSET Packet, Transmit(e, r, op, first)
  PROVE  /\ conn' \in [End -> Connection]
         /\ net' \subseteq Packet
         /\ sent' \in [End -> Seq(ContOps)]
<1> DEFINE n == Succ(r.tlast)
           w == [r EXCEPT !.tlast = n, !.racked = r.rread]
<1>1. n \in Num
  BY NumFacts DEF Connection
<1>2. w \in Connection
  BY <1>1 DEF Connection
<1>3. [op |-> op, pkn |-> n] \in Element(ContOps)
  BY <1>1 DEF Element
<1>4. XmitDone(w, [op |-> op, pkn |-> n]) \in Connection
  BY <1>2, <1>3, XmitDoneType
<1>5. Numbered(e, r, op, n) \in Packet
  BY <1>1, NumberedType
<1>6. /\ conn' = [conn EXCEPT ![e] = XmitDone(w, [op |-> op, pkn |-> n])]
      /\ net' = net \cup first \cup {Numbered(e, r, op, n)}
      /\ sent' = [sent EXCEPT ![e] = Append(@, op)]
  BY DEF Transmit
<1> HIDE DEF n, w
<1>7. sent' \in [End -> Seq(ContOps)]
  BY <1>6 DEF TypeOK
<1>8. conn' \in [End -> Connection]
  BY <1>4, <1>6 DEF TypeOK
<1>9. net' \subseteq Packet
  BY <1>5, <1>6 DEF TypeOK
<1> QED BY <1>7, <1>8, <1>9

-----------------------------------------------------------------------------
(***************************************************************************)
(* Type correctness.                                                       *)
(***************************************************************************)
LEMMA FreshType == Fresh \in Connection
<1>1. <<>> \in Seq(Queued)
  OBVIOUS
<1> QED BY <1>1, NumFacts DEF Fresh, Connection, States

LEMMA TypeInit == Init => TypeOK
BY FreshType DEF Init, TypeOK

LEMMA SendTypes ==
  ASSUME TypeOK, NEW e \in End
  PROVE  /\ Open(e) => TypeOK'
         /\ Listen(e) => TypeOK'
         /\ Accept(e) => TypeOK'
         /\ \A op \in DataOps : Write(e, op) => TypeOK'
         /\ Consume(e) => TypeOK'
         /\ \A release \in BOOLEAN : Close(e, release) => TypeOK'
<1> USE DEF TypeOK
<1>1. conn[e] \in Connection
  OBVIOUS
<1>2. ASSUME Open(e) PROVE TypeOK'
  <2>1. [conn[e] EXCEPT !.state = "RFCSENT"] \in Connection
    BY <1>1 DEF Connection, States
  <2>2. "RFC" \in ContOps
    BY DEF ContOps
  <2> QED BY <1>2, <2>1, <2>2, TransmitType DEF Open
<1>3. ASSUME Listen(e) PROVE TypeOK'
  <2>1. LsnMatch(conn[e], 1) \in Connection
    BY <1>1, LsnMatchType, NumFacts
  <2>2. [conn[e] EXCEPT !.state = "LISTEN"] \in Connection
    BY <1>1 DEF Connection, States
  <2>3. CASE rfcq[e]
    BY <1>3, <2>1, <2>3 DEF Listen
  <2>4. CASE ~rfcq[e]
    <3>1. conn' = [conn EXCEPT ![e] = [conn[e] EXCEPT !.state = "LISTEN"]]
      BY <1>3, <2>4 DEF Listen
    <3>2. conn' \in [End -> Connection]
      BY <2>2, <3>1
    <3> QED BY <1>3, <2>4, <3>2 DEF Listen
  <2> QED BY <2>3, <2>4
<1>4. ASSUME Accept(e) PROVE TypeOK'
  <2> DEFINE read == IF conn[e].rhead # <<>> /\ Head(conn[e].rhead).op = "RFC"
                     THEN ChRead(e, conn[e]) ELSE [conn |-> conn[e], sts |-> {}]
             r == [read.conn EXCEPT !.state = "OPEN", !.tlast = 0]
  <2>1. read.conn \in Connection /\ read.sts \subseteq Packet
    BY <1>1, ChReadType
  <2>2. r \in Connection
    BY <2>1, NumFacts DEF Connection, States
  <2>3. Transmit(e, r, "OPN", read.sts)
    BY <1>4 DEF Accept
  <2>4. "OPN" \in ContOps
    BY DEF ContOps
  <2> HIDE DEF read, r
  <2>5. UNCHANGED <<lsn, rfcq, given>>
    BY <1>4 DEF Accept
  <2> QED BY <2>1, <2>2, <2>3, <2>4, <2>5, TransmitType
<1>5. ASSUME NEW op \in DataOps, Write(e, op) PROVE TypeOK'
  BY <1>1, <1>5, TransmitType DEF Write, ContOps
<1>6. ASSUME Consume(e) PROVE TypeOK'
  <2> DEFINE read == ChRead(e, conn[e])
             r == [read.conn EXCEPT !.input = @ /\ read.conn.rhead # <<>>]
  <2>1. read.conn \in Connection /\ read.sts \subseteq Packet
    BY <1>1, <1>6, ChReadType DEF Consume
  <2>2. r \in Connection
    BY <2>1 DEF Connection
  <2>3. /\ conn' = [conn EXCEPT ![e] = r] /\ net' = net \cup read.sts
        /\ UNCHANGED <<lsn, rfcq, sent>>
    BY <1>6 DEF Consume
  <2>4. given' \in [End -> Seq(DataOps)]
    BY <1>6 DEF Consume
  <2> QED BY <2>1, <2>2, <2>3, <2>4
<1>7. ASSUME NEW release \in BOOLEAN, Close(e, release) PROVE TypeOK'
  <2> DEFINE closed == IF conn[e].state \in {"OPEN", "RFCRCVD", "RFCSENT"}
                       THEN ClsConn(conn[e], "CLOSED", <<>>) ELSE conn[e]
             r == IF release THEN RlsConn(closed) ELSE closed
             cls == [Blank(e, "CLS") EXCEPT !.didx = conn[e].fidx]
  <2>1. closed \in Connection
    <3>1. <<>> \in Seq(Queued) /\ "CLOSED" \in States
      BY DEF States
    <3> QED BY <1>1, <3>1, ClsConnType
  <2>2. r \in Connection
    BY <2>1, RlsConnType
  <2>3. cls \in Packet
    <3>1. Blank(e, "CLS") \in Packet
      BY BlankType DEF Ops, EndOps
    <3> QED BY <1>1, <3>1 DEF Packet, Connection
  <2>4. /\ conn' = [conn EXCEPT ![e] = r] /\ lsn' = [lsn EXCEPT ![e] = FALSE]
        /\ net' = net \/ net' = net \cup {cls}
        /\ UNCHANGED <<rfcq, sent, given>>
    BY <1>7 DEF Close
  <2> HIDE DEF r, cls
  <2> QED BY <2>2, <2>3, <2>4
<1> QED BY <1>2, <1>3, <1>4, <1>5, <1>6, <1>7

(* The fields of a packet and of a connection, for the steps below. *)
LEMMA PacketFields ==
  ASSUME NEW p \in Packet
  PROVE  /\ p.to \in End /\ p.op \in Ops /\ p.pkn \in Num /\ p.ackn \in Num
         /\ p.receipt \in Num /\ p.rwsize \in Num /\ p.didx \in BOOLEAN
BY DEF Packet

LEMMA RetranStepType ==
  ASSUME NEW e \in End, NEW r \in Connection, NEW S \in Aged(e, r)
  PROVE  /\ S \in SUBSET r.thead
         /\ Told(r, S) \in Connection
         /\ Retran(e, r, S) \subseteq Packet
<1>1. S \in SUBSET r.thead
  BY DEF Aged
<1> QED BY <1>1, SetAckType, RetranType DEF Told

LEMMA ReceivedType ==
  ASSUME TypeOK, NEW p \in net
  PROVE  /\ p \in Packet /\ p.to \in End /\ conn[p.to] \in Connection
         /\ Receipted(p) \in Connection
         /\ Sts(p.to, Receipted(p)) \in Packet
         /\ Los(p.to, p) \subseteq Packet
<1>1. p \in Packet /\ p.to \in End /\ conn[p.to] \in Connection
  BY PacketFields DEF TypeOK
<1>2. Receipted(p) \in Connection
  BY <1>1, PacketFields, ReceiptType DEF Receipted
<1> QED BY <1>1, <1>2, StsType, LosType

LEMMA ReceiveTypes ==
  ASSUME TypeOK, NEW p \in net, RcvPkt(p)
  PROVE  TypeOK'
<1> DEFINE e == p.to
<1>1. /\ p \in Packet /\ e \in End /\ conn[e] \in Connection
      /\ Receipted(p) \in Connection
      /\ Sts(e, Receipted(p)) \in Packet
      /\ Los(e, p) \in SUBSET Packet
  BY ReceivedType
<1>2. /\ p.op \in Ops /\ p.pkn \in Num /\ p.ackn \in Num
      /\ p.receipt \in Num /\ p.rwsize \in Num
  BY <1>1, PacketFields
<1>3. SUFFICES /\ conn' \in [End -> Connection] /\ lsn' \in [End -> BOOLEAN]
               /\ rfcq' \in [End -> BOOLEAN] /\ net' \subseteq Packet
               /\ UNCHANGED <<sent, given>>
  BY DEF TypeOK
<1>4. {} \in SUBSET Packet
  OBVIOUS
<1>5. ASSUME p.op \in EndOps PROVE <<[op |-> p.op, pkn |-> 0]>> \in Seq(Queued)
  BY <1>5, NumFacts DEF Queued, Element
<1>6. CASE RcvDupRFC(p)
  <2>1. PICK S \in SUBSET conn[e].thead :
          /\ S \in Aged(e, conn[e]) \/ S = {}
          /\ Set(e, Told(conn[e], S)) /\ Arrive(p, Retran(e, conn[e], S))
    BY <1>1, <1>6 DEF RcvDupRFC, Aged
  <2>2. Told(conn[e], S) \in Connection /\ Retran(e, conn[e], S) \in SUBSET Packet
    BY <1>1, SetAckType, RetranType DEF Told
  <2> QED BY <1>1, <1>6, <2>1, <2>2, SetType, ArriveType DEF RcvDupRFC, TypeOK
<1>7. CASE RcvRFC(p)
  <2>1. net' \subseteq Packet
    BY <1>4, <1>7, ArriveType DEF RcvRFC, Await
  <2>2. LsnMatch(conn[e], p.pkn) \in Connection
    BY <1>1, <1>2, LsnMatchType
  <2>3. conn' \in [End -> Connection]
    BY <1>1, <1>7, <2>2, SetType DEF RcvRFC, Await, TypeOK
  <2> QED BY <1>1, <1>7, <2>1, <2>3 DEF RcvRFC, Await, TypeOK
<1>8. CASE RcvForNone(p)
  BY <1>1, <1>8, ArriveType DEF RcvForNone, TypeOK
<1>9. CASE RcvOPN(p)
  <2> DEFINE o == [conn[e] EXCEPT !.state = "OPEN", !.fidx = TRUE,
                                  !.rread = p.pkn, !.rlast = p.pkn,
                                  !.twsize = p.rwsize]
             r == Receipt(o, p.ackn, p.ackn)
  <2>1. o \in Connection
    BY <1>1, <1>2 DEF Connection, States
  <2>2. r \in Connection
    BY <1>2, <2>1, ReceiptType
  <2>3. Set(e, SetAck(r)) /\ Arrive(p, {Sts(e, r)}) /\ UNCHANGED <<lsn, rfcq, sent, given>>
    BY <1>9 DEF RcvOPN
  <2> HIDE DEF o, r
  <2>4. SetAck(r) \in Connection /\ {Sts(e, r)} \in SUBSET Packet
    BY <1>1, <2>2, SetAckType, StsType
  <2>5. conn' \in [End -> Connection] /\ net' \subseteq Packet
    BY <1>1, <2>3, <2>4, SetType, ArriveType
  <2> QED BY <2>3, <2>5 DEF TypeOK
<1>10. CASE RcvRefusal(p)
  <2> DEFINE r == ClsConn(conn[e], "CLOSED", <<[op |-> p.op, pkn |-> 0]>>)
  <2>1. r \in Connection
    BY <1>1, <1>5, <1>10, ClsConnType DEF RcvRefusal, States, EndOps
  <2>2. Set(e, r) /\ Arrive(p, {}) /\ UNCHANGED <<lsn, rfcq, sent, given>>
    BY <1>10 DEF RcvRefusal
  <2> QED BY <1>1, <1>4, <2>1, <2>2, SetType, ArriveType DEF TypeOK
<1>11. CASE RcvBadReply(p)
  BY <1>1, <1>11, ArriveType DEF RcvBadReply, TypeOK
<1>12. CASE RcvOutOfWindow(p) \/ RcvDupOPN(p)
  BY <1>1, <1>4, <1>12, ArriveType DEF RcvOutOfWindow, RcvDupOPN, TypeOK
<1>13. CASE RcvDuplicate(p) \/ RcvSNS(p)
  <2>1. Set(e, SetAck(Receipted(p))) /\ Arrive(p, {Sts(e, Receipted(p))})
        /\ UNCHANGED <<lsn, rfcq, sent, given>>
    BY <1>13 DEF RcvDuplicate, RcvSNS
  <2>2. SetAck(Receipted(p)) \in Connection
    BY <1>1, SetAckType
  <2>3. {Sts(e, Receipted(p))} \in SUBSET Packet
    BY <1>1
  <2> QED BY <1>1, <2>1, <2>2, <2>3, SetType, ArriveType DEF TypeOK
<1>14. CASE RcvInOrder(p)
  <2> DEFINE r == Receipted(p)
             q == r.routorder \cup {[op |-> p.op, pkn |-> p.pkn]}
  <2>1. r \in Connection
    BY <1>1
  <2>2. q \in SUBSET Element(DataOps)
    BY <1>2, <1>14, <2>1 DEF RcvInOrder, Element, Connection
  <2>3. PICK k \in 1 .. Cardinality(q) : \E run \in [1 .. k -> q] :
          Set(e, Deliver(e, r, run, k, q))
    BY <1>14 DEF RcvInOrder
  <2>4. PICK run \in [1 .. k -> q] :
          Set(e, Deliver(e, r, run, k, q))
    BY <2>3
  <2> HIDE DEF r, q
  <2>5. run \in Seq(Queued)
    <3>1. q \subseteq Queued
      BY <2>2 DEF Queued, Element
    <3>2. k \in Nat
      BY <2>3
    <3> QED BY <3>1, <3>2, <2>4
  <2>6. r.rhead \o run \in Seq(Queued)
    BY <2>1, <2>5 DEF Connection
  <2>7. (r.rlast + k) % NumMod \in Num
    <3>1. r.rlast + k \in Int
      BY <2>1, <2>3, NumFacts DEF Connection
    <3> QED BY <3>1, NumFacts
  <2>8. {x \in q : \A i \in 1 .. k : x # run[i]} \in SUBSET Element(DataOps)
    BY <2>2
  <2>9. conn' \in [End -> Connection]
    <3>1. Deliver(e, r, run, k, q) \in Connection
      BY <2>1, <2>6, <2>7, <2>8 DEF Connection, Deliver
    <3> QED BY <1>1, <2>4, <3>1, SetType
  <2>10. Arrive(p, {}) /\ UNCHANGED <<lsn, rfcq, sent, given>>
    BY <1>14 DEF RcvInOrder
  <2> QED BY <1>1, <1>4, <2>9, <2>10, ArriveType DEF TypeOK
<1>15. CASE RcvEarly(p)
  <2> DEFINE r == [Receipted(p) EXCEPT !.routorder = @ \cup {[op |-> p.op, pkn |-> p.pkn]}]
  <2>1. r \in Connection
    <3>1. [op |-> p.op, pkn |-> p.pkn] \in Element(DataOps)
      BY <1>2, <1>15 DEF RcvEarly, Element
    <3> QED BY <1>1, <3>1 DEF Connection
  <2>2. Set(e, r) /\ Arrive(p, {}) /\ UNCHANGED <<lsn, rfcq, sent, given>>
    BY <1>15 DEF RcvEarly
  <2> QED BY <1>1, <1>4, <2>1, <2>2, SetType, ArriveType DEF TypeOK
<1>16. CASE RcvEnd(p)
  <2> DEFINE r == ClsConn(conn[e], IF p.op = "CLS" THEN "CLOSED" ELSE "LOST",
                          <<[op |-> p.op, pkn |-> 0]>>)
  <2>1. r \in Connection
    BY <1>1, <1>5, <1>16, ClsConnType DEF RcvEnd, States
  <2>2. Set(e, r) /\ Arrive(p, {}) /\ UNCHANGED <<lsn, rfcq, sent, given>>
    BY <1>16 DEF RcvEnd
  <2> QED BY <1>1, <1>4, <2>1, <2>2, SetType, ArriveType DEF TypeOK
<1>17. CASE RcvSTS(p)
  <2> DEFINE t == [conn[e] EXCEPT !.twsize = p.rwsize]
             r == Receipt(t, p.ackn, p.receipt)
  <2>1. t \in Connection
    BY <1>1, <1>2 DEF Connection
  <2>2. r \in Connection
    BY <1>2, <2>1, ReceiptType
  <2>3. PICK S \in Aged(e, r) : Set(e, Told(r, S)) /\ Arrive(p, Retran(e, r, S))
    BY <1>17 DEF RcvSTS
  <2>4. Told(r, S) \in Connection /\ Retran(e, r, S) \in SUBSET Packet
    BY <1>1, <2>2, RetranStepType
  <2>5. UNCHANGED <<lsn, rfcq, sent, given>>
    BY <1>17 DEF RcvSTS
  <2> HIDE DEF t, r
  <2> QED BY <1>1, <2>3, <2>4, <2>5, SetType, ArriveType DEF TypeOK
<1> QED BY <1>6, <1>7, <1>8, <1>9, <1>10, <1>11, <1>12, <1>13, <1>14, <1>15,
           <1>16, <1>17 DEF RcvPkt

LEMMA ClockTypes ==
  ASSUME TypeOK, NEW e \in End, ChClock(e)
  PROVE  TypeOK'
<1> DEFINE sns == [Blank(e, "SNS") EXCEPT !.ackn = conn[e].rread]
<1>1. conn[e] \in Connection
  BY DEF TypeOK
<1>2. PICK S \in Aged(e, conn[e]) :
        LET r   == Told(conn[e], S)
            out == net \cup Retran(e, conn[e], S)
        IN  \/ Set(e, r) /\ net' = out
            \/ Set(e, SetAck(r)) /\ net' = out \cup {[Blank(e, "SNS") EXCEPT !.ackn = r.rread]}
            \/ Set(e, ClsConn(r, "INCT", <<>>)) /\ net' = out
  BY DEF ChClock
<1>3. Told(conn[e], S) \in Connection /\ Retran(e, conn[e], S) \subseteq Packet
  BY <1>1, RetranStepType
<1>4. SetAck(Told(conn[e], S)) \in Connection
  BY <1>3, SetAckType
<1>5. ClsConn(Told(conn[e], S), "INCT", <<>>) \in Connection
  <2>1. <<>> \in Seq(Queued) /\ "INCT" \in States
    BY DEF States
  <2> QED BY <1>3, <2>1, ClsConnType
<1>6. Told(conn[e], S).rread = conn[e].rread
  BY <1>1 DEF Told, SetAck, Connection
<1>7. sns \in Packet
  <2>1. Blank(e, "SNS") \in Packet
    BY BlankType DEF Ops
  <2> QED BY <1>1, <2>1 DEF Packet, Connection
<1> HIDE DEF sns
<1>8. conn' \in [End -> Connection]
  BY <1>2, <1>3, <1>4, <1>5, SetType
<1>9. net' \subseteq Packet
  <2>1. net' \subseteq net \cup Retran(e, conn[e], S) \cup {sns}
    BY <1>2, <1>6 DEF sns
  <2> QED BY <1>3, <1>7, <2>1 DEF TypeOK
<1>10. UNCHANGED <<lsn, rfcq, sent, given>>
  BY DEF ChClock
<1> QED BY <1>8, <1>9, <1>10 DEF TypeOK

LEMMA TypeStep == TypeOK /\ [Next]_vars => TypeOK'
<1> SUFFICES ASSUME TypeOK, [Next]_vars PROVE TypeOK'
  OBVIOUS
<1>1. CASE Open(User) \/ Listen(Server) \/ Accept(Server)
  BY <1>1, SendTypes DEF End
<1>2. CASE \E e \in End : \E op \in DataOps : Write(e, op)
  BY <1>2, SendTypes
<1>3. CASE \E e \in End : ServerInput(e) \/ UserRead(e)
  BY <1>3, SendTypes DEF ServerInput, UserRead
<1>4. CASE \E e \in End : \E release \in BOOLEAN : Close(e, release)
  BY <1>4, SendTypes
<1>5. CASE \E e \in End : ChClock(e)
  BY <1>5, ClockTypes
<1>6. CASE \E p \in net : RcvPkt(p)
  BY <1>6, ReceiveTypes
<1>7. CASE \E p \in net : Lose(p)
  BY <1>7 DEF Lose, TypeOK
<1>8. CASE UNCHANGED vars
  BY <1>8 DEF vars, TypeOK
<1> QED BY <1>1, <1>2, <1>3, <1>4, <1>5, <1>6, <1>7, <1>8 DEF Next

(* Every variable keeps its type, for all windows, bounds and networks. *)
THEOREM TypeCorrect == Spec => []TypeOK
BY TypeInit, TypeStep, PTL DEF Spec

-----------------------------------------------------------------------------
(***************************************************************************)
(* The inductive invariant.                                                *)
(*                                                                         *)
(* Sender and Receiver say what the two halves of a connection structure   *)
(* hold: r is the structure of end e, s the peer's, S what e has sent, P   *)
(* what the peer has sent and g what e's user was given.                   *)
(***************************************************************************)
Sender(e, r, s, S) ==
  /\ r.tlast = Len(S)
  /\ r.trecvd <= s.rlast /\ r.tacked <= s.rread
  /\ r.twsize <= RwSize
  /\ e \notin Hasty => Len(S) <= r.tacked + RwSize
  /\ \A q \in r.thead : q.pkn \in 1 .. Len(S) /\ S[q.pkn] = q.op
  /\ r.state \in {"OPEN", "RFCSENT"} =>
       \A n \in 1 .. Len(S) :
         n <= r.trecvd \/ [op |-> S[n], pkn |-> n] \in r.thead
  /\ r.state \in {"NONE", "LISTEN", "RFCRCVD"} => S = <<>>

(* rhead holds the data that follows what was read; or the RFC alone; a    *)
(* CLS or LOS comes last, when the connection has ended.                   *)
InPlace(r, P, i) ==
  LET q == r.rhead[i]
  IN  \/ /\ q.op \in DataOps /\ r.rread >= 1
         /\ q.pkn = r.rread + i /\ q.pkn <= r.rlast /\ q.op = P[q.pkn]
      \/ /\ q.op = "RFC" /\ q.pkn = 1 /\ Len(r.rhead) = 1
         /\ r.rread = 1 /\ r.rlast = 1
      \/ /\ q.op \in EndOps /\ i = Len(r.rhead)
         /\ r.state \in {"CLOSED", "LOST"}

Receiver(e, r, P, g) ==
  /\ r.racked <= r.rread /\ r.rread <= r.rlast /\ r.rlast <= Len(P)
  /\ \A i \in 1 .. Len(r.rhead) : InPlace(r, P, i)
  /\ \A q \in r.routorder : q.pkn \in 1 .. Len(P) /\ P[q.pkn] = q.op
  /\ Len(g) = (IF r.rread = 0 THEN 0 ELSE r.rread - 1)
  /\ \A i \in 1 .. Len(g) : g[i] = P[i + 1]
  /\ r.state \in {"NONE", "LISTEN", "RFCSENT"} => r.rlast = 0 /\ r.rhead = <<>>
  /\ r.state = "RFCRCVD" => r.rread = 1 /\ r.rlast = 1
  /\ r.state = "OPEN" => r.rread >= 1 /\ Len(r.rhead) = r.rlast - r.rread
  /\ e = User => r.state \notin {"LISTEN", "RFCRCVD"}
  /\ e = Server => r.state # "RFCSENT"

(* A numbered packet in the network is one its sender has sent; what it    *)
(* acknowledges and receipts has been read and received.  s is the sender, *)
(* S what it has sent.                                                     *)
Sound(p, s, S) ==
  /\ p.op \in ContOps => p.pkn \in 1 .. Len(S) /\ S[p.pkn] = p.op
  /\ p.ackn <= s.rread /\ p.receipt <= s.rlast
  /\ p.rwsize <= RwSize

InFlight(p) == Sound(p, conn[Peer(p.to)], sent[Peer(p.to)])

(* The RFC and the OPN are the first packets of the User and the Server.   *)
Opening(e, S) ==
  /\ Len(S) <= MaxPkts
  /\ \A n \in 1 .. Len(S) : /\ S[n] = "RFC" => e = User /\ n = 1
                            /\ S[n] = "OPN" => e = Server /\ n = 1

Waiting(e) ==
  /\ lsn[e] => conn[e].state = "LISTEN"
  /\ rfcq[e] => e = Server /\ Len(sent[Peer(e)]) >= 1

IInv ==
  /\ TypeOK
  /\ \A e \in End : /\ Sender(e, conn[e], conn[Peer(e)], sent[e])
                    /\ Receiver(e, conn[e], sent[Peer(e)], given[e])
                    /\ Opening(e, sent[e])
                    /\ Waiting(e)
  /\ \A p \in net : InFlight(p)

-----------------------------------------------------------------------------
(***************************************************************************)
(* What the operators of ChaosConn do to the two halves.                   *)
(***************************************************************************)
(* In the first half turn of the circle cmp_gt is the order of the numbers.*)
LEMMA Compare ==
  \A a, b \in Nat : a < NumHalf /\ b < NumHalf => (cmp_gt(a, b) <=> a > b)
BY DEF cmp_gt, NumMod, NumHalf

LEMMA CompareLe ==
  \A a, b \in Nat : a < NumHalf /\ b < NumHalf => (cmp_le(a, b) <=> a <= b)
BY Compare DEF cmp_le

LEMMA Small ==
  \A n \in Nat : n <= MaxPkts + RwSize => n < NumHalf /\ n \in Num
                   /\ n % NumMod = n
<1> SUFFICES ASSUME NEW n \in Nat, n <= MaxPkts + RwSize
             PROVE  n < NumHalf /\ n \in Num /\ n % NumMod = n
  OBVIOUS
<1>1. n < NumHalf /\ n < NumMod
  BY Bounds
<1>2. n \in Num
  BY <1>1, NumFacts
<1>3. n % NumMod = n
  BY <1>1 DEF NumMod
<1> QED BY <1>1, <1>2, <1>3

LEMMA SmallSucc ==
  \A n \in Nat : n < MaxPkts => Succ(n) = n + 1
BY Small, Bounds DEF Succ

LEMMA ConnNumbers ==
  ASSUME NEW r \in Connection
  PROVE  /\ r.tlast \in Nat /\ r.trecvd \in Nat /\ r.tacked \in Nat /\ r.twsize \in Nat
         /\ r.rlast \in Nat /\ r.rread \in Nat /\ r.racked \in Nat
         /\ r.rhead \in Seq(Queued)
BY NumFacts DEF Connection

LEMMA Concat ==
  ASSUME NEW T, NEW s \in Seq(T), NEW t \in Seq(T)
  PROVE  /\ s \o t \in Seq(T) /\ Len(s \o t) = Len(s) + Len(t)
         /\ \A i \in 1 .. Len(s) : (s \o t)[i] = s[i]
         /\ \A i \in 1 .. Len(t) : (s \o t)[Len(s) + i] = t[i]
OBVIOUS

LEMMA Single ==
  ASSUME NEW T, NEW s \in Seq(T), Len(s) = 1
  PROVE  Head(s) = s[1] /\ Tail(s) = <<>>
<1>1. s # <<>>
  <2>1. Len(<<>>) = 0 /\ 0 # 1
    OBVIOUS
  <2> QED BY <2>1, Zenon
<1>2. Tail(s) \in Seq(T) /\ Len(Tail(s)) = 0
  BY <1>1
<1>3. \A x \in Seq(T) : Len(x) = 0 => x = <<>>
  OBVIOUS
<1>4. Tail(s) = <<>>
  BY <1>2, <1>3
<1>5. Head(s) = s[1]
  BY <1>1
<1> QED BY <1>4, <1>5

(* The halves depend on these fields only. *)
LEMMA SenderSame ==
  ASSUME NEW e, NEW r, NEW r2, NEW s, NEW S, Sender(e, r, s, S),
         r2.tlast = r.tlast, r2.trecvd = r.trecvd, r2.tacked = r.tacked,
         r2.twsize = r.twsize, r2.thead = r.thead, r2.state = r.state
  PROVE  Sender(e, r2, s, S)
BY DEF Sender

LEMMA ReceiverSame ==
  ASSUME NEW e, NEW r, NEW r2, NEW P, NEW g, Receiver(e, r, P, g),
         r2.rlast = r.rlast, r2.racked = r.racked, r2.rread = r.rread,
         r2.rhead = r.rhead, r2.routorder = r.routorder, r2.state = r.state
  PROVE  Receiver(e, r2, P, g)
BY DEF Receiver, InPlace

(* receipt() leaves the receiver's half alone. *)
LEMMA ReceiptFields ==
  ASSUME NEW r \in Connection, NEW a \in Num, NEW b \in Num
  PROVE  LET t == Receipt(r, a, b)
         IN  /\ t.state = r.state /\ t.fidx = r.fidx /\ t.twsize = r.twsize
             /\ t.tlast = r.tlast /\ t.rlast = r.rlast /\ t.racked = r.racked
             /\ t.rread = r.rread /\ t.rhead = r.rhead
             /\ t.routorder = r.routorder /\ t.input = r.input
             /\ t.trecvd = (IF cmp_gt(b, r.trecvd) THEN b ELSE r.trecvd)
             /\ t.tacked = (IF cmp_gt(a, r.tacked) /\ cmp_le(a, r.tlast)
                            THEN a ELSE r.tacked)
             /\ t.thead = (IF cmp_gt(b, r.trecvd)
                           THEN {q \in r.thead : cmp_gt(q.pkn, b)} ELSE r.thead)
BY DEF Receipt, Connection

LEMMA ReceiptSender ==
  ASSUME NEW e, NEW r \in Connection, NEW s \in Connection, NEW S \in Seq(ContOps),
         NEW a \in Num, NEW b \in Num,
         Sender(e, r, s, S), Len(S) <= MaxPkts,
         s.rread <= s.rlast, s.rlast <= Len(S), a <= s.rread, b <= s.rlast
  PROVE  /\ Sender(e, Receipt(r, a, b), s, S)
         /\ r.trecvd <= Receipt(r, a, b).trecvd
         /\ r.tacked <= Receipt(r, a, b).tacked
<1> DEFINE t == Receipt(r, a, b)
<1>1. /\ r.trecvd \in Nat /\ r.tacked \in Nat /\ r.tlast \in Nat /\ a \in Nat /\ b \in Nat
      /\ s.rread \in Nat /\ s.rlast \in Nat /\ Len(S) \in Nat
  BY ConnNumbers, NumFacts
<1>2. /\ r.tlast = Len(S) /\ r.trecvd <= s.rlast /\ r.tacked <= s.rread
      /\ \A q \in r.thead : q.pkn \in 1 .. Len(S) /\ S[q.pkn] = q.op
  BY DEF Sender
<1>3. \A n \in Nat : n <= Len(S) => n <= MaxPkts + RwSize
  BY <1>1, Bounds
<1>4. /\ cmp_gt(b, r.trecvd) <=> b > r.trecvd
      /\ cmp_gt(a, r.tacked) <=> a > r.tacked
      /\ \A n \in 1 .. Len(S) : cmp_gt(n, b) <=> n > b
  BY <1>1, <1>2, <1>3, Small, Compare
<1>5. /\ t.state = r.state /\ t.tlast = r.tlast /\ t.twsize = r.twsize
      /\ t.trecvd = (IF b > r.trecvd THEN b ELSE r.trecvd)
      /\ t.tacked = a \/ t.tacked = r.tacked
      /\ t.tacked = a => a > r.tacked \/ a = r.tacked
      /\ t.thead = (IF b > r.trecvd THEN {q \in r.thead : q.pkn > b} ELSE r.thead)
  <2>1. /\ t.state = r.state /\ t.tlast = r.tlast /\ t.twsize = r.twsize
        /\ t.trecvd = (IF cmp_gt(b, r.trecvd) THEN b ELSE r.trecvd)
        /\ t.tacked = (IF cmp_gt(a, r.tacked) /\ cmp_le(a, r.tlast)
                       THEN a ELSE r.tacked)
        /\ t.thead = (IF cmp_gt(b, r.trecvd)
                      THEN {q \in r.thead : cmp_gt(q.pkn, b)} ELSE r.thead)
    BY ReceiptFields
  <2>2. {q \in r.thead : cmp_gt(q.pkn, b)} = {q \in r.thead : q.pkn > b}
    BY <1>2, <1>4
  <2> HIDE DEF t
  <2> QED BY <1>4, <2>1, <2>2
<1> HIDE DEF t
<1>6. /\ t.trecvd <= s.rlast /\ t.tacked <= s.rread
      /\ r.trecvd <= t.trecvd /\ r.tacked <= t.tacked
  BY <1>1, <1>2, <1>5
<1>7. e \notin Hasty => Len(S) <= t.tacked + RwSize
  BY <1>1, <1>5, <1>6, Bounds DEF Sender
<1>8. \A q \in t.thead : q.pkn \in 1 .. Len(S) /\ S[q.pkn] = q.op
  BY <1>2, <1>5
<1>9. ASSUME t.state \in {"OPEN", "RFCSENT"}, NEW n \in 1 .. Len(S)
      PROVE  n <= t.trecvd \/ [op |-> S[n], pkn |-> n] \in t.thead
  <2>1. n <= r.trecvd \/ [op |-> S[n], pkn |-> n] \in r.thead
    BY <1>5, <1>9 DEF Sender
  <2> QED BY <1>1, <1>5, <2>1
<1>10. /\ t.tlast = Len(S) /\ t.twsize <= RwSize
       /\ t.state \in {"NONE", "LISTEN", "RFCRCVD"} => S = <<>>
  BY <1>5 DEF Sender
<1>11. Sender(e, t, s, S)
  BY <1>6, <1>7, <1>8, <1>9, <1>10 DEF Sender
<1> QED BY <1>6, <1>11 DEF t

(* The connection after Transmit. *)
Sent(r, op) ==
  XmitDone([r EXCEPT !.tlast = Succ(r.tlast), !.racked = r.rread],
           [op |-> op, pkn |-> Succ(r.tlast)])

(* Transmit() of a connection whose sender half is in order: the packet    *)
(* gets the next number and goes onto thead.                               *)
LEMMA TransmitSender ==
  ASSUME NEW e, NEW r \in Connection, NEW s \in Connection, NEW S \in Seq(ContOps),
         NEW op \in ContOps,
         Sender(e, r, s, S), Len(S) < MaxPkts,
         s.rlast <= Len(S), s.rread <= s.rlast,
         r.state \in {"OPEN", "RFCSENT"},
         e \notin Hasty => Len(S) < r.tacked + RwSize
  PROVE  /\ Succ(r.tlast) = Len(S) + 1
         /\ Sender(e, Sent(r, op), s, Append(S, op))
         /\ Sent(r, op).rlast = r.rlast /\ Sent(r, op).rread = r.rread
         /\ Sent(r, op).rhead = r.rhead /\ Sent(r, op).routorder = r.routorder
         /\ Sent(r, op).state = r.state /\ Sent(r, op).racked = r.rread
<1> DEFINE n == Succ(r.tlast)
           q == [op |-> op, pkn |-> n]
           v == [r EXCEPT !.tlast = n, !.racked = r.rread]
           w == XmitDone(v, q)
           T == Append(S, op)
<1>1. /\ r.tlast = Len(S) /\ Len(S) \in Nat /\ r.trecvd \in Nat /\ r.tacked \in Nat
      /\ s.rlast \in Nat /\ s.rread \in Nat /\ r.trecvd <= s.rlast
  BY ConnNumbers DEF Sender
<1>2. n = Len(S) + 1
  BY <1>1, SmallSucc
<1> HIDE DEF n
<1>3. cmp_gt(n, r.trecvd)
  <2>1. n \in Nat /\ n <= MaxPkts + RwSize /\ r.trecvd < n
    BY <1>1, <1>2, Bounds
  <2>2. n < NumHalf /\ r.trecvd < NumHalf
    BY <1>1, <2>1, Small, Bounds
  <2> QED BY <1>1, <2>1, <2>2, Compare
<1>4. w = [v EXCEPT !.thead = @ \cup {q}]
  <2>1. v.state = r.state /\ v.trecvd = r.trecvd
    BY DEF Connection
  <2>2. q.pkn = n
    OBVIOUS
  <2> HIDE DEF v, q
  <2> QED BY <1>3, <2>1, <2>2 DEF XmitDone
<1>5. /\ w.tlast = n /\ w.trecvd = r.trecvd /\ w.tacked = r.tacked
      /\ w.twsize = r.twsize /\ w.state = r.state /\ w.thead = r.thead \cup {q}
      /\ w.rlast = r.rlast /\ w.rread = r.rread /\ w.rhead = r.rhead
      /\ w.routorder = r.routorder /\ w.racked = r.rread
  BY <1>4 DEF Connection
<1>6. q.pkn = n /\ q.op = op
  OBVIOUS
<1>7. Len(T) = n /\ T[n] = op /\ \A i \in 1 .. Len(S) : T[i] = S[i]
  BY <1>1, <1>2
<1> HIDE DEF w, v, T
<1>8. \A x \in w.thead : x.pkn \in 1 .. Len(T) /\ T[x.pkn] = x.op
  <2>1. \A x \in r.thead : x.pkn \in 1 .. Len(S) /\ S[x.pkn] = x.op
    BY DEF Sender
  <2> QED BY <1>1, <1>2, <1>5, <1>6, <1>7, <2>1
<1>9. ASSUME NEW i \in 1 .. Len(T)
      PROVE  i <= w.trecvd \/ [op |-> T[i], pkn |-> i] \in w.thead
  <2>1. CASE i = n
    BY <1>5, <1>7, <2>1
  <2>2. CASE i # n
    <3>1. i \in 1 .. Len(S)
      BY <1>1, <1>2, <1>7, <2>2
    <3>2. i <= r.trecvd \/ [op |-> S[i], pkn |-> i] \in r.thead
      BY <3>1 DEF Sender
    <3> QED BY <1>5, <1>7, <3>1, <3>2
  <2> QED BY <2>1, <2>2
<1>10. e \notin Hasty => Len(T) <= w.tacked + RwSize
  BY <1>1, <1>2, <1>5, <1>7, Bounds
<1>11. /\ w.tlast = Len(T) /\ w.trecvd <= s.rlast /\ w.tacked <= s.rread
       /\ w.twsize <= RwSize
       /\ w.state \in {"NONE", "LISTEN", "RFCRCVD"} => T = <<>>
  BY <1>5, <1>7 DEF Sender
<1>12. Sender(e, w, s, T)
  BY <1>8, <1>9, <1>10, <1>11 DEF Sender
<1> QED BY <1>2, <1>5, <1>12 DEF w, v, T, n, q, Sent

LEMMA ChReadFields ==
  ASSUME NEW e \in End, NEW r \in Connection, r.rhead # <<>>
  PROVE  /\ ChRead(e, r).conn.state = r.state /\ ChRead(e, r).conn.fidx = r.fidx
         /\ ChRead(e, r).conn.twsize = r.twsize /\ ChRead(e, r).conn.tlast = r.tlast
         /\ ChRead(e, r).conn.trecvd = r.trecvd /\ ChRead(e, r).conn.tacked = r.tacked
         /\ ChRead(e, r).conn.thead = r.thead /\ ChRead(e, r).conn.rlast = r.rlast
         /\ ChRead(e, r).conn.routorder = r.routorder
         /\ ChRead(e, r).conn.input = r.input
         /\ ChRead(e, r).conn.rhead = Tail(r.rhead)
         /\ ChRead(e, r).conn.rread = (IF Head(r.rhead).op \in ContOps
                                       THEN Head(r.rhead).pkn ELSE r.rread)
         /\ ChRead(e, r).conn.racked \in {r.racked, ChRead(e, r).conn.rread}
         /\ \A x \in ChRead(e, r).sts : x = Sts(e, ChRead(e, r).conn)
<1> DEFINE p == Head(r.rhead)
           n == [r EXCEPT !.rhead = Tail(@),
                          !.rread = IF p.op \in ContOps THEN p.pkn ELSE @]
           c == ChRead(e, r).conn
<1>1. /\ n.state = r.state /\ n.fidx = r.fidx /\ n.twsize = r.twsize
      /\ n.tlast = r.tlast /\ n.trecvd = r.trecvd /\ n.tacked = r.tacked
      /\ n.thead = r.thead /\ n.rlast = r.rlast /\ n.routorder = r.routorder
      /\ n.input = r.input /\ n.racked = r.racked
      /\ n.rhead = Tail(r.rhead)
      /\ n.rread = (IF p.op \in ContOps THEN p.pkn ELSE r.rread)
  BY DEF Connection
<1>2. n \in Connection
  <2>1. r.rhead \in Seq(Queued)
    BY DEF Connection
  <2>2. p \in Queued /\ Tail(r.rhead) \in Seq(Queued)
    BY <2>1
  <2>3. p.pkn \in Num
    BY <2>2 DEF Queued, Element
  <2> QED BY <2>2, <2>3 DEF Connection
<1>3. \/ /\ c = n
         /\ ChRead(e, r).sts = {}
      \/ /\ c = SetAck(n)
         /\ ChRead(e, r).sts = {Sts(e, n)}
  <2> DEFINE tell == p.op \in ContOps /\ TellsPeer(n, p.op)
  <2>1. ChRead(e, r) = [conn |-> IF tell THEN SetAck(n) ELSE n,
                        sts |-> IF tell THEN {Sts(e, n)} ELSE {}]
    BY DEF ChRead
  <2> HIDE DEF tell, n
  <2> QED BY <2>1
<1> HIDE DEF n, c
<1>4. /\ SetAck(n).state = n.state /\ SetAck(n).fidx = n.fidx
      /\ SetAck(n).twsize = n.twsize /\ SetAck(n).tlast = n.tlast
      /\ SetAck(n).trecvd = n.trecvd /\ SetAck(n).tacked = n.tacked
      /\ SetAck(n).thead = n.thead /\ SetAck(n).rlast = n.rlast
      /\ SetAck(n).routorder = n.routorder /\ SetAck(n).input = n.input
      /\ SetAck(n).rhead = n.rhead /\ SetAck(n).rread = n.rread
      /\ SetAck(n).racked = n.rread
  BY <1>2 DEF SetAck, Connection
<1>5. Sts(e, SetAck(n)) = Sts(e, n)
  BY <1>4 DEF Sts
<1> QED BY <1>1, <1>3, <1>4, <1>5 DEF c

(* ch_read(): the user gets what stands at the head, and the rest is in    *)
(* place behind it.                                                        *)
LEMMA ChReadReceiver ==
  ASSUME NEW e \in End, NEW r \in Connection, NEW P \in Seq(ContOps),
         NEW g \in Seq(DataOps), r.rhead # <<>>, Receiver(e, r, P, g)
  PROVE  /\ Receiver(e, ChRead(e, r).conn, P,
                     IF Head(r.rhead).op \in DataOps
                     THEN Append(g, Head(r.rhead).op) ELSE g)
         /\ r.rread <= ChRead(e, r).conn.rread
<1> DEFINE c == ChRead(e, r).conn
           p == Head(r.rhead)
           h == IF p.op \in DataOps THEN Append(g, p.op) ELSE g
<1>1. /\ r.rlast \in Nat /\ r.rread \in Nat /\ r.racked \in Nat
      /\ r.rhead \in Seq(Queued) /\ Len(r.rhead) \in Nat /\ Len(r.rhead) > 0
  BY ConnNumbers
<1>2. p = r.rhead[1] /\ Tail(r.rhead) \in Seq(Queued)
      /\ Len(Tail(r.rhead)) = Len(r.rhead) - 1
      /\ \A i \in 1 .. Len(Tail(r.rhead)) : Tail(r.rhead)[i] = r.rhead[i + 1]
  BY <1>1
<1>3. /\ c.state = r.state /\ c.rlast = r.rlast /\ c.routorder = r.routorder
      /\ c.rhead = Tail(r.rhead)
      /\ c.rread = (IF p.op \in ContOps THEN p.pkn ELSE r.rread)
      /\ c.racked \in {r.racked, c.rread}
  BY ChReadFields
<1> HIDE DEF c, p
<1>4. InPlace(r, P, 1) /\ \A i \in 1 .. Len(c.rhead) : InPlace(r, P, i + 1)
  BY <1>1, <1>2, <1>3 DEF Receiver
<1>5. CASE p.op \in DataOps
  <2>1. /\ r.rread >= 1 /\ p.pkn = r.rread + 1 /\ p.pkn <= r.rlast /\ p.op = P[p.pkn]
    BY <1>2, <1>4, <1>5 DEF InPlace, DataOps, EndOps
  <2>2. c.rread = r.rread + 1
    BY <1>3, <1>5, <2>1 DEF ContOps
  <2>3. ASSUME NEW i \in 1 .. Len(c.rhead) PROVE InPlace(c, P, i)
    <3>1. /\ InPlace(r, P, i + 1) /\ c.rhead[i] = r.rhead[i + 1]
          /\ Len(c.rhead) = Len(r.rhead) - 1
          /\ i \in Nat /\ i >= 1 /\ i <= Len(c.rhead)
      BY <1>1, <1>2, <1>3, <1>4, <2>3
    <3>2. /\ Len(r.rhead) # 1 /\ r.rread + (i + 1) = c.rread + i /\ c.rread >= 1
          /\ (i + 1 = Len(r.rhead)) <=> (i = Len(c.rhead))
      <4>1. i \in Nat /\ i <= Len(c.rhead) /\ Len(c.rhead) \in Nat
        BY <1>1, <3>1
      <4>2. r.rread \in Nat /\ r.rread >= 1 /\ Len(r.rhead) \in Nat
        BY <1>1, <2>1
      <4>3. Len(c.rhead) = Len(r.rhead) - 1 /\ i >= 1
        BY <3>1
      <4>4. r.rread + (i + 1) = (r.rread + 1) + i /\ r.rread + 1 >= 1
        BY <4>1, <4>2
      <4>5. \A m, l \in Nat : m = l - 1 /\ i <= m =>
              l # 1 /\ ((i + 1 = l) <=> (i = m))
        BY <4>1, <4>3
      <4>6. Len(r.rhead) # 1 /\ ((i + 1 = Len(r.rhead)) <=> (i = Len(c.rhead)))
        BY <4>1, <4>2, <4>3, <4>5
      <4> QED BY <2>2, <4>4, <4>6
    <3> QED BY <1>3, <3>1, <3>2 DEF InPlace
  <2>4. Len(g) = r.rread - 1 /\ \A i \in 1 .. Len(g) : g[i] = P[i + 1]
    BY <1>1, <2>1 DEF Receiver
  <2>5. h = Append(g, p.op) /\ Len(h) = c.rread - 1
    BY <1>1, <1>5, <2>2, <2>4
  <2>6. ASSUME NEW i \in 1 .. Len(h) PROVE h[i] = P[i + 1]
    <3>1. CASE i \in 1 .. Len(g)
      BY <2>4, <2>5, <3>1
    <3>2. CASE i = r.rread
      BY <1>1, <2>1, <2>4, <2>5, <3>2
    <3> QED BY <1>1, <2>2, <2>4, <2>5, <3>1, <3>2
  <2>7. c.state \notin {"NONE", "LISTEN", "RFCSENT", "RFCRCVD"}
    BY <1>1, <1>3, <2>1 DEF Receiver
  <2>8. c.state = "OPEN" => c.rread >= 1 /\ Len(c.rhead) = c.rlast - c.rread
    <3>1. ASSUME r.state = "OPEN" PROVE Len(r.rhead) = r.rlast - r.rread
      BY <3>1 DEF Receiver
    <3>2. Len(c.rhead) = Len(r.rhead) - 1
      BY <1>2, <1>3
    <3>3. c.rlast = r.rlast /\ c.state = r.state
      BY <1>3
    <3>4. /\ r.rlast \in Nat /\ r.rread \in Nat /\ Len(r.rhead) \in Nat
          /\ r.rread >= 1
      BY <1>1, <2>1
    <3>5. c.rread >= 1
      BY <2>2, <3>4
    <3>6. ASSUME r.state = "OPEN" PROVE Len(c.rhead) = c.rlast - c.rread
      <4>1. Len(r.rhead) = r.rlast - r.rread
        BY <3>1, <3>6
      <4>2. Len(r.rhead) - 1 = r.rlast - (r.rread + 1)
        BY <3>4, <4>1
      <4> QED BY <2>2, <3>2, <3>3, <4>2
    <3> QED BY <3>3, <3>5, <3>6
  <2>9. /\ c.racked <= c.rread /\ c.rread <= c.rlast /\ c.rlast <= Len(P)
        /\ c.rread # 0
        /\ \A q \in c.routorder : q.pkn \in 1 .. Len(P) /\ P[q.pkn] = q.op
        /\ e = User => c.state \notin {"LISTEN", "RFCRCVD"}
        /\ e = Server => c.state # "RFCSENT"
    BY <1>1, <1>3, <2>1, <2>2 DEF Receiver
  <2>10. Receiver(e, c, P, h)
    BY <2>3, <2>5, <2>6, <2>7, <2>8, <2>9 DEF Receiver
  <2> QED BY <1>1, <2>2, <2>10 DEF c, p
<1>6. CASE p.op \notin DataOps
  <2>1. Len(c.rhead) = 0 /\ c.rread = r.rread /\ r.state # "OPEN"
    <3>1. CASE p.op = "RFC"
      BY <1>1, <1>2, <1>3, <1>4, <3>1 DEF InPlace, Receiver, ContOps, DataOps, EndOps
    <3>2. CASE p.op # "RFC"
      BY <1>1, <1>2, <1>3, <1>4, <1>6, <3>2 DEF InPlace, Receiver, ContOps, DataOps, EndOps
    <3> QED BY <3>1, <3>2
  <2>2. c.rhead = <<>>
    <3>1. \A x \in Seq(Queued) : Len(x) = 0 => x = <<>>
      OBVIOUS
    <3> QED BY <1>2, <1>3, <2>1, <3>1
  <2>3. h = g
    BY <1>6
  <2>4. \A i \in 1 .. Len(c.rhead) : InPlace(c, P, i)
    <3>1. 1 .. Len(c.rhead) = {}
      BY <2>1
    <3> QED BY <3>1
  <2>5. /\ c.racked <= c.rread /\ c.rread <= c.rlast /\ c.rlast <= Len(P)
        /\ \A q \in c.routorder : q.pkn \in 1 .. Len(P) /\ P[q.pkn] = q.op
    BY <1>1, <1>3, <2>1 DEF Receiver
  <2>6. /\ Len(h) = (IF c.rread = 0 THEN 0 ELSE c.rread - 1)
        /\ \A i \in 1 .. Len(h) : h[i] = P[i + 1]
    BY <2>1, <2>3 DEF Receiver
  <2>7. /\ c.state \in {"NONE", "LISTEN", "RFCSENT"} => c.rlast = 0 /\ c.rhead = <<>>
        /\ c.state = "RFCRCVD" => c.rread = 1 /\ c.rlast = 1
        /\ c.state # "OPEN"
        /\ e = User => c.state \notin {"LISTEN", "RFCRCVD"}
        /\ e = Server => c.state # "RFCSENT"
    BY <1>3, <2>1, <2>2 DEF Receiver
  <2>8. Receiver(e, c, P, h)
    BY <2>4, <2>5, <2>6, <2>7 DEF Receiver
  <2> QED BY <1>1, <2>1, <2>8 DEF c, p
<1> QED BY <1>5, <1>6
-----------------------------------------------------------------------------
(***************************************************************************)
(* The frame: a step changes the connection of one end e to r, sends only  *)
(* sound packets, and takes nothing back, so it leaves the other end and   *)
(* the packets already in the network as they were.                        *)
(***************************************************************************)
Grows(S, T) == Len(S) <= Len(T) /\ \A i \in 1 .. Len(S) : T[i] = S[i]

(* The structure r of end e may replace conn[e]. *)
Fits(e, r) ==
  /\ Sender(e, r, conn[Peer(e)], sent[e]')
  /\ Receiver(e, r, sent[Peer(e)], given[e]')
  /\ conn[e].rlast <= r.rlast /\ conn[e].rread <= r.rread

LEMMA SenderFrame ==
  ASSUME NEW e, NEW r, NEW s \in Connection, NEW s2 \in Connection, NEW S,
         Sender(e, r, s, S), r \in Connection,
         s.rlast <= s2.rlast, s.rread <= s2.rread
  PROVE  Sender(e, r, s2, S)
<1>1. /\ s.rlast \in Nat /\ s.rread \in Nat /\ s2.rlast \in Nat /\ s2.rread \in Nat
      /\ r.trecvd \in Nat /\ r.tacked \in Nat
  BY ConnNumbers
<1>2. r.trecvd <= s2.rlast /\ r.tacked <= s2.rread
  BY <1>1 DEF Sender
<1> QED BY <1>2 DEF Sender

LEMMA ReceiverFrame ==
  ASSUME NEW e, NEW r \in Connection, NEW P \in Seq(ContOps), NEW Q \in Seq(ContOps),
         NEW g \in Seq(DataOps), Receiver(e, r, P, g), Grows(P, Q)
  PROVE  Receiver(e, r, Q, g)
<1>1. /\ r.rlast \in Nat /\ r.rread \in Nat /\ Len(P) \in Nat /\ Len(Q) \in Nat
      /\ Len(r.rhead) \in Nat /\ Len(g) \in Nat
      /\ \A i \in 1 .. Len(r.rhead) : r.rhead[i].pkn \in Nat
  <2>1. r.rlast \in Nat /\ r.rread \in Nat /\ r.rhead \in Seq(Queued)
    BY ConnNumbers
  <2>2. \A q \in Queued : q.pkn \in Nat
    BY NumFacts DEF Queued, Element
  <2>3. \A i \in 1 .. Len(r.rhead) : r.rhead[i] \in Queued
    BY <2>1
  <2> QED BY <2>1, <2>2, <2>3
<1>2. /\ r.rread <= r.rlast /\ r.rlast <= Len(P) /\ Len(P) <= Len(Q)
      /\ \A i \in 1 .. Len(P) : Q[i] = P[i]
  BY DEF Receiver, Grows
<1>3. r.rlast <= Len(Q)
  BY <1>1, <1>2
<1>4. ASSUME NEW i \in 1 .. Len(r.rhead) PROVE InPlace(r, Q, i)
  <2>1. InPlace(r, P, i)
    BY DEF Receiver
  <2>2. ASSUME r.rhead[i].pkn = r.rread + i, r.rhead[i].pkn <= r.rlast
        PROVE  P[r.rhead[i].pkn] = Q[r.rhead[i].pkn]
    <3>1. r.rhead[i].pkn \in 1 .. Len(P)
      BY <1>1, <1>2, <2>2
    <3> QED BY <1>2, <3>1
  <2> QED BY <2>1, <2>2 DEF InPlace
<1>5. \A q \in r.routorder : q.pkn \in 1 .. Len(Q) /\ Q[q.pkn] = q.op
  BY <1>1, <1>2 DEF Receiver
<1>6. \A i \in 1 .. Len(g) : g[i] = Q[i + 1]
  <2>1. Len(g) = (IF r.rread = 0 THEN 0 ELSE r.rread - 1)
        /\ \A i \in 1 .. Len(g) : g[i] = P[i + 1]
    BY DEF Receiver
  <2>2. \A i \in 1 .. Len(g) : i + 1 \in 1 .. Len(P)
    BY <1>1, <1>2, <2>1
  <2> QED BY <1>2, <2>1, <2>2
<1> QED BY <1>3, <1>4, <1>5, <1>6 DEF Receiver

LEMMA SoundFrame ==
  ASSUME NEW p \in Packet, NEW s \in Connection, NEW s2 \in Connection,
         NEW S \in Seq(ContOps), NEW T \in Seq(ContOps),
         Sound(p, s, S), Grows(S, T), s.rlast <= s2.rlast, s.rread <= s2.rread
  PROVE  Sound(p, s2, T)
<1>1. /\ s.rlast \in Nat /\ s.rread \in Nat /\ s2.rlast \in Nat /\ s2.rread \in Nat
      /\ p.ackn \in Nat /\ p.receipt \in Nat /\ Len(S) \in Nat /\ Len(T) \in Nat
  <2>1. p.ackn \in Num /\ p.receipt \in Num
    BY PacketFields
  <2>2. p.ackn \in Nat /\ p.receipt \in Nat
    BY <2>1, NumFacts
  <2>3. s.rlast \in Nat /\ s.rread \in Nat /\ s2.rlast \in Nat /\ s2.rread \in Nat
    BY ConnNumbers
  <2> QED BY <2>2, <2>3
<1>2. p.ackn <= s2.rread /\ p.receipt <= s2.rlast
  BY <1>1 DEF Sound
<1>3. p.op \in ContOps => p.pkn \in 1 .. Len(T) /\ T[p.pkn] = p.op
  BY <1>1 DEF Sound, Grows
<1> QED BY <1>2, <1>3 DEF Sound

LEMMA Frame ==
  ASSUME IInv, TypeOK', NEW e \in End, NEW r \in Connection,
         conn' = [conn EXCEPT ![e] = r], Fits(e, r),
         Grows(sent[e], sent[e]'), Opening(e, sent[e]'),
         sent[Peer(e)]' = sent[Peer(e)], given[Peer(e)]' = given[Peer(e)],
         lsn[Peer(e)]' = lsn[Peer(e)], rfcq[Peer(e)]' = rfcq[Peer(e)],
         Waiting(e)',
         NEW R \in SUBSET Packet, net' \subseteq net \cup R,
         \A p \in R : p.to = Peer(e) /\ Sound(p, r, sent[e]')
  PROVE  IInv'
<1> DEFINE x == Peer(e)
<1>1. x \in End /\ x # e /\ Peer(x) = e /\ \A y \in End : y = e \/ y = x
  BY Peers
<1>2. /\ conn[e] \in Connection /\ conn[x] \in Connection
      /\ sent[e] \in Seq(ContOps) /\ sent[e]' \in Seq(ContOps)
      /\ sent[x] \in Seq(ContOps) /\ given[x] \in Seq(DataOps)
  BY <1>1 DEF IInv, TypeOK
<1>3. conn[e]' = r /\ conn[x]' = conn[x]
  BY <1>1 DEF IInv, TypeOK
<1>4. /\ conn[e].rlast <= r.rlast /\ conn[e].rread <= r.rread
      /\ Sender(e, r, conn[x], sent[e]') /\ Receiver(e, r, sent[x], given[e]')
  BY DEF Fits
<1> HIDE DEF x
<1>5. Sender(e, conn[e]', conn[x]', sent[e]') /\ Receiver(e, conn[e]', sent[x]', given[e]')
  BY <1>3, <1>4 DEF x
<1>6. Sender(x, conn[x]', conn[e]', sent[x]')
  <2>1. Sender(x, conn[x], conn[e], sent[x])
    BY <1>1 DEF IInv
  <2>2. Sender(x, conn[x], r, sent[x])
    BY <1>2, <1>4, <2>1, SenderFrame
  <2> QED BY <1>3, <2>2 DEF x
<1>7. Receiver(x, conn[x]', sent[e]', given[x]')
  <2>1. Receiver(x, conn[x], sent[e], given[x])
    BY <1>1 DEF IInv
  <2>2. Receiver(x, conn[x], sent[e]', given[x])
    BY <1>2, <2>1, ReceiverFrame
  <2> QED BY <1>3, <2>2 DEF x
<1>8. Opening(x, sent[x]')
  BY <1>1 DEF IInv, x
<1>9. Waiting(x)'
  <2>1. Waiting(x)
    BY <1>1 DEF IInv
  <2>2. Len(sent[e]) >= 1 => Len(sent[e]') >= 1
    BY <1>2 DEF Grows
  <2> QED BY <1>1, <1>3, <2>1, <2>2 DEF Waiting, x
<1>10. ASSUME NEW p \in net' PROVE InFlight(p)'
  <2>0. p \in Packet
    BY DEF TypeOK
  <2>1. CASE p \in R
    BY <1>1, <1>3, <2>1 DEF InFlight, x
  <2>2. CASE p \in net /\ p.to = x
    <3>1. Sound(p, conn[e], sent[e])
      BY <1>1, <2>2 DEF IInv, InFlight
    <3>2. Sound(p, r, sent[e]')
      BY <1>2, <1>4, <2>0, <3>1, SoundFrame
    <3> QED BY <1>1, <1>3, <2>2, <3>2 DEF InFlight
  <2>3. CASE p \in net /\ p.to = e
    <3>1. Sound(p, conn[x], sent[x])
      BY <1>1, <2>3 DEF IInv, InFlight, x
    <3> QED BY <1>3, <2>3, <3>1 DEF InFlight, x
  <2> QED BY <1>1, <2>0, <2>1, <2>2, <2>3, PacketFields
<1> DEFINE Both(y) == /\ Sender(y, conn[y], conn[Peer(y)], sent[y])
                      /\ Receiver(y, conn[y], sent[Peer(y)], given[y])
                      /\ Opening(y, sent[y])
                      /\ Waiting(y)
<1>11. Both(e)'
  BY <1>5 DEF x
<1>12. Both(x)'
  BY <1>1, <1>6, <1>7, <1>8, <1>9
<1> QED BY <1>1, <1>10, <1>11, <1>12 DEF IInv

LEMMA Same == \A S : Grows(S, S)
BY DEF Grows

(* A step that sends nothing at all. *)
LEMMA SilentStep ==
  ASSUME IInv, TypeOK', NEW e \in End, NEW r \in Connection,
         conn' = [conn EXCEPT ![e] = r], UNCHANGED <<net, sent, given>>,
         Fits(e, r),
         lsn[Peer(e)]' = lsn[Peer(e)], rfcq[Peer(e)]' = rfcq[Peer(e)],
         Waiting(e)'
  PROVE  IInv'
<1>1. Grows(sent[e], sent[e]') /\ Opening(e, sent[e]')
  BY Same DEF IInv
<1>2. sent[Peer(e)]' = sent[Peer(e)] /\ given[Peer(e)]' = given[Peer(e)]
  OBVIOUS
<1>3. /\ {} \in SUBSET Packet /\ net' \subseteq net \cup {}
      /\ \A p \in {} : p.to = Peer(e) /\ Sound(p, r, sent[e]')
  OBVIOUS
<1> QED BY <1>1, <1>2, <1>3, Frame

(* A step that neither sends a numbered packet nor hands out data. *)
LEMMA ReplyStep ==
  ASSUME IInv, TypeOK', NEW e \in End, NEW r \in Connection,
         conn' = [conn EXCEPT ![e] = r], UNCHANGED <<lsn, rfcq, sent, given>>,
         Sender(e, r, conn[Peer(e)], sent[e]),
         Receiver(e, r, sent[Peer(e)], given[e]),
         conn[e].rlast <= r.rlast, conn[e].rread <= r.rread,
         r.state = conn[e].state \/ conn[e].state # "LISTEN",
         NEW R \in SUBSET Packet, net' \subseteq net \cup R,
         \A p \in R : p.to = Peer(e) /\ Sound(p, r, sent[e])
  PROVE  IInv'
<1>1. Fits(e, r) /\ Grows(sent[e], sent[e]')
  BY Same DEF Fits
<1>2. Opening(e, sent[e]')
  BY DEF IInv
<1>3. Waiting(e)'
  <2>1. conn[e]' = r
    BY DEF IInv, TypeOK
  <2>2. Waiting(e)
    BY DEF IInv
  <2> QED BY <2>1, <2>2 DEF Waiting
<1> QED BY <1>1, <1>2, <1>3, Frame

-----------------------------------------------------------------------------
(***************************************************************************)
(* The packets a step sends are sound, and go to the peer.                 *)
(***************************************************************************)
LEMMA BlankSound ==
  ASSUME NEW e \in End, NEW op \in Ops \ ContOps, NEW r \in Connection, NEW S
  PROVE  Blank(e, op).to = Peer(e) /\ Sound(Blank(e, op), r, S)
<1>1. /\ Blank(e, op).to = Peer(e) /\ Blank(e, op).op = op
      /\ Blank(e, op).ackn = 0 /\ Blank(e, op).receipt = 0 /\ Blank(e, op).rwsize = 0
  BY DEF Blank
<1>2. 0 <= r.rread /\ 0 <= r.rlast /\ 0 <= RwSize
  BY ConnNumbers, Bounds
<1> QED BY <1>1, <1>2 DEF Sound

LEMMA StsSound ==
  ASSUME NEW e \in End, NEW r \in Connection, NEW t \in Connection, NEW S,
         t.rread = r.rread, t.rlast = r.rlast
  PROVE  Sts(e, r).to = Peer(e) /\ Sound(Sts(e, r), t, S)
<1>1. /\ Sts(e, r).to = Peer(e) /\ Sts(e, r).op = "STS"
      /\ Sts(e, r).ackn = r.rread /\ Sts(e, r).receipt = r.rlast
      /\ Sts(e, r).rwsize = RwSize
  BY StsType
<1>2. r.rread <= t.rread /\ r.rlast <= t.rlast /\ RwSize <= RwSize
  BY ConnNumbers, Bounds
<1> QED BY <1>1, <1>2 DEF Sound, ContOps, DataOps

LEMMA NumberedSound ==
  ASSUME NEW e \in End, NEW r \in Connection, NEW t \in Connection,
         NEW op \in ContOps, NEW n \in Num, NEW S,
         n \in 1 .. Len(S), S[n] = op, t.rread = r.rread, t.rlast = r.rlast
  PROVE  Numbered(e, r, op, n).to = Peer(e) /\ Sound(Numbered(e, r, op, n), t, S)
<1>1. /\ Numbered(e, r, op, n).to = Peer(e) /\ Numbered(e, r, op, n).op = op
      /\ Numbered(e, r, op, n).pkn = n /\ Numbered(e, r, op, n).ackn = r.rread
      /\ Numbered(e, r, op, n).receipt = 0
      /\ Numbered(e, r, op, n).rwsize \in {0, RwSize}
  BY NumberedType
<1>2. r.rread <= t.rread /\ 0 <= t.rlast
  BY ConnNumbers
<1>3. Numbered(e, r, op, n).rwsize <= RwSize
  BY <1>1, Bounds
<1> QED BY <1>1, <1>2, <1>3 DEF Sound

LEMMA RetranSound ==
  ASSUME NEW e \in End, NEW r \in Connection, NEW t \in Connection,
         NEW s, NEW S, Sender(e, r, s, S), NEW A \in SUBSET r.thead,
         t.rread = r.rread, t.rlast = r.rlast
  PROVE  \A p \in Retran(e, r, A) : p.to = Peer(e) /\ Sound(p, t, S)
<1> SUFFICES ASSUME NEW q \in A
             PROVE  LET p == Numbered(e, r, q.op, q.pkn)
                    IN  p.to = Peer(e) /\ Sound(p, t, S)
  BY DEF Retran
<1>1. q \in r.thead /\ q \in Element(ContOps)
  BY DEF Connection
<1>2. q.op \in ContOps /\ q.pkn \in Num /\ q.pkn \in 1 .. Len(S) /\ S[q.pkn] = q.op
  BY <1>1 DEF Element, Sender
<1> QED BY <1>2, NumberedSound

-----------------------------------------------------------------------------
(***************************************************************************)
(* The helpers that change a connection outside its numbers.               *)
(***************************************************************************)
LEMMA SetAckHalves ==
  ASSUME NEW e \in End, NEW r \in Connection, NEW s, NEW S, NEW P, NEW g,
         Sender(e, r, s, S), Receiver(e, r, P, g)
  PROVE  /\ Sender(e, SetAck(r), s, S) /\ Receiver(e, SetAck(r), P, g)
         /\ SetAck(r).rread = r.rread /\ SetAck(r).rlast = r.rlast
         /\ SetAck(r).state = r.state /\ SetAck(r).thead = r.thead
<1> DEFINE t == SetAck(r)
<1>1. /\ t.tlast = r.tlast /\ t.trecvd = r.trecvd /\ t.tacked = r.tacked
      /\ t.twsize = r.twsize /\ t.thead = r.thead /\ t.state = r.state
      /\ t.rlast = r.rlast /\ t.rread = r.rread /\ t.rhead = r.rhead
      /\ t.routorder = r.routorder /\ t.racked = r.rread
  BY DEF SetAck, Connection
<1> HIDE DEF t
<1>2. Sender(e, t, s, S)
  BY <1>1, SenderSame
<1>3. t.racked <= t.rread
  BY <1>1, ConnNumbers
<1>4. Receiver(e, t, P, g)
  BY <1>1, <1>3 DEF Receiver, InPlace
<1> QED BY <1>1, <1>2, <1>4 DEF t

LEMMA ToldHalves ==
  ASSUME NEW e \in End, NEW r \in Connection, NEW s, NEW S, NEW P, NEW g,
         Sender(e, r, s, S), Receiver(e, r, P, g), NEW A \in SUBSET r.thead
  PROVE  /\ Sender(e, Told(r, A), s, S) /\ Receiver(e, Told(r, A), P, g)
         /\ Told(r, A) \in Connection
         /\ Told(r, A).rread = r.rread /\ Told(r, A).rlast = r.rlast
         /\ Told(r, A).state = r.state
BY SetAckHalves, SetAckType DEF Told

(* No packet that ends the connection stands in the queue of one that has  *)
(* not ended, so one may be put at its end.                                *)
LastWord(r, st, last) ==
  \/ last = <<>>
  \/ /\ st # "INCT" /\ r.state # "RFCRCVD"
     /\ Len(last) = 1 /\ last[1].op \in EndOps

LEMMA ClsConnHalves ==
  ASSUME NEW e \in End, NEW r \in Connection, NEW s, NEW S, NEW P, NEW g,
         Sender(e, r, s, S), Receiver(e, r, P, g),
         r.state \in {"OPEN", "RFCRCVD", "RFCSENT"},
         NEW st \in {"CLOSED", "LOST", "INCT"}, NEW last \in Seq(Queued),
         LastWord(r, st, last)
  PROVE  /\ Sender(e, ClsConn(r, st, last), s, S)
         /\ Receiver(e, ClsConn(r, st, last), P, g)
         /\ ClsConn(r, st, last).rread = r.rread
         /\ ClsConn(r, st, last).rlast = r.rlast
<1> DEFINE t == ClsConn(r, st, last)
<1>1. /\ t.tlast = r.tlast /\ t.trecvd = r.trecvd /\ t.tacked = r.tacked
      /\ t.twsize = r.twsize /\ t.thead = {} /\ t.state = st
      /\ t.rlast = r.rlast /\ t.rread = r.rread /\ t.rhead = r.rhead \o last
      /\ t.routorder = r.routorder /\ t.racked = r.racked
  BY DEF ClsConn, Connection
<1>2. /\ r.rhead \in Seq(Queued) /\ Len(r.rhead) \in Nat
      /\ r.rlast \in Nat /\ r.rread \in Nat
  BY ConnNumbers
<1> HIDE DEF t
<1> USE DEF LastWord
<1>3. Sender(e, t, s, S)
  BY <1>1 DEF Sender
<1>4. ASSUME NEW i \in 1 .. Len(t.rhead) PROVE InPlace(t, P, i)
  <2>1. CASE last = <<>>
    <3>1. t.rhead = r.rhead
      BY <1>1, <1>2, <2>1
    <3>2. InPlace(r, P, i)
      BY <3>1 DEF Receiver
    <3> QED BY <1>1, <3>1, <3>2 DEF InPlace
  <2>2. CASE last # <<>> /\ i \in 1 .. Len(r.rhead)
    <3>1. t.rhead[i] = r.rhead[i] /\ InPlace(r, P, i)
      BY <1>1, <1>2, <2>2 DEF Receiver
    <3>2. r.rhead[i].op = "RFC" => ~(Len(r.rhead) = 1 /\ r.rread = 1 /\ r.rlast = 1)
      <4>1. r.state = "OPEN" => Len(r.rhead) = r.rlast - r.rread
        BY DEF Receiver
      <4>2. r.state = "RFCSENT" => r.rlast = 0
        BY DEF Receiver
      <4> QED BY <1>2, <2>2, <4>1, <4>2
    <3> QED BY <1>1, <3>1, <3>2 DEF InPlace
  <2>3. CASE last # <<>> /\ i \notin 1 .. Len(r.rhead)
    <3>1. Len(t.rhead) = Len(r.rhead) + 1 /\ i = Len(r.rhead) + 1 /\ t.rhead[i] = last[1]
      <4>1. Len(last) = 1
        BY <2>3
      <4>2. /\ Len(r.rhead \o last) = Len(r.rhead) + 1
            /\ (r.rhead \o last)[Len(r.rhead) + 1] = last[1]
        <5>1. Len(r.rhead \o last) = Len(r.rhead) + Len(last)
          BY <1>2, Concat
        <5>2. 1 \in 1 .. Len(last)
          BY <4>1
        <5> QED BY <1>2, <4>1, <5>1, <5>2, Concat
      <4>3. \A m \in Nat : i \in 1 .. m + 1 /\ i \notin 1 .. m => i = m + 1
        OBVIOUS
      <4>4. i = Len(r.rhead) + 1
        BY <1>1, <1>2, <2>3, <4>2, <4>3
      <4> QED BY <1>1, <4>2, <4>4
    <3> QED BY <1>1, <2>3, <3>1 DEF InPlace
  <2> QED BY <2>1, <2>2, <2>3
<1>5. Receiver(e, t, P, g)
  BY <1>1, <1>4 DEF Receiver
<1> QED BY <1>1, <1>3, <1>5 DEF t

LEMMA ClsConnSilent ==
  ASSUME NEW e \in End, NEW r \in Connection, NEW s, NEW S, NEW P, NEW g,
         Sender(e, r, s, S), Receiver(e, r, P, g),
         r.state \in {"OPEN", "RFCRCVD", "RFCSENT"},
         NEW st \in {"CLOSED", "LOST", "INCT"}
  PROVE  /\ Sender(e, ClsConn(r, st, <<>>), s, S)
         /\ Receiver(e, ClsConn(r, st, <<>>), P, g)
         /\ ClsConn(r, st, <<>>).rread = r.rread
         /\ ClsConn(r, st, <<>>).rlast = r.rlast
         /\ ClsConn(r, st, <<>>) \in Connection
<1> DEFINE last == <<>>
<1>1. last \in Seq(Queued) /\ LastWord(r, st, last) /\ st \in States
  BY DEF States, LastWord
<1> HIDE DEF last
<1>2. /\ Sender(e, ClsConn(r, st, last), s, S)
      /\ Receiver(e, ClsConn(r, st, last), P, g)
      /\ ClsConn(r, st, last).rread = r.rread
      /\ ClsConn(r, st, last).rlast = r.rlast
  BY <1>1, ClsConnHalves
<1>3. ClsConn(r, st, last) \in Connection
  BY <1>1, ClsConnType
<1> QED BY <1>2, <1>3 DEF last

LEMMA ClsConnLast ==
  ASSUME NEW e \in End, NEW r \in Connection, NEW s, NEW S, NEW P, NEW g,
         Sender(e, r, s, S), Receiver(e, r, P, g),
         r.state \in {"OPEN", "RFCSENT"},
         NEW st \in {"CLOSED", "LOST"}, NEW op \in EndOps
  PROVE  /\ Sender(e, ClsConn(r, st, <<[op |-> op, pkn |-> 0]>>), s, S)
         /\ Receiver(e, ClsConn(r, st, <<[op |-> op, pkn |-> 0]>>), P, g)
         /\ ClsConn(r, st, <<[op |-> op, pkn |-> 0]>>).rread = r.rread
         /\ ClsConn(r, st, <<[op |-> op, pkn |-> 0]>>).rlast = r.rlast
         /\ ClsConn(r, st, <<[op |-> op, pkn |-> 0]>>) \in Connection
<1> DEFINE last == <<[op |-> op, pkn |-> 0]>>
<1>1. [op |-> op, pkn |-> 0] \in Queued
  BY NumFacts DEF Queued, Element
<1>2. last \in Seq(Queued) /\ Len(last) = 1 /\ last[1].op \in EndOps
  BY <1>1
<1>3. st \in States /\ st # "INCT" /\ r.state # "RFCRCVD" /\ st \in {"CLOSED", "LOST", "INCT"}
      /\ r.state \in {"OPEN", "RFCRCVD", "RFCSENT"}
  BY DEF States
<1> HIDE DEF last
<1>4. /\ Sender(e, ClsConn(r, st, last), s, S)
      /\ Receiver(e, ClsConn(r, st, last), P, g)
      /\ ClsConn(r, st, last).rread = r.rread
      /\ ClsConn(r, st, last).rlast = r.rlast
  <2>1. LastWord(r, st, last)
    BY <1>2, <1>3 DEF LastWord
  <2> QED BY <1>2, <1>3, <2>1, ClsConnHalves
<1>5. ClsConn(r, st, last) \in Connection
  BY <1>2, <1>3, ClsConnType
<1> QED BY <1>4, <1>5 DEF last

LEMMA RlsConnHalves ==
  ASSUME NEW e \in End, NEW r \in Connection, NEW s, NEW S, NEW P, NEW g,
         Sender(e, r, s, S), Receiver(e, r, P, g)
  PROVE  /\ Sender(e, RlsConn(r), s, S) /\ Receiver(e, RlsConn(r), P, g)
         /\ RlsConn(r).rread = r.rread /\ RlsConn(r).rlast = r.rlast
         /\ RlsConn(r).state = "GONE"
<1> DEFINE t == RlsConn(r)
<1>1. /\ t.tlast = r.tlast /\ t.trecvd = r.trecvd /\ t.tacked = r.tacked
      /\ t.twsize = r.twsize /\ t.thead = {} /\ t.state = "GONE"
      /\ t.rlast = r.rlast /\ t.rread = r.rread /\ t.rhead = <<>>
      /\ t.routorder = {} /\ t.racked = r.racked
  BY DEF RlsConn, Connection
<1> HIDE DEF t
<1>2. Sender(e, t, s, S)
  BY <1>1 DEF Sender
<1>3. Receiver(e, t, P, g)
  BY <1>1 DEF Receiver
<1> QED BY <1>1, <1>2, <1>3 DEF t

LEMMA LsnMatchHalves ==
  ASSUME NEW r \in Connection, NEW s, NEW S, NEW P \in Seq(ContOps), NEW g,
         Sender(Server, r, s, S), Receiver(Server, r, P, g),
         r.state \in {"NONE", "LISTEN"}, Len(P) >= 1
  PROVE  /\ Sender(Server, LsnMatch(r, 1), s, S)
         /\ Receiver(Server, LsnMatch(r, 1), P, g)
         /\ r.rread <= LsnMatch(r, 1).rread /\ r.rlast <= LsnMatch(r, 1).rlast
         /\ LsnMatch(r, 1).state = "RFCRCVD"
<1> DEFINE t == LsnMatch(r, 1)
           q == [op |-> "RFC", pkn |-> 1]
<1>1. /\ t.tlast = r.tlast /\ t.trecvd = r.trecvd /\ t.tacked = r.tacked
      /\ t.twsize = r.twsize /\ t.thead = r.thead /\ t.state = "RFCRCVD"
      /\ t.rlast = 1 /\ t.rread = 1 /\ t.rhead = <<q>>
      /\ t.routorder = r.routorder /\ t.racked = r.racked
  BY DEF LsnMatch, Connection
<1>2. /\ r.rlast = 0 /\ r.rread = 0 /\ r.racked = 0 /\ S = <<>>
      /\ Len(g) = 0
  BY ConnNumbers DEF Receiver, Sender
<1> HIDE DEF t
<1>3. Sender(Server, t, s, S)
  BY <1>1, <1>2 DEF Sender
<1>4. \A i \in 1 .. Len(t.rhead) : InPlace(t, P, i)
  <2>1. Len(t.rhead) = 1 /\ t.rhead[1].op = "RFC" /\ t.rhead[1].pkn = 1
    BY <1>1
  <2> QED BY <1>1, <2>1 DEF InPlace
<1>5. Len(P) \in Nat /\ Server # User
  BY ConnAssumption
<1>6. Receiver(Server, t, P, g)
  BY <1>1, <1>2, <1>4, <1>5 DEF Receiver
<1> QED BY <1>1, <1>2, <1>3, <1>6 DEF t

(* The invariant at the two ends of a connection. *)
LEMMA Facts ==
  ASSUME IInv, NEW e \in End
  PROVE  /\ conn[e] \in Connection /\ conn[Peer(e)] \in Connection
         /\ Peer(e) \in End
         /\ sent[e] \in Seq(ContOps) /\ sent[Peer(e)] \in Seq(ContOps)
         /\ given[e] \in Seq(DataOps)
         /\ Sender(e, conn[e], conn[Peer(e)], sent[e])
         /\ Receiver(e, conn[e], sent[Peer(e)], given[e])
         /\ Opening(e, sent[e]) /\ Opening(Peer(e), sent[Peer(e)])
         /\ Len(sent[e]) <= MaxPkts /\ Len(sent[Peer(e)]) <= MaxPkts
         /\ conn[Peer(e)].rread <= conn[Peer(e)].rlast
         /\ conn[Peer(e)].rlast <= Len(sent[e])
         /\ conn[e].tlast = Len(sent[e])
<1>1. Peer(e) \in End /\ Peer(Peer(e)) = e
  BY Peers
<1>2. /\ conn[e] \in Connection /\ conn[Peer(e)] \in Connection
      /\ sent[e] \in Seq(ContOps) /\ sent[Peer(e)] \in Seq(ContOps)
      /\ given[e] \in Seq(DataOps)
  BY <1>1 DEF IInv, TypeOK
<1>3. /\ Sender(e, conn[e], conn[Peer(e)], sent[e])
      /\ Receiver(e, conn[e], sent[Peer(e)], given[e])
      /\ Receiver(Peer(e), conn[Peer(e)], sent[e], given[Peer(e)])
      /\ Opening(e, sent[e]) /\ Opening(Peer(e), sent[Peer(e)])
  BY <1>1 DEF IInv
<1>4. /\ Len(sent[e]) <= MaxPkts /\ Len(sent[Peer(e)]) <= MaxPkts
      /\ conn[Peer(e)].rread <= conn[Peer(e)].rlast
      /\ conn[Peer(e)].rlast <= Len(sent[e]) /\ conn[e].tlast = Len(sent[e])
  BY <1>3 DEF Opening, Receiver, Sender
<1> QED BY <1>1, <1>2, <1>3, <1>4

-----------------------------------------------------------------------------
(***************************************************************************)
(* The steps that send.                                                    *)
(***************************************************************************)
LEMMA TransmitStep ==
  ASSUME IInv, TypeOK', NEW e \in End, NEW r \in Connection, NEW op \in ContOps,
         NEW first \in SUBSET Packet, Transmit(e, r, op, first),
         UNCHANGED <<lsn, rfcq, given>>,
         Sender(e, r, conn[Peer(e)], sent[e]),
         Receiver(e, r, sent[Peer(e)], given[e]),
         conn[e].rlast <= r.rlast, conn[e].rread <= r.rread,
         r.state \in {"OPEN", "RFCSENT"}, conn[e].state # "LISTEN",
         Len(sent[e]) < MaxPkts,
         e \notin Hasty => Len(sent[e]) < r.tacked + RwSize,
         op = "RFC" => e = User /\ sent[e] = <<>>,
         op = "OPN" => e = Server /\ sent[e] = <<>>,
         \A p \in first : p.to = Peer(e) /\ Sound(p, r, sent[e])
  PROVE  IInv'
<1> DEFINE n == Succ(r.tlast)
           q == [op |-> op, pkn |-> n]
           w == Sent(r, op)
           T == Append(sent[e], op)
           N == Numbered(e, r, op, n)
<1>1. /\ conn' = [conn EXCEPT ![e] = w]
      /\ net' = net \cup first \cup {N}
      /\ sent' = [sent EXCEPT ![e] = T]
  BY DEF Transmit, Sent
<1>2. /\ conn[Peer(e)] \in Connection /\ sent[e] \in Seq(ContOps)
      /\ Peer(e) \in End /\ Peer(e) # e
      /\ conn[Peer(e)].rread <= conn[Peer(e)].rlast
      /\ conn[Peer(e)].rlast <= Len(sent[e])
      /\ Opening(e, sent[e]) /\ Waiting(e)
  BY Facts, Peers DEF IInv
<1>3. /\ n = Len(sent[e]) + 1
      /\ Sender(e, w, conn[Peer(e)], T)
      /\ w.rlast = r.rlast /\ w.rread = r.rread /\ w.rhead = r.rhead
      /\ w.routorder = r.routorder /\ w.state = r.state
      /\ w.racked = r.rread
  <2> DEFINE s == conn[Peer(e)]
             S == sent[e]
  <2>1. /\ s \in Connection /\ S \in Seq(ContOps) /\ Sender(e, r, s, S)
        /\ Len(S) < MaxPkts /\ s.rlast <= Len(S) /\ s.rread <= s.rlast
        /\ r.state \in {"OPEN", "RFCSENT"}
        /\ (e \notin Hasty => Len(S) < r.tacked + RwSize)
    BY <1>2
  <2> HIDE DEF s, S
  <2>2. /\ Succ(r.tlast) = Len(S) + 1
        /\ Sender(e, Sent(r, op), s, Append(S, op))
        /\ Sent(r, op).rlast = r.rlast /\ Sent(r, op).rread = r.rread
        /\ Sent(r, op).rhead = r.rhead /\ Sent(r, op).routorder = r.routorder
        /\ Sent(r, op).state = r.state /\ Sent(r, op).racked = r.rread
    BY <2>1, TransmitSender
  <2> QED BY <2>2 DEF s, S
<1>4. n \in Num
  BY NumFacts DEF Connection
<1>5. w \in Connection
  <2>1. [r EXCEPT !.tlast = n, !.racked = r.rread] \in Connection
    BY <1>4 DEF Connection
  <2>2. q \in Element(ContOps)
    BY <1>4 DEF Element
  <2> QED BY <2>1, <2>2, XmitDoneType DEF Sent
<1>6. Len(T) = n /\ T[n] = op /\ \A i \in 1 .. Len(sent[e]) : T[i] = sent[e][i]
  BY <1>2, <1>3
<1>7. sent[e]' = T /\ sent[Peer(e)]' = sent[Peer(e)] /\ T \in Seq(ContOps)
  BY <1>1, <1>2 DEF IInv, TypeOK
<1>8. N \in Packet
  BY <1>4, NumberedType
<1> HIDE DEF n, w, T, q, N
<1>9. Grows(sent[e], T)
  BY <1>2, <1>3, <1>6 DEF Grows
<1>10. Opening(e, T)
  <2>1. Len(T) <= MaxPkts
    BY <1>2, <1>3, <1>6, Bounds
  <2>2. ASSUME NEW i \in 1 .. Len(T)
        PROVE  /\ T[i] = "RFC" => e = User /\ i = 1
               /\ T[i] = "OPN" => e = Server /\ i = 1
    <3>1. CASE i \in 1 .. Len(sent[e])
      BY <1>2, <1>6, <3>1 DEF Opening
    <3>2. CASE i = n
      <4>1. sent[e] = <<>> => n = 1
        BY <1>3
      <4> QED BY <1>6, <3>2, <4>1
    <3> QED BY <1>2, <1>3, <1>6, <3>1, <3>2
  <2> QED BY <2>1, <2>2 DEF Opening
<1>11. Receiver(e, w, sent[Peer(e)], given[e])
  <2>1. w.racked <= w.rread
    BY <1>3, ConnNumbers
  <2> QED BY <1>3, <2>1 DEF Receiver, InPlace
<1>12. Fits(e, w)
  BY <1>3, <1>7, <1>11 DEF Fits
<1>13. Waiting(e)'
  BY <1>2, <1>7 DEF Waiting
<1>14. ASSUME NEW p \in first \cup {N} PROVE p.to = Peer(e) /\ Sound(p, w, T)
  <2>1. CASE p \in first
    <3>1. r.rlast <= w.rlast /\ r.rread <= w.rread
      BY <1>3, ConnNumbers
    <3>2. p \in Packet /\ p.to = Peer(e) /\ Sound(p, r, sent[e])
      BY <2>1
    <3> QED BY <1>2, <1>5, <1>7, <1>9, <3>1, <3>2, SoundFrame
  <2>2. CASE p = N
    <3>1. n \in 1 .. Len(T)
      BY <1>2, <1>3, <1>6
    <3> QED BY <1>3, <1>4, <1>5, <1>6, <2>2, <3>1, NumberedSound DEF N
  <2> QED BY <2>1, <2>2
<1>15. first \cup {N} \in SUBSET Packet /\ net' \subseteq net \cup (first \cup {N})
  BY <1>1, <1>8
<1>16. /\ given[Peer(e)]' = given[Peer(e)] /\ lsn[Peer(e)]' = lsn[Peer(e)]
       /\ rfcq[Peer(e)]' = rfcq[Peer(e)]
  OBVIOUS
<1>17. Grows(sent[e], sent[e]') /\ Opening(e, sent[e]')
  BY <1>7, <1>9, <1>10
<1>18. \A p \in first \cup {N} : p.to = Peer(e) /\ Sound(p, w, sent[e]')
  BY <1>7, <1>14
<1>19. conn' = [conn EXCEPT ![e] = w] /\ sent[Peer(e)]' = sent[Peer(e)]
  BY <1>1, <1>7
<1> QED BY <1>5, <1>12, <1>13, <1>15, <1>16, <1>17, <1>18, <1>19, Frame

LEMMA OpenStep ==
  ASSUME IInv, TypeOK', Open(User)
  PROVE  IInv'
<1> DEFINE r == [conn[User] EXCEPT !.state = "RFCSENT"]
<1>1. User \in End /\ User # Server
  BY ConnAssumption DEF End
<1>2. /\ conn[User] \in Connection /\ conn[User].state = "NONE"
      /\ Sender(User, conn[User], conn[Peer(User)], sent[User])
      /\ Receiver(User, conn[User], sent[Peer(User)], given[User])
      /\ Transmit(User, r, "RFC", {}) /\ UNCHANGED <<lsn, rfcq, given>>
      /\ MaxPkts > 0
  BY <1>1, Facts DEF Open
<1>3. /\ r.tlast = conn[User].tlast /\ r.trecvd = conn[User].trecvd
      /\ r.tacked = conn[User].tacked /\ r.twsize = conn[User].twsize
      /\ r.thead = conn[User].thead /\ r.state = "RFCSENT"
      /\ r.rlast = conn[User].rlast /\ r.rread = conn[User].rread
      /\ r.rhead = conn[User].rhead /\ r.racked = conn[User].racked
      /\ r.routorder = conn[User].routorder
      /\ r \in Connection
  BY <1>2 DEF Connection, States
<1> HIDE DEF r
<1>4. sent[User] = <<>>
  BY <1>2 DEF Sender
<1>5. Sender(User, r, conn[Peer(User)], sent[User])
  BY <1>2, <1>3, <1>4 DEF Sender
<1>6. Receiver(User, r, sent[Peer(User)], given[User])
  BY <1>1, <1>2, <1>3 DEF Receiver, InPlace
<1>7. /\ conn[User].rlast <= r.rlast /\ conn[User].rread <= r.rread
      /\ Len(sent[User]) < MaxPkts /\ Len(sent[User]) < r.tacked + RwSize
  BY <1>2, <1>3, <1>4, ConnNumbers, Bounds
<1>8. "RFC" \in ContOps /\ {} \in SUBSET Packet
  BY DEF ContOps
<1> QED BY <1>1, <1>2, <1>3, <1>4, <1>5, <1>6, <1>7, <1>8, TransmitStep

LEMMA WriteStep ==
  ASSUME IInv, TypeOK', NEW e \in End, NEW op \in DataOps, Write(e, op)
  PROVE  IInv'
<1> DEFINE r == conn[e]
           s == conn[Peer(e)]
<1>1. /\ r \in Connection /\ s \in Connection /\ sent[e] \in Seq(ContOps)
      /\ Sender(e, r, s, sent[e]) /\ Receiver(e, r, sent[Peer(e)], given[e])
      /\ s.rread <= s.rlast /\ s.rlast <= Len(sent[e]) /\ r.tlast = Len(sent[e])
      /\ Len(sent[e]) <= MaxPkts
  BY Facts
<1>2. /\ r.state = "OPEN" /\ (e \notin Hasty => ~chtfull(r)) /\ r.tlast < MaxPkts
      /\ Transmit(e, r, op, {}) /\ UNCHANGED <<lsn, rfcq, given>>
  BY DEF Write
<1> HIDE DEF r, s
<1>3. /\ r.tacked \in Nat /\ r.tlast \in Nat /\ r.twsize \in Nat /\ r.tacked <= r.tlast
      /\ r.twsize <= RwSize /\ r.rlast \in Nat /\ r.rread \in Nat
  BY <1>1, ConnNumbers DEF Sender
<1>4. Short(r.tlast - r.tacked) = r.tlast - r.tacked
  <2>1. /\ r.tlast - r.tacked \in Nat /\ r.tlast - r.tacked <= MaxPkts + RwSize
    BY <1>1, <1>3, Bounds
  <2>2. (r.tlast - r.tacked) % NumMod = r.tlast - r.tacked /\ r.tlast - r.tacked < NumHalf
    BY <2>1, Small
  <2>3. ~(r.tlast - r.tacked >= NumHalf)
    BY <2>1, <2>2, Bounds
  <2> QED BY <2>2, <2>3 DEF Short
<1>5. e \notin Hasty => Len(sent[e]) < r.tacked + RwSize
  <2>1. ASSUME e \notin Hasty PROVE r.tlast - r.tacked < r.twsize
    BY <1>2, <1>3, <1>4, <2>1 DEF chtfull
  <2> QED BY <1>1, <1>3, <2>1, Bounds
<1>6. op \in ContOps /\ op # "RFC" /\ op # "OPN" /\ {} \in SUBSET Packet
  BY DEF ContOps, DataOps
<1>7. conn[e].rlast <= r.rlast /\ conn[e].rread <= r.rread
  BY <1>3 DEF r
<1> QED BY <1>1, <1>2, <1>5, <1>6, <1>7, TransmitStep DEF r, s

LEMMA AcceptStep ==
  ASSUME IInv, TypeOK', Accept(Server)
  PROVE  IInv'
<1> DEFINE r == conn[Server]
           s == conn[Peer(Server)]
           isRFC == r.rhead # <<>> /\ Head(r.rhead).op = "RFC"
           read == IF isRFC THEN ChRead(Server, r) ELSE [conn |-> r, sts |-> {}]
           c == read.conn
           t == [c EXCEPT !.state = "OPEN", !.tlast = 0]
<1>1. Server \in End /\ Server # User
  BY ConnAssumption DEF End
<1>2. /\ r \in Connection /\ s \in Connection
      /\ sent[Server] \in Seq(ContOps) /\ sent[Peer(Server)] \in Seq(ContOps)
      /\ given[Server] \in Seq(DataOps)
      /\ Sender(Server, r, s, sent[Server])
      /\ Receiver(Server, r, sent[Peer(Server)], given[Server])
  BY <1>1, Facts
<1>3. /\ r.state = "RFCRCVD" /\ MaxPkts > 0
      /\ Transmit(Server, t, "OPN", read.sts) /\ UNCHANGED <<lsn, rfcq, given>>
  BY DEF Accept
<1>4. /\ r.rread = 1 /\ r.rlast = 1 /\ sent[Server] = <<>>
      /\ r.rhead \in Seq(Queued) /\ Len(r.rhead) \in Nat /\ r.tacked \in Nat
      /\ r.rhead # <<>> => Len(r.rhead) >= 1
      /\ r.racked <= 1
  <2>1. sent[Server] = <<>>
    BY <1>2, <1>3 DEF Sender
  <2>2. r.rread = 1 /\ r.rlast = 1 /\ r.racked <= r.rread
    BY <1>2, <1>3 DEF Receiver
  <2>3. r.rhead \in Seq(Queued) /\ r.tacked \in Nat
    BY <1>2, ConnNumbers
  <2>4. Len(r.rhead) \in Nat /\ (r.rhead # <<>> => Len(r.rhead) >= 1)
    BY <2>3
  <2> QED BY <2>1, <2>2, <2>3, <2>4
<1>5. r.rhead # <<>> => isRFC /\ Tail(r.rhead) = <<>> /\ Head(r.rhead).pkn = 1
  <2>1. ASSUME r.rhead # <<>> PROVE InPlace(r, sent[Peer(Server)], 1)
    BY <1>2, <1>4, <2>1 DEF Receiver
  <2>2. ASSUME r.rhead # <<>>
        PROVE  r.rhead[1].op = "RFC" /\ r.rhead[1].pkn = 1 /\ Len(r.rhead) = 1
    BY <1>3, <1>4, <2>1, <2>2 DEF InPlace
  <2> QED BY <1>4, <2>2, Single
<1>6. /\ c \in Connection /\ c.rread = 1 /\ c.rlast = 1 /\ c.rhead = <<>>
      /\ c.trecvd = r.trecvd /\ c.tacked = r.tacked /\ c.twsize = r.twsize
      /\ c.thead = r.thead /\ c.racked <= 1 /\ c.routorder = r.routorder
  <2>1. CASE isRFC
    <3>1. c = ChRead(Server, r).conn
      BY <2>1
    <3>2. c \in Connection
      BY <1>1, <1>2, <2>1, <3>1, ChReadType
    <3>3. c.rread = 1 /\ c.rhead = <<>>
      BY <1>1, <1>2, <1>5, <2>1, <3>1, ChReadFields DEF ContOps
    <3>4. /\ c.trecvd = r.trecvd /\ c.tacked = r.tacked /\ c.twsize = r.twsize
          /\ c.thead = r.thead /\ c.rlast = r.rlast /\ c.routorder = r.routorder
          /\ c.racked \in {r.racked, c.rread}
      BY <1>1, <1>2, <2>1, <3>1, ChReadFields
    <3> QED BY <1>4, <3>2, <3>3, <3>4
  <2>2. CASE ~isRFC
    <3>1. c = r /\ r.rhead = <<>>
      BY <1>5, <2>2
    <3> QED BY <1>2, <1>4, <3>1
  <2> QED BY <2>1, <2>2
<1>7. \A x \in read.sts : x = Sts(Server, c)
  BY <1>1, <1>2, ChReadFields
<1>8. read.sts \in SUBSET Packet
  BY <1>1, <1>2, ChReadType
<1> HIDE DEF isRFC, read, c
<1>9. /\ t.tlast = 0 /\ t.trecvd = r.trecvd /\ t.tacked = r.tacked
      /\ t.twsize = r.twsize /\ t.thead = r.thead /\ t.state = "OPEN"
      /\ t.rread = 1 /\ t.rlast = 1 /\ t.rhead = <<>> /\ t.racked <= 1
      /\ t.routorder = r.routorder /\ t \in Connection
  BY <1>6, NumFacts DEF Connection, States
<1> HIDE DEF t
<1>10. Sender(Server, t, s, sent[Server])
  <2>1. Len(sent[Server]) = 0
    BY <1>4
  <2> QED BY <1>2, <1>9, <1>4, <2>1 DEF Sender
<1>11. Receiver(Server, t, sent[Peer(Server)], given[Server])
  <2>1. Len(t.rhead) = 0 /\ Len(t.rhead) = t.rlast - t.rread /\ t.rread # 0
    BY <1>9
  <2> QED BY <1>1, <1>2, <1>4, <1>9, <2>1 DEF Receiver
<1>12. \A x \in read.sts : x.to = Peer(Server) /\ Sound(x, t, sent[Server])
  BY <1>1, <1>6, <1>7, <1>9, StsSound
<1>13. /\ Len(sent[Server]) < MaxPkts /\ Len(sent[Server]) < t.tacked + RwSize
       /\ conn[Server].rlast <= t.rlast /\ conn[Server].rread <= t.rread
  BY <1>3, <1>4, <1>9, Bounds
<1>14. "OPN" \in ContOps /\ conn[Server].state # "LISTEN"
  BY <1>3 DEF ContOps
<1> QED BY <1>1, <1>3, <1>4, <1>8, <1>9, <1>10, <1>11, <1>12, <1>13, <1>14,
           TransmitStep

LEMMA ListenStep ==
  ASSUME IInv, TypeOK', Listen(Server)
  PROVE  IInv'
<1>1. Server \in End
  BY DEF End
<1>2. /\ conn[Server] \in Connection /\ conn[Server].state = "NONE"
      /\ sent[Peer(Server)] \in Seq(ContOps)
      /\ Sender(Server, conn[Server], conn[Peer(Server)], sent[Server])
      /\ Receiver(Server, conn[Server], sent[Peer(Server)], given[Server])
      /\ Opening(Server, sent[Server])
      /\ Waiting(Server) /\ UNCHANGED <<net, sent, given>>
      /\ Peer(Server) # Server
  BY <1>1, Facts, Peers DEF Listen, IInv
<1>3. CASE rfcq[Server]
  <2>1. /\ conn' = [conn EXCEPT ![Server] = LsnMatch(conn[Server], 1)]
        /\ rfcq' = [rfcq EXCEPT ![Server] = FALSE] /\ UNCHANGED lsn
    BY <1>3 DEF Listen
  <2>2. Len(sent[Peer(Server)]) >= 1
    BY <1>2, <1>3 DEF Waiting
  <2>3. LsnMatch(conn[Server], 1) \in Connection
    BY <1>2, LsnMatchType, NumFacts
  <2>4. Fits(Server, LsnMatch(conn[Server], 1))
    BY <1>2, <2>2, LsnMatchHalves DEF Fits
  <2>5. Waiting(Server)'
    BY <1>1, <1>2, <2>1 DEF Waiting, IInv, TypeOK
  <2>6. rfcq[Peer(Server)]' = rfcq[Peer(Server)]
    BY <1>2, <2>1 DEF IInv, TypeOK
  <2> QED BY <1>1, <1>2, <2>1, <2>3, <2>4, <2>5, <2>6, SilentStep
<1>4. CASE ~rfcq[Server]
  <2> DEFINE r == [conn[Server] EXCEPT !.state = "LISTEN"]
  <2>1. /\ conn' = [conn EXCEPT ![Server] = r]
        /\ lsn' = [lsn EXCEPT ![Server] = TRUE] /\ UNCHANGED rfcq
    BY <1>4 DEF Listen
  <2>2. /\ r.tlast = conn[Server].tlast /\ r.trecvd = conn[Server].trecvd
        /\ r.tacked = conn[Server].tacked /\ r.twsize = conn[Server].twsize
        /\ r.thead = conn[Server].thead /\ r.state = "LISTEN"
        /\ r.rlast = conn[Server].rlast /\ r.rread = conn[Server].rread
        /\ r.rhead = conn[Server].rhead /\ r.racked = conn[Server].racked
        /\ r.routorder = conn[Server].routorder
        /\ r \in Connection
    BY <1>2 DEF Connection, States
  <2> HIDE DEF r
  <2>3. Fits(Server, r)
    <3>1. Sender(Server, r, conn[Peer(Server)], sent[Server])
      BY <1>2, <2>2 DEF Sender
    <3>2. Server # User
      BY ConnAssumption
    <3>3. Receiver(Server, r, sent[Peer(Server)], given[Server])
      BY <1>2, <2>2, <3>2 DEF Receiver, InPlace
    <3> QED BY <1>2, <2>2, <3>1, <3>3, ConnNumbers DEF Fits
  <2>4. Waiting(Server)'
    BY <1>1, <1>2, <2>1, <2>2 DEF Waiting, IInv, TypeOK
  <2>5. lsn[Peer(Server)]' = lsn[Peer(Server)]
    BY <1>2, <2>1 DEF IInv, TypeOK
  <2> QED BY <1>1, <1>2, <2>1, <2>2, <2>3, <2>4, <2>5, SilentStep
<1> QED BY <1>3, <1>4

LEMMA ConsumeStep ==
  ASSUME IInv, TypeOK', NEW e \in End, Consume(e)
  PROVE  IInv'
<1> DEFINE r == conn[e]
           read == ChRead(e, r)
           c == read.conn
           t == [c EXCEPT !.input = @ /\ c.rhead # <<>>]
           p == Head(r.rhead)
           g == IF p.op \in DataOps THEN Append(given[e], p.op) ELSE given[e]
<1>1. /\ r \in Connection /\ conn[Peer(e)] \in Connection
      /\ sent[Peer(e)] \in Seq(ContOps) /\ given[e] \in Seq(DataOps)
      /\ Sender(e, r, conn[Peer(e)], sent[e])
      /\ Receiver(e, r, sent[Peer(e)], given[e])
      /\ Opening(e, sent[e]) /\ Waiting(e)
      /\ Peer(e) # e /\ Peer(e) \in End
  BY Facts, Peers DEF IInv
<1>2. r.rhead # <<>>
  BY DEF Consume
<1>3. conn' = [conn EXCEPT ![e] = t] /\ net' = net \cup read.sts
      /\ UNCHANGED <<lsn, rfcq, sent>>
  BY DEF Consume
<1>4. given[e]' = g /\ given[Peer(e)]' = given[Peer(e)]
  BY <1>1 DEF Consume, IInv, TypeOK
<1>5. c \in Connection /\ read.sts \in SUBSET Packet
  BY <1>1, <1>2, ChReadType
<1>6. /\ c.state = r.state /\ c.twsize = r.twsize /\ c.tlast = r.tlast
      /\ c.trecvd = r.trecvd /\ c.tacked = r.tacked /\ c.thead = r.thead
      /\ c.rlast = r.rlast
      /\ \A x \in read.sts : x = Sts(e, c)
  BY <1>1, <1>2, ChReadFields
<1>7. Receiver(e, c, sent[Peer(e)], g) /\ r.rread <= c.rread
  BY <1>1, <1>2, ChReadReceiver
<1> HIDE DEF read, c, g
<1>8. /\ t.state = c.state /\ t.twsize = c.twsize /\ t.tlast = c.tlast
      /\ t.trecvd = c.trecvd /\ t.tacked = c.tacked /\ t.thead = c.thead
      /\ t.rlast = c.rlast /\ t.rread = c.rread /\ t.racked = c.racked
      /\ t.rhead = c.rhead /\ t.routorder = c.routorder /\ t \in Connection
  BY <1>5 DEF Connection
<1> HIDE DEF t
<1>9. Sender(e, t, conn[Peer(e)], sent[e])
  BY <1>1, <1>6, <1>8, SenderSame
<1>10. Receiver(e, t, sent[Peer(e)], g)
  BY <1>7, <1>8, ReceiverSame
<1>11. r.rlast <= t.rlast /\ r.rread <= t.rread
  BY <1>1, <1>6, <1>7, <1>8, ConnNumbers
<1>12. Fits(e, t)
  BY <1>3, <1>4, <1>9, <1>10, <1>11 DEF Fits
<1>13. Waiting(e)'
  <2>1. conn[e]' = t
    BY <1>3 DEF IInv, TypeOK
  <2> QED BY <1>1, <1>3, <1>6, <1>8, <2>1 DEF Waiting
<1>14. \A x \in read.sts : x.to = Peer(e) /\ Sound(x, t, sent[e]')
  BY <1>5, <1>6, <1>8, StsSound
<1>15. /\ Grows(sent[e], sent[e]') /\ Opening(e, sent[e]')
       /\ sent[Peer(e)]' = sent[Peer(e)] /\ lsn[Peer(e)]' = lsn[Peer(e)]
       /\ rfcq[Peer(e)]' = rfcq[Peer(e)]
  BY <1>1, <1>3, Same
<1>16. net' \subseteq net \cup read.sts
  BY <1>3
<1> QED BY <1>3, <1>4, <1>5, <1>8, <1>12, <1>13, <1>14, <1>15, <1>16, Frame

LEMMA CloseStep ==
  ASSUME IInv, TypeOK', NEW e \in End, NEW release \in BOOLEAN, Close(e, release)
  PROVE  IInv'
<1> DEFINE r == conn[e]
           c == IF r.state \in {"OPEN", "RFCRCVD", "RFCSENT"}
                THEN ClsConn(r, "CLOSED", <<>>) ELSE r
           t == IF release THEN RlsConn(c) ELSE c
           cls == [Blank(e, "CLS") EXCEPT !.didx = r.fidx]
           R == {cls}
<1>1. /\ r \in Connection /\ conn[Peer(e)] \in Connection
      /\ Sender(e, r, conn[Peer(e)], sent[e])
      /\ Receiver(e, r, sent[Peer(e)], given[e])
      /\ Opening(e, sent[e]) /\ Waiting(e)
      /\ Peer(e) # e /\ Peer(e) \in End
  BY Facts, Peers DEF IInv
<1>2. /\ conn' = [conn EXCEPT ![e] = t] /\ lsn' = [lsn EXCEPT ![e] = FALSE]
      /\ net' \subseteq net \cup R /\ UNCHANGED <<rfcq, sent, given>>
  BY DEF Close
<1>3. cls \in Packet /\ cls.to = Peer(e) /\ \A S : Sound(cls, t, S)
  <2>1. "CLS" \in Ops \ ContOps
    BY DEF Ops, ContOps, DataOps, EndOps
  <2>2. Blank(e, "CLS") \in Packet
    BY <2>1, BlankType
  <2>3. cls \in Packet
    BY <1>1, <2>2 DEF Packet, Connection
  <2>4. /\ cls.to = Blank(e, "CLS").to /\ cls.op = Blank(e, "CLS").op
        /\ cls.pkn = Blank(e, "CLS").pkn /\ cls.ackn = Blank(e, "CLS").ackn
        /\ cls.receipt = Blank(e, "CLS").receipt /\ cls.rwsize = Blank(e, "CLS").rwsize
    BY <2>2 DEF Packet
  <2>5. t \in Connection
    BY <1>2 DEF IInv, TypeOK
  <2> HIDE DEF cls, t
  <2>6. \A S : Blank(e, "CLS").to = Peer(e) /\ Sound(Blank(e, "CLS"), t, S)
    BY <2>1, <2>5, BlankSound
  <2> QED BY <2>3, <2>4, <2>6 DEF Sound
<1>4. /\ c \in Connection /\ Sender(e, c, conn[Peer(e)], sent[e])
      /\ Receiver(e, c, sent[Peer(e)], given[e])
      /\ c.rread = r.rread /\ c.rlast = r.rlast
  <2>1. CASE r.state \in {"OPEN", "RFCRCVD", "RFCSENT"}
    <3>1. c = ClsConn(r, "CLOSED", <<>>)
      BY <2>1
    <3> HIDE DEF r, c
    <3> QED BY <1>1, <2>1, <3>1, ClsConnSilent
  <2>2. CASE r.state \notin {"OPEN", "RFCRCVD", "RFCSENT"}
    BY <1>1, <2>2
  <2> QED BY <2>1, <2>2
<1> HIDE DEF c
<1>5. /\ t \in Connection /\ Sender(e, t, conn[Peer(e)], sent[e])
      /\ Receiver(e, t, sent[Peer(e)], given[e])
      /\ t.rread = r.rread /\ t.rlast = r.rlast
  <2>1. CASE release
    <3>1. t = RlsConn(c)
      BY <2>1
    <3> HIDE DEF t, r
    <3> QED BY <1>4, <3>1, RlsConnHalves, RlsConnType
  <2>2. CASE ~release
    BY <1>4, <2>2
  <2> QED BY <2>1, <2>2
<1>6. Fits(e, t)
  <2>1. conn[e].rlast <= t.rlast /\ conn[e].rread <= t.rread
    BY <1>1, <1>5, ConnNumbers
  <2> QED BY <1>2, <1>5, <2>1 DEF Fits
<1> HIDE DEF t, cls
<1>7. Waiting(e)' /\ lsn[Peer(e)]' = lsn[Peer(e)]
  BY <1>1, <1>2 DEF Waiting, IInv, TypeOK
<1>8. /\ Grows(sent[e], sent[e]') /\ Opening(e, sent[e]')
      /\ sent[Peer(e)]' = sent[Peer(e)] /\ given[Peer(e)]' = given[Peer(e)]
      /\ rfcq[Peer(e)]' = rfcq[Peer(e)]
  BY <1>1, <1>2, Same
<1>9. R \in SUBSET Packet /\ \A x \in R : x.to = Peer(e) /\ Sound(x, t, sent[e]')
  BY <1>3
<1> HIDE DEF R
<1> QED BY <1>2, <1>5, <1>6, <1>7, <1>8, <1>9, Frame

LEMMA ClockStep ==
  ASSUME IInv, TypeOK', NEW e \in End, ChClock(e)
  PROVE  IInv'
<1> DEFINE sns == [Blank(e, "SNS") EXCEPT !.ackn = conn[e].rread]
<1>1. /\ conn[e] \in Connection
      /\ Sender(e, conn[e], conn[Peer(e)], sent[e])
      /\ Receiver(e, conn[e], sent[Peer(e)], given[e])
  BY Facts
<1>2. PICK S \in Aged(e, conn[e]) :
        LET r   == Told(conn[e], S)
            out == net \cup Retran(e, conn[e], S)
        IN  \/ Set(e, r) /\ net' = out
            \/ Set(e, SetAck(r)) /\ net' = out \cup {[Blank(e, "SNS") EXCEPT !.ackn = r.rread]}
            \/ r.state = "RFCSENT" /\ Set(e, ClsConn(r, "INCT", <<>>)) /\ net' = out
  BY DEF ChClock
<1> DEFINE r == Told(conn[e], S)
           R == Retran(e, conn[e], S) \cup {sns}
<1>3. S \in SUBSET conn[e].thead
  BY DEF Aged
<1>4. /\ r \in Connection /\ Sender(e, r, conn[Peer(e)], sent[e])
      /\ Receiver(e, r, sent[Peer(e)], given[e])
      /\ r.rread = conn[e].rread /\ r.rlast = conn[e].rlast
      /\ r.state = conn[e].state
  BY <1>1, <1>3, ToldHalves
<1>5. UNCHANGED <<lsn, rfcq, sent, given>>
  BY DEF ChClock
<1>6. /\ net' \subseteq net \cup R
      /\ \/ Set(e, r) \/ Set(e, SetAck(r))
         \/ r.state = "RFCSENT" /\ Set(e, ClsConn(r, "INCT", <<>>))
  BY <1>2, <1>4
<1>7. sns \in Packet /\ sns.to = Peer(e) /\ sns.op = "SNS" /\ sns.ackn = conn[e].rread
      /\ sns.receipt = 0 /\ sns.rwsize = 0
  <2>1. Blank(e, "SNS") \in Packet
    BY BlankType DEF Ops
  <2>2. Blank(e, "SNS").to = Peer(e) /\ Blank(e, "SNS").op = "SNS"
        /\ Blank(e, "SNS").receipt = 0 /\ Blank(e, "SNS").rwsize = 0
    BY DEF Blank
  <2> QED BY <1>1, <2>1, <2>2 DEF Packet, Connection
<1> HIDE DEF sns, r
<1>8. R \in SUBSET Packet
  BY <1>1, <1>3, <1>7, RetranType
<1>9. ASSUME NEW t \in Connection, t.rread = conn[e].rread, t.rlast = conn[e].rlast
      PROVE  /\ \A x \in R : x.to = Peer(e) /\ Sound(x, t, sent[e])
             /\ conn[e].rlast <= t.rlast /\ conn[e].rread <= t.rread
  <2>1. Sound(sns, t, sent[e])
    <3>1. sns.ackn <= t.rread /\ sns.receipt <= t.rlast /\ sns.rwsize <= RwSize
      BY <1>7, <1>9, ConnNumbers, Bounds
    <3> QED BY <1>7, <3>1 DEF Sound, ContOps, DataOps
  <2>2. \A x \in Retran(e, conn[e], S) : x.to = Peer(e) /\ Sound(x, t, sent[e])
    BY <1>1, <1>3, <1>9, RetranSound
  <2>3. conn[e].rlast <= t.rlast /\ conn[e].rread <= t.rread
    BY <1>9, ConnNumbers
  <2> QED BY <1>7, <2>1, <2>2, <2>3
<1> HIDE DEF R
<1>10. ASSUME Set(e, r) PROVE IInv'
  BY <1>4, <1>5, <1>6, <1>8, <1>9, <1>10, ReplyStep DEF Set
<1>11. ASSUME Set(e, SetAck(r)) PROVE IInv'
  <2>1. /\ Sender(e, SetAck(r), conn[Peer(e)], sent[e])
        /\ Receiver(e, SetAck(r), sent[Peer(e)], given[e])
        /\ SetAck(r).rread = conn[e].rread /\ SetAck(r).rlast = conn[e].rlast
        /\ SetAck(r).state = conn[e].state /\ SetAck(r) \in Connection
    BY <1>4, SetAckHalves, SetAckType
  <2> QED BY <1>5, <1>6, <1>8, <1>9, <1>11, <2>1, ReplyStep DEF Set
<1>12. ASSUME r.state = "RFCSENT", Set(e, ClsConn(r, "INCT", <<>>)) PROVE IInv'
  <2> DEFINE t == ClsConn(r, "INCT", <<>>)
  <2>2. /\ Sender(e, t, conn[Peer(e)], sent[e])
        /\ Receiver(e, t, sent[Peer(e)], given[e])
        /\ t.rread = conn[e].rread /\ t.rlast = conn[e].rlast
        /\ t \in Connection
    BY <1>4, <1>12, ClsConnSilent
  <2> HIDE DEF t
  <2>3. conn[e].state # "LISTEN" /\ conn' = [conn EXCEPT ![e] = t]
    BY <1>4, <1>12 DEF Set, t
  <2> QED BY <1>5, <1>6, <1>8, <1>9, <2>2, <2>3, ReplyStep
<1> QED BY <1>6, <1>10, <1>11, <1>12

-----------------------------------------------------------------------------
(***************************************************************************)
(* The steps of rcvpkt().                                                  *)
(***************************************************************************)
LEMMA LosSound ==
  ASSUME NEW e \in End, NEW p \in Packet, NEW r \in Connection, NEW S
  PROVE  \A x \in Los(e, p) : x.to = Peer(e) /\ Sound(x, r, S)
<1>1. "LOS" \in Ops \ ContOps
  BY DEF Ops, ContOps, DataOps, EndOps
<1> QED BY <1>1, BlankSound DEF Los

LEMMA Incoming ==
  ASSUME IInv, NEW p \in net
  PROVE  /\ p \in Packet /\ p.to \in End /\ p.op \in Ops
         /\ p.pkn \in Num /\ p.ackn \in Num /\ p.receipt \in Num /\ p.rwsize \in Num
         /\ p.op \in ContOps => /\ p.pkn \in 1 .. Len(sent[Peer(p.to)])
                                /\ sent[Peer(p.to)][p.pkn] = p.op
         /\ p.ackn <= conn[Peer(p.to)].rread /\ p.ackn <= conn[Peer(p.to)].rlast
         /\ p.receipt <= conn[Peer(p.to)].rlast /\ p.rwsize <= RwSize
<1>1. p \in Packet
  BY DEF IInv, TypeOK
<1>2. /\ p.to \in End /\ p.op \in Ops
      /\ p.pkn \in Num /\ p.ackn \in Num /\ p.receipt \in Num /\ p.rwsize \in Num
  BY <1>1, PacketFields
<1>3. Sound(p, conn[Peer(p.to)], sent[Peer(p.to)])
  BY DEF IInv, InFlight
<1>4. /\ conn[Peer(p.to)] \in Connection
      /\ conn[Peer(p.to)].rread <= conn[Peer(p.to)].rlast
  BY <1>2, Facts
<1>5. p.ackn <= conn[Peer(p.to)].rlast
  <2>1. p.ackn \in Nat
    BY <1>2, NumFacts
  <2>2. conn[Peer(p.to)].rread \in Nat /\ conn[Peer(p.to)].rlast \in Nat
    BY <1>4, ConnNumbers
  <2>3. p.ackn <= conn[Peer(p.to)].rread
    BY <1>3 DEF Sound
  <2> QED BY <1>4, <2>1, <2>2, <2>3
<1> QED BY <1>1, <1>2, <1>3, <1>5 DEF Sound

LEMMA ReceiptHalves ==
  ASSUME IInv, NEW e \in End, NEW r \in Connection, NEW a \in Num, NEW b \in Num,
         Sender(e, r, conn[Peer(e)], sent[e]),
         Receiver(e, r, sent[Peer(e)], given[e]),
         a <= conn[Peer(e)].rread, b <= conn[Peer(e)].rlast
  PROVE  /\ Receipt(r, a, b) \in Connection
         /\ Sender(e, Receipt(r, a, b), conn[Peer(e)], sent[e])
         /\ Receiver(e, Receipt(r, a, b), sent[Peer(e)], given[e])
         /\ Receipt(r, a, b).rread = r.rread /\ Receipt(r, a, b).rlast = r.rlast
         /\ Receipt(r, a, b).state = r.state /\ Receipt(r, a, b).rhead = r.rhead
         /\ Receipt(r, a, b).routorder = r.routorder
<1> DEFINE s == conn[Peer(e)]
           S == sent[e]
           t == Receipt(r, a, b)
<1>1. /\ s \in Connection /\ S \in Seq(ContOps) /\ Len(S) <= MaxPkts
      /\ s.rread <= s.rlast /\ s.rlast <= Len(S)
  BY Facts
<1>2. Sender(e, r, s, S) /\ a <= s.rread /\ b <= s.rlast
  OBVIOUS
<1> HIDE DEF s, S
<1>3. Sender(e, t, s, S)
  BY <1>1, <1>2, ReceiptSender
<1>4. t \in Connection
  BY ReceiptType
<1>5. /\ t.state = r.state /\ t.rlast = r.rlast /\ t.racked = r.racked
      /\ t.rread = r.rread /\ t.rhead = r.rhead /\ t.routorder = r.routorder
  BY ReceiptFields
<1> HIDE DEF t
<1>6. Receiver(e, t, sent[Peer(e)], given[e])
  BY <1>5, ReceiverSame
<1> QED BY <1>3, <1>4, <1>5, <1>6 DEF s, S, t

LEMMA ReceiptedHalves ==
  ASSUME IInv, NEW p \in net
  PROVE  /\ Receipted(p) \in Connection
         /\ Sender(p.to, Receipted(p), conn[Peer(p.to)], sent[p.to])
         /\ Receiver(p.to, Receipted(p), sent[Peer(p.to)], given[p.to])
         /\ Receipted(p).rread = conn[p.to].rread
         /\ Receipted(p).rlast = conn[p.to].rlast
         /\ Receipted(p).state = conn[p.to].state
         /\ Receipted(p).rhead = conn[p.to].rhead
         /\ Receipted(p).routorder = conn[p.to].routorder
BY Incoming, Facts, ReceiptHalves DEF Receipted

(* A received packet that changes nothing here. *)
LEMMA IdleStep ==
  ASSUME IInv, TypeOK', NEW p \in net, UNCHANGED <<conn, lsn, rfcq, sent, given>>,
         net' \subseteq net \cup Los(p.to, p)
  PROVE  IInv'
<1> DEFINE e == p.to
<1>1. /\ e \in End /\ conn[e] \in Connection /\ p \in Packet
      /\ Sender(e, conn[e], conn[Peer(e)], sent[e])
      /\ Receiver(e, conn[e], sent[Peer(e)], given[e])
  BY Facts, Incoming
<1>2. conn' = [conn EXCEPT ![e] = conn[e]]
  BY <1>1 DEF IInv, TypeOK
<1>3. /\ Los(e, p) \in SUBSET Packet
      /\ \A x \in Los(e, p) : x.to = Peer(e) /\ Sound(x, conn[e], sent[e])
  BY <1>1, LosType, LosSound
<1>4. conn[e].rlast <= conn[e].rlast /\ conn[e].rread <= conn[e].rread
  BY <1>1, ConnNumbers
<1> QED BY <1>1, <1>2, <1>3, <1>4, ReplyStep

(* ... or is answered with an STS. *)
LEMMA StsStep ==
  ASSUME IInv, TypeOK', NEW p \in net, UNCHANGED <<lsn, rfcq, sent, given>>,
         NEW r \in Connection,
         Sender(p.to, r, conn[Peer(p.to)], sent[p.to]),
         Receiver(p.to, r, sent[Peer(p.to)], given[p.to]),
         conn[p.to].rlast <= r.rlast, conn[p.to].rread <= r.rread,
         conn[p.to].state # "LISTEN",
         Set(p.to, SetAck(r)), Arrive(p, {Sts(p.to, r)})
  PROVE  IInv'
<1> DEFINE e == p.to
           t == SetAck(r)
           R == {Sts(e, r)}
<1>1. e \in End
  BY Incoming
<1>2. /\ Sender(e, t, conn[Peer(e)], sent[e])
      /\ Receiver(e, t, sent[Peer(e)], given[e])
      /\ t.rread = r.rread /\ t.rlast = r.rlast /\ t \in Connection
  BY <1>1, SetAckHalves, SetAckType
<1>3. conn' = [conn EXCEPT ![e] = t] /\ net' \subseteq net \cup R
  BY DEF Set, Arrive
<1> HIDE DEF t
<1>4. R \in SUBSET Packet /\ \A x \in R : x.to = Peer(e) /\ Sound(x, t, sent[e])
  BY <1>1, <1>2, StsType, StsSound
<1> HIDE DEF R
<1> QED BY <1>1, <1>2, <1>3, <1>4, ReplyStep

(* ... or makes it send old packets again. *)
LEMMA RetranStep ==
  ASSUME IInv, TypeOK', NEW p \in net, UNCHANGED <<lsn, rfcq, sent, given>>,
         NEW r \in Connection,
         Sender(p.to, r, conn[Peer(p.to)], sent[p.to]),
         Receiver(p.to, r, sent[Peer(p.to)], given[p.to]),
         conn[p.to].rlast = r.rlast, conn[p.to].rread = r.rread,
         conn[p.to].state = r.state,
         NEW A \in SUBSET r.thead,
         Set(p.to, Told(r, A)), Arrive(p, Retran(p.to, r, A))
  PROVE  IInv'
<1> DEFINE e == p.to
           t == Told(r, A)
           R == Retran(e, r, A)
<1>1. e \in End /\ conn[e] \in Connection
  BY Incoming, Facts
<1>2. /\ Sender(e, t, conn[Peer(e)], sent[e])
      /\ Receiver(e, t, sent[Peer(e)], given[e])
      /\ t.rread = r.rread /\ t.rlast = r.rlast /\ t.state = r.state
      /\ t \in Connection
  BY <1>1, ToldHalves
<1>3. conn' = [conn EXCEPT ![e] = t] /\ net' \subseteq net \cup R
  BY DEF Set, Arrive
<1> HIDE DEF t
<1>4. R \in SUBSET Packet /\ \A x \in R : x.to = Peer(e) /\ Sound(x, t, sent[e])
  BY <1>1, <1>2, RetranType, RetranSound
<1>5. conn[e].rlast <= t.rlast /\ conn[e].rread <= t.rread
  BY <1>1, <1>2, ConnNumbers
<1> HIDE DEF R
<1> QED BY <1>1, <1>2, <1>3, <1>4, <1>5, ReplyStep

LEMMA RFCStep ==
  ASSUME IInv, TypeOK', NEW p \in net, RcvRFC(p)
  PROVE  IInv'
<1> DEFINE e == p.to
<1>1. /\ p.op = "RFC" /\ "RFC" \in ContOps /\ UNCHANGED <<sent, given>>
      /\ net' \subseteq net
  BY DEF RcvRFC, Await, ContOps, Arrive
<1>2. e \in End /\ Peer(e) \in End /\ Peer(e) # e /\ Peer(Peer(e)) = e
  BY Incoming, Peers
<1>3. /\ conn[e] \in Connection /\ sent[Peer(e)] \in Seq(ContOps)
      /\ Sender(e, conn[e], conn[Peer(e)], sent[e])
      /\ Receiver(e, conn[e], sent[Peer(e)], given[e])
      /\ Opening(Peer(e), sent[Peer(e)]) /\ Opening(e, sent[e])
      /\ Waiting(e)
  BY <1>2, Facts DEF IInv
<1>4. p.pkn \in 1 .. Len(sent[Peer(e)]) /\ sent[Peer(e)][p.pkn] = "RFC"
  BY <1>1, Incoming
<1>5. Peer(e) = User /\ p.pkn = 1
  BY <1>3, <1>4 DEF Opening
<1>6. e = Server /\ Len(sent[Peer(e)]) >= 1
  BY <1>2, <1>3, <1>4, <1>5, ConnAssumption DEF Peer, End
<1> DEFINE R == {}
<1>7. R \in SUBSET Packet /\ net' \subseteq net \cup R
  BY <1>1
<1>8. CASE lsn[e]
  <2> DEFINE r == LsnMatch(conn[e], 1)
  <2>1. conn[e].state = "LISTEN"
    BY <1>3, <1>8 DEF Waiting
  <2>2. /\ conn' = [conn EXCEPT ![e] = r]
        /\ lsn' = [lsn EXCEPT ![e] = FALSE] /\ UNCHANGED rfcq
    BY <1>5, <1>8 DEF RcvRFC, Await, Set
  <2>3. r \in Connection
    BY <1>3, LsnMatchType, NumFacts
  <2>4. Fits(e, r)
    <3>1. /\ Sender(e, r, conn[Peer(e)], sent[e])
          /\ Receiver(e, r, sent[Peer(e)], given[e])
          /\ conn[e].rread <= r.rread /\ conn[e].rlast <= r.rlast
      BY <1>3, <1>6, <2>1, LsnMatchHalves
    <3> HIDE DEF r
    <3> QED BY <1>1, <3>1 DEF Fits
  <2>5. Waiting(e)' /\ lsn[Peer(e)]' = lsn[Peer(e)]
    BY <1>1, <1>2, <1>3, <2>2 DEF Waiting, IInv, TypeOK
  <2>6. /\ Grows(sent[e], sent[e]') /\ Opening(e, sent[e]')
        /\ sent[Peer(e)]' = sent[Peer(e)] /\ given[Peer(e)]' = given[Peer(e)]
        /\ rfcq[Peer(e)]' = rfcq[Peer(e)]
    BY <1>1, <1>3, <2>2, Same
  <2>7. \A x \in R : x.to = Peer(e) /\ Sound(x, r, sent[e]')
    OBVIOUS
  <2> HIDE DEF r, R
  <2> QED BY <1>2, <1>7, <2>2, <2>3, <2>4, <2>5, <2>6, <2>7, Frame
<1>9. CASE ~lsn[e]
  <2> DEFINE r == conn[e]
  <2>1. rfcq' = [rfcq EXCEPT ![e] = TRUE] /\ UNCHANGED <<conn, lsn>>
    BY <1>9 DEF RcvRFC, Await
  <2>2. conn' = [conn EXCEPT ![e] = r]
    BY <2>1 DEF IInv, TypeOK
  <2>3. Fits(e, r)
    BY <1>1, <1>3, ConnNumbers DEF Fits
  <2>4. Waiting(e)' /\ rfcq[Peer(e)]' = rfcq[Peer(e)]
    BY <1>1, <1>2, <1>3, <1>6, <2>1 DEF Waiting, IInv, TypeOK
  <2>5. /\ Grows(sent[e], sent[e]') /\ Opening(e, sent[e]')
        /\ sent[Peer(e)]' = sent[Peer(e)] /\ given[Peer(e)]' = given[Peer(e)]
        /\ lsn[Peer(e)]' = lsn[Peer(e)]
    BY <1>1, <1>3, <2>1, Same
  <2>6. \A x \in R : x.to = Peer(e) /\ Sound(x, r, sent[e]')
    OBVIOUS
  <2>7. r \in Connection
    BY <1>3
  <2> HIDE DEF r, R
  <2> QED BY <1>2, <1>7, <2>2, <2>3, <2>4, <2>5, <2>6, <2>7, Frame
<1> QED BY <1>8, <1>9

LEMMA OPNStep ==
  ASSUME IInv, TypeOK', NEW p \in net, RcvOPN(p)
  PROVE  IInv'
<1> DEFINE e == p.to
           o == [conn[e] EXCEPT !.state = "OPEN", !.fidx = TRUE,
                                !.rread = p.pkn, !.rlast = p.pkn,
                                !.twsize = p.rwsize]
           r == Receipt(o, p.ackn, p.ackn)
<1>1. /\ p.op = "OPN" /\ "OPN" \in ContOps /\ conn[e].state = "RFCSENT"
      /\ Set(e, SetAck(r)) /\ Arrive(p, {Sts(e, r)})
      /\ UNCHANGED <<lsn, rfcq, sent, given>>
  BY DEF RcvOPN, ContOps
<1>2. e \in End /\ Peer(e) \in End
  BY Incoming, Peers
<1>3. /\ conn[e] \in Connection /\ sent[Peer(e)] \in Seq(ContOps)
      /\ Sender(e, conn[e], conn[Peer(e)], sent[e])
      /\ Receiver(e, conn[e], sent[Peer(e)], given[e])
      /\ Opening(Peer(e), sent[Peer(e)])
  BY <1>2, Facts
<1>4. p.pkn \in 1 .. Len(sent[Peer(e)]) /\ sent[Peer(e)][p.pkn] = "OPN"
  BY <1>1, Incoming
<1>5. p.pkn = 1 /\ Len(sent[Peer(e)]) >= 1
  BY <1>3, <1>4 DEF Opening
<1>6. /\ p.rwsize \in Num /\ p.rwsize <= RwSize /\ p.ackn \in Num
      /\ p.ackn <= conn[Peer(e)].rread /\ p.ackn <= conn[Peer(e)].rlast
  BY Incoming
<1>7. /\ conn[e].rlast = 0 /\ conn[e].rread = 0 /\ conn[e].racked = 0
      /\ conn[e].rhead = <<>> /\ Len(given[e]) = 0
  BY <1>1, <1>3, ConnNumbers DEF Receiver
<1>8. /\ o.state = "OPEN" /\ o.rread = 1 /\ o.rlast = 1 /\ o.twsize = p.rwsize
      /\ o.tlast = conn[e].tlast /\ o.trecvd = conn[e].trecvd
      /\ o.tacked = conn[e].tacked /\ o.thead = conn[e].thead
      /\ o.racked = 0 /\ o.rhead = <<>> /\ o.routorder = conn[e].routorder
      /\ o \in Connection
  BY <1>3, <1>5, <1>6, <1>7, NumFacts DEF Connection, States
<1> HIDE DEF o
<1>9. Sender(e, o, conn[Peer(e)], sent[e])
  BY <1>1, <1>3, <1>6, <1>8 DEF Sender
<1>10. Receiver(e, o, sent[Peer(e)], given[e])
  <2>1. Len(o.rhead) = 0 /\ Len(o.rhead) = o.rlast - o.rread /\ o.rread # 0
    BY <1>8
  <2>2. 0 <= o.rread /\ o.rread <= o.rlast /\ o.rlast <= Len(sent[Peer(e)])
    BY <1>5, <1>8
  <2> QED BY <1>3, <1>7, <1>8, <2>1, <2>2 DEF Receiver
<1>11. /\ r \in Connection /\ Sender(e, r, conn[Peer(e)], sent[e])
       /\ Receiver(e, r, sent[Peer(e)], given[e])
       /\ r.rread = 1 /\ r.rlast = 1
  BY <1>2, <1>6, <1>8, <1>9, <1>10, ReceiptHalves
<1> HIDE DEF r
<1>12. conn[e].rlast <= r.rlast /\ conn[e].rread <= r.rread /\ conn[e].state # "LISTEN"
  BY <1>1, <1>7, <1>11
<1> QED BY <1>1, <1>11, <1>12, StsStep

LEMMA EndStep ==
  ASSUME IInv, TypeOK', NEW p \in net, RcvRefusal(p) \/ RcvEnd(p)
  PROVE  IInv'
<1> DEFINE e == p.to
<1>1. PICK st \in {"CLOSED", "LOST"} :
        Set(e, ClsConn(conn[e], st, <<[op |-> p.op, pkn |-> 0]>>))
  BY DEF RcvRefusal, RcvEnd
<1>2. /\ p.op \in EndOps /\ conn[e].state \in {"OPEN", "RFCSENT"}
      /\ net' \subseteq net /\ UNCHANGED <<lsn, rfcq, sent, given>>
  BY DEF RcvRefusal, RcvEnd, EndOps, InOpen, Arrive
<1>3. /\ e \in End /\ conn[e] \in Connection
      /\ Sender(e, conn[e], conn[Peer(e)], sent[e])
      /\ Receiver(e, conn[e], sent[Peer(e)], given[e])
  BY Incoming, Facts
<1> DEFINE r == ClsConn(conn[e], st, <<[op |-> p.op, pkn |-> 0]>>)
           R == {}
<1>4. /\ Sender(e, r, conn[Peer(e)], sent[e])
      /\ Receiver(e, r, sent[Peer(e)], given[e])
      /\ r.rread = conn[e].rread /\ r.rlast = conn[e].rlast /\ r \in Connection
  BY <1>2, <1>3, ClsConnLast
<1>5. conn' = [conn EXCEPT ![e] = r]
  BY <1>1 DEF Set
<1> HIDE DEF r
<1>6. /\ conn[e].rlast <= r.rlast /\ conn[e].rread <= r.rread
      /\ conn[e].state # "LISTEN"
  BY <1>2, <1>3, <1>4, ConnNumbers
<1>7. /\ R \in SUBSET Packet /\ net' \subseteq net \cup R
      /\ \A x \in R : x.to = Peer(e) /\ Sound(x, r, sent[e])
  BY <1>2
<1> HIDE DEF R
<1> QED BY <1>2, <1>3, <1>4, <1>5, <1>6, <1>7, ReplyStep

LEMMA EarlyStep ==
  ASSUME IInv, TypeOK', NEW p \in net, RcvEarly(p)
  PROVE  IInv'
<1> DEFINE e == p.to
           r == Receipted(p)
           q == [op |-> p.op, pkn |-> p.pkn]
           t == [r EXCEPT !.routorder = @ \cup {q}]
           R == {}
<1>1. /\ p.op \in DataOps /\ Set(e, t) /\ net' \subseteq net
      /\ conn[e].state = "OPEN" /\ UNCHANGED <<lsn, rfcq, sent, given>>
  BY DEF RcvEarly, InOpen, Arrive
<1>2. /\ e \in End /\ conn[e] \in Connection
  BY Incoming, Facts
<1>3. /\ r \in Connection
      /\ Sender(e, r, conn[Peer(e)], sent[e])
      /\ Receiver(e, r, sent[Peer(e)], given[e])
      /\ r.rread = conn[e].rread /\ r.rlast = conn[e].rlast
  BY ReceiptedHalves
<1>4. p.pkn \in Num /\ p.pkn \in 1 .. Len(sent[Peer(e)]) /\ sent[Peer(e)][p.pkn] = p.op
  BY <1>1, Incoming DEF ContOps
<1> HIDE DEF r
<1>5. /\ t.tlast = r.tlast /\ t.trecvd = r.trecvd /\ t.tacked = r.tacked
      /\ t.twsize = r.twsize /\ t.thead = r.thead /\ t.state = r.state
      /\ t.rlast = r.rlast /\ t.rread = r.rread /\ t.rhead = r.rhead
      /\ t.racked = r.racked /\ t.routorder = r.routorder \cup {q}
  BY <1>3 DEF Connection
<1>6. t \in Connection
  <2>1. q \in Element(DataOps)
    BY <1>1, <1>4 DEF Element
  <2> QED BY <1>3, <2>1 DEF Connection
<1>7. q.pkn = p.pkn /\ q.op = p.op
  OBVIOUS
<1> HIDE DEF t, q
<1>8. Sender(e, t, conn[Peer(e)], sent[e])
  BY <1>3, <1>5, SenderSame
<1>9. Receiver(e, t, sent[Peer(e)], given[e])
  <2>1. \A x \in t.routorder : /\ x.pkn \in 1 .. Len(sent[Peer(e)])
                               /\ sent[Peer(e)][x.pkn] = x.op
    BY <1>3, <1>4, <1>5, <1>7 DEF Receiver
  <2> QED BY <1>3, <1>5, <2>1 DEF Receiver, InPlace
<1>10. conn' = [conn EXCEPT ![e] = t]
  BY <1>1 DEF Set
<1>11. /\ conn[e].rlast <= t.rlast /\ conn[e].rread <= t.rread
       /\ conn[e].state # "LISTEN"
  BY <1>1, <1>2, <1>3, <1>5, ConnNumbers
<1>12. /\ R \in SUBSET Packet /\ net' \subseteq net \cup R
       /\ \A x \in R : x.to = Peer(e) /\ Sound(x, t, sent[e])
  BY <1>1
<1> HIDE DEF R
<1> QED BY <1>1, <1>2, <1>6, <1>8, <1>9, <1>10, <1>11, <1>12, ReplyStep

(* rcvdata() takes in order what follows rlast: the numbers of run are     *)
(* those that the peer has sent.                                           *)
Consecutive(run, k, n) == \A i \in 1 .. k : run[i].pkn = (n + i) % NumMod
Known(q, P) == \A x \in q : x.pkn \in 1 .. Len(P)

(* A run of packets numbered on from n, all of them sent by the peer, does  *)
(* not go round the number circle.                                         *)
LEMMA RunNumbers ==
  ASSUME NEW P \in Seq(ContOps), Len(P) <= MaxPkts,
         NEW n \in Nat, n <= Len(P), NEW k \in Nat,
         NEW q, NEW run \in [1 .. k -> q],
         Known(q, P), Consecutive(run, k, n)
  PROVE  /\ n + k <= Len(P)
         /\ (n + k) % NumMod = n + k /\ (n + k + 1) % NumMod = n + k + 1
         /\ \A i \in 1 .. k : run[i].pkn = n + i
<1>1. Len(P) \in Nat /\ \A i \in 1 .. k : run[i].pkn = (n + i) % NumMod
  BY DEF Consecutive
<1>2. \A i \in 1 .. k : run[i].pkn \in 1 .. Len(P)
  BY DEF Known
<1>3. n + k <= Len(P)
  <2>1. SUFFICES ASSUME n + k > Len(P) PROVE FALSE
    BY <1>1
  <2> DEFINE i == Len(P) + 1 - n
  <2>2. i \in 1 .. k /\ n + i = Len(P) + 1
    BY <1>1, <2>1
  <2>3. Len(P) + 1 \in Nat /\ Len(P) + 1 <= MaxPkts + RwSize
    BY <1>1, Bounds
  <2>4. run[i].pkn = Len(P) + 1
    BY <1>1, <2>2, <2>3, Small
  <2>5. run[i].pkn <= Len(P)
    BY <1>2, <2>2
  <2> QED BY <1>1, <2>4, <2>5
<1>4. \A i \in 0 .. k + 1 : (n + i) % NumMod = n + i
  <2>1. \A i \in 0 .. k + 1 : n + i \in Nat /\ n + i <= MaxPkts + RwSize
    BY <1>1, <1>3, Bounds
  <2> QED BY <2>1, Small
<1>5. (n + k) % NumMod = n + k /\ (n + k + 1) % NumMod = n + k + 1
  <2>1. k \in 0 .. k + 1 /\ k + 1 \in 0 .. k + 1
    OBVIOUS
  <2>2. n + (k + 1) = n + k + 1
    OBVIOUS
  <2>3. (n + k) % NumMod = n + k /\ (n + (k + 1)) % NumMod = n + (k + 1)
    BY <1>4, <2>1
  <2> QED BY <2>2, <2>3, Zenon
<1>6. \A i \in 1 .. k : run[i].pkn = n + i
  BY <1>1, <1>4
<1> QED BY <1>3, <1>5, <1>6

LEMMA InOrderStep ==
  ASSUME IInv, TypeOK', NEW p \in net, RcvInOrder(p)
  PROVE  IInv'
<1> DEFINE e == p.to
           r == Receipted(p)
           q == r.routorder \cup {[op |-> p.op, pkn |-> p.pkn]}
           P == sent[Peer(e)]
           R == {}
<1>1. /\ p.op \in DataOps /\ net' \subseteq net
      /\ conn[e].state = "OPEN" /\ UNCHANGED <<lsn, rfcq, sent, given>>
  BY DEF RcvInOrder, InOpen, Arrive
<1>a. PICK k \in 1 .. Cardinality(q) : \E run \in [1 .. k -> q] :
        /\ \A i \in 1 .. k : run[i].pkn = (r.rlast + i) % NumMod
        /\ Set(e, Deliver(e, r, run, k, q))
  BY DEF RcvInOrder
<1>2. PICK run \in [1 .. k -> q] :
        /\ \A i \in 1 .. k : run[i].pkn = (r.rlast + i) % NumMod
        /\ Set(e, Deliver(e, r, run, k, q))
  BY <1>a
<1> DEFINE rest == {x \in q : \A i \in 1 .. k : x # run[i]}
           t == Deliver(e, r, run, k, q)
<1>3. /\ e \in End /\ conn[e] \in Connection /\ P \in Seq(ContOps)
      /\ Len(P) <= MaxPkts
  BY Incoming, Facts
<1>4. /\ r \in Connection
      /\ Sender(e, r, conn[Peer(e)], sent[e])
      /\ Receiver(e, r, P, given[e])
      /\ r.rread = conn[e].rread /\ r.rlast = conn[e].rlast
      /\ r.state = "OPEN"
  BY <1>1, ReceiptedHalves
<1>5. p.pkn \in Num /\ p.pkn \in 1 .. Len(P) /\ P[p.pkn] = p.op
  BY <1>1, Incoming DEF ContOps
<1> HIDE DEF r, P
<1>6. /\ q \subseteq Element(DataOps)
      /\ \A x \in q : x.op \in DataOps /\ x.pkn \in 1 .. Len(P) /\ P[x.pkn] = x.op
  <2>1. \A x \in r.routorder : x \in Element(DataOps) /\ x.op \in DataOps
                               /\ x.pkn \in 1 .. Len(P) /\ P[x.pkn] = x.op
    BY <1>4 DEF Receiver, Connection, Element
  <2>2. [op |-> p.op, pkn |-> p.pkn] \in Element(DataOps)
    BY <1>1, <1>5 DEF Element
  <2> QED BY <1>1, <1>5, <2>1, <2>2
<1>7. /\ k \in Nat /\ k >= 1 /\ r.rlast \in Nat /\ r.rread \in Nat /\ Len(P) \in Nat
      /\ r.rread <= r.rlast /\ r.rlast <= Len(P) /\ r.rread >= 1
      /\ r.rhead \in Seq(Queued) /\ Len(r.rhead) \in Nat
      /\ Len(r.rhead) = r.rlast - r.rread
  BY <1>3, <1>4, ConnNumbers DEF Receiver
<1> HIDE DEF q
<1>8. /\ run \in Seq(Queued) /\ Len(run) = k
      /\ \A i \in 1 .. k : run[i] \in q
  <2>1. q \subseteq Queued
    BY <1>6 DEF Queued, Element
  <2> QED BY <1>7, <2>1
<1>b. /\ r.rhead \o run \in Seq(Queued)
      /\ Len(r.rhead \o run) = Len(r.rhead) + k
      /\ \A i \in 1 .. Len(r.rhead) : (r.rhead \o run)[i] = r.rhead[i]
      /\ \A j \in 1 .. k : (r.rhead \o run)[Len(r.rhead) + j] = run[j]
  <2>1. \A h, u \in Seq(Queued) :
          /\ h \o u \in Seq(Queued) /\ Len(h \o u) = Len(h) + Len(u)
          /\ \A i \in 1 .. Len(h) : (h \o u)[i] = h[i]
          /\ \A j \in 1 .. Len(u) : (h \o u)[Len(h) + j] = u[j]
    BY Concat
  <2> QED BY <1>7, <1>8, <2>1, Zenon
<1>9. /\ r.rlast + k <= Len(P) /\ (r.rlast + k) % NumMod = r.rlast + k
      /\ \A i \in 1 .. k : run[i].pkn = r.rlast + i
  <2>1. Known(q, P)
    BY <1>6 DEF Known
  <2>2. Consecutive(run, k, r.rlast)
    BY <1>2 DEF Consecutive
  <2>3. r.rlast \in Nat /\ r.rlast <= Len(P) /\ k \in Nat
    BY <1>7
  <2>4. P \in Seq(ContOps) /\ Len(P) <= MaxPkts /\ run \in [1 .. k -> q]
    BY <1>3
  <2> QED BY <2>1, <2>2, <2>3, <2>4, RunNumbers
<1>13. /\ t.tlast = r.tlast /\ t.trecvd = r.trecvd /\ t.tacked = r.tacked
       /\ t.twsize = r.twsize /\ t.thead = r.thead /\ t.state = r.state
       /\ t.rlast = r.rlast + k /\ t.rread = r.rread
       /\ t.rhead = r.rhead \o run /\ t.racked = r.racked /\ t.routorder = rest
  BY <1>4, <1>9 DEF Connection, Deliver
<1>14. t \in Connection
  <2>1. r.rhead \o run \in Seq(Queued)
    BY <1>b
  <2>2. rest \in SUBSET Element(DataOps)
    BY <1>6
  <2>3. (r.rlast + k) % NumMod \in Num
    <3>1. r.rlast + k \in Int
      BY <1>7
    <3> QED BY <3>1, NumFacts, Zenon
  <2>4. (e \in Captive /\ r.rhead = <<>>) \in BOOLEAN
    OBVIOUS
  <2> QED BY <1>4, <2>1, <2>2, <2>3, <2>4 DEF Connection, Deliver
<1>15. \A x \in rest : x.pkn \in 1 .. Len(P) /\ P[x.pkn] = x.op
  BY <1>6
<1>16. conn' = [conn EXCEPT ![e] = t]
  BY <1>2 DEF Set
<1> HIDE DEF t, rest
<1>17. ASSUME NEW i \in 1 .. Len(t.rhead) PROVE InPlace(t, P, i)
  <2>1. CASE i \in 1 .. Len(r.rhead)
    <3>1. t.rhead[i] = r.rhead[i] /\ InPlace(r, P, i)
      BY <1>b, <1>4, <1>7, <1>13, <2>1 DEF Receiver
    <3>2. ~(r.rlast = 1 /\ Len(r.rhead) = 1)
      BY <1>7
    <3>3. r.rhead[i].op \in DataOps /\ r.rhead[i].pkn = r.rread + i
          /\ r.rhead[i].pkn <= r.rlast /\ r.rhead[i].op = P[r.rhead[i].pkn]
      BY <1>4, <3>1, <3>2 DEF InPlace
    <3>4. r.rread + i <= r.rlast + k
      BY <1>7, <2>1
    <3> QED BY <1>7, <1>13, <3>1, <3>3, <3>4 DEF InPlace
  <2>2. CASE i \notin 1 .. Len(r.rhead)
    <3>1. i \in 1 .. Len(r.rhead) + k
      BY <1>b, <1>13
    <3>2. PICK j \in 1 .. k : i = Len(r.rhead) + j
      <4>1. \A m \in Nat : i \in 1 .. m + k /\ i \notin 1 .. m
                           => \E j \in 1 .. k : i = m + j
        <5> SUFFICES ASSUME NEW m \in Nat, i \in 1 .. m + k, i \notin 1 .. m
                     PROVE  \E j \in 1 .. k : i = m + j
          OBVIOUS
        <5>1. i - m \in 1 .. k /\ i = m + (i - m)
          BY <1>7
        <5> QED BY <5>1
      <4> QED BY <1>7, <2>2, <3>1, <4>1
    <3>3. t.rhead[i] = run[j]
      BY <1>b, <1>13, <3>2
    <3>4. run[j].op \in DataOps /\ run[j].pkn = r.rlast + j /\ P[run[j].pkn] = run[j].op
      BY <1>6, <1>8, <1>9
    <3>5. r.rlast + j = r.rread + i /\ r.rlast + j <= r.rlast + k
      BY <1>7, <3>2
    <3> QED BY <1>7, <1>13, <3>3, <3>4, <3>5 DEF InPlace
  <2> QED BY <2>1, <2>2
<1>18. Sender(e, t, conn[Peer(e)], sent[e])
  BY <1>4, <1>13, SenderSame
<1>19. Receiver(e, t, P, given[e])
  <2>1. Len(t.rhead) = Len(r.rhead) + k
    BY <1>b, <1>13
  <2>2. Len(t.rhead) = t.rlast - t.rread /\ t.rread <= t.rlast /\ t.rlast <= Len(P)
    BY <1>7, <1>9, <1>13, <2>1
  <2> QED BY <1>4, <1>13, <1>15, <1>17, <2>2 DEF Receiver
<1>20. /\ conn[e].rlast <= t.rlast /\ conn[e].rread <= t.rread
       /\ conn[e].state # "LISTEN"
  BY <1>1, <1>4, <1>7, <1>13
<1>21. /\ R \in SUBSET Packet /\ net' \subseteq net \cup R
       /\ \A x \in R : x.to = Peer(e) /\ Sound(x, t, sent[e])
  BY <1>1
<1> HIDE DEF R
<1> QED BY <1>1, <1>3, <1>14, <1>16, <1>18, <1>19, <1>20, <1>21, ReplyStep DEF P

LEMMA ReceiveStep ==
  ASSUME IInv, TypeOK', NEW p \in net, RcvPkt(p)
  PROVE  IInv'
<1> DEFINE e == p.to
<1>1. /\ e \in End /\ conn[e] \in Connection /\ p.rwsize \in Num /\ p.rwsize <= RwSize
      /\ p.ackn \in Num /\ p.receipt \in Num
      /\ p.ackn <= conn[Peer(e)].rread /\ p.receipt <= conn[Peer(e)].rlast
  BY Incoming, Facts
<1>2. /\ Sender(e, conn[e], conn[Peer(e)], sent[e])
      /\ Receiver(e, conn[e], sent[Peer(e)], given[e])
  BY <1>1, Facts
<1>3. /\ Receipted(p) \in Connection
      /\ Sender(e, Receipted(p), conn[Peer(e)], sent[e])
      /\ Receiver(e, Receipted(p), sent[Peer(e)], given[e])
      /\ conn[e].rlast <= Receipted(p).rlast /\ conn[e].rread <= Receipted(p).rread
  BY <1>1, ReceiptedHalves, ConnNumbers
<1>4. CASE RcvDupRFC(p)
  <2>1. PICK S \in SUBSET conn[e].thead :
          Set(e, Told(conn[e], S)) /\ Arrive(p, Retran(e, conn[e], S))
    BY <1>4 DEF RcvDupRFC, Aged
  <2>2. UNCHANGED <<lsn, rfcq, sent, given>>
    BY <1>4 DEF RcvDupRFC
  <2> QED BY <1>1, <1>2, <2>1, <2>2, RetranStep
<1>5. CASE RcvRFC(p)
  BY <1>5, RFCStep
<1>6. CASE RcvForNone(p) \/ RcvBadReply(p) \/ RcvOutOfWindow(p) \/ RcvDupOPN(p)
  <2>1. /\ UNCHANGED <<conn, lsn, rfcq, sent, given>>
        /\ net' \subseteq net \cup Los(p.to, p)
    BY <1>6 DEF RcvForNone, RcvBadReply, RcvOutOfWindow, RcvDupOPN, Arrive
  <2> QED BY <2>1, IdleStep
<1>7. CASE RcvOPN(p)
  BY <1>7, OPNStep
<1>8. CASE RcvRefusal(p) \/ RcvEnd(p)
  BY <1>8, EndStep
<1>9. CASE RcvDuplicate(p) \/ RcvSNS(p)
  <2>1. /\ conn[e].state # "LISTEN" /\ UNCHANGED <<lsn, rfcq, sent, given>>
        /\ Set(e, SetAck(Receipted(p))) /\ Arrive(p, {Sts(e, Receipted(p))})
    BY <1>9 DEF RcvDuplicate, RcvSNS, InOpen
  <2> QED BY <1>3, <2>1, StsStep
<1>10. CASE RcvInOrder(p)
  BY <1>10, InOrderStep
<1>11. CASE RcvEarly(p)
  BY <1>11, EarlyStep
<1>12. CASE RcvSTS(p)
  <2> DEFINE w == [conn[e] EXCEPT !.twsize = p.rwsize]
             r == Receipt(w, p.ackn, p.receipt)
  <2>1. PICK S \in Aged(e, r) : Set(e, Told(r, S)) /\ Arrive(p, Retran(e, r, S))
    BY <1>12 DEF RcvSTS
  <2>2. UNCHANGED <<lsn, rfcq, sent, given>>
    BY <1>12 DEF RcvSTS
  <2>3. /\ w.tlast = conn[e].tlast /\ w.trecvd = conn[e].trecvd
        /\ w.tacked = conn[e].tacked /\ w.twsize = p.rwsize
        /\ w.thead = conn[e].thead /\ w.state = conn[e].state
        /\ w.rlast = conn[e].rlast /\ w.rread = conn[e].rread
        /\ w.rhead = conn[e].rhead /\ w.racked = conn[e].racked
        /\ w.routorder = conn[e].routorder /\ w \in Connection
    BY <1>1 DEF Connection
  <2> HIDE DEF w
  <2>4. Sender(e, w, conn[Peer(e)], sent[e])
    BY <1>1, <1>2, <2>3 DEF Sender
  <2>5. Receiver(e, w, sent[Peer(e)], given[e])
    BY <1>2, <2>3, ReceiverSame
  <2>6. /\ r \in Connection /\ Sender(e, r, conn[Peer(e)], sent[e])
        /\ Receiver(e, r, sent[Peer(e)], given[e])
        /\ conn[e].rread = r.rread /\ conn[e].rlast = r.rlast
        /\ conn[e].state = r.state
    BY <1>1, <2>3, <2>4, <2>5, ReceiptHalves
  <2> HIDE DEF r
  <2>7. S \in SUBSET r.thead
    BY DEF Aged
  <2> QED BY <2>1, <2>2, <2>6, <2>7, RetranStep
<1> QED BY <1>4, <1>5, <1>6, <1>7, <1>8, <1>9, <1>10, <1>11, <1>12 DEF RcvPkt

-----------------------------------------------------------------------------
(***************************************************************************)
(* The invariant, and what follows from it.                                *)
(***************************************************************************)
LEMMA InvInit == Init => IInv
<1> SUFFICES ASSUME Init PROVE IInv
  OBVIOUS
<1>1. TypeOK
  BY TypeInit
<1>2. ASSUME NEW e \in End
      PROVE  /\ Sender(e, conn[e], conn[Peer(e)], sent[e])
             /\ Receiver(e, conn[e], sent[Peer(e)], given[e])
             /\ Opening(e, sent[e]) /\ Waiting(e)
  <2>1. /\ conn[e] = Fresh /\ conn[Peer(e)] = Fresh /\ ~lsn[e] /\ ~rfcq[e]
        /\ sent[e] = <<>> /\ sent[Peer(e)] = <<>> /\ given[e] = <<>>
    BY Peers DEF Init
  <2>2. Sender(e, Fresh, Fresh, <<>>)
    BY Bounds DEF Sender, Fresh
  <2>3. Receiver(e, Fresh, <<>>, <<>>)
    BY DEF Receiver, Fresh
  <2>4. Opening(e, <<>>)
    BY Bounds DEF Opening
  <2>5. Waiting(e)
    BY <2>1 DEF Waiting
  <2> QED BY <2>1, <2>2, <2>3, <2>4, <2>5
<1>3. \A p \in net : InFlight(p)
  BY DEF Init
<1> QED BY <1>1, <1>2, <1>3 DEF IInv

LEMMA InvStep == IInv /\ [Next]_vars => IInv'
<1> SUFFICES ASSUME IInv, [Next]_vars PROVE IInv'
  OBVIOUS
<1>1. TypeOK'
  BY TypeStep DEF IInv
<1>2. CASE Open(User) \/ Listen(Server) \/ Accept(Server)
  BY <1>1, <1>2, OpenStep, ListenStep, AcceptStep
<1>3. CASE \E e \in End : \E op \in DataOps : Write(e, op)
  BY <1>1, <1>3, WriteStep
<1>4. CASE \E e \in End : ServerInput(e) \/ UserRead(e)
  BY <1>1, <1>4, ConsumeStep DEF ServerInput, UserRead
<1>5. CASE \E e \in End : \E release \in BOOLEAN : Close(e, release)
  BY <1>1, <1>5, CloseStep
<1>6. CASE \E e \in End : ChClock(e)
  BY <1>1, <1>6, ClockStep
<1>7. CASE \E p \in net : RcvPkt(p)
  BY <1>1, <1>7, ReceiveStep
<1>8. CASE \E p \in net : Lose(p)
  <2>1. net' \subseteq net /\ UNCHANGED <<conn, lsn, rfcq, sent, given>>
    BY <1>8 DEF Lose
  <2> QED BY <1>1, <2>1 DEF IInv, Waiting, InFlight
<1>9. CASE UNCHANGED vars
  BY <1>1, <1>9 DEF vars, IInv, Waiting, InFlight
<1> QED BY <1>2, <1>3, <1>4, <1>5, <1>6, <1>7, <1>8, <1>9 DEF Next

(* The inductive invariant holds in every reachable state: each end's      *)
(* sender half agrees with the peer's receiver half.                       *)
THEOREM Invariance == Spec => []IInv
BY InvInit, InvStep, PTL DEF Spec

(* Data is handed to the user once, in order and without a gap, for every  *)
(* window, however packets are reordered, repeated, dropped and resent.    *)
THEOREM InOrder == Spec => []InOrderDelivery
<1>1. ASSUME IInv PROVE InOrderDelivery
  <2> SUFFICES ASSUME NEW e \in End
               PROVE  /\ Len(given[e]) < Len(sent[Peer(e)]) \/ given[e] = <<>>
                      /\ \A i \in 1 .. Len(given[e]) : given[e][i] = sent[Peer(e)][i + 1]
    BY DEF InOrderDelivery
  <2>1. /\ conn[e] \in Connection /\ given[e] \in Seq(DataOps)
        /\ sent[Peer(e)] \in Seq(ContOps)
        /\ Receiver(e, conn[e], sent[Peer(e)], given[e])
    BY <1>1, Facts
  <2>2. conn[e].rread \in Nat /\ conn[e].rlast \in Nat
    BY <2>1, ConnNumbers
  <2>3. CASE conn[e].rread = 0
    <3>1. Len(given[e]) = 0
      BY <2>1, <2>3 DEF Receiver
    <3>2. \A g \in Seq(DataOps) : Len(g) = 0 => g = <<>>
      OBVIOUS
    <3> QED BY <2>1, <3>1, <3>2 DEF Receiver
  <2>4. CASE conn[e].rread # 0
    BY <2>1, <2>2, <2>4 DEF Receiver
  <2> QED BY <2>3, <2>4
<1> QED BY <1>1, Invariance, PTL

(* No end believes more received or read than its peer has received and    *)
(* read, whatever acknowledgement comes late.                              *)
THEOREM ReceiptsSafe == Spec => []ReceiptSafe
<1>1. ASSUME IInv PROVE ReceiptSafe
  BY <1>1 DEF IInv, Sender, ReceiptSafe
<1> QED BY <1>1, Invariance, PTL

(* Every packet an end of a live connection has sent is with the peer or   *)
(* kept to be sent again.                                                  *)
THEOREM NothingLost == Spec => []NothingForgotten
<1>1. ASSUME IInv PROVE NothingForgotten
  <2> SUFFICES ASSUME NEW e \in End, conn[e].state \in {"OPEN", "RFCSENT"},
                      NEW n \in 1 .. Len(sent[e])
               PROVE  \/ n <= conn[Peer(e)].rlast
                      \/ [op |-> sent[e][n], pkn |-> n] \in conn[e].thead
    BY DEF NothingForgotten
  <2>1. /\ conn[e] \in Connection /\ conn[Peer(e)] \in Connection
        /\ Sender(e, conn[e], conn[Peer(e)], sent[e])
    BY <1>1, Facts
  <2>2. /\ n <= conn[e].trecvd \/ [op |-> sent[e][n], pkn |-> n] \in conn[e].thead
        /\ conn[e].trecvd <= conn[Peer(e)].rlast
    BY <2>1 DEF Sender
  <2>3. conn[e].trecvd \in Nat /\ conn[Peer(e)].rlast \in Nat
    BY <2>1, ConnNumbers
  <2> QED BY <2>2, <2>3
<1> QED BY <1>1, Invariance, PTL

(* A sender that minds its window never sends what the receiver throws     *)
(* away as out of the window.                                              *)
THEOREM WindowKept == Spec => []WindowRespected
<1>1. ASSUME IInv PROVE WindowRespected
  <2> SUFFICES ASSUME NEW p \in net, p.op \in DataOps, Peer(p.to) \notin Hasty
               PROVE  p.pkn <= conn[p.to].rread + RwSize
    BY DEF WindowRespected
  <2> DEFINE s == Peer(p.to)
  <2>1. s \in End /\ Peer(s) = p.to
    BY <1>1, Incoming, Peers
  <2>2. /\ conn[s] \in Connection /\ conn[p.to] \in Connection
        /\ Sender(s, conn[s], conn[p.to], sent[s]) /\ sent[s] \in Seq(ContOps)
    BY <1>1, <2>1, Facts
  <2>3. p.pkn \in 1 .. Len(sent[s])
    BY <1>1, Incoming DEF ContOps
  <2> HIDE DEF s
  <2>4. /\ Len(sent[s]) <= conn[s].tacked + RwSize
        /\ conn[s].tacked <= conn[p.to].rread
    BY <2>2 DEF Sender, s
  <2>5. conn[s].tacked \in Nat /\ conn[p.to].rread \in Nat /\ Len(sent[s]) \in Nat
    BY <2>2, ConnNumbers
  <2> QED BY <2>3, <2>4, <2>5, Bounds
<1> QED BY <1>1, Invariance, PTL
=============================================================================
