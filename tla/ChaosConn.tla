------------------------------ MODULE ChaosConn ------------------------------
(***************************************************************************)
(* One Chaosnet connection between two network control programs (NCPs).    *)
(* Both ends run the connection code of chaos/chaos.c and chaos/ncp.c: the *)
(* User end asks for the connection (ch_open), the Server end listens for  *)
(* it (ch_listen, ch_accept).  Between them a network may reorder packets, *)
(* deliver them again (Dup) and drop them (Lossy).                         *)
(*                                                                         *)
(* conn[e] is struct connection (ncp.h).  The two queues the code keeps in *)
(* packet-number order, thead (sent, not yet receipted) and routorder      *)
(* (received out of order), are sets of packets; PacketQueues checks       *)
(* that the pointer loops of chaos.c implement these sets.  rhead is a     *)
(* list in arrival order.                                                  *)
(*                                                                         *)
(* sent and given are history variables: every numbered packet an end has  *)
(* sent, and every data packet its user has been handed.                   *)
(***************************************************************************)
EXTENDS Integers, Sequences, FiniteSets

CONSTANTS
  User, Server,    \* the two ends
  Captive,         \* ends whose input server_input() drains at once (server.c)
  RwSize,          \* receive window both ends announce (cn_rwsize)
  MaxPkts,         \* bound: numbered packets an end sends
  Closers,         \* ends that may call ch_close
  Writers,         \* ends whose user has something to write
  Hasty,           \* ends whose user writes without looking at the window
  Dup,             \* the network may deliver a packet again and again
  Lossy,           \* the network may drop a packet
  Clock,           \* ends whose chaos_clock advances (that run ch_clock)
  Quiet            \* bound: it ticks when fewer packets than this are in the net

(* cn_tlast, pk_pkn, ... are unsigned short; MaxPkts keeps a connection in  *)
(* its first half turn of the number circle, where a late packet cannot be  *)
(* mistaken for a new one.                                                  *)
NumMod  == 65536
NumHalf == 32768

ASSUME ConnAssumption ==
  /\ User # Server
  /\ Captive \subseteq {User, Server} /\ Closers \subseteq {User, Server}
  /\ Writers \subseteq {User, Server}
  /\ Hasty \subseteq {User, Server} /\ Clock \subseteq {User, Server}
  /\ Dup \in BOOLEAN /\ Lossy \in BOOLEAN

ASSUME NumberAssumption ==
  /\ RwSize \in Nat /\ RwSize > 0
  /\ MaxPkts \in Nat /\ MaxPkts + RwSize < NumHalf
  /\ Quiet \in Nat

VARIABLES
  conn,      \* conn[e]: the connection structure of end e
  lsn,       \* lsn[e]: e's listen packet is on chaos_lsnlist
  rfcq,      \* rfcq[e]: an RFC is on e's chaos_rfclist, unmatched
  net,       \* the packets in the network
  sent,      \* history: opcodes of the numbered packets e sent, in order
  given      \* history: opcodes of the data e's user was handed, in order

vars == <<conn, lsn, rfcq, net, sent, given>>

End     == {User, Server}
Peer(e) == IF e = User THEN Server ELSE User

Num     == 0 .. NumMod - 1
DataOps == {"DAT", "EOF"}                      \* what a user writes
ContOps == DataOps \cup {"RFC", "OPN"}         \* CONTPKT: numbered, receipted
EndOps  == {"CLS", "LOS"}                      \* clsconn queues it for the user
Ops     == ContOps \cup EndOps \cup {"SNS", "STS"}
States  == {"NONE", "LISTEN", "RFCRCVD", "RFCSENT", "OPEN", "CLOSED", "LOST",
            "INCT", "GONE"}                    \* GONE: released by rlsconn

Element(ops) == [op : ops, pkn : Num]                   \* a packet on a queue
Queued    == Element(DataOps \cup EndOps \cup {"RFC"})   \* ... for the user
Packet == [to : End, op : Ops, pkn : Num, ackn : Num, receipt : Num,
           rwsize : Num, didx : BOOLEAN]

Connection ==
  [state : States,
   fidx : BOOLEAN,          \* cn_Fidx is the peer's index (0 before)
   twsize : Num, tlast : Num, trecvd : Num, tacked : Num, thead : SUBSET Element(ContOps),
   rlast : Num, racked : Num, rread : Num,
   rhead : Seq(Queued), routorder : SUBSET Element(DataOps),
   input : BOOLEAN]         \* inside the loop of server_input()

(***************************************************************************)
(* Packet numbers (ncp.h): cmp_gt tests bit 15 of the difference.          *)
(***************************************************************************)
cmp_gt(a, b) == (b - a) % NumMod >= NumHalf
cmp_le(a, b) == ~cmp_gt(a, b)

Short(d) == LET r == d % NumMod IN IF r >= NumHalf THEN r - NumMod ELSE r
Succ(n)  == (n + 1) % NumMod

(***************************************************************************)
(* Packets.  The index of the receiver is right when it is known, and in a *)
(* reply, where reflect() takes it from the packet answered.  Fields that  *)
(* no receiver reads are 0.                                                *)
(***************************************************************************)
Blank(e, op) == [to |-> Peer(e), op |-> op, pkn |-> 0, ackn |-> 0,
                 receipt |-> 0, rwsize |-> 0, didx |-> TRUE]

(* Mutant of Numbered: the first number not yet read, less one too many. *)
NumberedLate(e, r, op, n) ==
  [Blank(e, op) EXCEPT !.pkn = n, !.ackn = r.rread - 1, !.didx = r.fidx,
                       !.rwsize = IF op = "OPN" THEN RwSize ELSE 0]

(* setpkt() and setack() of a numbered packet of connection r at end e; an  *)
(* OPN also announces the window.                                          *)
Numbered(e, r, op, n) ==
  [Blank(e, op) EXCEPT !.pkn = n, !.ackn = r.rread, !.didx = r.fidx,
                       !.rwsize = IF op = "OPN" THEN RwSize ELSE 0]

(* makests(), reflected: the receiver state of r, at end e. *)
Sts(e, r) == [Blank(e, "STS") EXCEPT !.ackn = r.rread, !.receipt = r.rlast,
                                     !.rwsize = RwSize]
SetAck(r) == [r EXCEPT !.racked = r.rread]

(* Mutant of Los: a packet for no connection is dropped without a word. *)
LosMute(e, p) == {}

(* sendlos() answers anything but a LOS or a CLS. *)
Los(e, p) == IF p.op \in {"LOS", "CLS"} THEN {} ELSE {Blank(e, "LOS")}

Arrive(p, replies) == net' = (IF Dup THEN net ELSE net \ {p}) \cup replies

(* Mutants of Receipt: it takes the receipt number for the acknowledgement, *)
(* and it takes an acknowledgement however old.                            *)
ReceiptMixed(r, acknum, recnum) ==
  IF cmp_gt(recnum, r.trecvd)
  THEN [r EXCEPT !.thead = {q \in @ : cmp_gt(q.pkn, recnum)},
                 !.trecvd = recnum, !.tacked = recnum]
  ELSE r

ReceiptOld(r, acknum, recnum) ==
  LET freed == IF cmp_gt(recnum, r.trecvd)
               THEN [r EXCEPT !.thead = {q \in @ : cmp_gt(q.pkn, recnum)},
                              !.trecvd = recnum]
               ELSE r
  IN  IF cmp_le(acknum, r.tlast) THEN [freed EXCEPT !.tacked = acknum] ELSE freed

(***************************************************************************)
(* receipt(): free what the peer has received, note what it has read.      *)
(***************************************************************************)
Receipt(r, acknum, recnum) ==
  LET freed == IF cmp_gt(recnum, r.trecvd)
               THEN [r EXCEPT !.thead = {q \in @ : cmp_gt(q.pkn, recnum)},
                              !.trecvd = recnum]
               ELSE r
  IN  IF cmp_gt(acknum, r.tacked) /\ cmp_le(acknum, r.tlast)
      THEN [freed EXCEPT !.tacked = acknum]
      ELSE freed

(* Mutant of XmitDone: only an open connection keeps what it sends. *)
XmitDoneOpen(r, q) ==
  IF r.state = "OPEN" /\ cmp_gt(q.pkn, r.trecvd)
  THEN [r EXCEPT !.thead = @ \cup {q}]
  ELSE r

(* xmitdone(): a numbered packet that went out waits to be receipted. *)
XmitDone(r, q) ==
  IF r.state \in {"OPEN", "RFCSENT"} /\ cmp_gt(q.pkn, r.trecvd)
  THEN [r EXCEPT !.thead = @ \cup {q}]
  ELSE r

(* Mutant of chtfull: one packet too many. *)
chtfullLate(r) == r.state = "OPEN" /\ Short(r.tlast - r.tacked) > r.twsize

(* chtfull: the transmit window is used up. *)
chtfull(r) == r.state = "OPEN" /\ Short(r.tlast - r.tacked) >= r.twsize

-----------------------------------------------------------------------------
(***************************************************************************)
(* Sending.                                                                *)
(***************************************************************************)
(* The tail of ch_write(), on connection r: number the packet, send it     *)
(* behind the control packets "first", keep it on thead.                   *)
Transmit(e, r, op, first) ==
  LET n == Succ(r.tlast)
      w == [r EXCEPT !.tlast = n, !.racked = r.rread]
  IN  /\ conn' = [conn EXCEPT ![e] = XmitDone(w, [op |-> op, pkn |-> n])]
      /\ net' = net \cup first \cup {Numbered(e, r, op, n)}
      /\ sent' = [sent EXCEPT ![e] = Append(@, op)]

(* Mutant of Retran: the queue is walked, nothing is sent. *)
RetranNothing(e, r, S) == {}

(* chretran(): the aged packets S of thead go out again.                   *)
Retran(e, r, S) == {Numbered(e, r, q.op, q.pkn) : q \in S}
Aged(e, r)      == IF e \in Clock THEN SUBSET r.thead ELSE {{}}
Told(r, S)      == IF S = {} THEN r ELSE SetAck(r)

(* ch_open(): allocate a connection and send the RFC. *)
Open(e) ==
  /\ conn[e].state = "NONE"
  /\ MaxPkts > 0
  /\ Transmit(e, [conn[e] EXCEPT !.state = "RFCSENT"], "RFC", {})
  /\ UNCHANGED <<lsn, rfcq, given>>

(* lsnmatch(): the RFC counts as received and read. *)
LsnMatch(r, n) ==
  [r EXCEPT !.state = "RFCRCVD", !.fidx = TRUE, !.rlast = n, !.rread = n,
            !.rhead = <<[op |-> "RFC", pkn |-> n]>>]

(* ch_listen(): match an RFC already queued, else join the listen list.    *)
(* Every RFC is packet 1 of its connection.                                *)
Listen(e) ==
  /\ conn[e].state = "NONE"
  /\ \/ /\ rfcq[e]
        /\ conn' = [conn EXCEPT ![e] = LsnMatch(@, 1)]
        /\ rfcq' = [rfcq EXCEPT ![e] = FALSE]
        /\ UNCHANGED lsn
     \/ /\ ~rfcq[e]
        /\ conn' = [conn EXCEPT ![e].state = "LISTEN"]
        /\ lsn' = [lsn EXCEPT ![e] = TRUE]
        /\ UNCHANGED rfcq
  /\ UNCHANGED <<net, sent, given>>

(* Mutant of TellsPeer: at a third of the window, not above it. *)
TellsPeerEarly(r, op) == op = "EOF" \/ 3 * Short(r.rread - r.racked) >= RwSize

(* ch_read(): consume the head of rhead; an EOF, or a third of the window  *)
(* unacknowledged, is answered with an STS.                                *)
TellsPeer(r, op) == op = "EOF" \/ 3 * Short(r.rread - r.racked) > RwSize

ChRead(e, r) ==
  LET p    == Head(r.rhead)
      n    == [r EXCEPT !.rhead = Tail(@),
                        !.rread = IF p.op \in ContOps THEN p.pkn ELSE @]
      tell == p.op \in ContOps /\ TellsPeer(n, p.op)
  IN  [conn |-> IF tell THEN SetAck(n) ELSE n,
       sts  |-> IF tell THEN {Sts(e, n)} ELSE {}]

(* ch_accept(): read the RFC if it is still there, send the OPN. *)
Accept(e) ==
  LET r    == conn[e]
      read == IF r.rhead # <<>> /\ Head(r.rhead).op = "RFC"
              THEN ChRead(e, r) ELSE [conn |-> r, sts |-> {}]
  IN  /\ r.state = "RFCRCVD"
      /\ MaxPkts > 0
      /\ Transmit(e, [read.conn EXCEPT !.state = "OPEN", !.tlast = 0], "OPN",
                  read.sts)
      /\ UNCHANGED <<lsn, rfcq, given>>

(* ch_write() of data or an EOF.  It leaves the window to its caller:      *)
(* read_child_data() of server.c minds it, another NCP's user may not.     *)
Write(e, op) ==
  /\ e \in Writers
  /\ conn[e].state = "OPEN"
  /\ ~conn[e].input
  /\ e \notin Hasty => ~chtfull(conn[e])
  /\ conn[e].tlast < MaxPkts
  /\ Transmit(e, conn[e], op, {})
  /\ UNCHANGED <<lsn, rfcq, given>>

(* The user of end e takes the packet at the head of rhead. *)
Consume(e) ==
  /\ conn[e].rhead # <<>>
  /\ LET read == ChRead(e, conn[e])
         p    == Head(conn[e].rhead)
     IN  /\ conn' = [conn EXCEPT ![e] =
                       [read.conn EXCEPT !.input = @ /\ read.conn.rhead # <<>>]]
         /\ net' = net \cup read.sts
         /\ given' = IF p.op \in DataOps
                     THEN [given EXCEPT ![e] = Append(@, p.op)] ELSE given
  /\ UNCHANGED <<lsn, rfcq, sent>>

(* One turn of the loop of server_input(): the packet goes to the child.   *)
(* The write may block, so the network moves on between two turns.         *)
ServerInput(e) == conn[e].input /\ Consume(e)

(* A user that reads when it likes. *)
UserRead(e) == e \notin Captive /\ Consume(e)

(* clsconn(): drop what is unreceipted, queue the last word for the user.  *)
ClsConn(r, st, last) ==
  [r EXCEPT !.thead = {}, !.state = st, !.rhead = @ \o last]

RlsConn(r) == [r EXCEPT !.state = "GONE", !.thead = {}, !.rhead = <<>>,
                        !.routorder = {}]

(* ch_close() with a CLS, and with rlsconn() when release. *)
Close(e, release) ==
  LET r      == conn[e]
      closed == IF r.state \in {"OPEN", "RFCRCVD", "RFCSENT"}
                THEN ClsConn(r, "CLOSED", <<>>) ELSE r
  IN  /\ e \in Closers
      /\ r.state \notin {"NONE", "GONE"}
      /\ ~r.input
      /\ conn' = [conn EXCEPT ![e] = IF release THEN RlsConn(closed) ELSE closed]
      /\ lsn' = [lsn EXCEPT ![e] = FALSE]
      /\ net' = IF r.state \in {"OPEN", "RFCRCVD"}
                THEN net \cup {[Blank(e, "CLS") EXCEPT !.didx = r.fidx]} ELSE net
      /\ UNCHANGED <<rfcq, sent, given>>

-----------------------------------------------------------------------------
(***************************************************************************)
(* Receiving: rcvpkt() of packet p at end p.to.                            *)
(***************************************************************************)
Exists(e)  == conn[e].state \notin {"NONE", "GONE"}

(* Mutant of Reaches: only a connection that knows its peer's index takes  *)
(* packets.                                                                *)
ReachesKnown(p) == Exists(p.to) /\ p.didx /\ conn[p.to].fidx

Reaches(p) == Exists(p.to) /\ p.didx       \* the indexes match a connection

Set(e, r) == conn' = [conn EXCEPT ![e] = r]

(* rcvrfc(), a duplicate: dropped; an open connection retransmits what is  *)
(* old enough.                                                             *)
RcvDupRFC(p) ==
  LET e == p.to
      r == conn[e]
  IN  /\ p.op = "RFC"
      /\ Exists(e) /\ r.fidx
      /\ \E S \in (IF r.state = "OPEN" THEN Aged(e, r) ELSE {{}}) :
           Set(e, Told(r, S)) /\ Arrive(p, Retran(e, r, S))
      /\ UNCHANGED <<lsn, rfcq, sent, given>>

(* rcvrfc(), no listener: the RFC waits on chaos_rfclist, once.            *)
Await(e) ==
  /\ ~lsn[e]
  /\ rfcq' = [rfcq EXCEPT ![e] = TRUE]
  /\ UNCHANGED <<conn, lsn>>

(* rcvrfc(), a new RFC: a listener takes it, or it waits.  The names that  *)
(* the NCP answers itself (STATUS, TIME, ..., FILE) are left out.          *)
RcvRFC(p) ==
  LET e == p.to
  IN  /\ p.op = "RFC"
      /\ ~(Exists(e) /\ conn[e].fidx)
      /\ \/ /\ lsn[e]
            /\ Set(e, LsnMatch(conn[e], p.pkn))
            /\ lsn' = [lsn EXCEPT ![e] = FALSE]
            /\ UNCHANGED rfcq
         \/ Await(e)
      /\ Arrive(p, {})
      /\ UNCHANGED <<sent, given>>

(* "Connection doesn't exist" and "Connection is closed". *)
RcvForNone(p) ==
  /\ p.op # "RFC"
  /\ Reaches(p) => conn[p.to].state \notin {"RFCSENT", "OPEN"}
  /\ Arrive(p, Los(p.to, p))
  /\ UNCHANGED <<conn, lsn, rfcq, sent, given>>

(* The answer to our RFC: an OPN opens the connection and is answered with *)
(* an STS, a CLS closes it, all else is a LOS.                             *)
RcvOPN(p) ==
  LET e == p.to
      r == Receipt([conn[e] EXCEPT !.state = "OPEN", !.fidx = TRUE,
                                   !.rread = p.pkn, !.rlast = p.pkn,
                                   !.twsize = p.rwsize], p.ackn, p.ackn)
  IN  /\ Reaches(p) /\ conn[e].state = "RFCSENT" /\ p.op = "OPN"
      /\ Set(e, SetAck(r))
      /\ Arrive(p, {Sts(e, r)})
      /\ UNCHANGED <<lsn, rfcq, sent, given>>

RcvRefusal(p) ==
  /\ Reaches(p) /\ conn[p.to].state = "RFCSENT" /\ p.op = "CLS"
  /\ Set(p.to, ClsConn(conn[p.to], "CLOSED", <<[op |-> p.op, pkn |-> 0]>>))
  /\ Arrive(p, {})
  /\ UNCHANGED <<lsn, rfcq, sent, given>>

RcvBadReply(p) ==
  /\ Reaches(p) /\ conn[p.to].state = "RFCSENT"
  /\ p.op \notin {"RFC", "OPN", "CLS"}
  /\ Arrive(p, Los(p.to, p))
  /\ UNCHANGED <<conn, lsn, rfcq, sent, given>>

InOpen(p) == Reaches(p) /\ conn[p.to].state = "OPEN"

(* rcvdata(): out of the window; a duplicate of what is in order; the next *)
(* in order, with all that now follows it; early, to be kept or a          *)
(* duplicate of what is kept.                                              *)
Receipted(p) == Receipt(conn[p.to], p.ackn, p.ackn)

(* Mutant of InWindow: one packet past the window. *)
InWindowWide(p) == cmp_le(p.pkn, conn[p.to].rread + RwSize + 1)

InWindow(p)  == cmp_le(p.pkn, conn[p.to].rread + RwSize)

RcvOutOfWindow(p) ==
  /\ InOpen(p) /\ p.op \in DataOps /\ ~InWindow(p)
  /\ Arrive(p, {})
  /\ UNCHANGED <<conn, lsn, rfcq, sent, given>>

RcvDuplicate(p) ==
  LET r == Receipted(p)
  IN  /\ InOpen(p) /\ p.op \in DataOps /\ InWindow(p)
      /\ \/ cmp_le(p.pkn, r.rlast)
         \/ /\ p.pkn # Succ(r.rlast)
            /\ \E q \in r.routorder : q.pkn = p.pkn
      /\ Set(p.to, SetAck(r))
      /\ Arrive(p, {Sts(p.to, r)})
      /\ UNCHANGED <<lsn, rfcq, sent, given>>

(* Mutants of Deliver: rlast is not moved; the packets that follow the new  *)
(* one stay on routorder, though rlast has moved past them; and INPUT is   *)
(* called for a queue that had something on it.                            *)
DeliverForgets(e, r, run, k, q) ==
  [r EXCEPT !.rhead = @ \o run,
            !.routorder = {x \in q : \A i \in 1 .. k : x # run[i]},
            !.input = (e \in Captive /\ r.rhead = <<>>)]

DeliverOne(e, r, run, k, q) ==
  [r EXCEPT !.rhead = Append(@, run[1]),
            !.rlast = (@ + k) % NumMod,
            !.routorder = q \ {run[1]},
            !.input = (e \in Captive /\ r.rhead = <<>>)]

DeliverQuiet(e, r, run, k, q) ==
  [r EXCEPT !.rhead = @ \o run,
            !.rlast = (@ + k) % NumMod,
            !.routorder = {x \in q : \A i \in 1 .. k : x # run[i]},
            !.input = (e \in Captive /\ r.rhead # <<>>)]

(* The k packets of run, out of the early ones q, follow what is on rhead. *)
Deliver(e, r, run, k, q) ==
  [r EXCEPT !.rhead = @ \o run,
            !.rlast = (@ + k) % NumMod,
            !.routorder = {x \in q : \A i \in 1 .. k : x # run[i]},
            !.input = (e \in Captive /\ r.rhead = <<>>)]

RcvInOrder(p) ==
  LET e == p.to
      r == Receipted(p)
      q == r.routorder \cup {[op |-> p.op, pkn |-> p.pkn]}
  IN  /\ InOpen(p) /\ p.op \in DataOps /\ InWindow(p)
      /\ ~cmp_le(p.pkn, r.rlast) /\ p.pkn = Succ(r.rlast)
      /\ \E k \in 1 .. Cardinality(q) : \E run \in [1 .. k -> q] :
           /\ \A i \in 1 .. k : run[i].pkn = (r.rlast + i) % NumMod
           /\ \A x \in q : x.pkn # (r.rlast + k + 1) % NumMod
           /\ Set(e, Deliver(e, r, run, k, q))
      /\ Arrive(p, {})
      /\ UNCHANGED <<lsn, rfcq, sent, given>>

RcvEarly(p) ==
  LET r == Receipted(p)
  IN  /\ InOpen(p) /\ p.op \in DataOps /\ InWindow(p)
      /\ ~cmp_le(p.pkn, r.rlast) /\ p.pkn # Succ(r.rlast)
      /\ \A q \in r.routorder : q.pkn # p.pkn
      /\ Set(p.to, [r EXCEPT !.routorder = @ \cup {[op |-> p.op, pkn |-> p.pkn]}])
      /\ Arrive(p, {})
      /\ UNCHANGED <<lsn, rfcq, sent, given>>

(* The other packets of an open connection. *)
RcvDupOPN(p) ==
  /\ InOpen(p) /\ p.op = "OPN"
  /\ Arrive(p, {})
  /\ UNCHANGED <<conn, lsn, rfcq, sent, given>>

RcvSNS(p) ==
  LET r == Receipted(p)
  IN  /\ InOpen(p) /\ p.op = "SNS"
      /\ Set(p.to, SetAck(r))
      /\ Arrive(p, {Sts(p.to, r)})
      /\ UNCHANGED <<lsn, rfcq, sent, given>>

RcvEnd(p) ==
  /\ InOpen(p) /\ p.op \in EndOps
  /\ Set(p.to, ClsConn(conn[p.to], IF p.op = "CLS" THEN "CLOSED" ELSE "LOST",
                       <<[op |-> p.op, pkn |-> 0]>>))
  /\ Arrive(p, {})
  /\ UNCHANGED <<lsn, rfcq, sent, given>>

RcvSTS(p) ==
  LET e == p.to
      r == Receipt([conn[e] EXCEPT !.twsize = p.rwsize], p.ackn, p.receipt)
  IN  /\ InOpen(p) /\ p.op = "STS"
      /\ \E S \in Aged(e, r) :
           Set(e, Told(r, S)) /\ Arrive(p, Retran(e, r, S))
      /\ UNCHANGED <<lsn, rfcq, sent, given>>

RcvPkt(p) ==
  /\ ~conn[p.to].input                       \* the NCP is a single process
  /\ \/ RcvDupRFC(p) \/ RcvRFC(p) \/ RcvForNone(p)
     \/ RcvOPN(p) \/ RcvRefusal(p) \/ RcvBadReply(p)
     \/ RcvOutOfWindow(p) \/ RcvDuplicate(p) \/ RcvInOrder(p) \/ RcvEarly(p)
     \/ RcvDupOPN(p) \/ RcvSNS(p) \/ RcvEnd(p) \/ RcvSTS(p)

-----------------------------------------------------------------------------
(***************************************************************************)
(* The clock (clock.c, which no program of the Makefile links).            *)
(***************************************************************************)
(* ch_clock() on the connection of end e: the old packets of thead go out  *)
(* again; when it probes, an open connection sends an SNS, and an RFC      *)
(* unanswered for RFCTIME is given up.  The limit of an open connection,   *)
(* UPTIME, is more than chtime can hold: it never passes.                  *)
ChClock(e) ==
  /\ e \in Clock /\ ~conn[e].input
  /\ Cardinality(net) < Quiet
  /\ \E S \in Aged(e, conn[e]) :
       LET r   == Told(conn[e], S)
           out == net \cup Retran(e, conn[e], S)
       IN  \/ /\ r.state \in {"OPEN", "RFCSENT"} /\ S # {}
              /\ Set(e, r) /\ net' = out
           \/ /\ r.state = "OPEN"
              /\ Set(e, SetAck(r))
              /\ net' = out \cup {[Blank(e, "SNS") EXCEPT !.ackn = r.rread]}
           \/ /\ r.state = "RFCSENT"
              /\ Set(e, ClsConn(r, "INCT", <<>>))
              /\ net' = out
  /\ UNCHANGED <<lsn, rfcq, sent, given>>

Lose(p) == Lossy /\ net' = net \ {p} /\ UNCHANGED <<conn, lsn, rfcq, sent, given>>

-----------------------------------------------------------------------------
Fresh == [state |-> "NONE", fidx |-> FALSE, twsize |-> 0, tlast |-> 0,
          trecvd |-> 0, tacked |-> 0, thead |-> {}, rlast |-> 0, racked |-> 0,
          rread |-> 0, rhead |-> <<>>, routorder |-> {}, input |-> FALSE]

Init ==
  /\ conn = [e \in End |-> Fresh]
  /\ lsn = [e \in End |-> FALSE]
  /\ rfcq = [e \in End |-> FALSE]
  /\ net = {}
  /\ sent = [e \in End |-> <<>>]
  /\ given = [e \in End |-> <<>>]

Next ==
  \/ Open(User)
  \/ Listen(Server)
  \/ Accept(Server)
  \/ \E e \in End :
       \/ \E op \in DataOps : Write(e, op)
       \/ ServerInput(e)
       \/ UserRead(e)
       \/ \E release \in BOOLEAN : Close(e, release)
       \/ ChClock(e)
  \/ \E p \in net : RcvPkt(p) \/ Lose(p)

Spec == Init /\ [][Next]_vars

(***************************************************************************)
(* Fairness.  chaos_poll() reads the socket as long as packets come in,    *)
(* server_input() goes on as long as its child reads, a listening user     *)
(* accepts and a reading one reads.  Nobody has to open, write or close.   *)
(***************************************************************************)
Users ==
  /\ WF_vars(Listen(Server)) /\ WF_vars(Accept(Server))
  /\ \A e \in End : WF_vars(ServerInput(e)) /\ WF_vars(UserRead(e))

FairSpec == Spec /\ Users /\ WF_vars(\E p \in net : RcvPkt(p))

(* A network that drops packets is fair to each kind of packet that is put *)
(* into it again and again, and the clock comes to every old packet.       *)
Kinds == {{"RFC"}, {"OPN"}, {"STS"}, DataOps}
Resend(e) == ChClock(e) /\ Retran(e, conn[e], conn[e].thead) \subseteq net'

FairLossySpec ==
  /\ Spec /\ Users
  /\ \A e \in End : \A kind \in Kinds :
       SF_vars(\E p \in net : p.to = e /\ p.op \in kind /\ RcvPkt(p))
  /\ WF_vars(\E p \in net : RcvPkt(p))
  /\ \A e \in End : SF_vars(Resend(e))

-----------------------------------------------------------------------------
(***************************************************************************)
(* Properties.                                                             *)
(***************************************************************************)
(* Every variable keeps its type: the unsigned shorts of the connection    *)
(* and of its packets stay in range, and only packets with the opcodes of  *)
(* their queue get onto it.                                                *)
TypeOK ==
  /\ conn \in [End -> Connection]
  /\ lsn \in [End -> BOOLEAN]
  /\ rfcq \in [End -> BOOLEAN]
  /\ net \subseteq Packet
  /\ sent \in [End -> Seq(ContOps)]
  /\ given \in [End -> Seq(DataOps)]

(* What the user is handed is what the peer's user wrote, each packet      *)
(* once, in order, without a gap: through reordering, duplicates, loss and *)
(* retransmission (rcvdata, ch_read).                                      *)
InOrderDelivery ==
  \A e \in End :
    /\ Len(given[e]) < Len(sent[Peer(e)]) \/ given[e] = <<>>
    /\ \A i \in 1 .. Len(given[e]) : given[e][i] = sent[Peer(e)][i + 1]

(* An end never believes more received or read than its peer has received  *)
(* and read: receipt() frees no packet that may still have to be sent      *)
(* again, and opens the window no further than the peer has room.          *)
ReceiptSafe ==
  \A e \in End : /\ conn[e].trecvd <= conn[Peer(e)].rlast
                 /\ conn[e].tacked <= conn[Peer(e)].rread

(* Every packet an end has sent on a live connection has reached the       *)
(* peer's in-order queue, or is on thead to be sent again (xmitdone,       *)
(* receipt, chretran): what the network drops is never lost for good.      *)
NothingForgotten ==
  \A e \in End : conn[e].state \in {"OPEN", "RFCSENT"} =>
    \A n \in 1 .. Len(sent[e]) :
      \/ n <= conn[Peer(e)].rlast
      \/ [op |-> sent[e][n], pkn |-> n] \in conn[e].thead

(* A sender that minds chtfull never sends what the receiver will throw    *)
(* away as out of the window, however late the acknowledgements come.      *)
WindowRespected ==
  \A p \in net : p.op \in DataOps /\ Peer(p.to) \notin Hasty =>
    p.pkn <= conn[p.to].rread + RwSize

(* What an end holds for its user, in order or not, is a set of different  *)
(* packets inside the window: at most cn_rwsize of them.                   *)
BufferBounded ==
  \A e \in End :
    LET r == conn[e]
        D == {i \in 1 .. Len(r.rhead) : r.rhead[i].op \in DataOps}
    IN  /\ Cardinality(D) + Cardinality(r.routorder) <= RwSize
        /\ \A q \in r.routorder : r.rlast + 1 < q.pkn /\ q.pkn <= r.rread + RwSize
        /\ \A q1, q2 \in r.routorder : q1.pkn = q2.pkn => q1 = q2

(* A connection nobody closes is not lost: no end answers an ordinary      *)
(* packet with a LOS.  A window of one or two breaks it (ch_accept's       *)
(* ch_read then sends an STS ahead of the OPN), a hasty Server's data or   *)
(* an SNS of the clock that overtakes the OPN does too.                    *)
HealthyStaysOpen ==
  Closers = {} /\ Hasty = {} /\ Clock = {} /\ RwSize > 2 =>
    /\ \A e \in End : conn[e].state \notin {"CLOSED", "LOST"}
    /\ \A p \in net : p.op # "LOS"

(* A captive server's queue is being read whenever there is something in   *)
(* it: rcvdata calls INPUT only for a packet that finds rhead empty, so a  *)
(* queue left non-empty by the loop would never be read again.             *)
CaptiveNeverStalls ==
  \A e \in Captive : conn[e].state = "OPEN" /\ conn[e].rhead # <<>> => conn[e].input

(* The numbers of a connection only grow, whatever late or repeated packet *)
(* comes in, and a connection that has ended stays ended.                  *)
Ended   == {"CLOSED", "LOST", "INCT", "GONE"}
Forward ==
  [][\A e \in End :
       /\ conn[e].rread <= conn'[e].rread /\ conn[e].rlast <= conn'[e].rlast
       /\ conn[e].racked <= conn'[e].racked
       /\ conn[e].trecvd <= conn'[e].trecvd /\ conn[e].tacked <= conn'[e].tacked
       /\ conn[e].state \in Ended => conn'[e].state \in Ended]_vars

(* The connection is a channel: established for the User only after the    *)
(* Server accepted, and a reliable stream each way.                        *)
Phase(r) == CASE r.state \in {"NONE", "LISTEN", "RFCRCVD"} -> "idle"
              [] r.state = "RFCSENT" -> "asking"
              [] r.state = "OPEN" -> "open"
              [] OTHER -> "done"
Written(s) == SubSeq(s, 2, Len(s))

Ch == INSTANCE Channel WITH
        Item <- DataOps,
        phase <- [e \in End |-> Phase(conn[e])],
        answered <- sent[Server] # <<>>,
        stream <- [e \in End |-> Written(sent[e])],
        taken <- given
IsChannel == Ch!Spec

(* An end closed, or its clock gave up.  A LOS is no excuse, unless a      *)
(* clock runs: an SNS that overtakes the OPN is answered with one.         *)
GivenUp == \E e \in End : conn[e].state \in
             (IF Clock = {} THEN Ended \ {"LOST"} ELSE Ended)

(* rmlisten() leaves the connection in CSLISTEN. *)
Withdrawn == conn[Server].state = "LISTEN" /\ ~lsn[Server]

(* When nothing is dropped, an RFC is answered and the connection comes up *)
(* at both ends, though no clock retransmits, unless an end closes or the  *)
(* listener is withdrawn.                                                  *)
OpenCompletes ==
  (conn[User].state = "RFCSENT")
    ~> (GivenUp \/ Withdrawn \/ \A e \in End : conn[e].state = "OPEN")

(* All that is written is handed to the peer's user, unless an end closes  *)
(* or gives up: the window never closes for good, no packet is left on     *)
(* routorder, and what the network drops the clock sends again until it    *)
(* arrives.                                                                *)
AllDelivered ==
  \A e \in End : \A n \in 2 .. MaxPkts :
    (Len(sent[e]) >= n) ~> (GivenUp \/ Len(given[Peer(e)]) >= n - 1)

(* When one end has closed or released its connection, the other does not  *)
(* stay open for ever: a CLS reaches it, or its next packet meets a LOS.   *)
NoHalfOpen ==
  \A e \in End :
    (conn[e].state \in Ended /\ conn[Peer(e)].state = "OPEN")
      ~> (conn[Peer(e)].state # "OPEN")

(* "Check if this is a duplicate RFC, and if so throw it away, and         *)
(* retransmit the OPEN" (rcvrfc, chaos.c:786): a repeated RFC that finds   *)
(* the OPN unreceipted puts the OPN on the network again.                  *)
DuplicateRFCRetransmitsOPN ==
  [][\A p \in net :
       /\ RcvDupRFC(p)
       /\ conn[p.to].state = "OPEN"
       /\ \E q \in conn[p.to].thead : q.op = "OPN"
       => \E x \in net' : x.op = "OPN"]_vars
=============================================================================
