-------------------------- MODULE ChaosIfaceProofs --------------------------
(***************************************************************************)
(* The receive side of the interface, for all addresses, packet lengths,   *)
(* CSR values and bounds that IfaceAssumption admits.                      *)
(*                                                                         *)
(* Announced is not inductive: a write of the CSR announces again what the *)
(* buffer holds, and that could be a packet wholly read, long after the    *)
(* connection it came over was lost.  Consumed rules it out.               *)
(***************************************************************************)
EXTENDS ChaosIface, TLAPS, WellFoundedInduction, FiniteSetTheorems

(* A packet read to its end has freed the buffer. *)
Consumed == rcv.size > 0 /\ ~Unread => rcv.empty

IInv == TypeOK /\ Announced /\ Consumed

-----------------------------------------------------------------------------
(* A set of naturals has a least one: of the intervals that end in its     *)
(* members, one has no other inside.                                       *)
LEMMA LowestType ==
  ASSUME NEW S, S \subseteq Nat, S # {} PROVE Lowest(S) \in S
<1> DEFINE T == {0 .. n : n \in S}
<1>1. T \subseteq FiniteSubsetsOf(Nat)
  <2> SUFFICES ASSUME NEW n \in S PROVE 0 .. n \in FiniteSubsetsOf(Nat) OBVIOUS
  <2>1. n \in Nat /\ IsFiniteSet(0 .. n) BY FS_Interval
  <2> QED BY <2>1 DEF FiniteSubsetsOf
<1>2. T # {} OBVIOUS
<1>3. PICK x \in T : \A y \in T : ~ (<<y, x>> \in StrictSubsetOrdering(Nat))
  <2> HIDE DEF T
  <2> QED BY <1>1, <1>2, FS_StrictSubsetOrderingWellFounded, WFMin
<1>4. PICK n \in S : x = 0 .. n BY <1>3
<1>5. \A k \in S : n <= k
  <2> SUFFICES ASSUME NEW k \in S, k < n PROVE FALSE OBVIOUS
  <2>1. 0 .. k \in T /\ 0 .. k \subseteq 0 .. n /\ 0 .. n \subseteq Nat OBVIOUS
  <2>2. n \in 0 .. n /\ n \notin 0 .. k OBVIOUS
  <2>3. <<0 .. k, x>> \in StrictSubsetOrdering(Nat)
    BY <2>1, <2>2, <1>4 DEF StrictSubsetOrdering
  <2> QED BY <1>3, <2>1, <2>3
<1> QED BY <1>4, <1>5 DEF Lowest

LEMMA NewFdType ==
  ASSUME files \subseteq 0 .. FirstFd - 1 PROVE NewFd \in 0 .. FirstFd
<1>1. FirstFd \in Nat BY IfaceAssumption
<1>2. FirstFd \in (0 .. FirstFd) \ files BY <1>1
<1>3. (0 .. FirstFd) \ files \subseteq Nat BY <1>1
<1> QED BY <1>2, <1>3, LowestType DEF NewFd

-----------------------------------------------------------------------------
(***************************************************************************)
(* The two halves of TypeOK, and the types of what the operators build.    *)
(***************************************************************************)
Status == [on : BOOLEAN, pending : BOOLEAN, vector : {"none", "receive", "transmit"}]
NetPacket == [to : Addr, size : NetLens]

RegsOK ==
  /\ chaos_csr \subseteq Bits /\ rcv \in Buffer
  /\ xmit \in Seq(Addr) /\ Len(xmit) <= XmitMax
  /\ interrupt_status \in Status

LinkOK ==
  /\ chaos_fd \in 0 .. FirstFd
  /\ chaos_need_reconnect \in BOOLEAN /\ reconnect_delay \in 0 .. ReconnectDelay
  /\ rested \in BOOLEAN
  /\ files \subseteq 0 .. FirstFd - 1
  /\ sock \in {"none", "open", "eof"}
  /\ inq \in Seq(NetPacket) /\ Len(inq) <= InMax
  /\ chaos_fd # 0 => sock # "none"

LEMMA TypeSplit ==
  TypeOK <=> RegsOK /\ LinkOK /\ running \in BOOLEAN /\ chaosd_up \in BOOLEAN
BY DEF TypeOK, RegsOK, LinkOK, Status, NetPacket

LEMMA TypeJoin ==
  ASSUME RegsOK', LinkOK', (running \in BOOLEAN)', (chaosd_up \in BOOLEAN)'
  PROVE  TypeOK'
BY DEF TypeOK, RegsOK, LinkOK, Status, NetPacket

LEMMA PutType ==
  ASSUME NEW b \in Buffer, NEW to \in Addr, NEW by \in {"net", "self"},
         NEW n \in Nat, NEW e \in BOOLEAN
  PROVE  /\ Put(b, to, by, n, e) \in Buffer
         /\ Put(b, to, by, n, e).to = to /\ Put(b, to, by, n, e).by = by
         /\ Put(b, to, by, n, e).size = n /\ Put(b, to, by, n, e).empty = e
BY DEF Put, Buffer

LEMMA AnnounceType ==
  ASSUME NEW b \in Buffer
  PROVE  /\ Announce(b) \in Buffer
         /\ Announce(b).ptr = 0 /\ Announce(b).bit_count = b.size * 16 - 1
         /\ Announce(b).to = b.to /\ Announce(b).by = b.by
         /\ Announce(b).size = b.size /\ Announce(b).empty = b.empty
<1>1. b.size * 16 - 1 \in Int
  BY DEF Buffer
<1>2. ASSUME NEW n \in Int
      PROVE  LET a == [b EXCEPT !.ptr = 0, !.bit_count = n]
             IN  /\ a \in Buffer /\ a.ptr = 0 /\ a.bit_count = n
                 /\ a.to = b.to /\ a.by = b.by /\ a.size = b.size /\ a.empty = b.empty
  BY DEF Buffer
<1> QED BY <1>1, <1>2 DEF Announce

LEMMA StatusType ==
  ASSUME NEW st \in Status, NEW v \in {"receive", "transmit"}
  PROVE  assert_unibus_interrupt(st, v) \in Status
BY DEF assert_unibus_interrupt, Status

LEMMA RxType ==
  ASSUME NEW b \in Buffer, NEW csr \in SUBSET Bits, NEW st \in Status
  PROVE  /\ RxCsr(csr, b) \in SUBSET Bits /\ csr \subseteq RxCsr(csr, b)
         /\ b.size > 0 => "RDN" \in RxCsr(csr, b)
         /\ RxStatus(csr, b, st) \in Status
<1>1. assert_unibus_interrupt(st, "receive") \in Status BY StatusType
<1> QED BY <1>1 DEF RxCsr, RxStatus, Bits

(* What leaves the buffer and the connection alone and keeps receive-done  *)
(* disturbs nothing.                                                       *)
LEMMA Undisturbed ==
  ASSUME Announced, Consumed,
         UNCHANGED <<rcv, chaos_fd, chaos_need_reconnect>>,
         "RDN" \in chaos_csr => "RDN" \in chaos_csr'
  PROVE  Announced' /\ Consumed'
BY DEF Announced, Consumed, Unread

LEMMA LinkUnchanged == ASSUME LinkOK, UNCHANGED link PROVE LinkOK'
BY DEF LinkOK, link

LEMMA RegsUnchanged == ASSUME RegsOK, UNCHANGED regs PROVE RegsOK'
BY DEF RegsOK, regs

LEMMA ForceType ==
  ASSUME LinkOK, chaos_force_reconect
  PROVE  /\ chaos_fd' = 0 /\ chaos_need_reconnect' = TRUE
         /\ files' \subseteq 0 .. FirstFd - 1
         /\ sock' \in {"none", "open", "eof"}
         /\ inq' \in Seq(NetPacket) /\ Len(inq') <= InMax
<1>1. <<>> \in Seq(NetPacket) /\ Len(<<>>) = 0 OBVIOUS
<1>2. 0 <= InMax BY IfaceAssumption
<1> QED BY <1>1, <1>2 DEF LinkOK, chaos_force_reconect

-----------------------------------------------------------------------------
(***************************************************************************)
(* The registers.                                                          *)
(***************************************************************************)
LEMMA InterruptStep ==
  ASSUME IInv, WriteInterruptStatus \/ AckInterrupt PROVE IInv'
<1> USE DEF IInv
<1>1. RegsOK'
  <2>1. interrupt_status' \in Status
    BY TypeSplit DEF WriteInterruptStatus, AckInterrupt, RegsOK, Status
  <2> QED BY <2>1, TypeSplit DEF WriteInterruptStatus, AckInterrupt, RegsOK
<1>2. LinkOK' /\ UNCHANGED <<running, chaosd_up, rcv, chaos_fd, chaos_need_reconnect, chaos_csr>>
  BY LinkUnchanged, TypeSplit DEF WriteInterruptStatus, AckInterrupt, link
<1> QED BY <1>1, <1>2, TypeSplit, TypeJoin, Undisturbed

Read(b, n, e) == [b EXCEPT !.ptr = n, !.empty = e]

LEMMA ReadType ==
  ASSUME NEW b \in Buffer, NEW n \in Nat, NEW e \in BOOLEAN
  PROVE  /\ Read(b, n, e) \in Buffer
         /\ Read(b, n, e).ptr = n /\ Read(b, n, e).empty = e
         /\ Read(b, n, e).to = b.to /\ Read(b, n, e).by = b.by
         /\ Read(b, n, e).size = b.size /\ Read(b, n, e).bit_count = b.bit_count
BY DEF Buffer, Read

LEMMA GetStep ==
  ASSUME IInv, chaos_get_rcv_buffer PROVE IInv'
<1> USE DEF IInv
<1>1. rcv \in Buffer /\ chaos_csr \subseteq Bits BY DEF TypeOK
<1> DEFINE e == rcv.empty \/ rcv.ptr + 1 = rcv.size
<1>2. CASE Unread
  <2>1. rcv.size \in Nat /\ rcv.ptr \in Nat /\ rcv.empty \in BOOLEAN
    BY <1>1 DEF Buffer
  <2>2. rcv' = Read(rcv, rcv.ptr + 1, e) /\ UNCHANGED chaos_csr
    BY <1>2 DEF chaos_get_rcv_buffer, Read
  <2>3. rcv.ptr + 1 \in Nat /\ e \in BOOLEAN BY <2>1
  <2>4. rcv' \in Buffer /\ rcv'.ptr = rcv.ptr + 1 /\ rcv'.empty = e
    <3> HIDE DEF e
    <3> QED BY <1>1, <2>2, <2>3, ReadType
  <2>5. /\ rcv'.size = rcv.size /\ rcv'.to = rcv.to /\ rcv'.by = rcv.by
        /\ rcv'.bit_count = rcv.bit_count
    <3> HIDE DEF e
    <3> QED BY <1>1, <2>2, <2>3, ReadType
  <2>6. Unread' => rcv'.empty = rcv.empty
    BY <2>1, <2>4, <2>5 DEF Unread
  <2>7. rcv'.size > 0 /\ ~Unread' => rcv'.empty
    <3> SUFFICES ASSUME ~Unread' PROVE rcv'.empty OBVIOUS
    <3>1. rcv.ptr + 1 = rcv.size
      <4> HIDE DEF e
      <4> QED BY <1>2, <2>1, <2>4, <2>5 DEF Unread
    <3> QED BY <2>4, <3>1, Zenon
  <2>8. Announced' /\ Consumed'
    BY <1>2, <2>2, <2>5, <2>6, <2>7
       DEF Announced, Consumed, chaos_get_rcv_buffer, link
  <2>9. RegsOK' /\ LinkOK'
    BY <2>2, <2>4, TypeSplit, LinkUnchanged DEF chaos_get_rcv_buffer, RegsOK
  <2> QED BY <2>8, <2>9, TypeSplit, TypeJoin DEF chaos_get_rcv_buffer
<1>3. CASE ~Unread
  <2>1. /\ rcv' \in Buffer /\ chaos_csr' \subseteq Bits
        /\ rcv'.size = 0 /\ rcv'.ptr \in Nat
    BY <1>1, <1>3 DEF chaos_get_rcv_buffer, Buffer
  <2>2. Announced' /\ Consumed'
    BY <2>1 DEF Announced, Consumed, Unread
  <2>3. RegsOK' /\ LinkOK'
    BY <2>1, TypeSplit, LinkUnchanged DEF chaos_get_rcv_buffer, RegsOK
  <2> QED BY <2>2, <2>3, TypeSplit, TypeJoin DEF chaos_get_rcv_buffer
<1> QED BY <1>2, <1>3

LEMMA PutStep ==
  ASSUME IInv, chaos_put_xmit_buffer PROVE IInv'
<1> USE DEF IInv
<1>1. PICK w \in Addr : xmit' = Append(xmit, w) BY DEF chaos_put_xmit_buffer
<1>2. xmit' \in Seq(Addr) /\ Len(xmit') = Len(xmit) + 1 BY <1>1 DEF TypeOK
<1>3. Len(xmit) \in Nat /\ XmitMax \in Nat /\ Len(xmit) < XmitMax
  BY IfaceAssumption DEF TypeOK, chaos_put_xmit_buffer
<1>4. RegsOK' /\ LinkOK'
  BY <1>2, <1>3, TypeSplit, LinkUnchanged DEF chaos_put_xmit_buffer, RegsOK
<1>5. /\ UNCHANGED <<running, chaosd_up, rcv, chaos_fd, chaos_need_reconnect>>
      /\ "RDN" \in chaos_csr => "RDN" \in chaos_csr'
  BY DEF chaos_put_xmit_buffer, link
<1> QED BY <1>4, <1>5, TypeSplit, TypeJoin, Undisturbed

(* chaos_rx_pkt, of a buffer for which what Announced says of a network    *)
(* packet will be true.                                                    *)
LEMMA Received ==
  ASSUME NEW b \in Buffer, b.size > 0, b.by \in {"net", "self", "none"},
         rcv' = Announce(b), "RDN" \in chaos_csr',
         b.by = "net" => /\ b.to = chaos_addr /\ ~b.empty
                         /\ chaos_fd' # 0 /\ ~chaos_need_reconnect'
  PROVE  Announced' /\ Consumed'
<1>1. b.size \in Nat BY DEF Buffer
<1>2. /\ rcv'.ptr = 0 /\ rcv'.bit_count = rcv'.size * 16 - 1 /\ rcv'.size = b.size
      /\ rcv'.to = b.to /\ rcv'.by = b.by /\ rcv'.empty = b.empty
  BY AnnounceType
<1> QED BY <1>1, <1>2 DEF Announced, Consumed, Unread

(* An empty buffer has nothing to announce. *)
LEMMA Nothing ==
  ASSUME rcv' \in Buffer, rcv'.size = 0 PROVE Announced' /\ Consumed'
<1>1. rcv'.ptr \in Nat BY DEF Buffer
<1> QED BY <1>1 DEF Announced, Consumed, Unread

LEMMA ClearedType ==
  ASSUME NEW b \in Buffer
  PROVE  Cleared(b) \in Buffer /\ Cleared(b).size = 0
<1> DEFINE c == [b EXCEPT !.size = 0, !.ptr = 0]
<1>1. c \in Buffer /\ c.size = 0 BY DEF Buffer
<1>2. ASSUME NEW d \in Buffer
      PROVE  [d EXCEPT !.bit_count = 0] \in Buffer
             /\ [d EXCEPT !.bit_count = 0].size = d.size
  BY DEF Buffer
<1>3. Cleared(b) = [c EXCEPT !.bit_count = 0] BY DEF Cleared
<1> QED BY <1>1, <1>2, <1>3

LEMMA CsrStep ==
  ASSUME IInv, NEW v \in GuestCsr, chaos_set_csr(v) PROVE IInv'
<1> DEFINE reset == "RST" \in v
           clear == reset \/ "RCL" \in v
           sent  == {"TCL", "TDN"} \cap v # {}
           off   == {"RST"} \cup (IF clear THEN {"RDN"} ELSE {})
                            \cup (IF sent THEN {"TAB"} ELSE {})
           on    == IF reset \/ sent \/ "TEN" \in v THEN {"TDN"} ELSE {}
           csr   == (((chaos_csr \cap Held) \cup (v \ Held)) \ off) \cup on
           kept  == IF clear THEN Cleared(rcv) ELSE rcv
           buf   == IF "REN" \in csr /\ kept.empty
                      THEN [kept EXCEPT !.size = 0, !.ptr = 0] ELSE kept
<1>1. /\ running
      /\ IF "REN" \in csr /\ buf.size > 0
           THEN chaos_rx_pkt(csr, buf)
           ELSE rcv' = buf /\ chaos_csr' = csr /\ UNCHANGED interrupt_status
      /\ xmit' = <<>> \/ xmit' = xmit
      /\ IF reset THEN /\ chaos_force_reconect
                       /\ reconnect_delay' = ReconnectDelay
                       /\ UNCHANGED rested
                  ELSE UNCHANGED link
      /\ UNCHANGED <<running, chaosd_up>>
  BY DEF chaos_set_csr
<1>2. RegsOK /\ LinkOK /\ rcv \in Buffer /\ chaos_csr \subseteq Bits /\ Announced /\ Consumed
  BY TypeSplit DEF IInv, RegsOK
<1>3. csr \in SUBSET Bits /\ (~clear /\ "RDN" \in chaos_csr => "RDN" \in csr)
  <2>1. v \subseteq Bits BY IfaceAssumption
  <2> QED BY <1>2, <2>1 DEF Bits, Held
<1> HIDE DEF csr, reset
<1>4. /\ kept \in Buffer /\ buf \in Buffer
      /\ clear => kept.size = 0
      /\ ~clear => kept = rcv
      /\ buf = kept \/ buf.size = 0
      /\ "REN" \in csr /\ kept.empty => buf.size = 0
  <2>1. kept \in Buffer /\ (clear => kept.size = 0) /\ (~clear => kept = rcv)
    BY <1>2, ClearedType
  <2> HIDE DEF kept, clear
  <2>2. [kept EXCEPT !.size = 0, !.ptr = 0] \in Buffer
    BY <2>1 DEF Buffer
  <2>3. [kept EXCEPT !.size = 0, !.ptr = 0].size = 0
    BY <2>1 DEF Buffer
  <2> QED BY <2>1, <2>2, <2>3
<1> HIDE DEF buf, kept, clear
<1>5. LinkOK'
  <2>1. CASE reset
    <3>1. reconnect_delay' \in 0 .. ReconnectDelay BY <1>1, <2>1, IfaceAssumption
    <3>2. 0 \in 0 .. FirstFd BY IfaceAssumption
    <3> QED BY <1>1, <1>2, <2>1, <3>1, <3>2, ForceType DEF LinkOK
  <2>2. CASE ~reset
    BY <1>1, <1>2, <2>2, LinkUnchanged
  <2> QED BY <2>1, <2>2
<1>6. xmit' \in Seq(Addr) /\ Len(xmit') <= XmitMax
  <2>1. <<>> \in Seq(Addr) /\ Len(<<>>) = 0 /\ 0 <= XmitMax BY IfaceAssumption
  <2> QED BY <1>1, <1>2, <2>1 DEF RegsOK
<1>7. CASE "REN" \in csr /\ buf.size > 0
  <2>1. chaos_rx_pkt(csr, buf) BY <1>1, <1>7
  <2>2. /\ rcv' = Announce(buf) /\ rcv' \in Buffer
        /\ chaos_csr' \in SUBSET Bits /\ "RDN" \in chaos_csr'
        /\ interrupt_status' \in Status
    BY <1>2, <1>3, <1>4, <1>7, <2>1, AnnounceType, RxType DEF chaos_rx_pkt, RegsOK
  <2>3. buf.size \in Nat BY <1>4 DEF Buffer
  <2>4. ~clear /\ buf = rcv /\ ~rcv.empty
    BY <1>4, <1>7, <2>3
  <2>5. Unread BY <1>2, <1>7, <2>4 DEF Consumed
  <2>6. UNCHANGED link
    BY <1>1, <2>4 DEF clear
  <2>7. Announced' /\ Consumed'
    <3>1. rcv.by \in {"net", "self", "none"} BY <1>2 DEF Buffer
    <3>2. rcv.by = "net" => /\ rcv.to = chaos_addr /\ ~rcv.empty
                            /\ chaos_fd' # 0 /\ ~chaos_need_reconnect'
      BY <1>2, <2>5, <2>6 DEF Announced, link
    <3> QED BY <1>2, <1>7, <2>2, <2>4, <3>1, <3>2, Received
  <2> QED BY <1>1, <1>5, <1>6, <2>2, <2>7, TypeSplit, TypeJoin DEF RegsOK, IInv
<1>8. CASE ~("REN" \in csr /\ buf.size > 0)
  <2>1. rcv' = buf /\ chaos_csr' = csr /\ UNCHANGED interrupt_status BY <1>1, <1>8
  <2>2. RegsOK' BY <1>2, <1>3, <1>4, <1>6, <2>1 DEF RegsOK
  <2>3. Announced' /\ Consumed'
    <3>1. CASE buf.size = 0 BY <1>4, <2>1, <3>1, Nothing
    <3>2. CASE buf.size # 0
      <4>1. ~clear /\ buf = rcv BY <1>4, <3>2
      <4>2. UNCHANGED link BY <1>1, <4>1 DEF clear
      <4> QED BY <1>2, <1>3, <2>1, <4>1, <4>2, Undisturbed DEF link
    <3> QED BY <3>1, <3>2
  <2> QED BY <1>1, <1>5, <2>2, <2>3, TypeSplit, TypeJoin DEF IInv
<1> QED BY <1>7, <1>8

LEMMA XmitDoneType ==
  ASSUME NEW csr \in SUBSET Bits, NEW st \in Status, char_xmit_done_intr(csr, st)
  PROVE  /\ chaos_csr' \in SUBSET Bits /\ interrupt_status' \in Status
         /\ csr \subseteq chaos_csr'
<1>1. assert_unibus_interrupt(st, "transmit") \in Status BY StatusType
<1> QED BY <1>1 DEF char_xmit_done_intr, Bits

LEMMA XmitStep ==
  ASSUME IInv, chaos_xmit_pkt PROVE IInv'
<1> DEFINE to == xmit[Len(xmit)]
           n  == Len(xmit) + 2
           b  == Put(rcv, to, "self", n, FALSE)
<1>1. RegsOK /\ LinkOK /\ Announced /\ Consumed /\ running \in BOOLEAN /\ chaosd_up \in BOOLEAN
  BY TypeSplit DEF IInv
<1>2. LinkOK' /\ UNCHANGED <<chaos_fd, chaos_need_reconnect, chaosd_up>>
  BY <1>1, LinkUnchanged DEF chaos_xmit_pkt, link
<1>3. to \in Addr /\ n \in Nat /\ n > 0
  BY <1>1 DEF chaos_xmit_pkt, RegsOK
<1>4. b \in Buffer /\ b.by = "self" /\ b.size = n
  <2>1. rcv \in Buffer BY <1>1 DEF RegsOK
  <2>2. "self" \in {"net", "self"} /\ FALSE \in BOOLEAN OBVIOUS
  <2> HIDE DEF to, n
  <2>3. Put(rcv, to, "self", n, FALSE) \in Buffer BY <1>3, <2>1, <2>2, PutType
  <2>4. Put(rcv, to, "self", n, FALSE).by = "self" BY <2>1 DEF Put, Buffer
  <2>5. Put(rcv, to, "self", n, FALSE).size = n BY <2>1 DEF Put, Buffer
  <2> QED BY <2>3, <2>4, <2>5
<1>5. \/ running' = FALSE /\ UNCHANGED regs
      \/ /\ xmit' = <<>> /\ UNCHANGED running
         /\ rcv' = Announce(b)
         /\ char_xmit_done_intr(RxCsr(chaos_csr, b), RxStatus(chaos_csr, b, interrupt_status))
      \/ /\ xmit' = <<>> /\ UNCHANGED running
         /\ UNCHANGED rcv /\ char_xmit_done_intr(chaos_csr, interrupt_status)
  BY DEF chaos_xmit_pkt
<1>6. <<>> \in Seq(Addr) /\ Len(<<>>) = 0 /\ 0 <= XmitMax BY IfaceAssumption
<1> HIDE DEF b, to, n
<1>7. CASE running' = FALSE /\ UNCHANGED regs
  BY <1>1, <1>2, <1>7, RegsUnchanged, Undisturbed, TypeJoin DEF IInv, regs
<1>8. CASE /\ xmit' = <<>> /\ UNCHANGED running
           /\ rcv' = Announce(b)
           /\ char_xmit_done_intr(RxCsr(chaos_csr, b), RxStatus(chaos_csr, b, interrupt_status))
  <2>1. /\ RxCsr(chaos_csr, b) \in SUBSET Bits /\ "RDN" \in RxCsr(chaos_csr, b)
        /\ RxStatus(chaos_csr, b, interrupt_status) \in Status
    BY <1>1, <1>3, <1>4, RxType DEF RegsOK
  <2>2. /\ chaos_csr' \in SUBSET Bits /\ interrupt_status' \in Status
        /\ "RDN" \in chaos_csr'
    BY <1>8, <2>1, XmitDoneType
  <2>3. rcv' \in Buffer BY <1>4, <1>8, AnnounceType
  <2>4. Announced' /\ Consumed'
    BY <1>3, <1>4, <1>8, <2>2, Received
  <2> QED BY <1>1, <1>2, <1>6, <1>8, <2>2, <2>3, <2>4, TypeJoin DEF IInv, RegsOK
<1>9. CASE /\ xmit' = <<>> /\ UNCHANGED running
           /\ UNCHANGED rcv /\ char_xmit_done_intr(chaos_csr, interrupt_status)
  <2>1. /\ chaos_csr' \in SUBSET Bits /\ interrupt_status' \in Status
        /\ chaos_csr \subseteq chaos_csr'
    BY <1>1, <1>9, XmitDoneType DEF RegsOK
  <2>2. Announced' /\ Consumed' BY <1>1, <1>2, <1>9, <2>1, Undisturbed
  <2> QED BY <1>1, <1>2, <1>6, <1>9, <2>1, <2>2, TypeJoin DEF IInv, RegsOK
<1> QED BY <1>5, <1>7, <1>8, <1>9

-----------------------------------------------------------------------------
(***************************************************************************)
(* The connection.                                                         *)
(***************************************************************************)
LEMMA EmptyType ==
  ASSUME NEW b \in Buffer
  PROVE  LET a == [b EXCEPT !.empty = TRUE]
         IN  /\ a \in Buffer /\ a.empty /\ a.to = b.to /\ a.by = b.by
             /\ a.size = b.size /\ a.ptr = b.ptr /\ a.bit_count = b.bit_count
BY DEF Buffer

LEMMA ReconnectStep ==
  ASSUME IInv, chaos_reconnect PROVE IInv'
<1>1. /\ RegsOK /\ LinkOK /\ Announced /\ Consumed /\ chaos_need_reconnect
      /\ running \in BOOLEAN /\ chaosd_up \in BOOLEAN /\ UNCHANGED <<running, chaosd_up>>
      /\ rcv \in Buffer /\ reconnect_delay \in Nat
      /\ ReconnectDelay \in Nat
      /\ 0 \in 0 .. ReconnectDelay /\ 0 \in 0 .. FirstFd
  BY TypeSplit, IfaceAssumption DEF IInv, chaos_reconnect, RegsOK, LinkOK
<1>2. CASE Delay \/ TooSoon
  <2>1. UNCHANGED <<regs, chaos_fd, chaos_need_reconnect, rested, files, sock, inq>>
    BY <1>2 DEF Delay, TooSoon
  <2>2. reconnect_delay' \in 0 .. ReconnectDelay
    <3>1. CASE Delay BY <1>1, <3>1 DEF Delay
    <3>2. CASE TooSoon BY <1>1, <3>2 DEF TooSoon
    <3> QED BY <1>2, <3>1, <3>2
  <2>3. LinkOK' /\ RegsOK' BY <1>1, <2>1, <2>2, RegsUnchanged DEF LinkOK
  <2>4. Announced' /\ Consumed' BY <1>1, <2>1, Undisturbed DEF regs
  <2> QED BY <1>1, <2>3, <2>4, TypeJoin DEF IInv
<1>3. CASE /\ reconnect_delay' = 0 /\ rested' = FALSE
           /\ Connects \/ Fails
           /\ UNCHANGED <<chaos_csr, xmit, interrupt_status, files, inq>>
  <2>1. CASE Connects
    <3>1. NewFd \in 0 .. FirstFd BY <1>1, NewFdType DEF LinkOK
    <3>2. LinkOK' BY <1>1, <1>3, <2>1, <3>1 DEF LinkOK, Connects
    <3>3. /\ rcv' \in Buffer /\ rcv'.empty /\ rcv'.to = rcv.to /\ rcv'.by = rcv.by
          /\ rcv'.size = rcv.size /\ rcv'.ptr = rcv.ptr
          /\ rcv'.bit_count = rcv.bit_count
      BY <1>1, <2>1, EmptyType DEF Connects
    <3>4. RegsOK' BY <1>1, <1>3, <3>3 DEF RegsOK
    <3>5. Announced' /\ Consumed'
      BY <1>1, <1>3, <3>3 DEF Announced, Consumed, Unread
    <3> QED BY <1>1, <3>2, <3>4, <3>5, TypeJoin DEF IInv
  <2>2. CASE Fails
    <3>1. UNCHANGED <<rcv, chaos_need_reconnect, sock>> /\ chaos_fd' = 0
      BY <2>2 DEF Fails
    <3>2. LinkOK' BY <1>1, <1>3, <3>1 DEF LinkOK
    <3>3. RegsOK' BY <1>1, <1>3, <3>1 DEF RegsOK
    <3>4. Announced' /\ Consumed'
      BY <1>1, <1>3, <3>1 DEF Announced, Consumed, Unread
    <3> QED BY <1>1, <3>2, <3>3, <3>4, TypeJoin DEF IInv
  <2> QED BY <1>3, <2>1, <2>2
<1> QED BY <1>2, <1>3 DEF chaos_reconnect

LEMMA PollStep ==
  ASSUME IInv, chaos_poll PROVE IInv'
<1>1. /\ RegsOK /\ LinkOK /\ Announced /\ Consumed
      /\ ~chaos_need_reconnect /\ chaos_fd # 0 /\ ~Full
      /\ running \in BOOLEAN /\ chaosd_up \in BOOLEAN
      /\ UNCHANGED <<xmit, reconnect_delay, rested, running, chaosd_up>>
      /\ rcv \in Buffer
  BY TypeSplit DEF IInv, chaos_poll, RegsOK
<1>2. CASE ReadPacket
  <2> DEFINE p == Head(inq)
             b == Put(rcv, p.to, "net", p.size, FALSE)
  <2>1. /\ inq \in Seq(NetPacket) /\ inq # <<>> /\ inq' = Tail(inq)
        /\ UNCHANGED <<chaos_fd, chaos_need_reconnect, files, sock>>
    BY <1>1, <1>2 DEF ReadPacket, LinkOK
  <2>2. p \in NetPacket BY <2>1
  <2>3. p.to \in Addr /\ p.size \in Nat /\ p.size > 0
    <3> HIDE DEF p, b
    <3>1. p.to \in Addr /\ p.size \in NetLens BY <2>2 DEF NetPacket
    <3>2. p.size \in Nat /\ 3 <= p.size BY <3>1, IfaceAssumption
    <3> QED BY <3>1, <3>2
  <2>4. inq' \in Seq(NetPacket) /\ Len(inq') <= InMax
    <3>1. Len(inq') = Len(inq) - 1 /\ Len(inq) \in Nat /\ inq' \in Seq(NetPacket)
      BY <2>1
    <3>2. Len(inq) <= InMax /\ InMax \in Nat BY <1>1, IfaceAssumption DEF LinkOK
    <3> QED BY <3>1, <3>2
  <2>5. LinkOK' BY <1>1, <2>1, <2>4 DEF LinkOK
  <2>6. IF p.to = chaos_addr
          THEN chaos_rx_pkt(chaos_csr, b)
          ELSE /\ rcv' = [b EXCEPT !.size = 0, !.empty = TRUE]
               /\ UNCHANGED <<chaos_csr, interrupt_status>>
    BY <1>2 DEF ReadPacket
  <2> HIDE DEF p
  <2>7. b \in Buffer /\ b.to = p.to /\ b.by = "net" /\ b.size = p.size /\ ~b.empty
    <3>1. "net" \in {"net", "self"} /\ FALSE \in BOOLEAN OBVIOUS
    <3>2. b \in Buffer BY <1>1, <2>3, <3>1, PutType
    <3>3. b.to = p.to /\ b.by = "net" /\ b.size = p.size /\ b.empty = FALSE
      BY <1>1 DEF Put, Buffer
    <3> QED BY <3>2, <3>3
  <2> HIDE DEF b
  <2>8. CASE p.to = chaos_addr
    <3>1. /\ rcv' = Announce(b) /\ rcv' \in Buffer
          /\ chaos_csr' \in SUBSET Bits /\ "RDN" \in chaos_csr'
          /\ interrupt_status' \in Status
      BY <1>1, <2>3, <2>6, <2>7, <2>8, AnnounceType, RxType DEF chaos_rx_pkt, RegsOK
    <3>2. Announced' /\ Consumed'
      BY <1>1, <2>1, <2>3, <2>7, <2>8, <3>1, Received
    <3> QED BY <1>1, <2>5, <3>1, <3>2, TypeJoin DEF IInv, RegsOK
  <2>9. CASE p.to # chaos_addr
    <3>1. rcv' = [b EXCEPT !.size = 0, !.empty = TRUE] /\ UNCHANGED <<chaos_csr, interrupt_status>>
      BY <2>6, <2>9
    <3>2. rcv' \in Buffer /\ rcv'.size = 0 BY <2>7, <3>1 DEF Buffer
    <3>3. Announced' /\ Consumed' BY <3>2, Nothing
    <3> QED BY <1>1, <2>5, <3>1, <3>2, <3>3, TypeJoin DEF IInv, RegsOK
  <2> QED BY <2>8, <2>9
<1>3. CASE ReadEnd
  <2>1. chaos_force_reconect /\ UNCHANGED <<chaos_csr, rcv, interrupt_status>>
    BY <1>3 DEF ReadEnd
  <2>2. RegsOK' BY <1>1, <2>1 DEF RegsOK
  <2>3. LinkOK'
    <3>1. 0 \in 0 .. FirstFd BY IfaceAssumption
    <3> QED BY <1>1, <2>1, <3>1, ForceType DEF LinkOK
  <2>4. Unread => rcv.by # "net"
    BY <1>1 DEF Announced, Full
  <2>5. Announced' /\ Consumed'
    BY <1>1, <2>1, <2>4 DEF Announced, Consumed, Unread
  <2> QED BY <1>1, <2>2, <2>3, <2>5, TypeJoin DEF IInv
<1> QED BY <1>2, <1>3 DEF chaos_poll

(* The time and chaosd change nothing of the registers. *)
LEMMA OutsideStep ==
  ASSUME IInv, FiveSeconds \/ ChaosdStart \/ ChaosdClose \/ ChaosdSend PROVE IInv'
<1>1. RegsOK /\ LinkOK /\ Announced /\ Consumed /\ running \in BOOLEAN /\ chaosd_up \in BOOLEAN
  BY TypeSplit DEF IInv
<1>2. UNCHANGED <<regs, chaos_fd, chaos_need_reconnect, running>>
  BY DEF FiveSeconds, ChaosdStart, ChaosdClose, ChaosdSend, link
<1>3. chaosd_up' \in BOOLEAN
  BY <1>1 DEF FiveSeconds, ChaosdStart, ChaosdClose, ChaosdSend
<1>4. LinkOK'
  <2>1. CASE FiveSeconds BY <1>1, <2>1 DEF FiveSeconds, LinkOK
  <2>2. CASE ChaosdStart BY <1>1, <2>2, LinkUnchanged DEF ChaosdStart
  <2>3. CASE ChaosdClose BY <1>1, <2>3 DEF ChaosdClose, LinkOK
  <2>4. CASE ChaosdSend
    <3>1. PICK to \in Addr, n \in NetLens : inq' = Append(inq, [to |-> to, size |-> n])
      BY <2>4 DEF ChaosdSend
    <3>2. [to |-> to, size |-> n] \in NetPacket BY DEF NetPacket
    <3>3. inq \in Seq(NetPacket) /\ Len(inq) < InMax /\ InMax \in Nat
      BY <1>1, <2>4, IfaceAssumption DEF LinkOK, ChaosdSend
    <3>4. inq' \in Seq(NetPacket) /\ Len(inq') = Len(inq) + 1
      BY <3>1, <3>2, <3>3
    <3>5. Len(inq') <= InMax BY <3>3, <3>4
    <3> QED BY <1>1, <2>4, <3>4, <3>5 DEF ChaosdSend, LinkOK
  <2> QED BY <2>1, <2>2, <2>3, <2>4
<1>5. RegsOK' /\ Announced' /\ Consumed'
  BY <1>1, <1>2, RegsUnchanged, Undisturbed DEF regs
<1> QED BY <1>2, <1>3, <1>4, <1>5, <1>1, TypeJoin DEF IInv

-----------------------------------------------------------------------------
(***************************************************************************)
(* The theorems.                                                           *)
(***************************************************************************)
LEMMA Initial == Init => IInv
<1> SUFFICES ASSUME Init PROVE IInv OBVIOUS
<1>1. <<>> \in Seq(Addr) /\ <<>> \in Seq(NetPacket) /\ Len(<<>>) = 0 OBVIOUS
<1>2. /\ 0 \in 0 .. FirstFd /\ FirstFd \in 0 .. FirstFd /\ 0 <= XmitMax /\ 0 <= InMax
      /\ 0 \in 0 .. ReconnectDelay
  BY IfaceAssumption
<1>3. rcv \in Buffer /\ rcv.size = 0 /\ rcv.ptr = 0
  BY IfaceAssumption DEF Init, Buffer
<1>4. RegsOK BY <1>1, <1>2, <1>3 DEF Init, RegsOK, Status
<1>5. LinkOK BY <1>1, <1>2 DEF Init, LinkOK
<1>6. Announced /\ Consumed BY <1>3 DEF Announced, Consumed, Unread
<1> QED BY <1>4, <1>5, <1>6, TypeSplit DEF Init, IInv

LEMMA Step == IInv /\ [Next]_vars => IInv'
<1> SUFFICES ASSUME IInv, [Next]_vars PROVE IInv' OBVIOUS
<1>1. CASE Guest BY <1>1, CsrStep, GetStep, PutStep, XmitStep, InterruptStep DEF Guest
<1>2. CASE chaos_reconnect BY <1>2, ReconnectStep
<1>3. CASE chaos_poll BY <1>3, PollStep
<1>4. CASE FiveSeconds \/ ChaosdStart \/ ChaosdClose \/ ChaosdSend
  BY <1>4, OutsideStep
<1>5. CASE UNCHANGED vars
  BY <1>5 DEF vars, regs, link, IInv, TypeOK, Announced, Consumed, Unread
<1> QED BY <1>1, <1>2, <1>3, <1>4, <1>5 DEF Next

(* The interface keeps its types, and its descriptor a socket or 0. *)
THEOREM IfaceInvariance == Spec => []IInv
<1> QED BY Initial, Step, PTL DEF Spec

THEOREM IfaceTypeCorrect == Spec => []TypeOK
<1>1. IInv => TypeOK BY DEF IInv
<1> QED BY <1>1, IfaceInvariance, PTL

(* What the guest has not read is announced to it, after any sequence of   *)
(* register accesses, polls, losses and reconnections (chaos_rx_pkt,       *)
(* chaos_set_csr).                                                         *)
THEOREM AlwaysAnnounced == Spec => []Announced
<1>1. IInv => Announced BY DEF IInv
<1> QED BY <1>1, IfaceInvariance, PTL

(* A poll leaves a packet from the network alone until it has been read.   *)
THEOREM NeverTorn == Spec => Untorn
<1>1. IInv /\ [Next]_vars =>
        [(chaos_poll \/ chaos_reconnect) /\ Unread /\ rcv.by = "net" => UNCHANGED rcv]_vars
  <2> SUFFICES ASSUME IInv, chaos_poll \/ chaos_reconnect, Unread, rcv.by = "net"
               PROVE  UNCHANGED rcv
    OBVIOUS
  <2>1. "RDN" \in chaos_csr /\ ~rcv.empty /\ ~chaos_need_reconnect
    BY DEF IInv, Announced
  <2> QED BY <2>1 DEF chaos_poll, chaos_reconnect, Full
<1> QED BY <1>1, IfaceInvariance, PTL DEF Spec, Untorn
=============================================================================
