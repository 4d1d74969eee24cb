----------------------------- MODULE ChaosIface -----------------------------
(***************************************************************************)
(* The simulator's Chaosnet interface (usim/chaos.c): the registers the    *)
(* guest reads and writes on the Unibus (iob.c), a receive buffer and a    *)
(* transmit buffer of one packet each, and a socket to chaosd that is      *)
(* polled from the instruction loop and made again when it is lost.        *)
(*                                                                         *)
(* The simulator is one thread: a register access and a poll are atomic.   *)
(* The guest accesses the registers in any order; what it does with them   *)
(* is its own software's business.  Packets have a destination and a       *)
(* length in words; what is in the words is left out, and so is the lost   *)
(* count, which stays 0: CHAOS_TOSS_IF_RXBUFF_FULL is not defined.         *)
(* chaosd forwards no packet longer than the buffer (node.c:127).          *)
(***************************************************************************)
EXTENDS Integers, Sequences, FiniteSets

CONSTANTS
  Addr,             \* addresses on the network, 16-bit words
  chaos_addr,       \* CHAOS_MY_ADDRESS
  NetLens,          \* lengths in words of the packets chaosd sends
  GuestCsr,         \* the values the guest writes to the CSR
  XmitMax,          \* bound: words the guest puts before it transmits
  InMax,            \* bound: packets in the socket
  FirstFd,          \* descriptors below it are open when usim starts
  ReconnectDelay    \* polls between two attempts to connect, 200

Bits == {"LUP", "RCL", "REN", "TEN", "TAB", "TDN", "TCL", "RST", "RDN"}

ASSUME IfaceAssumption ==
  /\ chaos_addr \in Addr
  /\ \A n \in NetLens : n \in Nat /\ 3 <= n /\ n <= 2048
  /\ GuestCsr \subseteq SUBSET Bits
  /\ XmitMax \in 1 .. 2046 /\ InMax \in Nat \ {0}
  /\ FirstFd \in Nat \ {0} /\ ReconnectDelay \in Nat \ {0}

VARIABLES
  (* the registers and buffers *)
  chaos_csr,          \* the bits that are on
  rcv,                \* the receive buffer, as below
  xmit,               \* the words put into the transmit buffer: 0 .. ptr - 1
  interrupt_status,   \* unibus interrupts: on, pending, and the vector
  (* the connection *)
  chaos_fd,           \* 0 for "none"
  chaos_need_reconnect, reconnect_delay,
  rested,             \* 5 seconds have passed since reconnect_time
  running,            \* the process has not been killed
  files,              \* descriptors open that are not the interface's
  sock,               \* its socket: "none", "open" or "eof" (closed by chaosd)
  inq,                \* packets in the socket
  chaosd_up           \* chaosd is listening

regs == <<chaos_csr, rcv, xmit, interrupt_status>>
link == <<chaos_fd, chaos_need_reconnect, reconnect_delay, rested, files, sock, inq>>
vars == <<regs, link, running, chaosd_up>>

(* The receive buffer: the packet last put into it, the words of it that   *)
(* count, the next word to read, chaos_rcv_buffer_empty and the bit count. *)
Buffer == [to : Addr, by : {"net", "self", "none"}, size : Nat, ptr : Nat,
           empty : BOOLEAN, bit_count : Int]

(* A packet has been put into the buffer, and not all its words were read. *)
Unread == rcv.ptr < rcv.size
Linked == chaos_fd # 0 /\ sock = "open"

Lowest(S) == CHOOSE n \in S : \A k \in S : n <= k
NewFd     == Lowest((0 .. FirstFd) \ files)

Put(b, to, by, size, empty) ==
  [b EXCEPT !.to = to, !.by = by, !.size = size, !.empty = empty]

-----------------------------------------------------------------------------
(* Interrupts *)

assert_unibus_interrupt(status, vector) ==
  IF status.on THEN [status EXCEPT !.pending = TRUE, !.vector = vector] ELSE status

(* chaos_rx_pkt: announce the packet in b.                                 *)
Announce(b)      == [b EXCEPT !.ptr = 0, !.bit_count = b.size * 16 - 1]
RxCsr(csr, b)    == IF b.size > 0 THEN csr \cup {"RDN"} ELSE csr
RxStatus(csr, b, status) ==
  IF b.size > 0 /\ "REN" \in csr THEN assert_unibus_interrupt(status, "receive")
                                 ELSE status

chaos_rx_pkt(csr, b) ==
  /\ rcv' = Announce(b)
  /\ chaos_csr' = RxCsr(csr, b)
  /\ interrupt_status' = RxStatus(csr, b, interrupt_status)

(* The guest turns unibus interrupts on or off, and acknowledges the one   *)
(* that is pending by storing none.                                        *)
WriteInterruptStatus ==
  /\ running
  /\ \E on \in BOOLEAN : interrupt_status' = [interrupt_status EXCEPT !.on = on]
  /\ UNCHANGED <<chaos_csr, rcv, xmit, link, running, chaosd_up>>

AckInterrupt ==
  /\ running
  /\ interrupt_status' = [interrupt_status EXCEPT !.pending = FALSE, !.vector = "none"]
  /\ UNCHANGED <<chaos_csr, rcv, xmit, link, running, chaosd_up>>

-----------------------------------------------------------------------------
(* The registers *)

(* Mutant: the buffer is freed by the read past the last word.             *)
GetFreesLate ==
  /\ running
  /\ IF Unread
       THEN /\ rcv' = [rcv EXCEPT !.ptr = @ + 1]
            /\ UNCHANGED chaos_csr
       ELSE /\ rcv' = [rcv EXCEPT !.size = 0, !.empty = TRUE]
            /\ chaos_csr' = chaos_csr \ {"RDN"}
  /\ UNCHANGED <<xmit, interrupt_status, link, running, chaosd_up>>

(* A word of the receive buffer.  The last one frees the buffer; one more  *)
(* read turns receive-done off.                                            *)
chaos_get_rcv_buffer ==
  /\ running
  /\ IF Unread
       THEN /\ rcv' = [rcv EXCEPT !.ptr = @ + 1,
                                  !.empty = @ \/ rcv.ptr + 1 = rcv.size]
            /\ UNCHANGED chaos_csr
       ELSE /\ rcv' = [rcv EXCEPT !.size = 0]
            /\ chaos_csr' = chaos_csr \ {"RDN"}
  /\ UNCHANGED <<xmit, interrupt_status, link, running, chaosd_up>>

chaos_put_xmit_buffer ==
  /\ running /\ Len(xmit) < XmitMax
  /\ \E word \in Addr : xmit' = Append(xmit, word)
  /\ chaos_csr' = chaos_csr \ {"TDN"}
  /\ UNCHANGED <<rcv, interrupt_status, link, running, chaosd_up>>

(* The bits a write leaves as they are.                                    *)
Held == {"TDN", "RDN", "RCL"}

(* Mutant: chaos_fd keeps the number of the socket that was closed.        *)
ForceKeepsFd ==
  /\ IF sock # "none" THEN sock' = "none" /\ inq' = <<>> /\ UNCHANGED files
                      ELSE files' = files \ {chaos_fd} /\ UNCHANGED <<sock, inq>>
  /\ chaos_need_reconnect' = TRUE
  /\ UNCHANGED chaos_fd

(* Drop the connection.  close(chaos_fd) closes descriptor 0 when there is *)
(* none: the socket, if it has that number, or the standard input.         *)
chaos_force_reconect ==
  /\ IF sock # "none" THEN sock' = "none" /\ inq' = <<>> /\ UNCHANGED files
                      ELSE files' = files \ {chaos_fd} /\ UNCHANGED <<sock, inq>>
  /\ chaos_fd' = 0
  /\ chaos_need_reconnect' = TRUE

(* Mutant: RECEIVER CLEAR and RESET leave the size.                        *)
ClearedHalf(b) == [b EXCEPT !.ptr = 0, !.bit_count = 0]

Cleared(b) == [b EXCEPT !.size = 0, !.ptr = 0, !.bit_count = 0]

chaos_set_csr(v) ==
  LET reset == "RST" \in v
      clear == reset \/ "RCL" \in v
      sent  == {"TCL", "TDN"} \cap v # {}
      off   == {"RST"} \cup (IF clear THEN {"RDN"} ELSE {})
                       \cup (IF sent THEN {"TAB"} ELSE {})
      on    == IF reset \/ sent \/ "TEN" \in v THEN {"TDN"} ELSE {}
      csr   == (((chaos_csr \cap Held) \cup (v \ Held)) \ off) \cup on
      kept  == IF clear THEN Cleared(rcv) ELSE rcv
      buf   == IF "REN" \in csr /\ kept.empty
                 THEN [kept EXCEPT !.size = 0, !.ptr = 0] ELSE kept
  IN  /\ running
      /\ IF "REN" \in csr /\ buf.size > 0
           THEN chaos_rx_pkt(csr, buf)
           ELSE /\ rcv' = buf /\ chaos_csr' = csr
                /\ UNCHANGED interrupt_status
      /\ xmit' = IF reset \/ sent THEN <<>> ELSE xmit
      /\ IF reset THEN /\ chaos_force_reconect
                       /\ reconnect_delay' = ReconnectDelay
                       /\ UNCHANGED rested
                  ELSE UNCHANGED link
      /\ UNCHANGED <<running, chaosd_up>>

(* chaos_send_to_chaosd: a packet to this address, or any while looping    *)
(* back, goes into the receive buffer, whatever is there.  chaosd gets     *)
(* what is not looped back; if it has closed the connection, the write     *)
(* kills the process (SIGPIPE).                                            *)
Here(to)   == "LUP" \in chaos_csr \/ to = chaos_addr
BrokenPipe == "LUP" \notin chaos_csr /\ chaos_fd # 0 /\ sock = "eof"

char_xmit_done_intr(csr, status) ==
  /\ chaos_csr' = csr \cup {"TDN"}
  /\ interrupt_status' = IF "TEN" \in csr
                           THEN assert_unibus_interrupt(status, "transmit") ELSE status

(* Transmit: the guest has put the words, the destination last; source and *)
(* checksum are added.                                                     *)
chaos_xmit_pkt ==
  LET to == xmit[Len(xmit)]
      b  == Put(rcv, to, "self", Len(xmit) + 2, FALSE)
  IN  /\ running /\ xmit # <<>>
      /\ \/ BrokenPipe /\ running' = FALSE /\ UNCHANGED regs
         \/ /\ ~BrokenPipe
            /\ xmit' = <<>>
            /\ IF Here(to)
                 THEN /\ rcv' = Announce(b)
                      /\ char_xmit_done_intr(RxCsr(chaos_csr, b),
                                             RxStatus(chaos_csr, b, interrupt_status))
                 ELSE /\ char_xmit_done_intr(chaos_csr, interrupt_status)
                      /\ UNCHANGED rcv
            /\ UNCHANGED running
      /\ UNCHANGED <<link, chaosd_up>>

-----------------------------------------------------------------------------
(* The connection *)

(* One attempt in ReconnectDelay polls, none within 5 seconds of the last. *)
Delay ==
  /\ reconnect_delay + 1 < ReconnectDelay
  /\ reconnect_delay' = reconnect_delay + 1
  /\ UNCHANGED <<regs, chaos_fd, chaos_need_reconnect, rested, files, sock, inq>>

TooSoon ==
  /\ reconnect_delay + 1 >= ReconnectDelay /\ ~rested
  /\ reconnect_delay' = 0
  /\ UNCHANGED <<regs, chaos_fd, chaos_need_reconnect, rested, files, sock, inq>>

(* chaos_init: socket() takes the lowest free descriptor.                  *)
Connects ==
  /\ chaosd_up
  /\ chaos_fd' = NewFd /\ sock' = "open" /\ chaos_need_reconnect' = FALSE
  /\ rcv' = [rcv EXCEPT !.empty = TRUE]

(* Mutant: an attempt that fails is the last.                              *)
FailsGivesUp ==
  ~chaosd_up /\ chaos_fd' = 0 /\ chaos_need_reconnect' = FALSE /\ UNCHANGED <<sock, rcv>>

Fails == ~chaosd_up /\ chaos_fd' = 0 /\ UNCHANGED <<sock, chaos_need_reconnect, rcv>>

chaos_reconnect ==
  /\ running /\ chaos_need_reconnect
  /\ \/ Delay
     \/ TooSoon
     \/ /\ reconnect_delay + 1 >= ReconnectDelay /\ rested
        /\ reconnect_delay' = 0 /\ rested' = FALSE
        /\ (Connects \/ Fails)
        /\ UNCHANGED <<chaos_csr, xmit, interrupt_status, files, inq>>
  /\ UNCHANGED <<running, chaosd_up>>

(* Mutant: the buffer counts as in use until the guest begins to read it.  *)
FullUntilRead == ~rcv.empty /\ "RDN" \in chaos_csr /\ rcv.ptr = 0

(* Data that the guest has not read is left alone, and the socket too.     *)
Full == ~rcv.empty /\ "RDN" \in chaos_csr

(* chaos_poll reads a packet, or finds the end of the connection.  While a *)
(* connection is to be made there is none to poll.                         *)
ReadPacket ==
  LET p == Head(inq)
      b == Put(rcv, p.to, "net", p.size, FALSE)
  IN  /\ inq # <<>>
      /\ inq' = Tail(inq)
      /\ IF p.to = chaos_addr
           THEN chaos_rx_pkt(chaos_csr, b)
           ELSE /\ rcv' = [b EXCEPT !.size = 0, !.empty = TRUE]
                /\ UNCHANGED <<chaos_csr, interrupt_status>>
      /\ UNCHANGED <<chaos_fd, chaos_need_reconnect, files, sock>>

ReadEnd ==
  /\ inq = <<>> /\ sock = "eof"
  /\ chaos_force_reconect
  /\ UNCHANGED <<chaos_csr, rcv, interrupt_status>>

chaos_poll ==
  /\ running /\ ~chaos_need_reconnect /\ chaos_fd # 0
  /\ ~Full
  /\ ReadPacket \/ ReadEnd
  /\ UNCHANGED <<xmit, reconnect_delay, rested, running, chaosd_up>>

-----------------------------------------------------------------------------
(* What surrounds it: the time, and chaosd at the other end.               *)

FiveSeconds ==
  /\ ~rested /\ rested' = TRUE
  /\ UNCHANGED <<regs, chaos_fd, chaos_need_reconnect, reconnect_delay,
                 files, sock, inq, running, chaosd_up>>

ChaosdStart ==
  /\ ~chaosd_up /\ chaosd_up' = TRUE
  /\ UNCHANGED <<regs, link, running>>

(* chaosd stops, or closes this connection.                                *)
ChaosdClose ==
  /\ chaosd_up
  /\ chaosd_up' \in BOOLEAN
  /\ sock' = IF sock = "open" THEN "eof" ELSE sock
  /\ UNCHANGED <<regs, chaos_fd, chaos_need_reconnect, reconnect_delay, rested,
                 files, inq, running>>

ChaosdSend ==
  /\ running /\ sock = "open" /\ Len(inq) < InMax
  /\ \E to \in Addr, n \in NetLens : inq' = Append(inq, [to |-> to, size |-> n])
  /\ UNCHANGED <<regs, chaos_fd, chaos_need_reconnect, reconnect_delay, rested,
                 files, sock, running, chaosd_up>>

-----------------------------------------------------------------------------
(* usim starts, and tries once to connect.                                 *)
Init ==
  /\ chaosd_up \in BOOLEAN
  /\ chaos_fd = (IF chaosd_up THEN FirstFd ELSE 0)
  /\ sock = (IF chaosd_up THEN "open" ELSE "none")
  /\ rcv = [to |-> chaos_addr, by |-> "none", size |-> 0, ptr |-> 0,
            empty |-> chaosd_up, bit_count |-> 0]
  /\ chaos_csr = {} /\ xmit = <<>> /\ inq = <<>>
  /\ interrupt_status = [on |-> FALSE, pending |-> FALSE, vector |-> "none"]
  /\ chaos_need_reconnect = FALSE /\ reconnect_delay = 0 /\ rested = TRUE
  /\ running = TRUE
  /\ files = 0 .. FirstFd - 1

Guest ==
  \/ \E v \in GuestCsr : chaos_set_csr(v)
  \/ chaos_get_rcv_buffer
  \/ chaos_put_xmit_buffer
  \/ chaos_xmit_pkt
  \/ WriteInterruptStatus
  \/ AckInterrupt

Next ==
  \/ Guest
  \/ chaos_reconnect
  \/ chaos_poll
  \/ FiveSeconds
  \/ ChaosdStart \/ ChaosdClose \/ ChaosdSend

Spec == Init /\ [][Next]_vars

(* The instruction loop polls for ever, and time passes.  Nothing is asked *)
(* of the guest or of chaosd.                                              *)
FairSpec == /\ Spec
            /\ WF_vars(chaos_reconnect) /\ WF_vars(chaos_poll) /\ WF_vars(FiveSeconds)

-----------------------------------------------------------------------------
(* Properties *)

(* Types, and the descriptor: 0 without a connection.                      *)
TypeOK ==
  /\ chaos_csr \subseteq Bits /\ rcv \in Buffer
  /\ xmit \in Seq(Addr) /\ Len(xmit) <= XmitMax
  /\ interrupt_status \in [on : BOOLEAN, pending : BOOLEAN,
                           vector : {"none", "receive", "transmit"}]
  /\ chaos_fd \in 0 .. FirstFd
  /\ chaos_need_reconnect \in BOOLEAN /\ reconnect_delay \in 0 .. ReconnectDelay
  /\ rested \in BOOLEAN /\ running \in BOOLEAN /\ chaosd_up \in BOOLEAN
  /\ files \subseteq 0 .. FirstFd - 1
  /\ sock \in {"none", "open", "eof"}
  /\ inq \in Seq([to : Addr, size : NetLens]) /\ Len(inq) <= InMax
  /\ chaos_fd # 0 => sock # "none"

(* What is in the receive buffer for the guest to read is announced: the   *)
(* receive-done bit is on and the bit count is that packet's, after any    *)
(* writes of the CSR, resets and looped-back packets.  A packet from the   *)
(* network is for this address, came over the connection there is now, and *)
(* keeps the socket from being read.                                       *)
Announced ==
  Unread => /\ "RDN" \in chaos_csr
            /\ rcv.bit_count = rcv.size * 16 - 1
            /\ rcv.by = "net" => /\ rcv.to = chaos_addr
                                 /\ chaos_fd # 0 /\ ~chaos_need_reconnect
                                 /\ ~rcv.empty

(* No poll touches a packet from the network before the guest has read it  *)
(* to its end: no packet is torn.                                          *)
Untorn ==
  [][(chaos_poll \/ chaos_reconnect) /\ Unread /\ rcv.by = "net" => UNCHANGED rcv]_vars

(* A packet waits in the socket, so that in the end chaosd must wait, only *)
(* for the guest to read the one in the buffer: as long as there is none,  *)
(* polls take packets, whatever else the guest does with the registers.    *)
Waiting == running /\ chaos_fd # 0 /\ inq # <<>> /\ ~Unread
Pumped  == <>[]Waiting => []<><<Len(inq') < Len(inq)>>_inq

(* A lost or reset connection is made again once chaosd is there to stay,  *)
(* if usim was not killed and its standard input is still open.            *)
Reconnects ==
  <>[](chaosd_up /\ running /\ 0 \in files) => (chaos_need_reconnect ~> Linked)

(* "usim will automatically reconnect to the server if the server is       *)
(* killed or dies.  In theory you can start usim first."                   *)
(* (chaos/README:51): when it is not trying to connect and has an open     *)
(* connection to chaosd, that connection is the one it polls.              *)
Reconnected == sock = "open" /\ ~chaos_need_reconnect => chaos_fd # 0
=============================================================================
