---------------------------- MODULE PacketQueues ----------------------------
(***************************************************************************)
(* The packet buffers of one connection and the three chains that hold     *)
(* them: cn_thead, the packets sent and not yet receipted; cn_rhead and    *)
(* cn_routorder, the packets received in order and out of order.           *)
(* xmitdone() inserts into thead, receipt() frees from its front,          *)
(* chretran() takes the aged packets out and sends them again, one by one, *)
(* through senddata(), chaos_xmit() and xmitdone().  rcvdata() puts a      *)
(* packet on rhead or routorder and moves what has come in order; the user *)
(* reads from the front of rhead; uncontrolled data goes to its front and  *)
(* a CLS or LOS to its end, when clsconn() frees thead.                    *)
(*                                                                         *)
(* ChaosConn takes thead and routorder for sets and rhead for a sequence:  *)
(* Unreceipted and Stored are that abstraction.                            *)
(***************************************************************************)
EXTENDS PacketList

CONSTANTS
  Start,      \* number before the first, each way, so that numbers may wrap
  MaxSent,    \* bound: packets written
  MaxRcvd,    \* bound: packets the peer writes
  RwSize      \* cn_rwsize

ASSUME QueuesAssumption ==
  /\ Start \in Num /\ RwSize \in Nat \ {0}
  /\ MaxSent \in Nat /\ MaxSent < NumHalf
  /\ MaxRcvd \in Nat /\ MaxRcvd + RwSize < NumHalf

VARIABLES
  next,                      \* pk_next
  num,                       \* pk_pkn
  kind,                      \* "data" (numbered), "unc" or "end" (a CLS or LOS)
  free,                      \* buffers malloc may hand out
  leaked,                    \* on no list: a failed writev never gets to xmitdone
  open,                      \* cn_state is CSOPEN
  thead, ttail, tlast, trecvd,
  rhead, rtail, routorder, rlast, rread,
  wire,                      \* history: numbers that got onto the wire
  seen,                      \* history: numbers stored so far
  read                       \* history: numbers read, in order

sending   == <<thead, ttail, tlast, trecvd, leaked, wire>>
receiving == <<kind, rhead, rtail, routorder, rlast, rread, seen, read>>
vars      == <<next, num, free, open, sending, receiving>>

Sent     == Chain(next, thead)
InOrder  == Chain(next, rhead)
OutOrder == Chain(next, routorder)
Written  == {(Start + i) % NumMod : i \in 1 .. (tlast - Start) % NumMod}
Incoming == {(Start + i) % NumMod : i \in 1 .. MaxRcvd}

-----------------------------------------------------------------------------
(***************************************************************************)
(* Sending.                                                                *)
(***************************************************************************)
(* Mutant of Link: the rest of the queue is cut off behind b. *)
LinkCuts(q, b, prev) ==
  LET linked == [q.next EXCEPT ![b] = NOPKT]
  IN  [q EXCEPT !.next = IF prev = NOPKT THEN linked ELSE [linked EXCEPT ![prev] = b],
                !.thead = IF prev = NOPKT THEN b ELSE @,
                !.ttail = b]

(* xmitdone() of buffer b on queue q: before the head, or behind the last  *)
(* buffer whose successor's number is not below b's.                       *)
Link(q, b, prev) ==
  LET after == IF prev = NOPKT THEN q.thead ELSE q.next[prev]
      linked == [q.next EXCEPT ![b] = after]
  IN  [q EXCEPT !.next = IF prev = NOPKT THEN linked ELSE [linked EXCEPT ![prev] = b],
                !.thead = IF prev = NOPKT THEN b ELSE @,
                !.ttail = IF after = NOPKT THEN b ELSE @]

xmitdone(q, b) ==
  LET stop[n \in Buf] ==
        IF q.next[n] = NOPKT \/ cmp_lt(num'[b], num'[q.next[n]]) THEN n
        ELSE stop[q.next[n]]
  IN  IF ~open \/ ~cmp_gt(num'[b], trecvd) THEN [q EXCEPT !.free = @ \cup {b}]
      ELSE IF q.thead = NOPKT \/ cmp_lt(num'[b], num'[q.thead])
           THEN Link(q, b, NOPKT)
           ELSE Link(q, b, stop[q.thead])

State == [next |-> next, thead |-> thead, ttail |-> ttail, free |-> free,
          leaked |-> leaked]

Become(q) == /\ next' = q.next /\ thead' = q.thead /\ ttail' = q.ttail
             /\ free' = q.free /\ leaked' = q.leaked

(* chaos_xmit(): xmitdone if the write succeeds. *)
Xmit(q, b, ok) == IF ok THEN xmitdone(q, b) ELSE [q EXCEPT !.leaked = @ \cup {b}]

(* ch_write(): the next number, into a fresh buffer. *)
Write(b, ok) ==
  /\ open /\ b \in free
  /\ (tlast - Start) % NumMod < MaxSent
  /\ tlast' = Succ(tlast)
  /\ num' = [num EXCEPT ![b] = Succ(tlast)]
  /\ Become(Xmit([State EXCEPT !.free = @ \ {b}], b, ok))
  /\ wire' = IF ok THEN wire \cup {Succ(tlast)} ELSE wire
  /\ UNCHANGED <<trecvd, open, receiving>>

(* The peer receipts what it has received in order. *)
Receivable == {n \in wire : \A m \in Written : cmp_le(m, n) => m \in wire}

(* Mutant of receipt: the packet receipted is kept. *)
receiptBelow(recnum) ==
  LET keep[b \in Buf \cup {NOPKT}] ==
        IF b # NOPKT /\ cmp_lt(num[b], recnum) THEN keep[next[b]] ELSE b
      head == keep[thead]
  IN  /\ open /\ cmp_gt(recnum, trecvd)
      /\ thead' = head
      /\ ttail' = IF head = NOPKT THEN NOPKT ELSE ttail
      /\ free' = free \cup (Members(Sent) \ Members(Chain(next, head)))
      /\ trecvd' = recnum
      /\ UNCHANGED <<next, num, tlast, leaked, wire, open, receiving>>

(* receipt(): free from the front all that is not above recnum. *)
receipt(recnum) ==
  LET keep[b \in Buf \cup {NOPKT}] ==
        IF b # NOPKT /\ cmp_le(num[b], recnum) THEN keep[next[b]] ELSE b
      head == keep[thead]
  IN  /\ open /\ cmp_gt(recnum, trecvd)
      /\ thead' = head
      /\ ttail' = IF head = NOPKT THEN NOPKT ELSE ttail
      /\ free' = free \cup (Members(Sent) \ Members(Chain(next, head)))
      /\ trecvd' = recnum
      /\ UNCHANGED <<next, num, tlast, leaked, wire, open, receiving>>

(* chretran(): unlink the aged buffers S in order, send each; the writes   *)
(* of F fail.                                                              *)
chretran(S, F) ==
  LET aged  == Among(Sent, S)
      young == Among(Sent, Buf \ S)
      succ(b) == LET i == CHOOSE j \in 1 .. Len(young) : young[j] = b
                 IN  IF i < Len(young) THEN young[i + 1] ELSE NOPKT
      left  == [State EXCEPT
                  !.next = [b \in Buf |-> IF b \in S THEN NOPKT
                                          ELSE IF b \in Members(young) THEN succ(b)
                                          ELSE @[b]],
                  !.thead = IF young = <<>> THEN NOPKT ELSE young[1]]
      done[i \in 0 .. Len(aged)] ==
        IF i = 0 THEN left ELSE Xmit(done[i - 1], aged[i], aged[i] \notin F)
  IN  /\ UNCHANGED <<num, tlast, trecvd, wire, open, receiving>>
      /\ Become(done[Len(aged)])

-----------------------------------------------------------------------------
(***************************************************************************)
(* Receiving.                                                              *)
(***************************************************************************)
Store(b, k, n) ==
  /\ open /\ b \in free
  /\ kind' = [kind EXCEPT ![b] = k]
  /\ num' = [num EXCEPT ![b] = n]

InWindow(n) == cmp_le(n, (rread + RwSize) % NumMod)

(* rcvdata(): out of the window, or a duplicate of what is in order.  The  *)
(* buffer is freed, or goes back as an STS.                                *)
Discard(n) ==
  /\ open /\ free # {}
  /\ ~InWindow(n) \/ cmp_le(n, rlast)
  /\ UNCHANGED vars

(* rcvdata(), buffer b put in front of routorder: the buffers from b on    *)
(* that continue rlast move to the end of rhead, one after the other.      *)
Accept(b, n) ==
  /\ InWindow(n) /\ ~cmp_le(n, rlast) /\ n = Succ(rlast)
  /\ Store(b, "data", n)
  /\ LET front  == [next EXCEPT ![b] = routorder]
         move[q \in [next : [Buf -> Buf \cup {NOPKT}], rhead : Buf \cup {NOPKT},
                     rtail : Buf \cup {NOPKT}, rlast : Num, at : Buf \cup {NOPKT}]] ==
           IF q.at # NOPKT /\ num'[q.at] = Succ(q.rlast)
           THEN move[[next  |-> IF q.rhead = NOPKT THEN q.next
                                ELSE [q.next EXCEPT ![q.rtail] = q.at],
                      rhead |-> IF q.rhead = NOPKT THEN q.at ELSE q.rhead,
                      rtail |-> q.at,
                      rlast |-> Succ(q.rlast),
                      at    |-> q.next[q.at]]]
           ELSE q
         end == move[[next |-> front, rhead |-> rhead, rtail |-> rtail,
                      rlast |-> rlast, at |-> b]]
     IN  /\ next' = [end.next EXCEPT ![end.rtail] = NOPKT]
         /\ rhead' = end.rhead /\ rtail' = end.rtail
         /\ rlast' = end.rlast
         /\ routorder' = end.at
         /\ seen' = seen \cup {n}
  /\ free' = free \ {b}
  /\ UNCHANGED <<rread, open, read, sending>>

(* Mutant of Early: the loop passes one buffer at most. *)
EarlyShort(b, n) ==
  LET first == routorder = NOPKT \/ ~cmp_gt(n, num[routorder])
      prev  == routorder
      at    == IF first THEN routorder ELSE next[prev]
  IN  /\ InWindow(n) /\ ~cmp_le(n, rlast) /\ n # Succ(rlast)
      /\ Store(b, "data", n)
      /\ IF at # NOPKT /\ num[at] = n
         THEN UNCHANGED <<next, routorder, free, seen>>
         ELSE /\ next' = IF first THEN [next EXCEPT ![b] = at]
                         ELSE [next EXCEPT ![b] = at, ![prev] = b]
              /\ routorder' = IF first THEN b ELSE routorder
              /\ free' = free \ {b}
              /\ seen' = seen \cup {n}
      /\ UNCHANGED <<rhead, rtail, rlast, rread, open, read, sending>>

(* rcvdata(): the place of buffer b in routorder, behind the buffers with  *)
(* lower numbers; a buffer with the same number makes it a duplicate.      *)
Early(b, n) ==
  LET last[q \in Buf] ==              \* the last buffer of lower number, from q
        IF next[q] # NOPKT /\ cmp_gt(n, num[next[q]]) THEN last[next[q]] ELSE q
      first == routorder = NOPKT \/ ~cmp_gt(n, num[routorder])
      prev  == last[routorder]
      at    == IF first THEN routorder ELSE next[prev]
  IN  /\ InWindow(n) /\ ~cmp_le(n, rlast) /\ n # Succ(rlast)
      /\ Store(b, "data", n)
      /\ IF at # NOPKT /\ num[at] = n
         THEN UNCHANGED <<next, routorder, free, seen>>
         ELSE /\ next' = IF first THEN [next EXCEPT ![b] = at]
                         ELSE [next EXCEPT ![b] = at, ![prev] = b]
              /\ routorder' = IF first THEN b ELSE routorder
              /\ free' = free \ {b}
              /\ seen' = seen \cup {n}
      /\ UNCHANGED <<rhead, rtail, rlast, rread, open, read, sending>>

(* rcvpkt(): uncontrolled data goes to the head of rhead. *)
Uncontrolled(b) ==
  /\ Store(b, "unc", 0)
  /\ next' = [next EXCEPT ![b] = rhead]
  /\ rhead' = b
  /\ rtail' = IF rhead = NOPKT THEN b ELSE rtail
  /\ free' = free \ {b}
  /\ UNCHANGED <<routorder, rlast, rread, open, seen, read, sending>>

(* clsconn(): free thead; the packet that ends the connection is linked    *)
(* behind the last of rhead.                                               *)
End(b) ==
  /\ Store(b, "end", 0)
  /\ open' = FALSE
  /\ next' = IF rhead # NOPKT THEN [next EXCEPT ![b] = NOPKT, ![rtail] = b]
             ELSE [next EXCEPT ![b] = NOPKT]
  /\ rhead' = IF rhead # NOPKT THEN rhead ELSE b
  /\ rtail' = b
  /\ free' = (free \cup Members(Sent)) \ {b}
  /\ thead' = NOPKT /\ ttail' = NOPKT
  /\ UNCHANGED <<routorder, rlast, rread, seen, read, tlast, trecvd, leaked, wire>>

(* Mutant of Read: cn_rtail still points at the buffer freed. *)
ReadTail ==
  /\ rhead # NOPKT
  /\ rhead' = next[rhead]
  /\ IF kind[rhead] = "data"
     THEN rread' = num[rhead] /\ read' = Append(read, num[rhead])
     ELSE UNCHANGED <<rread, read>>
  /\ free' = free \cup {rhead}
  /\ UNCHANGED <<next, num, kind, rtail, routorder, rlast, open, seen, sending>>

(* ch_read(): unlink the head of rhead; a numbered packet counts as read. *)
Read ==
  /\ rhead # NOPKT
  /\ rhead' = next[rhead]
  /\ rtail' = IF rtail = rhead THEN NOPKT ELSE rtail
  /\ IF kind[rhead] = "data"
     THEN rread' = num[rhead] /\ read' = Append(read, num[rhead])
     ELSE UNCHANGED <<rread, read>>
  /\ free' = free \cup {rhead}
  /\ UNCHANGED <<next, num, kind, routorder, rlast, open, seen, sending>>

-----------------------------------------------------------------------------
Init ==
  /\ next = [b \in Buf |-> NOPKT]
  /\ num = [b \in Buf |-> Start] /\ kind = [b \in Buf |-> "data"]
  /\ free = Buf /\ leaked = {}
  /\ open = TRUE
  /\ thead = NOPKT /\ ttail = NOPKT /\ tlast = Start /\ trecvd = Start
  /\ rhead = NOPKT /\ rtail = NOPKT /\ routorder = NOPKT
  /\ rlast = Start /\ rread = Start
  /\ wire = {} /\ seen = {} /\ read = <<>>

Next ==
  \/ \E b \in Buf, ok \in BOOLEAN : Write(b, ok)
  \/ \E n \in Receivable : receipt(n)
  \/ \E S \in (SUBSET Members(Sent)) \ {{}} : \E F \in SUBSET S : chretran(S, F)
  \/ \E n \in Incoming : Discard(n) \/ \E b \in Buf : Accept(b, n) \/ Early(b, n)
  \/ \E b \in Buf : Uncontrolled(b) \/ End(b)
  \/ Read

Spec == Init /\ [][Next]_vars

-----------------------------------------------------------------------------
(* Every variable keeps its type: next and the heads are buffers or null,  *)
(* and the numbers stay 16 bits wide when they wrap.                       *)
TypeOK ==
  /\ next \in [Buf -> Buf \cup {NOPKT}] /\ num \in [Buf -> Num]
  /\ kind \in [Buf -> {"data", "unc", "end"}]
  /\ {thead, ttail, rhead, rtail, routorder} \subseteq Buf \cup {NOPKT}
  /\ {tlast, trecvd, rlast, rread} \subseteq Num
  /\ open \in BOOLEAN
  /\ free \subseteq Buf /\ leaked \subseteq Buf
  /\ wire \subseteq Num /\ seen \subseteq Num
  /\ read \in Seq(Num)

(* Every buffer is free, on one of the three chains or leaked, and only    *)
(* one of these, and every chain ends: none is freed twice, linked after   *)
(* it was freed, or linked into two chains by the loops of xmitdone,       *)
(* receipt, chretran, rcvdata and clsconn.                                 *)
BuffersOwnedOnce ==
  LET owners == <<free, leaked, Members(Sent), Members(InOrder), Members(OutOrder)>>
  IN  /\ UNION {owners[i] : i \in 1 .. 5} = Buf
      /\ \A i, j \in 1 .. 5 : i # j => owners[i] \cap owners[j] = {}
      /\ EndsIn(next, thead) /\ EndsIn(next, rhead) /\ EndsIn(next, routorder)

(* cn_rtail is the last buffer of rhead: the next packet that comes in     *)
(* order, or a CLS, is linked where the reader will find it, never onto a  *)
(* buffer already freed.                                                   *)
TailReachable ==
  rtail = IF InOrder = <<>> THEN NOPKT ELSE InOrder[Len(InOrder)]

(* thead is the set of packets written, not receipted and not leaked: what *)
(* ChaosConn keeps in thead.  It ascends, across the wrap of the number    *)
(* circle too, so that receipt() may stop at the first packet above the    *)
(* receipt.                                                                *)
Unreceipted ==
  open => /\ Ascending(num, Sent)
          /\ {num[b] : b \in Members(Sent)} =
               {n \in Written : cmp_gt(n, trecvd)} \ {num[b] : b \in leaked}

(* Every number stored is read already, or on rhead in its place, or on    *)
(* routorder: the sequence rhead and the set routorder of ChaosConn.       *)
(* routorder ascends and starts beyond a gap: rcvdata finds what a new     *)
(* packet makes in order by looking at its front only.                     *)
Stored ==
  LET data  == Among(InOrder, {b \in Buf : kind[b] = "data"})
      taken == (rlast - Start) % NumMod
  IN  /\ read \o [i \in 1 .. Len(data) |-> num[data[i]]] =
           [i \in 1 .. taken |-> (Start + i) % NumMod]
      /\ seen = {(Start + i) % NumMod : i \in 1 .. taken}
                  \cup {num[b] : b \in Members(OutOrder)}
      /\ rread = (Start + Len(read)) % NumMod
      /\ Ascending(num, OutOrder)
      /\ \A b \in Members(OutOrder) : cmp_gt(num[b], Succ(rlast))
=============================================================================
