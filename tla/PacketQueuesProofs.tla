------------------------- MODULE PacketQueuesProofs -------------------------
(***************************************************************************)
(* Memory safety and order of the packet queues, for any number of         *)
(* buffers, any window and wherever on the number circle a connection      *)
(* starts: every loop over a chain ends, no buffer is lost, shared or      *)
(* freed twice, thead and routorder ascend, and what the user reads is the *)
(* peer's numbers in order.                                                *)
(***************************************************************************)
EXTENDS PacketQueues, PacketListProofs

(***************************************************************************)
(* The inductive invariant.  W(i) is the i-th number after Start, Pos(n)   *)
(* the place of n in that order.                                           *)
(***************************************************************************)
W(i)   == (Start + i) % NumMod
Pos(n) == (n - Start) % NumMod

Rising(n, s) ==
  \A i, j \in 1 .. Len(s) : i < j => Pos(n[s[i]]) < Pos(n[s[j]])

(* The three chains end, and they are what the code takes them for. *)
Chains ==
  /\ Linked(next, thead, Sent)
  /\ Linked(next, rhead, InOrder)
  /\ Linked(next, routorder, OutOrder)

Owned(f, l, A, B, C) ==
  /\ f \cup l \cup A \cup B \cup C = Buf
  /\ f \cap l = {} /\ f \cap A = {} /\ f \cap B = {} /\ f \cap C = {}
  /\ l \cap A = {} /\ l \cap B = {} /\ l \cap C = {}
  /\ A \cap B = {} /\ A \cap C = {} /\ B \cap C = {}

Partition ==
  Owned(free, leaked, Members(Sent), Members(InOrder), Members(OutOrder))

(* thead holds, in order, what was written after trecvd and is not leaked. *)
Queued(s, n, a, z) ==
  Rising(n, s) /\ \A b \in Members(s) : a < Pos(n[b]) /\ Pos(n[b]) <= z

Sending ==
  /\ Pos(trecvd) <= Pos(tlast) /\ Pos(tlast) <= MaxSent
  /\ \A n \in wire : 1 <= Pos(n) /\ Pos(n) <= Pos(tlast)
  /\ \A b \in leaked : 1 <= Pos(num[b]) /\ Pos(num[b]) <= Pos(tlast)
  /\ ~open => Sent = <<>>
  /\ Queued(Sent, num, Pos(trecvd), Pos(tlast))
  /\ \A b \in Members(Sent), c \in leaked : num[b] # num[c]
  /\ open => \A i \in Pos(trecvd) + 1 .. Pos(tlast) :
               \E b \in Members(Sent) \cup leaked : num[b] = W(i)

(* c counts the numbered packets up to each buffer of rhead. *)
Counts(c, s, k, n) ==
  \A i \in 1 .. Len(s) :
    IF k[s[i]] = "data" THEN c[i] = c[i - 1] + 1 /\ n[s[i]] = W(c[i])
    ELSE c[i] = c[i - 1]

Counted(s, k, n, first, last) ==
  \E c \in [0 .. Len(s) -> Nat] :
    c[0] = first /\ c[Len(s)] = last /\ Counts(c, s, k, n)

Ahead(s, k, n, last) ==
  /\ Rising(n, s)
  /\ \A b \in Members(s) :
       last + 1 < Pos(n[b]) /\ Pos(n[b]) <= MaxRcvd /\ k[b] = "data"

Receiving ==
  /\ Pos(rlast) <= MaxRcvd /\ Pos(rread) = Len(read)
  /\ \A i \in 1 .. Len(read) : read[i] = W(i)
  /\ Counted(InOrder, kind, num, Len(read), Pos(rlast))
  /\ Ahead(OutOrder, kind, num, Pos(rlast))
  /\ seen = {W(i) : i \in 1 .. Pos(rlast)} \cup {num[b] : b \in Members(OutOrder)}
  /\ rtail = At(InOrder, Len(InOrder))

QInv == TypeOK /\ Chains /\ Partition /\ Sending /\ Receiving

-----------------------------------------------------------------------------
(***************************************************************************)
(* The number circle.                                                      *)
(***************************************************************************)
(* The naturals below m, for a solver that must not see what m is. *)
LEMMA InRange == ASSUME NEW m \in Nat, NEW x \in Nat, x < m PROVE x \in 0 .. m - 1
OBVIOUS

(* The constants, and what arithmetic on 16 bits stays within. *)
LEMMA Numbers ==
  /\ NumMod \in Nat /\ NumHalf \in Nat /\ 0 < NumHalf /\ NumHalf + NumHalf = NumMod
  /\ \A n \in Num : n \in Nat /\ n < NumMod
  /\ \A n \in Nat : n < NumMod => n \in Num
  /\ \A n \in Int : n % NumMod \in Num
  /\ Start \in Num /\ RwSize \in Nat /\ RwSize > 0
  /\ MaxSent \in Nat /\ MaxSent < NumHalf
  /\ MaxRcvd \in Nat /\ MaxRcvd + RwSize < NumHalf
<1>1. NumMod \in Nat /\ NumHalf \in Nat /\ 0 < NumHalf /\ NumHalf + NumHalf = NumMod
  BY DEF NumMod, NumHalf
<1>2. \A n \in Num : n \in Nat /\ n < NumMod
  BY <1>1 DEF Num
<1>3. ASSUME NEW n \in Nat, n < NumMod PROVE n \in Num
  BY <1>1, <1>3, InRange DEF Num
<1>4. ASSUME NEW n \in Int PROVE n % NumMod \in Num
  <2>1. n % NumMod \in Nat /\ n % NumMod < NumMod
    BY DEF NumMod
  <2> QED BY <2>1, <1>3
<1>5. /\ Start \in Num /\ RwSize \in Nat /\ RwSize > 0
      /\ MaxSent \in Nat /\ MaxSent < NumHalf
      /\ MaxRcvd \in Nat /\ MaxRcvd + RwSize < NumHalf
  <2>1. Start \in Num /\ RwSize \in Nat \ {0}
        /\ MaxSent \in Nat /\ MaxSent < NumHalf
        /\ MaxRcvd \in Nat /\ MaxRcvd + RwSize < NumHalf
    BY QueuesAssumption, Zenon
  <2> HIDE DEF NumHalf
  <2> QED BY <2>1
<1> QED BY <1>1, <1>2, <1>3, <1>4, <1>5

(* W and Pos are inverse to each other. *)
LEMMA Places ==
  /\ \A i \in Nat : i < NumMod => W(i) \in Num /\ Pos(W(i)) = i
  /\ \A n \in Num : Pos(n) \in Nat /\ Pos(n) < NumMod /\ W(Pos(n)) = n
  /\ Pos(Start) = 0
<1>1. Start \in Nat /\ Start < NumMod
  BY Numbers
<1>2. ASSUME NEW i \in Nat, i < NumMod PROVE W(i) \in Num /\ Pos(W(i)) = i
  <2>1. W(i) \in Num
    BY <1>1, Numbers DEF W
  <2>2. (((Start + i) % NumMod) - Start) % NumMod = i
    BY <1>1, <1>2 DEF NumMod
  <2> QED BY <2>1, <2>2 DEF W, Pos
<1>3. ASSUME NEW n \in Num PROVE Pos(n) \in Nat /\ Pos(n) < NumMod /\ W(Pos(n)) = n
  <2>1. n \in Nat /\ n < NumMod
    BY Numbers
  <2>2. (n - Start) % NumMod \in Nat /\ (n - Start) % NumMod < NumMod
    BY <1>1, <2>1 DEF NumMod
  <2>3. (Start + ((n - Start) % NumMod)) % NumMod = n
    BY <1>1, <2>1 DEF NumMod
  <2> QED BY <2>2, <2>3, Zenon DEF W, Pos
<1>4. (Start - Start) % NumMod = 0
  BY <1>1 DEF NumMod
<1> QED BY <1>2, <1>3, <1>4 DEF Pos

(* Within half a turn of Start the comparisons of ncp.h are the order of   *)
(* places.                                                                 *)
LEMMA Compare ==
  ASSUME NEW a \in Num, NEW b \in Num, Pos(a) < NumHalf, Pos(b) < NumHalf
  PROVE  /\ cmp_gt(a, b) <=> Pos(a) > Pos(b)
         /\ cmp_lt(a, b) <=> Pos(a) < Pos(b)
         /\ cmp_le(a, b) <=> Pos(a) <= Pos(b)
<1>1. Pos(a) \in Nat /\ Pos(b) \in Nat
  BY Places
<1>2. Start \in Nat /\ a \in Nat /\ b \in Nat /\ Start < NumMod /\ a < NumMod /\ b < NumMod
  BY Numbers
<1>3. (b - a) % NumMod = (Pos(b) - Pos(a)) % NumMod
  BY <1>2 DEF Pos, NumMod
<1>4. (a - b) % NumMod = (Pos(a) - Pos(b)) % NumMod
  BY <1>2 DEF Pos, NumMod
<1>5. \A x, y \in Nat : x < NumHalf /\ y < NumHalf => ((y - x) % NumMod >= NumHalf <=> x > y)
  BY DEF NumMod, NumHalf
<1>6. cmp_gt(a, b) <=> Pos(a) > Pos(b)
  BY <1>1, <1>3, <1>5 DEF cmp_gt
<1>7. cmp_gt(b, a) <=> Pos(b) > Pos(a)
  BY <1>1, <1>4, <1>5 DEF cmp_gt
<1>8. (~(Pos(a) > Pos(b)) <=> Pos(a) <= Pos(b)) /\ (Pos(b) > Pos(a) <=> Pos(a) < Pos(b))
  BY <1>1
<1> QED BY <1>6, <1>7, <1>8, Zenon DEF cmp_lt, cmp_le

(* A number k further on is k places further on. *)
LEMMA Turn ==
  ASSUME NEW n \in Num, NEW k \in Nat, Pos(n) + k < NumMod
  PROVE  (n + k) % NumMod \in Num /\ Pos((n + k) % NumMod) = Pos(n) + k
<1>1. Start \in Nat /\ Start < NumMod /\ n \in Nat /\ n < NumMod
  BY Numbers
<1>2. (((n + k) % NumMod) - Start) % NumMod = ((n - Start) % NumMod) + k
  BY <1>1 DEF Pos, NumMod
<1> QED BY <1>1, <1>2, Numbers DEF Pos

(* The next number is one place further on. *)
LEMMA SuccPlace ==
  ASSUME NEW n \in Num, Pos(n) < NumHalf
  PROVE  Succ(n) \in Num /\ Pos(Succ(n)) = Pos(n) + 1 /\ Succ(n) = W(Pos(n) + 1)
<1>1. Pos(n) \in Nat /\ Pos(n) + 1 < NumMod
  BY Places, Numbers
<1>2. Succ(n) \in Num /\ Pos(Succ(n)) = Pos(n) + 1
  BY <1>1, Turn DEF Succ
<1> QED BY <1>2, Places

(* Different numbers have different places. *)
LEMMA SamePlace ==
  ASSUME NEW a \in Num, NEW b \in Num
  PROVE  a = b <=> Pos(a) = Pos(b)
BY Places

-----------------------------------------------------------------------------
(***************************************************************************)
(* Sending.                                                                *)
(***************************************************************************)
QState == [next : [Buf -> Ptr], thead : Ptr, ttail : Ptr,
           free : SUBSET Buf, leaked : SUBSET Buf]

(* res is q with b linked into its chain s, whose numbers rise. *)
LinksUp(res, q, s, b, n) ==
  /\ res \in QState /\ res.free = q.free /\ res.leaked = q.leaked
  /\ \A c \in Buf : c \notin Members(s) /\ c # b => res.next[c] = q.next[c]
  /\ \E t : /\ Linked(res.next, res.thead, t) /\ Rising(n, t)
            /\ Members(t) = Members(s) \cup {b}

(* A sequence keeps rising when a buffer goes where its number belongs.    *)
LEMMA InsertRises ==
  ASSUME NEW s \in Seq(Buf), NEW n \in [Buf -> Num], Rising(n, s),
         NEW b \in Buf, NEW k \in 0 .. Len(s),
         \A i \in 1 .. k : Pos(n[s[i]]) < Pos(n[b]),
         k < Len(s) => Pos(n[b]) < Pos(n[s[k + 1]])
  PROVE  Rising(n, Insert(s, k, b))
<1> DEFINE t == Insert(s, k, b)
<1>1. Len(s) \in Nat /\ \A i \in 1 .. Len(s) : s[i] \in Buf
  BY ElementOfSeq
<1>2. /\ Len(t) = Len(s) + 1
      /\ \A i \in 1 .. k : t[i] = s[i]
      /\ t[k + 1] = b
      /\ \A i \in k + 2 .. Len(s) + 1 : t[i] = s[i - 1]
  BY InsertShape
<1> HIDE DEF t
<1>3. ASSUME NEW j \in k + 1 .. Len(s) PROVE Pos(n[b]) < Pos(n[s[j]])
  <2>1. k + 1 \in 1 .. Len(s) /\ j \in 1 .. Len(s) /\ k < Len(s)
    BY <1>1
  <2>2. j # k + 1 => Pos(n[s[k + 1]]) < Pos(n[s[j]])
    <3>1. j # k + 1 => k + 1 < j
      BY <1>1
    <3>2. \A i, m \in 1 .. Len(s) : i < m => Pos(n[s[i]]) < Pos(n[s[m]])
      BY DEF Rising
    <3> QED BY <2>1, <3>1, <3>2
  <2>3. Pos(n[b]) \in Nat /\ Pos(n[s[j]]) \in Nat /\ Pos(n[s[k + 1]]) \in Nat
    BY <1>1, <2>1, Places
  <2>4. Pos(n[b]) < Pos(n[s[k + 1]])
    BY <2>1
  <2> QED BY <2>2, <2>3, <2>4
<1> SUFFICES ASSUME NEW i \in 1 .. Len(t), NEW j \in 1 .. Len(t), i < j
             PROVE  Pos(n[t[i]]) < Pos(n[t[j]])
  BY DEF Rising, t
<1>4. CASE j <= k
  <2>1. i \in 1 .. k /\ j \in 1 .. k /\ i \in 1 .. Len(s) /\ j \in 1 .. Len(s)
    BY <1>1, <1>4
  <2> QED BY <1>2, <2>1 DEF Rising
<1>5. CASE j = k + 1
  <2>1. i \in 1 .. k
    BY <1>5
  <2> QED BY <1>2, <1>5, <2>1
<1>6. CASE j > k + 1
  <2>1. j \in k + 2 .. Len(s) + 1 /\ j - 1 \in k + 1 .. Len(s) /\ j - 1 \in 1 .. Len(s)
    BY <1>1, <1>2, <1>6
  <2>2. t[j] = s[j - 1]
    BY <1>2, <2>1
  <2>3. CASE i <= k
    <3>1. i \in 1 .. Len(s) /\ t[i] = s[i] /\ i < j - 1
      BY <1>1, <1>2, <2>1, <2>3
    <3> QED BY <2>1, <2>2, <3>1 DEF Rising
  <2>4. CASE i = k + 1
    BY <1>2, <1>3, <2>1, <2>2, <2>4
  <2>5. CASE i > k + 1
    <3>1. i \in k + 2 .. Len(s) + 1 /\ i - 1 \in 1 .. Len(s) /\ i - 1 < j - 1
      BY <1>1, <1>2, <2>5
    <3>2. t[i] = s[i - 1]
      BY <1>2, <3>1
    <3> QED BY <2>1, <2>2, <3>1, <3>2 DEF Rising
  <2> QED BY <2>3, <2>4, <2>5
<1> QED BY <1>2, <1>4, <1>5, <1>6

(* xmitdone() finds the place where the numbers keep rising. *)
LEMMA LinkRises ==
  ASSUME NEW q \in QState, NEW s, Linked(q.next, q.thead, s),
         NEW b \in Buf, b \notin Members(s), NEW n \in [Buf -> Num], Rising(n, s),
         NEW k \in 0 .. Len(s), NEW prev,
         prev = IF k = 0 THEN NOPKT ELSE s[k],
         \A i \in 1 .. k : Pos(n[s[i]]) < Pos(n[b]),
         k < Len(s) => Pos(n[b]) < Pos(n[s[k + 1]])
  PROVE  LinksUp(Link(q, b, prev), q, s, b, n)
<1> DEFINE res == Link(q, b, prev)
           after == IF prev = NOPKT THEN q.thead ELSE q.next[prev]
           linked == [q.next EXCEPT ![b] = after]
           new == IF prev = NOPKT THEN linked ELSE [linked EXCEPT ![prev] = b]
           t == Insert(s, k, b)
<1>1. /\ s \in Seq(Buf) /\ Different(s) /\ q.thead = At(s, 1)
      /\ \A i \in 1 .. Len(s) : q.next[s[i]] = At(s, i + 1)
  BY DEF Linked
<1>2. q.next \in [Buf -> Ptr] /\ q.thead \in Ptr /\ q.ttail \in Ptr
      /\ q.free \in SUBSET Buf /\ q.leaked \in SUBSET Buf
  BY DEF QState
<1>3. Len(s) \in Nat /\ \A i \in 1 .. Len(s) : s[i] \in Buf /\ s[i] # NOPKT /\ s[i] # b
  BY <1>1, AtType DEF Members
<1>4. k > 0 => prev = s[k] /\ prev \in Buf /\ prev # NOPKT /\ prev # b /\ k \in 1 .. Len(s)
  BY <1>3
<1>5. prev = NOPKT <=> k = 0
  BY <1>3
<1>6. after = At(s, k + 1) /\ after \in Ptr
  <2>1. CASE k = 0
    BY <1>1, <1>2, <1>5, <2>1
  <2>2. CASE k # 0
    <3>1. k \in 1 .. Len(s) /\ prev = s[k] /\ prev # NOPKT
      BY <1>4, <2>2
    <3> QED BY <1>1, <3>1, AtType
  <2> QED BY <2>1, <2>2
<1> HIDE DEF after
<1>7. /\ new \in [Buf -> Ptr] /\ new[b] = after /\ (k > 0 => new[s[k]] = b)
      /\ \A c \in Buf : c # b /\ c # prev => new[c] = q.next[c]
  <2>1. CASE k = 0
    <3>1. new = linked
      BY <1>5, <2>1
    <3>2. linked \in [Buf -> Ptr] /\ linked[b] = after /\ \A c \in Buf : c # b => linked[c] = q.next[c]
      BY <1>2, <1>6
    <3> HIDE DEF new, linked
    <3> QED BY <2>1, <3>1, <3>2
  <2>2. CASE k # 0
    <3>1. new = [linked EXCEPT ![prev] = b] /\ prev = s[k] /\ prev \in Buf /\ prev # b
      BY <1>4, <1>5, <2>2
    <3>2. linked \in [Buf -> Ptr] /\ linked[b] = after /\ \A c \in Buf : c # b => linked[c] = q.next[c]
      BY <1>2, <1>6
    <3>3. b \in Ptr
      BY DEF Ptr
    <3> HIDE DEF new, linked
    <3> QED BY <3>1, <3>2, <3>3
  <2> QED BY <2>1, <2>2
<1>8. /\ res = [q EXCEPT !.next = new, !.thead = IF prev = NOPKT THEN b ELSE @,
                         !.ttail = IF after = NOPKT THEN b ELSE @]
  BY DEF Link, after
<1> HIDE DEF new, res
<1>9. /\ res.next = new /\ res.thead = (IF k = 0 THEN b ELSE q.thead)
      /\ res.free = q.free /\ res.leaked = q.leaked /\ res \in QState
  <2>1. b \in Ptr
    BY DEF Ptr
  <2> QED BY <1>2, <1>5, <1>7, <1>8, <2>1 DEF QState
<1>10. \A i \in 1 .. Len(s) : i # k => new[s[i]] = q.next[s[i]]
  <2> SUFFICES ASSUME NEW i \in 1 .. Len(s), i # k PROVE new[s[i]] = q.next[s[i]]
    OBVIOUS
  <2>1. s[i] # prev
    <3>1. CASE k = 0
      BY <1>3, <1>5, <3>1
    <3>2. CASE k # 0
      BY <1>1, <1>4, <3>2 DEF Different
    <3> QED BY <3>1, <3>2
  <2> QED BY <1>3, <1>7, <2>1
<1>11. Linked(new, IF k = 0 THEN b ELSE q.thead, t) /\ Members(t) = Members(s) \cup {b}
  <2>1. new[b] = At(s, k + 1) /\ new \in [Buf -> Ptr] /\ (k > 0 => new[s[k]] = b)
    BY <1>6, <1>7
  <2> HIDE DEF t
  <2> QED BY <1>2, <1>10, <2>1, LinkIn DEF t
<1>12. Rising(n, t)
  <2>1. s \in Seq(Buf)
    BY <1>1
  <2> QED BY <2>1, InsertRises
<1>13. \A c \in Buf : c \notin Members(s) /\ c # b => new[c] = q.next[c]
  <2>1. k > 0 => prev \in Members(s)
    BY <1>4 DEF Members
  <2>2. \A c \in Buf : c # NOPKT
    BY ListAssumption
  <2> QED BY <1>5, <1>7, <2>1, <2>2
<1> QED BY <1>9, <1>11, <1>12, <1>13 DEF LinksUp, res

(* The loop of xmitdone() goes down thead to the last buffer of a lower    *)
(* number; xmitdone() then keeps thead rising.                             *)
LEMMA XmitDone ==
  ASSUME open, trecvd \in Num, num' \in [Buf -> Num],
         NEW q \in QState, NEW s, Linked(q.next, q.thead, s),
         NEW b \in Buf, b \notin Members(s), Rising(num', s),
         \A c \in Members(s) : Pos(num'[c]) < NumHalf /\ Pos(num'[c]) # Pos(num'[b]),
         Pos(trecvd) < Pos(num'[b]), Pos(num'[b]) < NumHalf
  PROVE  LinksUp(xmitdone(q, b), q, s, b, num')
<1> DEFINE last(n) == q.next[n] = NOPKT \/ cmp_lt(num'[b], num'[q.next[n]])
           T == {n \in Buf : last(n)}
           v == [n \in Buf |-> n]
           stop[n \in Buf] ==
             IF q.next[n] = NOPKT \/ cmp_lt(num'[b], num'[q.next[n]]) THEN n
             ELSE stop[q.next[n]]
<1>1. /\ s \in Seq(Buf) /\ Different(s) /\ q.thead = At(s, 1)
      /\ \A i \in 1 .. Len(s) : q.next[s[i]] = At(s, i + 1)
  BY DEF Linked
<1>2. q.next \in [Buf -> Ptr]
  BY DEF QState
<1>3. Len(s) \in Nat /\ \A i \in 1 .. Len(s) : s[i] \in Buf /\ s[i] # NOPKT /\ s[i] \in Members(s)
  BY <1>1, AtType DEF Members
<1>4. \A i \in 1 .. Len(s) :
        cmp_lt(num'[b], num'[s[i]]) <=> Pos(num'[b]) < Pos(num'[s[i]])
  <2> SUFFICES ASSUME NEW i \in 1 .. Len(s)
               PROVE  cmp_lt(num'[b], num'[s[i]]) <=> Pos(num'[b]) < Pos(num'[s[i]])
    OBVIOUS
  <2>1. num'[b] \in Num /\ num'[s[i]] \in Num /\ Pos(num'[s[i]]) < NumHalf
    BY <1>3
  <2> QED BY <2>1, Compare
<1>5. stop = [n \in Buf |-> IF q.next[n] = NOPKT \/ cmp_lt(num'[b], num'[q.next[n]]) THEN n
                            ELSE stop[q.next[n]]]
  <2>1. \A n \in Buf : n \notin T => q.next[n] \in Buf
    <3>1. \A n \in Buf : n \notin T => q.next[n] # NOPKT
      OBVIOUS
    <3> HIDE DEF T, stop, v
    <3> QED BY <1>2, <3>1 DEF Ptr
  <2>2. Returns(Buf, T, v, q.next)
    <3> HIDE DEF T, v, stop
    <3> QED BY <2>1, LoopReturns
  <2>3. PICK f : f = [n \in Buf |-> IF n \in T THEN v[n] ELSE f[q.next[n]]]
    <3> HIDE DEF T, v, stop
    <3> QED BY <2>2 DEF Returns
  <2>4. f = [n \in Buf |-> IF q.next[n] = NOPKT \/ cmp_lt(num'[b], num'[q.next[n]]) THEN n
                           ELSE f[q.next[n]]]
    <3>1. ASSUME NEW n \in Buf
          PROVE  (IF n \in T THEN v[n] ELSE f[q.next[n]])
                   = IF q.next[n] = NOPKT \/ cmp_lt(num'[b], num'[q.next[n]]) THEN n
                     ELSE f[q.next[n]]
      <4>1. v[n] = n /\ (n \in T <=> last(n))
        OBVIOUS
      <4> HIDE DEF T, v, stop
      <4> QED BY <4>1
    <3> HIDE DEF T, v, stop
    <3> QED BY <2>3, <3>1
  <2> QED BY <2>4, Zenon DEF stop
<1>6. xmitdone(q, b) = IF ~open \/ ~cmp_gt(num'[b], trecvd) THEN [q EXCEPT !.free = @ \cup {b}]
                       ELSE IF q.thead = NOPKT \/ cmp_lt(num'[b], num'[q.thead])
                            THEN Link(q, b, NOPKT) ELSE Link(q, b, stop[q.thead])
  BY DEF xmitdone, stop
<1>7. cmp_gt(num'[b], trecvd)
  <2>1. num'[b] \in Num /\ Pos(trecvd) \in Nat /\ Pos(num'[b]) \in Nat
    BY Places
  <2>2. Pos(trecvd) < NumHalf /\ Pos(num'[b]) > Pos(trecvd)
    BY <2>1, Numbers
  <2> QED BY <2>1, <2>2, Compare
<1> HIDE DEF stop
<1>8. CASE q.thead = NOPKT \/ cmp_lt(num'[b], num'[q.thead])
  <2>1. xmitdone(q, b) = Link(q, b, NOPKT)
    BY <1>6, <1>7, <1>8
  <2>2. 0 < Len(s) => Pos(num'[b]) < Pos(num'[s[0 + 1]])
    <3> SUFFICES ASSUME 0 < Len(s) PROVE Pos(num'[b]) < Pos(num'[s[1]])
      OBVIOUS
    <3>1. 1 \in 1 .. Len(s)
      BY <1>3
    <3>2. q.thead = s[1] /\ q.thead # NOPKT
      BY <1>1, <1>3, <3>1 DEF At
    <3> QED BY <1>4, <1>8, <3>1, <3>2
  <2>3. LinksUp(Link(q, b, NOPKT), q, s, b, num')
    <3>1. 0 \in 0 .. Len(s) /\ \A i \in 1 .. 0 : Pos(num'[s[i]]) < Pos(num'[b])
      BY <1>3
    <3> HIDE DEF T, v
    <3> QED BY <2>2, <3>1, LinkRises
  <2> QED BY <2>1, <2>3
<1>9. CASE ~(q.thead = NOPKT \/ cmp_lt(num'[b], num'[q.thead]))
  <2>1. xmitdone(q, b) = Link(q, b, stop[q.thead])
    BY <1>6, <1>7, <1>9
  <2>2. 1 \in 1 .. Len(s) /\ q.thead = s[1]
    BY <1>1, <1>3, <1>9, AtType DEF At
  <2> DEFINE B == {i \in 1 .. Len(s) : last(s[i])}
  <2>3. Len(s) \in B
    <3>1. Len(s) \in 1 .. Len(s) /\ At(s, Len(s) + 1) = NOPKT
      BY <1>3, <2>2 DEF At
    <3> QED BY <1>1, <3>1
  <2>4. PICK k \in B : \A j \in B : k <= j
    <3>1. B \in SUBSET Nat /\ B # {}
      BY <1>3, <2>3
    <3> HIDE DEF B
    <3> QED BY <3>1, Least
  <2>5. k \in 1 .. Len(s) /\ last(s[k])
    OBVIOUS
  <2>6. \A i \in 1 .. k - 1 : i \in 1 .. Len(s) /\ i + 1 \in 1 .. Len(s) /\ ~last(s[i])
                              /\ q.next[s[i]] = s[i + 1]
    <3> SUFFICES ASSUME NEW i \in 1 .. k - 1
                 PROVE  i \in 1 .. Len(s) /\ i + 1 \in 1 .. Len(s) /\ ~last(s[i])
                        /\ q.next[s[i]] = s[i + 1]
      OBVIOUS
    <3>1. i \in 1 .. Len(s) /\ i + 1 \in 1 .. Len(s) /\ ~(k <= i)
      BY <1>3, <2>5
    <3>2. i \notin B
      BY <2>4, <3>1
    <3>3. q.next[s[i]] = s[i + 1]
      BY <1>1, <3>1 DEF At
    <3> QED BY <3>1, <3>2, <3>3
  <2> HIDE DEF B
  <2>7. stop[s[1]] = stop[s[k]]
    <3> DEFINE r == [i \in 0 .. k - 1 |-> stop[s[i + 1]]]
               m == k - 1
    <3>1. m \in Nat /\ m = k - 1
      BY <1>3, <2>5
    <3>2. ASSUME NEW i \in 0 .. m - 1 PROVE r[i] = r[i + 1]
      <4>1. i \in 0 .. k - 1 /\ i + 1 \in 0 .. k - 1 /\ i + 1 \in 1 .. k - 1
        BY <3>1
      <4>2. s[i + 1] \in Buf /\ ~last(s[i + 1]) /\ q.next[s[i + 1]] = s[(i + 1) + 1]
        BY <1>3, <2>6, <4>1
      <4>3. stop[s[i + 1]] = stop[s[(i + 1) + 1]]
        BY <1>5, <4>2
      <4> QED BY <4>1, <4>3
    <3>3. r[0] = stop[s[1]] /\ r[m] = stop[s[k]]
      <4>1. m \in 0 .. k - 1 /\ m + 1 = k /\ 0 \in 0 .. k - 1
        BY <1>3, <2>5
      <4>2. r[0] = stop[s[0 + 1]] /\ r[m] = stop[s[m + 1]]
        <5> HIDE DEF m
        <5> QED BY <4>1
      <4> QED BY <4>1, <4>2
    <3> HIDE DEF r, m
    <3>4. r[0] = r[m]
      BY <3>1, <3>2, LoopValue
    <3> QED BY <3>3, <3>4
  <2>8. stop[s[k]] = s[k]
    BY <1>3, <1>5, <2>5
  <2>9. ASSUME NEW i \in 1 .. k PROVE Pos(num'[s[i]]) < Pos(num'[b])
    <3>1. i \in 1 .. Len(s)
      BY <1>3, <2>5
    <3>2. ~cmp_lt(num'[b], num'[s[i]])
      <4>1. CASE i = 1
        BY <1>9, <2>2, <4>1
      <4>2. CASE i # 1
        <5>1. i - 1 \in 1 .. k - 1 /\ (i - 1) + 1 = i
          <6>1. k \in Nat
            BY <1>3, <2>5
          <6> QED BY <4>2, <6>1
        <5> QED BY <2>6, <5>1
      <4> QED BY <4>1, <4>2
    <3>3. Pos(num'[s[i]]) \in Nat /\ Pos(num'[b]) \in Nat /\ Pos(num'[s[i]]) # Pos(num'[b])
      BY <1>3, <3>1, Places
    <3>4. ~(Pos(num'[b]) < Pos(num'[s[i]]))
      BY <1>4, <3>1, <3>2
    <3> QED BY <3>3, <3>4
  <2>10. k < Len(s) => Pos(num'[b]) < Pos(num'[s[k + 1]])
    <3> SUFFICES ASSUME k < Len(s) PROVE Pos(num'[b]) < Pos(num'[s[k + 1]])
      OBVIOUS
    <3>1. k + 1 \in 1 .. Len(s)
      BY <1>3, <2>5
    <3>2. q.next[s[k]] = s[k + 1] /\ s[k + 1] # NOPKT
      BY <1>1, <1>3, <2>5, <3>1 DEF At
    <3> QED BY <1>4, <2>5, <3>1, <3>2
  <2>11. LinksUp(Link(q, b, s[k]), q, s, b, num')
    <3>1. k \in 0 .. Len(s) /\ s[k] = IF k = 0 THEN NOPKT ELSE s[k]
      BY <1>3, <2>5
    <3> HIDE DEF T, v
    <3> QED BY <2>9, <2>10, <3>1, LinkRises
  <2> QED BY <2>1, <2>2, <2>7, <2>8, <2>11
<1> QED BY <1>8, <1>9

-----------------------------------------------------------------------------
(***************************************************************************)
(* What a step leaves alone.                                               *)
(***************************************************************************)
(* The types, for use. *)
LEMMA Types ==
  ASSUME QInv
  PROVE  /\ next \in [Buf -> Ptr] /\ num \in [Buf -> Num]
         /\ thead \in Ptr /\ ttail \in Ptr /\ rhead \in Ptr /\ rtail \in Ptr /\ routorder \in Ptr
         /\ tlast \in Num /\ trecvd \in Num /\ rlast \in Num /\ rread \in Num
         /\ Pos(tlast) \in Nat /\ Pos(trecvd) \in Nat /\ Pos(rlast) \in Nat
         /\ free \subseteq Buf /\ leaked \subseteq Buf
         /\ Sent \in Seq(Buf) /\ InOrder \in Seq(Buf) /\ OutOrder \in Seq(Buf)
         /\ Len(Sent) \in Nat /\ Len(InOrder) \in Nat /\ Len(OutOrder) \in Nat
         /\ Len(read) \in Nat
<1>1. /\ next \in [Buf -> Ptr] /\ num \in [Buf -> Num]
      /\ thead \in Ptr /\ ttail \in Ptr /\ rhead \in Ptr /\ rtail \in Ptr /\ routorder \in Ptr
      /\ tlast \in Num /\ trecvd \in Num /\ rlast \in Num /\ rread \in Num
      /\ free \subseteq Buf /\ leaked \subseteq Buf /\ Len(read) \in Nat
  BY DEF QInv, TypeOK, Ptr
<1>2. Sent \in Seq(Buf) /\ InOrder \in Seq(Buf) /\ OutOrder \in Seq(Buf)
  BY DEF QInv, Chains, Linked
<1>3. Len(Sent) \in Nat /\ Len(InOrder) \in Nat /\ Len(OutOrder) \in Nat
  BY <1>2
<1>4. Pos(tlast) \in Nat /\ Pos(trecvd) \in Nat /\ Pos(rlast) \in Nat
  BY <1>1, Places
<1> QED BY <1>1, <1>2, <1>3, <1>4

(* The elements of a sequence are its members. *)
LEMMA InMembers ==
  ASSUME NEW s PROVE \A i \in 1 .. Len(s) : s[i] \in Members(s)
BY DEF Members

(* What the order depends on: the numbers of the members only. *)
LEMMA RisingFrame ==
  ASSUME NEW s, NEW n, NEW m, \A b \in Members(s) : m[b] = n[b], Rising(n, s)
  PROVE  Rising(m, s)
BY InMembers DEF Rising

(* Likewise for the counts. *)
LEMMA CountedFrame ==
  ASSUME NEW s, NEW n, NEW m, NEW k, NEW l, NEW a, NEW z, Counted(s, k, n, a, z),
         \A b \in Members(s) : m[b] = n[b] /\ l[b] = k[b]
  PROVE  Counted(s, l, m, a, z)
<1>1. PICK c \in [0 .. Len(s) -> Nat] : c[0] = a /\ c[Len(s)] = z /\ Counts(c, s, k, n)
  BY DEF Counted
<1>2. Counts(c, s, l, m)
  <2>1. \A i \in 1 .. Len(s) : m[s[i]] = n[s[i]] /\ l[s[i]] = k[s[i]]
    BY InMembers
  <2> QED BY <1>1, <2>1 DEF Counts
<1> QED BY <1>1, <1>2 DEF Counted

(* Likewise for routorder. *)
LEMMA AheadFrame ==
  ASSUME NEW s, NEW n, NEW m, NEW k, NEW l, NEW z, Ahead(s, k, n, z),
         \A b \in Members(s) : m[b] = n[b] /\ l[b] = k[b]
  PROVE  Ahead(s, l, m, z)
<1>1. Rising(m, s)
  BY RisingFrame DEF Ahead
<1> QED BY <1>1 DEF Ahead

(* A chain that was shown to be linked is what Chain finds. *)
LEMMA SentIs ==
  ASSUME next' \in [Buf -> Ptr], NEW s, Linked(next', thead', s)
  PROVE  Sent' = s
BY LinkedChain DEF Sent

(* Likewise for rhead. *)
LEMMA InOrderIs ==
  ASSUME next' \in [Buf -> Ptr], NEW s, Linked(next', rhead', s)
  PROVE  InOrder' = s
BY LinkedChain DEF InOrder

(* Likewise for routorder. *)
LEMMA OutOrderIs ==
  ASSUME next' \in [Buf -> Ptr], NEW s, Linked(next', routorder', s)
  PROVE  OutOrder' = s
BY LinkedChain DEF OutOrder

(* A step of the sender does not disturb the receiver's chains. *)
LEMMA ReceivingFrame ==
  ASSUME QInv, next' \in [Buf -> Ptr], UNCHANGED receiving,
         \A b \in Members(InOrder) \cup Members(OutOrder) :
           next'[b] = next[b] /\ num'[b] = num[b]
  PROVE  /\ InOrder' = InOrder /\ OutOrder' = OutOrder
         /\ Linked(next', rhead', InOrder') /\ Linked(next', routorder', OutOrder')
         /\ Receiving'
<1>1. /\ kind' = kind /\ rhead' = rhead /\ rtail' = rtail /\ routorder' = routorder
      /\ rlast' = rlast /\ rread' = rread /\ seen' = seen /\ read' = read
  BY DEF receiving
<1>2. Linked(next', rhead', InOrder) /\ Linked(next', routorder', OutOrder)
  BY <1>1, LinkedFrame DEF QInv, Chains
<1>3. InOrder' = InOrder /\ OutOrder' = OutOrder
  BY <1>2, InOrderIs, OutOrderIs
<1>4. Counted(InOrder', kind', num', Len(read'), Pos(rlast'))
  <2>1. Counted(InOrder, kind, num, Len(read), Pos(rlast))
    BY DEF QInv, Receiving
  <2>2. Counted(InOrder, kind', num', Len(read), Pos(rlast))
    BY <1>1, <2>1, CountedFrame
  <2> QED BY <1>1, <1>3, <2>2
<1>5. Ahead(OutOrder', kind', num', Pos(rlast'))
  <2>1. Ahead(OutOrder, kind, num, Pos(rlast))
    BY DEF QInv, Receiving
  <2>2. Ahead(OutOrder, kind', num', Pos(rlast))
    BY <1>1, <2>1, AheadFrame
  <2> QED BY <1>1, <1>3, <2>2
<1>6. seen' = {W(i) : i \in 1 .. Pos(rlast')} \cup {num'[b] : b \in Members(OutOrder')}
  <2>1. {num'[b] : b \in Members(OutOrder)} = {num[b] : b \in Members(OutOrder)}
    OBVIOUS
  <2> QED BY <1>1, <1>3, <2>1 DEF QInv, Receiving
<1>7. Receiving'
  BY <1>1, <1>3, <1>4, <1>5, <1>6 DEF QInv, Receiving
<1> QED BY <1>2, <1>3, <1>7

(* A step of the receiver does not disturb thead. *)
LEMMA SendingFrame ==
  ASSUME QInv, next' \in [Buf -> Ptr], UNCHANGED <<sending, open>>,
         \A b \in Members(Sent) : next'[b] = next[b],
         \A b \in Members(Sent) \cup leaked : num'[b] = num[b]
  PROVE  Sent' = Sent /\ Linked(next', thead', Sent') /\ Sending'
<1>1. /\ thead' = thead /\ ttail' = ttail /\ tlast' = tlast /\ trecvd' = trecvd
      /\ leaked' = leaked /\ wire' = wire /\ open' = open
  BY DEF sending
<1>2. Linked(next', thead', Sent)
  BY <1>1, LinkedFrame DEF QInv, Chains
<1>3. Sent' = Sent
  BY <1>2, SentIs
<1>4. Queued(Sent', num', Pos(trecvd'), Pos(tlast'))
  <2>1. Queued(Sent, num, Pos(trecvd), Pos(tlast))
    BY DEF QInv, Sending
  <2>2. Rising(num', Sent)
    BY <2>1, RisingFrame DEF Queued
  <2> QED BY <1>1, <1>3, <2>1, <2>2 DEF Queued
<1>5. Sending'
  <2>1. /\ Pos(trecvd) <= Pos(tlast) /\ Pos(tlast) <= MaxSent
        /\ \A n \in wire : 1 <= Pos(n) /\ Pos(n) <= Pos(tlast)
        /\ \A b \in leaked : 1 <= Pos(num[b]) /\ Pos(num[b]) <= Pos(tlast)
        /\ ~open => Sent = <<>>
        /\ \A b \in Members(Sent), c \in leaked : num[b] # num[c]
        /\ open => \A i \in Pos(trecvd) + 1 .. Pos(tlast) :
                     \E b \in Members(Sent) \cup leaked : num[b] = W(i)
    BY DEF QInv, Sending
  <2>2. /\ \A b \in leaked : 1 <= Pos(num'[b]) /\ Pos(num'[b]) <= Pos(tlast)
        /\ \A b \in Members(Sent), c \in leaked : num'[b] # num'[c]
    BY <2>1
  <2>3. open => \A i \in Pos(trecvd) + 1 .. Pos(tlast) :
                  \E b \in Members(Sent) \cup leaked : num'[b] = W(i)
    BY <2>1
  <2> QED BY <1>1, <1>3, <1>4, <2>1, <2>2, <2>3 DEF Sending
<1> QED BY <1>2, <1>3, <1>5

-----------------------------------------------------------------------------
(***************************************************************************)
(* The steps of the sender.                                                *)
(***************************************************************************)
(* No buffer is in two places. *)
LEMMA OwnedFacts ==
  ASSUME QInv
  PROVE  /\ \A b \in free : /\ b \notin leaked /\ b \notin Members(Sent)
                            /\ b \notin Members(InOrder) /\ b \notin Members(OutOrder)
         /\ \A b \in Members(Sent) \cup leaked :
              b \notin Members(InOrder) /\ b \notin Members(OutOrder)
         /\ \A b \in Members(InOrder) : b \notin Members(OutOrder)
         /\ \A b \in Members(Sent) : b \notin leaked
BY DEF QInv, Partition, Owned

(* The types after a step of the sender. *)
LEMMA TypeKept ==
  ASSUME QInv, next' \in [Buf -> Ptr], num' \in [Buf -> Num], thead' \in Ptr, ttail' \in Ptr,
         free' \subseteq Buf, leaked' \subseteq Buf, tlast' \in Num, trecvd' \in Num,
         wire' \subseteq Num, UNCHANGED <<open, receiving>>
  PROVE  TypeOK'
BY DEF QInv, TypeOK, receiving, Ptr

(* The sender's state is of the type its loops work on. *)
LEMMA StateType ==
  ASSUME QInv
  PROVE  /\ State \in QState /\ State.next = next /\ State.thead = thead /\ State.ttail = ttail
         /\ State.free = free /\ State.leaked = leaked
BY Types DEF State, QState

(* The state a loop of the sender leaves. *)
LEMMA BecomeIs ==
  ASSUME NEW q \in QState, Become(q)
  PROVE  /\ next' = q.next /\ thead' = q.thead /\ ttail' = q.ttail
         /\ free' = q.free /\ leaked' = q.leaked
         /\ next' \in [Buf -> Ptr] /\ thead' \in Ptr /\ ttail' \in Ptr
         /\ free' \subseteq Buf /\ leaked' \subseteq Buf
BY DEF Become, QState

(* ch_write() gives the next number to a fresh buffer and queues it.       *)
LEMMA WriteStep ==
  ASSUME QInv, NEW b \in Buf, NEW ok \in BOOLEAN, Write(b, ok)
  PROVE  QInv'
<1> DEFINE q == [State EXCEPT !.free = @ \ {b}]
           z == Pos(tlast)
           n == Succ(tlast)
<1>1. /\ open /\ b \in free /\ z < MaxSent /\ tlast' = n
      /\ num' = [num EXCEPT ![b] = n] /\ Become(Xmit(q, b, ok))
      /\ wire' = (IF ok THEN wire \cup {n} ELSE wire)
      /\ trecvd' = trecvd /\ open' = open /\ UNCHANGED receiving
  BY DEF Write, Pos
<1>2. /\ n \in Num /\ Pos(n) = z + 1 /\ n = W(z + 1) /\ z \in Nat /\ z + 1 < NumHalf
      /\ Pos(trecvd) <= z /\ Pos(trecvd) \in Nat
  <2>0. tlast \in Num /\ z \in Nat /\ Pos(trecvd) \in Nat
    BY Types
  <2>1. z < NumHalf /\ z + 1 < NumHalf
    <3>1. z < MaxSent
      BY <1>1
    <3> HIDE DEF z
    <3> QED BY <2>0, <3>1, Numbers
  <2>2. Pos(trecvd) <= z
    BY DEF QInv, Sending
  <2> QED BY <2>0, <2>1, <2>2, SuccPlace
<1>3. /\ num' \in [Buf -> Num] /\ num'[b] = n /\ \A c \in Buf : c # b => num'[c] = num[c]
  BY <1>1, <1>2, Types
<1>4. /\ q \in QState /\ q.next = next /\ q.thead = thead /\ q.free = free \ {b}
      /\ q.leaked = leaked /\ q.ttail = ttail
  BY StateType DEF QState
<1> HIDE DEF q, n, z
<1>5. /\ b \notin leaked /\ b \notin Members(Sent) /\ b \notin Members(InOrder)
      /\ b \notin Members(OutOrder)
  BY <1>1, OwnedFacts
<1>6. /\ Linked(next, thead, Sent) /\ Members(Sent) \subseteq Buf /\ leaked \subseteq Buf
      /\ Members(InOrder) \subseteq Buf /\ Members(OutOrder) \subseteq Buf
  BY Types, MembersOf DEF QInv, Chains
<1>7. Queued(Sent, num, Pos(trecvd), z)
  BY DEF QInv, Sending, z
<1>8. /\ Rising(num', Sent)
      /\ \A c \in Members(Sent) : Pos(trecvd) < Pos(num'[c]) /\ Pos(num'[c]) <= z
                                  /\ Pos(num'[c]) \in Nat
  <2>1. \A c \in Members(Sent) : num'[c] = num[c] /\ num[c] \in Num
    BY <1>3, <1>5, <1>6, Types
  <2>2. Rising(num', Sent)
    BY <1>7, <2>1, RisingFrame DEF Queued
  <2>3. \A c \in Members(Sent) : Pos(trecvd) < Pos(num[c]) /\ Pos(num[c]) <= z /\ Pos(num[c]) \in Nat
    BY <1>7, <2>1, Places DEF Queued
  <2> QED BY <2>1, <2>2, <2>3
<1>9. \E t : /\ Linked(next', thead', t) /\ Rising(num', t)
             /\ Members(t) = (IF ok THEN Members(Sent) \cup {b} ELSE Members(Sent))
             /\ next' \in [Buf -> Ptr] /\ thead' \in Ptr /\ ttail' \in Ptr
             /\ free' = free \ {b}
             /\ leaked' = (IF ok THEN leaked ELSE leaked \cup {b})
             /\ \A c \in Buf : c \notin Members(Sent) /\ c # b => next'[c] = next[c]
  <2>1. CASE ok
    <3> DEFINE res == xmitdone(q, b)
    <3>1. Xmit(q, b, ok) = res
      BY <2>1 DEF Xmit
    <3>2. LinksUp(res, q, Sent, b, num')
      <4>1. \A c \in Members(Sent) : Pos(num'[c]) < NumHalf /\ Pos(num'[c]) # Pos(num'[b])
        <5> SUFFICES ASSUME NEW c \in Members(Sent)
                     PROVE  Pos(num'[c]) < NumHalf /\ Pos(num'[c]) # Pos(num'[b])
          OBVIOUS
        <5>1. Pos(num'[c]) \in Nat /\ Pos(num'[c]) <= z /\ Pos(num'[b]) = z + 1
          BY <1>2, <1>3, <1>8
        <5> QED BY <1>2, <5>1, Numbers
      <4>2. Pos(trecvd) < Pos(num'[b]) /\ Pos(num'[b]) < NumHalf
        BY <1>2, <1>3
      <4>3. Linked(q.next, q.thead, Sent) /\ trecvd \in Num
        BY <1>4, <1>6, Types
      <4> HIDE DEF res
      <4> QED BY <1>1, <1>3, <1>4, <1>5, <1>8, <4>1, <4>2, <4>3, XmitDone DEF res
    <3> HIDE DEF res
    <3>3. res \in QState /\ Become(res)
      BY <1>1, <3>1, <3>2 DEF LinksUp
    <3>4. PICK t : /\ Linked(res.next, res.thead, t) /\ Rising(num', t)
                   /\ Members(t) = Members(Sent) \cup {b}
      BY <3>2 DEF LinksUp
    <3>5. /\ next' = res.next /\ thead' = res.thead /\ free' = res.free /\ leaked' = res.leaked
          /\ next' \in [Buf -> Ptr] /\ thead' \in Ptr /\ ttail' \in Ptr
      BY <3>3, BecomeIs
    <3>6. /\ res.free = free \ {b} /\ res.leaked = leaked
          /\ \A c \in Buf : c \notin Members(Sent) /\ c # b => res.next[c] = next[c]
      BY <1>4, <3>2 DEF LinksUp
    <3> QED BY <2>1, <3>4, <3>5, <3>6
  <2>2. CASE ~ok
    <3> DEFINE res == [q EXCEPT !.leaked = @ \cup {b}]
    <3>1. Xmit(q, b, ok) = res
      BY <2>2 DEF Xmit
    <3>2. /\ res \in QState /\ res.next = next /\ res.thead = thead /\ res.free = free \ {b}
          /\ res.leaked = leaked \cup {b}
      BY <1>4 DEF QState
    <3> HIDE DEF res
    <3>3. /\ next' = res.next /\ thead' = res.thead /\ free' = res.free /\ leaked' = res.leaked
          /\ next' \in [Buf -> Ptr] /\ thead' \in Ptr /\ ttail' \in Ptr
      BY <1>1, <3>1, <3>2, BecomeIs
    <3> QED BY <1>6, <1>8, <2>2, <3>2, <3>3
  <2> QED BY <2>1, <2>2
<1>10. PICK t : /\ Linked(next', thead', t) /\ Rising(num', t)
             /\ Members(t) = (IF ok THEN Members(Sent) \cup {b} ELSE Members(Sent))
             /\ next' \in [Buf -> Ptr] /\ thead' \in Ptr /\ ttail' \in Ptr
             /\ free' = free \ {b}
             /\ leaked' = (IF ok THEN leaked ELSE leaked \cup {b})
             /\ \A c \in Buf : c \notin Members(Sent) /\ c # b => next'[c] = next[c]
  BY <1>9
<1>11. Sent' = t
  BY <1>10, SentIs
<1>12. /\ InOrder' = InOrder /\ OutOrder' = OutOrder
       /\ Linked(next', rhead', InOrder') /\ Linked(next', routorder', OutOrder') /\ Receiving'
  <2>1. \A c \in Members(InOrder) \cup Members(OutOrder) :
          c \in Buf /\ c # b /\ c \notin Members(Sent)
    BY <1>5, <1>6, OwnedFacts
  <2>2. \A c \in Members(InOrder) \cup Members(OutOrder) :
          next'[c] = next[c] /\ num'[c] = num[c]
    BY <1>3, <1>10, <2>1
  <2> QED BY <1>1, <1>10, <2>2, ReceivingFrame
<1>13. Chains'
  BY <1>10, <1>11, <1>12 DEF Chains
<1>14. Partition'
  <2>1. Owned(free, leaked, Members(Sent), Members(InOrder), Members(OutOrder))
    BY DEF QInv, Partition
  <2>2. CASE ok
    <3>1. free' = free \ {b} /\ leaked' = leaked /\ Members(Sent') = Members(Sent) \cup {b}
      BY <1>10, <1>11, <2>2
    <3> QED BY <1>1, <1>12, <2>1, <3>1 DEF Partition, Owned
  <2>3. CASE ~ok
    <3>1. free' = free \ {b} /\ leaked' = leaked \cup {b} /\ Members(Sent') = Members(Sent)
      BY <1>10, <1>11, <2>3
    <3> QED BY <1>1, <1>12, <2>1, <3>1 DEF Partition, Owned
  <2> QED BY <2>2, <2>3
<1>15. TypeOK'
  <2>1. wire' \subseteq Num
    BY <1>1, <1>2 DEF QInv, TypeOK
  <2>2. leaked' \subseteq Buf /\ free' \subseteq Buf
    BY <1>6, <1>10, Types
  <2> QED BY <1>1, <1>2, <1>3, <1>10, <2>1, <2>2, Types, TypeKept
<1>16. Sending'
  <2>1. tlast' = n /\ Pos(tlast') = z + 1 /\ Pos(trecvd') = Pos(trecvd) /\ open'
    BY <1>1, <1>2
  <2>2. Pos(trecvd') <= Pos(tlast') /\ Pos(tlast') <= MaxSent
    <3>1. z \in Nat /\ z < MaxSent /\ Pos(trecvd) \in Nat /\ Pos(trecvd) <= z
      BY <1>1, <1>2
    <3> QED BY <2>1, <3>1, Numbers
  <2>3. \A m \in wire' : 1 <= Pos(m) /\ Pos(m) <= Pos(tlast')
    <3> SUFFICES ASSUME NEW m \in wire' PROVE 1 <= Pos(m) /\ Pos(m) <= z + 1
      BY <2>1
    <3>1. CASE m = n
      BY <1>2, <3>1
    <3>2. CASE m # n
      <4>1. m \in wire /\ m \in Num
        BY <1>1, <3>2 DEF QInv, TypeOK
      <4>2. 1 <= Pos(m) /\ Pos(m) <= z /\ Pos(m) \in Nat
        BY <4>1, Places DEF QInv, Sending, z
      <4> QED BY <1>2, <4>2
    <3> QED BY <3>1, <3>2
  <2>4. \A c \in leaked : num'[c] = num[c] /\ 1 <= Pos(num'[c]) /\ Pos(num'[c]) <= z /\ Pos(num'[c]) \in Nat
    <3> SUFFICES ASSUME NEW c \in leaked
                 PROVE  num'[c] = num[c] /\ 1 <= Pos(num'[c]) /\ Pos(num'[c]) <= z /\ Pos(num'[c]) \in Nat
      OBVIOUS
    <3>1. c \in Buf /\ c # b /\ num'[c] = num[c] /\ num[c] \in Num
      BY <1>3, <1>5, <1>6, Types
    <3>2. 1 <= Pos(num[c]) /\ Pos(num[c]) <= z
      BY DEF QInv, Sending, z
    <3> QED BY <3>1, <3>2, Places
  <2>5. \A c \in leaked' : 1 <= Pos(num'[c]) /\ Pos(num'[c]) <= Pos(tlast')
    <3> SUFFICES ASSUME NEW c \in leaked'
                 PROVE  1 <= Pos(num'[c]) /\ Pos(num'[c]) <= z + 1
      BY <2>1
    <3>1. CASE c = b
      BY <1>2, <1>3, <3>1
    <3>2. CASE c # b
      <4>1. c \in leaked
        BY <1>10, <3>2
      <4> QED BY <1>2, <2>4, <4>1
    <3> QED BY <3>1, <3>2
  <2>6. ~open' => Sent' = <<>>
    BY <2>1
  <2>7. Queued(Sent', num', Pos(trecvd'), Pos(tlast'))
    <3> SUFFICES ASSUME NEW c \in Members(t)
                 PROVE  Pos(trecvd) < Pos(num'[c]) /\ Pos(num'[c]) <= z + 1
      BY <1>10, <1>11, <2>1 DEF Queued
    <3>1. CASE c = b
      BY <1>2, <1>3, <3>1
    <3>2. CASE c # b
      <4>1. c \in Members(Sent)
        BY <1>10, <3>2
      <4> QED BY <1>2, <1>8, <4>1
    <3> QED BY <3>1, <3>2
  <2>8. \A c \in Members(Sent'), d \in leaked' : num'[c] # num'[d]
    <3> SUFFICES ASSUME NEW c \in Members(t), NEW d \in leaked' PROVE num'[c] # num'[d]
      BY <1>11
    <3>1. CASE c # b /\ d # b
      <4>1. c \in Members(Sent) /\ d \in leaked
        BY <1>10, <3>1
      <4>2. num[c] # num[d]
        BY <4>1 DEF QInv, Sending
      <4> QED BY <1>3, <1>6, <3>1, <4>1, <4>2
    <3>2. CASE c = b /\ d # b
      <4>1. d \in leaked
        BY <1>10, <3>2
      <4> QED BY <1>2, <1>3, <2>4, <3>2, <4>1
    <3>3. CASE c # b /\ d = b
      <4>1. c \in Members(Sent)
        BY <1>10, <3>3
      <4> QED BY <1>2, <1>3, <1>8, <3>3, <4>1
    <3>4. CASE c = b /\ d = b
      BY <1>5, <1>10, <3>4
    <3> QED BY <3>1, <3>2, <3>3, <3>4
  <2>9. \A i \in Pos(trecvd') + 1 .. Pos(tlast') :
          \E c \in Members(Sent') \cup leaked' : num'[c] = W(i)
    <3> SUFFICES ASSUME NEW i \in Pos(trecvd) + 1 .. z + 1
                 PROVE  \E c \in Members(t) \cup leaked' : num'[c] = W(i)
      BY <1>11, <2>1
    <3>1. CASE i = z + 1
      <4>1. b \in Members(t) \cup leaked'
        BY <1>10
      <4> QED BY <1>2, <1>3, <3>1, <4>1
    <3>2. CASE i # z + 1
      <4>1. i \in Pos(trecvd) + 1 .. z
        BY <1>2, <3>2
      <4>2. PICK c \in Members(Sent) \cup leaked : num[c] = W(i)
        BY <1>1, <4>1 DEF QInv, Sending, z
      <4>3. c \in Buf /\ c # b /\ c \in Members(t) \cup leaked'
        BY <1>5, <1>6, <1>10
      <4> QED BY <1>3, <4>2, <4>3
    <3> QED BY <3>1, <3>2
  <2> QED BY <2>2, <2>3, <2>5, <2>6, <2>7, <2>8, <2>9 DEF Sending
<1> QED BY <1>12, <1>13, <1>14, <1>15, <1>16 DEF QInv

(* receipt() cuts off the front of thead, up to the number receipted.      *)
LEMMA ReceiptStep ==
  ASSUME QInv, NEW recnum \in Receivable, receipt(recnum)
  PROVE  QInv'
<1> DEFINE go(b) == b # NOPKT /\ cmp_le(num[b], recnum)
           X == Buf \cup {NOPKT}
           T == {b \in X : ~go(b)}
           v == [b \in X |-> b]
           keep[b \in Buf \cup {NOPKT}] ==
             IF b # NOPKT /\ cmp_le(num[b], recnum) THEN keep[next[b]] ELSE b
           s == Sent
           head == keep[thead]
<1>1. /\ open /\ cmp_gt(recnum, trecvd) /\ thead' = head
      /\ ttail' = (IF head = NOPKT THEN NOPKT ELSE ttail)
      /\ free' = free \cup (Members(Sent) \ Members(Chain(next, head)))
      /\ trecvd' = recnum
      /\ UNCHANGED <<next, num, tlast, leaked, wire, open, receiving>>
  BY DEF receipt, keep
<1>2. keep = [b \in X |-> IF b # NOPKT /\ cmp_le(num[b], recnum) THEN keep[next[b]] ELSE b]
  <2>1. \A b \in X : b \notin T => next[b] \in X
    <3>1. \A b \in X : b \notin T => b \in Buf
      OBVIOUS
    <3>2. \A b \in Buf : next[b] \in X
      <4> HIDE DEF T, v, keep
      <4> QED BY Types DEF Ptr
    <3> HIDE DEF T, v, keep, X
    <3> QED BY <3>1, <3>2
  <2>2. Returns(X, T, v, next)
    <3> HIDE DEF X, T, v, keep
    <3> QED BY <2>1, LoopReturns
  <2>3. PICK f : f = [b \in X |-> IF b \in T THEN v[b] ELSE f[next[b]]]
    <3> HIDE DEF X, T, v, keep
    <3> QED BY <2>2 DEF Returns
  <2>4. f = [b \in X |-> IF b # NOPKT /\ cmp_le(num[b], recnum) THEN f[next[b]] ELSE b]
    <3>1. ASSUME NEW b \in X
          PROVE  (IF b \in T THEN v[b] ELSE f[next[b]])
                   = IF b # NOPKT /\ cmp_le(num[b], recnum) THEN f[next[b]] ELSE b
      <4>1. v[b] = b /\ (b \in T <=> ~go(b))
        OBVIOUS
      <4> HIDE DEF X, T, v, keep
      <4> QED BY <4>1
    <3> HIDE DEF X, T, v, keep
    <3> QED BY <2>3, <3>1
  <2> QED BY <2>4, Zenon DEF keep
<1> HIDE DEF keep
<1>3. /\ Linked(next, thead, s) /\ s \in Seq(Buf) /\ Len(s) \in Nat /\ thead = At(s, 1)
      /\ \A i \in 1 .. Len(s) : /\ s[i] \in Buf /\ s[i] # NOPKT /\ s[i] \in Members(s)
                                /\ next[s[i]] = At(s, i + 1) /\ At(s, i) = s[i]
      /\ \A i : At(s, i) \in X
  <2>1. Linked(next, thead, s) /\ s \in Seq(Buf) /\ Len(s) \in Nat
    BY Types DEF QInv, Chains
  <2>2. thead = At(s, 1) /\ \A i \in 1 .. Len(s) : next[s[i]] = At(s, i + 1)
    BY <2>1 DEF Linked
  <2>3. \A i \in 1 .. Len(s) : s[i] \in Buf /\ s[i] # NOPKT /\ s[i] \in Members(s) /\ At(s, i) = s[i]
    BY <2>1, AtType, InMembers
  <2>4. \A i : At(s, i) \in X
    BY <2>1, AtType DEF Ptr
  <2> QED BY <2>1, <2>2, <2>3, <2>4
<1> HIDE DEF s
<1>4. /\ Pos(recnum) \in Nat /\ recnum \in Num /\ Pos(recnum) <= Pos(tlast)
      /\ Pos(tlast) \in Nat /\ Pos(trecvd) \in Nat /\ Pos(tlast) < NumHalf /\ Pos(recnum) < NumHalf
      /\ Pos(trecvd) < Pos(recnum)
  <2>1. recnum \in wire /\ recnum \in Num
    BY DEF Receivable, QInv, TypeOK
  <2>2. Pos(recnum) \in Nat /\ Pos(recnum) <= Pos(tlast) /\ Pos(tlast) <= MaxSent
        /\ Pos(trecvd) <= Pos(tlast) /\ Pos(tlast) \in Nat /\ Pos(trecvd) \in Nat
    BY <2>1, Places, Types DEF QInv, Sending
  <2>3. Pos(tlast) < NumHalf /\ Pos(recnum) < NumHalf /\ Pos(trecvd) < NumHalf
    BY <2>2, Numbers
  <2>4. Pos(recnum) > Pos(trecvd)
    BY <1>1, <2>1, <2>3, Compare, Types
  <2> QED BY <2>1, <2>2, <2>3, <2>4
<1>5. Rising(num, s) /\ \A b \in Members(s) : /\ Pos(trecvd) < Pos(num[b]) /\ Pos(num[b]) <= Pos(tlast)
                                              /\ Pos(num[b]) \in Nat /\ b \in Buf
  <2>1. Members(s) \subseteq Buf
    BY <1>3, MembersOf
  <2>2. \A b \in Members(s) : num[b] \in Num
    BY <2>1, Types
  <2> QED BY <2>1, <2>2, Places DEF QInv, Sending, Queued, s
<1>6. \A i \in 1 .. Len(s) : go(s[i]) <=> Pos(num[s[i]]) <= Pos(recnum)
  <2> SUFFICES ASSUME NEW i \in 1 .. Len(s)
               PROVE  go(s[i]) <=> Pos(num[s[i]]) <= Pos(recnum)
    OBVIOUS
  <2>1. s[i] \in Buf /\ s[i] # NOPKT /\ num[s[i]] \in Num /\ Pos(num[s[i]]) <= Pos(tlast)
        /\ Pos(num[s[i]]) \in Nat
    BY <1>3, <1>5, Types
  <2>2. Pos(num[s[i]]) < NumHalf
    BY <1>4, <2>1, Numbers
  <2>3. cmp_le(num[s[i]], recnum) <=> Pos(num[s[i]]) <= Pos(recnum)
    BY <1>4, <2>1, <2>2, Compare
  <2> QED BY <2>1, <2>3
<1> DEFINE B == {i \in 0 .. Len(s) : ~go(At(s, i + 1))}
<1>7. Len(s) \in B
  <2>1. At(s, Len(s) + 1) = NOPKT
    BY <1>3 DEF At
  <2> QED BY <1>3, <2>1
<1>8. PICK k \in B : \A j \in B : k <= j
  <2>1. B \in SUBSET Nat /\ B # {}
    BY <1>3, <1>7
  <2> HIDE DEF B
  <2> QED BY <2>1, Least
<1>9. k \in 0 .. Len(s) /\ k \in Nat /\ ~go(At(s, k + 1))
  BY <1>3
<1>10. \A i \in 0 .. k - 1 : /\ i + 1 \in 1 .. Len(s) /\ go(s[i + 1])
                             /\ At(s, i + 1) = s[i + 1] /\ next[s[i + 1]] = At(s, (i + 1) + 1)
  <2> SUFFICES ASSUME NEW i \in 0 .. k - 1
               PROVE  /\ i + 1 \in 1 .. Len(s) /\ go(s[i + 1])
                      /\ At(s, i + 1) = s[i + 1] /\ next[s[i + 1]] = At(s, (i + 1) + 1)
    OBVIOUS
  <2>1. i \in 0 .. Len(s) /\ ~(k <= i) /\ i + 1 \in 1 .. Len(s)
    BY <1>3, <1>9
  <2>2. go(At(s, i + 1))
    BY <1>8, <2>1
  <2> HIDE DEF B, go
  <2> QED BY <1>3, <2>1, <2>2
<1> HIDE DEF B, T, v
<1>11. head = At(s, k + 1)
  <2> DEFINE r == [i \in 0 .. k |-> keep[At(s, i + 1)]]
  <2>1. ASSUME NEW i \in 0 .. k - 1 PROVE r[i] = r[i + 1]
    <3>1. i \in 0 .. k /\ i + 1 \in 0 .. k
      BY <1>9
    <3>2. At(s, i + 1) = s[i + 1] /\ s[i + 1] \in X /\ go(s[i + 1])
          /\ next[s[i + 1]] = At(s, (i + 1) + 1)
      BY <1>3, <1>10
    <3>3. keep[s[i + 1]] = keep[At(s, (i + 1) + 1)]
      BY <1>2, <3>2
    <3> QED BY <3>1, <3>2, <3>3
  <2>2. r[0] = keep[thead] /\ r[k] = keep[At(s, k + 1)]
    <3>1. 0 \in 0 .. k /\ k \in 0 .. k /\ 0 + 1 = 1
      BY <1>9
    <3> QED BY <1>3, <3>1
  <2>3. r[0] = r[k]
    <3> HIDE DEF r
    <3> QED BY <1>9, <2>1, LoopValue
  <2>4. keep[At(s, k + 1)] = At(s, k + 1)
    <3>1. At(s, k + 1) \in X
      BY <1>3
    <3> QED BY <1>2, <1>9, <3>1
  <2> QED BY <2>2, <2>3, <2>4
<1> DEFINE t == Drop(s, k)
<1>12. /\ Linked(next, head, t) /\ Members(t) = {s[i] : i \in k + 1 .. Len(s)}
       /\ Members(t) = Members(s) \ {s[i] : i \in 1 .. k}
  <2> HIDE DEF head
  <2> QED BY <1>3, <1>9, <1>11, LinkedDrop
<1> HIDE DEF head, X
<1>13. /\ Sent' = t /\ Chain(next, head) = t /\ next' = next /\ thead' = head
  <2>1. next \in [Buf -> Ptr] /\ next' \in [Buf -> Ptr] /\ Linked(next', thead', t)
    BY <1>1, <1>12, Types
  <2> HIDE DEF t
  <2> QED BY <1>1, <1>12, <2>1, SentIs, LinkedChain
<1>14. \A b \in Members(t) : b \in Members(s) /\ Pos(recnum) < Pos(num[b])
  <2> SUFFICES ASSUME NEW b \in Members(t)
               PROVE  b \in Members(s) /\ Pos(recnum) < Pos(num[b])
    OBVIOUS
  <2>1. PICK i \in k + 1 .. Len(s) : b = s[i]
    BY <1>12
  <2>2. i \in 1 .. Len(s) /\ k + 1 \in 1 .. Len(s)
    BY <1>3, <1>9
  <2>3. ~go(s[k + 1])
    BY <1>3, <1>9, <2>2
  <2>4. ~(Pos(num[s[k + 1]]) <= Pos(recnum))
    BY <1>6, <2>2, <2>3
  <2>5. i # k + 1 => Pos(num[s[k + 1]]) < Pos(num[s[i]])
    BY <1>5, <2>2 DEF Rising
  <2>6. Pos(num[s[k + 1]]) \in Nat /\ Pos(num[s[i]]) \in Nat /\ b \in Members(s)
    BY <1>3, <1>5, <2>1, <2>2
  <2>7. Pos(recnum) < Pos(num[s[i]])
    <3> HIDE DEF go, t
    <3> QED BY <1>4, <2>4, <2>5, <2>6
  <2> QED BY <2>1, <2>6, <2>7
<1>15. \A i \in 1 .. k : s[i] \in Members(s) /\ Pos(num[s[i]]) <= Pos(recnum)
  <2> SUFFICES ASSUME NEW i \in 1 .. k PROVE s[i] \in Members(s) /\ Pos(num[s[i]]) <= Pos(recnum)
    OBVIOUS
  <2>1. i - 1 \in 0 .. k - 1 /\ (i - 1) + 1 = i
    BY <1>9
  <2>2. i \in 1 .. Len(s) /\ go(s[i])
    BY <1>10, <2>1
  <2> HIDE DEF go
  <2> QED BY <1>3, <1>6, <2>2
<1>16. Rising(num, t)
  <2>1. /\ Len(t) = Len(s) - k /\ \A i \in 1 .. Len(s) - k : t[i] = s[k + i]
    BY <1>3, <1>9, DropShape
  <2> HIDE DEF t
  <2> SUFFICES ASSUME NEW i \in 1 .. Len(t), NEW j \in 1 .. Len(t), i < j
               PROVE  Pos(num[t[i]]) < Pos(num[t[j]])
    BY DEF Rising
  <2>2. k + i \in 1 .. Len(s) /\ k + j \in 1 .. Len(s) /\ k + i < k + j
    BY <1>3, <1>9, <2>1
  <2> QED BY <1>5, <2>1, <2>2 DEF Rising
<1> HIDE DEF t, go
<1>17. /\ InOrder' = InOrder /\ OutOrder' = OutOrder
       /\ Linked(next', rhead', InOrder') /\ Linked(next', routorder', OutOrder') /\ Receiving'
  BY <1>1, Types, ReceivingFrame
<1>18. Chains'
  BY <1>12, <1>13, <1>17 DEF Chains
<1>19. Partition'
  <2>1. Owned(free, leaked, Members(s), Members(InOrder), Members(OutOrder))
    BY DEF QInv, Partition, s
  <2>2. Members(t) \subseteq Members(s)
    BY <1>14
  <2>3. free' = free \cup (Members(s) \ Members(t)) /\ leaked' = leaked /\ Members(Sent') = Members(t)
    BY <1>1, <1>13 DEF s
  <2> QED BY <1>17, <2>1, <2>2, <2>3 DEF Partition, Owned
<1>20. TypeOK'
  <2>1. thead' \in Ptr /\ ttail' \in Ptr
    <3>1. thead' \in Ptr
      BY <1>3, <1>11, <1>13, AtType
    <3>2. NOPKT \in Ptr
      BY DEF Ptr
    <3> QED BY <1>1, <3>1, <3>2, Types
  <2>2. free' \subseteq Buf
    BY <1>1, <1>5, Types DEF s
  <2>3. wire' \subseteq Num
    BY <1>1 DEF QInv, TypeOK
  <2> QED BY <1>1, <1>4, <2>1, <2>2, <2>3, Types, TypeKept
<1>21. Sending'
  <2>1. /\ tlast' = tlast /\ trecvd' = recnum /\ wire' = wire /\ leaked' = leaked
        /\ num' = num /\ open'
    BY <1>1
  <2>2. Pos(tlast) <= MaxSent /\ \A n \in wire : 1 <= Pos(n) /\ Pos(n) <= Pos(tlast)
    BY DEF QInv, Sending
  <2>3. /\ \A b \in leaked : 1 <= Pos(num[b]) /\ Pos(num[b]) <= Pos(tlast)
        /\ \A b \in Members(s), c \in leaked : num[b] # num[c]
    BY DEF QInv, Sending, s
  <2>4. Queued(t, num, Pos(recnum), Pos(tlast))
    BY <1>5, <1>14, <1>16 DEF Queued
  <2>5. ASSUME NEW i \in Pos(recnum) + 1 .. Pos(tlast)
        PROVE  \E b \in Members(t) \cup leaked : num[b] = W(i)
    <3>1. i \in Pos(trecvd) + 1 .. Pos(tlast) /\ i \in Nat
      BY <1>4
    <3>2. PICK b \in Members(s) \cup leaked : num[b] = W(i)
      BY <1>1, <3>1 DEF QInv, Sending, s
    <3>3. Pos(num[b]) = i
      <4>1. i < NumMod
        BY <1>4, <3>1, Numbers
      <4> QED BY <3>1, <3>2, <4>1, Places
    <3>4. ~(Pos(num[b]) <= Pos(recnum))
      BY <1>4, <3>3
    <3>5. b \notin {s[j] : j \in 1 .. k}
      BY <1>15, <3>4
    <3> QED BY <1>12, <3>2, <3>5
  <2>6. \A b \in Members(t), c \in leaked : num[b] # num[c]
    BY <1>14, <2>3
  <2> QED BY <1>4, <1>13, <2>1, <2>2, <2>3, <2>4, <2>5, <2>6 DEF Sending
<1> QED BY <1>17, <1>18, <1>19, <1>20, <1>21 DEF QInv

(* What is taken out of a rising sequence rises. *)
LEMMA ExtractRises ==
  ASSUME NEW s, NEW n, Rising(n, s), NEW t, NEW S, Extract(t, s, S)
  PROVE  Rising(n, t)
<1> SUFFICES ASSUME NEW a \in 1 .. Len(t), NEW b \in 1 .. Len(t), a < b
             PROVE  Pos(n[t[a]]) < Pos(n[t[b]])
  BY DEF Rising
<1>1. PICK i, j \in 1 .. Len(s) : i < j /\ t[a] = s[i] /\ t[b] = s[j]
  BY DEF Extract, Ordered
<1> QED BY <1>1 DEF Rising

(* The buffers of a rising sequence have different numbers. *)
LEMMA RisingApart ==
  ASSUME NEW s \in Seq(Buf), NEW n \in [Buf -> Num], Rising(n, s)
  PROVE  \A b, c \in Members(s) : b # c => Pos(n[b]) # Pos(n[c])
<1> SUFFICES ASSUME NEW b \in Members(s), NEW c \in Members(s), b # c
             PROVE  Pos(n[b]) # Pos(n[c])
  OBVIOUS
<1>1. PICK i \in 1 .. Len(s) : b = s[i]
  BY DEF Members
<1>2. PICK j \in 1 .. Len(s) : c = s[j]
  BY DEF Members
<1>3. i < j \/ j < i
  BY <1>1, <1>2
<1>4. Pos(n[s[i]]) \in Nat /\ Pos(n[s[j]]) \in Nat
  BY ElementOfSeq, Places
<1>5. Pos(n[s[i]]) < Pos(n[s[j]]) \/ Pos(n[s[j]]) < Pos(n[s[i]])
  BY <1>3 DEF Rising
<1> QED BY <1>1, <1>2, <1>4, <1>5

(* One turn of chretran(): buffer b, taken out of thead, is sent again or  *)
(* leaks, when those of D have gone before it.                             *)
Resent(x, D, S, F) ==
  /\ x \in QState /\ x.free = free /\ x.leaked = leaked \cup (D \cap F)
  /\ \A c \in Buf : c \notin Members(Sent) => x.next[c] = next[c]
  /\ \E t : /\ Linked(x.next, x.thead, t) /\ Rising(num, t)
            /\ Members(t) = (Members(Sent) \ S) \cup (D \ F)

(* One round of chretran(): an aged buffer is sent and linked in again, or *)
(* lost when the write fails.                                              *)
LEMMA ResendOne ==
  ASSUME QInv, num' = num, NEW S, S \subseteq Members(Sent), NEW F, F \subseteq S,
         NEW D, D \subseteq S, NEW b \in S, b \notin D, NEW x, Resent(x, D, S, F)
  PROVE  Resent(Xmit(x, b, b \notin F), D \cup {b}, S, F)
<1>1. /\ x \in QState /\ x.free = free /\ x.leaked = leaked \cup (D \cap F)
      /\ \A c \in Buf : c \notin Members(Sent) => x.next[c] = next[c]
  BY DEF Resent
<1>2. PICK t : /\ Linked(x.next, x.thead, t) /\ Rising(num, t)
               /\ Members(t) = (Members(Sent) \ S) \cup (D \ F)
  BY DEF Resent
<1>3. Members(Sent) \subseteq Buf /\ b \in Members(Sent) /\ b \in Buf /\ num \in [Buf -> Num]
  BY Types, MembersOf
<1>4. CASE b \in F
  <2> DEFINE y == [x EXCEPT !.leaked = @ \cup {b}]
  <2>1. Xmit(x, b, b \notin F) = y
    BY <1>4 DEF Xmit
  <2>2. /\ y \in QState /\ y.next = x.next /\ y.thead = x.thead /\ y.free = x.free
        /\ y.leaked = x.leaked \cup {b}
    BY <1>1, <1>3 DEF QState
  <2> HIDE DEF y
  <2>3. y.leaked = leaked \cup ((D \cup {b}) \cap F)
    BY <1>1, <1>4, <2>2
  <2>4. Members(t) = (Members(Sent) \ S) \cup ((D \cup {b}) \ F)
    BY <1>2, <1>4
  <2>5. Resent(y, D \cup {b}, S, F)
    BY <1>1, <1>2, <2>2, <2>3, <2>4 DEF Resent
  <2> QED BY <2>1, <2>5
<1>5. CASE b \notin F
  <2> DEFINE y == xmitdone(x, b)
  <2>1. Xmit(x, b, b \notin F) = y
    BY <1>5 DEF Xmit
  <2>2. LinksUp(y, x, t, b, num)
    <3>1. open
      <4>1. Sent # <<>>
        BY <1>3 DEF Members
      <4> QED BY <4>1 DEF QInv, Sending
    <3>2. /\ Rising(num, Sent) /\ \A c \in Members(Sent) :
             Pos(trecvd) < Pos(num[c]) /\ Pos(num[c]) <= Pos(tlast)
      BY DEF QInv, Sending, Queued
    <3>3. Pos(tlast) \in Nat /\ Pos(tlast) < NumHalf
      <4>1. Pos(tlast) <= MaxSent /\ Pos(tlast) \in Nat
        BY Types DEF QInv, Sending
      <4> QED BY <4>1, Numbers
    <3>4. \A c \in Members(Sent) : Pos(num[c]) < NumHalf
      <4> SUFFICES ASSUME NEW c \in Members(Sent) PROVE Pos(num[c]) < NumHalf
        OBVIOUS
      <4>1. Pos(num[c]) \in Nat /\ Pos(num[c]) <= Pos(tlast)
        BY <1>3, <3>2, Places
      <4> QED BY <3>3, <4>1, Numbers
    <3>5. b \notin Members(t) /\ \A c \in Members(t) : c \in Members(Sent) /\ c # b
      BY <1>2
    <3>6. \A c \in Members(t) : Pos(num[c]) < NumHalf /\ Pos(num[c]) # Pos(num[b])
      <4>1. Sent \in Seq(Buf)
        BY Types
      <4>2. \A c, d \in Members(Sent) : c # d => Pos(num[c]) # Pos(num[d])
        BY <1>3, <3>2, <4>1, RisingApart
      <4> QED BY <1>3, <3>4, <3>5, <4>2
    <3>7. num' \in [Buf -> Num] /\ trecvd \in Num
      BY <1>3, Types
    <3>8. Pos(trecvd) < Pos(num[b]) /\ Pos(num[b]) < NumHalf
      BY <1>3, <3>2, <3>4
    <3> HIDE DEF y
    <3> QED BY <1>1, <1>2, <1>3, <3>1, <3>5, <3>6, <3>7, <3>8, XmitDone DEF y
  <2> HIDE DEF y
  <2>3. /\ y \in QState /\ y.free = free /\ y.leaked = leaked \cup (D \cap F)
        /\ \A c \in Buf : c \notin Members(t) /\ c # b => y.next[c] = x.next[c]
    BY <1>1, <2>2 DEF LinksUp
  <2>4. PICK u : /\ Linked(y.next, y.thead, u) /\ Rising(num, u)
                 /\ Members(u) = Members(t) \cup {b}
    BY <2>2 DEF LinksUp
  <2>5. \A c \in Buf : c \notin Members(Sent) => y.next[c] = next[c]
    BY <1>1, <1>2, <1>3, <2>3
  <2>6. leaked \cup (D \cap F) = leaked \cup ((D \cup {b}) \cap F)
    BY <1>5
  <2>7. Members(u) = (Members(Sent) \ S) \cup ((D \cup {b}) \ F)
    BY <1>2, <1>5, <2>4
  <2>8. Resent(y, D \cup {b}, S, F)
    BY <2>3, <2>4, <2>5, <2>6, <2>7 DEF Resent
  <2> QED BY <2>1, <2>8
<1> QED BY <1>4, <1>5

(* chretran() takes the aged buffers out of thead, and puts back each that *)
(* could be written.                                                       *)
LEMMA ChretranStep ==
  ASSUME QInv, NEW S \in SUBSET Members(Sent), S # {}, NEW F \in SUBSET S, chretran(S, F)
  PROVE  QInv'
<1> DEFINE s     == Sent
           aged  == Among(Sent, S)
           young == Among(Sent, Buf \ S)
           succ(b) == LET i == CHOOSE j \in 1 .. Len(young) : young[j] = b
                      IN  IF i < Len(young) THEN young[i + 1] ELSE NOPKT
           new == [b \in Buf |-> IF b \in S THEN NOPKT
                                 ELSE IF b \in Members(young) THEN succ(b)
                                 ELSE next[b]]
           left  == [State EXCEPT
                       !.next = [b \in Buf |-> IF b \in S THEN NOPKT
                                               ELSE IF b \in Members(young) THEN succ(b)
                                               ELSE @[b]],
                       !.thead = IF young = <<>> THEN NOPKT ELSE young[1]]
           done[i \in 0 .. Len(aged)] ==
             IF i = 0 THEN left ELSE Xmit(done[i - 1], aged[i], aged[i] \notin F)
           n == Len(aged)
<1>1. /\ UNCHANGED <<num, tlast, trecvd, wire, open, receiving>>
      /\ Become(done[n])
  BY DEF chretran
<1>2. /\ Linked(next, thead, s) /\ s \in Seq(Buf) /\ Len(s) \in Nat /\ Different(s)
      /\ Members(s) \subseteq Buf /\ Rising(num, s) /\ S \subseteq Buf
      /\ next \in [Buf -> Ptr] /\ num \in [Buf -> Num]
  <2>1. Linked(next, thead, s) /\ s \in Seq(Buf) /\ Len(s) \in Nat
    BY Types DEF QInv, Chains
  <2>2. Rising(num, s)
    BY DEF QInv, Sending, Queued
  <2> QED BY <2>1, <2>2, Types, MembersOf DEF Linked
<1>3. /\ Extract(aged, s, S) /\ Extract(young, s, Buf \ S)
  BY <1>2, AmongExtracts
<1> HIDE DEF aged, young
<1>4. /\ aged \in Seq(Buf) /\ Members(aged) = S /\ Different(aged) /\ n \in Nat
      /\ young \in Seq(Buf) /\ Members(young) = Members(s) \ S /\ Different(young)
      /\ Len(young) \in Nat /\ Rising(num, young)
  <2>1. aged \in Seq(Buf) /\ Members(aged) = Members(s) \cap S
    BY <1>3 DEF Extract
  <2>2. young \in Seq(Buf) /\ Members(young) = Members(s) \cap (Buf \ S)
    BY <1>3 DEF Extract
  <2>3. Different(aged) /\ Different(young)
    BY <1>2, <1>3, ExtractDifferent
  <2>4. Rising(num, young)
    BY <1>2, <1>3, ExtractRises
  <2>5. Members(young) = Members(s) \ S
    BY <1>2, <2>2
  <2> HIDE DEF s
  <2>6. Members(aged) = S
    BY <2>1 DEF s
  <2> QED BY <2>1, <2>2, <2>3, <2>4, <2>5, <2>6
<1>5. \A i \in 1 .. Len(young) : succ(young[i]) = At(young, i + 1)
  <2> SUFFICES ASSUME NEW i \in 1 .. Len(young) PROVE succ(young[i]) = At(young, i + 1)
    OBVIOUS
  <2>1. \A j \in 1 .. Len(young) : young[j] = young[i] => j = i
    BY <1>4 DEF Different
  <2>2. (CHOOSE j \in 1 .. Len(young) : young[j] = young[i]) = i
    BY <2>1
  <2>3. succ(young[i]) = IF i < Len(young) THEN young[i + 1] ELSE NOPKT
    BY <2>2
  <2>4. At(young, i + 1) = IF i < Len(young) THEN young[i + 1] ELSE NOPKT
    BY <1>4 DEF At
  <2> HIDE DEF succ
  <2> QED BY <2>3, <2>4
<1> HIDE DEF succ
<1>6. /\ new \in [Buf -> Ptr]
      /\ \A i \in 1 .. Len(young) : new[young[i]] = At(young, i + 1)
      /\ \A c \in Buf : c \notin Members(s) => new[c] = next[c]
  <2>1. \A i \in 1 .. Len(young) : young[i] \in Buf /\ young[i] \in Members(young)
    BY <1>4, AtType, InMembers
  <2>2. ASSUME NEW c \in Members(young) PROVE succ(c) \in Ptr
    <3>1. PICK i \in 1 .. Len(young) : c = young[i]
      BY DEF Members
    <3> QED BY <1>4, <1>5, <3>1, AtType
  <2>3. NOPKT \in Ptr
    BY DEF Ptr
  <2>4. new \in [Buf -> Ptr]
    BY <1>2, <2>2, <2>3
  <2>5. \A i \in 1 .. Len(young) : new[young[i]] = At(young, i + 1)
    BY <1>4, <1>5, <2>1
  <2>6. \A c \in Buf : c \notin Members(s) => new[c] = next[c]
    <3>1. S \subseteq Members(s)
      OBVIOUS
    <3> HIDE DEF s, left, done
    <3> QED BY <1>4, <3>1
  <2> QED BY <2>4, <2>5, <2>6
<1>7. left = [State EXCEPT !.next = new, !.thead = At(young, 1)]
  <2>1. (IF young = <<>> THEN NOPKT ELSE young[1]) = At(young, 1)
    BY <1>4, EmptySeq DEF At
  <2>2. State.next = next
    BY StateType
  <2>3. left = [State EXCEPT !.next = new, !.thead = IF young = <<>> THEN NOPKT ELSE young[1]]
    BY <2>2
  <2> HIDE DEF left, new
  <2> QED BY <2>1, <2>3
<1> HIDE DEF left, new
<1>8. Resent(left, {}, S, F)
  <2>1. At(young, 1) \in Ptr
    BY <1>4, AtType
  <2>2. /\ left \in QState /\ left.next = new /\ left.thead = At(young, 1)
        /\ left.free = free /\ left.leaked = leaked
    BY <1>6, <1>7, <2>1, StateType DEF QState
  <2>3. Linked(new, At(young, 1), young)
    BY <1>4, <1>6 DEF Linked
  <2>4. leaked = leaked \cup ({} \cap F) /\ Members(young) = (Members(Sent) \ S) \cup ({} \ F)
    BY <1>4
  <2> QED BY <1>4, <1>6, <2>2, <2>3, <2>4 DEF Resent
<1> DEFINE D(i) == {aged[j] : j \in 1 .. i}
<1>9. /\ D(0) = {} /\ D(n) = S
      /\ \A i \in 1 .. n : /\ aged[i] \in S /\ aged[i] \notin D(i - 1) /\ D(i - 1) \subseteq S
                           /\ D(i) = D(i - 1) \cup {aged[i]}
  <2>1. D(0) = {} /\ D(n) = S
    BY <1>4 DEF Members
  <2>2. ASSUME NEW i \in 1 .. n
        PROVE  /\ aged[i] \in S /\ aged[i] \notin D(i - 1) /\ D(i - 1) \subseteq S
               /\ D(i) = D(i - 1) \cup {aged[i]}
    <3>1. 1 .. i = (1 .. i - 1) \cup {i} /\ i \notin 1 .. i - 1 /\ 1 .. i - 1 \subseteq 1 .. n
      BY <1>4
    <3>2. \A j \in 1 .. n : aged[j] \in S
      BY <1>4, InMembers
    <3>3. aged[i] \notin D(i - 1)
      BY <1>4, <3>1 DEF Different
    <3> QED BY <3>1, <3>2, <3>3
  <2> QED BY <2>1, <2>2
<1> HIDE DEF D, s
<1>10. \A x : \A i \in 1 .. n : Resent(x, D(i - 1), S, F) =>
          Resent(Xmit(x, aged[i], aged[i] \notin F), D(i), S, F)
  <2> SUFFICES ASSUME NEW x, NEW i \in 1 .. n, Resent(x, D(i - 1), S, F)
               PROVE  Resent(Xmit(x, aged[i], aged[i] \notin F), D(i), S, F)
    OBVIOUS
  <2>1. S \subseteq Members(Sent) /\ F \subseteq S /\ num' = num
    BY <1>1
  <2>2. aged[i] \in S /\ aged[i] \notin D(i - 1) /\ D(i - 1) \subseteq S /\ D(i) = D(i - 1) \cup {aged[i]}
    BY <1>9
  <2>3. Resent(Xmit(x, aged[i], aged[i] \notin F), D(i - 1) \cup {aged[i]}, S, F)
    BY <2>1, <2>2, ResendOne
  <2> QED BY <2>2, <2>3
<1>11. done = [i \in 0 .. Len(aged) |->
                IF i = 0 THEN left ELSE Xmit(done[i - 1], aged[i], aged[i] \notin F)]
  <2> DEFINE send(i, x) == Xmit(x, aged[i], aged[i] \notin F)
             h == [i \in 1 .. n |-> [x \in QState |-> IF send(i, x) \in QState THEN send(i, x) ELSE x]]
  <2>1. left \in QState
    BY <1>8 DEF Resent
  <2>2. \A i \in 1 .. n : h[i] \in [QState -> QState]
    <3> HIDE DEF send, n
    <3> QED OBVIOUS
  <2>3. Turns(QState, left, h, n)
    <3> HIDE DEF h, n, done
    <3> QED BY <1>4, <2>1, <2>2, Recursion
  <2>4. PICK f \in [0 .. n -> QState] :
          f = [i \in 0 .. n |-> IF i = 0 THEN left ELSE h[i][f[i - 1]]]
    <3> HIDE DEF h, n, done
    <3> QED BY <2>3 DEF Turns
  <2>5. \A i \in 1 .. n : /\ i \in 0 .. n /\ i - 1 \in 0 .. n /\ f[i - 1] \in QState
                          /\ f[i] = h[i][f[i - 1]]
    <3> SUFFICES ASSUME NEW i \in 1 .. n
                 PROVE  /\ i \in 0 .. n /\ i - 1 \in 0 .. n /\ f[i - 1] \in QState
                        /\ f[i] = h[i][f[i - 1]]
      OBVIOUS
    <3>1. i \in 0 .. n /\ i - 1 \in 0 .. n /\ i # 0
      BY <1>4
    <3> HIDE DEF h, n, done
    <3> QED BY <2>4, <3>1
  <2> DEFINE G == {i \in 0 .. n : Resent(f[i], D(i), S, F)}
  <2>6. \A i \in 1 .. n : i - 1 \in G => f[i] = send(i, f[i - 1]) /\ i \in G
    <3> SUFFICES ASSUME NEW i \in 1 .. n, i - 1 \in G PROVE f[i] = send(i, f[i - 1]) /\ i \in G
      OBVIOUS
    <3>1. Resent(f[i - 1], D(i - 1), S, F)
      OBVIOUS
    <3>2. Resent(send(i, f[i - 1]), D(i), S, F)
      BY <1>10, <3>1
    <3>3. send(i, f[i - 1]) \in QState
      BY <3>2 DEF Resent
    <3>4. h[i][f[i - 1]] = send(i, f[i - 1])
      <4>1. f[i - 1] \in QState
        BY <2>5
      <4> HIDE DEF send, n
      <4> QED BY <3>3, <4>1
    <3> HIDE DEF h, send, done, n
    <3> QED BY <2>5, <3>2, <3>4
  <2>7. 0 \in G
    <3>1. 0 \in 0 .. n
      BY <1>4
    <3>2. f[0] = left
      <4> HIDE DEF h, n, done
      <4> QED BY <2>4, <3>1
    <3> HIDE DEF h, n, done
    <3> QED BY <1>8, <1>9, <3>1, <3>2
  <2>8. \A i \in 0 .. n : i \in G
    <3> HIDE DEF G, n, h, done
    <3> QED BY <1>4, <2>6, <2>7, Climb
  <2>9. f = [i \in 0 .. n |-> IF i = 0 THEN left ELSE Xmit(f[i - 1], aged[i], aged[i] \notin F)]
    <3>1. ASSUME NEW i \in 0 .. n
          PROVE  f[i] = IF i = 0 THEN left ELSE Xmit(f[i - 1], aged[i], aged[i] \notin F)
      <4>1. CASE i = 0
        <5> HIDE DEF h, n, done
        <5> QED BY <2>4, <4>1
      <4>2. CASE i # 0
        <5>1. i \in 1 .. n /\ i - 1 \in 0 .. n
          BY <1>4, <4>2
        <5>2. f[i] = send(i, f[i - 1])
          <6> HIDE DEF G, h, n, done
          <6> QED BY <2>6, <2>8, <5>1
        <5> QED BY <4>2, <5>2
      <4> QED BY <4>1, <4>2
    <3> HIDE DEF h, n, done
    <3> QED BY <2>4, <3>1
  <2> HIDE DEF h, G
  <2> QED BY <2>9, Zenon DEF done
<1> HIDE DEF done
<1>12. Resent(done[n], S, S, F)
  <2> DEFINE G == {i \in 0 .. n : Resent(done[i], D(i), S, F)}
  <2>1. 0 \in G
    <3>1. 0 \in 0 .. n /\ done[0] = left
      BY <1>4, <1>11
    <3> QED BY <1>8, <1>9, <3>1
  <2>2. ASSUME NEW i \in 1 .. n, i - 1 \in G PROVE i \in G
    <3>1. i \in 0 .. n /\ i # 0
      BY <1>4
    <3>2. done[i] = Xmit(done[i - 1], aged[i], aged[i] \notin F)
      BY <1>11, <3>1
    <3>3. Resent(done[i - 1], D(i - 1), S, F)
      BY <2>2
    <3> QED BY <1>10, <3>1, <3>2, <3>3
  <2>3. n \in G
    <3> HIDE DEF G, n
    <3>1. n \in 0 .. n
      BY <1>4
    <3> QED BY <1>4, <2>1, <2>2, <3>1, Climb
  <2> QED BY <1>9, <2>3
<1> HIDE DEF n
<1> DEFINE q == done[n]
<1>13. /\ q \in QState /\ q.free = free /\ q.leaked = leaked \cup F
       /\ \A c \in Buf : c \notin Members(Sent) => q.next[c] = next[c]
  <2>1. S \cap F = F
    OBVIOUS
  <2> QED BY <1>12, <2>1 DEF Resent
<1>14. PICK t : /\ Linked(q.next, q.thead, t) /\ Rising(num, t)
                /\ Members(t) = (Members(s) \ S) \cup (S \ F)
  BY <1>12 DEF Resent, s
<1>15. Become(q)
  BY <1>1
<1> HIDE DEF q
<1>16. /\ next' = q.next /\ thead' = q.thead /\ free' = free /\ leaked' = leaked \cup F
       /\ next' \in [Buf -> Ptr] /\ thead' \in Ptr /\ ttail' \in Ptr /\ leaked' \subseteq Buf
  BY <1>13, <1>15, BecomeIs
<1>17. Members(t) = Members(s) \ F
  BY <1>14 DEF s
<1>18. Sent' = t /\ Linked(next', thead', Sent')
  <2>1. Linked(next', thead', t)
    BY <1>14, <1>16
  <2>2. Sent' = t
    BY <1>16, <2>1, SentIs
  <2> QED BY <2>1, <2>2
<1>19. /\ InOrder' = InOrder /\ OutOrder' = OutOrder
       /\ Linked(next', rhead', InOrder') /\ Linked(next', routorder', OutOrder') /\ Receiving'
  <2>1. Members(InOrder) \subseteq Buf /\ Members(OutOrder) \subseteq Buf
    BY Types, MembersOf
  <2>2. \A c \in Members(InOrder) \cup Members(OutOrder) : c \in Buf /\ c \notin Members(Sent)
    BY <2>1, OwnedFacts
  <2>3. \A c \in Members(InOrder) \cup Members(OutOrder) : next'[c] = next[c] /\ num'[c] = num[c]
    BY <1>1, <1>13, <1>16, <2>2
  <2> QED BY <1>1, <1>16, <2>3, ReceivingFrame
<1>20. Chains'
  BY <1>18, <1>19 DEF Chains
<1>21. Partition'
  <2>1. Owned(free, leaked, Members(s), Members(InOrder), Members(OutOrder))
    BY DEF QInv, Partition, s
  <2>2. /\ free' = free /\ leaked' = leaked \cup F /\ Members(Sent') = Members(s) \ F
        /\ F \subseteq Members(s)
    BY <1>16, <1>17, <1>18 DEF s
  <2> QED BY <1>19, <2>1, <2>2 DEF Partition, Owned
<1>22. TypeOK'
  <2>1. wire' \subseteq Num /\ free' \subseteq Buf
    BY <1>1, <1>16, Types DEF QInv, TypeOK
  <2> QED BY <1>1, <1>16, <2>1, Types, TypeKept
<1>23. Sending'
  <2>1. tlast' = tlast /\ trecvd' = trecvd /\ wire' = wire /\ num' = num /\ open' = open
    BY <1>1
  <2>2. /\ Pos(trecvd) <= Pos(tlast) /\ Pos(tlast) <= MaxSent
        /\ \A m \in wire : 1 <= Pos(m) /\ Pos(m) <= Pos(tlast)
        /\ \A b \in leaked : 1 <= Pos(num[b]) /\ Pos(num[b]) <= Pos(tlast)
        /\ \A b \in Members(s), c \in leaked : num[b] # num[c]
        /\ \A b \in Members(s) : Pos(trecvd) < Pos(num[b]) /\ Pos(num[b]) <= Pos(tlast)
        /\ open => \A i \in Pos(trecvd) + 1 .. Pos(tlast) :
                     \E b \in Members(s) \cup leaked : num[b] = W(i)
    BY DEF QInv, Sending, Queued, s
  <2>3. F \subseteq Members(s)
    BY DEF s
  <2>4. ASSUME NEW b \in leaked' PROVE 1 <= Pos(num[b]) /\ Pos(num[b]) <= Pos(tlast)
    <3>1. CASE b \in leaked
      BY <2>2, <3>1
    <3>2. CASE b \in F
      <4>1. b \in Buf /\ num[b] \in Num /\ Pos(trecvd) < Pos(num[b]) /\ Pos(num[b]) <= Pos(tlast)
        BY <1>2, <2>2, <2>3, <3>2
      <4>2. Pos(trecvd) \in Nat /\ Pos(num[b]) \in Nat
        BY <4>1, Types, Places
      <4> QED BY <4>1, <4>2
    <3> QED BY <1>16, <3>1, <3>2
  <2>5. ~open => t = <<>>
    <3>1. open
      <4>1. Sent # <<>>
        <5> SUFFICES ASSUME Sent = <<>> PROVE FALSE
          OBVIOUS
        <5> QED BY LinkedEmpty
      <4> QED BY <4>1 DEF QInv, Sending
    <3> QED BY <3>1
  <2>6. Queued(t, num, Pos(trecvd), Pos(tlast))
    BY <1>14, <1>17, <2>2 DEF Queued
  <2>7. ASSUME NEW b \in Members(t), NEW c \in leaked' PROVE num[b] # num[c]
    <3>1. b \in Members(s) /\ b \notin F
      BY <1>17
    <3>2. CASE c \in leaked
      BY <2>2, <3>1, <3>2
    <3>3. CASE c \in F
      <4>1. Pos(num[b]) # Pos(num[c])
        BY <1>2, <2>3, <3>1, <3>3, RisingApart
      <4> QED BY <4>1
    <3> QED BY <1>16, <3>2, <3>3
  <2>8. open => \A i \in Pos(trecvd) + 1 .. Pos(tlast) :
                  \E b \in Members(t) \cup leaked' : num[b] = W(i)
    <3>1. Members(s) \cup leaked \subseteq Members(t) \cup leaked'
      BY <1>16, <1>17
    <3> QED BY <2>2, <3>1
  <2> QED BY <1>18, <2>1, <2>2, <2>4, <2>5, <2>6, <2>7, <2>8 DEF Sending
<1> QED BY <1>19, <1>20, <1>21, <1>22, <1>23 DEF QInv

-----------------------------------------------------------------------------
(***************************************************************************)
(* The steps of the receiver.                                              *)
(***************************************************************************)
(* A step that changes nothing. *)
LEMMA Stutter ==
  ASSUME QInv, UNCHANGED vars
  PROVE  QInv'
BY DEF QInv, TypeOK, Chains, Partition, Sending, Receiving, Sent, InOrder, OutOrder,
       vars, sending, receiving

(* The counts only grow. *)
LEMMA CountsRise ==
  ASSUME NEW s \in Seq(Buf), NEW k, NEW n, NEW c \in [0 .. Len(s) -> Nat], Counts(c, s, k, n)
  PROVE  \A i \in 0 .. Len(s) : c[i] <= c[Len(s)]
<1> DEFINE z == Len(s)
           G == {j \in 0 .. z : c[z - j] <= c[z]}
<1>1. z \in Nat
  OBVIOUS
<1> HIDE DEF z
<1>2. 0 \in G
  <2>1. z \in 0 .. z /\ z - 0 = z /\ 0 \in 0 .. z
    BY <1>1
  <2>2. c[z] \in Nat
    BY <2>1 DEF z
  <2> QED BY <2>1, <2>2
<1>3. ASSUME NEW j \in 1 .. z, j - 1 \in G PROVE j \in G
  <2> DEFINE i == z - j
  <2>1. i + 1 \in 1 .. z /\ i \in 0 .. z /\ i + 1 = z - (j - 1) /\ j \in 0 .. z
        /\ (i + 1) - 1 = i /\ z \in 0 .. z /\ i + 1 \in 0 .. z
    BY <1>1
  <2>2. c[i + 1] <= c[z]
    BY <1>3, <2>1
  <2> HIDE DEF i, G
  <2>3. c[i + 1] = c[i] + 1 \/ c[i + 1] = c[i]
    BY <2>1 DEF Counts, z
  <2>4. c[i] \in Nat /\ c[i + 1] \in Nat /\ c[z] \in Nat
    BY <2>1 DEF z
  <2>5. c[i] <= c[z]
    BY <2>2, <2>3, <2>4
  <2> QED BY <2>1, <2>5 DEF G, i
<1>4. \A j \in 0 .. z : j \in G
  <2> HIDE DEF G
  <2> QED BY <1>1, <1>2, <1>3, Climb
<1>5. ASSUME NEW i \in 0 .. z PROVE c[i] <= c[z]
  <2>1. z - i \in 0 .. z /\ z - (z - i) = i
    BY <1>1
  <2>2. z - i \in G
    BY <1>4, <2>1
  <2> QED BY <2>1, <2>2
<1> QED BY <1>5 DEF z

(* A buffer that is not numbered does not change the counts. *)
LEMMA CountedInsert ==
  ASSUME NEW s \in Seq(Buf), NEW k, NEW n, NEW first, NEW last, Counted(s, k, n, first, last),
         NEW j \in 0 .. Len(s), NEW b \in Buf, k[b] # "data"
  PROVE  Counted(Insert(s, j, b), k, n, first, last)
<1> DEFINE t == Insert(s, j, b)
<1>1. PICK c \in [0 .. Len(s) -> Nat] : c[0] = first /\ c[Len(s)] = last /\ Counts(c, s, k, n)
  BY DEF Counted
<1>2. /\ Len(t) = Len(s) + 1 /\ Len(s) \in Nat
      /\ \A i \in 1 .. j : t[i] = s[i]
      /\ t[j + 1] = b
      /\ \A i \in j + 2 .. Len(s) + 1 : t[i] = s[i - 1]
  BY InsertShape
<1> HIDE DEF t
<1> DEFINE d == [i \in 0 .. Len(t) |-> IF i <= j THEN c[i] ELSE c[i - 1]]
<1>3. d \in [0 .. Len(t) -> Nat]
  <2> SUFFICES ASSUME NEW i \in 0 .. Len(t) PROVE (IF i <= j THEN c[i] ELSE c[i - 1]) \in Nat
    OBVIOUS
  <2>1. (i <= j => i \in 0 .. Len(s)) /\ (~(i <= j) => i - 1 \in 0 .. Len(s))
    BY <1>2
  <2> QED BY <2>1
<1>4. d[0] = first /\ d[Len(t)] = last
  <2>1. 0 \in 0 .. Len(t) /\ 0 <= j /\ Len(t) \in 0 .. Len(t) /\ ~(Len(t) <= j)
        /\ Len(t) - 1 = Len(s)
    BY <1>2
  <2> QED BY <1>1, <2>1
<1>5. Counts(d, t, k, n)
  <2> SUFFICES ASSUME NEW i \in 1 .. Len(t)
               PROVE  IF k[t[i]] = "data" THEN d[i] = d[i - 1] + 1 /\ n[t[i]] = W(d[i])
                      ELSE d[i] = d[i - 1]
    BY DEF Counts
  <2>1. CASE i <= j
    <3>1. i \in 1 .. Len(s) /\ t[i] = s[i] /\ i - 1 <= j /\ i \in 0 .. Len(t) /\ i - 1 \in 0 .. Len(t)
      BY <1>2, <2>1
    <3>2. d[i] = c[i] /\ d[i - 1] = c[i - 1]
      BY <2>1, <3>1
    <3> HIDE DEF d
    <3> QED BY <1>1, <3>1, <3>2 DEF Counts
  <2>2. CASE i = j + 1
    <3>1. t[i] = b /\ i - 1 = j /\ ~(i <= j) /\ j <= j /\ i \in 0 .. Len(t) /\ j \in 0 .. Len(t)
      BY <1>2, <2>2
    <3>2. d[i] = c[j] /\ d[i - 1] = c[j]
      BY <3>1
    <3> HIDE DEF d
    <3> QED BY <3>1, <3>2
  <2>3. CASE i > j + 1
    <3>1. i \in j + 2 .. Len(s) + 1 /\ i - 1 \in 1 .. Len(s) /\ ~(i - 1 <= j) /\ ~(i <= j)
          /\ i \in 0 .. Len(t) /\ i - 1 \in 0 .. Len(t)
      BY <1>2, <2>3
    <3>2. d[i] = c[i - 1] /\ d[i - 1] = c[(i - 1) - 1] /\ t[i] = s[i - 1]
      BY <1>2, <3>1
    <3> HIDE DEF d
    <3> QED BY <1>1, <3>1, <3>2 DEF Counts
  <2> QED BY <1>2, <2>1, <2>2, <2>3
<1> HIDE DEF d
<1> QED BY <1>3, <1>4, <1>5 DEF Counted, t

(* A step that leaves routorder alone. *)
LEMMA OutOrderFrame ==
  ASSUME QInv, next' \in [Buf -> Ptr], UNCHANGED <<routorder, rlast, seen>>,
         \A b \in Members(OutOrder) : next'[b] = next[b] /\ num'[b] = num[b] /\ kind'[b] = kind[b]
  PROVE  /\ OutOrder' = OutOrder /\ Linked(next', routorder', OutOrder')
         /\ Ahead(OutOrder', kind', num', Pos(rlast'))
         /\ seen' = {W(i) : i \in 1 .. Pos(rlast')} \cup {num'[b] : b \in Members(OutOrder')}
<1>1. Linked(next', routorder', OutOrder)
  BY LinkedFrame DEF QInv, Chains
<1>2. OutOrder' = OutOrder
  BY <1>1, OutOrderIs
<1>3. Ahead(OutOrder, kind', num', Pos(rlast))
  <2>1. Ahead(OutOrder, kind, num, Pos(rlast))
    BY DEF QInv, Receiving
  <2> QED BY <2>1, AheadFrame
<1>4. {num'[b] : b \in Members(OutOrder)} = {num[b] : b \in Members(OutOrder)}
  OBVIOUS
<1>5. seen = {W(i) : i \in 1 .. Pos(rlast)} \cup {num[b] : b \in Members(OutOrder)}
  BY DEF QInv, Receiving
<1> QED BY <1>1, <1>2, <1>3, <1>4, <1>5

(* A step that leaves rhead alone. *)
LEMMA InOrderFrame ==
  ASSUME QInv, next' \in [Buf -> Ptr], UNCHANGED <<rhead, rtail, rlast, rread, read>>,
         \A b \in Members(InOrder) : next'[b] = next[b] /\ num'[b] = num[b] /\ kind'[b] = kind[b]
  PROVE  /\ InOrder' = InOrder /\ Linked(next', rhead', InOrder')
         /\ Pos(rlast') <= MaxRcvd /\ Pos(rread') = Len(read')
         /\ \A i \in 1 .. Len(read') : read'[i] = W(i)
         /\ Counted(InOrder', kind', num', Len(read'), Pos(rlast'))
         /\ rtail' = At(InOrder', Len(InOrder'))
<1>1. Linked(next', rhead', InOrder)
  BY LinkedFrame DEF QInv, Chains
<1>2. InOrder' = InOrder
  BY <1>1, InOrderIs
<1>3. Counted(InOrder, kind', num', Len(read), Pos(rlast))
  <2>1. Counted(InOrder, kind, num, Len(read), Pos(rlast))
    BY DEF QInv, Receiving
  <2> QED BY <2>1, CountedFrame
<1>4. /\ Pos(rlast) <= MaxRcvd /\ Pos(rread) = Len(read)
      /\ \A i \in 1 .. Len(read) : read[i] = W(i)
      /\ rtail = At(InOrder, Len(InOrder))
  BY DEF QInv, Receiving
<1> QED BY <1>1, <1>2, <1>3, <1>4

(* ch_read() takes the front of rhead.                                     *)
LEMMA ReadStep ==
  ASSUME QInv, Read
  PROVE  QInv'
<1> DEFINE s == InOrder
           t == Drop(s, 1)
<1>1. /\ rhead # NOPKT /\ rhead' = next[rhead]
      /\ rtail' = (IF rtail = rhead THEN NOPKT ELSE rtail)
      /\ IF kind[rhead] = "data"
         THEN rread' = num[rhead] /\ read' = Append(read, num[rhead])
         ELSE UNCHANGED <<rread, read>>
      /\ free' = free \cup {rhead}
      /\ UNCHANGED <<next, num, kind, routorder, rlast, open, seen, sending>>
  BY DEF Read
<1>2. /\ Linked(next, rhead, s) /\ s \in Seq(Buf) /\ Len(s) \in Nat \ {0}
      /\ rhead = s[1] /\ rhead \in Members(s) /\ rhead \in Buf /\ next[rhead] = At(s, 2)
      /\ Members(s) \subseteq Buf /\ 1 \in 0 .. Len(s) /\ Different(s)
  <2>1. Linked(next, rhead, s) /\ s \in Seq(Buf) /\ Members(s) \subseteq Buf
    BY Types, MembersOf DEF QInv, Chains
  <2>2. /\ Len(s) \in Nat \ {0} /\ rhead = s[1] /\ rhead \in Members(s)
        /\ rhead \in Buf /\ next[rhead] = At(s, 2)
    BY <1>1, <2>1, HeadOf
  <2> QED BY <2>1, <2>2 DEF Linked
<1>3. Linked(next, At(s, 2), t) /\ Members(t) = Members(s) \ {rhead}
  <2>1. /\ Linked(next, At(s, 1 + 1), t) /\ Members(t) = Members(s) \ {s[i] : i \in 1 .. 1}
    BY <1>2, LinkedDrop
  <2>2. {s[i] : i \in 1 .. 1} = {rhead}
    BY <1>2
  <2> QED BY <2>1, <2>2
<1>4. t \in Seq(Buf) /\ Len(t) = Len(s) - 1 /\ \A i \in 1 .. Len(s) - 1 : t[i] = s[1 + i]
  BY <1>2, DropShape
<1> HIDE DEF t, s
<1>5. InOrder' = t /\ Linked(next', rhead', InOrder')
  <2>1. next' \in [Buf -> Ptr] /\ Linked(next', rhead', t)
    BY <1>1, <1>2, <1>3, Types
  <2>2. InOrder' = t
    BY <2>1, InOrderIs
  <2> QED BY <2>1, <2>2
<1>6. Sent' = Sent /\ Linked(next', thead', Sent') /\ Sending'
  BY <1>1, Types, SendingFrame
<1>7. /\ OutOrder' = OutOrder /\ Linked(next', routorder', OutOrder')
      /\ Ahead(OutOrder', kind', num', Pos(rlast'))
      /\ seen' = {W(i) : i \in 1 .. Pos(rlast')} \cup {num'[b] : b \in Members(OutOrder')}
  BY <1>1, Types, OutOrderFrame
<1>8. rtail' = At(t, Len(t))
  <2>1. rtail = s[Len(s)]
    <3>1. rtail = At(s, Len(s)) /\ Len(s) \in 1 .. Len(s)
      BY <1>2 DEF QInv, Receiving, s
    <3> QED BY <1>2, <3>1, AtType
  <2>2. CASE Len(s) = 1
    <3>1. At(t, Len(t)) = NOPKT
      BY <1>4, <2>2 DEF At
    <3> QED BY <1>1, <1>2, <2>1, <2>2, <3>1
  <2>3. CASE Len(s) # 1
    <3>1. 1 \in 1 .. Len(s) /\ Len(s) \in 1 .. Len(s) /\ Len(t) \in 1 .. Len(t)
          /\ Len(t) \in 1 .. Len(s) - 1 /\ 1 + Len(t) = Len(s)
      BY <1>2, <1>4, <2>3
    <3>2. s[Len(s)] # s[1]
      BY <1>2, <2>3, <3>1 DEF Different
    <3>3. At(t, Len(t)) = s[Len(s)]
      BY <1>4, <3>1 DEF At
    <3> QED BY <1>1, <1>2, <2>1, <3>2, <3>3
  <2> QED BY <2>2, <2>3
<1>9. PICK c \in [0 .. Len(s) -> Nat] :
        c[0] = Len(read) /\ c[Len(s)] = Pos(rlast) /\ Counts(c, s, kind, num)
  BY DEF QInv, Receiving, Counted, s
<1> DEFINE d == [i \in 0 .. Len(t) |-> c[i + 1]]
<1>10. d \in [0 .. Len(t) -> Nat] /\ d[0] = c[1] /\ d[Len(t)] = Pos(rlast) /\ Counts(d, t, kind, num)
  <2>1. d \in [0 .. Len(t) -> Nat]
    <3>1. \A i \in 0 .. Len(t) : i + 1 \in 0 .. Len(s)
      BY <1>2, <1>4
    <3> QED BY <3>1
  <2>2. d[0] = c[1] /\ d[Len(t)] = Pos(rlast)
    <3>1. 0 \in 0 .. Len(t) /\ Len(t) \in 0 .. Len(t) /\ Len(t) + 1 = Len(s) /\ 0 + 1 = 1
      BY <1>2, <1>4
    <3>2. d[0] = c[0 + 1] /\ d[Len(t)] = c[Len(t) + 1]
      BY <3>1
    <3> HIDE DEF d
    <3> QED BY <1>9, <3>1, <3>2
  <2>3. ASSUME NEW i \in 1 .. Len(t)
        PROVE  IF kind[t[i]] = "data" THEN d[i] = d[i - 1] + 1 /\ num[t[i]] = W(d[i])
               ELSE d[i] = d[i - 1]
    <3>1. i \in 1 .. Len(s) - 1 /\ i \in 0 .. Len(t) /\ i - 1 \in 0 .. Len(t)
          /\ i + 1 \in 1 .. Len(s) /\ (i - 1) + 1 = i /\ (i + 1) - 1 = i /\ 1 + i = i + 1
      BY <1>2, <1>4
    <3>2. d[i] = c[i + 1] /\ d[i - 1] = c[(i - 1) + 1] /\ t[i] = s[1 + i]
      BY <1>4, <3>1
    <3>3. IF kind[s[i + 1]] = "data"
          THEN c[i + 1] = c[(i + 1) - 1] + 1 /\ num[s[i + 1]] = W(c[i + 1])
          ELSE c[i + 1] = c[(i + 1) - 1]
      BY <1>9, <3>1 DEF Counts
    <3> HIDE DEF d
    <3> QED BY <3>1, <3>2, <3>3
  <2> HIDE DEF d
  <2> QED BY <2>1, <2>2, <2>3 DEF Counts
<1> HIDE DEF d
<1>11. /\ IF kind[rhead] = "data" THEN c[1] = Len(read) + 1 /\ num[rhead] = W(c[1])
          ELSE c[1] = Len(read)
       /\ c[1] <= Pos(rlast) /\ c[1] \in Nat /\ Pos(rlast) < NumMod /\ Pos(rlast) \in Nat
  <2>1. 1 \in 1 .. Len(s) /\ 1 - 1 = 0 /\ 1 \in 0 .. Len(s)
    BY <1>2
  <2>2. IF kind[s[1]] = "data" THEN c[1] = c[1 - 1] + 1 /\ num[s[1]] = W(c[1])
        ELSE c[1] = c[1 - 1]
    BY <1>9, <2>1 DEF Counts
  <2>3. c[1] <= Pos(rlast)
    BY <1>2, <1>9, <2>1, CountsRise
  <2>4. Pos(rlast) < NumMod /\ Pos(rlast) \in Nat
    BY Types, Places
  <2> QED BY <1>2, <1>9, <2>1, <2>2, <2>3, <2>4
<1>12. /\ Pos(rread') = Len(read') /\ Len(read') = c[1] /\ rread' \in Num /\ read' \in Seq(Num)
       /\ \A i \in 1 .. Len(read') : read'[i] = W(i)
  <2>1. read \in Seq(Num) /\ rread \in Num /\ num[rhead] \in Num /\ Len(read) \in Nat
    BY <1>2, Types DEF QInv, TypeOK
  <2>2. Pos(rread) = Len(read) /\ \A i \in 1 .. Len(read) : read[i] = W(i)
    BY DEF QInv, Receiving
  <2>3. CASE kind[rhead] = "data"
    <3>1. rread' = num[rhead] /\ read' = Append(read, num[rhead])
      BY <1>1, <2>3
    <3>2. /\ Len(read') = Len(read) + 1 /\ read' \in Seq(Num)
          /\ \A i \in 1 .. Len(read) : read'[i] = read[i]
          /\ read'[Len(read) + 1] = num[rhead]
      BY <2>1, <3>1, AppendProperties
    <3>3. c[1] = Len(read) + 1 /\ num[rhead] = W(c[1]) /\ c[1] < NumMod
      <4>1. c[1] = Len(read) + 1 /\ num[rhead] = W(c[1])
        BY <1>11, <2>3
      <4>2. \A i, z, m \in Nat : i <= z /\ z < m => i < m
        OBVIOUS
      <4>3. NumMod \in Nat
        BY Numbers
      <4>4. c[1] < NumMod
        BY <1>11, <4>2, <4>3, Zenon
      <4> QED BY <4>1, <4>4
    <3>4. Pos(rread') = c[1]
      BY <1>11, <3>1, <3>3, Places
    <3>5. ASSUME NEW i \in 1 .. Len(read') PROVE read'[i] = W(i)
      <4>1. i \in 1 .. Len(read) \/ i = Len(read) + 1
        BY <2>1, <3>2
      <4> QED BY <2>2, <3>2, <3>3, <4>1
    <3> QED BY <2>1, <3>1, <3>2, <3>3, <3>4, <3>5
  <2>4. CASE kind[rhead] # "data"
    <3>1. rread' = rread /\ read' = read /\ c[1] = Len(read)
      BY <1>1, <1>11, <2>4
    <3> QED BY <2>1, <2>2, <3>1
  <2> QED BY <2>3, <2>4
<1>13. Receiving'
  <2>1. Counted(t, kind, num, c[1], Pos(rlast))
    BY <1>10 DEF Counted
  <2>2. Pos(rlast') <= MaxRcvd /\ kind' = kind /\ num' = num /\ rlast' = rlast
    BY <1>1 DEF QInv, Receiving
  <2>3. Counted(InOrder', kind', num', Len(read'), Pos(rlast'))
    BY <1>5, <1>12, <2>1, <2>2
  <2>4. rtail' = At(InOrder', Len(InOrder'))
    BY <1>5, <1>8
  <2> QED BY <1>7, <1>12, <2>2, <2>3, <2>4 DEF Receiving
<1>14. Chains'
  BY <1>5, <1>6, <1>7 DEF Chains
<1>15. Partition'
  <2>1. Owned(free, leaked, Members(Sent), Members(s), Members(OutOrder))
    BY DEF QInv, Partition, s
  <2>2. /\ free' = free \cup {rhead} /\ leaked' = leaked /\ rhead \in Members(s)
        /\ Members(InOrder') = Members(s) \ {rhead}
    BY <1>1, <1>2, <1>3, <1>5 DEF sending
  <2> QED BY <1>6, <1>7, <2>1, <2>2 DEF Partition, Owned
<1>16. TypeOK'
  <2>1. rhead' \in Ptr /\ rtail' \in Ptr
    <3>1. At(s, 2) \in Ptr /\ NOPKT \in Ptr
      BY <1>2, AtType DEF Ptr
    <3> QED BY <1>1, <1>2, <3>1, Types
  <2>2. free' \subseteq Buf
    BY <1>1, <1>2, Types
  <2> QED BY <1>1, <1>12, <2>1, <2>2 DEF QInv, TypeOK, Ptr, sending
<1> QED BY <1>6, <1>13, <1>14, <1>15, <1>16 DEF QInv

(* A packet read into a free buffer is on no chain yet. *)
LEMMA StoreFacts ==
  ASSUME QInv, NEW b, NEW k \in {"data", "unc", "end"}, NEW n \in Num, Store(b, k, n)
  PROVE  /\ open /\ b \in free /\ b \in Buf /\ b \in Ptr
         /\ kind' \in [Buf -> {"data", "unc", "end"}] /\ num' \in [Buf -> Num]
         /\ kind'[b] = k /\ num'[b] = n
         /\ \A c \in Buf : c # b => kind'[c] = kind[c] /\ num'[c] = num[c]
         /\ Members(Sent) \subseteq Buf /\ leaked \subseteq Buf
         /\ Members(InOrder) \subseteq Buf /\ Members(OutOrder) \subseteq Buf
         /\ b \notin Members(Sent) /\ b \notin leaked
         /\ b \notin Members(InOrder) /\ b \notin Members(OutOrder)
<1>1. /\ open /\ b \in free /\ b \in Buf /\ b \in Ptr
      /\ kind' = [kind EXCEPT ![b] = k] /\ num' = [num EXCEPT ![b] = n]
  BY Types DEF Store, Ptr
<1>2. kind \in [Buf -> {"data", "unc", "end"}] /\ num \in [Buf -> Num]
  BY DEF QInv, TypeOK
<1>3. /\ Members(Sent) \subseteq Buf /\ leaked \subseteq Buf
      /\ Members(InOrder) \subseteq Buf /\ Members(OutOrder) \subseteq Buf
  BY Types, MembersOf
<1>4. /\ b \notin Members(Sent) /\ b \notin leaked
      /\ b \notin Members(InOrder) /\ b \notin Members(OutOrder)
  BY <1>1, OwnedFacts
<1> QED BY <1>1, <1>2, <1>3, <1>4

(* A packet that is not numbered has 0 there. *)
LEMMA ZeroNum == 0 \in Num
<1>1. 0 \in Nat /\ 0 < NumMod
  BY Numbers
<1> QED BY <1>1, Numbers

(* rcvpkt() links uncontrolled data in front of rhead.                     *)
LEMMA UncontrolledStep ==
  ASSUME QInv, NEW b \in Buf, Uncontrolled(b)
  PROVE  QInv'
<1> DEFINE s == InOrder
           t == Insert(s, 0, b)
<1>1. /\ Store(b, "unc", 0) /\ next' = [next EXCEPT ![b] = rhead] /\ rhead' = b
      /\ rtail' = (IF rhead = NOPKT THEN b ELSE rtail)
      /\ free' = free \ {b}
      /\ UNCHANGED <<routorder, rlast, rread, open, seen, read, sending>>
  BY DEF Uncontrolled
<1>2. /\ b \in free /\ b \in Ptr
      /\ kind' \in [Buf -> {"data", "unc", "end"}] /\ num' \in [Buf -> Num]
      /\ kind'[b] = "unc"
      /\ \A c \in Buf : c # b => kind'[c] = kind[c] /\ num'[c] = num[c]
      /\ Members(Sent) \subseteq Buf /\ leaked \subseteq Buf
      /\ Members(s) \subseteq Buf /\ Members(OutOrder) \subseteq Buf
      /\ b \notin Members(Sent) /\ b \notin leaked
      /\ b \notin Members(s) /\ b \notin Members(OutOrder)
  BY <1>1, ZeroNum, StoreFacts
<1>3. /\ next' \in [Buf -> Ptr] /\ next'[b] = rhead /\ \A c \in Buf : c # b => next'[c] = next[c]
      /\ rhead \in Ptr /\ rtail \in Ptr
  BY <1>1, Types
<1>4. /\ Linked(next, rhead, s) /\ s \in Seq(Buf) /\ Len(s) \in Nat /\ rhead = At(s, 1)
      /\ \A i \in 1 .. Len(s) : s[i] \in Members(s) /\ s[i] \in Buf
      /\ next \in [Buf -> Ptr] /\ (rhead = NOPKT <=> s = <<>>)
  <2>1. Linked(next, rhead, s) /\ s \in Seq(Buf) /\ Len(s) \in Nat /\ next \in [Buf -> Ptr]
    BY Types DEF QInv, Chains
  <2>2. rhead = NOPKT <=> s = <<>>
    BY <2>1, HeadOf
  <2> QED BY <2>1, <2>2, AtType, InMembers DEF Linked
<1> HIDE DEF s
<1>5. Linked(next', b, t) /\ Members(t) = Members(s) \cup {b}
  <2>1. /\ 0 \in 0 .. Len(s) /\ next'[b] = At(s, 0 + 1) /\ (0 > 0 => next'[s[0]] = b)
        /\ \A i \in 1 .. Len(s) : i # 0 => next'[s[i]] = next[s[i]]
    BY <1>2, <1>3, <1>4
  <2>2. Linked(next', IF 0 = 0 THEN b ELSE rhead, Insert(s, 0, b))
        /\ Members(Insert(s, 0, b)) = Members(s) \cup {b}
    BY <1>2, <1>3, <1>4, <2>1, LinkIn
  <2> QED BY <2>2
<1>6. /\ Len(t) = Len(s) + 1 /\ t[0 + 1] = b /\ t \in Seq(Buf)
      /\ \A i \in 0 + 2 .. Len(s) + 1 : t[i] = s[i - 1]
  <2>1. 0 \in 0 .. Len(s)
    BY <1>4
  <2> QED BY <1>4, <2>1, InsertShape
<1>7. Counted(t, kind', num', Len(read), Pos(rlast))
  <2>1. Counted(s, kind, num, Len(read), Pos(rlast))
    BY DEF QInv, Receiving, s
  <2>2. \A c \in Members(s) : num'[c] = num[c] /\ kind'[c] = kind[c]
    BY <1>2
  <2>3. Counted(s, kind', num', Len(read), Pos(rlast))
    BY <2>1, <2>2, CountedFrame
  <2>4. kind'[b] # "data" /\ 0 \in 0 .. Len(s)
    BY <1>2, <1>4
  <2> QED BY <1>4, <2>3, <2>4, CountedInsert
<1> HIDE DEF t
<1>8. InOrder' = t /\ Linked(next', rhead', InOrder')
  <2>1. Linked(next', rhead', t)
    BY <1>1, <1>5
  <2>2. InOrder' = t
    BY <1>3, <2>1, InOrderIs
  <2> QED BY <2>1, <2>2
<1>9. rtail' = At(t, Len(t))
  <2>1. CASE s = <<>>
    <3>1. Len(s) = 0
      BY <2>1
    <3>2. Len(t) = 1 /\ t[1] = b
      BY <1>6, <3>1
    <3>3. At(t, Len(t)) = b
      BY <3>2 DEF At
    <3> QED BY <1>1, <1>4, <2>1, <3>3
  <2>2. CASE s # <<>>
    <3>1. Len(s) > 0
      BY <1>4, <2>2, EmptySeq
    <3>2. Len(t) \in 0 + 2 .. Len(s) + 1 /\ Len(t) - 1 = Len(s) /\ Len(t) \in 1 .. Len(t)
          /\ Len(s) \in 1 .. Len(s)
      BY <1>4, <1>6, <3>1
    <3>3. At(t, Len(t)) = s[Len(s)] /\ At(s, Len(s)) = s[Len(s)]
      BY <1>6, <3>2 DEF At
    <3>4. rtail = At(s, Len(s))
      BY DEF QInv, Receiving, s
    <3> QED BY <1>1, <1>4, <2>2, <3>3, <3>4
  <2> QED BY <2>1, <2>2
<1>10. Sent' = Sent /\ Linked(next', thead', Sent') /\ Sending'
  <2>1. /\ \A c \in Members(Sent) : next'[c] = next[c]
        /\ \A c \in Members(Sent) \cup leaked : num'[c] = num[c]
    BY <1>2, <1>3
  <2> QED BY <1>1, <1>3, <2>1, SendingFrame
<1>11. /\ OutOrder' = OutOrder /\ Linked(next', routorder', OutOrder')
       /\ Ahead(OutOrder', kind', num', Pos(rlast'))
       /\ seen' = {W(i) : i \in 1 .. Pos(rlast')} \cup {num'[c] : c \in Members(OutOrder')}
  <2>1. \A c \in Members(OutOrder) : next'[c] = next[c] /\ num'[c] = num[c] /\ kind'[c] = kind[c]
    BY <1>2, <1>3
  <2> QED BY <1>1, <1>3, <2>1, OutOrderFrame
<1>12. Receiving'
  <2>1. /\ Pos(rlast) <= MaxRcvd /\ Pos(rread) = Len(read)
        /\ \A i \in 1 .. Len(read) : read[i] = W(i)
    BY DEF QInv, Receiving
  <2> QED BY <1>1, <1>7, <1>8, <1>9, <1>11, <2>1 DEF Receiving
<1>13. Chains'
  BY <1>8, <1>10, <1>11 DEF Chains
<1>14. Partition'
  <2>1. Owned(free, leaked, Members(Sent), Members(s), Members(OutOrder))
    BY DEF QInv, Partition, s
  <2>2. /\ free' = free \ {b} /\ leaked' = leaked /\ Members(InOrder') = Members(s) \cup {b}
    BY <1>1, <1>5, <1>8 DEF sending
  <2> QED BY <1>2, <1>10, <1>11, <2>1, <2>2 DEF Partition, Owned
<1>15. TypeOK'
  <2>1. rhead' \in Ptr /\ rtail' \in Ptr /\ free' \subseteq Buf
    BY <1>1, <1>2, <1>3, Types
  <2> QED BY <1>1, <1>2, <1>3, <2>1 DEF QInv, TypeOK, Ptr, sending
<1> QED BY <1>10, <1>12, <1>13, <1>14, <1>15 DEF QInv

(* clsconn() frees thead and links the packet that ends the connection     *)
(* behind rhead.                                                           *)
LEMMA EndStep ==
  ASSUME QInv, NEW b \in Buf, End(b)
  PROVE  QInv'
<1> DEFINE s == InOrder
           k == Len(s)
           t == Insert(s, k, b)
<1>1. /\ Store(b, "end", 0) /\ open' = FALSE
      /\ next' = (IF rhead # NOPKT THEN [next EXCEPT ![b] = NOPKT, ![rtail] = b]
                  ELSE [next EXCEPT ![b] = NOPKT])
      /\ rhead' = (IF rhead # NOPKT THEN rhead ELSE b)
      /\ rtail' = b
      /\ free' = (free \cup Members(Sent)) \ {b}
      /\ thead' = NOPKT /\ ttail' = NOPKT
      /\ UNCHANGED <<routorder, rlast, rread, seen, read, tlast, trecvd, leaked, wire>>
  BY DEF End
<1>2. /\ b \in free /\ b \in Ptr
      /\ kind' \in [Buf -> {"data", "unc", "end"}] /\ num' \in [Buf -> Num]
      /\ kind'[b] = "end"
      /\ \A c \in Buf : c # b => kind'[c] = kind[c] /\ num'[c] = num[c]
      /\ Members(Sent) \subseteq Buf /\ leaked \subseteq Buf
      /\ Members(s) \subseteq Buf /\ Members(OutOrder) \subseteq Buf
      /\ b \notin Members(Sent) /\ b \notin leaked
      /\ b \notin Members(s) /\ b \notin Members(OutOrder)
  BY <1>1, ZeroNum, StoreFacts
<1>3. /\ Linked(next, rhead, s) /\ s \in Seq(Buf) /\ Len(s) \in Nat /\ Different(s)
      /\ \A i \in 1 .. Len(s) : s[i] \in Members(s) /\ s[i] \in Buf
      /\ next \in [Buf -> Ptr] /\ (rhead = NOPKT <=> s = <<>>) /\ rhead \in Ptr
      /\ rtail = At(s, Len(s)) /\ (s = <<>> <=> Len(s) = 0) /\ NOPKT \in Ptr
  <2>1. Linked(next, rhead, s) /\ s \in Seq(Buf) /\ Len(s) \in Nat /\ next \in [Buf -> Ptr]
        /\ rtail = At(s, Len(s)) /\ rhead \in Ptr
    BY Types DEF QInv, Chains, Receiving
  <2>2. rhead = NOPKT <=> s = <<>>
    BY <2>1, HeadOf
  <2>3. s = <<>> <=> Len(s) = 0
    BY <2>1, EmptySeq
  <2> QED BY <2>1, <2>2, <2>3, AtType, InMembers DEF Linked, Ptr
<1> HIDE DEF s
<1>4. /\ next' \in [Buf -> Ptr] /\ next'[b] = NOPKT /\ (k > 0 => next'[s[k]] = b)
      /\ \A c \in Buf : c # b /\ c \notin Members(s) => next'[c] = next[c]
      /\ \A i \in 1 .. Len(s) : i # k => next'[s[i]] = next[s[i]]
  <2>1. CASE rhead = NOPKT
    <3>1. k = 0 /\ next' = [next EXCEPT ![b] = NOPKT]
      BY <1>1, <1>3, <2>1
    <3>2. \A i \in 1 .. Len(s) : i # k => next'[s[i]] = next[s[i]]
      BY <3>1
    <3> QED BY <1>3, <3>1, <3>2
  <2>2. CASE rhead # NOPKT
    <3>1. k \in 1 .. Len(s) /\ rtail = s[k] /\ s[k] \in Buf /\ s[k] # b /\ s[k] \in Members(s)
      <4>1. k \in 1 .. Len(s)
        BY <1>3, <2>2
      <4> QED BY <1>2, <1>3, <4>1 DEF At
    <3>2. next' = [next EXCEPT ![b] = NOPKT, ![s[k]] = b]
      BY <1>1, <2>2, <3>1
    <3> DEFINE x == s[k]
    <3>3. x \in Buf /\ x # b /\ next' = [next EXCEPT ![b] = NOPKT, ![x] = b]
      BY <3>1, <3>2
    <3> HIDE DEF x, k
    <3>4. /\ next' \in [Buf -> Ptr] /\ next'[b] = NOPKT /\ next'[x] = b
          /\ \A c \in Buf : c # b /\ c # x => next'[c] = next[c]
      BY <1>2, <1>3, <3>3
    <3>5. \A c \in Buf : c # b /\ c \notin Members(s) => next'[c] = next[c]
      BY <3>1, <3>4 DEF x
    <3>6. \A i \in 1 .. Len(s) : i # k => next'[s[i]] = next[s[i]]
      BY <1>2, <1>3, <3>1, <3>4 DEF x, Different
    <3> QED BY <3>4, <3>5, <3>6 DEF x
  <2> QED BY <2>1, <2>2
<1>5. Linked(next', rhead', t) /\ Members(t) = Members(s) \cup {b}
  <2>1. k \in 0 .. Len(s) /\ next'[b] = At(s, k + 1)
    <3>1. k \in 0 .. Len(s) /\ k + 1 \notin 1 .. Len(s)
      BY <1>3
    <3> QED BY <1>4, <3>1 DEF At
  <2>2. Linked(next', IF k = 0 THEN b ELSE rhead, Insert(s, k, b))
        /\ Members(Insert(s, k, b)) = Members(s) \cup {b}
    <3> HIDE DEF k
    <3> QED BY <1>2, <1>3, <1>4, <2>1, LinkIn
  <2>3. rhead' = IF k = 0 THEN b ELSE rhead
    BY <1>1, <1>3
  <2> QED BY <2>2, <2>3
<1>6. /\ Len(t) = k + 1 /\ t[k + 1] = b
  <2>1. k \in 0 .. Len(s)
    BY <1>3
  <2> HIDE DEF k
  <2>2. Len(t) = Len(s) + 1 /\ t[k + 1] = b
    BY <1>3, <2>1, InsertShape
  <2> QED BY <2>2 DEF k
<1>7. Counted(t, kind', num', Len(read), Pos(rlast))
  <2>1. Counted(s, kind, num, Len(read), Pos(rlast))
    BY DEF QInv, Receiving, s
  <2>2. \A c \in Members(s) : num'[c] = num[c] /\ kind'[c] = kind[c]
    BY <1>2
  <2>3. Counted(s, kind', num', Len(read), Pos(rlast))
    BY <2>1, <2>2, CountedFrame
  <2>4. kind'[b] # "data" /\ k \in 0 .. Len(s)
    BY <1>2, <1>3
  <2> HIDE DEF k
  <2> QED BY <1>3, <2>3, <2>4, CountedInsert
<1> HIDE DEF t
<1>8. InOrder' = t /\ rtail' = At(t, Len(t))
  <2>1. InOrder' = t
    BY <1>4, <1>5, InOrderIs
  <2>2. k + 1 \in 1 .. Len(t)
    BY <1>3, <1>6
  <2>3. At(t, Len(t)) = b
    BY <1>6, <2>2 DEF At
  <2> QED BY <1>1, <2>1, <2>3
<1> HIDE DEF k
<1>9. Sent' = <<>> /\ Linked(next', thead', Sent') /\ Members(Sent') = {}
  <2>1. Linked(next', thead', <<>>)
    BY <1>1, LinkedEmpty
  <2>2. Sent' = <<>>
    BY <1>4, <2>1, SentIs
  <2> QED BY <2>1, <2>2, LinkedEmpty
<1>10. /\ OutOrder' = OutOrder /\ Linked(next', routorder', OutOrder')
       /\ Ahead(OutOrder', kind', num', Pos(rlast'))
       /\ seen' = {W(i) : i \in 1 .. Pos(rlast')} \cup {num'[c] : c \in Members(OutOrder')}
  <2>1. \A c \in Members(OutOrder) : c \in Buf /\ c # b /\ c \notin Members(s)
    BY <1>2, OwnedFacts DEF s
  <2>2. \A c \in Members(OutOrder) : next'[c] = next[c] /\ num'[c] = num[c] /\ kind'[c] = kind[c]
    BY <1>2, <1>4, <2>1
  <2> QED BY <1>1, <1>4, <2>2, OutOrderFrame
<1>11. Receiving'
  <2>1. /\ Pos(rlast) <= MaxRcvd /\ Pos(rread) = Len(read)
        /\ \A i \in 1 .. Len(read) : read[i] = W(i)
    BY DEF QInv, Receiving
  <2> QED BY <1>1, <1>7, <1>8, <1>10, <2>1 DEF Receiving
<1>12. Chains'
  BY <1>5, <1>8, <1>9, <1>10 DEF Chains
<1>13. Partition'
  <2>1. Owned(free, leaked, Members(Sent), Members(s), Members(OutOrder))
    BY DEF QInv, Partition, s
  <2>2. /\ free' = (free \cup Members(Sent)) \ {b} /\ leaked' = leaked
        /\ Members(InOrder') = Members(s) \cup {b}
    BY <1>1, <1>5, <1>8
  <2> QED BY <1>2, <1>9, <1>10, <2>1, <2>2 DEF Partition, Owned
<1>14. TypeOK'
  <2>1. rhead' \in Ptr /\ rtail' \in Ptr /\ thead' \in Ptr /\ ttail' \in Ptr /\ free' \subseteq Buf
        /\ open' \in BOOLEAN
    BY <1>1, <1>2, <1>3, Types
  <2> QED BY <1>1, <1>2, <1>4, <2>1 DEF QInv, TypeOK, Ptr
<1>15. Sending'
  <2>1. /\ Pos(trecvd) <= Pos(tlast) /\ Pos(tlast) <= MaxSent
        /\ \A n \in wire : 1 <= Pos(n) /\ Pos(n) <= Pos(tlast)
        /\ \A c \in leaked : 1 <= Pos(num[c]) /\ Pos(num[c]) <= Pos(tlast)
    BY DEF QInv, Sending
  <2>2. \A c \in leaked : num'[c] = num[c]
    BY <1>2
  <2>3. Rising(num', <<>>)
    BY DEF Rising
  <2> QED BY <1>1, <1>9, <2>1, <2>2, <2>3 DEF Sending, Queued
<1> QED BY <1>11, <1>12, <1>13, <1>14, <1>15 DEF QInv

(* The number of a packet that rcvdata() does not drop. *)
LEMMA IncomingPlace ==
  ASSUME QInv, NEW n \in Incoming, ~cmp_le(n, rlast)
  PROVE  /\ n \in Num /\ Pos(n) \in Nat /\ Pos(n) <= MaxRcvd /\ n = W(Pos(n))
         /\ Pos(rlast) < Pos(n) /\ Pos(rlast) \in Nat
         /\ Pos(n) < NumHalf /\ MaxRcvd < NumHalf /\ MaxRcvd \in Nat
         /\ n = Succ(rlast) <=> Pos(n) = Pos(rlast) + 1
<1>1. PICK i \in 1 .. MaxRcvd : n = W(i)
  BY DEF Incoming, W
<1>2. MaxRcvd \in Nat /\ RwSize \in Nat /\ MaxRcvd + RwSize < NumHalf /\ NumHalf \in Nat
      /\ NumHalf + NumHalf = NumMod /\ i \in Nat
  BY Numbers
<1>3. MaxRcvd < NumHalf /\ i < NumHalf /\ i < NumMod
  BY <1>2
<1>4. n \in Num /\ Pos(n) = i
  BY <1>1, <1>2, <1>3, Places
<1>5. Pos(rlast) \in Nat /\ rlast \in Num /\ Pos(rlast) <= MaxRcvd
  BY Types DEF QInv, Receiving
<1>6. Pos(rlast) < NumHalf
  BY <1>2, <1>5
<1>7. ~(Pos(n) <= Pos(rlast))
  BY <1>3, <1>4, <1>5, <1>6, Compare
<1>8. Succ(rlast) \in Num /\ Pos(Succ(rlast)) = Pos(rlast) + 1
  BY <1>5, <1>6, SuccPlace
<1>9. n = Succ(rlast) <=> Pos(n) = Pos(rlast) + 1
  BY <1>4, <1>8, SamePlace
<1>10. Pos(rlast) < Pos(n) /\ Pos(n) <= MaxRcvd
  BY <1>2, <1>4, <1>5, <1>7
<1> QED BY <1>1, <1>2, <1>3, <1>4, <1>5, <1>9, <1>10

(* The place that rcvdata() finds in routorder: behind k buffers.          *)
Place(at, prev, first, k, s, n) ==
  /\ k \in 0 .. Len(s) /\ at = At(s, k + 1)
  /\ first <=> k = 0
  /\ k > 0 => prev = s[k]
  /\ \A i \in 1 .. k : Pos(num[s[i]]) < Pos(n)
  /\ k < Len(s) => Pos(n) <= Pos(num[s[k + 1]])

(* The loop of rcvdata() stops behind the last buffer of a lower number. *)
LEMMA EarlyPlace ==
  ASSUME QInv, NEW n \in Num, Pos(n) < NumHalf, NEW last,
         last = [q \in Buf |-> IF next[q] # NOPKT /\ cmp_gt(n, num[next[q]])
                               THEN last[next[q]] ELSE q],
         NEW first, first = (routorder = NOPKT \/ ~cmp_gt(n, num[routorder])),
         NEW prev, prev = last[routorder],
         NEW at, at = IF first THEN routorder ELSE next[prev]
  PROVE  \E k : Place(at, prev, first, k, OutOrder, n)
<1> DEFINE s == OutOrder
           go(q) == next[q] # NOPKT /\ cmp_gt(n, num[next[q]])
<1>1. /\ s \in Seq(Buf) /\ Len(s) \in Nat /\ routorder = At(s, 1)
      /\ \A i \in 1 .. Len(s) : /\ s[i] \in Buf /\ s[i] # NOPKT /\ s[i] \in Members(s)
                                /\ next[s[i]] = At(s, i + 1) /\ At(s, i) = s[i]
  <2>1. Linked(next, routorder, s) /\ s \in Seq(Buf) /\ Len(s) \in Nat
    BY Types DEF QInv, Chains
  <2> QED BY <2>1, AtType, InMembers DEF Linked
<1>2. Rising(num, s) /\ \A b \in Members(s) : Pos(num[b]) <= MaxRcvd
  BY DEF QInv, Receiving, Ahead
<1>3. \A i \in 1 .. Len(s) : /\ cmp_gt(n, num[s[i]]) <=> Pos(num[s[i]]) < Pos(n)
                             /\ Pos(num[s[i]]) \in Nat
  <2> SUFFICES ASSUME NEW i \in 1 .. Len(s)
               PROVE  /\ cmp_gt(n, num[s[i]]) <=> Pos(num[s[i]]) < Pos(n)
                      /\ Pos(num[s[i]]) \in Nat
    OBVIOUS
  <2>1. num[s[i]] \in Num /\ Pos(num[s[i]]) <= MaxRcvd
    BY <1>1, <1>2, Types
  <2>2. Pos(num[s[i]]) \in Nat /\ Pos(n) \in Nat
    BY <2>1, Places
  <2>3. Pos(num[s[i]]) < NumHalf
    BY <2>1, <2>2, Numbers
  <2>4. cmp_gt(n, num[s[i]]) <=> Pos(n) > Pos(num[s[i]])
    BY <2>1, <2>3, Compare
  <2> QED BY <2>2, <2>4
<1>4. Pos(n) \in Nat
  BY Places
<1> HIDE DEF s
<1>5. CASE first
  <2>1. 0 \in 0 .. Len(s) /\ at = At(s, 0 + 1) /\ (first <=> 0 = 0) /\ (0 > 0 => prev = s[0])
    BY <1>1, <1>5
  <2>2. 0 < Len(s) => Pos(n) <= Pos(num[s[0 + 1]])
    <3> SUFFICES ASSUME 0 < Len(s) PROVE Pos(n) <= Pos(num[s[1]])
      OBVIOUS
    <3>1. 1 \in 1 .. Len(s)
      BY <1>1
    <3>2. routorder = s[1] /\ routorder # NOPKT
      BY <1>1, <3>1
    <3>3. ~(Pos(num[s[1]]) < Pos(n)) /\ Pos(num[s[1]]) \in Nat
      BY <1>3, <1>5, <3>1, <3>2
    <3> QED BY <1>4, <3>3
  <2>3. Place(at, prev, first, 0, s, n)
    BY <2>1, <2>2 DEF Place
  <2> QED BY <2>3 DEF s
<1>6. CASE ~first
  <2>1. routorder # NOPKT /\ cmp_gt(n, num[routorder]) /\ at = next[prev]
    BY <1>6
  <2>2. 1 \in 1 .. Len(s) /\ routorder = s[1]
    BY <1>1, <2>1, AtType DEF At
  <2> DEFINE B == {i \in 1 .. Len(s) : ~go(s[i])}
  <2>3. Len(s) \in B
    <3>1. Len(s) \in 1 .. Len(s) /\ At(s, Len(s) + 1) = NOPKT
      BY <1>1, <2>2 DEF At
    <3> QED BY <1>1, <3>1
  <2>4. PICK k \in B : \A j \in B : k <= j
    <3>1. B \in SUBSET Nat /\ B # {}
      BY <1>1, <2>3
    <3> HIDE DEF B
    <3> QED BY <3>1, Least
  <2>5. k \in 1 .. Len(s) /\ ~go(s[k]) /\ k \in Nat
    BY <1>1
  <2>6. \A i \in 1 .. k - 1 : i \in 1 .. Len(s) /\ i + 1 \in 1 .. Len(s) /\ go(s[i])
                              /\ next[s[i]] = s[i + 1]
    <3> SUFFICES ASSUME NEW i \in 1 .. k - 1
                 PROVE  i \in 1 .. Len(s) /\ i + 1 \in 1 .. Len(s) /\ go(s[i])
                        /\ next[s[i]] = s[i + 1]
      OBVIOUS
    <3>1. i \in 1 .. Len(s) /\ i + 1 \in 1 .. Len(s) /\ ~(k <= i)
      BY <1>1, <2>5
    <3>2. i \notin B
      BY <2>4, <3>1
    <3>3. next[s[i]] = s[i + 1]
      BY <1>1, <3>1
    <3>4. go(s[i])
      BY <3>1, <3>2
    <3> HIDE DEF go
    <3> QED BY <3>1, <3>3, <3>4
  <2> HIDE DEF B
  <2>7. last[s[1]] = last[s[k]]
    <3> DEFINE r == [i \in 0 .. k - 1 |-> last[s[i + 1]]]
               m == k - 1
    <3>1. m \in Nat /\ m = k - 1
      BY <2>5
    <3>2. ASSUME NEW i \in 0 .. m - 1 PROVE r[i] = r[i + 1]
      <4>1. i \in 0 .. k - 1 /\ i + 1 \in 0 .. k - 1 /\ i + 1 \in 1 .. k - 1
        BY <3>1, <2>5
      <4>2. s[i + 1] \in Buf /\ go(s[i + 1]) /\ next[s[i + 1]] = s[(i + 1) + 1]
        BY <1>1, <2>6, <4>1
      <4>3. last[s[i + 1]] = last[s[(i + 1) + 1]]
        BY <4>2
      <4> QED BY <4>1, <4>3
    <3>3. r[0] = last[s[1]] /\ r[m] = last[s[k]]
      <4>1. m \in 0 .. k - 1 /\ m + 1 = k /\ 0 \in 0 .. k - 1
        BY <2>5
      <4>2. r[0] = last[s[0 + 1]] /\ r[m] = last[s[m + 1]]
        <5> HIDE DEF m
        <5> QED BY <4>1
      <4> QED BY <4>1, <4>2
    <3> HIDE DEF r, m
    <3>4. r[0] = r[m]
      BY <3>1, <3>2, LoopValue
    <3> QED BY <3>3, <3>4
  <2>8. last[s[k]] = s[k]
    BY <1>1, <2>5
  <2>9. prev = s[k] /\ at = At(s, k + 1)
    BY <1>1, <2>1, <2>2, <2>5, <2>7, <2>8
  <2>10. ASSUME NEW i \in 1 .. k PROVE Pos(num[s[i]]) < Pos(n)
    <3>1. i \in 1 .. Len(s)
      BY <1>1, <2>5
    <3>2. cmp_gt(n, num[s[i]])
      <4>1. CASE i = 1
        BY <2>1, <2>2, <4>1
      <4>2. CASE i # 1
        <5>1. i - 1 \in 1 .. k - 1 /\ (i - 1) + 1 = i
          BY <2>5, <4>2
        <5> QED BY <2>6, <5>1
      <4> QED BY <4>1, <4>2
    <3> QED BY <1>3, <3>1, <3>2
  <2>11. k < Len(s) => Pos(n) <= Pos(num[s[k + 1]])
    <3> SUFFICES ASSUME k < Len(s) PROVE Pos(n) <= Pos(num[s[k + 1]])
      OBVIOUS
    <3>1. k + 1 \in 1 .. Len(s)
      BY <1>1, <2>5
    <3>2. next[s[k]] = s[k + 1] /\ s[k + 1] # NOPKT
      BY <1>1, <2>5, <3>1
    <3>3. ~(Pos(num[s[k + 1]]) < Pos(n)) /\ Pos(num[s[k + 1]]) \in Nat
      BY <1>3, <2>5, <3>1, <3>2
    <3> QED BY <1>4, <3>3
  <2>12. k \in 0 .. Len(s) /\ (first <=> k = 0)
    BY <1>6, <2>5
  <2>13. Place(at, prev, first, k, s, n)
    BY <2>9, <2>10, <2>11, <2>12 DEF Place
  <2> QED BY <2>13 DEF s
<1> QED BY <1>5, <1>6

(* rcvdata() links a packet that came too early into routorder, unless its *)
(* number is there.                                                        *)
LEMMA EarlyStep ==
  ASSUME QInv, NEW b \in Buf, NEW n \in Incoming, Early(b, n)
  PROVE  QInv'
<1> DEFINE go(q) == next[q] # NOPKT /\ cmp_gt(n, num[next[q]])
           T == {q \in Buf : ~go(q)}
           v == [q \in Buf |-> q]
           last[q \in Buf] ==
             IF next[q] # NOPKT /\ cmp_gt(n, num[next[q]]) THEN last[next[q]] ELSE q
           first == routorder = NOPKT \/ ~cmp_gt(n, num[routorder])
           prev  == last[routorder]
           at    == IF first THEN routorder ELSE next[prev]
           s     == OutOrder
<1>1. /\ InWindow(n) /\ ~cmp_le(n, rlast) /\ n # Succ(rlast) /\ Store(b, "data", n)
      /\ IF at # NOPKT /\ num[at] = n
         THEN UNCHANGED <<next, routorder, free, seen>>
         ELSE /\ next' = (IF first THEN [next EXCEPT ![b] = at]
                          ELSE [next EXCEPT ![b] = at, ![prev] = b])
              /\ routorder' = (IF first THEN b ELSE routorder)
              /\ free' = free \ {b}
              /\ seen' = seen \cup {n}
      /\ UNCHANGED <<rhead, rtail, rlast, rread, open, read, sending>>
  BY DEF Early, last
<1>2. last = [q \in Buf |-> IF next[q] # NOPKT /\ cmp_gt(n, num[next[q]])
                            THEN last[next[q]] ELSE q]
  <2>1. \A q \in Buf : q \notin T => next[q] \in Buf
    <3>1. \A q \in Buf : q \notin T => next[q] # NOPKT
      OBVIOUS
    <3> HIDE DEF T, last, v, s, at
    <3> QED BY <3>1, Types DEF Ptr
  <2>2. Returns(Buf, T, v, next)
    <3> HIDE DEF T, v, last, s, at
    <3> QED BY <2>1, LoopReturns
  <2>3. PICK f : f = [q \in Buf |-> IF q \in T THEN v[q] ELSE f[next[q]]]
    <3> HIDE DEF T, v, last, s, at
    <3> QED BY <2>2 DEF Returns
  <2>4. f = [q \in Buf |-> IF next[q] # NOPKT /\ cmp_gt(n, num[next[q]])
                           THEN f[next[q]] ELSE q]
    <3>1. ASSUME NEW q \in Buf
          PROVE  (IF q \in T THEN v[q] ELSE f[next[q]])
                   = IF next[q] # NOPKT /\ cmp_gt(n, num[next[q]]) THEN f[next[q]] ELSE q
      <4>1. v[q] = q /\ (q \in T <=> ~go(q))
        OBVIOUS
      <4> HIDE DEF T, v, last, s, at
      <4> QED BY <4>1
    <3> HIDE DEF T, v, last, s, at
    <3> QED BY <2>3, <3>1
  <2> QED BY <2>4, Zenon DEF last
<1> HIDE DEF last, T, v, go
<1>3. /\ n \in Num /\ Pos(n) \in Nat /\ Pos(n) <= MaxRcvd
      /\ Pos(rlast) + 1 < Pos(n) /\ Pos(rlast) \in Nat
      /\ Pos(n) < NumHalf /\ MaxRcvd < NumHalf /\ MaxRcvd \in Nat
  <2>1. /\ n \in Num /\ Pos(n) \in Nat /\ Pos(n) <= MaxRcvd
        /\ Pos(rlast) < Pos(n) /\ Pos(rlast) \in Nat
        /\ Pos(n) < NumHalf /\ MaxRcvd < NumHalf /\ MaxRcvd \in Nat
        /\ n = Succ(rlast) <=> Pos(n) = Pos(rlast) + 1
    BY <1>1, IncomingPlace
  <2>2. Pos(n) # Pos(rlast) + 1
    BY <1>1, <2>1
  <2> QED BY <2>1, <2>2
<1>4. PICK k : Place(at, prev, first, k, s, n)
  <2> DEFINE x == at
             p == prev
             y == first
  <2>1. /\ y = (routorder = NOPKT \/ ~cmp_gt(n, num[routorder])) /\ p = last[routorder]
        /\ x = IF y THEN routorder ELSE next[p]
    OBVIOUS
  <2> HIDE DEF x, p, y, at, prev, first
  <2>2. \E k : Place(x, p, y, k, OutOrder, n)
    BY <1>2, <1>3, <2>1, EarlyPlace
  <2> QED BY <2>2 DEF x, p, y, s
<1> HIDE DEF at, prev, first
<1>5. /\ k \in 0 .. Len(s) /\ at = At(s, k + 1) /\ (first <=> k = 0) /\ (k > 0 => prev = s[k])
      /\ \A i \in 1 .. k : Pos(num[s[i]]) < Pos(n)
      /\ k < Len(s) => Pos(n) <= Pos(num[s[k + 1]])
  BY <1>4 DEF Place
<1>6. /\ b \in free /\ b \in Ptr
      /\ kind' \in [Buf -> {"data", "unc", "end"}] /\ num' \in [Buf -> Num]
      /\ kind'[b] = "data" /\ num'[b] = n
      /\ \A c \in Buf : c # b => kind'[c] = kind[c] /\ num'[c] = num[c]
      /\ Members(Sent) \subseteq Buf /\ leaked \subseteq Buf
      /\ Members(InOrder) \subseteq Buf /\ Members(s) \subseteq Buf
      /\ b \notin Members(Sent) /\ b \notin leaked
      /\ b \notin Members(InOrder) /\ b \notin Members(s)
  BY <1>1, <1>3, StoreFacts
<1>7. /\ Linked(next, routorder, s) /\ s \in Seq(Buf) /\ Len(s) \in Nat /\ Different(s)
      /\ \A i \in 1 .. Len(s) : s[i] \in Members(s) /\ s[i] \in Buf /\ s[i] # NOPKT
      /\ next \in [Buf -> Ptr] /\ routorder \in Ptr
  <2>1. Linked(next, routorder, s) /\ s \in Seq(Buf) /\ Len(s) \in Nat /\ next \in [Buf -> Ptr]
        /\ routorder \in Ptr
    BY Types DEF QInv, Chains
  <2> QED BY <2>1, AtType, InMembers DEF Linked
<1>8. /\ Rising(num, s)
      /\ \A c \in Members(s) : /\ Pos(rlast) + 1 < Pos(num[c]) /\ Pos(num[c]) <= MaxRcvd
                               /\ kind[c] = "data"
      /\ seen = {W(i) : i \in 1 .. Pos(rlast)} \cup {num[c] : c \in Members(s)}
  BY DEF QInv, Receiving, Ahead, s
<1>9. CASE at # NOPKT /\ num[at] = n
  <2>1. UNCHANGED <<next, routorder, free, seen, rhead, rtail, rlast, rread, open, read, sending>>
    BY <1>1, <1>9
  <2>2. next' \in [Buf -> Ptr] /\ next' = next
    BY <1>7, <2>1
  <2>3. Sent' = Sent /\ Linked(next', thead', Sent') /\ Sending'
    <3>1. \A c \in Members(Sent) \cup leaked : num'[c] = num[c]
      BY <1>6
    <3> QED BY <2>1, <2>2, <3>1, SendingFrame
  <2>4. /\ InOrder' = InOrder /\ Linked(next', rhead', InOrder')
        /\ Pos(rlast') <= MaxRcvd /\ Pos(rread') = Len(read')
        /\ \A i \in 1 .. Len(read') : read'[i] = W(i)
        /\ Counted(InOrder', kind', num', Len(read'), Pos(rlast'))
        /\ rtail' = At(InOrder', Len(InOrder'))
    <3>1. \A c \in Members(InOrder) : num'[c] = num[c] /\ kind'[c] = kind[c]
      BY <1>6
    <3> QED BY <2>1, <2>2, <3>1, InOrderFrame
  <2>5. /\ OutOrder' = OutOrder /\ Linked(next', routorder', OutOrder')
        /\ Ahead(OutOrder', kind', num', Pos(rlast'))
        /\ seen' = {W(i) : i \in 1 .. Pos(rlast')} \cup {num'[c] : c \in Members(OutOrder')}
    <3>1. \A c \in Members(OutOrder) : num'[c] = num[c] /\ kind'[c] = kind[c]
      BY <1>6 DEF s
    <3> QED BY <2>1, <2>2, <3>1, OutOrderFrame
  <2>6. TypeOK'
    BY <1>6, <2>1 DEF QInv, TypeOK, sending
  <2>7. Partition'
    BY <2>1, <2>3, <2>4, <2>5 DEF QInv, Partition, sending
  <2>8. Chains' /\ Receiving'
    BY <2>3, <2>4, <2>5 DEF Chains, Receiving
  <2> QED BY <2>3, <2>6, <2>7, <2>8 DEF QInv
<1>10. CASE ~(at # NOPKT /\ num[at] = n)
  <2> DEFINE t == Insert(s, k, b)
  <2>1. /\ next' = (IF first THEN [next EXCEPT ![b] = at]
                    ELSE [next EXCEPT ![b] = at, ![prev] = b])
        /\ routorder' = (IF first THEN b ELSE routorder)
        /\ free' = free \ {b} /\ seen' = seen \cup {n}
        /\ UNCHANGED <<rhead, rtail, rlast, rread, open, read, sending>>
    BY <1>1, <1>10
  <2>2. at \in Ptr
    BY <1>5, <1>7, AtType
  <2>3. /\ next' \in [Buf -> Ptr] /\ next'[b] = at /\ (k > 0 => next'[s[k]] = b)
        /\ \A c \in Buf : c # b /\ c \notin Members(s) => next'[c] = next[c]
        /\ \A i \in 1 .. Len(s) : i # k => next'[s[i]] = next[s[i]]
    <3>1. CASE k = 0
      <4>1. next' = [next EXCEPT ![b] = at]
        BY <1>5, <2>1, <3>1
      <4>2. \A i \in 1 .. Len(s) : i # k => next'[s[i]] = next[s[i]]
        BY <1>6, <1>7, <4>1
      <4> QED BY <1>7, <2>2, <3>1, <4>1, <4>2
    <3>2. CASE k # 0
      <4>1. k \in 1 .. Len(s) /\ prev = s[k] /\ prev \in Buf /\ prev # b /\ prev \in Members(s)
        <5>1. k \in 1 .. Len(s) /\ prev = s[k]
          BY <1>5, <1>7, <3>2
        <5> QED BY <1>6, <1>7, <5>1
      <4>2. next' = [next EXCEPT ![b] = at, ![prev] = b]
        BY <1>5, <2>1, <3>2
      <4>3. /\ next' \in [Buf -> Ptr] /\ next'[b] = at /\ next'[prev] = b
            /\ \A c \in Buf : c # b /\ c # prev => next'[c] = next[c]
        BY <1>6, <1>7, <2>2, <4>1, <4>2
      <4>4. \A c \in Buf : c # b /\ c \notin Members(s) => next'[c] = next[c]
        BY <4>1, <4>3
      <4>5. \A i \in 1 .. Len(s) : i # k => next'[s[i]] = next[s[i]]
        BY <1>6, <1>7, <4>1, <4>3 DEF Different
      <4> QED BY <4>1, <4>3, <4>4, <4>5
    <3> QED BY <3>1, <3>2
  <2>4. Linked(next', routorder', t) /\ Members(t) = Members(s) \cup {b}
    <3>1. next'[b] = At(s, k + 1) /\ k \in 0 .. Len(s)
      BY <1>5, <2>3
    <3>2. Linked(next', IF k = 0 THEN b ELSE routorder, t) /\ Members(t) = Members(s) \cup {b}
      <4> HIDE DEF s
      <4> QED BY <1>6, <1>7, <2>3, <3>1, LinkIn
    <3> QED BY <1>5, <2>1, <3>2
  <2>5. Rising(num', t)
    <3>1. \A c \in Members(s) : num'[c] = num[c]
      BY <1>6
    <3>2. Rising(num', s)
      BY <1>8, <3>1, RisingFrame
    <3>3. \A i \in 1 .. k : Pos(num'[s[i]]) < Pos(num'[b])
      <4>1. \A i \in 1 .. k : i \in 1 .. Len(s)
        BY <1>5, <1>7
      <4> QED BY <1>5, <1>6, <1>7, <3>1, <4>1
    <3>4. k < Len(s) => Pos(num'[b]) < Pos(num'[s[k + 1]])
      <4> SUFFICES ASSUME k < Len(s) PROVE Pos(n) < Pos(num[s[k + 1]])
        <5>1. k < Len(s) => k + 1 \in 1 .. Len(s)
          BY <1>5, <1>7
        <5> QED BY <1>6, <1>7, <3>1, <5>1
      <4>1. k + 1 \in 1 .. Len(s)
        BY <1>5, <1>7
      <4>2. at = s[k + 1] /\ s[k + 1] \in Buf /\ s[k + 1] # NOPKT
        BY <1>5, <1>7, <4>1 DEF At
      <4>3. num[s[k + 1]] # n /\ num[s[k + 1]] \in Num
        BY <1>10, <4>2, Types
      <4>4. Pos(num[s[k + 1]]) # Pos(n) /\ Pos(num[s[k + 1]]) \in Nat
        BY <1>3, <4>3, SamePlace, Places
      <4> QED BY <1>3, <1>5, <4>4
    <3> HIDE DEF s
    <3> QED BY <1>5, <1>6, <1>7, <3>2, <3>3, <3>4, InsertRises
  <2> HIDE DEF t
  <2>6. OutOrder' = t
    BY <2>3, <2>4, OutOrderIs
  <2>7. Sent' = Sent /\ Linked(next', thead', Sent') /\ Sending'
    <3>1. \A c \in Members(Sent) : c \notin Members(s)
      BY OwnedFacts DEF s
    <3>2. /\ \A c \in Members(Sent) : next'[c] = next[c]
          /\ \A c \in Members(Sent) \cup leaked : num'[c] = num[c]
      BY <1>6, <2>3, <3>1
    <3> QED BY <2>1, <2>3, <3>2, SendingFrame
  <2>8. /\ InOrder' = InOrder /\ Linked(next', rhead', InOrder')
        /\ Pos(rlast') <= MaxRcvd /\ Pos(rread') = Len(read')
        /\ \A i \in 1 .. Len(read') : read'[i] = W(i)
        /\ Counted(InOrder', kind', num', Len(read'), Pos(rlast'))
        /\ rtail' = At(InOrder', Len(InOrder'))
    <3>1. \A c \in Members(InOrder) : c \notin Members(s)
      BY OwnedFacts DEF s
    <3>2. \A c \in Members(InOrder) : next'[c] = next[c] /\ num'[c] = num[c] /\ kind'[c] = kind[c]
      BY <1>6, <2>3, <3>1
    <3> QED BY <2>1, <2>3, <3>2, InOrderFrame
  <2>9. Ahead(t, kind', num', Pos(rlast))
    <3>1. ASSUME NEW c \in Members(t)
          PROVE  /\ Pos(rlast) + 1 < Pos(num'[c]) /\ Pos(num'[c]) <= MaxRcvd
                 /\ kind'[c] = "data"
      <4>1. CASE c = b
        BY <1>3, <1>6, <4>1
      <4>2. CASE c # b
        <5>1. c \in Members(s) /\ num'[c] = num[c] /\ kind'[c] = kind[c]
          BY <1>6, <2>4, <4>2
        <5> QED BY <1>8, <5>1
      <4> QED BY <4>1, <4>2
    <3> QED BY <2>5, <3>1 DEF Ahead
  <2>10. seen' = {W(i) : i \in 1 .. Pos(rlast)} \cup {num'[c] : c \in Members(t)}
    <3>1. {num'[c] : c \in Members(t)} = {num[c] : c \in Members(s)} \cup {n}
      BY <1>6, <2>4
    <3> QED BY <1>8, <2>1, <3>1
  <2>11. Receiving'
    BY <2>1, <2>6, <2>8, <2>9, <2>10 DEF Receiving
  <2>12. Chains'
    BY <2>4, <2>6, <2>7, <2>8 DEF Chains
  <2>13. Partition'
    <3>1. Owned(free, leaked, Members(Sent), Members(InOrder), Members(s))
      BY DEF QInv, Partition, s
    <3>2. /\ free' = free \ {b} /\ leaked' = leaked /\ Members(OutOrder') = Members(s) \cup {b}
      BY <2>1, <2>4, <2>6 DEF sending
    <3> QED BY <1>6, <2>7, <2>8, <3>1, <3>2 DEF Partition, Owned
  <2>14. TypeOK'
    <3>1. routorder' \in Ptr /\ free' \subseteq Buf /\ seen' \subseteq Num
      <4>1. seen \subseteq Num
        BY DEF QInv, TypeOK
      <4> QED BY <1>3, <1>6, <1>7, <2>1, <4>1, Types
    <3> QED BY <1>6, <2>1, <2>3, <3>1 DEF QInv, TypeOK, Ptr, sending
  <2> QED BY <2>7, <2>11, <2>12, <2>13, <2>14 DEF QInv
<1> QED BY <1>9, <1>10

(* One turn of the loop of rcvdata() that moves buffers to rhead. *)
Moving == [next : [Buf -> Buf \cup {NOPKT}], rhead : Buf \cup {NOPKT},
           rtail : Buf \cup {NOPKT}, rlast : Num, at : Buf \cup {NOPKT}]

Goes(q) == q.at # NOPKT /\ num'[q.at] = Succ(q.rlast)

MoveOne(q) ==
  [next  |-> IF q.rhead = NOPKT THEN q.next ELSE [q.next EXCEPT ![q.rtail] = q.at],
   rhead |-> IF q.rhead = NOPKT THEN q.at ELSE q.rhead,
   rtail |-> q.at, rlast |-> Succ(q.rlast), at |-> q.next[q.at]]

(* One round of the loop of rcvdata(): the front of routorder goes behind  *)
(* rhead.                                                                  *)
LEMMA MoveOneIs ==
  ASSUME NEW q \in Moving, Goes(q)
  PROVE  MoveOne(q) \in Moving
<1>1. /\ q.next \in [Buf -> Buf \cup {NOPKT}] /\ q.rhead \in Buf \cup {NOPKT}
      /\ q.rtail \in Buf \cup {NOPKT} /\ q.rlast \in Num /\ q.at \in Buf
  BY DEF Moving, Goes
<1>2. Succ(q.rlast) \in Num
  BY <1>1, Numbers DEF Succ
<1>3. (IF q.rhead = NOPKT THEN q.next ELSE [q.next EXCEPT ![q.rtail] = q.at])
        \in [Buf -> Buf \cup {NOPKT}]
  BY <1>1
<1>4. q.next[q.at] \in Buf \cup {NOPKT}
  BY <1>1
<1> QED BY <1>1, <1>2, <1>3, <1>4 DEF Moving, MoveOne

(* It moves the first m of the buffers u. *)
Moved(e, u, m, b, front) ==
  /\ m \in 1 .. Len(u) /\ Pos(rlast) + m <= MaxRcvd
  /\ \A i \in 1 .. m : num'[u[i]] = W(Pos(rlast) + i)
  /\ m < Len(u) => num'[u[m + 1]] # W(Pos(rlast) + m + 1)
  /\ e = [next  |-> IF rhead = NOPKT THEN front ELSE [front EXCEPT ![rtail] = b],
          rhead |-> IF rhead = NOPKT THEN b ELSE rhead,
          rtail |-> u[m], rlast |-> W(Pos(rlast) + m), at |-> At(u, m + 1)]

(* The whole loop: the longest run of routorder that continues rlast moves. *)
LEMMA Moves ==
  ASSUME num' \in [Buf -> Num], NEW front \in [Buf -> Ptr], NEW b \in Buf, NEW u,
         Linked(front, b, u), rhead \in Ptr, rtail \in Ptr,
         rhead # NOPKT => rtail \in Buf /\ rtail \notin Members(u),
         rlast \in Num, Pos(rlast) <= MaxRcvd, num'[b] = Succ(rlast),
         \A c \in Members(u) : Pos(num'[c]) <= MaxRcvd,
         NEW move,
         move = [q \in Moving |-> IF Goes(q) THEN move[MoveOne(q)] ELSE q],
         NEW start, start = [next |-> front, rhead |-> rhead, rtail |-> rtail,
                             rlast |-> rlast, at |-> b]
  PROVE  \E m : Moved(move[start], u, m, b, front)
<1> DEFINE l == Pos(rlast)
           N == IF rhead = NOPKT THEN front ELSE [front EXCEPT ![rtail] = b]
           H == IF rhead = NOPKT THEN b ELSE rhead
           B == {i \in 1 .. Len(u) : i = Len(u) \/ num'[u[i + 1]] # W(l + i + 1)}
<1>1. /\ u \in Seq(Buf) /\ Len(u) \in Nat /\ Different(u) /\ b = At(u, 1)
      /\ \A i \in 1 .. Len(u) : /\ u[i] \in Buf /\ u[i] # NOPKT /\ u[i] \in Members(u)
                                /\ front[u[i]] = At(u, i + 1) /\ At(u, i) = u[i]
      /\ \A i : At(u, i) \in Buf \cup {NOPKT}
  BY AtType, InMembers DEF Linked, Ptr
<1>2. 1 \in 1 .. Len(u) /\ u[1] = b /\ b # NOPKT /\ Len(u) \in 1 .. Len(u)
  <2>1. b # NOPKT
    BY ListAssumption
  <2>2. 1 \in 1 .. Len(u)
    BY <1>1, <2>1 DEF At
  <2> QED BY <1>1, <2>1, <2>2
<1>3. l \in Nat /\ MaxRcvd \in Nat /\ NumHalf \in Nat /\ MaxRcvd < NumHalf /\ l < NumHalf
      /\ l <= MaxRcvd /\ NumMod \in Nat /\ NumMod = NumHalf + NumHalf /\ 0 < NumHalf
  <2>1. /\ l \in Nat /\ MaxRcvd \in Nat /\ NumHalf \in Nat /\ l <= MaxRcvd /\ 0 < NumHalf
        /\ MaxRcvd + RwSize < NumHalf /\ RwSize \in Nat /\ NumMod \in Nat /\ NumMod = NumHalf + NumHalf
    BY Numbers, Places
  <2> HIDE DEF l
  <2> QED BY <2>1
<1> HIDE DEF l
<1>4. PICK m \in B : \A j \in B : m <= j
  <2>1. B \in SUBSET Nat /\ B # {}
    BY <1>1, <1>2
  <2> HIDE DEF B
  <2> QED BY <2>1, Least
<1>5. /\ m \in 1 .. Len(u) /\ m \in Nat
      /\ m < Len(u) => num'[u[m + 1]] # W(l + m + 1)
  BY <1>1
<1>6. \A i \in 1 .. m : num'[u[i]] = W(l + i)
  <2> SUFFICES ASSUME NEW i \in 1 .. m PROVE num'[u[i]] = W(l + i)
    OBVIOUS
  <2>1. CASE i = 1
    <3>1. rlast \in Num /\ Pos(rlast) < NumHalf
      BY <1>3 DEF l
    <3>2. Succ(rlast) = W(l + 1)
      BY <3>1, SuccPlace DEF l
    <3> QED BY <1>2, <2>1, <3>2
  <2>2. CASE i # 1
    <3>1. i - 1 \in 1 .. Len(u) /\ ~(m <= i - 1) /\ (i - 1) + 1 = i /\ i - 1 # Len(u)
          /\ l + (i - 1) + 1 = l + i
      BY <1>1, <1>3, <1>5, <2>2
    <3>2. i - 1 \notin B
      BY <1>4, <3>1
    <3>3. num'[u[(i - 1) + 1]] = W(l + (i - 1) + 1)
      BY <3>1, <3>2
    <3> QED BY <3>1, <3>3
  <2> QED BY <2>1, <2>2
<1> HIDE DEF B
<1>7. \A i \in 0 .. m : l + i <= MaxRcvd
  <2> DEFINE G == {i \in 0 .. m : l + i <= MaxRcvd}
  <2>1. 0 \in G
    BY <1>3, <1>5
  <2>2. ASSUME NEW i \in 1 .. m, i - 1 \in G PROVE i \in G
    <3>1. l + (i - 1) <= MaxRcvd /\ i \in 1 .. Len(u) /\ i \in 0 .. m
      BY <1>1, <1>5, <2>2
    <3>2. l + i \in Nat /\ l + i < NumMod
      BY <1>3, <3>1
    <3>3. Pos(num'[u[i]]) = l + i
      BY <1>6, <3>2, Places
    <3>4. Pos(num'[u[i]]) <= MaxRcvd
      BY <1>1, <3>1
    <3> QED BY <3>1, <3>3, <3>4
  <2>3. \A i \in 0 .. m : i \in G
    <3> HIDE DEF G
    <3> QED BY <1>5, <2>1, <2>2, Climb
  <2> QED BY <2>3
<1>8. \A i \in 0 .. m : W(l + i) \in Num /\ Succ(W(l + i)) = W(l + i + 1)
  <2> SUFFICES ASSUME NEW i \in 0 .. m PROVE W(l + i) \in Num /\ Succ(W(l + i)) = W(l + i + 1)
    OBVIOUS
  <2>1. l + i \in Nat /\ l + i < NumHalf /\ l + i < NumMod
    <3>1. l + i <= MaxRcvd
      BY <1>7
    <3> QED BY <1>3, <1>5, <3>1
  <2>2. W(l + i) \in Num /\ Pos(W(l + i)) = l + i
    BY <2>1, Places
  <2>3. Succ(W(l + i)) = W(Pos(W(l + i)) + 1)
    BY <2>1, <2>2, SuccPlace
  <2> QED BY <2>2, <2>3
<1>9. rlast = W(l + 0)
  BY <1>3, Places DEF l
<1>10. /\ N \in [Buf -> Buf \cup {NOPKT}] /\ H \in Buf \cup {NOPKT} /\ H # NOPKT
       /\ \A i \in 1 .. Len(u) : N[u[i]] = At(u, i + 1)
  <2>1. N \in [Buf -> Buf \cup {NOPKT}]
    BY DEF Ptr
  <2>2. \A i \in 1 .. Len(u) : N[u[i]] = At(u, i + 1)
    BY <1>1
  <2> QED BY <1>2, <2>1, <2>2 DEF Ptr
<1> HIDE DEF N, H
<1> DEFINE p == [i \in 0 .. m |->
                   IF i = 0 THEN start
                   ELSE [next |-> N, rhead |-> H, rtail |-> u[i], rlast |-> W(l + i),
                         at |-> At(u, i + 1)]]
<1>11. \A i \in 0 .. m : p[i] \in Moving
  <2>1. start \in Moving
    BY DEF Moving, Ptr
  <2>2. ASSUME NEW i \in 1 .. m
        PROVE  [next |-> N, rhead |-> H, rtail |-> u[i], rlast |-> W(l + i),
                at |-> At(u, i + 1)] \in Moving
    <3>1. u[i] \in Buf /\ W(l + i) \in Num /\ At(u, i + 1) \in Buf \cup {NOPKT}
      <4>1. i \in 1 .. Len(u) /\ i \in 0 .. m
        BY <1>1, <1>5
      <4> QED BY <1>1, <1>8, <4>1
    <3> QED BY <1>10, <3>1 DEF Moving
  <2>3. \A i \in 0 .. m : i = 0 \/ i \in 1 .. m
    BY <1>5
  <2> QED BY <2>1, <2>2, <2>3
<1>12. ASSUME NEW i \in 0 .. m - 1 PROVE Goes(p[i]) /\ MoveOne(p[i]) = p[i + 1]
  <2>1. i \in 0 .. m /\ i + 1 \in 0 .. m /\ i + 1 # 0 /\ i + 1 \in 1 .. Len(u) /\ i + 1 \in 1 .. m
        /\ l + (i + 1) = l + i + 1
    BY <1>1, <1>3, <1>5
  <2>2. p[i + 1] = [next |-> N, rhead |-> H, rtail |-> u[i + 1], rlast |-> W(l + i + 1),
                    at |-> At(u, (i + 1) + 1)]
    BY <2>1
  <2>3. num'[u[i + 1]] = W(l + i + 1) /\ Succ(W(l + i)) = W(l + i + 1)
        /\ u[i + 1] \in Buf /\ u[i + 1] # NOPKT
    <3>1. num'[u[i + 1]] = W(l + (i + 1))
      BY <1>6, <2>1
    <3> QED BY <1>1, <1>8, <2>1, <3>1
  <2>4. p[i].at = u[i + 1] /\ p[i].rlast = W(l + i)
    <3>1. CASE i = 0
      <4>1. p[i] = start
        BY <2>1, <3>1
      <4> QED BY <1>2, <1>9, <3>1, <4>1
    <3>2. CASE i # 0
      <4>1. p[i].at = At(u, i + 1) /\ p[i].rlast = W(l + i)
        BY <2>1, <3>2
      <4> QED BY <1>1, <2>1, <4>1
    <3> QED BY <3>1, <3>2
  <2>5. Goes(p[i])
    BY <2>3, <2>4 DEF Goes
  <2> DEFINE x == p[i]
  <2>6. MoveOne(x) = [next  |-> IF x.rhead = NOPKT THEN x.next
                                ELSE [x.next EXCEPT ![x.rtail] = x.at],
                      rhead |-> IF x.rhead = NOPKT THEN x.at ELSE x.rhead,
                      rtail |-> x.at, rlast |-> Succ(x.rlast), at |-> x.next[x.at]]
    <3> HIDE DEF x, p
    <3> QED BY DEF MoveOne
  <2>7. x.rtail = x.rtail /\ Succ(x.rlast) = W(l + i + 1) /\ x.at = u[i + 1]
    BY <2>3, <2>4
  <2>8. /\ (IF x.rhead = NOPKT THEN x.next ELSE [x.next EXCEPT ![x.rtail] = x.at]) = N
        /\ (IF x.rhead = NOPKT THEN x.at ELSE x.rhead) = H
        /\ x.next[x.at] = At(u, (i + 1) + 1)
    <3>1. CASE i = 0
      <4>1. x = start
        BY <2>1, <3>1
      <4>2. x.next = front /\ x.rhead = rhead /\ x.rtail = rtail /\ x.at = b
        BY <4>1
      <4>3. front[b] = At(u, 1 + 1)
        BY <1>1, <1>2
      <4> HIDE DEF x
      <4> QED BY <1>2, <3>1, <4>2, <4>3 DEF N, H
    <3>2. CASE i # 0
      <4>1. x.next = N /\ x.rhead = H /\ x.rtail = u[i]
        BY <2>1, <3>2
      <4>2. i \in 1 .. Len(u) /\ u[i] \in Buf /\ N[u[i]] = u[i + 1]
        <5>1. i \in 1 .. Len(u)
          BY <1>1, <1>5, <3>2
        <5> QED BY <1>1, <1>10, <2>1, <5>1
      <4>3. [N EXCEPT ![u[i]] = u[i + 1]] = N
        BY <1>10, <4>2
      <4>4. N[u[i + 1]] = At(u, (i + 1) + 1)
        BY <1>10, <2>1
      <4> HIDE DEF x
      <4> QED BY <1>10, <2>7, <4>1, <4>3, <4>4
    <3> QED BY <3>1, <3>2
  <2>9. MoveOne(x) = p[i + 1]
    <3> HIDE DEF x, p
    <3> QED BY <2>2, <2>6, <2>7, <2>8
  <2> QED BY <2>5, <2>9
<1>13. ~Goes(p[m]) /\ m \in 0 .. m
       /\ p[m] = [next |-> N, rhead |-> H, rtail |-> u[m], rlast |-> W(l + m), at |-> At(u, m + 1)]
  <2>1. m \in 0 .. m /\ m # 0
    BY <1>5
  <2>2. p[m] = [next |-> N, rhead |-> H, rtail |-> u[m], rlast |-> W(l + m), at |-> At(u, m + 1)]
    BY <2>1
  <2>3. p[m].at = At(u, m + 1) /\ p[m].rlast = W(l + m)
    BY <2>2
  <2>4. CASE m < Len(u)
    <3>1. At(u, m + 1) = u[m + 1]
      <4>1. m + 1 \in 1 .. Len(u)
        BY <1>1, <1>5, <2>4
      <4> QED BY <1>1, <4>1
    <3> HIDE DEF p
    <3> QED BY <1>5, <1>8, <2>1, <2>2, <2>3, <2>4, <3>1 DEF Goes
  <2>5. CASE ~(m < Len(u))
    <3>1. At(u, m + 1) = NOPKT
      <4>1. m + 1 \notin 1 .. Len(u)
        BY <1>1, <1>5, <2>5
      <4> QED BY <4>1 DEF At
    <3> HIDE DEF p
    <3> QED BY <2>1, <2>2, <2>3, <3>1 DEF Goes
  <2> QED BY <2>4, <2>5
<1>14. move[start] = p[m]
  <2> DEFINE r == [i \in 0 .. m |-> move[p[i]]]
  <2>1. ASSUME NEW i \in 0 .. m - 1 PROVE r[i] = r[i + 1]
    <3>1. i \in 0 .. m /\ i + 1 \in 0 .. m
      BY <1>5
    <3> HIDE DEF p
    <3>2. move[p[i]] = move[p[i + 1]]
      BY <1>11, <1>12, <3>1
    <3> QED BY <3>1, <3>2
  <2>2. r[0] = move[start] /\ r[m] = move[p[m]]
    <3>1. 0 \in 0 .. m /\ m \in 0 .. m
      BY <1>5
    <3>2. p[0] = start
      BY <3>1
    <3> HIDE DEF p
    <3> QED BY <3>1, <3>2
  <2>3. r[0] = r[m]
    <3> HIDE DEF r
    <3> QED BY <1>5, <2>1, LoopValue
  <2>4. move[p[m]] = p[m]
    <3> HIDE DEF p
    <3> QED BY <1>11, <1>13
  <2> QED BY <2>2, <2>3, <2>4
<1>15. l + m <= MaxRcvd
  BY <1>7, <1>13
<1> HIDE DEF p
<1>16. Moved(move[start], u, m, b, front)
  BY <1>5, <1>6, <1>13, <1>14, <1>15 DEF Moved, N, H, l
<1> QED BY <1>16

(* rcvdata() takes the next packet in order, and with it what waited for   *)
(* it in routorder.                                                        *)
LEMMA AcceptStep ==
  ASSUME QInv, NEW b \in Buf, NEW n \in Incoming, Accept(b, n)
  PROVE  QInv'
<1> DEFINE front  == [next EXCEPT ![b] = routorder]
           move[q \in [next : [Buf -> Buf \cup {NOPKT}], rhead : Buf \cup {NOPKT},
                       rtail : Buf \cup {NOPKT}, rlast : Num, at : Buf \cup {NOPKT}]] ==
             IF q.at # NOPKT /\ num'[q.at] = Succ(q.rlast)
             THEN move[[next  |-> IF q.rhead = NOPKT THEN q.next
                                  ELSE [q.next EXCEPT ![q.rtail] = q.at],
                        rhead |-> IF q.rhead = NOPKT THEN q.at ELSE q.rhead,
                        rtail |-> q.at,
                        rlast |-> Succ(q.rlast),
                        at    |-> q.next[q.at]]]
             ELSE q
           start == [next |-> front, rhead |-> rhead, rtail |-> rtail,
                     rlast |-> rlast, at |-> b]
           end == move[start]
           r   == InOrder
           o   == OutOrder
           u   == Insert(o, 0, b)
           l   == Pos(rlast)
<1>1. /\ InWindow(n) /\ ~cmp_le(n, rlast) /\ n = Succ(rlast)
      /\ Store(b, "data", n)
      /\ next' = [end.next EXCEPT ![end.rtail] = NOPKT]
      /\ rhead' = end.rhead /\ rtail' = end.rtail /\ rlast' = end.rlast
      /\ routorder' = end.at /\ seen' = seen \cup {n}
      /\ free' = free \ {b}
      /\ UNCHANGED <<rread, open, read, sending>>
  BY DEF Accept, move
<1>2. move = [q \in Moving |-> IF Goes(q) THEN move[MoveOne(q)] ELSE q]
  <2> DEFINE T == {q \in Moving : ~Goes(q)}
             v == [q \in Moving |-> q]
             g == [q \in Moving |-> MoveOne(q)]
  <2>1. \A q \in Moving : q \notin T => g[q] \in Moving
    <3> HIDE DEF move
    <3> QED BY MoveOneIs
  <2>2. Returns(Moving, T, v, g)
    <3> HIDE DEF T, v, g, move
    <3> QED BY <2>1, LoopReturns
  <2>3. PICK f : f = [q \in Moving |-> IF q \in T THEN v[q] ELSE f[g[q]]]
    <3> HIDE DEF T, v, g, move
    <3> QED BY <2>2 DEF Returns
  <2>4. f = [q \in Moving |-> IF Goes(q) THEN f[MoveOne(q)] ELSE q]
    <3>1. ASSUME NEW q \in Moving
          PROVE  (IF q \in T THEN v[q] ELSE f[g[q]]) = IF Goes(q) THEN f[MoveOne(q)] ELSE q
      <4>1. v[q] = q /\ g[q] = MoveOne(q) /\ (q \in T <=> ~Goes(q))
        OBVIOUS
      <4> HIDE DEF T, v, g, move
      <4> QED BY <4>1
    <3> HIDE DEF T, v, g, move
    <3> QED BY <2>3, <3>1
  <2> HIDE DEF T, v, g
  <2> QED BY <2>4, Zenon DEF move, Moving, Goes, MoveOne
<1> HIDE DEF move
<1>3. /\ n \in Num /\ Pos(n) = l + 1 /\ Pos(n) <= MaxRcvd /\ l \in Nat /\ n = W(l + 1)
      /\ MaxRcvd < NumHalf /\ MaxRcvd \in Nat
  BY <1>1, IncomingPlace
<1>4. /\ b \in free /\ b \in Ptr
      /\ kind' \in [Buf -> {"data", "unc", "end"}] /\ num' \in [Buf -> Num]
      /\ kind'[b] = "data" /\ num'[b] = n
      /\ \A c \in Buf : c # b => kind'[c] = kind[c] /\ num'[c] = num[c]
      /\ Members(Sent) \subseteq Buf /\ leaked \subseteq Buf
      /\ Members(r) \subseteq Buf /\ Members(o) \subseteq Buf
      /\ b \notin Members(Sent) /\ b \notin leaked
      /\ b \notin Members(r) /\ b \notin Members(o)
  BY <1>1, <1>3, StoreFacts
<1>5. /\ Linked(next, rhead, r) /\ r \in Seq(Buf) /\ Len(r) \in Nat /\ Different(r)
      /\ \A i \in 1 .. Len(r) : r[i] \in Members(r) /\ r[i] \in Buf
      /\ (rhead = NOPKT <=> r = <<>>) /\ rhead \in Ptr /\ rtail \in Ptr
      /\ rtail = At(r, Len(r)) /\ (r = <<>> <=> Len(r) = 0)
      /\ (r # <<>> => rtail = r[Len(r)] /\ rtail \in Members(r) /\ Len(r) \in 1 .. Len(r))
      /\ Linked(next, routorder, o) /\ o \in Seq(Buf) /\ Len(o) \in Nat /\ routorder = At(o, 1)
      /\ \A i \in 1 .. Len(o) : o[i] \in Members(o) /\ o[i] \in Buf
      /\ next \in [Buf -> Ptr] /\ routorder \in Ptr /\ NOPKT \in Ptr
  <2>1. Linked(next, rhead, r) /\ r \in Seq(Buf) /\ Len(r) \in Nat /\ next \in [Buf -> Ptr]
        /\ rtail = At(r, Len(r)) /\ rhead \in Ptr /\ rtail \in Ptr
        /\ Linked(next, routorder, o) /\ o \in Seq(Buf) /\ Len(o) \in Nat /\ routorder \in Ptr
    BY Types DEF QInv, Chains, Receiving
  <2>2. rhead = NOPKT <=> r = <<>>
    BY <2>1, HeadOf
  <2>3. r = <<>> <=> Len(r) = 0
    BY <2>1, EmptySeq
  <2>4. r # <<>> => Len(r) \in 1 .. Len(r)
    BY <2>1, <2>3
  <2>5. r # <<>> => rtail = r[Len(r)] /\ rtail \in Members(r)
    BY <2>1, <2>4, InMembers DEF At
  <2> QED BY <2>1, <2>2, <2>3, <2>4, <2>5, AtType, InMembers DEF Linked, Ptr
<1>6. /\ Rising(num, o)
      /\ \A c \in Members(o) : /\ l + 1 < Pos(num[c]) /\ Pos(num[c]) <= MaxRcvd
                               /\ kind[c] = "data"
      /\ seen = {W(i) : i \in 1 .. l} \cup {num[c] : c \in Members(o)}
      /\ Counted(r, kind, num, Len(read), l) /\ l <= MaxRcvd
      /\ Pos(rread) = Len(read) /\ \A i \in 1 .. Len(read) : read[i] = W(i)
  BY DEF QInv, Receiving, Ahead
<1>7. \A c \in Members(r) : c \notin Members(o)
  BY OwnedFacts
<1>8. \A c \in Members(Sent) \cup leaked : c \notin Members(r) /\ c \notin Members(o)
  BY OwnedFacts
<1> HIDE DEF r, o, l
<1>9. /\ front \in [Buf -> Ptr] /\ front[b] = routorder
      /\ \A c \in Buf : c # b => front[c] = next[c]
  BY <1>5
<1> HIDE DEF front
<1>10. Linked(front, b, u) /\ Members(u) = Members(o) \cup {b}
  <2>1. /\ 0 \in 0 .. Len(o) /\ front[b] = At(o, 0 + 1) /\ (0 > 0 => front[o[0]] = b)
        /\ \A i \in 1 .. Len(o) : i # 0 => front[o[i]] = next[o[i]]
    BY <1>4, <1>5, <1>9
  <2>2. Linked(front, IF 0 = 0 THEN b ELSE routorder, Insert(o, 0, b))
        /\ Members(Insert(o, 0, b)) = Members(o) \cup {b}
    BY <1>4, <1>5, <1>9, <2>1, LinkIn
  <2> QED BY <2>2
<1>11. \A c \in Members(u) : /\ c \in Buf /\ Pos(num'[c]) <= MaxRcvd /\ kind'[c] = "data"
                             /\ c \notin Members(r)
  <2> SUFFICES ASSUME NEW c \in Members(u)
               PROVE  /\ c \in Buf /\ Pos(num'[c]) <= MaxRcvd /\ kind'[c] = "data"
                      /\ c \notin Members(r)
    OBVIOUS
  <2>1. CASE c = b
    BY <1>3, <1>4, <2>1
  <2>2. CASE c # b
    <3>1. c \in Members(o) /\ num'[c] = num[c] /\ kind'[c] = kind[c] /\ c \in Buf
      BY <1>4, <1>10, <2>2
    <3> QED BY <1>6, <1>7, <3>1
  <2> QED BY <2>1, <2>2
<1>12. Rising(num', u)
  <2>1. \A c \in Members(o) : num'[c] = num[c]
    BY <1>4
  <2>2. Rising(num', o)
    BY <1>6, <2>1, RisingFrame
  <2>3. 0 \in 0 .. Len(o) /\ \A i \in 1 .. 0 : Pos(num'[o[i]]) < Pos(num'[b])
    BY <1>5
  <2>4. 0 < Len(o) => Pos(num'[b]) < Pos(num'[o[0 + 1]])
    <3>1. 0 < Len(o) => 1 \in 1 .. Len(o)
      BY <1>5
    <3>2. 0 < Len(o) => o[1] \in Members(o)
      BY <1>5, <3>1
    <3> QED BY <1>3, <1>4, <1>6, <2>1, <3>2
  <2> QED BY <1>4, <1>5, <2>2, <2>3, <2>4, InsertRises
<1>13. u \in Seq(Buf) /\ Len(u) \in Nat /\ Different(u)
       /\ \A i \in 1 .. Len(u) : u[i] \in Buf /\ u[i] \in Members(u)
  BY <1>10, AtType, InMembers DEF Linked
<1> HIDE DEF u
<1>14. PICK m : Moved(end, u, m, b, front)
  <2>1. rhead # NOPKT => rtail \in Buf /\ rtail \notin Members(u)
    BY <1>4, <1>5, <1>11
  <2>2. rlast \in Num /\ Pos(rlast) <= MaxRcvd /\ num'[b] = Succ(rlast)
    BY <1>1, <1>4, <1>6, Types DEF l
  <2>3. \A c \in Members(u) : Pos(num'[c]) <= MaxRcvd
    BY <1>11
  <2> DEFINE x == start
  <2>4. x = [next |-> front, rhead |-> rhead, rtail |-> rtail, rlast |-> rlast, at |-> b]
    OBVIOUS
  <2> HIDE DEF x
  <2>5. \E m : Moved(move[x], u, m, b, front)
    BY <1>2, <1>4, <1>5, <1>9, <1>10, <2>1, <2>2, <2>3, <2>4, Moves
  <2> QED BY <2>5 DEF x
<1> HIDE DEF end
<1> DEFINE N == IF rhead = NOPKT THEN front ELSE [front EXCEPT ![rtail] = b]
<1>15. /\ m \in 1 .. Len(u) /\ l + m <= MaxRcvd /\ m \in Nat
       /\ \A i \in 1 .. m : num'[u[i]] = W(l + i)
       /\ m < Len(u) => num'[u[m + 1]] # W(l + m + 1)
       /\ end.next = N /\ end.rhead = (IF rhead = NOPKT THEN b ELSE rhead)
       /\ end.rtail = u[m] /\ end.rlast = W(l + m) /\ end.at = At(u, m + 1)
  BY <1>13, <1>14 DEF Moved, l
<1>16. /\ N \in [Buf -> Ptr]
       /\ \A c \in Buf : c # rtail => N[c] = front[c]
       /\ r # <<>> => N[rtail] = b
  <2>1. CASE rhead = NOPKT
    BY <1>5, <1>9, <2>1
  <2>2. CASE rhead # NOPKT
    <3>1. N = [front EXCEPT ![rtail] = b] /\ rtail \in Buf
      BY <1>4, <1>5, <2>2
    <3> HIDE DEF N
    <3> QED BY <1>4, <1>9, <3>1
  <2> QED BY <2>1, <2>2
<1> HIDE DEF N
<1>17. /\ next' \in [Buf -> Ptr] /\ next'[u[m]] = NOPKT /\ u[m] \in Buf /\ u[m] \in Members(u)
       /\ \A c \in Buf : c # u[m] => next'[c] = N[c]
  <2>1. next' = [N EXCEPT ![u[m]] = NOPKT] /\ u[m] \in Buf /\ u[m] \in Members(u)
    BY <1>1, <1>13, <1>15
  <2> QED BY <1>5, <1>16, <2>1
<1>18. \A i \in 1 .. Len(r) : next'[r[i]] = IF i = Len(r) THEN b ELSE front[r[i]]
  <2> SUFFICES ASSUME NEW i \in 1 .. Len(r)
               PROVE  next'[r[i]] = IF i = Len(r) THEN b ELSE front[r[i]]
    OBVIOUS
  <2>1. r[i] \in Buf /\ r[i] \in Members(r) /\ r[i] # u[m] /\ r # <<>>
    BY <1>5, <1>11, <1>17
  <2>2. next'[r[i]] = N[r[i]]
    BY <1>17, <2>1
  <2>3. CASE i = Len(r)
    BY <1>5, <1>16, <2>1, <2>2, <2>3
  <2>4. CASE i # Len(r)
    <3>1. r[i] # rtail
      BY <1>5, <2>1, <2>4 DEF Different
    <3> QED BY <1>16, <2>1, <2>2, <2>4, <3>1
  <2> QED BY <2>3, <2>4
<1>19. \A i \in 1 .. Len(u) : next'[u[i]] = IF i = m THEN NOPKT ELSE front[u[i]]
  <2> SUFFICES ASSUME NEW i \in 1 .. Len(u)
               PROVE  next'[u[i]] = IF i = m THEN NOPKT ELSE front[u[i]]
    OBVIOUS
  <2>1. CASE i = m
    BY <1>17, <2>1
  <2>2. CASE i # m
    <3>1. u[i] \in Buf /\ u[i] # u[m] /\ u[i] \notin Members(r)
      BY <1>11, <1>13, <1>15, <2>2 DEF Different
    <3>2. N[u[i]] = front[u[i]]
      <4>1. CASE r = <<>>
        BY <1>5, <4>1 DEF N
      <4>2. CASE r # <<>>
        BY <1>5, <1>16, <3>1, <4>2
      <4> QED BY <4>1, <4>2
    <3> QED BY <1>17, <2>2, <3>1, <3>2
  <2> QED BY <2>1, <2>2
<1> DEFINE j == Join(r, u, m)
           d == Drop(u, m)
<1>20. /\ Linked(next', IF r = <<>> THEN b ELSE rhead, j)
       /\ Linked(next', At(u, m + 1), d)
       /\ Members(j) = Members(r) \cup {u[i] : i \in 1 .. m}
  <2>1. Linked(front, rhead, r)
    <3>1. \A c \in Members(r) : front[c] = next[c]
      BY <1>4, <1>9
    <3> QED BY <1>5, <3>1, LinkedFrame
  <2>2. Members(r) \cap Members(u) = {}
    BY <1>11
  <2>3. Linked(front, b, u)
    BY <1>10
  <2>4. m \in 1 .. Len(u)
    BY <1>15
  <2> DEFINE first == IF r = <<>> THEN b ELSE rhead
  <2>5. Relinked(next', front, r, u, m, b)
    BY <1>18, <1>19 DEF Relinked
  <2>6. first = IF r = <<>> THEN b ELSE rhead
    OBVIOUS
  <2> HIDE DEF N, first
  <2>7. /\ Linked(next', first, Join(r, u, m))
        /\ Linked(next', At(u, m + 1), Drop(u, m))
        /\ Members(Join(r, u, m)) = Members(r) \cup Upto(u, m)
    BY <2>1, <2>2, <2>3, <2>4, <2>5, <2>6, Splice
  <2> QED BY <2>7, Zenon DEF j, d, first, Upto
<1>21. /\ j \in Seq(Buf) /\ Len(j) = Len(r) + m
       /\ \A i \in 1 .. Len(r) : j[i] = r[i]
       /\ \A i \in 1 .. m : j[Len(r) + i] = u[i]
  <2>1. m \in 0 .. Len(u)
    BY <1>15
  <2> QED BY <1>5, <1>13, <2>1, JoinShape
<1>22. /\ Len(d) = Len(u) - m /\ \A i \in 1 .. Len(u) - m : d[i] = u[m + i]
       /\ Members(d) = {u[i] : i \in m + 1 .. Len(u)}
       /\ Members(d) = Members(u) \ {u[i] : i \in 1 .. m}
  <2>1. m \in 0 .. Len(u) /\ u \in Seq(Buf)
    BY <1>13, <1>15
  <2>2. Linked(front, b, u)
    BY <1>10
  <2>3. Len(Drop(u, m)) = Len(u) - m /\ \A i \in 1 .. Len(u) - m : Drop(u, m)[i] = u[m + i]
    BY <2>1, DropShape
  <2>4. /\ Members(Drop(u, m)) = {u[i] : i \in m + 1 .. Len(u)}
        /\ Members(Drop(u, m)) = Members(u) \ {u[i] : i \in 1 .. m}
    BY <2>1, <2>2, LinkedDrop
  <2> QED BY <2>3, <2>4, Zenon DEF d
<1> HIDE DEF j, d
<1>23. InOrder' = j /\ OutOrder' = d /\ Linked(next', rhead', j) /\ Linked(next', routorder', d)
  <2>1. Linked(next', rhead', j) /\ Linked(next', routorder', d)
    BY <1>1, <1>5, <1>15, <1>20
  <2> QED BY <1>17, <2>1, InOrderIs, OutOrderIs
<1>24. Sent' = Sent /\ Linked(next', thead', Sent') /\ Sending'
  <2>1. ASSUME NEW c \in Members(Sent) PROVE next'[c] = next[c]
    <3>1. c \in Buf /\ c # b /\ c \notin Members(r) /\ c \notin Members(u)
      BY <1>4, <1>8, <1>10
    <3>2. c # u[m]
      BY <1>17, <3>1
    <3>3. next'[c] = N[c]
      BY <1>17, <3>1, <3>2
    <3>4. N[c] = front[c]
      <4>1. CASE r = <<>>
        BY <1>5, <4>1 DEF N
      <4>2. CASE r # <<>>
        BY <1>5, <1>16, <3>1, <4>2
      <4> QED BY <4>1, <4>2
    <3> QED BY <1>9, <3>1, <3>3, <3>4
  <2>2. \A c \in Members(Sent) \cup leaked : num'[c] = num[c]
    BY <1>4
  <2> QED BY <1>1, <1>17, <2>1, <2>2, SendingFrame
<1>25. l + m \in Nat /\ l + m < NumMod /\ Pos(W(l + m)) = l + m /\ W(l + m) \in Num
  <2>1. l + m \in Nat /\ l + m < NumMod
    BY <1>3, <1>15, Numbers
  <2> QED BY <2>1, Places
<1>26. Counted(j, kind', num', Len(read), l + m)
  <2>1. Counted(r, kind', num', Len(read), l)
    <3>1. \A c \in Members(r) : num'[c] = num[c] /\ kind'[c] = kind[c]
      BY <1>4
    <3> QED BY <1>6, <3>1, CountedFrame
  <2>2. PICK c \in [0 .. Len(r) -> Nat] :
          c[0] = Len(read) /\ c[Len(r)] = l /\ Counts(c, r, kind', num')
    BY <2>1 DEF Counted
  <2> DEFINE e == [i \in 0 .. Len(j) |-> IF i <= Len(r) THEN c[i] ELSE l + (i - Len(r))]
  <2>3. e \in [0 .. Len(j) -> Nat]
    <3> SUFFICES ASSUME NEW i \in 0 .. Len(j)
                 PROVE  (IF i <= Len(r) THEN c[i] ELSE l + (i - Len(r))) \in Nat
      OBVIOUS
    <3>1. i <= Len(r) => i \in 0 .. Len(r)
      BY <1>5
    <3>2. ~(i <= Len(r)) => l + (i - Len(r)) \in Nat
      BY <1>3, <1>5
    <3> QED BY <3>1, <3>2
  <2>4. e[0] = Len(read) /\ e[Len(j)] = l + m
    <3>1. 0 \in 0 .. Len(j) /\ 0 <= Len(r) /\ Len(j) \in 0 .. Len(j) /\ ~(Len(j) <= Len(r))
          /\ Len(j) - Len(r) = m
      BY <1>5, <1>15, <1>21
    <3> QED BY <2>2, <3>1
  <2>5. ASSUME NEW i \in 1 .. Len(j)
        PROVE  IF kind'[j[i]] = "data" THEN e[i] = e[i - 1] + 1 /\ num'[j[i]] = W(e[i])
               ELSE e[i] = e[i - 1]
    <3>1. CASE i <= Len(r)
      <4>1. i \in 1 .. Len(r) /\ i - 1 <= Len(r) /\ i \in 0 .. Len(j) /\ i - 1 \in 0 .. Len(j)
        BY <1>5, <1>21, <3>1
      <4>2. j[i] = r[i] /\ e[i] = c[i] /\ e[i - 1] = c[i - 1]
        BY <1>21, <3>1, <4>1
      <4> HIDE DEF e
      <4> QED BY <2>2, <4>1, <4>2 DEF Counts
    <3>2. CASE ~(i <= Len(r))
      <4> DEFINE a == i - Len(r)
      <4>1. a \in 1 .. m /\ i = Len(r) + a /\ i \in 0 .. Len(j) /\ i - 1 \in 0 .. Len(j)
            /\ a \in 1 .. Len(u) /\ a \in Nat
        BY <1>5, <1>13, <1>15, <1>21, <3>2
      <4>2. e[i] = l + a
        BY <3>2, <4>1
      <4>3. e[i - 1] = l + (a - 1)
        <5>1. CASE i - 1 <= Len(r)
          <6>1. i - 1 = Len(r) /\ a = 1
            BY <1>5, <3>2, <4>1, <5>1
          <6>2. e[i - 1] = c[Len(r)]
            BY <4>1, <5>1, <6>1
          <6>3. e[i - 1] = l
            BY <2>2, <6>2, Zenon
          <6>4. l + (a - 1) = l
            BY <1>3, <6>1
          <6> HIDE DEF e, a
          <6> QED BY <6>3, <6>4, Zenon
        <5>2. CASE ~(i - 1 <= Len(r))
          <6>1. e[i - 1] = l + ((i - 1) - Len(r))
            BY <4>1, <5>2
          <6>2. l + ((i - 1) - Len(r)) = l + (a - 1)
            BY <1>3, <1>5, <4>1
          <6> HIDE DEF e, a
          <6> QED BY <6>1, <6>2, Zenon
        <5> QED BY <5>1, <5>2
      <4> HIDE DEF e, a
      <4>4. j[i] = u[a] /\ num'[u[a]] = W(l + a) /\ kind'[u[a]] = "data"
        BY <1>11, <1>13, <1>15, <1>21, <4>1
      <4>5. l + a = (l + (a - 1)) + 1
        BY <1>3, <4>1
      <4> QED BY <4>2, <4>3, <4>4, <4>5
    <3> QED BY <3>1, <3>2
  <2> HIDE DEF e
  <2> QED BY <2>3, <2>4, <2>5 DEF Counted, Counts
<1>27. Ahead(d, kind', num', l + m)
  <2>1. Rising(num', d)
    <3> SUFFICES ASSUME NEW i \in 1 .. Len(d), NEW k \in 1 .. Len(d), i < k
                 PROVE  Pos(num'[d[i]]) < Pos(num'[d[k]])
      BY DEF Rising
    <3>1. m + i \in 1 .. Len(u) /\ m + k \in 1 .. Len(u) /\ m + i < m + k
          /\ d[i] = u[m + i] /\ d[k] = u[m + k]
      <4>1. Len(d) = Len(u) - m /\ Len(u) \in Nat /\ m \in Nat /\ m <= Len(u)
        BY <1>13, <1>15, <1>22
      <4>2. i \in 1 .. Len(u) - m /\ k \in 1 .. Len(u) - m
        BY <4>1
      <4>3. d[i] = u[m + i] /\ d[k] = u[m + k]
        BY <1>22, <4>2
      <4>4. i \in Int /\ k \in Int /\ m + i \in 1 .. Len(u) /\ m + k \in 1 .. Len(u)
        BY <4>1, <4>2
      <4>5. m + i < m + k
        BY <4>1, <4>4
      <4> QED BY <4>3, <4>4, <4>5
    <3> QED BY <1>12, <3>1 DEF Rising
  <2>2. ASSUME NEW c \in Members(d)
        PROVE  (l + m) + 1 < Pos(num'[c]) /\ Pos(num'[c]) <= MaxRcvd /\ kind'[c] = "data"
    <3>1. PICK i \in m + 1 .. Len(u) : c = u[i]
      BY <1>22
    <3>2. i \in 1 .. Len(u) /\ m + 1 \in 1 .. Len(u) /\ m < m + 1 /\ m < Len(u)
      BY <1>13, <1>15
    <3>3. Pos(num'[u[m]]) = l + m
      <4>1. m \in 1 .. m
        BY <1>15
      <4> QED BY <1>15, <1>25, <4>1
    <3>4. num'[u[m]] \in Num /\ num'[u[m + 1]] \in Num /\ num'[u[i]] \in Num
      BY <1>4, <1>13, <1>15, <3>2
    <3>5. Pos(num'[u[m + 1]]) \in Nat /\ Pos(num'[u[i]]) \in Nat
      BY <3>4, Places
    <3>6. Pos(num'[u[m]]) < Pos(num'[u[m + 1]])
      BY <1>12, <1>15, <3>2 DEF Rising
    <3>7. Pos(num'[u[m + 1]]) # l + m + 1
      <4>1. W(Pos(num'[u[m + 1]])) = num'[u[m + 1]]
        BY <3>4, Places
      <4> QED BY <1>15, <3>2, <4>1
    <3>8. i # m + 1 => Pos(num'[u[m + 1]]) < Pos(num'[u[i]])
      <4>1. i # m + 1 => m + 1 < i
        BY <1>15, <3>2
      <4> QED BY <1>12, <3>2, <4>1 DEF Rising
    <3>9. (l + m) + 1 < Pos(num'[u[i]])
      <4> DEFINE x == Pos(num'[u[m + 1]])
                 y == Pos(num'[u[i]])
      <4>1. x \in Nat /\ y \in Nat /\ l + m < x /\ x # l + m + 1 /\ (i # m + 1 => x < y)
            /\ (i = m + 1 => x = y)
        BY <3>3, <3>5, <3>6, <3>7, <3>8
      <4> HIDE DEF x, y
      <4>2. (l + m) + 1 < y
        BY <1>25, <4>1
      <4> QED BY <4>2 DEF y
    <3>10. c \in Members(u)
      BY <1>13, <3>1, <3>2
    <3> QED BY <1>11, <3>1, <3>9, <3>10
  <2> QED BY <2>1, <2>2 DEF Ahead
<1>28. seen' = {W(i) : i \in 1 .. l + m} \cup {num'[c] : c \in Members(d)}
  <2>1. seen' = {W(i) : i \in 1 .. l} \cup {num'[c] : c \in Members(u)}
    <3>1. {num'[c] : c \in Members(u)} = {num[c] : c \in Members(o)} \cup {n}
      BY <1>4, <1>10
    <3> QED BY <1>1, <1>6, <3>1
  <2>2. {num'[c] : c \in Members(u)} =
          {num'[c] : c \in {u[i] : i \in 1 .. m}} \cup {num'[c] : c \in Members(d)}
    <3>1. {u[i] : i \in 1 .. m} \subseteq Members(u)
      BY <1>13, <1>15
    <3> QED BY <1>22, <3>1
  <2>3. {num'[c] : c \in {u[i] : i \in 1 .. m}} = {W(l + i) : i \in 1 .. m}
    <3>1. {num'[c] : c \in {u[i] : i \in 1 .. m}} = {num'[u[i]] : i \in 1 .. m}
      OBVIOUS
    <3>2. {num'[u[i]] : i \in 1 .. m} = {W(l + i) : i \in 1 .. m}
      BY <1>15
    <3> QED BY <3>1, <3>2
  <2>4. {W(i) : i \in 1 .. l + m} = {W(i) : i \in 1 .. l} \cup {W(l + i) : i \in 1 .. m}
    <3>1. ASSUME NEW i \in 1 .. l + m
          PROVE  W(i) \in {W(k) : k \in 1 .. l} \cup {W(l + k) : k \in 1 .. m}
      <4>1. CASE i <= l
        <5>1. i \in 1 .. l
          BY <1>3, <4>1
        <5> QED BY <5>1
      <4>2. CASE ~(i <= l)
        <5>1. i - l \in 1 .. m /\ l + (i - l) = i
          BY <1>3, <1>15, <4>2
        <5>2. W(l + (i - l)) \in {W(l + k) : k \in 1 .. m}
          BY <5>1
        <5> QED BY <5>1, <5>2
      <4> QED BY <4>1, <4>2
    <3>2. \A k \in 1 .. l : k \in 1 .. l + m
      BY <1>3, <1>15
    <3>3. \A k \in 1 .. m : l + k \in 1 .. l + m
      BY <1>3, <1>15
    <3> QED BY <3>1, <3>2, <3>3
  <2> QED BY <2>1, <2>2, <2>3, <2>4
<1>29. rlast' = W(l + m) /\ Pos(rlast') = l + m
  BY <1>1, <1>15, <1>25
<1>30. rtail' = At(j, Len(j))
  <2>1. Len(j) \in 1 .. Len(j) /\ m \in 1 .. m
    BY <1>5, <1>15, <1>21
  <2>2. At(j, Len(j)) = u[m]
    BY <1>21, <2>1 DEF At
  <2> QED BY <1>1, <1>15, <2>2
<1>31. Receiving'
  <2>1. Pos(rlast') <= MaxRcvd /\ rread' = rread /\ read' = read
    BY <1>1, <1>15, <1>29
  <2> QED BY <1>6, <1>23, <1>26, <1>27, <1>28, <1>29, <1>30, <2>1 DEF Receiving
<1>32. Chains'
  BY <1>23, <1>24 DEF Chains
<1>33. Partition'
  <2>1. Owned(free, leaked, Members(Sent), Members(r), Members(o))
    BY DEF QInv, Partition, r, o
  <2> DEFINE K == {u[i] : i \in 1 .. m}
  <2>2. K \subseteq Members(u)
    BY <1>13, <1>15
  <2>3. /\ free' = free \ {b} /\ leaked' = leaked /\ Sent' = Sent
        /\ Members(InOrder') = Members(r) \cup K
        /\ Members(OutOrder') = Members(u) \ K
    BY <1>1, <1>20, <1>22, <1>23, <1>24 DEF sending
  <2> HIDE DEF K
  <2> QED BY <1>4, <1>10, <2>1, <2>2, <2>3 DEF Partition, Owned
<1>34. TypeOK'
  <2>1. rhead' \in Ptr /\ rtail' \in Ptr /\ routorder' \in Ptr
    <3>1. At(u, m + 1) \in Ptr /\ u[m] \in Ptr
      BY <1>13, <1>17, AtType DEF Ptr
    <3> QED BY <1>1, <1>4, <1>5, <1>15, <3>1
  <2>2. free' \subseteq Buf /\ seen' \subseteq Num /\ rlast' \in Num
    <3>1. seen \subseteq Num
      BY DEF QInv, TypeOK
    <3> QED BY <1>1, <1>3, <1>25, <1>29, <3>1, Types
  <2> QED BY <1>1, <1>4, <1>17, <2>1, <2>2 DEF QInv, TypeOK, Ptr, sending
<1> QED BY <1>24, <1>31, <1>32, <1>33, <1>34 DEF QInv

-----------------------------------------------------------------------------
(***************************************************************************)
(* The invariant holds.                                                    *)
(***************************************************************************)
(* At the start there is no chain. *)
LEMMA EmptyChains ==
  ASSUME Init
  PROVE  /\ Sent = <<>> /\ InOrder = <<>> /\ OutOrder = <<>> /\ Chains
         /\ Members(Sent) = {} /\ Members(InOrder) = {} /\ Members(OutOrder) = {}
<1>1. next \in [Buf -> Ptr] /\ thead = NOPKT /\ rhead = NOPKT /\ routorder = NOPKT
  BY DEF Init, Ptr
<1>2. Linked(next, NOPKT, <<>>) /\ Members(<<>>) = {}
  BY LinkedEmpty
<1>3. Chain(next, NOPKT) = <<>>
  BY <1>1, <1>2, LinkedChain
<1>4. Sent = <<>> /\ InOrder = <<>> /\ OutOrder = <<>>
  BY <1>1, <1>3 DEF Sent, InOrder, OutOrder
<1> QED BY <1>1, <1>2, <1>4 DEF Chains

(* Nothing counts as nothing. *)
LEMMA CountedEmpty == ASSUME NEW k, NEW n PROVE Counted(<<>>, k, n, 0, 0)
<1> DEFINE c == [i \in 0 .. 0 |-> 0]
<1>1. Len(<<>>) = 0
  OBVIOUS
<1>2. c \in [0 .. 0 -> Nat] /\ c[0] = 0
  OBVIOUS
<1> HIDE DEF c
<1>3. Counts(c, <<>>, k, n)
  BY <1>1 DEF Counts
<1> QED BY <1>1, <1>2, <1>3 DEF Counted

(* The invariant holds at the start. *)
LEMMA InvInit == Init => QInv
<1> SUFFICES ASSUME Init PROVE QInv
  OBVIOUS
<1>1. /\ Sent = <<>> /\ InOrder = <<>> /\ OutOrder = <<>> /\ Chains
      /\ Members(Sent) = {} /\ Members(InOrder) = {} /\ Members(OutOrder) = {}
  BY EmptyChains
<1>2. Start \in Num /\ Pos(Start) = 0 /\ MaxSent \in Nat /\ MaxRcvd \in Nat
  BY Numbers, Places
<1>3. TypeOK
  <2>1. /\ next \in [Buf -> Buf \cup {NOPKT}] /\ num \in [Buf -> Num]
        /\ kind \in [Buf -> {"data", "unc", "end"}]
    BY <1>2 DEF Init
  <2>2. /\ {thead, ttail, rhead, rtail, routorder} \subseteq Buf \cup {NOPKT}
        /\ {tlast, trecvd, rlast, rread} \subseteq Num
        /\ open \in BOOLEAN
        /\ free \subseteq Buf /\ leaked \subseteq Buf
        /\ wire \subseteq Num /\ seen \subseteq Num
    BY <1>2 DEF Init
  <2>3. read \in Seq(Num)
    BY DEF Init
  <2> QED BY <2>1, <2>2, <2>3 DEF TypeOK
<1>4. Partition
  BY <1>1 DEF Partition, Owned, Init
<1>5. Sending
  <2>1. Pos(tlast) = 0 /\ Pos(trecvd) = 0 /\ wire = {} /\ leaked = {} /\ open
    BY <1>2 DEF Init
  <2>2. Rising(num, <<>>)
    BY DEF Rising
  <2>3. Queued(Sent, num, Pos(trecvd), Pos(tlast))
    BY <1>1, <2>2 DEF Queued
  <2>4. \A i \in Pos(trecvd) + 1 .. Pos(tlast) :
          \E b \in Members(Sent) \cup leaked : num[b] = W(i)
    BY <2>1
  <2> QED BY <1>1, <1>2, <2>1, <2>3, <2>4 DEF Sending
<1>6. Receiving
  <2>1. Pos(rlast) = 0 /\ Pos(rread) = 0 /\ seen = {} /\ read = <<>> /\ rtail = NOPKT
    BY <1>2 DEF Init
  <2>2. Len(read) = 0 /\ Len(InOrder) = 0
    BY <1>1, <2>1
  <2>3. Ahead(OutOrder, kind, num, Pos(rlast))
    <3>1. Rising(num, <<>>)
      BY DEF Rising
    <3> QED BY <1>1, <3>1 DEF Ahead
  <2>4. Counted(InOrder, kind, num, Len(read), Pos(rlast))
    BY <1>1, <2>1, <2>2, CountedEmpty
  <2>5. seen = {W(i) : i \in 1 .. Pos(rlast)} \cup {num[b] : b \in Members(OutOrder)}
    BY <1>1, <2>1
  <2>6. rtail = At(InOrder, Len(InOrder))
    BY <2>1, <2>2 DEF At
  <2>7. Pos(rlast) <= MaxRcvd /\ Pos(rread) = Len(read)
    BY <1>2, <2>1, <2>2
  <2>8. \A i \in 1 .. Len(read) : read[i] = W(i)
    BY <2>2
  <2> QED BY <2>3, <2>4, <2>5, <2>6, <2>7, <2>8, Zenon DEF Receiving
<1> QED BY <1>1, <1>3, <1>4, <1>5, <1>6 DEF QInv

(* Every action keeps the invariant. *)
LEMMA InvStep == QInv /\ [Next]_vars => QInv'
<1> SUFFICES ASSUME QInv, [Next]_vars PROVE QInv'
  OBVIOUS
<1>1. CASE UNCHANGED vars
  BY <1>1, Stutter
<1>2. ASSUME NEW b \in Buf, NEW ok \in BOOLEAN, Write(b, ok) PROVE QInv'
  BY <1>2, WriteStep
<1>3. ASSUME NEW n \in Receivable, receipt(n) PROVE QInv'
  BY <1>3, ReceiptStep
<1>4. ASSUME NEW S \in (SUBSET Members(Sent)) \ {{}}, NEW F \in SUBSET S, chretran(S, F)
      PROVE  QInv'
  <2>1. S \in SUBSET Members(Sent) /\ S # {}
    OBVIOUS
  <2> QED BY <1>4, <2>1, ChretranStep
<1>5. ASSUME NEW n \in Incoming, Discard(n) PROVE QInv'
  BY <1>5, Stutter DEF Discard
<1>6. ASSUME NEW n \in Incoming, NEW b \in Buf, Accept(b, n) PROVE QInv'
  BY <1>6, AcceptStep
<1>7. ASSUME NEW n \in Incoming, NEW b \in Buf, Early(b, n) PROVE QInv'
  BY <1>7, EarlyStep
<1>8. ASSUME NEW b \in Buf, Uncontrolled(b) PROVE QInv'
  BY <1>8, UncontrolledStep
<1>9. ASSUME NEW b \in Buf, End(b) PROVE QInv'
  BY <1>9, EndStep
<1>10. CASE Read
  BY <1>10, ReadStep
<1> QED
  BY <1>1, <1>2, <1>3, <1>4, <1>5, <1>6, <1>7, <1>8, <1>9, <1>10, Zenon DEF Next

(* QInv: the chains end, no buffer is shared or lost, thead rises from      *)
(* trecvd to tlast, and what is on rhead continues what was read.          *)
THEOREM QueueInvariance == Spec => []QInv
BY InvInit, InvStep, PTL DEF Spec

-----------------------------------------------------------------------------
(***************************************************************************)
(* What it gives.                                                          *)
(***************************************************************************)
(* TypeOK: the links lead to buffers or nowhere, and the numbers stay 16   *)
(* bits wide when they wrap.                                               *)
THEOREM QueueTypes == Spec => []TypeOK
<1>1. QInv => TypeOK
  BY DEF QInv
<1> QED BY <1>1, QueueInvariance, PTL

(* BuffersOwnedOnce: the loops of xmitdone, receipt, chretran, rcvdata and *)
(* clsconn lose no buffer, free none twice and never link one into two     *)
(* chains, and no chain becomes a cycle.                                   *)
THEOREM OwnedOnce == Spec => []BuffersOwnedOnce
<1>1. ASSUME QInv PROVE BuffersOwnedOnce
  <2> DEFINE owners == <<free, leaked, Members(Sent), Members(InOrder), Members(OutOrder)>>
  <2>1. EndsIn(next, thead) /\ EndsIn(next, rhead) /\ EndsIn(next, routorder)
    BY <1>1, Types, LinkedChain DEF QInv, Chains
  <2>2. Owned(free, leaked, Members(Sent), Members(InOrder), Members(OutOrder))
    BY <1>1 DEF QInv, Partition
  <2>3. /\ owners[1] = free /\ owners[2] = leaked /\ owners[3] = Members(Sent)
        /\ owners[4] = Members(InOrder) /\ owners[5] = Members(OutOrder)
    OBVIOUS
  <2>4. \A i \in 1 .. 5 : i = 1 \/ i = 2 \/ i = 3 \/ i = 4 \/ i = 5
    OBVIOUS
  <2> HIDE DEF owners
  <2>5. UNION {owners[i] : i \in 1 .. 5} = Buf
    <3>1. UNION {owners[i] : i \in 1 .. 5} =
            free \cup leaked \cup Members(Sent) \cup Members(InOrder) \cup Members(OutOrder)
      <4>1. 1 \in 1 .. 5 /\ 2 \in 1 .. 5 /\ 3 \in 1 .. 5 /\ 4 \in 1 .. 5 /\ 5 \in 1 .. 5
        OBVIOUS
      <4>2. \A x : (\E i \in 1 .. 5 : x \in owners[i]) <=>
                    \/ x \in owners[1] \/ x \in owners[2] \/ x \in owners[3]
                    \/ x \in owners[4] \/ x \in owners[5]
        BY <2>4, <4>1, Zenon
      <4>3. UNION {owners[i] : i \in 1 .. 5} =
              owners[1] \cup owners[2] \cup owners[3] \cup owners[4] \cup owners[5]
        BY <4>2
      <4> QED BY <2>3, <4>3
    <3> QED BY <2>2, <3>1 DEF Owned
  <2>6. ASSUME NEW i \in 1 .. 5, NEW j \in 1 .. 5, i # j PROVE owners[i] \cap owners[j] = {}
    BY <2>2, <2>3, <2>4, <2>6 DEF Owned
  <2> QED BY <2>1, <2>5, <2>6, Zenon DEF BuffersOwnedOnce, owners
<1> QED BY <1>1, QueueInvariance, PTL

(* TailReachable: what comes in order is linked where ch_read will find it. *)
THEOREM TailFound == Spec => []TailReachable
<1>1. ASSUME QInv PROVE TailReachable
  <2>1. rtail = At(InOrder, Len(InOrder)) /\ InOrder \in Seq(Buf) /\ Len(InOrder) \in Nat
    BY <1>1, Types DEF QInv, Receiving
  <2>2. InOrder = <<>> <=> Len(InOrder) = 0
    BY <2>1, EmptySeq
  <2>3. Len(InOrder) \in 1 .. Len(InOrder) <=> Len(InOrder) # 0
    BY <2>1
  <2> QED BY <2>1, <2>2, <2>3, Zenon DEF TailReachable, At
<1> QED BY <1>1, QueueInvariance, PTL

(* The numbers written so far, by their places. *)
LEMMA WrittenIs ==
  ASSUME QInv
  PROVE  /\ Pos(tlast) \in Nat /\ Pos(tlast) < NumHalf
         /\ \A n : n \in Written <=> n \in Num /\ 1 <= Pos(n) /\ Pos(n) <= Pos(tlast)
<1>1. Pos(tlast) \in Nat /\ Pos(tlast) <= MaxSent
  BY Types DEF QInv, Sending
<1>2. Pos(tlast) < NumHalf /\ NumHalf < NumMod /\ NumHalf \in Nat /\ NumMod \in Nat
  BY <1>1, Numbers
<1>3. Written = {W(i) : i \in 1 .. Pos(tlast)}
  BY DEF Written, W, Pos
<1>4. ASSUME NEW n \in Written PROVE n \in Num /\ 1 <= Pos(n) /\ Pos(n) <= Pos(tlast)
  <2>1. PICK i \in 1 .. Pos(tlast) : n = W(i)
    BY <1>3
  <2>2. i \in Nat /\ i < NumMod /\ 1 <= i /\ i <= Pos(tlast)
    BY <1>1, <1>2
  <2>3. W(i) \in Num /\ Pos(W(i)) = i
    BY <2>2, Places
  <2> QED BY <2>1, <2>2, <2>3
<1>5. ASSUME NEW n \in Num, 1 <= Pos(n), Pos(n) <= Pos(tlast) PROVE n \in Written
  <2>1. Pos(n) \in Nat /\ W(Pos(n)) = n
    BY Places
  <2>2. Pos(n) \in 1 .. Pos(tlast)
    BY <1>1, <1>5, <2>1
  <2> QED BY <1>3, <2>1, <2>2
<1> QED BY <1>1, <1>2, <1>4, <1>5

(* Unreceipted follows from the invariant. *)
LEMMA UnreceiptedHolds == ASSUME QInv PROVE Unreceipted
<1> SUFFICES ASSUME open
             PROVE  /\ Ascending(num, Sent)
                    /\ {num[b] : b \in Members(Sent)} =
                         {n \in Written : cmp_gt(n, trecvd)} \ {num[b] : b \in leaked}
  BY DEF Unreceipted
<1>1. /\ Sent \in Seq(Buf) /\ Len(Sent) \in Nat /\ num \in [Buf -> Num]
      /\ trecvd \in Num /\ Pos(trecvd) \in Nat /\ Pos(trecvd) <= Pos(tlast)
      /\ Pos(tlast) \in Nat /\ Pos(tlast) < NumHalf /\ NumHalf \in Nat
      /\ leaked \subseteq Buf
  BY Types, WrittenIs, Numbers DEF QInv, Sending
<1>2. /\ Rising(num, Sent)
      /\ \A b \in Members(Sent) : Pos(trecvd) < Pos(num[b]) /\ Pos(num[b]) <= Pos(tlast)
      /\ \A b \in Members(Sent), c \in leaked : num[b] # num[c]
      /\ \A i \in Pos(trecvd) + 1 .. Pos(tlast) :
           \E b \in Members(Sent) \cup leaked : num[b] = W(i)
  BY DEF QInv, Sending, Queued
<1>3. \A b \in Members(Sent) : b \in Buf /\ num[b] \in Num /\ Pos(num[b]) \in Nat
  BY <1>1, MembersOf, Places
<1>4. Ascending(num, Sent)
  <2> SUFFICES ASSUME NEW i \in 1 .. Len(Sent) - 1
               PROVE  cmp_lt(num[Sent[i]], num[Sent[i + 1]])
    BY DEF Ascending
  <2>1. i \in 1 .. Len(Sent) /\ i + 1 \in 1 .. Len(Sent) /\ i < i + 1
    BY <1>1
  <2>2. Sent[i] \in Members(Sent) /\ Sent[i + 1] \in Members(Sent)
    BY <2>1, InMembers
  <2>3. Pos(num[Sent[i]]) < Pos(num[Sent[i + 1]])
    BY <1>2, <2>1 DEF Rising
  <2>4. /\ num[Sent[i]] \in Num /\ num[Sent[i + 1]] \in Num
        /\ Pos(num[Sent[i]]) < NumHalf /\ Pos(num[Sent[i + 1]]) < NumHalf
    BY <1>1, <1>2, <1>3, <2>2
  <2> QED BY <2>3, <2>4, Compare
<1>5. \A n \in Num : Pos(n) <= Pos(tlast) => (cmp_gt(n, trecvd) <=> Pos(n) > Pos(trecvd))
  <2> SUFFICES ASSUME NEW n \in Num, Pos(n) <= Pos(tlast)
               PROVE  cmp_gt(n, trecvd) <=> Pos(n) > Pos(trecvd)
    OBVIOUS
  <2>1. Pos(n) < NumHalf /\ Pos(trecvd) < NumHalf
    BY <1>1, Places
  <2> QED BY <1>1, <2>1, Compare
<1>6. ASSUME NEW b \in Members(Sent)
      PROVE  num[b] \in {n \in Written : cmp_gt(n, trecvd)} \ {num[c] : c \in leaked}
  <2>1. num[b] \in Num /\ Pos(num[b]) <= Pos(tlast) /\ Pos(num[b]) > Pos(trecvd) /\ 1 <= Pos(num[b])
    BY <1>1, <1>2, <1>3
  <2>2. num[b] \in Written
    BY <2>1, WrittenIs
  <2>3. cmp_gt(num[b], trecvd)
    BY <1>5, <2>1
  <2>4. num[b] \notin {num[c] : c \in leaked}
    BY <1>2
  <2> QED BY <2>2, <2>3, <2>4
<1>7. ASSUME NEW n \in {n \in Written : cmp_gt(n, trecvd)} \ {num[b] : b \in leaked}
      PROVE  n \in {num[b] : b \in Members(Sent)}
  <2>1. n \in Num /\ 1 <= Pos(n) /\ Pos(n) <= Pos(tlast) /\ cmp_gt(n, trecvd)
    BY WrittenIs
  <2>2. Pos(n) > Pos(trecvd) /\ Pos(n) \in Nat /\ W(Pos(n)) = n
    BY <1>5, <2>1, Places
  <2>3. Pos(n) \in Pos(trecvd) + 1 .. Pos(tlast)
    BY <1>1, <2>1, <2>2
  <2>4. PICK b \in Members(Sent) \cup leaked : num[b] = n
    BY <1>2, <2>2, <2>3
  <2> QED BY <2>4
<1>8. {num[b] : b \in Members(Sent)} =
        {n \in Written : cmp_gt(n, trecvd)} \ {num[b] : b \in leaked}
  BY <1>6, <1>7
<1> QED BY <1>4, <1>8

(* Unreceipted: xmitdone, receipt and chretran keep thead the set, in      *)
(* order, of what was written and is neither receipted nor leaked, so      *)
(* receipt may stop at the first packet above the receipt.                 *)
THEOREM SentAscends == Spec => []Unreceipted
BY QueueInvariance, UnreceiptedHolds, PTL

(* The numbered packets of a chain are as many as the count has gone up,   *)
(* and they have the numbers counted.                                      *)
Numbered(D, k) == \A b \in Buf : b \in D <=> k[b] = "data"

CountedOff(d, n, first, last) ==
  /\ d \in Seq(Buf) /\ Len(d) \in Nat /\ last = first + Len(d)
  /\ \A i \in 1 .. Len(d) : n[d[i]] = W(first + i)

LEMMA AmongCounted ==
  ASSUME NEW s \in Seq(Buf), NEW k, NEW n, NEW first \in Nat, NEW last,
         Counted(s, k, n, first, last),
         NEW D, Numbered(D, k)
  PROVE  CountedOff(Among(s, D), n, first, last)
<1> DEFINE d == Among(s, D)
<1>1. PICK c \in [0 .. Len(s) -> Nat] : c[0] = first /\ c[Len(s)] = last /\ Counts(c, s, k, n)
  BY DEF Counted
<1>2. PICK f \in [0 .. Len(s) -> Seq(Buf)] : Picks(f, s, D) /\ Among(s, D) = f[Len(s)]
  BY AmongPicks
<1>3. Len(s) \in Nat /\ \A i \in 1 .. Len(s) : s[i] \in Buf /\ (s[i] \in D <=> k[s[i]] = "data")
  <2>1. Len(s) \in Nat /\ \A i \in 1 .. Len(s) : s[i] \in Buf
    BY ElementOfSeq
  <2> QED BY <2>1 DEF Numbered
<1> DEFINE Fits(i) == /\ c[i] = first + Len(f[i])
                      /\ \A j \in 1 .. Len(f[i]) : n[f[i][j]] = W(first + j)
           G == {i \in 0 .. Len(s) : Fits(i)}
<1>4. 0 \in G
  <2>1. 0 \in 0 .. Len(s) /\ f[0] = <<>>
    BY <1>2, <1>3 DEF Picks
  <2>2. Len(f[0]) = 0
    BY <2>1
  <2> QED BY <1>1, <2>1, <2>2
<1>5. ASSUME NEW i \in 1 .. Len(s), i - 1 \in G PROVE i \in G
  <2>1. i \in 0 .. Len(s) /\ i - 1 \in 0 .. Len(s) /\ i # 0
    BY <1>3
  <2>2. Fits(i - 1)
    BY <1>5
  <2> DEFINE p == f[i - 1]
  <2>3. p \in Seq(Buf) /\ Len(p) \in Nat /\ s[i] \in Buf
    <3>1. p \in Seq(Buf)
      BY <2>1
    <3>2. s[i] \in Buf
      BY <1>3
    <3> QED BY <3>1, <3>2
  <2>4. f[i] = IF s[i] \in D THEN Append(p, s[i]) ELSE p
    BY <1>2, <2>1 DEF Picks
  <2>5. c[i - 1] = first + Len(p) /\ \A j \in 1 .. Len(p) : n[p[j]] = W(first + j)
    BY <2>2
  <2>6. /\ k[s[i]] = "data" => c[i] = c[i - 1] + 1 /\ n[s[i]] = W(c[i])
        /\ k[s[i]] # "data" => c[i] = c[i - 1]
    BY <1>1 DEF Counts
  <2> HIDE DEF p
  <2>7. Fits(i)
    <3>1. CASE s[i] \in D
      <4>1. f[i] = Append(p, s[i]) /\ c[i] = c[i - 1] + 1 /\ n[s[i]] = W(c[i])
        BY <1>3, <2>4, <2>6, <3>1
      <4> DEFINE t == Append(p, s[i])
      <4>2. /\ Len(t) = Len(p) + 1
            /\ \A j \in 1 .. Len(p) : t[j] = p[j]
            /\ t[Len(p) + 1] = s[i]
        BY <2>3, AppendProperties
      <4> HIDE DEF t
      <4>3. c[i] = first + Len(t) /\ c[i] = first + (Len(p) + 1)
        BY <2>3, <2>5, <4>1, <4>2
      <4>4. \A j \in 1 .. Len(t) : n[t[j]] = W(first + j)
        <5> SUFFICES ASSUME NEW j \in 1 .. Len(t) PROVE n[t[j]] = W(first + j)
          OBVIOUS
        <5>1. CASE j = Len(p) + 1
          <6>1. t[j] = s[i] /\ c[i] = first + j
            BY <4>2, <4>3, <5>1
          <6> QED BY <4>1, <6>1, Zenon
        <5>2. CASE j # Len(p) + 1
          <6>1. j \in 1 .. Len(p)
            BY <2>3, <4>2, <5>2
          <6>2. t[j] = p[j] /\ n[p[j]] = W(first + j)
            BY <2>5, <4>2, <6>1
          <6> QED BY <6>2, Zenon
        <5> QED BY <5>1, <5>2
      <4>5. f[i] = t
        BY <4>1 DEF t
      <4> QED BY <4>3, <4>4, <4>5, Zenon
    <3>2. CASE s[i] \notin D
      <4>1. f[i] = p /\ c[i] = c[i - 1]
        BY <1>3, <2>4, <2>6, <3>2
      <4> QED BY <2>5, <4>1, Zenon
    <3> QED BY <3>1, <3>2
  <2> HIDE DEF Fits
  <2> QED BY <2>1, <2>7
<1>6. Len(s) \in G
  <2>1. Len(s) \in 0 .. Len(s)
    BY <1>3
  <2> HIDE DEF G
  <2>2. \A i \in 1 .. Len(s) : i - 1 \in G => i \in G
    BY <1>5
  <2> QED BY <1>3, <1>4, <2>1, <2>2, Climb
<1>7. d = f[Len(s)] /\ Len(s) \in 0 .. Len(s)
  BY <1>2, <1>3
<1>8. d \in Seq(Buf) /\ Len(d) \in Nat
  BY <1>7
<1> HIDE DEF d
<1>9. c[Len(s)] = first + Len(d) /\ \A j \in 1 .. Len(d) : n[d[j]] = W(first + j)
  BY <1>6, <1>7
<1> QED BY <1>1, <1>8, <1>9 DEF CountedOff, d

(* Stored follows from the invariant. *)
LEMMA StoredHolds == ASSUME QInv PROVE Stored
<1> DEFINE D     == {b \in Buf : kind[b] = "data"}
           data  == Among(InOrder, D)
           taken == (rlast - Start) % NumMod
           have  == [i \in 1 .. Len(data) |-> num[data[i]]]
           all   == [i \in 1 .. taken |-> (Start + i) % NumMod]
<1>1. /\ InOrder \in Seq(Buf) /\ OutOrder \in Seq(Buf) /\ Len(OutOrder) \in Nat
      /\ num \in [Buf -> Num] /\ rlast \in Num /\ Pos(rlast) \in Nat
      /\ Len(read) \in Nat /\ rread \in Num /\ read \in Seq(Num)
  BY Types DEF QInv, TypeOK
<1>2. /\ Pos(rlast) <= MaxRcvd /\ Pos(rread) = Len(read)
      /\ \A i \in 1 .. Len(read) : read[i] = W(i)
      /\ Counted(InOrder, kind, num, Len(read), Pos(rlast))
      /\ Rising(num, OutOrder)
      /\ \A b \in Members(OutOrder) : Pos(rlast) + 1 < Pos(num[b]) /\ Pos(num[b]) <= MaxRcvd
      /\ seen = {W(i) : i \in 1 .. Pos(rlast)} \cup {num[b] : b \in Members(OutOrder)}
  BY DEF QInv, Receiving, Ahead
<1>3. MaxRcvd \in Nat /\ MaxRcvd < NumHalf /\ NumHalf \in Nat /\ NumHalf < NumMod /\ NumMod \in Nat
  BY Numbers
<1>4. taken = Pos(rlast) /\ taken \in Nat /\ taken < NumMod
  BY <1>1, <1>2, <1>3 DEF Pos
<1>5. /\ data \in Seq(Buf) /\ Len(data) \in Nat /\ taken = Len(read) + Len(data)
      /\ \A i \in 1 .. Len(data) : num[data[i]] = W(Len(read) + i)
  <2>1. Numbered(D, kind)
    BY DEF Numbered
  <2>2. InOrder \in Seq(Buf) /\ Len(read) \in Nat /\ Counted(InOrder, kind, num, Len(read), Pos(rlast))
    BY <1>1, <1>2
  <2> HIDE DEF D
  <2>3. CountedOff(data, num, Len(read), Pos(rlast))
    BY <2>1, <2>2, AmongCounted
  <2> HIDE DEF data
  <2> QED BY <1>4, <2>3 DEF CountedOff
<1> HIDE DEF data, taken
<1>6. have \in Seq(Num) /\ Len(have) = Len(data) /\ \A i \in 1 .. Len(data) : have[i] = W(Len(read) + i)
  <2>1. \A i \in 1 .. Len(data) : num[data[i]] \in Num
    BY <1>1, <1>5, ElementOfSeq
  <2>2. have \in [1 .. Len(data) -> Num]
    BY <2>1
  <2> QED BY <1>5, <2>2
<1>7. all \in Seq(Num) /\ Len(all) = taken /\ \A i \in 1 .. taken : all[i] = W(i)
  <2>1. \A i \in 1 .. taken : i \in Nat /\ i < NumMod
    BY <1>3, <1>4
  <2>2. \A i \in 1 .. taken : W(i) \in Num
    BY <2>1, Places
  <2>3. all = [i \in 1 .. taken |-> W(i)]
    BY DEF W
  <2> HIDE DEF all
  <2>4. all \in [1 .. taken -> Num]
    BY <2>2, <2>3
  <2> QED BY <1>4, <2>3, <2>4
<1> HIDE DEF have, all
<1>8. read \o have = all
  <2>1. /\ read \o have \in Seq(Num) /\ Len(read \o have) = Len(read) + Len(have)
        /\ \A i \in 1 .. Len(read) + Len(have) :
             (read \o have)[i] = IF i <= Len(read) THEN read[i] ELSE have[i - Len(read)]
    BY <1>1, <1>6, ConcatProperties
  <2>2. Len(read \o have) = Len(all)
    BY <1>5, <1>6, <1>7, <2>1
  <2>3. ASSUME NEW i \in 1 .. Len(read \o have) PROVE (read \o have)[i] = all[i]
    <3>1. i \in 1 .. taken /\ i \in 1 .. Len(read) + Len(have) /\ all[i] = W(i)
      BY <1>7, <2>1, <2>2
    <3>2. CASE i <= Len(read)
      <4>1. i \in 1 .. Len(read)
        BY <1>1, <3>1, <3>2
      <4> QED BY <1>2, <2>1, <3>1, <3>2, <4>1
    <3>3. CASE ~(i <= Len(read))
      <4>1. i - Len(read) \in 1 .. Len(data) /\ Len(read) + (i - Len(read)) = i
        BY <1>1, <1>5, <1>6, <3>1, <3>3
      <4>2. have[i - Len(read)] = W(i)
        BY <1>6, <4>1
      <4> QED BY <2>1, <3>1, <3>3, <4>2
    <3> QED BY <3>2, <3>3
  <2> QED BY <1>7, <2>1, <2>2, <2>3, SeqEqual
<1>9. seen = {(Start + i) % NumMod : i \in 1 .. taken} \cup {num[b] : b \in Members(OutOrder)}
  BY <1>2, <1>4 DEF W
<1>10. rread = (Start + Len(read)) % NumMod
  <2>1. W(Pos(rread)) = rread
    BY <1>1, Places
  <2> QED BY <1>2, <2>1 DEF W
<1>11. \A b \in Members(OutOrder) : b \in Buf /\ num[b] \in Num /\ Pos(num[b]) < NumHalf
                                    /\ Pos(num[b]) \in Nat
  <2> SUFFICES ASSUME NEW b \in Members(OutOrder)
               PROVE  b \in Buf /\ num[b] \in Num /\ Pos(num[b]) < NumHalf /\ Pos(num[b]) \in Nat
    OBVIOUS
  <2>1. b \in Buf /\ num[b] \in Num
    BY <1>1, MembersOf
  <2>2. Pos(num[b]) \in Nat /\ Pos(num[b]) <= MaxRcvd
    BY <1>2, <2>1, Places
  <2> QED BY <1>3, <2>1, <2>2
<1>12. Ascending(num, OutOrder)
  <2> SUFFICES ASSUME NEW i \in 1 .. Len(OutOrder) - 1
               PROVE  cmp_lt(num[OutOrder[i]], num[OutOrder[i + 1]])
    BY DEF Ascending
  <2>1. i \in 1 .. Len(OutOrder) /\ i + 1 \in 1 .. Len(OutOrder) /\ i < i + 1
    BY <1>1
  <2>2. OutOrder[i] \in Members(OutOrder) /\ OutOrder[i + 1] \in Members(OutOrder)
    BY <2>1, InMembers
  <2>3. Pos(num[OutOrder[i]]) < Pos(num[OutOrder[i + 1]])
    BY <1>2, <2>1 DEF Rising
  <2> QED BY <1>11, <2>2, <2>3, Compare
<1>13. ASSUME NEW b \in Members(OutOrder) PROVE cmp_gt(num[b], Succ(rlast))
  <2>1. Pos(rlast) < NumHalf
    BY <1>1, <1>2, <1>3
  <2>2. Succ(rlast) \in Num /\ Pos(Succ(rlast)) = Pos(rlast) + 1
    BY <1>1, <2>1, SuccPlace
  <2>3. Pos(Succ(rlast)) < Pos(num[b]) /\ Pos(num[b]) \in Nat /\ Pos(num[b]) < NumHalf
        /\ num[b] \in Num
    BY <1>2, <1>11, <2>2
  <2>4. Pos(Succ(rlast)) < NumHalf /\ Pos(num[b]) > Pos(Succ(rlast))
    BY <1>1, <1>3, <2>2, <2>3
  <2> QED BY <2>2, <2>3, <2>4, Compare
<1>14. \A b \in Members(OutOrder) : cmp_gt(num[b], Succ(rlast))
  BY <1>13
<1>15. read \o [i \in 1 .. Len(data) |-> num[data[i]]] = [i \in 1 .. taken |-> (Start + i) % NumMod]
  BY <1>8, Zenon DEF have, all
<1> QED BY <1>9, <1>10, <1>12, <1>14, <1>15 DEF Stored, data, taken

(* Stored: rcvdata and ch_read hand the user the peer's numbers in order,  *)
(* none twice and none left out, and routorder holds the others beyond a   *)
(* gap.                                                                    *)
THEOREM StoredInOrder == Spec => []Stored
BY QueueInvariance, StoredHolds, PTL

=============================================================================
