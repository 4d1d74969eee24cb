----------------------------- MODULE PacketList -----------------------------
(***************************************************************************)
(* Chains of packet buffers linked by pk_next, as chaos.c and ncp.c walk   *)
(* them, and the comparison of packet numbers that orders them.            *)
(***************************************************************************)
EXTENDS Naturals, Integers, Sequences, FiniteSets

CONSTANTS
  Buf,        \* packet buffers (malloc)
  NOPKT       \* the null pointer

ASSUME ListAssumption == NOPKT \notin Buf

NumMod  == 65536
NumHalf == 32768
Num     == 0 .. NumMod - 1

cmp_gt(a, b) == (b - a) % NumMod >= NumHalf
cmp_lt(a, b) == cmp_gt(b, a)
cmp_le(a, b) == ~cmp_gt(a, b)

(* Mutant of Succ: not truncated to 16 bits. *)
SuccWide(n)  == n + 1

Succ(n)      == (n + 1) % NumMod

Members(s) == {s[i] : i \in 1 .. Len(s)}

(* The chain that starts at head, as far as it goes without coming back to *)
(* a buffer: a cyclic chain never ends in NOPKT.                           *)
Chain(next, head) ==
  LET walk[q \in [taken : Seq(Buf), at : Buf \cup {NOPKT}]] ==
        IF q.at = NOPKT \/ q.at \in Members(q.taken) THEN q.taken
        ELSE walk[[taken |-> Append(q.taken, q.at), at |-> next[q.at]]]
  IN  walk[[taken |-> <<>>, at |-> head]]

(* The elements of s that are in S, in the order of s. *)
Among(s, S) ==
  LET pick[i \in 0 .. Len(s)] ==
        IF i = 0 THEN <<>>
        ELSE IF s[i] \in S THEN Append(pick[i - 1], s[i]) ELSE pick[i - 1]
  IN  pick[Len(s)]

(* A chain that ends: its last buffer has no next. *)
EndsIn(next, head) ==
  LET c == Chain(next, head) IN c # <<>> => next[c[Len(c)]] = NOPKT

(* Strictly ascending numbers. *)
Ascending(num, s) == \A i \in 1 .. Len(s) - 1 : cmp_lt(num[s[i]], num[s[i + 1]])
=============================================================================
