------------------------------- MODULE UsimAlu -------------------------------
(***************************************************************************)
(* What the data path of the CADR computes in usim (ucode.c, the alu and   *)
(* byte instructions of run()): functions of the two sources, the carry in *)
(* and Q.  m_src_value and a_src_value are int: the sums of the source     *)
(* that are made in a long long, and add32(), compare or extend signed     *)
(* numbers.                                                                *)
(***************************************************************************)
EXTENDS UsimWords

(* An ALU output and its carry.                                            *)
Out(w, c) == [out |-> w, carry |-> c]

(* lv = (long long)v + w + c: the carry is bit 32 of it, its sign.         *)
LongWith(v, w, into) == Out(SumWith(v, w, into), (31 \in v <=> 31 \in w) <=> into[32])
Long(v, w, c) == LongWith(v, w, Carries(v, w, c))
(* lv = (long long)v - (carry_in ? 0 : 1)                                  *)
Less1(v, c)   == Long(v, IF c THEN {} ELSE Ones, FALSE)

(* add32(a, b, ci, out, co) and sub32(a, b, ci, out, co).                  *)
add32(a, b, c) == Out(Sum(a, b, c), ~(Less(Not(a), b) \/ (c /\ b = Not(a))))
sub32Of(a, out) == Out(out, Below(out, a))
sub32(a, b, c) == sub32Of(a, Sum(a, Not(b), c))

(* ir8 = 0, ir7 = 0; 011 compares where the others combine bits.           *)
Logic(op, m, a) ==
  CASE op = 0     -> {}
    [] op = 1     -> m \cap a
    [] op = 2     -> m \ a
    [] op = 3     -> m
    [] op = 4     -> a \ m
    [] op = 5     -> a
    [] op = 6     -> Xor(m, a)
    [] op = 7     -> m \cup a
    [] op = \o10  -> Not(a \cup m)
    [] op = \o11  -> IF a = m THEN {0} ELSE {}
    [] op = \o12  -> Not(a)
    [] op = \o13  -> m \cup Not(a)
    [] op = \o14  -> Not(m)
    [] op = \o15  -> Not(m) \cup a
    [] op = \o16  -> Not(m \cap a)
    [] OTHER      -> Ones

(* ir8 = 0, ir7 = 1.                                                       *)
Arithmetic(op, m, a, c) ==
  CASE op = 0     -> Out(IF c THEN {} ELSE Ones, FALSE)
    [] op = 1     -> Less1(m \cap a, c)
    [] op = 2     -> Less1(m \ a, c)
    [] op = 3     -> Less1(m, c)
    [] op = 4     -> Long(m \cup Not(a), {}, c)
    [] op = 5     -> Long(m \cup Not(a), m \cap a, c)
    [] op = 6     -> sub32(m, a, c)
    [] op = 7     -> Long(m \cup Not(a), m, c)
    [] op = \o10  -> Long(m \cup a, {}, c)
    [] op = \o11  -> add32(m, a, c)
    [] op = \o12  -> Long(m \cup a, m \ a, c)
    [] op = \o13  -> Long(m \cup a, m, c)
    [] op = \o14  -> Out(Sum(m, {}, c), m = Ones /\ c)
    [] op = \o15  -> Long(m, m \cap a, c)
    [] op = \o16  -> Long(m, m \cup Not(a), c)
    [] OTHER      -> add32(m, m, c)

(* ir8 = 1: multiply step, divide step, remainder correction, initial      *)
(* divide step.  q0 is the low bit of Q, old the last output.  The sum of  *)
(* the correction is unsigned (alu_out is), and add32() has stored it      *)
(* before it computes the carry from it.                                   *)
CorrectOf(out, a, c) == Out(out, ~(Below(Not(out), a) \/ (c /\ a = Not(out))))
Conditional(op, m, a, c, q0, old) ==
  CASE op = 0 /\ q0        -> add32(a, m, c)
    [] op = 0 /\ ~q0       -> Out(m, 31 \in m)
    [] op = 1 /\ q0        -> sub32(m, a, ~c)
    [] op = 1 /\ ~q0       -> add32(m, a, c)
    [] op = 5 /\ q0        -> Out(old.out, FALSE)
    [] op = 5 /\ ~q0       -> CorrectOf(Sum(old.out, a, c), a, c)
    [] op = \o11           -> sub32(m, a, ~c)
    [] OTHER               -> old

(* The ALU under an alu instruction u.                                     *)
Alu(u, m, a, q0, old) ==
  LET op == Field(u, 3, 6)
      c  == 2 \in u
  IN CASE 8 \in u               -> Conditional(op, m, a, c, q0, old)
       [] 8 \notin u /\ 7 \in u -> Arithmetic(op, m, a, c)
       [] OTHER                 -> Out(Logic(op, m, a), FALSE)

(* Q control: shift left taking the inverse of the sign, shift right       *)
(* taking the low bit, load.                                               *)
NextQ(u, q, out) ==
  CASE Field(u, 0, 1) = 1 -> Up(q, 1) \cup (IF 31 \in out THEN {} ELSE {0})
    [] Field(u, 0, 1) = 2 -> Down(q, 1) \cup (IF 0 \in out THEN {31} ELSE {})
    [] Field(u, 0, 1) = 3 -> out
    [] OTHER              -> q

(* The output bus: the ALU, shifted right with the carry as the sign, or   *)
(* left with the top of the old Q.                                         *)
OutBus(u, alu, q, m) ==
  CASE Field(u, 12, 13) = 0 -> rotate_left(m, Field(u, 0, 4))
    [] Field(u, 12, 13) = 1 -> alu.out
    [] Field(u, 12, 13) = 2 -> Down(alu.out, 1) \cup (IF alu.carry THEN {31} ELSE {})
    [] OTHER                -> Up(alu.out, 1) \cup (IF 31 \in q THEN {0} ELSE {})

-----------------------------------------------------------------------------
(* The position of a byte; misc function 3 makes it depend on which byte   *)
(* or halfword of its word the location counter is at.                     *)
Position(u, lc, bytes) ==
  LET odd == (1 \in lc) # (0 \in lc)
      p4  == IF bytes THEN (4 \in u) # odd ELSE (4 \in u) = (1 \in lc)
      p3  == IF bytes THEN (3 \in u) # (0 \in lc) ELSE 3 \in u
  IN IF Field(u, 10, 11) # 3 THEN Field(u, 0, 4)
     ELSE Field(u, 0, 2) + (IF p3 THEN 8 ELSE 0) + (IF p4 THEN 16 ELSE 0)

(* A byte instruction: ldb, selective deposit, dpb.  The masks wrap apart. *)
Insert(m, a, mask) == (m \cap mask) \cup (a \ mask)
ByteOut(u, m, a, pos) ==
  LET right == IF 13 \in u THEN pos ELSE 0
      mask  == right .. (right + Field(u, 5, 9)) % 32
  IN CASE Field(u, 12, 13) = 0 -> {}
       [] Field(u, 12, 13) = 2 -> Insert(m, a, mask)
       [] OTHER                -> Insert(rotate_left(m, pos), a, mask)

(* The bits of M that a dispatch ORs into its address.                     *)
Dispatched(u, m, pos) == rotate_left(m, pos) \cap (0 .. Field(u, 5, 7) - 1)
=============================================================================
