------------------------------ MODULE UsimWords ------------------------------
(***************************************************************************)
(* Machine words.  A word of the CADR (32 bits, 48 for a microinstruction) *)
(* is the set of the numbers of its 1 bits, so that `w & (1 << 23)` of the *)
(* source reads 23 \in w, a mask is a set, a rotation is an image, and the *)
(* bit numbers of the source stay what they are.                           *)
(***************************************************************************)
EXTENDS Integers, FiniteSets

Ones   == 0 .. 31
Word   == SUBSET Ones
Not(w) == Ones \ w
Xor(v, w) == (v \ w) \cup (w \ v)

(* (w >> lo) & ((1 << (hi - lo + 1)) - 1), as a number (at most 31 bits).  *)
Field(w, lo, hi) ==
  LET value[i \in lo .. hi + 1] ==
        IF i > hi THEN 0 ELSE (IF i \in w THEN 1 ELSE 0) + 2 * value[i + 1]
  IN value[lo]

(* n << lo, for a number n of at most 24 bits.                             *)
Put(n, lo) == {b + lo : b \in {i \in 0 .. 23 : (n \div 2 ^ i) % 2 = 1}}

Up(w, n)   == {b + n : b \in w} \cap Ones
Down(w, n) == {b - n : b \in {i \in w : i >= n}}

(* rotate_left(): the mask takes the top bits that the shift would lose.   *)
rotate_left(w, n) == {(b + n) % 32 : b \in w}

(* The carry into each bit of v + w + c, and the low 32 bits of the sum.   *)
Carries(v, w, c) ==
  LET into[i \in 0 .. 32] ==
        IF i = 0 THEN c
        ELSE \/ i - 1 \in v \cap w
             \/ i - 1 \in v \cup w /\ into[i - 1]
  IN into
SumWith(v, w, into) == {i \in Ones : (i \in v <=> i \in w) <=> into[i]}
Sum(v, w, c) == SumWith(v, w, Carries(v, w, c))

(* Comparisons: the highest bit in which two words differ decides, and for *)
(* signed ones bit 31 counts the other way round.                          *)
Below(v, w) == \E b \in w \ v : \A i \in Xor(v, w) : i <= b
Less(v, w)  == Below(Xor(v, {31}), Xor(w, {31}))
=============================================================================
