------------------------------- MODULE MCUsim --------------------------------
(***************************************************************************)
(* Programs for the simulated CADR: microcode, what is in memory and on    *)
(* the disk when it starts, what its user types, and what it should have   *)
(* computed when it halts.  Init chooses one.                              *)
(***************************************************************************)
EXTENDS UsimEngine, SequencesExt

-----------------------------------------------------------------------------
(* An assembler: fields of an instruction, to be joined by \cup.           *)
A(n)      == Put(n, 32)
M(n)      == Put(n, 26)
F(f)      == {31} \cup Put(f, 26)
To(f, m)  == Put(32 * f + m, 14)
ToA(n)    == {25} \cup Put(n, 14)
POPJ      == {42}
NOP       == {}
SETM      == {12} \cup Put(3, 3)
SETA      == {12} \cup Put(5, 3)
XOR       == {12} \cup Put(6, 3)
ANDCA     == {12} \cup Put(2, 3)
SUB       == {12, 7, 2} \cup Put(6, 3)
ADD       == {12, 7} \cup Put(\o11, 3)
LoadQ     == {0, 1}
MultiplyStep    == {8, 13, 1}
DivideFirstStep == {8, 12, 13, 0} \cup Put(\o11, 3)
DivideStep      == {8, 12, 13, 0} \cup Put(1, 3)
DivideLastStep  == {8, 12, 0} \cup Put(1, 3)
RemainderStep   == {8, 12} \cup Put(5, 3)

JUMP(t, cond)   == {43, 5} \cup Put(t, 12) \cup Put(cond, 0)
IfBit(t, rot)   == {43} \cup Put(t, 12) \cup Put(rot, 0)
LT == 1
LE == 2
PF == 4
INT == 5
BREAK == 6
ALWAYS == 7
N    == {7}
P    == {8}
R    == {9}
Unless == {6}
HALT == {43, 10}
GoTo(t) == JUMP(t, ALWAYS) \cup N
DISPATCH(base, len, pos) == {44} \cup Put(base, 12) \cup Put(len, 5) \cup Put(pos, 0)
LDB(width, pos) == {43, 44, 12} \cup Put(width - 1, 5) \cup Put(pos, 0)
DPB(width, pos) == {43, 44, 12, 13} \cup Put(width - 1, 5) \cup Put(pos, 0)
LCByte == {10, 11}

Code(parts) ==  \* <<address, instructions>> pairs
  LET of(pc, p) == p[1] <= pc /\ pc < p[1] + Len(p[2])
      pcs == UNION {p[1] .. p[1] + Len(p[2]) - 1 : p \in parts}
  IN [pc \in pcs |-> LET p == CHOOSE q \in parts : of(pc, q) IN p[2][pc - p[1] + 1]]

(* Numbers as words, and the location of a word of the k-th page made.     *)
W32(n) == LET bits(k) == {i \in 0 .. 30 : (k \div 2 ^ i) % 2 = 1} IN IF n >= 0 THEN bits(n) ELSE Not(bits(-n - 1))
Words(k, off, s) == [l \in 256 * k + off .. 256 * k + off + Len(s) - 1 |-> s[l - 256 * k - off + 1]]

NoPack == [blocks |-> Empty]
Program ==
  [code |-> Empty, a |-> Empty, m |-> Empty, disp |-> Empty, l1 |-> Empty, l2 |-> Empty, pages |-> << >>,
   words |-> Empty, pack |-> NoPack, keys |-> << >>, ticks |-> FALSE, runs |-> FALSE, want |-> Empty]

(* What a program has computed: in M memory, Q, the PDL from 1, the pack.  *)
Holds(k, want) ==
  CASE k = "m"    -> \A i \in DOMAIN want : Get(mem.m, i) = want[i]
    [] k = "q"    -> cpu.q = want
    [] k = "pdl"  -> [i \in 1 .. cpu.pdl_ptr |-> Get(mem.pdl, i)] = want
    [] k = "pack" -> \A b \in DOMAIN want : pack.blocks[b] = want[b]

-----------------------------------------------------------------------------
(* Multiplication: the product of A-10 and a positive Q, in M-1 and Q.     *)
Multiply(x, y) ==
  [Program EXCEPT
    !.code = Code({<<0, <<SETM \cup M(2) \cup LoadQ>> \o [i \in 1 .. 32 |-> MultiplyStep \cup M(1) \cup A(10) \cup To(0, 1)]
                       \o <<HALT>>>>}),
    !.a = (10 :> W32(x)), !.m = (2 :> W32(y)),
    !.want = [m |-> 1 :> W32(IF x * y < 0 THEN -1 ELSE 0), q |-> W32(x * y)]]

(* DIV of div.c:2-31, for a positive divisor; it traps when that is 0.     *)
DIV ==
  <<JUMP(13, LT) \cup Unless \cup M(1) \cup A(3),
    SETM \cup M(1) \cup ToA(20) \cup LoadQ,
    SUB \cup M(3) \cup A(20) \cup LoadQ,
    DivideFirstStep \cup M(3) \cup A(2) \cup To(0, 1),
    IfBit(60, 0) \cup F(7) \cup P \cup N>>
  \o [i \in 1 .. 31 |-> DivideStep \cup M(1) \cup A(2) \cup To(0, 1)] \o
  <<DivideLastStep \cup M(1) \cup A(2) \cup To(0, 1),
    JUMP(50, LE) \cup M(3) \cup A(20),
    RemainderStep \cup M(1) \cup A(2) \cup To(0, 1),
    SUB \cup M(3) \cup A(1) \cup To(0, 1),
    XOR \cup M(2) \cup A(20) \cup ToA(20),
    JUMP(0, LE) \cup R \cup N \cup M(3) \cup A(20),
    SETM \cup F(7) \cup ToA(20) \cup POPJ,
    SUB \cup M(3) \cup A(20) \cup LoadQ>>
Magnitude(n) == IF n < 0 THEN -n ELSE n
Signed(neg, n) == W32(IF neg THEN -n ELSE n)
Divide(x, y) ==
  [Program EXCEPT
    !.code = Code({<<0, <<JUMP(10, ALWAYS) \cup P \cup N, HALT>>>>, <<10, DIV>>,
                   <<60, <<SETA \cup A(21) \cup To(0, 5), HALT>>>>}),
    !.a = (1 :> W32(x)) @@ (2 :> W32(y)) @@ (21 :> {0}), !.m = (1 :> W32(x)) @@ (2 :> W32(y)),
    !.want = IF y = 0 THEN [m |-> 5 :> {0}]
             ELSE [m |-> (1 :> Signed(x < 0, Magnitude(x) % y)) @@ (5 :> {}),
                   q |-> Signed(x < 0, Magnitude(x) \div y)]]

-----------------------------------------------------------------------------
(* Macro instructions: halfwords, or bytes; 2 bits of operation above an   *)
(* operand.  The loop reads the next word when there is none, takes the  *)
(* fault if it is not mapped (page 2 is mapped there, and the read tried   *)
(* again), and dispatches with itself as the place to return to.           *)
OPERAND(bytes) == IF bytes THEN LDB(5, 7) \cup LCByte ELSE LDB(14, 0) \cup LCByte
Unit(bytes, operation, operand) == IF bytes THEN 64 * operation + 2 * operand ELSE 2 ^ 14 * operation + operand
Macro(bytes) ==
  {<<0, <<SETA \cup A(24) \cup To(2, 0),
          SETA \cup A(16) \cup To(1, 0),
          SETA \cup A(17) \cup To(\o15, 0),
          POPJ \cup SETM \cup M(3), NOP>>>>,
   <<8, <<JUMP(40, PF) \cup P \cup N,
          SETM \cup F(\o12) \cup To(0, 4),
          DISPATCH(0, 2, IF bytes THEN 2 ELSE 18) \cup LCByte \cup M(4),
          SETA \cup A(17) \cup To(\o15, 0)>>>>,
   \* 0 reads memory, 1 is noted, 2 goes to its operand, 3 halts
   <<16, <<SETA \cup A(19) \cup To(\o21, 0), JUMP(40, PF) \cup P \cup N,
           POPJ \cup SETM \cup F(\o12) \cup To(\o11, 0), NOP>>>>,
   <<20, <<POPJ \cup OPERAND(bytes) \cup M(4) \cup A(3) \cup To(\o11, 0), NOP>>>>,
   <<24, <<OPERAND(bytes) \cup M(4) \cup A(3) \cup To(0, 9),
           POPJ \cup ADD \cup M(9) \cup A(16) \cup To(1, 0), NOP>>>>,
   <<28, <<HALT>>>>,
   <<40, <<SETM \cup F(\o10) \cup To(0, 7), SETM \cup M(7) \cup To(\o30, 0),
           SETA \cup A(18) \cup To(\o23, 0), POPJ \cup SETM \cup M(7) \cup To(\o21, 0), NOP>>>>}

(* The program: <<operation, operand>>, a branch to the i-th as <<2, i>>.  *)
Start   == 4 * 254
Listing == <<<<1, 1>>, <<0, 0>>, <<1, 2>>, <<2, 8>>, <<1, 3>>, <<2, 9>>, <<1, 4>>, <<2, 5>>, <<1, 5>>, <<3, 0>>,
             <<3, 0>>, <<3, 0>>>>
Operand(bytes, i) ==
  IF Listing[i][1] = 2 THEN (IF bytes THEN 1 ELSE 2) * (Listing[i][2] - 1) ELSE Listing[i][2]
WordOf(bytes, k) ==   \* the k-th word of the program
  LET n == IF bytes THEN 4 ELSE 2
  IN UNION {Put(Unit(bytes, Listing[n * k - n + i][1], Operand(bytes, n * k - n + i)), (32 \div n) * (i - 1))
             : i \in 1 .. n}

(* The reference: what the i-th instruction and those after it note.       *)
Datum == Put(77, 0)
RECURSIVE Noted(_)
Noted(i) ==
  CASE Listing[i][1] = 0 -> <<Datum>> \o Noted(i + 1)
    [] Listing[i][1] = 1 -> <<Put(Listing[i][2], 0)>> \o Noted(i + 1)
    [] Listing[i][1] = 2 -> Noted(Listing[i][2])
    [] OTHER             -> << >>
MacroLoop(bytes) ==
  [Program EXCEPT
    !.code = Code(Macro(bytes)),
    !.a = (16 :> Put(Start, 0)) @@ (17 :> {3, 14}) @@ (18 :> {22, 23, 25} \cup Put(2, 0))
          @@ (19 :> Put(7, 0)) @@ (24 :> IF bytes THEN {29} ELSE {}),
    !.disp = [k \in 0 .. 3 |-> Put(16 + 4 * k, 0)],
    !.l2 = (0 :> {22, 23} \cup Put(1, 0)), !.pages = <<1, 2>>,
    !.words = Words(2, 7, <<Datum>>) @@ Words(2, 254, <<WordOf(bytes, 1), WordOf(bytes, 2)>>)
              @@ Words(3, 0, [k \in 1 .. (IF bytes THEN 1 ELSE 4) |-> WordOf(bytes, k + 2)]),
    !.want = "pdl" :> Noted(1)]

-----------------------------------------------------------------------------
(* Calls: of a dispatch and of a jump, with and without the instruction    *)
(* after them; an entry that falls through; the microcode stack as data;   *)
(* an instruction modified by the one before it; the PDL by index.         *)
STORE(entry, a) == {44, 11} \cup Put(entry, 12) \cup A(a)
Calls ==
  [Program EXCEPT
    !.code = Code({
      <<0, <<STORE(8, 40), STORE(9, 41), DISPATCH(8, 0, 0) \cup A(5), SETA \cup A(42) \cup To(0, 5),
             DISPATCH(9, 0, 0), SETA \cup A(43) \cup To(0, 5), DISPATCH(10, 0, 0) \cup {8}>>>>,
      <<20, <<POPJ \cup SETM \cup F(0) \cup To(0, 6), SETA \cup A(43) \cup To(0, 7)>>>>,
      <<24, <<JUMP(30, ALWAYS) \cup P \cup N, SETA \cup A(44) \cup To(\o16, 0), SETA \cup A(45),
              SETA \cup A(46) \cup To(\o15, 0), SETM \cup F(\o14) \cup To(0, 10), GoTo(50),
              POPJ \cup SETM \cup F(1) \cup To(0, 8), NOP>>>>,
      <<50, <<DPB(8, 8) \cup M(5) \cup A(45) \cup To(0, 11), SETA \cup A(48) \cup To(\o13, 0),
              SETA \cup A(45) \cup To(\o12, 0), SETM \cup F(5) \cup To(0, 12), HALT>>>>,
      <<60, <<HALT>>>>}),
    !.a = (40 :> {15} \cup Put(20, 0)) @@ (41 :> {14, 15, 16}) @@ (42 :> Put(3, 0)) @@ (43 :> Put(4, 0))
          @@ (44 :> To(0, 9)) @@ (45 :> {31, 9}) @@ (46 :> Put(99, 0)) @@ (48 :> Put(17, 0)),
    !.disp = (10 :> Put(60, 0)) @@ (11 :> {14} \cup Put(24, 0)),
    !.l2 = (0 :> {18}),
    !.want = [m |-> (5 :> Put(3, 0)) @@ (6 :> Put(5, 0)) @@ (7 :> Put(4, 0)) @@ (8 :> Put(1, 24) \cup Put(25, 0))
                    @@ (9 :> {31, 9}) @@ (10 :> Put(1, 24) \cup Put(99, 0)) @@ (11 :> {31, 8, 9}) @@ (12 :> {31, 9})]]

(* From the PROM to the microcode that it has written, with the map on the *)
(* way: a page without write permission.  The two instructions after the   *)
(* store that disables the PROM come from there, and from the microcode.   *)
WRITE(addr, m, a) == JUMP(addr, ALWAYS) \cup P \cup R \cup M(m) \cup A(a)
Low(u)  == u \cap (0 .. 31)
High(u) == {b - 32 : b \in u \cap (32 .. 47)}
Last2   == SETA \cup A(21) \cup To(0, 11)
Far     == Put(3, 13) \cup Put(5, 8) \cup Put(9, 0)
Entry2  == {23, 25, 26} \cup Put(2, 27) \cup Put(3, 0)
Boot ==
  [Program EXCEPT
    !.code = Code({
      <<0, <<WRITE(100, 8, 30), WRITE(101, 9, 31), NOP,
             SETA \cup A(32) \cup To(\o30, 0), SETA \cup A(33) \cup To(\o23, 0), SETM \cup F(\o11) \cup To(0, 5),
             SETA \cup A(32) \cup To(\o22, 0), JUMP(20, PF) \cup N, HALT>>>>,
      <<20, <<SETM \cup F(\o11) \cup To(0, 6), SETM \cup F(6) \cup To(0, 10), SETA \cup A(32) \cup To(\o21, 0),
              JUMP(60, PF) \cup N, NOP, SETM \cup F(\o12) \cup To(0, 7),
              SETA \cup A(35) \cup To(\o30, 0), SETA \cup A(36) \cup To(\o22, 0), JUMP(100, ALWAYS),
              SETA \cup A(21) \cup To(0, 12)>>>>,
      <<60, <<HALT>>>>}),
    !.m = (8 :> Low(Last2)) @@ (9 :> Low(HALT)),
    !.a = (21 :> {7}) @@ (30 :> High(Last2)) @@ (31 :> High(HALT)) @@ (32 :> Far) @@ (33 :> Entry2)
          @@ (35 :> {2, 5}) @@ (36 :> Put(256 + 5, 0)),
    !.l2 = (1 :> {22, 23} \cup Put(Unibus, 0)), !.pages = <<3>>, !.words = Words(2, 9, <<{1, 30}>>),
    !.want = [m |-> (5 :> Put(2, 24) \cup {23} \cup Put(3, 0)) @@ (6 :> {31, 23} \cup Put(2, 24) \cup Put(3, 0))
                    @@ (7 :> {1, 30}) @@ (10 :> Put(3, 0)) @@ (11 :> {7}) @@ (12 :> {})]]

-----------------------------------------------------------------------------
(* Registers on the buses: MD and VMA from A memory.                       *)
PutReg(md, vma)   == <<SETA \cup A(md) \cup To(\o30, 0), SETA \cup A(vma) \cup To(\o22, 0)>>
GetMem(vma, dest) == <<SETA \cup A(vma) \cup To(\o21, 0), NOP, SETM \cup F(\o12) \cup dest>>
ReturnNow == JUMP(0, ALWAYS) \cup R \cup N

(* The disk: two blocks are written, across the end of a track, and read   *)
(* into other pages.  A tick and the end of a transfer are one interrupt;  *)
(* its handler dismisses it, and then asks the controller.                 *)
Await(w) == <<JUMP(80, INT) \cup P \cup N, IfBit(w + 3, 29) \cup M(5) \cup N, GoTo(w)>>
Begin(cmd, clp) == PutReg(cmd, 60) \o PutReg(clp, 61) \o PutReg(52, 62) \o PutReg(52, 63)
Geometry == (0 :> LABEL) @@ (3 :> {1}) @@ (4 :> {1})
Ccw(pn, more) == Put(pn, 8) \cup (IF more THEN {0} ELSE {})
DiskUser(code, has) ==
  [Program EXCEPT
    !.code = Code({<<0, <<SETA \cup A(53) \cup To(2, 0)>> \o code>>,
      <<80, PutReg(3, 64) \o GetMem(60, To(0, 5)) \o <<ReturnNow>>>>}),
    !.a = (50 :> Put(\o11, 0) \cup {11}) @@ (51 :> {11}) @@ (52 :> Put(1, 16) \cup Put(1, 0)) @@ (53 :> {27})
          @@ (54 :> Put(768, 0)) @@ (55 :> Put(770, 0)) @@ (56 :> Put(256 * 4, 0)) @@ (57 :> Put(256 * 5 + 1, 0))
          @@ [i \in 60 .. 63 |-> Put(\o77377700 + i, 0)] @@ (64 :> Put(\o77377760, 0)),
    !.l2 = [v \in 4 .. 5 |-> {22, 23} \cup Put(v, 0)],
    !.pages = <<1, 2, 3>>,
    !.words = Words(2, 0, <<{4}, {5}>>) @@ Words(3, 0, <<{6}, {7}>>)
              @@ Words(4, 0, <<Ccw(1, TRUE), Ccw(2, FALSE), Ccw(4, TRUE), Ccw(5, FALSE)>>),
    !.pack = [blocks |-> IF has THEN 0 :> Geometry ELSE Empty]]
WriteAndRead(ticking) ==
  [DiskUser(Begin(50, 54) \o Await(9) \o <<SETA \cup A(3) \cup To(0, 5)>> \o Begin(51, 55) \o Await(21)
            \o GetMem(56, To(0, 6)) \o GetMem(57, To(0, 7)) \o <<HALT>>, TRUE) EXCEPT
    !.ticks = ticking,
    !.want = [m |-> (6 :> {4}) @@ (7 :> {7}),
              pack |-> (5 :> ((0 :> {4}) @@ (1 :> {5}))) @@ (6 :> ((0 :> {6}) @@ (1 :> {7})))]]
(* Without a pack: the label of block 0; the block after it is not there.  *)
Unlabelled ==
  [DiskUser(PutReg(51, 60) \o PutReg(55, 61) \o PutReg(3, 62) \o PutReg(3, 63) \o Await(9)
            \o GetMem(56, To(0, 6)) \o <<HALT>>, FALSE) EXCEPT !.want = [m |-> 6 :> LABEL]]

(* A page; the frame buffer and past its end; the Unibus where no register *)
(* is, with a write's offset doubled; memory that is not there; the TV's   *)
(* CSR and its controls; the interrupt status, which reads 0; a command    *)
(* list that is not in memory.                                             *)
Accesses ==
  [Program EXCEPT
    !.code = Code({<<0,
      PutReg(40, 50) \o GetMem(50, To(0, 5)) \o PutReg(40, 51) \o GetMem(51, To(0, 6)) \o GetMem(52, To(0, 7))
      \o PutReg(40, 53) \o GetMem(54, To(0, 8)) \o GetMem(55, To(0, 9)) \o PutReg(41, 56) \o GetMem(56, To(0, 10))
      \o GetMem(57, To(0, 11)) \o PutReg(40, 58)
      \o PutReg(42, 60) \o PutReg(43, 61) \o PutReg(43, 63) \o GetMem(61, To(0, 12)) \o <<HALT>>>>}),
    !.a = (40 :> {3}) @@ (41 :> {4, 6}) @@ (42 :> {11}) @@ (43 :> {21})
          @@ (50 :> Put(768 + 5, 0)) @@ (51 :> Put(\o77000002, 0)) @@ (52 :> Put(\o77000010, 0))
          @@ (53 :> Put(256 + \o101, 0)) @@ (54 :> Put(256 + \o202, 0)) @@ (55 :> Put(512, 0))
          @@ (56 :> Put(\o77377760, 0)) @@ (57 :> Put(256 + \o40, 0)) @@ (58 :> Put(1024, 0))
          @@ [i \in 60 .. 63 |-> Put(\o77377700 + i, 0)],
    !.m = [i \in 5 .. 12 |-> {1}],
    !.l2 = (1 :> {22, 23} \cup Put(Unibus, 0)) @@ (2 :> {22, 23} \cup Put(phys_ram_pages, 0))
           @@ (3 :> {22, 23, 0}) @@ (4 :> {22, 23} \cup Put(TvControl, 0)),
    !.pages = <<1, Unibus>>,
    !.want = "m" :> [i \in 5 .. 12 |-> <<{3}, {3}, {}, {3}, Ones, {6}, {}, {21}>>[i - 4]]]

-----------------------------------------------------------------------------
(* The keyboard: each interrupt is dismissed, and then the key is read.    *)
Key(shift, plain, shifted) == [shift |-> shift, plain |-> plain, shifted |-> shifted]
Sends(code, want) == [code |-> code, want |-> want]
ShiftKey  == Key("SHIFT", Sends(\o24, "none"), Sends(\o24, "none"))
Letter    == Key("no", Sends(\o123, "none"), Sends(\o123, "SHIFT"))
Bracket   == Key("no", Sends(\o132, "TOP"), Sends(\o137, "none"))
Down2(k)  == [what |-> "key", key |-> k, down |-> TRUE]
Up2(k)    == [what |-> "key", key |-> k, down |-> FALSE]
Focus     == [what |-> "focus"]
Typist(keys) ==
  [Program EXCEPT
    !.code = Code({
      <<0, <<SETA \cup A(53) \cup To(2, 0)>> \o PutReg(70, 71) \o PutReg(72, 73)
           \o <<JUMP(80, INT) \cup P \cup N, GoTo(5)>>>>,
      <<80, PutReg(3, 74) \o GetMem(73, To(0, 5)) \o <<IfBit(87, 27) \cup M(5) \cup N, ReturnNow>>
            \o GetMem(75, To(0, 6)) \o <<ReturnNow>>>>}),
    !.a = (53 :> {27}) @@ (70 :> {10}) @@ (71 :> Put(256 + \o20, 0)) @@ (72 :> {2}) @@ (73 :> Put(512 + \o45, 0))
          @@ (74 :> Put(256 + \o21, 0)) @@ (75 :> Put(512 + \o40, 0)),
    !.l2 = (1 :> {22, 23} \cup Put(Unibus, 0)) @@ (2 :> {22, 23} \cup Put(Iob, 0)),
    !.keys = keys, !.runs = TRUE]

Products  == FlattenSeq([i \in 1 .. 6 |-> [j \in 1 .. 4 |->
               Multiply(<<-40000, -7, -1, 0, 1, 40000>>[i], <<0, 1, 255, 46000>>[j])]])
Quotients == FlattenSeq([i \in 1 .. 7 |-> [j \in 1 .. 5 |->
               Divide(<<-2147483647, -100, -1, 0, 5, 100, 2147483647>>[i], <<0, 1, 3, 100, 2147483647>>[j])]])
MCPrograms ==
  <<MacroLoop(FALSE), MacroLoop(TRUE), Calls, Boot, Accesses, WriteAndRead(FALSE), WriteAndRead(TRUE), Unlabelled,
    Typist(<<Down2(Letter), Down2(Bracket), Up2(Bracket), Up2(Letter)>>),
    Typist(<<Down2(ShiftKey), Down2(Letter), Focus, Up2(Letter), Up2(ShiftKey)>>)>>
  \o Products \o Quotients

-----------------------------------------------------------------------------
(* A program that has halted has computed what it should: the product or   *)
(* the quotient and remainder by the multiply and divide steps; the macro  *)
(* instructions in the order of the branches, each once, whatever halfword *)
(* a word was entered at and with a page fault on the way; calls that came *)
(* back to the instruction after them; what the disk was given, on the     *)
(* blocks asked for and read back, whenever the ticks came.                *)
Computed ==
  at = "halted" => \A k \in DOMAIN Machine[prog].want : Holds(k, Machine[prog].want[k])

(* A program that is not to run for ever halts: a transfer is noticed.     *)
Terminates == Machine[prog].runs \/ <>(at = "halted")

(* The keyboard never stops: the queue and the register are emptied.       *)
KeysTaken == <>[](host.queue = << >> /\ ~Ready)
=============================================================================
