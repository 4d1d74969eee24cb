-------------------------- MODULE PacketListProofs --------------------------
(***************************************************************************)
(* Chains of buffers as sequences.  Linked says that a chain is a given    *)
(* sequence of different buffers; the lemmas say what Chain returns then,  *)
(* and how the writes to pk_next that the loops of the NCP make change the *)
(* sequence: a buffer linked in, the front cut off, runs moved.            *)
(***************************************************************************)
EXTENDS PacketList, SequenceTheorems, NaturalsInduction, WellFoundedInduction, TLAPS

Ptr == Buf \cup {NOPKT}

At(s, i) == IF i \in 1 .. Len(s) THEN s[i] ELSE NOPKT

Different(s) == \A i, j \in 1 .. Len(s) : s[i] = s[j] => i = j

Linked(next, head, s) ==
  /\ s \in Seq(Buf) /\ Different(s)
  /\ head = At(s, 1)
  /\ \A i \in 1 .. Len(s) : next[s[i]] = At(s, i + 1)

-----------------------------------------------------------------------------
(***************************************************************************)
(* Loops.                                                                  *)
(***************************************************************************)
(* Every set of naturals that is not empty has a least element. *)
LEMMA Least ==
  ASSUME NEW B \in SUBSET Nat, B # {}
  PROVE  \E i \in B : \A j \in B : i <= j
<1>1. PICK x \in B : TRUE
  OBVIOUS
<1> DEFINE R == OpToRel(<, Nat)
<1>2. IsWellFoundedOn(R, Nat)
  BY NatLessThanWellFounded, Zenon
<1>3. \A j, i \in Nat : j < i => <<j, i>> \in R
  BY Zenon DEF OpToRel
<1> HIDE DEF R
<1>4. PICK i \in B : \A j \in B : ~(<<j, i>> \in R)
  BY <1>1, <1>2, WFMin
<1>5. \A j \in B : ~(j < i)
  BY <1>3, <1>4
<1> QED BY <1>5

(* What a loop returns is a function of where it starts, even where it     *)
(* does not end: the loop goes from x to g[x] and ends in T with v.        *)
Track(X, T, g, x, y, n) ==
  \E p \in [0 .. n -> X] :
    /\ p[0] = x /\ p[n] = y /\ y \in T
    /\ \A i \in 0 .. n - 1 : p[i] \notin T /\ p[i + 1] = g[p[i]]

Runs(X, T, g, x, y) == \E n \in Nat : Track(X, T, g, x, y, n)

(* A loop that goes on from x returns what it returns from g[x]. *)
LEMMA RunsStep ==
  ASSUME NEW X, NEW T, NEW g, NEW x \in X, NEW y, x \notin T, g[x] \in X
  PROVE  Runs(X, T, g, x, y) <=> Runs(X, T, g, g[x], y)
<1>1. ASSUME Runs(X, T, g, x, y) PROVE Runs(X, T, g, g[x], y)
  <2>0. PICK n \in Nat : Track(X, T, g, x, y, n)
    BY <1>1 DEF Runs
  <2>1. PICK p \in [0 .. n -> X] :
          /\ p[0] = x /\ p[n] = y /\ y \in T
          /\ \A i \in 0 .. n - 1 : p[i] \notin T /\ p[i + 1] = g[p[i]]
    BY <2>0 DEF Track
  <2>2. n # 0
    BY <2>1
  <2> DEFINE m == n - 1
             q == [i \in 0 .. m |-> p[i + 1]]
  <2>3. m \in Nat /\ m + 1 = n
    BY <2>2
  <2> HIDE DEF m
  <2>4. q \in [0 .. m -> X]
    BY <2>3
  <2>5. q[0] = g[x] /\ q[m] = y
    BY <2>1, <2>3
  <2>6. \A i \in 0 .. m - 1 : q[i] \notin T /\ q[i + 1] = g[q[i]]
    BY <2>1, <2>3
  <2> QED BY <2>1, <2>3, <2>4, <2>5, <2>6 DEF Runs, Track
<1>2. ASSUME Runs(X, T, g, g[x], y) PROVE Runs(X, T, g, x, y)
  <2>0. PICK n \in Nat : Track(X, T, g, g[x], y, n)
    BY <1>2 DEF Runs
  <2>1. PICK p \in [0 .. n -> X] :
          /\ p[0] = g[x] /\ p[n] = y /\ y \in T
          /\ \A i \in 0 .. n - 1 : p[i] \notin T /\ p[i + 1] = g[p[i]]
    BY <2>0 DEF Track
  <2> DEFINE m == n + 1
             q == [i \in 0 .. m |-> IF i = 0 THEN x ELSE p[i - 1]]
  <2>3. m \in Nat /\ m = n + 1
    OBVIOUS
  <2> HIDE DEF m
  <2>4. q \in [0 .. m -> X]
    BY <2>3
  <2>5. q[0] = x /\ q[m] = y
    BY <2>1, <2>3
  <2>6. ASSUME NEW i \in 0 .. m - 1 PROVE q[i] \notin T /\ q[i + 1] = g[q[i]]
    <3>1. CASE i = 0
      BY <2>1, <2>3, <3>1
    <3>2. CASE i # 0
      <4>1. i - 1 \in 0 .. n - 1 /\ i \in 0 .. m /\ i + 1 \in 0 .. m /\ (i - 1) + 1 = i
        BY <2>3, <3>2
      <4>2. p[i - 1] \notin T /\ p[i] = g[p[i - 1]]
        BY <2>1, <4>1
      <4>3. q[i] = p[i - 1] /\ q[i + 1] = p[i]
        BY <4>1, <3>2
      <4> QED BY <4>2, <4>3
    <3> QED BY <3>1, <3>2
  <2> QED BY <2>1, <2>3, <2>4, <2>5, <2>6 DEF Runs, Track
<1> QED BY <1>1, <1>2

Returns(X, T, v, g) == \E f : f = [x \in X |-> IF x \in T THEN v[x] ELSE f[g[x]]]

(* So a tail-recursive definition of a loop has a value, even where the    *)
(* loop never ends.                                                        *)
LEMMA LoopReturns ==
  ASSUME NEW X, NEW T, NEW v, NEW g, \A x \in X : x \notin T => g[x] \in X
  PROVE  Returns(X, T, v, g)
<1> DEFINE E(x) == {y \in X : Runs(X, T, g, x, y)}
           f == [x \in X |-> IF x \in T THEN v[x] ELSE v[CHOOSE y : y \in E(x)]]
<1>1. ASSUME NEW x \in X, x \notin T PROVE f[x] = f[g[x]]
  <2>1. g[x] \in X
    BY <1>1
  <2>2. E(x) = E(g[x])
    <3>1. \A y : Runs(X, T, g, x, y) <=> Runs(X, T, g, g[x], y)
      BY <1>1, <2>1, RunsStep
    <3> QED BY <3>1
  <2>3. f[x] = v[CHOOSE y : y \in E(x)]
    BY <1>1
  <2>4. CASE g[x] \notin T
    <3>1. f[g[x]] = v[CHOOSE y : y \in E(g[x])]
      BY <2>1, <2>4
    <3> QED BY <2>2, <2>3, <3>1, Zenon
  <2>5. CASE g[x] \in T
    <3>1. \A y : Runs(X, T, g, g[x], y) <=> y = g[x]
      <4>1. ASSUME NEW y, Runs(X, T, g, g[x], y) PROVE y = g[x]
        <5>0. PICK n \in Nat : Track(X, T, g, g[x], y, n)
          BY <4>1 DEF Runs
        <5>1. PICK p \in [0 .. n -> X] :
                /\ p[0] = g[x] /\ p[n] = y
                /\ \A i \in 0 .. n - 1 : p[i] \notin T
          BY <5>0 DEF Track
        <5>2. n = 0
          BY <2>5, <5>1
        <5> QED BY <5>1, <5>2
      <4>2. Runs(X, T, g, g[x], g[x])
        <5> DEFINE p == [i \in 0 .. 0 |-> g[x]]
        <5>1. 0 \in Nat /\ p \in [0 .. 0 -> X] /\ p[0] = g[x]
          BY <2>1
        <5>2. \A i \in 0 .. 0 - 1 : p[i] \notin T /\ p[i + 1] = g[p[i]]
          OBVIOUS
        <5> HIDE DEF p
        <5> QED BY <2>5, <5>1, <5>2 DEF Runs, Track
      <4> QED BY <4>1, <4>2
    <3>2. E(g[x]) = {g[x]}
      BY <2>1, <3>1
    <3>3. (CHOOSE y : y \in E(x)) = g[x]
      BY <2>2, <3>2
    <3>4. f[g[x]] = v[g[x]]
      BY <2>1, <2>5
    <3> QED BY <2>3, <3>3, <3>4
  <2> QED BY <2>4, <2>5
<1>2. \A x \in X : x \in T => f[x] = v[x]
  OBVIOUS
<1>3. f = [x \in X |-> f[x]]
  OBVIOUS
<1> HIDE DEF f
<1>4. f = [x \in X |-> IF x \in T THEN v[x] ELSE f[g[x]]]
  BY <1>1, <1>2, <1>3
<1> QED BY <1>4 DEF Returns

(* Its value where it starts is its value where it ends. *)
LEMMA LoopValue ==
  ASSUME NEW n \in Nat, NEW r, \A i \in 0 .. n - 1 : r[i] = r[i + 1]
  PROVE  r[0] = r[n]
<1> DEFINE B == {k \in 0 .. n : r[k] # r[0]}
<1>1. SUFFICES ASSUME B # {} PROVE FALSE
  OBVIOUS
<1>2. PICK k \in B : \A j \in B : k <= j
  <2>1. B \in SUBSET Nat
    OBVIOUS
  <2> HIDE DEF B
  <2> QED BY <1>1, <2>1, Least
<1>3. k # 0
  OBVIOUS
<1>4. k - 1 \in 0 .. n - 1 /\ (k - 1) + 1 = k /\ ~(k <= k - 1)
  BY <1>3
<1>5. r[k - 1] = r[0]
  <2>1. k - 1 \notin B
    BY <1>2, <1>4
  <2> QED BY <1>4, <2>1
<1> QED BY <1>4, <1>5

(* What a loop with a counter computes: it starts with z and applies h[i]  *)
(* in its i-th turn.                                                       *)
Turns(Q, z, h, n) ==
  \E f \in [0 .. n -> Q] : f = [i \in 0 .. n |-> IF i = 0 THEN z ELSE h[i][f[i - 1]]]

(* A definition by recursion on 0 .. n has a value of the type it keeps. *)
LEMMA Recursion ==
  ASSUME NEW Q, NEW z \in Q, NEW n \in Nat, NEW h,
         \A i \in 1 .. n : h[i] \in [Q -> Q]
  PROVE  Turns(Q, z, h, n)
<1> DEFINE B == {k \in 0 .. n : ~Turns(Q, z, h, k)}
<1>1. SUFFICES ASSUME B # {} PROVE FALSE
  OBVIOUS
<1>2. PICK k \in B : \A j \in B : k <= j
  <2>1. B \in SUBSET Nat
    OBVIOUS
  <2> HIDE DEF B
  <2> QED BY <1>1, <2>1, Least
<1>3. CASE k = 0
  <2> DEFINE f == [i \in 0 .. 0 |-> z]
  <2>1. f \in [0 .. 0 -> Q]
    OBVIOUS
  <2>2. f = [i \in 0 .. 0 |-> IF i = 0 THEN z ELSE h[i][f[i - 1]]]
    OBVIOUS
  <2> HIDE DEF f
  <2> QED BY <1>2, <1>3, <2>1, <2>2 DEF Turns
<1>4. CASE k # 0
  <2>1. k - 1 \in 0 .. n /\ ~(k <= k - 1)
    BY <1>4
  <2>2. Turns(Q, z, h, k - 1)
    BY <1>2, <2>1
  <2>3. PICK e \in [0 .. k - 1 -> Q] :
          e = [i \in 0 .. k - 1 |-> IF i = 0 THEN z ELSE h[i][e[i - 1]]]
    BY <2>2 DEF Turns
  <2> DEFINE f == [i \in 0 .. k |-> IF i = k THEN h[k][e[k - 1]] ELSE e[i]]
  <2>4. k - 1 \in 0 .. k - 1 /\ k \in 1 .. n
    BY <1>4, <2>1
  <2>5. h[k][e[k - 1]] \in Q
    BY <2>4
  <2>6. f \in [0 .. k -> Q]
    BY <2>5
  <2>7. ASSUME NEW i \in 0 .. k PROVE f[i] = IF i = 0 THEN z ELSE h[i][f[i - 1]]
    <3>1. CASE i = k
      BY <3>1, <1>4, <2>4
    <3>2. CASE i # k
      <4>1. i \in 0 .. k - 1 /\ f[i] = e[i]
        BY <3>2
      <4>2. i # 0 => i - 1 \in 0 .. k /\ i - 1 # k
        BY <3>2
      <4>3. i # 0 => f[i - 1] = e[i - 1]
        BY <4>2
      <4>4. e[i] = IF i = 0 THEN z ELSE h[i][e[i - 1]]
        BY <2>3, <4>1
      <4> HIDE DEF f
      <4> QED BY <4>1, <4>3, <4>4
    <3> QED BY <3>1, <3>2
  <2>8. f = [i \in 0 .. k |-> IF i = 0 THEN z ELSE h[i][f[i - 1]]]
    <3>1. f = [i \in 0 .. k |-> f[i]]
      OBVIOUS
    <3> HIDE DEF f
    <3> QED BY <3>1, <2>7
  <2> HIDE DEF f
  <2> QED BY <1>2, <2>6, <2>8 DEF Turns
<1> QED BY <1>3, <1>4

-----------------------------------------------------------------------------
(***************************************************************************)
(* Chains.                                                                 *)
(***************************************************************************)
(* Beyond its last buffer a chain has no successor. *)
LEMMA AtType ==
  ASSUME NEW s \in Seq(Buf), NEW i
  PROVE  /\ At(s, i) \in Ptr
         /\ i \in 1 .. Len(s) => At(s, i) = s[i] /\ s[i] \in Buf /\ s[i] # NOPKT
         /\ i \notin 1 .. Len(s) => At(s, i) = NOPKT
BY ElementOfSeq, ListAssumption DEF At, Ptr

(* What a chain holds are buffers. *)
LEMMA MembersOf ==
  ASSUME NEW s \in Seq(Buf)
  PROVE  Members(s) \subseteq Buf /\ NOPKT \notin Members(s)
BY ElementOfSeq, ListAssumption DEF Members

(* Walking down a linked list yields it. *)
LEMMA LinkedChain ==
  ASSUME NEW next \in [Buf -> Ptr], NEW head, NEW s, Linked(next, head, s)
  PROVE  Chain(next, head) = s /\ EndsIn(next, head)
<1> DEFINE X == [taken : Seq(Buf), at : Buf \cup {NOPKT}]
           T == {q \in X : q.at = NOPKT \/ q.at \in Members(q.taken)}
           v == [q \in X |-> q.taken]
           g == [q \in X |-> [taken |-> Append(q.taken, q.at), at |-> next[q.at]]]
           walk[q \in X] ==
             IF q.at = NOPKT \/ q.at \in Members(q.taken) THEN q.taken
             ELSE walk[[taken |-> Append(q.taken, q.at), at |-> next[q.at]]]
           p == [i \in 0 .. Len(s) |-> [taken |-> SubSeq(s, 1, i), at |-> At(s, i + 1)]]
<1>1. /\ s \in Seq(Buf) /\ Different(s) /\ head = At(s, 1) /\ Len(s) \in Nat
      /\ \A i \in 1 .. Len(s) : next[s[i]] = At(s, i + 1)
  BY DEF Linked
<1>2. \A q \in X : q \notin T => g[q] \in X
  <2> SUFFICES ASSUME NEW q \in X, q \notin T PROVE g[q] \in X
    OBVIOUS
  <2>1. q.at \in Buf /\ q.taken \in Seq(Buf)
    OBVIOUS
  <2>2. Append(q.taken, q.at) \in Seq(Buf) /\ next[q.at] \in Ptr
    BY <2>1, AppendProperties
  <2> QED BY <2>2 DEF Ptr
<1>3. walk = [q \in X |-> IF q.at = NOPKT \/ q.at \in Members(q.taken) THEN q.taken
                        ELSE walk[[taken |-> Append(q.taken, q.at), at |-> next[q.at]]]]
  <2>0. Returns(X, T, v, g)
    <3> HIDE DEF X, T, v, g, walk, p
    <3> QED BY <1>2, LoopReturns
  <2>1. PICK f : f = [q \in X |-> IF q \in T THEN v[q] ELSE f[g[q]]]
    <3> HIDE DEF X, T, v, g, walk, p
    <3> QED BY <2>0 DEF Returns
  <2>2. f = [q \in X |-> IF q.at = NOPKT \/ q.at \in Members(q.taken) THEN q.taken
                         ELSE f[[taken |-> Append(q.taken, q.at), at |-> next[q.at]]]]
    <3>1. ASSUME NEW q \in X
          PROVE  (IF q \in T THEN v[q] ELSE f[g[q]])
                   = IF q.at = NOPKT \/ q.at \in Members(q.taken) THEN q.taken
                     ELSE f[[taken |-> Append(q.taken, q.at), at |-> next[q.at]]]
      <4>1. v[q] = q.taken /\ g[q] = [taken |-> Append(q.taken, q.at), at |-> next[q.at]]
        OBVIOUS
      <4>2. q \in T <=> q.at = NOPKT \/ q.at \in Members(q.taken)
        OBVIOUS
      <4> HIDE DEF X, T, v, g
      <4> QED BY <4>1, <4>2
    <3> HIDE DEF X, T, v, g
    <3> QED BY <2>1, <3>1
  <2> HIDE DEF X
  <2> QED BY <2>2, Zenon DEF walk
<1> HIDE DEF walk, T, v, g
<1>4. \A i \in 0 .. Len(s) : p[i] \in X
  <2> SUFFICES ASSUME NEW i \in 0 .. Len(s) PROVE p[i] \in X
    OBVIOUS
  <2>1. SubSeq(s, 1, i) \in Seq(Buf)
    BY <1>1, SubSeqProperties, ElementOfSeq
  <2> QED BY <1>1, <2>1, AtType DEF Ptr
<1>5. ASSUME NEW i \in 0 .. Len(s) - 1 PROVE walk[p[i]] = walk[p[i + 1]]
  <2>1. i \in 0 .. Len(s) /\ i + 1 \in 1 .. Len(s) /\ i + 1 \in 0 .. Len(s)
    BY <1>1
  <2>2. p[i].at = s[i + 1] /\ p[i].taken = SubSeq(s, 1, i) /\ s[i + 1] # NOPKT
    BY <1>1, <2>1, AtType
  <2>3. Len(SubSeq(s, 1, i)) = i /\ \A j \in 1 .. i : SubSeq(s, 1, i)[j] = s[j]
    BY <1>1, <2>1, SubSeqProperties, ElementOfSeq
  <2>4. s[i + 1] \notin Members(SubSeq(s, 1, i))
    BY <1>1, <2>1, <2>3 DEF Members, Different
  <2>5. Append(SubSeq(s, 1, i), s[i + 1]) = SubSeq(s, 1, i + 1)
    BY <1>1, <2>1, SubSeqRecursiveSecond
  <2>6. next[s[i + 1]] = At(s, (i + 1) + 1)
    BY <1>1, <2>1
  <2>7. p[i + 1] = [taken |-> Append(p[i].taken, p[i].at), at |-> next[p[i].at]]
    BY <2>1, <2>2, <2>5, <2>6
  <2>8. p[i] \in X
    BY <1>4, <2>1
  <2> HIDE DEF p, X
  <2> QED BY <1>3, <2>2, <2>4, <2>7, <2>8
<1>6. walk[p[0]] = walk[p[Len(s)]]
  <2> DEFINE r == [i \in 0 .. Len(s) |-> walk[p[i]]]
  <2>1. \A i \in 0 .. Len(s) - 1 : r[i] = r[i + 1]
    <3> HIDE DEF p
    <3> QED BY <1>1, <1>5
  <2>2. r[0] = walk[p[0]] /\ r[Len(s)] = walk[p[Len(s)]]
    <3> HIDE DEF p
    <3> QED BY <1>1
  <2> HIDE DEF r, p
  <2> QED BY <1>1, <2>1, <2>2, LoopValue
<1>7. p[0] = [taken |-> <<>>, at |-> head]
  <2>1. SubSeq(s, 1, 0) = <<>>
    BY SubSeqEmpty
  <2>2. 0 \in 0 .. Len(s) /\ 0 + 1 = 1
    BY <1>1
  <2>3. p[0] = [taken |-> SubSeq(s, 1, 0), at |-> At(s, 0 + 1)]
    BY <2>2
  <2> HIDE DEF p
  <2> QED BY <1>1, <2>1, <2>2, <2>3
<1>8. walk[p[Len(s)]] = s
  <2>1. SubSeq(s, 1, Len(s)) = s
    BY <1>1, SubSeqFull
  <2>2. p[Len(s)] = [taken |-> s, at |-> NOPKT]
    BY <1>1, <2>1 DEF At
  <2>3. p[Len(s)] \in X
    BY <1>1, <1>4
  <2> HIDE DEF p, X
  <2> QED BY <1>3, <2>2, <2>3
<1>9. Chain(next, head) = walk[[taken |-> <<>>, at |-> head]]
  BY DEF Chain, walk
<1>10. Chain(next, head) = s
  BY <1>6, <1>7, <1>8, <1>9
<1>11. EndsIn(next, head)
  <2>1. s # <<>> => next[s[Len(s)]] = NOPKT
    <3>1. s # <<>> => Len(s) \in 1 .. Len(s)
      BY <1>1, EmptySeq
    <3> QED BY <1>1, <3>1 DEF At
  <2> QED BY <1>10, <2>1 DEF EndsIn
<1> QED BY <1>10, <1>11

-----------------------------------------------------------------------------
(***************************************************************************)
(* What is taken out of a sequence.                                        *)
(***************************************************************************)
Picks(f, s, S) ==
  f = [i \in 0 .. Len(s) |->
         IF i = 0 THEN <<>>
         ELSE IF s[i] \in S THEN Append(f[i - 1], s[i]) ELSE f[i - 1]]

(* Among is computed by one pass over the sequence. *)
LEMMA AmongPicks ==
  ASSUME NEW s \in Seq(Buf), NEW S
  PROVE  \E f \in [0 .. Len(s) -> Seq(Buf)] : Picks(f, s, S) /\ Among(s, S) = f[Len(s)]
<1> DEFINE n == Len(s)
           step(i, x) == IF s[i] \in S THEN Append(x, s[i]) ELSE x
           h == [i \in 1 .. n |-> [x \in Seq(Buf) |-> step(i, x)]]
           pick[i \in 0 .. Len(s)] ==
             IF i = 0 THEN <<>>
             ELSE IF s[i] \in S THEN Append(pick[i - 1], s[i]) ELSE pick[i - 1]
<1>1. n \in Nat /\ <<>> \in Seq(Buf)
  OBVIOUS
<1>2. ASSUME NEW i \in 1 .. n PROVE h[i] \in [Seq(Buf) -> Seq(Buf)]
  <2>1. s[i] \in Buf
    BY ElementOfSeq
  <2>2. \A x \in Seq(Buf) : Append(x, s[i]) \in Seq(Buf)
    BY <2>1, AppendProperties
  <2> QED BY <2>2
<1>3. Turns(Seq(Buf), <<>>, h, n)
  <2> HIDE DEF h, n
  <2> QED BY <1>1, <1>2, Recursion
<1>4. PICK f \in [0 .. n -> Seq(Buf)] :
        f = [i \in 0 .. n |-> IF i = 0 THEN <<>> ELSE h[i][f[i - 1]]]
  <2> HIDE DEF h, n
  <2> QED BY <1>3 DEF Turns
<1>5. Picks(f, s, S)
  <2>1. ASSUME NEW i \in 0 .. n
        PROVE  (IF i = 0 THEN <<>> ELSE h[i][f[i - 1]])
                 = IF i = 0 THEN <<>>
                   ELSE IF s[i] \in S THEN Append(f[i - 1], s[i]) ELSE f[i - 1]
    <3>1. CASE i # 0
      <4>1. i \in 1 .. n /\ f[i - 1] \in Seq(Buf)
        BY <1>1, <3>1
      <4>2. h[i][f[i - 1]] = step(i, f[i - 1])
        BY <4>1
      <4> QED BY <3>1, <4>2
    <3> QED BY <3>1
  <2> HIDE DEF h
  <2> QED BY <1>4, <2>1 DEF Picks
<1>6. Picks(pick, s, S)
  <2> HIDE DEF h
  <2> QED BY <1>5, Zenon DEF Picks, pick
<1>7. Among(s, S) = pick[Len(s)]
  BY DEF Among, pick
<1>8. pick \in [0 .. Len(s) -> Seq(Buf)]
  <2> DEFINE B == {k \in 0 .. n : pick[k] \notin Seq(Buf)}
  <2>1. SUFFICES ASSUME B # {} PROVE FALSE
    <3> HIDE DEF pick, h
    <3> QED BY <1>6 DEF Picks
  <2> HIDE DEF h, pick
  <2>2. PICK k \in B : \A j \in B : k <= j
    <3>1. B \in SUBSET Nat
      OBVIOUS
    <3> HIDE DEF B
    <3> QED BY <2>1, <3>1, Least
  <2>3. pick[k] = IF k = 0 THEN <<>>
             ELSE IF s[k] \in S THEN Append(pick[k - 1], s[k]) ELSE pick[k - 1]
    BY <1>6 DEF Picks
  <2>4. k # 0
    BY <2>3
  <2>5. k - 1 \in 0 .. n /\ ~(k <= k - 1) /\ k \in 1 .. Len(s)
    BY <2>4
  <2>6. pick[k - 1] \in Seq(Buf) /\ s[k] \in Buf
    BY <2>2, <2>5, ElementOfSeq
  <2>7. Append(pick[k - 1], s[k]) \in Seq(Buf)
    BY <2>6, AppendProperties
  <2> QED BY <2>3, <2>4, <2>6, <2>7
<1> HIDE DEF pick, h
<1> QED BY <1>6, <1>7, <1>8

(* t is what the first k of s have in S, in the order of s. *)
Upto(s, k) == {s[i] : i \in 1 .. k}

Ordered(t, s, k) ==
  \A a, b \in 1 .. Len(t) : a < b =>
    \E i, j \in 1 .. k : i < j /\ t[a] = s[i] /\ t[b] = s[j]

Extract(t, s, S) ==
  /\ t \in Seq(Buf)
  /\ Members(t) = Members(s) \cap S
  /\ Ordered(t, s, Len(s))

(* Among has the elements that are in S, in their order. *)
LEMMA AmongExtracts ==
  ASSUME NEW s \in Seq(Buf), NEW S
  PROVE  Extract(Among(s, S), s, S)
<1>1. PICK f \in [0 .. Len(s) -> Seq(Buf)] : Picks(f, s, S) /\ Among(s, S) = f[Len(s)]
  BY AmongPicks
<1> DEFINE Good(k) == Members(f[k]) = Upto(s, k) \cap S /\ Ordered(f[k], s, k)
           B == {k \in 0 .. Len(s) : ~Good(k)}
<1>2. Len(s) \in Nat
  OBVIOUS
<1>3. B = {}
  <2> SUFFICES ASSUME B # {} PROVE FALSE
    OBVIOUS
  <2>1. PICK k \in B : \A j \in B : k <= j
    <3>1. B \in SUBSET Nat
      BY <1>2
    <3> HIDE DEF B
    <3> QED BY <3>1, Least
  <2>2. f[k] = IF k = 0 THEN <<>>
             ELSE IF s[k] \in S THEN Append(f[k - 1], s[k]) ELSE f[k - 1]
    BY <1>1 DEF Picks
  <2>3. k # 0
    <3> SUFFICES ASSUME k = 0 PROVE FALSE
      OBVIOUS
    <3>1. f[k] = <<>>
      BY <2>2
    <3>2. Len(f[k]) = 0
      BY <3>1
    <3> QED BY <2>1, <3>2 DEF Members, Upto, Ordered
  <2>4. k - 1 \in 0 .. Len(s) /\ ~(k <= k - 1) /\ k \in 1 .. Len(s) /\ k \in Nat
    BY <1>2, <2>3
  <2>5. Good(k - 1)
    BY <2>1, <2>4
  <2> DEFINE u == f[k - 1]
  <2>6. u \in Seq(Buf) /\ s[k] \in Buf
    BY <2>4, ElementOfSeq
  <2>7. Upto(s, k) = Upto(s, k - 1) \cup {s[k]}
    <3>1. 1 .. k = (1 .. k - 1) \cup {k}
      BY <2>4
    <3> QED BY <3>1 DEF Upto
  <2>8. CASE s[k] \in S
    <3>1. f[k] = Append(u, s[k])
      BY <2>2, <2>3, <2>8
    <3>2. /\ Len(f[k]) = Len(u) + 1 /\ \A i \in 1 .. Len(u) : f[k][i] = u[i]
          /\ f[k][Len(u) + 1] = s[k] /\ Len(u) \in Nat
      BY <2>6, <3>1, AppendProperties
    <3> HIDE DEF u
    <3>3. Members(f[k]) = Members(u) \cup {s[k]}
      <4>1. 1 .. Len(f[k]) = (1 .. Len(u)) \cup {Len(u) + 1}
        BY <3>2
      <4> QED BY <3>2, <4>1 DEF Members
    <3>4. Members(f[k]) = Upto(s, k) \cap S
      <4>1. Members(u) = Upto(s, k - 1) \cap S
        BY <2>5 DEF u
      <4> QED BY <2>7, <2>8, <3>3, <4>1
    <3>5. Ordered(f[k], s, k)
      <4> SUFFICES ASSUME NEW a \in 1 .. Len(f[k]), NEW b \in 1 .. Len(f[k]), a < b
                   PROVE  \E i, j \in 1 .. k : i < j /\ f[k][a] = s[i] /\ f[k][b] = s[j]
        BY DEF Ordered
      <4>1. CASE b = Len(u) + 1
        <5>1. a \in 1 .. Len(u) /\ f[k][a] = u[a] /\ f[k][b] = s[k]
          BY <3>2, <4>1
        <5>2. u[a] \in Members(u)
          BY <5>1 DEF Members
        <5>3. PICK i \in 1 .. k - 1 : u[a] = s[i]
          <6>1. u[a] \in Upto(s, k - 1)
            BY <2>5, <5>2 DEF u
          <6> QED BY <6>1 DEF Upto
        <5>4. i \in 1 .. k /\ k \in 1 .. k /\ i < k
          BY <2>4
        <5> QED BY <5>1, <5>3, <5>4
      <4>2. CASE b # Len(u) + 1
        <5>0. Len(u) \in Nat /\ Len(f[k]) = Len(u) + 1
          BY <3>2
        <5>1. a \in 1 .. Len(u) /\ b \in 1 .. Len(u)
          <6> HIDE DEF B, Good
          <6>1. \A n \in Nat : \A i, j \in 1 .. n + 1 :
                  i < j /\ j # n + 1 => i \in 1 .. n /\ j \in 1 .. n
            OBVIOUS
          <6> QED BY <4>2, <5>0, <6>1, Zenon
        <5>2. Ordered(u, s, k - 1)
          BY <2>5 DEF u
        <5>3. PICK i, j \in 1 .. k - 1 : i < j /\ u[a] = s[i] /\ u[b] = s[j]
          BY <5>1, <5>2 DEF Ordered
        <5>4. i \in 1 .. k /\ j \in 1 .. k
          BY <2>4
        <5>5. f[k][a] = u[a] /\ f[k][b] = u[b]
          BY <3>2, <5>1
        <5> QED BY <5>3, <5>4, <5>5, Zenon
      <4> QED BY <4>1, <4>2
    <3> QED BY <2>1, <3>4, <3>5
  <2>9. CASE s[k] \notin S
    <3>1. f[k] = u
      BY <2>2, <2>3, <2>9
    <3>2. 1 .. k - 1 \subseteq 1 .. k
      BY <2>4
    <3>3. Members(f[k]) = Upto(s, k) \cap S
      BY <2>5, <2>7, <2>9, <3>1
    <3>4. Ordered(u, s, k)
      BY <2>5, <3>2 DEF Ordered
    <3> QED BY <2>1, <3>1, <3>3, <3>4
  <2> QED BY <2>8, <2>9
<1>4. Good(Len(s))
  BY <1>2, <1>3
<1>5. Members(s) = Upto(s, Len(s))
  BY DEF Members, Upto
<1> QED BY <1>1, <1>2, <1>4, <1>5 DEF Extract

-----------------------------------------------------------------------------
(***************************************************************************)
(* Changes of a chain.                                                     *)
(***************************************************************************)
Insert(s, k, b) ==
  [i \in 1 .. Len(s) + 1 |-> IF i <= k THEN s[i] ELSE IF i = k + 1 THEN b ELSE s[i - 1]]

(* Where the elements of a sequence are after one is inserted. *)
LEMMA InsertShape ==
  ASSUME NEW s \in Seq(Buf), NEW k \in 0 .. Len(s), NEW b \in Buf
  PROVE  /\ Insert(s, k, b) \in Seq(Buf)
         /\ Len(Insert(s, k, b)) = Len(s) + 1
         /\ Len(s) \in Nat
         /\ \A i \in 1 .. k : Insert(s, k, b)[i] = s[i]
         /\ Insert(s, k, b)[k + 1] = b
         /\ \A i \in k + 2 .. Len(s) + 1 : Insert(s, k, b)[i] = s[i - 1]
<1>1. Len(s) \in Nat /\ \A i \in 1 .. Len(s) : s[i] \in Buf
  BY ElementOfSeq
<1> DEFINE n == Len(s) + 1
<1>2. n \in Nat /\ n = Len(s) + 1
  BY <1>1
<1> HIDE DEF n
<1>3. Insert(s, k, b) = [i \in 1 .. n |-> IF i <= k THEN s[i] ELSE IF i = k + 1 THEN b ELSE s[i - 1]]
  BY <1>2 DEF Insert
<1>4. \A i \in 1 .. n : (IF i <= k THEN s[i] ELSE IF i = k + 1 THEN b ELSE s[i - 1]) \in Buf
  <2> SUFFICES ASSUME NEW i \in 1 .. n
               PROVE  (IF i <= k THEN s[i] ELSE IF i = k + 1 THEN b ELSE s[i - 1]) \in Buf
    OBVIOUS
  <2>1. i <= k => i \in 1 .. Len(s)
    BY <1>1, <1>2
  <2>2. ~(i <= k) /\ i # k + 1 => i - 1 \in 1 .. Len(s)
    BY <1>1, <1>2
  <2> QED BY <1>1, <2>1, <2>2
<1>5. Insert(s, k, b) \in [1 .. n -> Buf]
  BY <1>3, <1>4
<1>6. Insert(s, k, b) \in Seq(Buf) /\ Len(Insert(s, k, b)) = n
  BY <1>2, <1>5
<1>7. \A i \in 1 .. k : Insert(s, k, b)[i] = s[i]
  BY <1>1, <1>2, <1>3
<1>8. Insert(s, k, b)[k + 1] = b
  BY <1>1, <1>2, <1>3
<1>9. \A i \in k + 2 .. Len(s) + 1 : Insert(s, k, b)[i] = s[i - 1]
  BY <1>1, <1>2, <1>3
<1> QED BY <1>1, <1>2, <1>6, <1>7, <1>8, <1>9

(* The write to pk_next that links b in behind the k-th buffer. *)
LEMMA LinkIn ==
  ASSUME NEW next \in [Buf -> Ptr], NEW head, NEW s, Linked(next, head, s),
         NEW b \in Buf, b \notin Members(s), NEW k \in 0 .. Len(s),
         NEW new \in [Buf -> Ptr],
         new[b] = At(s, k + 1), k > 0 => new[s[k]] = b,
         \A i \in 1 .. Len(s) : i # k => new[s[i]] = next[s[i]]
  PROVE  /\ Linked(new, IF k = 0 THEN b ELSE head, Insert(s, k, b))
         /\ Members(Insert(s, k, b)) = Members(s) \cup {b}
<1> DEFINE t == Insert(s, k, b)
<1>1. /\ s \in Seq(Buf) /\ Different(s) /\ head = At(s, 1)
      /\ \A i \in 1 .. Len(s) : next[s[i]] = At(s, i + 1)
  BY DEF Linked
<1>2. /\ t \in Seq(Buf) /\ Len(t) = Len(s) + 1 /\ Len(s) \in Nat
      /\ \A i \in 1 .. k : t[i] = s[i]
      /\ t[k + 1] = b
      /\ \A i \in k + 2 .. Len(s) + 1 : t[i] = s[i - 1]
  <2>1. s \in Seq(Buf)
    BY <1>1
  <2> QED BY <2>1, InsertShape
<1> HIDE DEF t
<1>3. \A i \in 1 .. Len(s) : s[i] # b
  BY DEF Members
<1>4. Different(t)
  <2> DEFINE old(i) == IF i <= k THEN i ELSE i - 1
  <2>1. \A i \in 1 .. Len(t) : i # k + 1 => old(i) \in 1 .. Len(s) /\ t[i] = s[old(i)]
    BY <1>2
  <2>2. \A i, j \in 1 .. Len(t) : i # k + 1 /\ j # k + 1 /\ old(i) = old(j) => i = j
    BY <1>2
  <2> SUFFICES ASSUME NEW i \in 1 .. Len(t), NEW j \in 1 .. Len(t), t[i] = t[j]
               PROVE  i = j
    BY DEF Different
  <2>3. CASE i # k + 1 /\ j # k + 1
    <3>1. s[old(i)] = s[old(j)] /\ old(i) \in 1 .. Len(s) /\ old(j) \in 1 .. Len(s)
      BY <2>1, <2>3
    <3>2. old(i) = old(j)
      <4> HIDE DEF old
      <4> QED BY <1>1, <3>1 DEF Different
    <3> QED BY <2>2, <2>3, <3>2
  <2>4. CASE i = k + 1 /\ j # k + 1
    BY <1>2, <1>3, <2>1, <2>4
  <2>5. CASE i # k + 1 /\ j = k + 1
    BY <1>2, <1>3, <2>1, <2>5
  <2>6. CASE i = k + 1 /\ j = k + 1
    BY <2>6
  <2> QED BY <2>3, <2>4, <2>5, <2>6
<1>5. (IF k = 0 THEN b ELSE head) = At(t, 1)
  BY <1>1, <1>2 DEF At
<1>6. ASSUME NEW i \in 1 .. Len(t) PROVE new[t[i]] = At(t, i + 1)
  <2>1. CASE i < k
    <3>1. i \in 1 .. Len(s) /\ i + 1 \in 1 .. Len(s) /\ i + 1 \in 1 .. Len(t) /\ i # k
      BY <1>2, <2>1
    <3>2. t[i] = s[i] /\ t[i + 1] = s[i + 1]
      BY <1>2, <2>1
    <3> QED BY <1>1, <3>1, <3>2 DEF At
  <2>2. CASE i = k
    <3>1. t[i] = s[k] /\ At(t, i + 1) = b /\ k > 0
      BY <1>2, <2>2 DEF At
    <3> QED BY <3>1
  <2>3. CASE i = k + 1
    <3>1. t[i] = b
      BY <1>2, <2>3
    <3>2. At(s, k + 1) = At(t, i + 1)
      BY <1>2, <2>3 DEF At
    <3> QED BY <3>1, <3>2
  <2>4. CASE i > k + 1
    <3>0. i \in k + 2 .. Len(s) + 1 /\ i - 1 \in 1 .. Len(s) /\ i - 1 # k
      BY <1>2, <2>4
    <3>1. t[i] = s[i - 1]
      BY <1>2, <3>0
    <3>2. At(s, (i - 1) + 1) = At(t, i + 1)
      BY <1>2, <2>4 DEF At
    <3> QED BY <1>1, <3>0, <3>1, <3>2
  <2> QED BY <1>2, <2>1, <2>2, <2>3, <2>4
<1>7. Members(t) = Members(s) \cup {b}
  <2>1. ASSUME NEW x \in Members(t) PROVE x \in Members(s) \cup {b}
    <3>1. PICK i \in 1 .. Len(t) : x = t[i]
      BY DEF Members
    <3>2. CASE i <= k
      <4>1. i \in 1 .. Len(s) /\ x = s[i]
        BY <1>2, <3>1, <3>2
      <4> QED BY <4>1 DEF Members
    <3>3. CASE i > k + 1
      <4>1. i - 1 \in 1 .. Len(s) /\ x = s[i - 1]
        BY <1>2, <3>1, <3>3
      <4> QED BY <4>1 DEF Members
    <3> QED BY <1>2, <3>1, <3>2, <3>3
  <2>2. ASSUME NEW i \in 1 .. Len(s) PROVE s[i] \in Members(t)
    <3>1. CASE i <= k
      <4>1. i \in 1 .. Len(t) /\ t[i] = s[i]
        BY <1>2, <3>1
      <4> QED BY <4>1 DEF Members
    <3>2. CASE i > k
      <4>1. i + 1 \in 1 .. Len(t) /\ t[i + 1] = s[(i + 1) - 1] /\ (i + 1) - 1 = i
        BY <1>2, <3>2
      <4> QED BY <4>1 DEF Members
    <3> QED BY <1>2, <3>1, <3>2
  <2>3. b \in Members(t)
    <3>1. k + 1 \in 1 .. Len(t) /\ t[k + 1] = b
      BY <1>2
    <3> QED BY <3>1 DEF Members
  <2> QED BY <2>1, <2>2, <2>3 DEF Members
<1> QED BY <1>2, <1>4, <1>5, <1>6, <1>7 DEF Linked, t

(* Writes to other buffers leave a chain as it is. *)
LEMMA LinkedFrame ==
  ASSUME NEW next, NEW new, NEW head, NEW s, Linked(next, head, s),
         \A b \in Members(s) : new[b] = next[b]
  PROVE  Linked(new, head, s)
<1>1. \A i \in 1 .. Len(s) : s[i] \in Members(s)
  BY DEF Members
<1> QED BY <1>1 DEF Linked

(* The null pointer is the empty chain. *)
LEMMA LinkedEmpty ==
  ASSUME NEW next
  PROVE  Linked(next, NOPKT, <<>>) /\ Members(<<>>) = {}
BY DEF Linked, Different, At, Members

(* The head of a chain that is not empty is its first buffer. *)
LEMMA HeadOf ==
  ASSUME NEW next, NEW head, NEW s, Linked(next, head, s)
  PROVE  /\ head = NOPKT <=> s = <<>>
         /\ s # <<>> => /\ Len(s) \in Nat \ {0} /\ head = s[1] /\ head \in Members(s)
                        /\ head \in Buf /\ next[head] = At(s, 2)
<1>1. s \in Seq(Buf) /\ head = At(s, 1) /\ \A i \in 1 .. Len(s) : next[s[i]] = At(s, i + 1)
  BY DEF Linked
<1>2. CASE s = <<>>
  <2>1. Len(s) = 0
    BY <1>2
  <2> QED BY <1>1, <1>2, <2>1 DEF At
<1>3. CASE s # <<>>
  <2>1. Len(s) \in Nat \ {0}
    BY <1>1, <1>3, EmptySeq
  <2>2. 1 \in 1 .. Len(s)
    BY <2>1
  <2>3. head = s[1] /\ s[1] \in Buf /\ s[1] # NOPKT /\ next[s[1]] = At(s, 1 + 1)
    BY <1>1, <2>2, AtType
  <2>4. s[1] \in Members(s)
    BY <2>2 DEF Members
  <2> QED BY <1>3, <2>1, <2>3, <2>4
<1> QED BY <1>2, <1>3

(* The front cut off. *)
Drop(s, k) == SubSeq(s, k + 1, Len(s))

(* Where the elements are after the front is cut off. *)
LEMMA DropShape ==
  ASSUME NEW s \in Seq(Buf), NEW k \in 0 .. Len(s)
  PROVE  /\ Drop(s, k) \in Seq(Buf) /\ Len(Drop(s, k)) = Len(s) - k /\ Len(s) \in Nat
         /\ \A i \in 1 .. Len(s) - k : Drop(s, k)[i] = s[k + i]
<1>1. Len(s) \in Nat /\ \A i \in k + 1 .. Len(s) : s[i] \in Buf
  <2>1. Len(s) \in Nat /\ \A i \in 1 .. Len(s) : s[i] \in Buf
    BY ElementOfSeq
  <2> QED BY <2>1
<1>2. k + 1 \in Int /\ Len(s) \in Int
  BY <1>1
<1> DEFINE m == k + 1
           n == Len(s)
<1>3. m \in Int /\ n \in Int /\ \A i \in m .. n : s[i] \in Buf
  BY <1>1, <1>2
<1>4. /\ SubSeq(s, m, n) \in Seq(Buf)
      /\ Len(SubSeq(s, m, n)) = IF m <= n THEN n - m + 1 ELSE 0
      /\ \A i \in 1 .. n - m + 1 : SubSeq(s, m, n)[i] = s[m + i - 1]
  <2> HIDE DEF m, n
  <2> QED BY <1>3, SubSeqProperties
<1>5. Len(Drop(s, k)) = Len(s) - k
  BY <1>1, <1>4 DEF Drop
<1>6. ASSUME NEW i \in 1 .. Len(s) - k PROVE Drop(s, k)[i] = s[k + i]
  <2>1. i \in 1 .. n - m + 1 /\ m + i - 1 = k + i
    BY <1>1
  <2> QED BY <1>4, <2>1 DEF Drop
<1> QED BY <1>1, <1>4, <1>5, <1>6 DEF Drop

(* What is behind the k-th buffer is a chain too. *)
LEMMA LinkedDrop ==
  ASSUME NEW next, NEW head, NEW s, Linked(next, head, s), NEW k \in 0 .. Len(s)
  PROVE  /\ Linked(next, At(s, k + 1), Drop(s, k))
         /\ Members(Drop(s, k)) = {s[i] : i \in k + 1 .. Len(s)}
         /\ Members(Drop(s, k)) = Members(s) \ {s[i] : i \in 1 .. k}
<1> DEFINE t == Drop(s, k)
<1>1. /\ s \in Seq(Buf) /\ Different(s)
      /\ \A i \in 1 .. Len(s) : next[s[i]] = At(s, i + 1)
  BY DEF Linked
<1>2. /\ t \in Seq(Buf) /\ Len(t) = Len(s) - k /\ Len(s) \in Nat
      /\ \A i \in 1 .. Len(s) - k : t[i] = s[k + i]
  BY <1>1, DropShape
<1> HIDE DEF t
<1>3. \A i \in 1 .. Len(t) : k + i \in 1 .. Len(s) /\ t[i] = s[k + i]
  BY <1>2
<1>4. Different(t)
  <2> SUFFICES ASSUME NEW i \in 1 .. Len(t), NEW j \in 1 .. Len(t), t[i] = t[j]
               PROVE  i = j
    BY DEF Different
  <2>1. k + i = k + j
    BY <1>1, <1>3 DEF Different
  <2> QED BY <2>1
<1>5. \A i : i \in Int => At(t, i) = IF i >= 1 THEN At(s, k + i) ELSE NOPKT
  BY <1>2, <1>3 DEF At
<1>6. At(s, k + 1) = At(t, 1)
  BY <1>5
<1>7. ASSUME NEW i \in 1 .. Len(t) PROVE next[t[i]] = At(t, i + 1)
  <2>1. next[s[k + i]] = At(s, (k + i) + 1)
    BY <1>1, <1>3
  <2>2. At(t, i + 1) = At(s, k + (i + 1)) /\ k + (i + 1) = (k + i) + 1
    BY <1>5
  <2> QED BY <1>3, <2>1, <2>2
<1>8. Members(t) = {s[i] : i \in k + 1 .. Len(s)}
  <2>1. \A i \in k + 1 .. Len(s) : i - k \in 1 .. Len(t) /\ t[i - k] = s[i]
    BY <1>2
  <2>2. \A i \in 1 .. Len(t) : k + i \in k + 1 .. Len(s)
    BY <1>2
  <2>3. \A x \in Members(t) : x \in {s[i] : i \in k + 1 .. Len(s)}
    BY <1>3, <2>2 DEF Members
  <2>4. \A i \in k + 1 .. Len(s) : s[i] \in Members(t)
    BY <2>1 DEF Members
  <2> QED BY <2>3, <2>4
<1>9. {s[i] : i \in k + 1 .. Len(s)} = Members(s) \ {s[i] : i \in 1 .. k}
  <2>1. \A i \in 1 .. Len(s) : i \in 1 .. k \/ i \in k + 1 .. Len(s)
    BY <1>2
  <2>2. \A i \in 1 .. k : \A j \in k + 1 .. Len(s) :
          i \in 1 .. Len(s) /\ j \in 1 .. Len(s) /\ i # j
    BY <1>2
  <2>3. \A i \in 1 .. k : \A j \in k + 1 .. Len(s) : s[i] # s[j]
    BY <1>1, <2>2 DEF Different
  <2>4. \A j \in k + 1 .. Len(s) : j \in 1 .. Len(s)
    BY <1>2
  <2> QED BY <2>1, <2>3, <2>4 DEF Members
<1> QED BY <1>2, <1>4, <1>6, <1>7, <1>8, <1>9 DEF Linked, t

(* The first m buffers of one chain moved behind the last of another.      *)
Join(r, q, m) ==
  [i \in 1 .. Len(r) + m |-> IF i <= Len(r) THEN r[i] ELSE q[i - Len(r)]]

(* Where the elements are after the front of q goes behind r. *)
LEMMA JoinShape ==
  ASSUME NEW r \in Seq(Buf), NEW q \in Seq(Buf), NEW m \in 0 .. Len(q)
  PROVE  /\ Join(r, q, m) \in Seq(Buf) /\ Len(Join(r, q, m)) = Len(r) + m
         /\ Len(r) \in Nat /\ Len(q) \in Nat
         /\ \A i \in 1 .. Len(r) : Join(r, q, m)[i] = r[i]
         /\ \A i \in 1 .. m : Join(r, q, m)[Len(r) + i] = q[i]
<1>1. /\ Len(r) \in Nat /\ \A i \in 1 .. Len(r) : r[i] \in Buf
      /\ Len(q) \in Nat /\ \A i \in 1 .. Len(q) : q[i] \in Buf
  BY ElementOfSeq
<1> DEFINE n == Len(r) + m
<1>2. n \in Nat /\ n = Len(r) + m
  BY <1>1
<1> HIDE DEF n
<1>3. Join(r, q, m) = [i \in 1 .. n |-> IF i <= Len(r) THEN r[i] ELSE q[i - Len(r)]]
  BY <1>2 DEF Join
<1>4. \A i \in 1 .. n : (IF i <= Len(r) THEN r[i] ELSE q[i - Len(r)]) \in Buf
  <2> SUFFICES ASSUME NEW i \in 1 .. n
               PROVE  (IF i <= Len(r) THEN r[i] ELSE q[i - Len(r)]) \in Buf
    OBVIOUS
  <2>1. i <= Len(r) => i \in 1 .. Len(r)
    BY <1>1, <1>2
  <2>2. ~(i <= Len(r)) => i - Len(r) \in 1 .. Len(q)
    BY <1>1, <1>2
  <2> QED BY <1>1, <2>1, <2>2
<1>5. Join(r, q, m) \in [1 .. n -> Buf]
  BY <1>3, <1>4
<1>6. Join(r, q, m) \in Seq(Buf) /\ Len(Join(r, q, m)) = n
  BY <1>2, <1>5
<1>7. \A i \in 1 .. Len(r) : Join(r, q, m)[i] = r[i]
  BY <1>1, <1>2, <1>3
<1>8. ASSUME NEW i \in 1 .. m PROVE Join(r, q, m)[Len(r) + i] = q[i]
  <2>1. Len(r) + i \in 1 .. n /\ ~(Len(r) + i <= Len(r)) /\ (Len(r) + i) - Len(r) = i
    BY <1>1, <1>2
  <2> QED BY <1>3, <2>1
<1> QED BY <1>1, <1>2, <1>6, <1>7, <1>8

Relinked(new, next, r, q, m, b) ==
  /\ \A i \in 1 .. Len(r) : new[r[i]] = IF i = Len(r) THEN b ELSE next[r[i]]
  /\ \A i \in 1 .. Len(q) : new[q[i]] = IF i = m THEN NOPKT ELSE next[q[i]]

(* The first m buffers of one chain are linked behind another, and the     *)
(* link between the m-th and the next is cut.                              *)
LEMMA Splice ==
  ASSUME NEW next, NEW new, NEW head, NEW b, NEW first,
         NEW r, Linked(next, head, r), NEW q, Linked(next, b, q),
         Members(r) \cap Members(q) = {}, NEW m \in 1 .. Len(q),
         Relinked(new, next, r, q, m, b), first = IF r = <<>> THEN b ELSE head
  PROVE  /\ Linked(new, first, Join(r, q, m))
         /\ Linked(new, At(q, m + 1), Drop(q, m))
         /\ Members(Join(r, q, m)) = Members(r) \cup Upto(q, m)
<1> DEFINE t == Join(r, q, m)
<1>0. r \in Seq(Buf) /\ q \in Seq(Buf) /\ m \in 0 .. Len(q)
  BY DEF Linked
<1>13. /\ \A i \in 1 .. Len(r) : new[r[i]] = IF i = Len(r) THEN b ELSE next[r[i]]
       /\ \A i \in 1 .. Len(q) : new[q[i]] = IF i = m THEN NOPKT ELSE next[q[i]]
  BY DEF Relinked
<1>1. /\ Different(r) /\ head = At(r, 1)
      /\ \A i \in 1 .. Len(r) : next[r[i]] = At(r, i + 1)
      /\ Different(q) /\ b = At(q, 1)
      /\ \A i \in 1 .. Len(q) : next[q[i]] = At(q, i + 1)
  BY DEF Linked
<1>2. /\ t \in Seq(Buf) /\ Len(t) = Len(r) + m /\ Len(r) \in Nat /\ Len(q) \in Nat
      /\ \A i \in 1 .. Len(r) : t[i] = r[i]
      /\ \A i \in 1 .. m : t[Len(r) + i] = q[i]
  BY <1>0, JoinShape
<1> HIDE DEF t
<1>3. b = q[1]
  BY <1>1, <1>2 DEF At
<1>4. \A i \in 1 .. Len(t) : i \in 1 .. Len(r) \/ \E j \in 1 .. m : i = Len(r) + j
  <2> SUFFICES ASSUME NEW i \in 1 .. Len(t), i \notin 1 .. Len(r)
               PROVE  \E j \in 1 .. m : i = Len(r) + j
    OBVIOUS
  <2>1. i - Len(r) \in 1 .. m /\ i = Len(r) + (i - Len(r))
    BY <1>2
  <2> QED BY <2>1
<1>5. \A i \in 1 .. Len(r) : \A j \in 1 .. Len(q) : r[i] # q[j]
  BY DEF Members
<1>6. \A j \in 1 .. m : j \in 1 .. Len(q)
  BY <1>2
<1>7. Different(t)
  <2> SUFFICES ASSUME NEW i \in 1 .. Len(t), NEW j \in 1 .. Len(t), t[i] = t[j]
               PROVE  i = j
    BY DEF Different
  <2>1. CASE i \in 1 .. Len(r) /\ j \in 1 .. Len(r)
    BY <1>1, <1>2, <2>1 DEF Different
  <2>2. CASE i \in 1 .. Len(r) /\ \E k \in 1 .. m : j = Len(r) + k
    <3>1. PICK k \in 1 .. m : j = Len(r) + k
      BY <2>2
    <3>2. t[i] = r[i] /\ t[j] = q[k] /\ k \in 1 .. Len(q)
      BY <1>2, <1>6, <2>2, <3>1
    <3> QED BY <1>5, <2>2, <3>2
  <2>3. CASE j \in 1 .. Len(r) /\ \E k \in 1 .. m : i = Len(r) + k
    <3>1. PICK k \in 1 .. m : i = Len(r) + k
      BY <2>3
    <3>2. t[j] = r[j] /\ t[i] = q[k] /\ k \in 1 .. Len(q)
      BY <1>2, <1>6, <2>3, <3>1
    <3> QED BY <1>5, <2>3, <3>2
  <2>4. CASE (\E k \in 1 .. m : i = Len(r) + k) /\ \E k \in 1 .. m : j = Len(r) + k
    <3>1. PICK k \in 1 .. m : i = Len(r) + k
      BY <2>4
    <3>2. PICK l \in 1 .. m : j = Len(r) + l
      BY <2>4
    <3>3. q[k] = q[l]
      BY <1>2, <3>1, <3>2
    <3>4. k = l
      BY <1>1, <1>6, <3>3 DEF Different
    <3> QED BY <3>1, <3>2, <3>4
  <2> QED BY <1>4, <2>1, <2>2, <2>3, <2>4
<1>8. first = At(t, 1)
  <2>1. CASE r = <<>>
    <3>1. Len(r) = 0
      BY <2>1
    <3>2. t[0 + 1] = q[1] /\ 1 \in 1 .. Len(t)
      BY <1>2, <3>1
    <3> QED BY <1>3, <2>1, <3>2 DEF At
  <2>2. CASE r # <<>>
    <3>1. Len(r) > 0
      BY <1>0, <2>2, EmptySeq
    <3>2. 1 \in 1 .. Len(r) /\ 1 \in 1 .. Len(t) /\ t[1] = r[1]
      BY <1>2, <3>1
    <3> QED BY <1>1, <2>2, <3>2 DEF At
  <2> QED BY <2>1, <2>2
<1>9. ASSUME NEW i \in 1 .. Len(t) PROVE new[t[i]] = At(t, i + 1)
  <2>1. CASE i \in 1 .. Len(r) /\ i # Len(r)
    <3>1. i + 1 \in 1 .. Len(r) /\ i + 1 \in 1 .. Len(t)
      BY <1>2, <2>1
    <3>2. t[i] = r[i] /\ At(t, i + 1) = r[i + 1] /\ At(r, i + 1) = r[i + 1]
      BY <1>2, <2>1, <3>1 DEF At
    <3>3. new[r[i]] = next[r[i]] /\ next[r[i]] = At(r, i + 1)
      BY <1>1, <1>13, <2>1
    <3> QED BY <3>2, <3>3
  <2>2. CASE i \in 1 .. Len(r) /\ i = Len(r)
    <3>1. t[i] = r[i] /\ new[r[i]] = b
      BY <1>2, <1>13, <2>2
    <3>2. 1 \in 1 .. m /\ i + 1 \in 1 .. Len(t) /\ i + 1 = Len(r) + 1
      BY <1>2, <2>2
    <3>3. At(t, i + 1) = q[1]
      BY <1>2, <3>2 DEF At
    <3> QED BY <1>3, <3>1, <3>3
  <2>3. ASSUME NEW j \in 1 .. m, i = Len(r) + j PROVE new[t[i]] = At(t, i + 1)
    <3>1. t[i] = q[j] /\ j \in 1 .. Len(q)
      BY <1>2, <1>6, <2>3
    <3>2. CASE j = m
      <4>1. i + 1 \notin 1 .. Len(t)
        BY <1>2, <2>3, <3>2
      <4> QED BY <1>13, <3>1, <3>2, <4>1 DEF At
    <3>3. CASE j # m
      <4>1. j + 1 \in 1 .. m /\ j + 1 \in 1 .. Len(q) /\ i + 1 \in 1 .. Len(t)
            /\ i + 1 = Len(r) + (j + 1)
        BY <1>2, <2>3, <3>3
      <4>2. At(t, i + 1) = q[j + 1]
        BY <1>2, <4>1 DEF At
      <4>3. new[q[j]] = next[q[j]] /\ next[q[j]] = At(q, j + 1)
        BY <1>1, <1>13, <3>1, <3>3
      <4>4. At(q, j + 1) = q[j + 1]
        BY <4>1 DEF At
      <4> QED BY <3>1, <4>2, <4>3, <4>4
    <3> QED BY <3>2, <3>3
  <2> QED BY <1>4, <2>1, <2>2, <2>3
<1>10. Linked(new, first, t)
  BY <1>2, <1>7, <1>8, <1>9 DEF Linked
<1>11. Linked(new, At(q, m + 1), Drop(q, m))
  <2>1. Linked(next, At(q, m + 1), Drop(q, m)) /\ Members(Drop(q, m)) = {q[i] : i \in m + 1 .. Len(q)}
    BY <1>0, LinkedDrop
  <2>2. \A i \in m + 1 .. Len(q) : i \in 1 .. Len(q) /\ i # m
    BY <1>2
  <2>3. \A x \in Members(Drop(q, m)) : new[x] = next[x]
    BY <1>13, <2>1, <2>2
  <2> QED BY <2>1, <2>3, LinkedFrame
<1>12. Members(t) = Members(r) \cup {q[i] : i \in 1 .. m}
  <2>1. \A i \in 1 .. Len(r) : i \in 1 .. Len(t) /\ t[i] = r[i]
    BY <1>2
  <2>2. \A i \in 1 .. m : Len(r) + i \in 1 .. Len(t) /\ t[Len(r) + i] = q[i]
    BY <1>2
  <2>3. ASSUME NEW x \in Members(t) PROVE x \in Members(r) \cup {q[i] : i \in 1 .. m}
    <3>1. PICK i \in 1 .. Len(t) : x = t[i]
      BY DEF Members
    <3>2. CASE i \in 1 .. Len(r)
      BY <1>2, <3>1, <3>2 DEF Members
    <3>3. ASSUME NEW j \in 1 .. m, i = Len(r) + j PROVE x \in {q[k] : k \in 1 .. m}
      BY <1>2, <3>1, <3>3
    <3> QED BY <1>4, <3>2, <3>3
  <2>4. \A i \in 1 .. Len(r) : r[i] \in Members(t)
    BY <2>1 DEF Members
  <2>5. \A i \in 1 .. m : q[i] \in Members(t)
    BY <2>2 DEF Members
  <2>6. \A x \in Members(r) : x \in Members(t)
    BY <2>4 DEF Members
  <2> QED BY <2>3, <2>5, <2>6
<1> QED BY <1>10, <1>11, <1>12 DEF t, Upto

-----------------------------------------------------------------------------
(***************************************************************************)
(* Counting up to n, and taking out of a chain.                            *)
(***************************************************************************)
(* A set that has 0, and i with i - 1, has all numbers up to n. *)
LEMMA Climb ==
  ASSUME NEW n \in Nat, NEW G, 0 \in G, \A i \in 1 .. n : i - 1 \in G => i \in G
  PROVE  \A i \in 0 .. n : i \in G
<1> DEFINE B == {i \in 0 .. n : i \notin G}
<1>1. SUFFICES ASSUME B # {} PROVE FALSE
  OBVIOUS
<1>2. PICK k \in B : \A j \in B : k <= j
  <2>1. B \in SUBSET Nat
    OBVIOUS
  <2> HIDE DEF B
  <2> QED BY <1>1, <2>1, Least
<1>3. k # 0
  OBVIOUS
<1>4. k \in 1 .. n /\ k - 1 \in 0 .. n /\ ~(k <= k - 1)
  BY <1>3
<1>5. k - 1 \in G
  BY <1>2, <1>4
<1> QED BY <1>4, <1>5

(* What is taken out of a sequence without repetition has none. *)
LEMMA ExtractDifferent ==
  ASSUME NEW s, Different(s), NEW t, NEW S, Extract(t, s, S)
  PROVE  Different(t)
<1>0. Len(t) \in Nat
  BY DEF Extract
<1>1. ASSUME NEW a \in 1 .. Len(t), NEW b \in 1 .. Len(t), a < b PROVE t[a] # t[b]
  <2>1. PICK i, j \in 1 .. Len(s) : i < j /\ t[a] = s[i] /\ t[b] = s[j]
    BY <1>1 DEF Extract, Ordered
  <2>2. i # j
    BY <2>1
  <2> QED BY <2>1, <2>2 DEF Different
<1>2. \A a, b \in 1 .. Len(t) : a = b \/ a < b \/ b < a
  BY <1>0
<1> QED BY <1>1, <1>2 DEF Different

=============================================================================
