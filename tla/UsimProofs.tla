----------------------------- MODULE UsimProofs ------------------------------
(***************************************************************************)
(* No key is lost between the host's keyboard and the guest (KeysKept):    *)
(* how often a value is in a sequence, and what each step of the thread    *)
(* does to the counts.                                                     *)
(***************************************************************************)
EXTENDS UsimEngine, FiniteSetTheorems, SequenceTheorems, TLAPS

-----------------------------------------------------------------------------
(***************************************************************************)
(* Counting.                                                               *)
(***************************************************************************)
(* A value is in a sequence a natural number of times. *)
LEMMA TimesType ==
  ASSUME NEW S, NEW s \in Seq(S), NEW v
  PROVE  /\ IsFiniteSet({i \in DOMAIN s : s[i] = v})
         /\ Times(v, s) \in Nat
<1>1. DOMAIN s = 1 .. Len(s) /\ Len(s) \in Nat
  OBVIOUS
<1>2. IsFiniteSet(1 .. Len(s))
  BY <1>1, FS_Interval
<1>3. IsFiniteSet({i \in DOMAIN s : s[i] = v})
  BY <1>1, <1>2, FS_Subset
<1> QED BY <1>3, FS_CardinalityType DEF Times

(* In the empty sequence: never. *)
LEMMA TimesEmpty == \A v : Times(v, << >>) = 0
<1>1. \A v : {i \in DOMAIN << >> : << >>[i] = v} = {}
  OBVIOUS
<1> QED BY <1>1, FS_EmptySet DEF Times

(* In a sequence of one value: once if it is that one. *)
LEMMA TimesOne ==
  ASSUME NEW v, NEW w
  PROVE  Times(v, <<w>>) = IF w = v THEN 1 ELSE 0
<1>1. CASE w = v
  <2>1. {i \in DOMAIN <<w>> : <<w>>[i] = v} = {1}
    BY <1>1
  <2> QED BY <1>1, <2>1, FS_Singleton DEF Times
<1>2. CASE w # v
  <2>1. {i \in DOMAIN <<w>> : <<w>>[i] = v} = {}
    BY <1>2
  <2> QED BY <1>2, <2>1, FS_EmptySet DEF Times
<1> QED BY <1>1, <1>2

(* In one sequence after another: as often as in both. *)
LEMMA TimesConcat ==
  ASSUME NEW S, NEW s \in Seq(S), NEW t \in Seq(S), NEW v
  PROVE  Times(v, s \o t) = Times(v, s) + Times(v, t)
<1> DEFINE A == {i \in DOMAIN s : s[i] = v}
           B == {i \in DOMAIN t : t[i] = v}
           C == {Len(s) + i : i \in B}
           f == [i \in B |-> Len(s) + i]
<1>1. /\ DOMAIN s = 1 .. Len(s) /\ Len(s) \in Nat
      /\ DOMAIN t = 1 .. Len(t) /\ Len(t) \in Nat
  OBVIOUS
<1>2. IsFiniteSet(A) /\ IsFiniteSet(B)
  BY TimesType
<1>3. {i \in DOMAIN (s \o t) : (s \o t)[i] = v} = A \cup C
  <2>1. DOMAIN (s \o t) = 1 .. Len(s) + Len(t)
    BY ConcatProperties
  <2>2. \A i \in 1 .. Len(s) + Len(t) : (s \o t)[i] = IF i <= Len(s) THEN s[i] ELSE t[i - Len(s)]
    BY ConcatProperties
  <2>3. ASSUME NEW i \in DOMAIN (s \o t), (s \o t)[i] = v
        PROVE  i \in A \cup C
    <3>1. CASE i <= Len(s)
      BY <1>1, <2>1, <2>2, <2>3, <3>1
    <3>2. CASE i > Len(s)
      <4>1. i - Len(s) \in 1 .. Len(t) /\ t[i - Len(s)] = v /\ i = Len(s) + (i - Len(s))
        BY <1>1, <2>1, <2>2, <2>3, <3>2
      <4>2. i - Len(s) \in B
        BY <1>1, <4>1
      <4> QED BY <4>1, <4>2
    <3> QED BY <1>1, <2>1, <3>1, <3>2
  <2>4. ASSUME NEW i \in A \cup C
        PROVE  i \in DOMAIN (s \o t) /\ (s \o t)[i] = v
    BY <1>1, <2>1, <2>2
  <2> QED BY <2>3, <2>4
<1>4. A \cap C = {}
  BY <1>1
<1>5. f \in Bijection(B, C)
  <2>1. f \in [B -> C]
    OBVIOUS
  <2>2. \A i, j \in B : f[i] = f[j] => i = j
    BY <1>1
  <2>3. \A c \in C : \E i \in B : f[i] = c
    OBVIOUS
  <2> QED BY <2>1, <2>2, <2>3, Zenon DEF Bijection, Injection, Surjection, IsInjective
<1>6. IsFiniteSet(C) /\ Cardinality(C) = Cardinality(B)
  BY <1>2, <1>5, FS_Bijection, Zenon DEF ExistsBijection
<1>7. Cardinality(A \cup C) = Cardinality(A) + Cardinality(C) - Cardinality(A \cap C)
  BY <1>2, <1>6, FS_Union
<1>8. Cardinality(A) \in Nat /\ Cardinality(B) \in Nat /\ Cardinality({}) = 0
  BY <1>2, FS_CardinalityType, FS_EmptySet
<1>9. /\ Times(v, s) = Cardinality(A)
      /\ Times(v, t) = Cardinality(B)
      /\ Times(v, s \o t) = Cardinality(A \cup C)
  BY <1>3, Zenon DEF Times
<1>10. Cardinality(A \cap C) = 0
  BY <1>4, <1>8, Zenon
<1> HIDE DEF A, B, C
<1> QED BY <1>6, <1>7, <1>8, <1>9, <1>10

(* With one more at the end. *)
LEMMA TimesAppend ==
  ASSUME NEW S, NEW s \in Seq(S), NEW w \in S, NEW v
  PROVE  Times(v, Append(s, w)) = Times(v, s) + (IF w = v THEN 1 ELSE 0)
<1>1. Append(s, w) = s \o <<w>>
  BY AppendIsConcat
<1>2. <<w>> \in Seq(S)
  OBVIOUS
<1>3. Times(v, s \o <<w>>) = Times(v, s) + Times(v, <<w>>)
  BY <1>2, TimesConcat
<1> QED BY <1>1, <1>3, TimesOne

(* Without the first. *)
LEMMA TimesTail ==
  ASSUME NEW S, NEW s \in Seq(S), s # << >>, NEW v
  PROVE  Times(v, s) = Times(v, Tail(s)) + (IF Head(s) = v THEN 1 ELSE 0)
<1>1. Head(s) \in S /\ Tail(s) \in Seq(S) /\ <<Head(s)>> \in Seq(S)
  BY HeadTailProperties
<1>2. s = <<Head(s)>> \o Tail(s)
  OBVIOUS
<1>3. Times(v, <<Head(s)>> \o Tail(s)) = Times(v, <<Head(s)>>) + Times(v, Tail(s))
  BY <1>1, TimesConcat
<1>4. Times(v, Tail(s)) \in Nat
  BY <1>1, TimesType
<1>5. Times(v, <<Head(s)>>) = IF Head(s) = v THEN 1 ELSE 0
  BY TimesOne
<1>6. Times(v, s) = Times(v, <<Head(s)>>) + Times(v, Tail(s))
  BY <1>2, <1>3, Zenon
<1> QED BY <1>4, <1>5, <1>6

-----------------------------------------------------------------------------
(***************************************************************************)
(* The invariant.  Board and Host say what kind of values the register     *)
(* and the host's record have; Balanced is KeysKept for every number;      *)
(* Waiting, that the keyboard's interrupt stays enabled between a poll and *)
(* the end of its keys, so that no key goes to the register without the    *)
(* guest being told: the stores that could disable it belong to a turn of  *)
(* the loop that no poll has cut.                                          *)
(***************************************************************************)
Board(i) == i = [scan |-> i.scan, csr |-> i.csr] /\ i.scan \in Int

Host(h) ==
  /\ h = [posted |-> h.posted, lost |-> h.lost, taken |-> h.taken, queue |-> h.queue,
          shifts |-> h.shifts, held |-> h.held, left |-> h.left]
  /\ h.posted \in Seq(Int) /\ h.lost \in Seq(Int) /\ h.taken \in Seq(Int) /\ h.queue \in Seq(Int)
  /\ Len(h.queue) <= KEY_QUEUE
  /\ Keyboard(h.left)

InRegister(i, v) == IF 5 \in i.csr /\ i.scan = Stored(v) THEN 1 ELSE 0

Balanced(i, h) ==
  h.lost = << >> =>
    \A v \in Int : Times(v, h.posted) = Times(Stored(v), h.taken) + Times(v, h.queue) + InRegister(i, v)

Waiting ==
  /\ at = "host" => KeyInterrupt
  /\ at \in {"irq", "flag"} /\ then = "host" => KeyInterrupt
  /\ at \in {"read", "store", "dismiss", "disk", "moved"} => then # "host"

KeyIInv == Board(iob) /\ Host(host) /\ Balanced(iob, host) /\ Waiting

(* What was to come, less the first, is what a user does too. *)
LEMMA KeyboardTail ==
  ASSUME NEW ks, Keyboard(ks), ks # << >>
  PROVE  KeyEvent(Head(ks)) /\ Keyboard(Tail(ks))
<1> DEFINE S == {ks[n] : n \in DOMAIN ks}
<1>1. ks \in Seq(S) /\ \A n \in DOMAIN ks : KeyEvent(ks[n])
  BY DEF Keyboard
<1>2. DOMAIN ks = 1 .. Len(ks) /\ Len(ks) \in Nat \ {0} /\ Head(ks) = ks[1]
  BY <1>1
<1>3. KeyEvent(Head(ks))
  BY <1>1, <1>2
<1> DEFINE T == {Tail(ks)[n] : n \in DOMAIN Tail(ks)}
<1>4. /\ Tail(ks) \in Seq(S) /\ Len(Tail(ks)) = Len(ks) - 1
      /\ \A i \in 1 .. Len(Tail(ks)) : Tail(ks)[i] = ks[i + 1]
  BY <1>1, HeadTailProperties
<1>5. DOMAIN Tail(ks) = 1 .. Len(Tail(ks)) /\ Len(Tail(ks)) \in Nat
  BY <1>4
<1>6. \A n \in DOMAIN Tail(ks) : KeyEvent(Tail(ks)[n])
  BY <1>1, <1>2, <1>4, <1>5
<1>7. Tail(ks) \in Seq(T)
  <2>1. Range(Tail(ks)) = T
    BY Zenon DEF Range
  <2>2. Tail(ks) \in Seq(Range(Tail(ks)))
    BY <1>4, SeqOfRange
  <2> QED BY <2>1, <2>2
<1> QED BY <1>3, <1>6, <1>7 DEF Keyboard

(* Different keys are stored as different words. *)
LEMMA StoredOnce ==
  /\ 2 ^ 16 \in Int
  /\ \A v, w \in Int : Stored(v) = Stored(w) => v = w
  /\ \A v \in Int : Stored(v) \in Int
<1>1. 2 ^ 16 \in Int
  OBVIOUS
<1> QED BY <1>1 DEF Stored

(* Balanced says nothing of what the user holds or is yet to type. *)
LEMMA SameKeys ==
  ASSUME NEW i, NEW h, NEW g,
         g.posted = h.posted, g.lost = h.lost, g.taken = h.taken, g.queue = h.queue, Balanced(i, h)
  PROVE  Balanced(i, g)
BY DEF Balanced

(* A key in a free register, posted now. *)
LEMMA PostedToRegister ==
  ASSUME NEW i, NEW h, NEW j, NEW g, NEW v \in Int, Board(i), Host(h), Balanced(i, h), 5 \notin i.csr,
         5 \in j.csr, j.scan = Stored(v), g = [h EXCEPT !.posted = Append(@, v)]
  PROVE  Host(g) /\ Balanced(j, g)
<1>1. /\ g.posted = Append(h.posted, v) /\ g.lost = h.lost /\ g.taken = h.taken /\ g.queue = h.queue
      /\ g.left = h.left
      /\ g = [posted |-> g.posted, lost |-> g.lost, taken |-> g.taken, queue |-> g.queue,
              shifts |-> g.shifts, held |-> g.held, left |-> g.left]
  BY DEF Host
<1>2. Host(g)
  BY <1>1, AppendProperties DEF Host
<1>3. ASSUME g.lost = << >>, NEW w \in Int
      PROVE  Times(w, g.posted) = Times(Stored(w), g.taken) + Times(w, g.queue) + InRegister(j, w)
  <2>1. Times(w, h.posted) = Times(Stored(w), h.taken) + Times(w, h.queue) + InRegister(i, w)
    BY <1>1, <1>3 DEF Balanced
  <2>2. InRegister(i, w) = 0 /\ InRegister(j, w) = IF v = w THEN 1 ELSE 0
    BY StoredOnce DEF InRegister
  <2>3. Times(w, g.posted) = Times(w, h.posted) + (IF v = w THEN 1 ELSE 0)
    BY <1>1, TimesAppend DEF Host
  <2>4. Times(Stored(w), h.taken) \in Nat /\ Times(w, h.queue) \in Nat
    BY TimesType DEF Host
  <2> QED BY <1>1, <2>1, <2>2, <2>3, <2>4
<1> QED BY <1>2, <1>3 DEF Balanced

(* The first of the queue in a free register. *)
LEMMA QueueToRegister ==
  ASSUME NEW i, NEW h, NEW j, NEW g, Board(i), Host(h), Balanced(i, h), 5 \notin i.csr, h.queue # << >>,
         5 \in j.csr, j.scan = Stored(Head(h.queue)), g = [h EXCEPT !.queue = Tail(@)]
  PROVE  Host(g) /\ Balanced(j, g)
<1>1. /\ g.posted = h.posted /\ g.lost = h.lost /\ g.taken = h.taken /\ g.queue = Tail(h.queue)
      /\ g.left = h.left
      /\ g = [posted |-> g.posted, lost |-> g.lost, taken |-> g.taken, queue |-> g.queue,
              shifts |-> g.shifts, held |-> g.held, left |-> g.left]
  BY DEF Host
<1>2. /\ Head(h.queue) \in Int /\ Tail(h.queue) \in Seq(Int)
      /\ Len(Tail(h.queue)) = Len(h.queue) - 1 /\ Len(h.queue) \in Nat
  BY HeadTailProperties DEF Host
<1>3. Host(g)
  BY <1>1, <1>2, UsimAssumption DEF Host
<1>4. ASSUME g.lost = << >>, NEW w \in Int
      PROVE  Times(w, g.posted) = Times(Stored(w), g.taken) + Times(w, g.queue) + InRegister(j, w)
  <2>1. Times(w, h.posted) = Times(Stored(w), h.taken) + Times(w, h.queue) + InRegister(i, w)
    BY <1>1, <1>4 DEF Balanced
  <2>2. InRegister(i, w) = 0 /\ InRegister(j, w) = IF Head(h.queue) = w THEN 1 ELSE 0
    BY <1>2, StoredOnce DEF InRegister
  <2>3. Times(w, h.queue) = Times(w, g.queue) + (IF Head(h.queue) = w THEN 1 ELSE 0)
    BY <1>1, TimesTail DEF Host
  <2>4. Times(Stored(w), h.taken) \in Nat /\ Times(w, g.queue) \in Nat
    BY <1>1, <1>2, TimesType DEF Host
  <2> QED BY <1>1, <2>1, <2>2, <2>3, <2>4
<1> QED BY <1>3, <1>4 DEF Balanced

(* Events in a row to the queue: all of them, or some are lost. *)
LEMMA PostedToQueue ==
  ASSUME NEW i, NEW h, NEW j, NEW vs \in Seq(Int), Host(h), Balanced(i, h),
         Len(vs) <= Room(h) => j = i
  PROVE  Host(Queued(h, vs)) /\ Balanced(j, Queued(h, vs))
<1> DEFINE g == Queued(h, vs)
           n == LesserOf(Room(h), Len(vs))
<1>1. /\ g.posted = h.posted \o vs /\ g.taken = h.taken /\ g.left = h.left
      /\ g.queue = h.queue \o SubSeq(vs, 1, n)
      /\ g.lost = h.lost \o SubSeq(vs, n + 1, Len(vs))
      /\ g = [posted |-> g.posted, lost |-> g.lost, taken |-> g.taken, queue |-> g.queue,
              shifts |-> g.shifts, held |-> g.held, left |-> g.left]
  <2>1. PICK p, q, l : /\ p = h.posted \o vs /\ q = h.queue \o SubSeq(vs, 1, n)
                       /\ l = h.lost \o SubSeq(vs, n + 1, Len(vs))
    OBVIOUS
  <2>2. g = [h EXCEPT !.posted = p, !.queue = q, !.lost = l]
    BY <2>1, Zenon DEF Queued
  <2> HIDE DEF g, n
  <2>3. g = [posted |-> p, lost |-> l, taken |-> h.taken, queue |-> q,
             shifts |-> h.shifts, held |-> h.held, left |-> h.left]
    BY <2>2 DEF Host
  <2> QED BY <2>1, <2>3
<1>2. /\ h.posted \in Seq(Int) /\ h.lost \in Seq(Int) /\ h.taken \in Seq(Int) /\ h.queue \in Seq(Int)
      /\ Keyboard(h.left)
  BY DEF Host
<1>3. /\ Len(vs) \in Nat /\ Room(h) \in Nat /\ n \in 0 .. Len(vs) /\ n <= Room(h)
      /\ Len(h.queue) \in Nat /\ Room(h) = KEY_QUEUE - Len(h.queue)
  BY <1>2, UsimAssumption, LenProperties DEF Host, Room, LesserOf
<1> HIDE DEF g, n
<1>4. \A k \in 1 .. Len(vs) : vs[k] \in Int
  BY ElementOfSeq
<1>5. SubSeq(vs, 1, n) \in Seq(Int) /\ Len(SubSeq(vs, 1, n)) = n
  BY <1>3, <1>4, SubSeqProperties
<1>6. /\ SubSeq(vs, n + 1, Len(vs)) \in Seq(Int)
      /\ Len(SubSeq(vs, n + 1, Len(vs))) = Len(vs) - n
  BY <1>3, <1>4, SubSeqProperties
<1>7. /\ g.queue \in Seq(Int) /\ Len(g.queue) = Len(h.queue) + n
      /\ g.lost \in Seq(Int) /\ Len(g.lost) = Len(h.lost) + (Len(vs) - n)
      /\ g.posted \in Seq(Int)
  <2>1. g.queue \in Seq(Int) /\ Len(g.queue) = Len(h.queue) + n
    BY <1>1, <1>2, <1>5, ConcatProperties
  <2>2. g.lost \in Seq(Int) /\ Len(g.lost) = Len(h.lost) + (Len(vs) - n)
    BY <1>1, <1>2, <1>6, ConcatProperties
  <2>3. g.posted \in Seq(Int)
    BY <1>1, <1>2, ConcatProperties
  <2> QED BY <2>1, <2>2, <2>3
<1>8. Host(g)
  <2>1. Keyboard(g.left) /\ g.taken \in Seq(Int)
    BY <1>1, <1>2, Zenon
  <2>2. KEY_QUEUE \in Nat
    BY UsimAssumption
  <2>3. Len(g.queue) <= KEY_QUEUE
    BY <1>3, <1>7, <2>2
  <2> QED BY <1>1, <1>7, <2>1, <2>3, Zenon DEF Host
<1>9. ASSUME g.lost = << >>, NEW w \in Int
      PROVE  Times(w, g.posted) = Times(Stored(w), g.taken) + Times(w, g.queue) + InRegister(j, w)
  <2>1. Len(h.lost) \in Nat /\ Len(g.lost) = 0
    BY <1>2, <1>9, LenProperties
  <2>2. n = Len(vs) /\ Len(h.lost) = 0
    BY <1>3, <1>7, <2>1
  <2>3. h.lost = << >>
    BY <1>2, <2>2, EmptySeq
  <2>4. SubSeq(vs, 1, n) = vs
    BY <2>2, SubSeqFull, Zenon
  <2>5. j = i
    BY <1>3, <2>2
  <2>6. Times(w, h.posted) = Times(Stored(w), h.taken) + Times(w, h.queue) + InRegister(i, w)
    BY <2>3 DEF Balanced
  <2>7. Times(w, h.posted \o vs) = Times(w, h.posted) + Times(w, vs)
    BY <1>2, TimesConcat
  <2>8. Times(w, h.queue \o vs) = Times(w, h.queue) + Times(w, vs)
    BY <1>2, TimesConcat
  <2>9. Times(Stored(w), h.taken) \in Nat /\ Times(w, h.queue) \in Nat /\ Times(w, vs) \in Nat
    BY <1>2, TimesType
  <2>10. InRegister(i, w) \in Nat
    BY DEF InRegister
  <2>11. /\ Times(w, g.posted) = Times(w, h.posted) + Times(w, vs)
         /\ Times(w, g.queue) = Times(w, h.queue) + Times(w, vs)
         /\ Times(Stored(w), g.taken) = Times(Stored(w), h.taken)
    BY <1>1, <2>4, <2>7, <2>8
  <2> QED BY <2>5, <2>6, <2>9, <2>10, <2>11
<1> QED BY <1>8, <1>9 DEF Balanced, g

(* A key that the guest reads. *)
LEMMA RegisterToGuest ==
  ASSUME NEW i, NEW h, NEW j, NEW g, Board(i), Host(h), Balanced(i, h), 5 \in i.csr,
         5 \notin j.csr, g = [h EXCEPT !.taken = Append(@, i.scan)]
  PROVE  Host(g) /\ Balanced(j, g)
<1>1. /\ g.posted = h.posted /\ g.lost = h.lost /\ g.taken = Append(h.taken, i.scan) /\ g.queue = h.queue
      /\ g.left = h.left
      /\ g = [posted |-> g.posted, lost |-> g.lost, taken |-> g.taken, queue |-> g.queue,
              shifts |-> g.shifts, held |-> g.held, left |-> g.left]
  BY DEF Host
<1>2. Host(g)
  BY <1>1, AppendProperties DEF Host, Board
<1>3. ASSUME g.lost = << >>, NEW w \in Int
      PROVE  Times(w, g.posted) = Times(Stored(w), g.taken) + Times(w, g.queue) + InRegister(j, w)
  <2>1. Times(w, h.posted) = Times(Stored(w), h.taken) + Times(w, h.queue) + InRegister(i, w)
    BY <1>1, <1>3 DEF Balanced
  <2>2. InRegister(j, w) = 0 /\ InRegister(i, w) = IF i.scan = Stored(w) THEN 1 ELSE 0
    BY DEF InRegister
  <2>3. Times(Stored(w), g.taken) = Times(Stored(w), h.taken) + (IF i.scan = Stored(w) THEN 1 ELSE 0)
    BY <1>1, TimesAppend DEF Host, Board
  <2>4. Times(Stored(w), h.taken) \in Nat /\ Times(w, h.queue) \in Nat
    BY TimesType DEF Host
  <2> QED BY <1>1, <2>1, <2>2, <2>3, <2>4
<1> QED BY <1>2, <1>3 DEF Balanced

-----------------------------------------------------------------------------
(***************************************************************************)
(* Steps.                                                                  *)
(***************************************************************************)
(* What a step of the host's keys leaves: the interrupt still enabled.     *)
Polling == 2 \in iob'.csr /\ (at' = "host" \/ at' = "irq")

(* A poll is not over without it. *)
LEMMA PollingWaits == Polling => Waiting'
BY DEF Polling, Waiting, KeyInterrupt

(* The guest is told, or need not be. *)
LEMMA Told ==
  ASSUME NEW n, assert_unibus_interrupt(n, "host") \/ Skip("host")
  PROVE  at' = "host" \/ at' = "irq"
BY DEF assert_unibus_interrupt, Stage, Skip

(* A key goes to the register, which is then taken. *)
LEMMA InTheRegister ==
  ASSUME NEW v \in Int, Board(iob), KeyInterrupt, Scanned(v)
  PROVE  Board(iob') /\ 5 \in iob'.csr /\ iob'.scan = Stored(v) /\ Polling
<1>1. iob' = [scan |-> Stored(v), csr |-> iob.csr \cup {5}] /\ assert_unibus_interrupt(\o260, "host")
  BY DEF Scanned
<1>2. Board(iob') /\ 5 \in iob'.csr /\ iob'.scan = Stored(v) /\ 2 \in iob'.csr
  BY <1>1, StoredOnce DEF Board, KeyInterrupt
<1> QED BY <1>1, <1>2, Told DEF Polling

(* Keys go to the queue. *)
LEMMA InTheQueue ==
  ASSUME NEW h, NEW vs \in Seq(Int), Board(iob), Host(h), Balanced(iob, h), KeyInterrupt,
         iob_queue_key_events(h, vs)
  PROVE  Board(iob') /\ Host(host') /\ Balanced(iob', host') /\ Polling
<1>1. Len(vs) \in Nat /\ Room(h) \in Int
  BY UsimAssumption DEF Host, Room
<1>2. host' = Queued(h, vs) /\ (Len(vs) <= Room(h) => iob' = iob)
  BY <1>1 DEF iob_queue_key_events
<1>3. Board(iob') /\ 2 \in iob'.csr
  BY DEF iob_queue_key_events, Board, KeyInterrupt
<1>4. Polling
  BY <1>3, Told DEF iob_queue_key_events, Polling
<1>5. Host(host') /\ Balanced(iob', host')
  BY <1>2, PostedToQueue
<1> QED BY <1>3, <1>4, <1>5

(* One key, to either. *)
LEMMA OneKey ==
  ASSUME NEW h, NEW v \in Int, Board(iob), Host(h), Balanced(iob, h), KeyInterrupt,
         iob_sdl_key_event(h, v)
  PROVE  Board(iob') /\ Host(host') /\ Balanced(iob', host') /\ Polling
<1>1. CASE Ready
  <2>1. iob_queue_key_events(h, <<v>>)
    BY <1>1 DEF iob_sdl_key_event
  <2>2. <<v>> \in Seq(Int)
    OBVIOUS
  <2> QED BY <2>1, <2>2, InTheQueue
<1>2. CASE ~Ready
  <2>1. Scanned(v) /\ host' = [h EXCEPT !.posted = Append(@, v)]
    BY <1>2, Zenon DEF iob_sdl_key_event
  <2>2. Board(iob') /\ 5 \in iob'.csr /\ iob'.scan = Stored(v) /\ Polling
    BY <2>1, InTheRegister
  <2>3. 5 \notin iob.csr
    BY <1>2 DEF Ready
  <2>4. Host(host') /\ Balanced(iob', host')
    BY <2>1, <2>2, <2>3, PostedToRegister
  <2> QED BY <2>2, <2>4
<1> QED BY <1>1, <1>2

(* The codes that the keyboard sends are numbers. *)
LEMMA Codes ==
  /\ \A s : ShiftCode(s) \in Int
  /\ \A c \in Int : KeyUp(c) \in Int /\ AllUp(c) \in Int
  /\ \A ss : Mods(ss) \in Int
<1>1. 2 ^ 15 \in Int /\ \o24 \in Int /\ \o44 \in Int /\ \o104 \in Int /\ \o20 \in Int
  OBVIOUS
<1>2. \A ss, s : Bit(ss, s) \in Int
  BY <1>1 DEF Bit, AllUpBit
<1>3. \A s : ShiftCode(s) \in Int
  BY <1>1 DEF ShiftCode
<1> QED BY <1>1, <1>2, <1>3 DEF KeyUp, AllUp, Mods

(* So are those of a simulated key. *)
LEMMA SimulatedCodes ==
  ASSUME NEW e, NEW k, k.code \in Int
  PROVE  CodeOf(e, k.code) \in Int /\ Simulated(e, k) \in Seq(Int)
<1>1. CodeOf(e, k.code) \in Int
  BY Codes DEF CodeOf
<1>2. <<AllUp(0)>> \in Seq(Int) /\ <<CodeOf(e, k.code)>> \in Seq(Int)
  BY <1>1, Codes
<1>3. \A s : << >> \in Seq(Int) /\ <<ShiftCode(s)>> \in Seq(Int) /\ <<KeyUp(ShiftCode(s))>> \in Seq(Int)
  BY Codes
<1>4. \A s : Again(s) \in Seq(Int)
  BY <1>3 DEF Again
<1> DEFINE p == IF k.want = "none" THEN << >> ELSE <<ShiftCode(k.want)>>
           q == IF k.want = "none" THEN << >> ELSE <<KeyUp(ShiftCode(k.want))>>
<1>5. p \in Seq(Int) /\ q \in Seq(Int)
  BY <1>3
<1>6. Simulated(e, k) = <<AllUp(0)>> \o p \o <<CodeOf(e, k.code)>> \o q
                        \o Again("TOP") \o Again("SHIFT") \o Again("GREEK")
  BY Zenon DEF Simulated
<1> HIDE DEF p, q
<1>7. \A s, t \in Seq(Int) : s \o t \in Seq(Int)
  BY ConcatProperties
<1>8. <<AllUp(0)>> \o p \o <<CodeOf(e, k.code)>> \o q \in Seq(Int)
  BY <1>2, <1>5, <1>7
<1>9. Simulated(e, k) \in Seq(Int)
  BY <1>4, <1>6, <1>7, <1>8
<1> QED BY <1>1, <1>9

(* The host's record with other keys held and fewer to come. *)
LEMMA Onwards ==
  ASSUME NEW h, NEW g, NEW ks, NEW held, NEW shifts, Host(h), Balanced(iob, h), Keyboard(ks),
         \/ g = [h EXCEPT !.shifts = shifts, !.left = ks]
         \/ g = [h EXCEPT !.held = held, !.left = ks]
         \/ g = [h EXCEPT !.shifts = shifts]
  PROVE  Host(g) /\ Balanced(iob, g)
<1>1. \/ g = [posted |-> h.posted, lost |-> h.lost, taken |-> h.taken, queue |-> h.queue,
              shifts |-> shifts, held |-> h.held, left |-> ks]
      \/ g = [posted |-> h.posted, lost |-> h.lost, taken |-> h.taken, queue |-> h.queue,
              shifts |-> h.shifts, held |-> held, left |-> ks]
      \/ g = [posted |-> h.posted, lost |-> h.lost, taken |-> h.taken, queue |-> h.queue,
              shifts |-> shifts, held |-> h.held, left |-> h.left]
  BY DEF Host
<1>2. /\ g = [posted |-> h.posted, lost |-> h.lost, taken |-> h.taken, queue |-> h.queue,
              shifts |-> g.shifts, held |-> g.held, left |-> g.left]
      /\ g.left = ks \/ g.left = h.left
  BY <1>1
<1>3. g.posted = h.posted /\ g.lost = h.lost /\ g.taken = h.taken /\ g.queue = h.queue
  BY <1>2
<1>4. Host(g)
  BY <1>2, <1>3 DEF Host
<1> QED BY <1>3, <1>4, SameKeys

(* The host's keys, one by one. *)
LEMMA HostKeyKeeps ==
  ASSUME KeyIInv, HostKey
  PROVE  KeyIInv'
<1>1. /\ at = "host" /\ host.left # << >> /\ Head(host.left).what = "key"
      /\ sdl_process_key(Head(host.left), [host EXCEPT !.held = Held(Head(host.left)), !.left = Tail(@)])
  BY DEF HostKey
<1>2. KeyInterrupt /\ Board(iob) /\ Host(host) /\ Balanced(iob, host)
  BY <1>1 DEF KeyIInv, Waiting
<1>3. KeyEvent(Head(host.left)) /\ Keyboard(Tail(host.left))
  BY <1>1, <1>2, KeyboardTail DEF Host
<1>4. PICK e : e = Head(host.left)
  OBVIOUS
<1>5. PICK h : h = [host EXCEPT !.held = Held(e), !.left = Tail(@)]
  OBVIOUS
<1>6. Host(h) /\ Balanced(iob, h)
  <2>1. h = [host EXCEPT !.held = Held(e), !.left = Tail(host.left)]
    BY <1>5
  <2> QED BY <1>2, <1>3, <2>1, Onwards
<1>7. sdl_process_key(e, h)
  BY <1>1, <1>4, <1>5, Zenon
<1>8. e.what = "key" /\ e.key.plain.code \in Int /\ e.key.shifted.code \in Int
  BY <1>1, <1>3, <1>4 DEF KeyEvent, Sending
<1>9. Board(iob') /\ Host(host') /\ Balanced(iob', host') /\ Polling
  <2>1. CASE SendAllUp(e, h)
    <3>1. PICK g : g = [h EXCEPT !.shifts = ShiftsOf(h.held) \cap Shifts]
      OBVIOUS
    <3>2. Host(g) /\ Balanced(iob, g)
      BY <1>3, <1>6, <3>1, Onwards
    <3>3. iob_sdl_key_event(g, AllUp(Mods(ShiftsOf(h.held))))
      BY <2>1, <3>1, Zenon DEF SendAllUp
    <3> QED BY <1>2, <3>2, <3>3, Codes, OneKey
  <2>2. CASE SendShift(e, h)
    <3>1. PICK shifts : iob_sdl_key_event([h EXCEPT !.shifts = shifts], CodeOf(e, e.key.plain.code))
      <4>1. CASE e.key.shift \in Shifts /\ e.down
        BY <2>2, <4>1 DEF SendShift
      <4>2. CASE e.key.shift \in Shifts /\ ~e.down
        BY <2>2, <4>2 DEF SendShift
      <4>3. CASE e.key.shift \notin Shifts
        BY <2>2, <4>3 DEF SendShift
      <4> QED BY <4>1, <4>2, <4>3
    <3>2. PICK g : g = [h EXCEPT !.shifts = shifts]
      OBVIOUS
    <3>3. Host(g) /\ Balanced(iob, g)
      BY <1>3, <1>6, <3>2, Onwards
    <3>4. CodeOf(e, e.key.plain.code) \in Int
      BY <1>8, SimulatedCodes
    <3>5. iob_sdl_key_event(g, CodeOf(e, e.key.plain.code))
      BY <3>1, <3>2, Zenon
    <3> QED BY <1>2, <3>3, <3>4, <3>5, OneKey
  <2>3. CASE SendCharacter(e, h, Sent(e.key))
    <3>1. PICK k : k = Sent(e.key)
      OBVIOUS
    <3>2. k.code \in Int
      BY <1>8, <3>1 DEF Sent
    <3>3. CodeOf(e, k.code) \in Int /\ Simulated(e, k) \in Seq(Int)
      BY <3>2, SimulatedCodes
    <3>4. iob_sdl_key_event(h, CodeOf(e, k.code)) \/ iob_queue_key_events(h, Simulated(e, k))
      BY <2>3, <3>1, Zenon DEF SendCharacter
    <3>5. CASE iob_sdl_key_event(h, CodeOf(e, k.code))
      BY <1>2, <1>6, <3>3, <3>5, OneKey
    <3>6. CASE iob_queue_key_events(h, Simulated(e, k))
      BY <1>2, <1>6, <3>3, <3>6, InTheQueue
    <3> QED BY <3>4, <3>5, <3>6
  <2>4. SendAllUp(e, h) \/ SendShift(e, h) \/ SendCharacter(e, h, Sent(e.key))
    BY <1>7 DEF sdl_process_key
  <2> QED BY <2>1, <2>2, <2>3, <2>4
<1> QED BY <1>9, PollingWaits DEF KeyIInv

(* Another window. *)
LEMMA HostFocusKeeps ==
  ASSUME KeyIInv, HostFocus
  PROVE  KeyIInv'
<1>1. /\ at = "host" /\ host.left # << >>
      /\ iob_queue_key_events([host EXCEPT !.shifts = {}, !.left = Tail(@)], <<AllUp(0)>>)
  BY DEF HostFocus
<1>2. KeyInterrupt /\ Board(iob) /\ Host(host) /\ Balanced(iob, host)
  BY <1>1 DEF KeyIInv, Waiting
<1>3. Keyboard(Tail(host.left))
  BY <1>1, <1>2, KeyboardTail DEF Host
<1>4. PICK h : h = [host EXCEPT !.shifts = {}, !.left = Tail(@)]
  OBVIOUS
<1>5. Host(h) /\ Balanced(iob, h)
  <2>1. h = [host EXCEPT !.shifts = {}, !.left = Tail(host.left)]
    BY <1>4
  <2> QED BY <1>2, <1>3, <2>1, Onwards
<1>6. <<AllUp(0)>> \in Seq(Int)
  BY Codes
<1>7. iob_queue_key_events(h, <<AllUp(0)>>)
  BY <1>1, <1>4, Zenon
<1> QED BY <1>2, <1>5, <1>6, <1>7, InTheQueue, PollingWaits DEF KeyIInv

(* The start of a poll. *)
LEMMA HostPollKeeps ==
  ASSUME KeyIInv, HostPoll
  PROVE  KeyIInv'
<1>1. KeyInterrupt /\ Board(iob) /\ Host(host) /\ Balanced(iob, host)
  BY DEF KeyIInv, HostPoll
<1>2. CASE Ready \/ host.queue = << >>
  <2>1. UNCHANGED <<iob, host>> /\ Skip("host")
    BY <1>2 DEF HostPoll
  <2>2. Polling
    BY <1>1, <2>1 DEF Polling, Skip, KeyInterrupt
  <2> QED BY <1>1, <2>1, <2>2, PollingWaits DEF KeyIInv
<1>3. CASE ~Ready /\ host.queue # << >>
  <2>1. Scanned(Head(host.queue)) /\ host' = [host EXCEPT !.queue = Tail(@)]
    BY <1>3 DEF HostPoll
  <2>2. Head(host.queue) \in Int
    BY <1>1, <1>3, HeadTailProperties DEF Host
  <2>3. Board(iob') /\ 5 \in iob'.csr /\ iob'.scan = Stored(Head(host.queue)) /\ Polling
    BY <1>1, <2>1, <2>2, InTheRegister
  <2>4. 5 \notin iob.csr
    BY <1>3 DEF Ready
  <2>5. Host(host') /\ Balanced(iob', host')
    BY <1>1, <1>3, <2>1, <2>3, <2>4, QueueToRegister
  <2> QED BY <2>3, <2>5, PollingWaits DEF KeyIInv
<1> QED BY <1>2, <1>3

(* The guest reads a key. *)
LEMMA ReadKbdKeeps ==
  ASSUME KeyIInv, ReadKbd
  PROVE  KeyIInv'
<1>1. Board(iob) /\ Host(host) /\ Balanced(iob, host) /\ Waiting
  BY DEF KeyIInv
<1>2. /\ at = "read" /\ at' = then /\ then' = then
      /\ iob' = [iob EXCEPT !.csr = @ \ {5}]
      /\ host' = IF 5 \in iob.csr THEN [host EXCEPT !.taken = Append(@, iob.scan)] ELSE host
  BY DEF ReadKbd, Reading
<1>3. Board(iob') /\ iob'.scan = iob.scan /\ 5 \notin iob'.csr /\ iob'.csr = iob.csr \ {5}
  BY <1>1, <1>2 DEF Board
<1>4. (KeyInterrupt <=> KeyInterrupt') /\ Waiting'
  <2>1. KeyInterrupt <=> KeyInterrupt'
    BY <1>3 DEF KeyInterrupt
  <2>2. then # "host"
    BY <1>1, <1>2 DEF Waiting
  <2> QED BY <1>2, <2>1, <2>2 DEF Waiting
<1>5. Host(host') /\ Balanced(iob', host')
  <2>1. CASE 5 \in iob.csr
    <3>1. PICK i, h, j, g : i = iob /\ h = host /\ j = iob' /\ g = host'
      OBVIOUS
    <3>2. g = [h EXCEPT !.taken = Append(@, i.scan)]
      BY <1>2, <2>1, <3>1
    <3>3. Board(i) /\ Host(h) /\ Balanced(i, h) /\ 5 \in i.csr /\ 5 \notin j.csr
      BY <1>1, <1>3, <2>1, <3>1
    <3>4. Host(g) /\ Balanced(j, g)
      BY <3>2, <3>3, RegisterToGuest
    <3> QED BY <3>1, <3>4
  <2>2. CASE 5 \notin iob.csr
    <3>1. host' = host /\ \A w \in Int : InRegister(iob', w) = InRegister(iob, w)
      BY <1>2, <1>3, <2>2 DEF InRegister
    <3> QED BY <1>1, <3>1 DEF Balanced
  <2> QED BY <2>1, <2>2
<1> QED BY <1>3, <1>4, <1>5 DEF KeyIInv

(* The guest sets the enables, which are not the bit of a key. *)
LEMMA WriteKbdCsrKeeps ==
  ASSUME KeyIInv, WriteKbdCsr
  PROVE  KeyIInv'
<1>1. Board(iob) /\ Host(host) /\ Balanced(iob, host) /\ Waiting
  BY DEF KeyIInv
<1>2. /\ at = "store" /\ at' = then /\ then' = then /\ host' = host
      /\ iob' = [iob EXCEPT !.csr = (@ \ (0 .. 3)) \cup (cpu.md \cap (0 .. 3))]
  BY DEF WriteKbdCsr, Writing
<1>3. Board(iob') /\ iob'.scan = iob.scan /\ (5 \in iob'.csr <=> 5 \in iob.csr)
  BY <1>1, <1>2 DEF Board
<1>4. Balanced(iob', host')
  <2>1. \A w \in Int : InRegister(iob', w) = InRegister(iob, w)
    BY <1>3 DEF InRegister
  <2> QED BY <1>1, <1>2, <2>1 DEF Balanced
<1>5. Waiting'
  BY <1>1, <1>2 DEF Waiting
<1> QED BY <1>1, <1>2, <1>3, <1>4, <1>5 DEF KeyIInv

(* The other steps leave the keyboard alone; where they go matters only.   *)
KeysAlone == iob' = iob /\ host' = host

(* The counts are then what they were. *)
LEMMA AloneKeeps == KeyIInv /\ KeysAlone /\ Waiting' => KeyIInv'
BY DEF KeyIInv, KeysAlone

(* The engine: a turn, a poll and an access follow one another. *)
LEMMA EngineKeeps ==
  ASSUME Waiting, EngineStep
  PROVE  KeysAlone /\ Waiting'
<1> USE DEF Waiting, KeyInterrupt, KeysAlone, Devices
<1>1. CASE Fetch
  BY <1>1 DEF Fetch
<1>2. CASE Source
  BY <1>2 DEF Source
<1>3. CASE Nop \/ AluOp \/ Byte
  BY <1>3 DEF Nop, AluOp, Byte
<1>4. CASE Halt \/ JumpNot \/ DispatchWrite
  BY <1>4 DEF Halt, JumpNot, DispatchWrite
<1>5. CASE Jump
  BY <1>5 DEF Jump, JumpTo
<1>6. CASE Dispatch
  BY <1>6 DEF Dispatch, JumpTo
<1>7. CASE WriteA
  BY <1>7 DEF WriteA
<1>8. CASE WriteDest
  <2>1. \E f : at' = Then(f)
    BY <1>8 DEF WriteDest
  <2>2. at' # "host"
    BY <2>1 DEF Then
  <2>3. then' = "popj" /\ Devices
    BY <1>8 DEF WriteDest
  <2> QED BY <2>2, <2>3
<1>9. CASE Popj
  BY <1>9 DEF Popj
<1>10. CASE PopjNot
  BY <1>10 DEF PopjNot
<1> QED BY <1>1, <1>2, <1>3, <1>4, <1>5, <1>6, <1>7, <1>8, <1>9, <1>10 DEF EngineStep

(* The stores of the interrupt status, the tick, and the end of the keys. *)
LEMMA InterruptKeeps ==
  ASSUME Waiting, StoreStatus \/ StoreFlag \/ Dismiss \/ Tick \/ HostDone
  PROVE  KeysAlone /\ Waiting'
<1> USE DEF Waiting, KeyInterrupt, KeysAlone, devices
<1>1. CASE StoreStatus
  BY <1>1 DEF StoreStatus
<1>2. CASE StoreFlag
  BY <1>2 DEF StoreFlag
<1>3. CASE Dismiss
  BY <1>3 DEF Dismiss, deassert_xbus_interrupt, Stage, Skip
<1>4. CASE Tick
  BY <1>4 DEF Tick
<1>5. CASE HostDone
  BY <1>5 DEF HostDone
<1> QED BY <1>1, <1>2, <1>3, <1>4, <1>5

(* The other reads of memory and registers. *)
LEMMA ReadKeeps ==
  ASSUME Waiting, read_mem, ~ReadKbd
  PROVE  KeysAlone /\ Waiting'
<1> USE DEF Waiting, KeyInterrupt, KeysAlone, devices, ReadOnly, Reading
<1>1. CASE ReadPage
  BY <1>1 DEF ReadPage
<1>2. CASE ReadFault
  BY <1>2 DEF ReadFault
<1>3. CASE ReadMissing \/ ReadTv
  BY <1>3 DEF ReadMissing, ReadTv
<1>4. CASE ReadUnibus \/ ReadTvCsr
  BY <1>4 DEF ReadUnibus, ReadTvCsr
<1>5. CASE ReadKbdCsr \/ disk_xbus_read
  BY <1>5 DEF ReadKbdCsr, disk_xbus_read
<1> QED BY <1>1, <1>2, <1>3, <1>4, <1>5 DEF read_mem

(* The other stores. *)
LEMMA WriteKeeps ==
  ASSUME Waiting, write_mem, ~WriteKbdCsr
  PROVE  KeysAlone /\ Waiting'
<1> USE DEF Waiting, KeyInterrupt, KeysAlone, devices, Writing
<1>1. CASE WriteFault
  BY <1>1 DEF WriteFault
<1>2. CASE WritePage
  BY <1>2 DEF WritePage
<1>3. CASE WriteTv
  BY <1>3 DEF WriteTv
<1>4. CASE WriteSpy
  BY <1>4 DEF WriteSpy
<1>5. CASE WriteStatus
  BY <1>5 DEF WriteStatus, Stage
<1>6. CASE WriteNothing
  BY <1>6 DEF WriteNothing
<1>7. CASE WriteTvCsr
  BY <1>7 DEF WriteTvCsr
<1> QED BY <1>1, <1>2, <1>3, <1>4, <1>5, <1>6, <1>7 DEF write_mem

(* The disk controller. *)
LEMMA DiskKeeps ==
  ASSUME Waiting, DiskStep
  PROVE  KeysAlone /\ Waiting'
<1> USE DEF Waiting, KeyInterrupt, KeysAlone, devices, Writing
<1>1. CASE WriteCmd
  BY <1>1 DEF WriteCmd
<1>2. CASE WriteDiskRegister
  BY <1>2 DEF WriteDiskRegister
<1>3. CASE disk_start
  BY <1>3 DEF disk_start
<1>4. CASE DiskWord
  BY <1>4 DEF DiskWord, Transfer
<1>5. CASE DiskLost
  BY <1>5 DEF DiskLost
<1>6. CASE DiskMoved
  BY <1>6 DEF DiskMoved
<1>7. CASE disk_poll
  BY <1>7 DEF disk_poll, assert_xbus_interrupt, Stage, Skip
<1> QED BY <1>1, <1>2, <1>3, <1>4, <1>5, <1>6, <1>7 DEF DiskStep

-----------------------------------------------------------------------------
(***************************************************************************)
(* The theorem.                                                            *)
(***************************************************************************)
(* At the start no key has been posted. *)
LEMMA InitKeys == Init => KeyIInv
<1> SUFFICES ASSUME Init PROVE KeyIInv
  OBVIOUS
<1>1. /\ iob = [scan |-> 0, csr |-> {}] /\ at = "poll" /\ prog \in DOMAIN Programs
      /\ host = [posted |-> << >>, lost |-> << >>, taken |-> << >>, queue |-> << >>, shifts |-> {},
                 held |-> {}, left |-> Programs[prog].keys]
  BY DEF Init, Machine
<1>2. Board(iob)
  BY <1>1 DEF Board
<1>3. << >> \in Seq(Int) /\ Len(<< >>) = 0
  BY EmptySeq
<1>4. Host(host)
  BY <1>1, <1>3, UsimAssumption, KeyAssumption DEF Host
<1>5. Balanced(iob, host)
  BY <1>1, TimesEmpty DEF Balanced, InRegister
<1>6. Waiting
  BY <1>1 DEF Waiting
<1> QED BY <1>2, <1>4, <1>5, <1>6 DEF KeyIInv

(* Every step keeps the invariant. *)
LEMMA NextKeys ==
  ASSUME KeyIInv, [Next]_vars
  PROVE  KeyIInv'
<1>0. Waiting
  BY DEF KeyIInv
<1>1. CASE EngineStep
  BY <1>0, <1>1, EngineKeeps, AloneKeeps
<1>2. CASE StoreStatus \/ StoreFlag \/ Dismiss \/ Tick \/ HostDone
  BY <1>0, <1>2, InterruptKeeps, AloneKeeps
<1>3. CASE read_mem /\ ~ReadKbd
  BY <1>0, <1>3, ReadKeeps, AloneKeeps
<1>4. CASE write_mem /\ ~WriteKbdCsr
  BY <1>0, <1>4, WriteKeeps, AloneKeeps
<1>5. CASE DiskStep
  BY <1>0, <1>5, DiskKeeps, AloneKeeps
<1>6. CASE ReadKbd
  BY <1>6, ReadKbdKeeps
<1>7. CASE WriteKbdCsr
  BY <1>7, WriteKbdCsrKeeps
<1>8. CASE HostPoll
  BY <1>8, HostPollKeeps
<1>9. CASE HostKey
  BY <1>9, HostKeyKeeps
<1>10. CASE HostFocus
  BY <1>10, HostFocusKeeps
<1>11. CASE UNCHANGED vars
  BY <1>11 DEF vars, KeyIInv, Board, Host, Balanced, InRegister, Waiting, KeyInterrupt
<1> QED BY <1>1, <1>2, <1>3, <1>4, <1>5, <1>6, <1>7, <1>8, <1>9, <1>10, <1>11
        DEF Next, ThreadStep, KbdStep, Halted

(* What it says of the keys that were posted. *)
LEMMA KeysCounted == KeyIInv => KeysKept
<1> SUFFICES ASSUME KeyIInv, host.lost = << >>, NEW i \in DOMAIN host.posted
             PROVE  LET v == host.posted[i]
                    IN Times(v, host.posted) = Times(Stored(v), host.taken) + Times(v, host.queue)
                                               + (IF Ready /\ iob.scan = Stored(v) THEN 1 ELSE 0)
  BY DEF KeysKept
<1>1. host.posted[i] \in Int
  BY ElementOfSeq DEF KeyIInv, Host
<1> QED BY <1>1 DEF KeyIInv, Balanced, InRegister, Ready

(* iob_dequeue_key_event() and the reads of the keyboard's register: for   *)
(* every program and whatever its user types, a key that was posted and    *)
(* not lost to a full queue is taken by the guest once, in the queue, or   *)
(* in the register and not yet read.                                       *)
THEOREM NoKeyLost == Spec => []KeysKept
<1>1. Init => KeyIInv
  BY InitKeys
<1>2. KeyIInv /\ [Next]_vars => KeyIInv'
  BY NextKeys
<1>3. KeyIInv => KeysKept
  BY KeysCounted
<1> QED BY <1>1, <1>2, <1>3, PTL DEF Spec
=============================================================================
