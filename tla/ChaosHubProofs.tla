---------------------------- MODULE ChaosHubProofs -----------------------------
(***************************************************************************)
(* Safety of the hub: types, the agreement of the node vector and the poll *)
(* list (Registered), and that the hub is one wire (IsLan), for any number *)
(* of stations, packets and nodes, as long as                              *)
(*   - a file descriptor is never 0, the mark of a free slot: the hub runs *)
(*     in the foreground, without -s;                                      *)
(*   - there is a slot for every node and the listening socket             *)
(*     (MAX_NODES is 10, MAX_SERVER_FDS is 32);                            *)
(*   - the generations given out do not reach the sign bit of the context  *)
(*     (32765 connections): past it ClosedIsErased fails.                  *)
(***************************************************************************)
EXTENDS ChaosHub, FiniteSetTheorems, SequenceTheorems, TLAPS

Sized ==
  /\ FirstFd > 0
  /\ MaxNodes < MaxSlots
  /\ MaxSessions + 2 < GenMod \div 2

(***************************************************************************)
(* The inductive invariant.                                                *)
(***************************************************************************)
(* The backlog is in the order of the connections. *)
Queueing ==
  \A j \in 1 .. Len(backlog) :
    /\ phase[backlog[j]] = "queued"
    /\ \A k \in j + 1 .. Len(backlog) : backlog[j] < backlog[k]
    /\ \A s \in Session : phase[s] = "new" => backlog[j] < s

(* What is not accepted yet has no descriptor, no generation, and the      *)
(* descriptors and generations it may be given are still free.             *)
Outside(s) == phase[s] = "new" \/ \E j \in 1 .. Len(backlog) : backlog[j] = s

Untouched ==
  \A s \in Session : Outside(s) =>
    /\ nodefd[s] = 0
    /\ fd_generation <= s + 1
    /\ \A f \in Fd : f >= FirstFd + s => files[f] = FREE

(* Slot 0 is the listening socket's, the others are readers'. *)
Slots ==
  /\ 2 <= fd_generation /\ fd_generation <= MaxSessions + 2
  /\ \A i \in Slot :
       /\ fd_list[i].accepts => i = 0
       /\ fd_list[i].fd # 0 =>
            /\ fd_list[i].reads <=> i # 0
            /\ fd_list[i].generation < fd_generation
            /\ i = 0 => fd_list[i].fd = FirstFd /\ files[FirstFd] = LISTEN
  /\ \A f \in Fd : files[f] = LISTEN => f = FirstFd

(* The packet that is being written to the nodes is the last one read. *)
Casting ==
  \/ cast = Idle
  \/ /\ cast.pkt \in Packet /\ cast.at \in 1 .. Len(nodes)
     /\ wire # <<>> /\ cast.pkt = wire[Len(wire)]

(* A client has heard all that is on the wire, or all but the packet that  *)
(* is on its way.                                                          *)
Behind(j) == IF cast # Idle /\ j >= cast.at THEN 1 ELSE 0

Hearing ==
  /\ \A s \in Session : nodefd[s] = 0 => heard[s] = <<>>
  /\ \A j \in 1 .. Len(nodes) :
       LET n == nodes[j]
       IN  /\ phase[n] # "new"
           /\ alive[n] => from[n] + Len(heard[n]) + Behind(j) = Len(wire)

HubInv == /\ TypeOK /\ Queueing /\ Untouched /\ Slots
          /\ Registered /\ Casting /\ Hearing

-----------------------------------------------------------------------------
(***************************************************************************)
(* The data.                                                               *)
(***************************************************************************)
LEMMA Constants ==
  /\ MaxSessions \in Nat /\ MaxPkts \in Nat /\ FirstFd \in Nat
  /\ Cap \in Nat /\ Cap > 0 /\ MaxNodes \in Nat /\ MaxNodes > 0
  /\ MaxSlots \in Nat /\ MaxSlots > 0
  /\ GenMod \in Nat /\ GenMod > 2 /\ Station # {}
  /\ GenMod \div 2 \in Nat /\ GenMod \div 2 < GenMod
BY HubAssumption

LEMMA LowestOf ==
  ASSUME NEW S \in SUBSET Nat, S # {}
  PROVE  Lowest(S) \in S /\ \A j \in S : Lowest(S) <= j
<1>1. \E i \in S : \A j \in S : i <= j
  <2>1. PICK x \in S : TRUE
    OBVIOUS
  <2> DEFINE R == OpToRel(<, Nat)
  <2>2. IsWellFoundedOn(R, Nat)
    BY NatLessThanWellFounded, Zenon
  <2>3. \A j, i \in Nat : j < i => <<j, i>> \in R
    BY Zenon DEF OpToRel
  <2> HIDE DEF R
  <2>4. PICK i \in S : \A j \in S : ~(<<j, i>> \in R)
    BY <2>1, <2>2, WFMin
  <2>5. \A j \in S : ~(j < i)
    BY <2>3, <2>4
  <2> QED BY <2>5
<1> QED BY <1>1 DEF Lowest

LEMMA IdleType == Idle \in [pkt : Packet \cup {0}, at : 0 .. MaxNodes]
BY Constants DEF Idle

LEMMA WrittenType == TypeOK => Written \in Nat
<1> SUFFICES ASSUME TypeOK PROVE Written \in Nat
  OBVIOUS
<1> DEFINE F(s) == {s} \X (1 .. Len(up[s]))
           all == {F(s) : s \in Session}
           f == [s \in Session |-> F(s)]
<1>1. IsFiniteSet(Session)
  BY Constants, FS_Interval DEF Session
<1>2. f \in Surjection(Session, all)
  BY DEF Surjection
<1>3. \A s \in Session : IsFiniteSet(F(s))
  <2> SUFFICES ASSUME NEW s \in Session PROVE IsFiniteSet(F(s))
    OBVIOUS
  <2>1. IsFiniteSet({s})
    BY FS_Singleton
  <2>2. Len(up[s]) \in Nat
    BY DEF TypeOK
  <2>3. IsFiniteSet(1 .. Len(up[s]))
    BY <2>2, FS_Interval
  <2> QED BY <2>1, <2>3, FS_Product
<1>4. \A T \in all : IsFiniteSet(T)
  BY <1>3
<1> HIDE DEF f, F
<1>5. IsFiniteSet(all)
  BY <1>1, <1>2, FS_Surjection
<1>6. IsFiniteSet(UNION all)
  BY <1>4, <1>5, FS_UNION
<1>7. Cardinality(Unread) \in Nat
  BY <1>6, FS_CardinalityType DEF Unread, F
<1>8. Len(wire) \in Nat
  BY DEF TypeOK
<1> QED BY <1>7, <1>8 DEF Written

(* A node and its client. *)
LEMMA NodeFacts ==
  ASSUME HubInv, NEW j \in 1 .. Len(nodes)
  PROVE  /\ nodes[j] \in Session /\ Len(nodes) \in Nat /\ Len(nodes) <= MaxNodes
         /\ index[nodes[j]] = j - 1
         /\ files[nodefd[nodes[j]]] = nodes[j] /\ nodefd[nodes[j]] # 0
         /\ ~Outside(nodes[j])
         /\ \A k \in 1 .. Len(nodes) : nodes[k] = nodes[j] => k = j
<1>1. /\ nodes[j] \in Session /\ Len(nodes) \in Nat /\ Len(nodes) <= MaxNodes
  <2>1. nodes \in Seq(Session) /\ Len(nodes) <= MaxNodes
    BY DEF HubInv, TypeOK
  <2> QED BY <2>1
<1>2. /\ index[nodes[j]] = j - 1 /\ files[nodefd[nodes[j]]] = nodes[j]
      /\ nodefd[nodes[j]] # 0
  BY DEF HubInv, Registered, Reader
<1>3. \A k \in 1 .. Len(nodes) : index[nodes[k]] = k - 1
  BY DEF HubInv, Registered
<1>4. \A k \in 1 .. Len(nodes) : nodes[k] = nodes[j] => k = j
  BY <1>1, <1>2, <1>3
<1>5. ~Outside(nodes[j])
  BY <1>1, <1>2 DEF HubInv, Untouched
<1> QED BY <1>1, <1>2, <1>4, <1>5

(* A node has a slot. *)
LEMMA NodeSlot ==
  ASSUME HubInv, NEW j \in 1 .. Len(nodes)
  PROVE  \E k \in Slot : /\ fd_list[k].fd # 0 /\ fd_list[k].reads
                         /\ fd_list[k].server = nodes[j]
                         /\ fd_list[k].fd = nodefd[nodes[j]]
BY DEF HubInv, Registered, Reader

(* What a node's client has heard. *)
LEMMA NodeHears ==
  ASSUME HubInv, NEW j \in 1 .. Len(nodes)
  PROVE  /\ from[nodes[j]] \in Nat /\ Len(heard[nodes[j]]) \in Nat /\ Len(wire) \in Nat
         /\ alive[nodes[j]] =>
              from[nodes[j]] + Len(heard[nodes[j]]) + Behind(j) = Len(wire)
<1>1. nodes[j] \in Session
  BY NodeFacts
<1>2. /\ from \in [Session -> Nat] /\ heard \in [Session -> Seq(Packet)]
      /\ wire \in Seq(Packet)
  BY DEF HubInv, TypeOK
<1>3. from[nodes[j]] \in Nat /\ heard[nodes[j]] \in Seq(Packet)
  BY <1>1, <1>2
<1>4. alive[nodes[j]] => from[nodes[j]] + Len(heard[nodes[j]]) + Behind(j) = Len(wire)
  BY DEF HubInv, Hearing
<1> QED BY <1>2, <1>3, <1>4

(* A slot that is read, and the node it is read for. *)
LEMMA SlotFacts ==
  ASSUME HubInv, NEW i \in Slot, fd_list[i].fd # 0, fd_list[i].reads
  PROVE  /\ i # 0
         /\ \E j \in 1 .. Len(nodes) : nodes[j] = fd_list[i].server
         /\ fd_list[i].server \in Session
         /\ fd_list[i].fd = nodefd[fd_list[i].server]
         /\ files[fd_list[i].fd] = fd_list[i].server
         /\ \A k \in Slot : Reader(k, fd_list[i].server) => k = i
<1>1. PICK j \in 1 .. Len(nodes) : nodes[j] = fd_list[i].server
  BY DEF HubInv, Registered
<1>2. \A k \in Slot : Reader(k, fd_list[i].server) => k = i
  BY DEF HubInv, Registered
<1>3. PICK k \in Slot : Reader(k, nodes[j]) /\ fd_list[k].fd = nodefd[nodes[j]]
  BY DEF HubInv, Registered
<1>4. fd_list[i].fd = nodefd[nodes[j]]
  BY <1>1, <1>2, <1>3
<1>5. i # 0
  BY DEF HubInv, Slots
<1> QED BY <1>1, <1>2, <1>4, <1>5, NodeFacts

(* The listening socket is in slot 0. *)
LEMMA ListenFacts ==
  ASSUME HubInv, NEW i \in Slot, Accept(i)
  PROVE  /\ i = 0 /\ fd_list[i].fd = FirstFd /\ files[FirstFd] = LISTEN
         /\ cast = Idle /\ backlog # <<>> /\ Len(backlog) \in Nat /\ Len(backlog) >= 1
         /\ Head(backlog) \in Session /\ Head(backlog) = backlog[1]
         /\ Tail(backlog) \in Seq(Session) /\ Len(Tail(backlog)) = Len(backlog) - 1
         /\ \A j \in 1 .. Len(backlog) - 1 : Tail(backlog)[j] = backlog[j + 1]
         /\ Outside(Head(backlog)) /\ phase[Head(backlog)] = "queued"
<1>1. backlog \in Seq(Session) /\ backlog # <<>> /\ cast = Idle
  BY DEF HubInv, TypeOK, Accept, Polled
<1>2. fd_list[i].fd # 0 /\ fd_list[i].accepts
  BY DEF Accept, Polled
<1>3. i = 0 /\ fd_list[i].fd = FirstFd /\ files[FirstFd] = LISTEN
  BY <1>2 DEF HubInv, Slots
<1>4. Len(backlog) \in Nat /\ Len(backlog) >= 1 /\ Head(backlog) = backlog[1]
  BY <1>1
<1>5. /\ Tail(backlog) \in Seq(Session) /\ Len(Tail(backlog)) = Len(backlog) - 1
      /\ \A j \in 1 .. Len(backlog) - 1 : Tail(backlog)[j] = backlog[j + 1]
  BY <1>1, HeadTailProperties
<1>6. Head(backlog) \in Session
  BY <1>1, <1>4
<1>7. phase[Head(backlog)] = "queued" /\ Outside(Head(backlog))
  BY <1>4 DEF HubInv, Queueing, Outside
<1> QED BY <1>1, <1>3, <1>4, <1>5, <1>6, <1>7

(* The descriptor that accept() returns. *)
LEMMA NewFdFacts ==
  ASSUME HubInv, NEW s \in Session, Outside(s)
  PROVE  /\ NewFd(files) \in Fd /\ NewFd(files) >= FirstFd
         /\ NewFd(files) <= FirstFd + s /\ files[NewFd(files)] = FREE
<1> DEFINE S == {f \in Fd : f >= FirstFd /\ files[f] = FREE}
<1>1. s \in Nat /\ s <= MaxSessions /\ FirstFd \in Nat /\ MaxSessions \in Nat
  BY Constants DEF Session
<1>2. FirstFd + s \in Fd
  BY <1>1 DEF Fd
<1>3. FirstFd + s \in S
  BY <1>1, <1>2 DEF HubInv, Untouched
<1>4. S \in SUBSET Nat /\ S # {}
  BY <1>1, <1>3 DEF Fd
<1>5. Lowest(S) \in S /\ Lowest(S) <= FirstFd + s
  BY <1>3, <1>4, LowestOf
<1>6. NewFd(files) = Lowest(S)
  BY DEF NewFd
<1> QED BY <1>5, <1>6

(* There is a slot for every node. *)
LEMMA FreeSlot ==
  ASSUME Sized, HubInv, ~Full, fd_list[0].fd # 0
  PROVE  FreeSlots # {} /\ Lowest(FreeSlots) \in FreeSlots /\ Lowest(FreeSlots) # 0
<1> DEFINE R == 1 .. MaxSlots - 1
           N == 1 .. Len(nodes)
           f == [i \in R |-> index[fd_list[i].server] + 1]
<1>1. FreeSlots # {}
  <2> SUFFICES ASSUME FreeSlots = {} PROVE FALSE
    OBVIOUS
  <2>1. /\ MaxSlots \in Nat /\ MaxNodes \in Nat /\ MaxNodes < MaxSlots
        /\ Len(nodes) \in Nat /\ Len(nodes) < MaxNodes
    BY Constants DEF Sized, HubInv, TypeOK, Full
  <2>2. \A i \in R : i \in Slot /\ i # 0
    BY <2>1 DEF Slot
  <2>3. \A i \in R : fd_list[i].fd # 0 /\ fd_list[i].reads
    BY <2>2 DEF FreeSlots, HubInv, Slots
  <2>4. ASSUME NEW i \in R
        PROVE  f[i] \in N /\ nodes[f[i]] = fd_list[i].server
    <3>1. PICK j \in N : nodes[j] = fd_list[i].server
      BY <2>2, <2>3, SlotFacts
    <3>2. index[nodes[j]] = j - 1
      BY NodeFacts
    <3>3. f[i] = j
      BY <2>1, <3>1, <3>2
    <3> QED BY <3>1, <3>3
  <2>5. ASSUME NEW i \in R, NEW k \in R, f[i] = f[k]
        PROVE  i = k
    <3>1. fd_list[i].server = fd_list[k].server
      BY <2>4, <2>5
    <3>2. Reader(i, fd_list[k].server)
      BY <2>3, <3>1 DEF Reader
    <3> QED BY <2>2, <2>3, <3>2, SlotFacts
  <2>6. f \in Injection(R, N)
    <3>1. \A i \in R : f[i] \in N
      BY <2>4
    <3>2. \A i, k \in R : f[i] = f[k] => i = k
      BY <2>5
    <3> QED BY <3>1, <3>2 DEF Injection, IsInjective
  <2>7. /\ IsFiniteSet(N) /\ Cardinality(N) = Len(nodes)
        /\ Cardinality(R) = MaxSlots - 1
    <3> DEFINE m == MaxSlots - 1
               l == Len(nodes)
    <3>1. 1 \in Int /\ m \in Int /\ m >= 0 /\ l \in Int /\ l >= 0
      BY <2>1, Constants
    <3> HIDE DEF m, l
    <3>2. /\ IsFiniteSet(1 .. l) /\ Cardinality(1 .. l) = l
          /\ Cardinality(1 .. m) = m
      BY <3>1, FS_Interval
    <3> QED BY <3>2 DEF m, l
  <2> HIDE DEF f, R, N
  <2>8. Cardinality(R) <= Cardinality(N)
    BY <2>6, <2>7, FS_Injection
  <2> QED BY <2>1, <2>7, <2>8
<1>2. FreeSlots \in SUBSET Nat
  BY Constants DEF FreeSlots, Slot
<1>3. Lowest(FreeSlots) \in FreeSlots
  BY <1>1, <1>2, LowestOf
<1> QED BY <1>1, <1>3 DEF FreeSlots

-----------------------------------------------------------------------------
(***************************************************************************)
(* What a step leaves alone keeps its part of the invariant.               *)
(***************************************************************************)
LEMMA QueueingKept == Queueing /\ UNCHANGED <<phase, backlog>> => Queueing'
BY DEF Queueing

LEMMA UntouchedKept ==
  Untouched /\ UNCHANGED <<phase, backlog, files, fd_generation, nodefd>> => Untouched'
BY DEF Untouched, Outside

LEMMA SlotsKept ==
  Slots /\ UNCHANGED <<files, fd_list, fd_generation>> => Slots'
BY DEF Slots

LEMMA RegisteredKept ==
  Registered /\ UNCHANGED <<files, fd_list, nodes, index, nodefd>> => Registered'
BY DEF Registered, Reader

LEMMA HearingKept ==
  ASSUME Hearing, UNCHANGED <<phase, nodes, nodefd, cast, wire, from, heard>>,
         TypeOK, \A s \in Session : alive'[s] => alive[s]
  PROVE  Hearing'
<1>1. \A j : Behind(j)' = Behind(j)
  BY DEF Behind
<1>2. \A j \in 1 .. Len(nodes) : nodes[j] \in Session
  BY DEF TypeOK
<1> QED BY <1>1, <1>2, Zenon DEF Hearing

(* Invariant at the start. *)
LEMMA HubInvInit == Sized /\ Init => HubInv
<1> SUFFICES ASSUME Sized, Init PROVE HubInv
  OBVIOUS
<1>1. /\ 0 \in Slot /\ FirstFd \in Fd /\ 0 \in Fd /\ FirstFd # 0
      /\ 1 \in 0 .. GenMod - 1 /\ 2 \in 0 .. GenMod - 1 /\ MaxSessions + 2 \in Nat
  BY Constants DEF Sized, Slot, Fd
<1>2. TypeOK
  <2>1. /\ station \in [Session -> Station] /\ alive \in [Session -> BOOLEAN]
        /\ phase \in [Session -> {"new", "queued", "accepted", "closed"}]
        /\ path \in [Station -> BOOLEAN]
    BY Constants DEF Init
  <2>2. files \in [Fd -> {FREE, LISTEN} \cup Session]
    BY DEF Init
  <2>3. /\ up \in [Session -> Seq(Packet)] /\ unread \in [Session -> 0 .. Cap]
        /\ heard \in [Session -> Seq(Packet)] /\ from \in [Session -> Nat]
        /\ backlog \in Seq(Session) /\ wire \in Seq(Packet)
    BY Constants DEF Init
  <2>4. fd_list \in [Slot -> [fd : Fd, generation : 0 .. GenMod - 1,
                              server : Session \cup {NONODE},
                              accepts : BOOLEAN, reads : BOOLEAN]]
    <3> DEFINE T == [fd : Fd, generation : 0 .. GenMod - 1, server : Session \cup {NONODE},
                     accepts : BOOLEAN, reads : BOOLEAN]
    <3>1. Empty \in T
      BY <1>1, Constants DEF Empty
    <3>2. [Empty EXCEPT !.fd = FirstFd, !.generation = 1, !.accepts = TRUE] \in T
      BY <1>1, <3>1
    <3> QED BY <3>1, <3>2 DEF Init
  <2>5. fd_generation \in 0 .. GenMod - 1
    BY <1>1 DEF Init
  <2>6. /\ nodes \in Seq(Session) /\ Len(nodes) <= MaxNodes
        /\ index \in [Session -> 0 .. MaxNodes - 1] /\ nodefd \in [Session -> Fd]
    BY <1>1, Constants DEF Init
  <2>7. cast \in [pkt : Packet \cup {0}, at : 0 .. MaxNodes]
    BY IdleType DEF Init
  <2> QED BY <2>1, <2>2, <2>3, <2>4, <2>5, <2>6, <2>7 DEF TypeOK
<1>3. Queueing
  BY DEF Init, Queueing
<1>4. Untouched
  BY Constants DEF Init, Untouched, Session, Fd, LISTEN, FREE
<1>5. Slots
  BY <1>1, Constants DEF Init, Slots, Empty, LISTEN, FREE
<1>6. Registered
  BY <1>1 DEF Init, Registered, Empty, Reader
<1>7. Casting /\ Hearing
  BY DEF Init, Casting, Hearing
<1> QED BY <1>2, <1>3, <1>4, <1>5, <1>6, <1>7 DEF HubInv

-----------------------------------------------------------------------------
(***************************************************************************)
(* The clients' steps.                                                     *)
(***************************************************************************)
LEMMA ConnectInv ==
  ASSUME HubInv, NEW c \in Station, Connect(c)
  PROVE  HubInv'
<1>1. PICK s \in Session :
        /\ phase[s] = "new" /\ \A r \in 1 .. s - 1 : phase[r] # "new"
        /\ station' = [station EXCEPT ![s] = c]
        /\ phase' = [phase EXCEPT ![s] = "queued"]
        /\ alive' = [alive EXCEPT ![s] = TRUE]
        /\ backlog' = Append(backlog, s)
  BY DEF Connect
<1>2. /\ path' = [path EXCEPT ![c] = TRUE]
      /\ UNCHANGED <<files, up, unread, fd_list, fd_generation, nodes, index,
                     nodefd, cast, wire, from, heard>>
  BY DEF Connect, hub, past
<1>3. TypeOK /\ backlog \in Seq(Session) /\ phase \in [Session -> {"new", "queued", "accepted", "closed"}]
  BY DEF HubInv, TypeOK
<1>4. /\ Len(backlog) \in Nat /\ Len(backlog') = Len(backlog) + 1
      /\ backlog'[Len(backlog) + 1] = s
      /\ \A j \in 1 .. Len(backlog) : backlog'[j] = backlog[j] /\ backlog[j] \in Session
  BY <1>1, <1>3
<1>5. TypeOK'
  <2>1. /\ station' \in [Session -> Station] /\ alive' \in [Session -> BOOLEAN]
        /\ phase' \in [Session -> {"new", "queued", "accepted", "closed"}]
        /\ path' \in [Station -> BOOLEAN] /\ backlog' \in Seq(Session)
    BY <1>1, <1>2, <1>3 DEF TypeOK
  <2> QED BY <1>2, <1>3, <2>1 DEF TypeOK
<1>6. Queueing'
  <2>1. ASSUME NEW j \in 1 .. Len(backlog')
        PROVE  /\ phase'[backlog'[j]] = "queued"
               /\ \A k \in j + 1 .. Len(backlog') : backlog'[j] < backlog'[k]
               /\ \A r \in Session : phase'[r] = "new" => backlog'[j] < r
    <3>1. CASE j <= Len(backlog)
      <4>1. /\ j \in 1 .. Len(backlog) /\ backlog'[j] = backlog[j] /\ backlog[j] \in Session
        BY <1>4, <3>1
      <4>2. /\ phase[backlog[j]] = "queued"
            /\ \A k \in j + 1 .. Len(backlog) : backlog[j] < backlog[k]
            /\ \A r \in Session : phase[r] = "new" => backlog[j] < r
        BY <4>1 DEF HubInv, Queueing
      <4> QED BY <1>1, <1>3, <1>4, <4>1, <4>2
    <3>2. CASE j = Len(backlog) + 1
      <4>1. \A r \in Session : phase'[r] = "new" => s < r
        <5> SUFFICES ASSUME NEW r \in Session, phase'[r] = "new" PROVE s < r
          OBVIOUS
        <5>1. phase[r] = "new" /\ r # s
          BY <1>1, <1>3
        <5>2. ~(r \in 1 .. s - 1)
          BY <1>1, <5>1
        <5> QED BY <5>1, <5>2, Constants DEF Session
      <4> QED BY <1>1, <1>3, <1>4, <3>2, <4>1
    <3> QED BY <1>4, <3>1, <3>2
  <2> QED BY <2>1 DEF Queueing
<1>7. Untouched'
  <2>1. ASSUME NEW r \in Session, Outside(r)' PROVE Outside(r)
    BY <1>1, <1>3, <1>4, <2>1 DEF Outside
  <2> QED BY <1>2, <2>1 DEF HubInv, Untouched
<1>8. Slots' /\ Registered'
  BY <1>2, SlotsKept, RegisteredKept DEF HubInv
<1>9. Casting'
  BY <1>2 DEF HubInv, Casting
<1>10. Hearing'
  <2>1. \A j : Behind(j)' = Behind(j)
    BY <1>2 DEF Behind
  <2>2. ASSUME NEW j \in 1 .. Len(nodes)
        PROVE  /\ phase'[nodes[j]] # "new"
               /\ alive'[nodes[j]] => from[nodes[j]] + Len(heard[nodes[j]]) + Behind(j) = Len(wire)
    <3>1. /\ nodes[j] \in Session /\ nodes[j] # s
          /\ phase[nodes[j]] # "new"
          /\ alive[nodes[j]] => from[nodes[j]] + Len(heard[nodes[j]]) + Behind(j) = Len(wire)
      BY <1>1, NodeFacts DEF HubInv, Hearing, TypeOK
    <3> QED BY <1>1, <1>3, <3>1 DEF TypeOK
  <2> QED BY <1>2, <2>1, <2>2, Zenon DEF HubInv, Hearing
<1> QED BY <1>5, <1>6, <1>7, <1>8, <1>9, <1>10 DEF HubInv

(* The steps of a client that touch only its own end of the connection. *)
LEMMA ClientInv ==
  ASSUME HubInv, NEW s \in Session, HangUp(s) \/ Send(s) \/ Receive(s)
  PROVE  HubInv'
<1>1. UNCHANGED <<station, phase, path, backlog, files, fd_list, fd_generation,
                  nodes, index, nodefd, cast, wire, from, heard>>
  BY DEF HangUp, Send, Receive, client, hub, past
<1>2. TypeOK /\ Queueing /\ Untouched /\ Slots /\ Registered /\ Casting /\ Hearing
  BY DEF HubInv
<1>3. /\ alive' \in [Session -> BOOLEAN] /\ \A r \in Session : alive'[r] => alive[r]
      /\ up' \in [Session -> Seq(Packet)] /\ unread' \in [Session -> 0 .. Cap]
  <2>1. CASE HangUp(s)
    BY <1>2, <2>1 DEF TypeOK, HangUp
  <2>2. CASE Send(s)
    <3>1. Written + 1 \in Packet
      BY <1>2, <2>2, WrittenType, Constants DEF Packet, Send
    <3>2. Append(up[s], Written + 1) \in Seq(Packet)
      BY <1>2, <3>1 DEF TypeOK
    <3> QED BY <1>2, <2>2, <3>2 DEF TypeOK, Send, client
  <2>3. CASE Receive(s)
    <3>1. unread[s] - 1 \in 0 .. Cap
      BY <1>2, <2>3, Constants DEF TypeOK, Receive
    <3> QED BY <1>2, <2>3, <3>1 DEF TypeOK, Receive, client
  <2> QED BY <2>1, <2>2, <2>3
<1>4. TypeOK'
  BY <1>1, <1>2, <1>3 DEF TypeOK
<1>5. Queueing' /\ Untouched' /\ Slots' /\ Registered'
  BY <1>1, <1>2, QueueingKept, UntouchedKept, SlotsKept, RegisteredKept
<1>6. Casting'
  BY <1>1, <1>2 DEF Casting
<1>7. Hearing'
  BY <1>1, <1>2, <1>3, HearingKept
<1> QED BY <1>4, <1>5, <1>6, <1>7 DEF HubInv

-----------------------------------------------------------------------------
(***************************************************************************)
(* Accepting.                                                              *)
(***************************************************************************)
(* The oldest connection leaves the backlog. *)
LEMMA Popped ==
  ASSUME HubInv, NEW i \in Slot, Accept(i),
         phase' = [phase EXCEPT ![Head(backlog)] = "accepted"],
         backlog' = Tail(backlog)
  PROVE  /\ Queueing'
         /\ \A r \in Session : Outside(r)' => Outside(r) /\ Head(backlog) < r
<1> DEFINE s == Head(backlog)
<1>1. /\ s \in Session /\ s = backlog[1] /\ backlog \in Seq(Session)
      /\ Len(backlog) \in Nat /\ Len(backlog) >= 1
      /\ Len(backlog') = Len(backlog) - 1
      /\ \A j \in 1 .. Len(backlog') : backlog'[j] = backlog[j + 1]
  BY ListenFacts DEF HubInv, TypeOK
<1>2. phase \in [Session -> {"new", "queued", "accepted", "closed"}]
  BY DEF HubInv, TypeOK
<1>3. \A j \in 1 .. Len(backlog) :
        /\ backlog[j] \in Session /\ phase[backlog[j]] = "queued"
        /\ \A k \in j + 1 .. Len(backlog) : backlog[j] < backlog[k]
        /\ \A r \in Session : phase[r] = "new" => backlog[j] < r
  BY <1>1 DEF HubInv, Queueing
<1> HIDE DEF s
<1>4. ASSUME NEW j \in 1 .. Len(backlog')
      PROVE  /\ phase'[backlog'[j]] = "queued" /\ s < backlog'[j]
             /\ \A k \in j + 1 .. Len(backlog') : backlog'[j] < backlog'[k]
             /\ \A r \in Session : phase'[r] = "new" => backlog'[j] < r
  <2>1. /\ j + 1 \in 1 .. Len(backlog) /\ backlog'[j] = backlog[j + 1]
        /\ j + 1 \in 1 + 1 .. Len(backlog) /\ 1 \in 1 .. Len(backlog)
    BY <1>1
  <2>2. s < backlog[j + 1]
    BY <1>1, <1>3, <2>1
  <2>3. backlog[j + 1] \in Session /\ backlog[j + 1] # s
    BY <1>1, <1>3, <2>1, <2>2, Constants DEF Session
  <2>4. phase'[backlog[j + 1]] = "queued"
    BY <1>2, <1>3, <2>1, <2>3 DEF s
  <2>5. ASSUME NEW k \in j + 1 .. Len(backlog') PROVE backlog'[j] < backlog'[k]
    <3>1. /\ k \in 1 .. Len(backlog') /\ k + 1 \in (j + 1) + 1 .. Len(backlog)
      BY <1>1
    <3> QED BY <1>1, <1>3, <2>1, <3>1
  <2>6. ASSUME NEW r \in Session, phase'[r] = "new" PROVE backlog'[j] < r
    <3>1. phase[r] = "new"
      BY <1>2, <2>6 DEF s
    <3> QED BY <1>3, <2>1, <3>1
  <2> QED BY <2>1, <2>2, <2>4, <2>5, <2>6
<1>5. Queueing'
  BY <1>4 DEF Queueing
<1>6. ASSUME NEW r \in Session, Outside(r)' PROVE Outside(r) /\ s < r
  <2>1. CASE phase'[r] = "new"
    <3>1. phase[r] = "new"
      BY <1>2, <2>1 DEF s
    <3>2. 1 \in 1 .. Len(backlog)
      BY <1>1
    <3> QED BY <1>1, <1>3, <3>1, <3>2 DEF Outside
  <2>2. CASE \E j \in 1 .. Len(backlog') : backlog'[j] = r
    <3>1. PICK j \in 1 .. Len(backlog') : backlog'[j] = r
      BY <2>2
    <3>2. j + 1 \in 1 .. Len(backlog) /\ backlog[j + 1] = r
      BY <1>1, <3>1
    <3> QED BY <1>4, <3>1, <3>2 DEF Outside
  <2> QED BY <1>6, <2>1, <2>2 DEF Outside
<1> QED BY <1>5, <1>6 DEF s

(* The client is not a node: its descriptor is never read. *)
LEMMA NamelessInv ==
  ASSUME HubInv, NEW i \in Slot, Accept(i), AcceptNameless(i)
  PROVE  HubInv'
<1> DEFINE s == Head(backlog)
           fd == NewFd(files)
<1>1. /\ files' = [files EXCEPT ![fd] = s]
      /\ phase' = [phase EXCEPT ![s] = "accepted"]
      /\ backlog' = Tail(backlog)
      /\ UNCHANGED <<station, alive, path, up, unread, fd_list, fd_generation, nodes,
                     index, nodefd, cast, wire, from, heard>>
  BY DEF AcceptNameless, client, hub, past
<1>2. TypeOK /\ Queueing /\ Untouched /\ Slots /\ Registered /\ Casting /\ Hearing
  BY DEF HubInv
<1>3. /\ s \in Session /\ Tail(backlog) \in Seq(Session) /\ Outside(s)
      /\ files[FirstFd] = LISTEN /\ cast = Idle
  BY ListenFacts
<1>4. fd \in Fd /\ fd >= FirstFd /\ fd <= FirstFd + s /\ files[fd] = FREE
  BY <1>3, NewFdFacts
<1>5. /\ Queueing'
      /\ \A r \in Session : Outside(r)' => Outside(r) /\ s < r
  BY <1>1, Popped
<1> HIDE DEF s, fd
<1>6. TypeOK'
  <2>1. /\ files' \in [Fd -> {FREE, LISTEN} \cup Session] /\ backlog' \in Seq(Session)
        /\ phase' \in [Session -> {"new", "queued", "accepted", "closed"}]
    BY <1>1, <1>2, <1>3 DEF TypeOK
  <2> QED BY <1>1, <1>2, <2>1 DEF TypeOK
<1>7. Untouched'
  <2> SUFFICES ASSUME NEW r \in Session, Outside(r)'
               PROVE  /\ nodefd[r] = 0 /\ fd_generation <= r + 1
                      /\ \A f \in Fd : f >= FirstFd + r => files'[f] = FREE
    BY <1>1 DEF Untouched
  <2>1. Outside(r) /\ s < r
    BY <1>5
  <2>2. /\ nodefd[r] = 0 /\ fd_generation <= r + 1
        /\ \A f \in Fd : f >= FirstFd + r => files[f] = FREE
    BY <1>2, <2>1 DEF Untouched
  <2>3. \A f \in Fd : f >= FirstFd + r => f # fd
    BY <1>3, <1>4, <2>1, Constants DEF Session, Fd
  <2> QED BY <1>1, <1>2, <2>2, <2>3 DEF TypeOK
<1>8. FREE # LISTEN /\ \A r \in Session : r # FREE /\ r # LISTEN
  BY DEF FREE, LISTEN, Session
<1>9. \A f \in Fd : f # fd => files'[f] = files[f]
  BY <1>1, <1>2 DEF TypeOK
<1>10. files'[fd] = s
  BY <1>1, <1>2, <1>4 DEF TypeOK
<1>11. Slots'
  <2>1. FirstFd # fd /\ FirstFd \in Fd
    BY <1>3, <1>4, <1>8, Constants DEF Fd
  <2>2. files'[FirstFd] = LISTEN
    BY <1>3, <1>9, <2>1
  <2>3. \A f \in Fd : files'[f] = LISTEN => f = FirstFd
    BY <1>2, <1>3, <1>8, <1>9, <1>10 DEF Slots
  <2>4. /\ 2 <= fd_generation /\ fd_generation <= MaxSessions + 2
        /\ \A k \in Slot :
             /\ fd_list[k].accepts => k = 0
             /\ fd_list[k].fd # 0 =>
                  /\ fd_list[k].reads <=> k # 0
                  /\ fd_list[k].generation < fd_generation
                  /\ k = 0 => fd_list[k].fd = FirstFd
    BY <1>2 DEF Slots
  <2> QED BY <1>1, <2>2, <2>3, <2>4 DEF Slots
<1>12. Registered'
  <2>1. ASSUME NEW j \in 1 .. Len(nodes) PROVE files'[nodefd[nodes[j]]] = nodes[j]
    <3>1. /\ nodes[j] \in Session /\ files[nodefd[nodes[j]]] = nodes[j]
          /\ nodefd[nodes[j]] \in Fd
      BY <1>2, NodeFacts DEF TypeOK
    <3>2. nodefd[nodes[j]] # fd
      BY <1>4, <1>8, <3>1
    <3> QED BY <1>9, <3>1, <3>2
  <2> QED BY <1>1, <1>2, <2>1 DEF Registered, Reader
<1>13. Casting'
  BY <1>1, <1>2 DEF Casting
<1>14. Hearing'
  <2>1. \A j : Behind(j)' = Behind(j)
    BY <1>1 DEF Behind
  <2>2. ASSUME NEW j \in 1 .. Len(nodes)
        PROVE  /\ phase'[nodes[j]] # "new"
               /\ alive[nodes[j]] => from[nodes[j]] + Len(heard[nodes[j]]) + Behind(j) = Len(wire)
    <3>1. /\ nodes[j] \in Session /\ phase[nodes[j]] # "new"
          /\ alive[nodes[j]] => from[nodes[j]] + Len(heard[nodes[j]]) + Behind(j) = Len(wire)
      BY <1>2, NodeFacts DEF Hearing
    <3> QED BY <1>1, <1>2, <3>1 DEF TypeOK
  <2> QED BY <1>1, <1>2, <2>1, <2>2, Zenon DEF Hearing
<1> QED BY <1>5, <1>6, <1>7, <1>11, <1>12, <1>13, <1>14 DEF HubInv

(* fd_remove() frees one slot. *)
LEMMA RemoveFacts ==
  ASSUME TypeOK, NEW i \in Slot, fd_list' = fd_remove(i)
  PROVE  /\ fd_list' \in [Slot -> [fd : Fd, generation : 0 .. GenMod - 1,
                                   server : Session \cup {NONODE},
                                   accepts : BOOLEAN, reads : BOOLEAN]]
         /\ fd_list'[i].fd = 0 /\ fd_list'[i].accepts = fd_list[i].accepts
         /\ \A k \in Slot : k # i => fd_list'[k] = fd_list[k]
<1> DEFINE T == [fd : Fd, generation : 0 .. GenMod - 1, server : Session \cup {NONODE},
                 accepts : BOOLEAN, reads : BOOLEAN]
<1>1. fd_list \in [Slot -> T] /\ 0 \in Fd /\ 0 \in 0 .. GenMod - 1
  BY Constants DEF TypeOK, Fd
<1>2. fd_list' = [fd_list EXCEPT ![i] = [fd_list[i] EXCEPT !.fd = 0, !.generation = 0]]
  BY <1>1 DEF fd_remove
<1>3. [fd_list[i] EXCEPT !.fd = 0, !.generation = 0] \in T
  BY <1>1
<1>4. fd_list' \in [Slot -> T]
  BY <1>1, <1>2, <1>3
<1>5. fd_list'[i] = [fd_list[i] EXCEPT !.fd = 0, !.generation = 0]
  BY <1>1, <1>2
<1>6. fd_list'[i].fd = 0 /\ fd_list'[i].accepts = fd_list[i].accepts
  BY <1>1, <1>5
<1> QED BY <1>1, <1>2, <1>4, <1>6

(* The listening socket is closed, and slot 0 is free for good. *)
LEMMA FullInv ==
  ASSUME Sized, HubInv, NEW i \in Slot, Accept(i), AcceptFull(i)
  PROVE  HubInv'
<1> DEFINE s == Head(backlog)
           refused == {backlog[j] : j \in 1 .. Len(backlog)}
<1>1. TypeOK /\ Queueing /\ Untouched /\ Slots /\ Registered /\ Casting /\ Hearing
  BY DEF HubInv
<1>2. /\ i = 0 /\ fd_list[0].fd = FirstFd /\ files[FirstFd] = LISTEN /\ cast = Idle
      /\ s \in Session
  BY ListenFacts
<1>3. /\ path' = [path EXCEPT ![station[s]] = FALSE]
      /\ phase' = [r \in Session |-> IF r \in refused THEN "closed" ELSE phase[r]]
      /\ backlog' = <<>>
      /\ files' = [files EXCEPT ![FirstFd] = FREE]
      /\ fd_list' = fd_remove(0)
      /\ UNCHANGED <<station, alive, up, unread, fd_generation, nodes, index,
                     nodefd, cast, wire, from, heard>>
  BY <1>2 DEF AcceptFull, past
<1>4. FirstFd \in Fd /\ 0 \in Fd /\ FirstFd # 0 /\ 0 \in Slot /\ 0 \in 0 .. GenMod - 1
  BY Constants DEF Fd, Slot, Sized
<1> HIDE DEF refused, s
<1>5. TypeOK'
  <2>1. /\ path' \in [Station -> BOOLEAN] /\ backlog' \in Seq(Session)
        /\ phase' \in [Session -> {"new", "queued", "accepted", "closed"}]
        /\ files' \in [Fd -> {FREE, LISTEN} \cup Session]
    BY <1>1, <1>2, <1>3 DEF TypeOK
  <2>2. fd_list' \in [Slot -> [fd : Fd, generation : 0 .. GenMod - 1,
                               server : Session \cup {NONODE},
                               accepts : BOOLEAN, reads : BOOLEAN]]
    BY <1>1, <1>3, <1>4, RemoveFacts
  <2> QED BY <1>1, <1>3, <2>1, <2>2 DEF TypeOK
<1>6. \A r \in Session : phase'[r] = "new" => phase[r] = "new"
  BY <1>3
<1>7. Queueing'
  BY <1>3 DEF Queueing
<1>8. Untouched'
  <2>1. ASSUME NEW r \in Session, Outside(r)' PROVE Outside(r)
    BY <1>3, <1>6, <2>1 DEF Outside
  <2>2. \A f \in Fd : files[f] = FREE => files'[f] = FREE
    BY <1>1, <1>3 DEF TypeOK
  <2> QED BY <1>1, <1>3, <2>1, <2>2 DEF Untouched
<1>9. /\ fd_list'[0].fd = 0 /\ fd_list'[0].accepts = fd_list[0].accepts
      /\ \A k \in Slot : k # 0 => fd_list'[k] = fd_list[k]
  BY <1>1, <1>3, <1>4, RemoveFacts
<1>10. Slots'
  <2>1. \A f \in Fd : files'[f] = LISTEN => f = FirstFd
    BY <1>1, <1>3 DEF TypeOK, Slots
  <2>2. \A k \in Slot :
             /\ fd_list'[k].accepts => k = 0
             /\ fd_list'[k].fd # 0 =>
                  /\ fd_list'[k].reads <=> k # 0
                  /\ fd_list'[k].generation < fd_generation
                  /\ k # 0
    BY <1>1, <1>9 DEF Slots
  <2> QED BY <1>1, <1>3, <2>1, <2>2 DEF Slots
<1>11. Registered'
  <2>1. \A k \in Slot : fd_list[k].fd # 0 /\ fd_list[k].reads => k # 0
    BY <1>1 DEF Slots
  <2>2. \A k \in Slot : fd_list'[k].fd # 0 => k # 0 /\ fd_list'[k] = fd_list[k]
    BY <1>9
  <2>3. ASSUME NEW j \in 1 .. Len(nodes)
        PROVE  /\ index[nodes[j]] = j - 1
               /\ files'[nodefd[nodes[j]]] = nodes[j]
               /\ \E k \in Slot : /\ fd_list'[k].fd # 0 /\ fd_list'[k].reads
                                  /\ fd_list'[k].server = nodes[j]
                                  /\ fd_list'[k].fd = nodefd[nodes[j]]
    <3>1. /\ nodes[j] \in Session /\ files[nodefd[nodes[j]]] = nodes[j]
          /\ nodefd[nodes[j]] \in Fd /\ index[nodes[j]] = j - 1
      BY <1>1, NodeFacts DEF TypeOK
    <3>2. nodefd[nodes[j]] # FirstFd
      BY <1>2, <3>1, Constants DEF Session, LISTEN
    <3>3. files'[nodefd[nodes[j]]] = nodes[j]
      BY <1>1, <1>3, <3>1, <3>2 DEF TypeOK
    <3>4. PICK k \in Slot : /\ fd_list[k].fd # 0 /\ fd_list[k].reads
                           /\ fd_list[k].server = nodes[j]
                           /\ fd_list[k].fd = nodefd[nodes[j]]
      BY NodeSlot
    <3>5. fd_list'[k] = fd_list[k]
      BY <1>9, <2>1, <3>4
    <3> QED BY <3>1, <3>3, <3>4, <3>5
  <2>4. ASSUME NEW k \in Slot, fd_list'[k].fd # 0, fd_list'[k].reads
        PROVE  /\ \E j \in 1 .. Len(nodes) : nodes[j] = fd_list'[k].server
               /\ \A l \in Slot :
                    (fd_list'[l].fd # 0 /\ fd_list'[l].reads
                       /\ fd_list'[l].server = fd_list'[k].server) => l = k
    <3>1. k # 0 /\ fd_list'[k] = fd_list[k]
      BY <2>2, <2>4
    <3>2. fd_list[k].fd # 0 /\ fd_list[k].reads
      BY <2>4, <3>1
    <3>3. /\ \E j \in 1 .. Len(nodes) : nodes[j] = fd_list[k].server
          /\ \A l \in Slot :
               (fd_list[l].fd # 0 /\ fd_list[l].reads
                  /\ fd_list[l].server = fd_list[k].server) => l = k
      BY <3>2, SlotFacts DEF Reader
    <3> QED BY <2>2, <3>1, <3>3
  <2> QED BY <1>3, <2>3, <2>4 DEF Registered, Reader
<1>12. Casting'
  BY <1>1, <1>3 DEF Casting
<1>13. Hearing'
  <2>1. \A j : Behind(j)' = Behind(j)
    BY <1>3 DEF Behind
  <2>2. \A j \in 1 .. Len(nodes) : phase'[nodes[j]] # "new"
    BY <1>1, <1>6, NodeFacts DEF Hearing
  <2> QED BY <1>1, <1>3, <2>1, <2>2, Zenon DEF Hearing
<1> QED BY <1>5, <1>7, <1>8, <1>10, <1>11, <1>12, <1>13 DEF HubInv

(* A new node at the end of the vector, and its slot. *)
LEMMA NodeInv ==
  ASSUME Sized, HubInv, NEW i \in Slot, Accept(i), AcceptNode(i)
  PROVE  HubInv'
<1> DEFINE s == Head(backlog)
           fd == NewFd(files)
           m == Lowest(FreeSlots)
           N == Len(nodes)
<1>1. TypeOK /\ Queueing /\ Untouched /\ Slots /\ Registered /\ Casting /\ Hearing
  BY DEF HubInv
<1>2. /\ i = 0 /\ fd_list[0].fd = FirstFd /\ files[FirstFd] = LISTEN /\ cast = Idle
      /\ s \in Session /\ Tail(backlog) \in Seq(Session) /\ Outside(s)
  BY ListenFacts
<1>3. fd \in Fd /\ fd >= FirstFd /\ fd <= FirstFd + s /\ files[fd] = FREE
  BY <1>2, NewFdFacts
<1>4. FirstFd \in Nat /\ FirstFd > 0 /\ 0 \in Slot /\ fd # 0 /\ s \in Nat
  BY <1>2, <1>3, Constants DEF Fd, Slot, Sized, Session
<1>5. ~Full
  BY DEF AcceptNode
<1>6. FreeSlots # {} /\ m \in Slot /\ fd_list[m].fd = 0 /\ m # 0
  BY <1>2, <1>4, <1>5, FreeSlot DEF FreeSlots
<1>7. /\ Generation = fd_generation /\ Next16(Generation) = fd_generation + 1
      /\ fd_generation \in Nat /\ 2 <= fd_generation /\ fd_generation <= s + 1
      /\ fd_generation + 1 \in 0 .. GenMod - 1 /\ fd_generation + 1 <= MaxSessions + 2
  <2>1. fd_generation \in 0 .. GenMod - 1 /\ 2 <= fd_generation /\ fd_generation <= s + 1
    BY <1>1, <1>2 DEF TypeOK, Slots, Untouched
  <2>2. s <= MaxSessions /\ MaxSessions + 2 < GenMod \div 2 /\ GenMod \div 2 < GenMod
        /\ GenMod \div 2 \in Nat /\ GenMod \in Nat /\ MaxSessions \in Nat
    BY <1>2, Constants DEF Session, Sized
  <2>3. Generation = fd_generation
    BY <2>1 DEF Generation
  <2>4. fd_generation + 1 < GenMod
    BY <1>4, <2>1, <2>2
  <2>5. (fd_generation + 1) % GenMod = fd_generation + 1
    BY <2>1, <2>2, <2>4
  <2> QED BY <1>4, <2>1, <2>2, <2>3, <2>4, <2>5 DEF Next16
<1>8. /\ path' = [path EXCEPT ![station[s]] = FALSE]
      /\ phase' = [phase EXCEPT ![s] = "accepted"]
      /\ backlog' = Tail(backlog)
      /\ files' = [files EXCEPT ![fd] = s]
      /\ nodes' = Append(nodes, s)
      /\ index' = [index EXCEPT ![s] = N]
      /\ nodefd' = [nodefd EXCEPT ![s] = fd]
      /\ from' = IF alive[s] THEN [from EXCEPT ![s] = Len(wire)] ELSE from
      /\ fd_list' = [fd_list EXCEPT ![m] =
                       [@ EXCEPT !.fd = fd, !.generation = Generation,
                                 !.server = s, !.reads = TRUE]]
      /\ fd_generation' = fd_generation + 1
      /\ UNCHANGED <<station, alive, up, unread, cast, wire, heard>>
  BY <1>6, <1>7 DEF AcceptNode, node_new
<1>9. /\ Queueing'
      /\ \A r \in Session : Outside(r)' => Outside(r) /\ s < r
  BY <1>8, Popped
<1>10. /\ N \in Nat /\ N < MaxNodes /\ MaxNodes \in Nat /\ Len(nodes') = N + 1
       /\ nodes' \in Seq(Session) /\ nodes'[N + 1] = s
       /\ \A j \in 1 .. N : nodes'[j] = nodes[j] /\ nodes[j] \in Session /\ nodes[j] # s
  <2>1. nodes \in Seq(Session) /\ N \in Nat /\ N < MaxNodes /\ MaxNodes \in Nat
    BY <1>1, <1>5, Constants DEF TypeOK, Full
  <2>2. \A j \in 1 .. N : nodes[j] # s
    BY <1>2, NodeFacts
  <2> QED BY <1>2, <1>8, <2>1, <2>2
<1>11. /\ fd_list' \in [Slot -> [fd : Fd, generation : 0 .. GenMod - 1,
                                 server : Session \cup {NONODE},
                                 accepts : BOOLEAN, reads : BOOLEAN]]
       /\ fd_list'[m].fd = fd /\ fd_list'[m].generation = fd_generation
       /\ fd_list'[m].server = s /\ fd_list'[m].reads
       /\ fd_list'[m].accepts = fd_list[m].accepts
       /\ \A k \in Slot : k # m => fd_list'[k] = fd_list[k]
  <2> DEFINE T == [fd : Fd, generation : 0 .. GenMod - 1,
                   server : Session \cup {NONODE},
                   accepts : BOOLEAN, reads : BOOLEAN]
             e == [fd_list[m] EXCEPT !.fd = fd, !.generation = fd_generation,
                                     !.server = s, !.reads = TRUE]
  <2>1. fd_list \in [Slot -> T] /\ fd_generation \in 0 .. GenMod - 1
    BY <1>1 DEF TypeOK
  <2> HIDE DEF s, fd, m
  <2>2. e \in T /\ e.fd = fd /\ e.generation = fd_generation /\ e.server = s
        /\ e.reads /\ e.accepts = fd_list[m].accepts
    BY <1>2, <1>3, <1>6, <2>1
  <2>3. fd_list' = [fd_list EXCEPT ![m] = e]
    BY <1>7, <1>8
  <2> HIDE DEF e
  <2>4. fd_list' \in [Slot -> T] /\ fd_list'[m] = e
        /\ \A k \in Slot : k # m => fd_list'[k] = fd_list[k]
    BY <1>6, <2>1, <2>2, <2>3
  <2> QED BY <2>2, <2>4
<1> HIDE DEF s, fd, m, N
<1>12. FREE # LISTEN /\ \A r \in Session : r # FREE /\ r # LISTEN
  BY DEF FREE, LISTEN, Session
<1>13. files'[fd] = s /\ \A f \in Fd : f # fd => files'[f] = files[f]
  BY <1>1, <1>3, <1>8 DEF TypeOK
<1>14. /\ nodefd'[s] = fd /\ index'[s] = N /\ phase'[s] = "accepted"
       /\ \A r \in Session : r # s => /\ nodefd'[r] = nodefd[r] /\ index'[r] = index[r]
                                      /\ phase'[r] = phase[r] /\ from'[r] = from[r]
  BY <1>1, <1>2, <1>8 DEF TypeOK
<1>15. TypeOK'
  <2>1. /\ files' \in [Fd -> {FREE, LISTEN} \cup Session] /\ backlog' \in Seq(Session)
        /\ phase' \in [Session -> {"new", "queued", "accepted", "closed"}]
        /\ path' \in [Station -> BOOLEAN]
    BY <1>1, <1>2, <1>8 DEF TypeOK, s
  <2>2. N \in 0 .. MaxNodes - 1
    BY <1>10
  <2>3. index' \in [Session -> 0 .. MaxNodes - 1] /\ nodefd' \in [Session -> Fd]
    BY <1>1, <1>2, <1>3, <1>8, <2>2 DEF TypeOK
  <2>4. Len(wire) \in Nat
    BY <1>1 DEF TypeOK
  <2>5. from' \in [Session -> Nat]
    BY <1>1, <1>2, <1>8, <2>4 DEF TypeOK
  <2>6. nodes' \in Seq(Session) /\ Len(nodes') <= MaxNodes
    BY <1>10
  <2>7. fd_generation' \in 0 .. GenMod - 1
    BY <1>7, <1>8
  <2> QED BY <1>1, <1>8, <1>11, <2>1, <2>3, <2>5, <2>6, <2>7 DEF TypeOK
<1>16. Untouched'
  <2> SUFFICES ASSUME NEW r \in Session, Outside(r)'
               PROVE  /\ nodefd'[r] = 0 /\ fd_generation' <= r + 1
                      /\ \A f \in Fd : f >= FirstFd + r => files'[f] = FREE
    BY DEF Untouched
  <2>1. Outside(r) /\ s < r /\ r \in Nat
    BY <1>9 DEF Session
  <2>2. nodefd[r] = 0 /\ \A f \in Fd : f >= FirstFd + r => files[f] = FREE
    BY <1>1, <2>1 DEF Untouched
  <2>3. \A f \in Fd : f >= FirstFd + r => f # fd
    BY <1>3, <1>4, <2>1 DEF Fd
  <2>4. fd_generation' <= r + 1
    BY <1>4, <1>7, <1>8, <2>1
  <2>5. nodefd'[r] = 0
    BY <1>4, <1>14, <2>1, <2>2
  <2> QED BY <1>13, <2>2, <2>3, <2>4, <2>5
<1>17. Slots'
  <2>1. FirstFd # fd /\ FirstFd \in Fd
    BY <1>2, <1>3, <1>12, Constants DEF Fd
  <2>2. files'[FirstFd] = LISTEN
    BY <1>2, <1>13, <2>1
  <2>3. \A f \in Fd : files'[f] = LISTEN => f = FirstFd
    BY <1>1, <1>2, <1>12, <1>13 DEF Slots
  <2>4. 2 <= fd_generation' /\ fd_generation' <= MaxSessions + 2
    BY <1>7, <1>8
  <2>5. ASSUME NEW k \in Slot
        PROVE  /\ fd_list'[k].accepts => k = 0
               /\ fd_list'[k].fd # 0 => (fd_list'[k].reads <=> k # 0)
               /\ fd_list'[k].fd # 0 /\ k = 0 => fd_list'[k].fd = FirstFd
    <3>1. /\ fd_list[k].accepts => k = 0
          /\ fd_list[k].fd # 0 => (fd_list[k].reads <=> k # 0)
          /\ fd_list[k].fd # 0 /\ k = 0 => fd_list[k].fd = FirstFd
      BY <1>1 DEF Slots
    <3>2. CASE k = m
      BY <1>6, <1>11, <3>1, <3>2
    <3>3. CASE k # m
      BY <1>11, <3>1, <3>3
    <3> QED BY <3>2, <3>3
  <2>6. ASSUME NEW k \in Slot, fd_list'[k].fd # 0
        PROVE  fd_list'[k].generation < fd_generation'
    <3>1. CASE k = m
      BY <1>7, <1>8, <1>11, <3>1
    <3>2. CASE k # m
      <4>1. fd_list'[k] = fd_list[k]
        BY <1>11, <3>2
      <4>2. fd_list[k].generation < fd_generation
        BY <1>1, <2>6, <4>1 DEF Slots
      <4>3. fd_list[k].generation \in Nat
        BY <1>1 DEF TypeOK
      <4> QED BY <1>7, <1>8, <4>1, <4>2, <4>3
    <3> QED BY <3>1, <3>2
  <2> QED BY <2>2, <2>3, <2>4, <2>5, <2>6 DEF Slots
<1>18. Registered'
  <2>1. ASSUME NEW j \in 1 .. Len(nodes')
        PROVE  /\ index'[nodes'[j]] = j - 1
               /\ files'[nodefd'[nodes'[j]]] = nodes'[j]
               /\ \E k \in Slot : /\ fd_list'[k].fd # 0 /\ fd_list'[k].reads
                                  /\ fd_list'[k].server = nodes'[j]
                                  /\ fd_list'[k].fd = nodefd'[nodes'[j]]
    <3>1. CASE j = N + 1
      <4>1. nodes'[j] = s /\ index'[s] = j - 1
        BY <1>10, <1>14, <3>1
      <4> QED BY <1>4, <1>6, <1>11, <1>13, <1>14, <4>1
    <3>2. CASE j \in 1 .. N
      <4>1. /\ nodes[j] \in Session /\ files[nodefd[nodes[j]]] = nodes[j]
            /\ nodefd[nodes[j]] \in Fd /\ index[nodes[j]] = j - 1
        BY <1>1, <3>2, NodeFacts DEF TypeOK, N
      <4>2. /\ nodes'[j] = nodes[j] /\ nodefd'[nodes[j]] = nodefd[nodes[j]]
            /\ index'[nodes[j]] = j - 1
        BY <1>10, <1>14, <3>2, <4>1
      <4>3. nodefd[nodes[j]] # fd
        BY <1>3, <1>12, <4>1
      <4>4. PICK k \in Slot : /\ fd_list[k].fd # 0 /\ fd_list[k].reads
                             /\ fd_list[k].server = nodes[j]
                             /\ fd_list[k].fd = nodefd[nodes[j]]
        BY <3>2, NodeSlot DEF N
      <4>5. fd_list'[k] = fd_list[k]
        BY <1>6, <1>11, <4>4
      <4> QED BY <1>13, <4>1, <4>2, <4>3, <4>4, <4>5
    <3> QED BY <1>10, <3>1, <3>2
  <2>2. ASSUME NEW k \in Slot, fd_list'[k].fd # 0, fd_list'[k].reads
        PROVE  /\ \E j \in 1 .. Len(nodes') : nodes'[j] = fd_list'[k].server
               /\ \A l \in Slot :
                    (fd_list'[l].fd # 0 /\ fd_list'[l].reads
                       /\ fd_list'[l].server = fd_list'[k].server) => l = k
    <3>1. ASSUME NEW l \in Slot, l # m, fd_list'[l].fd # 0, fd_list'[l].reads
          PROVE  /\ \E j \in 1 .. N : nodes[j] = fd_list[l].server
                 /\ fd_list'[l] = fd_list[l] /\ fd_list[l].server # s
                 /\ \A q \in Slot :
                    (fd_list[q].fd # 0 /\ fd_list[q].reads
                       /\ fd_list[q].server = fd_list[l].server) => q = l
      <4>1. fd_list'[l] = fd_list[l]
        BY <1>11, <3>1
      <4>2. /\ \E j \in 1 .. N : nodes[j] = fd_list[l].server
            /\ \A q \in Slot :
               (fd_list[q].fd # 0 /\ fd_list[q].reads
                 /\ fd_list[q].server = fd_list[l].server) => q = l
        BY <3>1, <4>1, SlotFacts DEF Reader, N
      <4> QED BY <1>10, <4>1, <4>2
    <3>2. CASE k = m
      <4>1. N + 1 \in 1 .. Len(nodes') /\ nodes'[N + 1] = fd_list'[k].server
        BY <1>10, <1>11, <3>2
      <4>2. \A l \in Slot : (fd_list'[l].fd # 0 /\ fd_list'[l].reads
                              /\ fd_list'[l].server = s) => l = m
        BY <3>1
      <4> QED BY <1>11, <3>2, <4>1, <4>2
    <3>3. CASE k # m
      <4>1. PICK j \in 1 .. N : nodes[j] = fd_list[k].server
        BY <2>2, <3>1, <3>3
      <4>2. j \in 1 .. Len(nodes') /\ nodes'[j] = nodes[j]
        BY <1>10
      <4>3. fd_list'[k] = fd_list[k] /\ fd_list[k].server # s
        BY <2>2, <3>1, <3>3
      <4>4. ASSUME NEW l \in Slot, fd_list'[l].fd # 0, fd_list'[l].reads,
                   fd_list'[l].server = fd_list'[k].server
            PROVE  l = k
        <5>1. l # m
          BY <1>11, <4>3, <4>4
        <5>2. fd_list'[l] = fd_list[l]
          BY <1>11, <5>1
        <5> QED BY <2>2, <3>1, <3>3, <4>3, <4>4, <5>2
      <4> QED BY <4>1, <4>2, <4>3, <4>4
    <3> QED BY <3>2, <3>3
  <2> QED BY <2>1, <2>2 DEF Registered, Reader
<1>19. Casting'
  BY <1>2, <1>8 DEF Casting
<1>20. Hearing'
  <2>1. \A j : Behind(j) = 0 /\ Behind(j)' = 0
    BY <1>2, <1>8 DEF Behind
  <2>2. ASSUME NEW r \in Session, nodefd'[r] = 0 PROVE heard[r] = <<>>
    BY <1>1, <1>4, <1>14, <2>2 DEF Hearing
  <2>3. ASSUME NEW j \in 1 .. Len(nodes')
        PROVE  /\ phase'[nodes'[j]] # "new"
               /\ alive[nodes'[j]] =>
                    from'[nodes'[j]] + Len(heard[nodes'[j]]) + 0 = Len(wire)
    <3>1. CASE j = N + 1
      <4>1. nodes'[j] = s /\ phase'[s] # "new"
        BY <1>10, <1>14, <3>1
      <4>2. heard[s] = <<>>
        BY <1>1, <1>2 DEF Hearing, Untouched
      <4>3. alive[s] => from'[s] = Len(wire)
        BY <1>1, <1>2, <1>8 DEF TypeOK
      <4>4. Len(wire) \in Nat
        BY <1>1 DEF TypeOK
      <4> QED BY <4>1, <4>2, <4>3, <4>4
    <3>2. CASE j \in 1 .. N
      <4>1. /\ nodes'[j] = nodes[j] /\ from'[nodes[j]] = from[nodes[j]]
            /\ phase'[nodes[j]] = phase[nodes[j]]
        BY <1>10, <1>14, <3>2
      <4>2. /\ phase[nodes[j]] # "new"
            /\ alive[nodes[j]] =>
                 from[nodes[j]] + Len(heard[nodes[j]]) + Behind(j) = Len(wire)
        BY <1>1, <3>2 DEF Hearing, N
      <4> QED BY <2>1, <4>1, <4>2
    <3> QED BY <1>10, <3>1, <3>2
  <2> QED BY <1>8, <2>1, <2>2, <2>3, Zenon DEF Hearing
<1> QED BY <1>9, <1>15, <1>16, <1>17, <1>18, <1>19, <1>20 DEF HubInv

-----------------------------------------------------------------------------
(***************************************************************************)
(* Reading, and the broadcast.                                             *)
(***************************************************************************)
LEMMA PacketInv ==
  ASSUME HubInv, NEW i \in Slot, ReadPacket(i)
  PROVE  HubInv'
<1> DEFINE s == files[fd_list[i].fd]
           p == Head(up[s])
<1>1. TypeOK /\ Queueing /\ Untouched /\ Slots /\ Registered /\ Casting /\ Hearing
  BY DEF HubInv
<1>2. /\ cast = Idle /\ s \in Session /\ up[s] # <<>>
      /\ up' = [up EXCEPT ![s] = Tail(@)]
      /\ wire' = Append(wire, p)
      /\ cast' = IF nodes = <<>> THEN Idle ELSE [pkt |-> p, at |-> 1]
      /\ UNCHANGED <<station, phase, alive, path, backlog, files, unread, fd_list,
                     fd_generation, nodes, index, nodefd, from, heard>>
  BY DEF ReadPacket, Polled, client, hub
<1>3. /\ up[s] \in Seq(Packet) /\ nodes \in Seq(Session) /\ wire \in Seq(Packet)
      /\ Len(nodes) <= MaxNodes
  BY <1>1, <1>2 DEF TypeOK
<1>4. p \in Packet /\ Tail(up[s]) \in Seq(Packet)
  BY <1>2, <1>3
<1> HIDE DEF s, p
<1>5. wire' \in Seq(Packet) /\ Len(wire') = Len(wire) + 1 /\ wire'[Len(wire')] = p
      /\ Len(wire) \in Nat /\ wire' # <<>>
  BY <1>2, <1>3, <1>4, AppendProperties
<1>6. cast' = Idle \/ (Len(nodes) >= 1 /\ cast' = [pkt |-> p, at |-> 1])
  BY <1>2, <1>3
<1>7. TypeOK'
  <2>1. up' \in [Session -> Seq(Packet)]
    BY <1>1, <1>2, <1>4 DEF TypeOK
  <2>2. cast' \in [pkt : Packet \cup {0}, at : 0 .. MaxNodes]
    BY <1>4, <1>6, IdleType, Constants
  <2> QED BY <1>1, <1>2, <1>5, <2>1, <2>2 DEF TypeOK
<1>8. Queueing' /\ Untouched' /\ Slots' /\ Registered'
  BY <1>1, <1>2, QueueingKept, UntouchedKept, SlotsKept, RegisteredKept
<1>9. Casting'
  <2>1. CASE cast' = Idle
    BY <2>1 DEF Casting
  <2>2. CASE Len(nodes) >= 1 /\ cast' = [pkt |-> p, at |-> 1]
    <3>1. cast'.pkt \in Packet /\ cast'.at \in 1 .. Len(nodes')
      BY <1>2, <1>3, <1>4, <2>2
    <3> QED BY <1>5, <2>2, <3>1 DEF Casting
  <2> QED BY <1>6, <2>1, <2>2
<1>10. Hearing'
  <2>1. ASSUME NEW j \in 1 .. Len(nodes)
        PROVE  Behind(j) = 0 /\ Behind(j)' = 1
    <3>1. cast' = [pkt |-> p, at |-> 1]
      BY <1>2, <1>3, <2>1
    <3>2. cast' # Idle /\ j >= cast'.at
      BY <1>4, <3>1 DEF Idle, Packet
    <3> QED BY <1>2, <3>2 DEF Behind
  <2>2. ASSUME NEW j \in 1 .. Len(nodes), alive[nodes[j]]
        PROVE  from[nodes[j]] + Len(heard[nodes[j]]) + 1 = Len(wire')
    <3>1. from[nodes[j]] + Len(heard[nodes[j]]) + 0 = Len(wire)
      BY <2>1, <2>2, NodeHears
    <3>2. from[nodes[j]] \in Nat /\ Len(heard[nodes[j]]) \in Nat
      BY NodeHears
    <3> QED BY <1>5, <3>1, <3>2
  <2>3. ASSUME NEW j \in 1 .. Len(nodes), alive[nodes[j]]
        PROVE  from[nodes[j]] + Len(heard[nodes[j]]) + Behind(j)' = Len(wire')
    BY <2>1, <2>2, <2>3
  <2> HIDE <2>1
  <2>4. \A j \in 1 .. Len(nodes) : phase[nodes[j]] # "new"
    BY <1>1 DEF Hearing
  <2>5. \A r \in Session : nodefd[r] = 0 => heard[r] = <<>>
    BY <1>1 DEF Hearing
  <2> QED BY <1>2, <2>3, <2>4, <2>5, Zenon DEF Hearing
<1> QED BY <1>7, <1>8, <1>9, <1>10 DEF HubInv

(* fd_remove() of a reader, and node_destroy() of its node. *)
LEMMA EndInv ==
  ASSUME Sized, HubInv, NEW i \in Slot, ReadEnd(i)
  PROVE  HubInv'
<1> DEFINE s == files[fd_list[i].fd]
           p == index[s] + 1
           N == Len(nodes)
<1>1. TypeOK /\ Queueing /\ Untouched /\ Slots /\ Registered /\ Casting /\ Hearing
  BY DEF HubInv
<1>2. /\ cast = Idle /\ s \in Session /\ fd_list[i].fd # 0 /\ fd_list[i].reads
      /\ node_close(i)
      /\ files' = [files EXCEPT ![fd_list[i].fd] = FREE]
      /\ phase' = [phase EXCEPT ![s] = "closed"]
      /\ fd_list' = fd_remove(i)
      /\ UNCHANGED <<station, alive, path, backlog, up, unread, fd_generation, nodefd,
                     cast, wire, from, heard>>
  BY DEF ReadEnd, Polled, client, past
<1>3. /\ fd_list[i].server = s /\ fd_list[i].fd = nodefd[s] /\ i # 0
      /\ \E j \in 1 .. N : nodes[j] = s
  BY <1>2, SlotFacts
<1>4. /\ p \in 1 .. N /\ nodes[p] = s /\ index[s] = p - 1
      /\ \A j \in 1 .. N : nodes[j] = s => j = p
      /\ N \in Nat /\ ~Outside(s)
  <2>1. PICK j \in 1 .. N : nodes[j] = s
    BY <1>3
  <2>2. N \in Nat /\ index[s] = j - 1 /\ ~Outside(s) /\ \A k \in 1 .. N : nodes[k] = s => k = j
    BY <2>1, NodeFacts
  <2>3. p = j
    BY <2>2
  <2> QED BY <2>1, <2>2, <2>3
<1>5. fd_context_valid(i)
  <2>1. /\ fd_list[i].generation \in Nat /\ fd_list[i].generation < fd_generation
        /\ fd_generation <= MaxSessions + 2 /\ fd_generation \in Nat
    BY <1>1, <1>2 DEF TypeOK, Slots
  <2>2. ~(fd_list[i].generation >= GenMod \div 2)
    BY <2>1, Constants DEF Sized
  <2> QED BY <2>2 DEF fd_context_valid, SignExtend
<1>6. /\ nodes' = [j \in 1 .. N - 1 |-> IF j <= index[s] THEN nodes[j] ELSE nodes[j + 1]]
      /\ index' = [n \in Session |-> IF \E j \in index[s] + 2 .. N : nodes[j] = n
                                     THEN index[n] - 1 ELSE index[n]]
  BY <1>2, <1>3, <1>5 DEF node_close, node_destroy
<1>7. \A j \in 1 .. N : nodes[j] \in Session /\ index[nodes[j]] = j - 1
  BY NodeFacts
<1> HIDE DEF s, p, N
<1>8. /\ nodes' \in Seq(Session) /\ Len(nodes') = N - 1
      /\ \A j \in 1 .. N - 1 : nodes'[j] = IF j < p THEN nodes[j] ELSE nodes[j + 1]
  <2>1. N - 1 \in Nat
    BY <1>4
  <2>2. \A j \in 1 .. N - 1 : j \in 1 .. N /\ j + 1 \in 1 .. N
    BY <1>4
  <2>3. nodes' \in [1 .. N - 1 -> Session]
    BY <1>6, <1>7, <2>2
  <2>4. nodes' \in Seq(Session) /\ Len(nodes') = N - 1
    BY <2>1, <2>3
  <2>5. \A j \in 1 .. N - 1 : (j <= index[s]) <=> (j < p)
    BY <1>4
  <2> QED BY <1>6, <2>4, <2>5
<1>9. \A j \in 1 .. N : index'[nodes[j]] = IF j > p THEN j - 2 ELSE j - 1
  <2> SUFFICES ASSUME NEW j \in 1 .. N
               PROVE  index'[nodes[j]] = IF j > p THEN j - 2 ELSE j - 1
    OBVIOUS
  <2>1. index'[nodes[j]] = IF \E k \in index[s] + 2 .. N : nodes[k] = nodes[j]
                           THEN index[nodes[j]] - 1 ELSE index[nodes[j]]
    BY <1>6, <1>7
  <2>2. (\E k \in index[s] + 2 .. N : nodes[k] = nodes[j]) <=> j > p
    <3>1. ASSUME NEW k \in index[s] + 2 .. N, nodes[k] = nodes[j] PROVE j > p
      <4>1. k \in 1 .. N /\ k > p
        BY <1>4
      <4>2. k = j
        BY <1>7, <3>1, <4>1
      <4> QED BY <4>1, <4>2
    <3>2. ASSUME j > p PROVE j \in index[s] + 2 .. N
      BY <1>4, <3>2
    <3> QED BY <3>1, <3>2
  <2> QED BY <1>7, <2>1, <2>2
(* Every place of the new vector, and where its node was. *)
<1>10. ASSUME NEW j \in 1 .. N - 1
       PROVE  \E k \in 1 .. N : /\ k # p /\ nodes'[j] = nodes[k]
                                /\ index'[nodes[k]] = j - 1
  <2>1. CASE j < p
    BY <1>4, <1>8, <1>9, <2>1
  <2>2. CASE j >= p
    <3>1. j + 1 \in 1 .. N /\ j + 1 > p /\ j + 1 # p
      BY <1>4, <2>2
    <3>2. nodes'[j] = nodes[j + 1] /\ index'[nodes[j + 1]] = (j + 1) - 2
      BY <1>4, <1>8, <1>9, <2>2, <3>1
    <3> QED BY <3>1, <3>2
  <2> QED BY <1>4, <2>1, <2>2
<1>11. ASSUME NEW k \in 1 .. N, k # p
       PROVE  \E j \in 1 .. N - 1 : nodes'[j] = nodes[k]
  <2>1. CASE k < p
    BY <1>4, <1>8, <2>1
  <2>2. CASE k > p
    <3>1. k - 1 \in 1 .. N - 1 /\ ~(k - 1 < p) /\ (k - 1) + 1 = k
      BY <1>4, <2>2
    <3> QED BY <1>8, <3>1
  <2> QED BY <1>4, <1>11, <2>1, <2>2
<1>12. /\ fd_list' \in [Slot -> [fd : Fd, generation : 0 .. GenMod - 1,
                                 server : Session \cup {NONODE},
                                 accepts : BOOLEAN, reads : BOOLEAN]]
       /\ fd_list'[i].fd = 0 /\ fd_list'[i].accepts = fd_list[i].accepts
       /\ \A k \in Slot : k # i => fd_list'[k] = fd_list[k]
  BY <1>1, <1>2, RemoveFacts
<1>13. FREE # LISTEN /\ \A r \in Session : r # FREE /\ r # LISTEN
  BY DEF FREE, LISTEN, Session
<1>14. /\ nodefd[s] \in Fd /\ files'[nodefd[s]] = FREE
       /\ \A f \in Fd : f # nodefd[s] => files'[f] = files[f]
  BY <1>1, <1>2, <1>3 DEF TypeOK
<1>15. \A r \in Session : phase'[r] = IF r = s THEN "closed" ELSE phase[r]
  BY <1>1, <1>2 DEF TypeOK, s
<1>16. TypeOK'
  <2>1. files' \in [Fd -> {FREE, LISTEN} \cup Session]
    BY <1>1, <1>2 DEF TypeOK
  <2>2. phase' \in [Session -> {"new", "queued", "accepted", "closed"}]
    BY <1>1, <1>2 DEF TypeOK
  <2>3. index' \in [Session -> 0 .. MaxNodes - 1]
    <3>1. ASSUME NEW n \in Session
          PROVE  (IF \E j \in index[s] + 2 .. N : nodes[j] = n
                  THEN index[n] - 1 ELSE index[n]) \in 0 .. MaxNodes - 1
      <4>1. index[n] \in 0 .. MaxNodes - 1
        BY <1>1 DEF TypeOK
      <4>2. CASE \E j \in index[s] + 2 .. N : nodes[j] = n
        <5>1. PICK j \in index[s] + 2 .. N : nodes[j] = n
          BY <4>2
        <5>2. j \in 1 .. N /\ j > 1
          BY <1>4
        <5>3. index[n] = j - 1
          BY <1>7, <5>1, <5>2
        <5> QED BY <4>1, <4>2, <5>2, <5>3, Constants
      <4> QED BY <4>1, <4>2
    <3> QED BY <1>6, <3>1
  <2>4. Len(nodes') <= MaxNodes
    BY <1>1, <1>4, <1>8, Constants DEF TypeOK, N
  <2> QED BY <1>1, <1>2, <1>8, <1>12, <2>1, <2>2, <2>3, <2>4 DEF TypeOK
<1>17. \A r \in Session : Outside(r)' => Outside(r)
  BY <1>2, <1>15 DEF Outside
<1>18. Queueing'
  <2>1. ASSUME NEW j \in 1 .. Len(backlog) PROVE backlog[j] \in Session /\ backlog[j] # s
    <3>1. backlog \in Seq(Session)
      BY <1>1 DEF TypeOK
    <3>2. backlog[j] \in Session
      BY <3>1
    <3>3. backlog[j] # s
      BY <1>4 DEF Outside
    <3> QED BY <3>2, <3>3
  <2>2. \A j \in 1 .. Len(backlog) : phase'[backlog[j]] = "queued"
    BY <1>1, <1>15, <2>1 DEF Queueing
  <2>3. \A r \in Session : phase'[r] = "new" => phase[r] = "new"
    BY <1>15
  <2> QED BY <1>1, <1>2, <2>2, <2>3 DEF Queueing
<1>19. Untouched'
  <2>1. \A f \in Fd : files[f] = FREE => files'[f] = FREE
    BY <1>14
  <2> QED BY <1>1, <1>2, <1>17, <2>1 DEF Untouched
<1>20. Slots'
  <2>1. \A f \in Fd : files'[f] = LISTEN => f = FirstFd
    BY <1>1, <1>13, <1>14 DEF Slots
  <2>2. files[FirstFd] = LISTEN => files'[FirstFd] = LISTEN
    <3>1. FirstFd \in Fd
      BY Constants DEF Fd
    <3>2. files[nodefd[s]] = s
      BY <1>3 DEF s
    <3>3. s \in Session
      BY <1>2
    <3> QED BY <1>13, <1>14, <3>1, <3>2, <3>3
  <2>3. \A k \in Slot :
          /\ fd_list'[k].accepts => k = 0
          /\ fd_list'[k].fd # 0 =>
               /\ fd_list'[k].reads <=> k # 0
               /\ fd_list'[k].generation < fd_generation
               /\ k = 0 => fd_list'[k].fd = FirstFd /\ files'[FirstFd] = LISTEN
    BY <1>1, <1>12, <2>2 DEF Slots
  <2> QED BY <1>1, <1>2, <2>1, <2>3 DEF Slots
<1>21. Registered'
  <2>1. ASSUME NEW j \in 1 .. Len(nodes')
        PROVE  /\ index'[nodes'[j]] = j - 1
               /\ files'[nodefd[nodes'[j]]] = nodes'[j]
               /\ \E k \in Slot : /\ fd_list'[k].fd # 0 /\ fd_list'[k].reads
                                  /\ fd_list'[k].server = nodes'[j]
                                  /\ fd_list'[k].fd = nodefd[nodes'[j]]
    <3>1. PICK q \in 1 .. N : /\ q # p /\ nodes'[j] = nodes[q]
                              /\ index'[nodes[q]] = j - 1
      BY <1>8, <1>10
    <3>2. /\ nodes[q] \in Session /\ files[nodefd[nodes[q]]] = nodes[q]
          /\ nodefd[nodes[q]] \in Fd /\ nodes[q] # s
      BY <1>1, <1>4, <3>1, NodeFacts DEF TypeOK, N
    <3>3. nodefd[nodes[q]] # nodefd[s]
      BY <1>3, <3>2 DEF s
    <3>4. PICK k \in Slot : /\ fd_list[k].fd # 0 /\ fd_list[k].reads
                            /\ fd_list[k].server = nodes[q]
                            /\ fd_list[k].fd = nodefd[nodes[q]]
      BY NodeSlot DEF N
    <3>5. fd_list'[k] = fd_list[k]
      BY <1>3, <1>12, <3>2, <3>4
    <3> QED BY <1>14, <3>1, <3>2, <3>3, <3>4, <3>5
  <2>2. ASSUME NEW k \in Slot, fd_list'[k].fd # 0, fd_list'[k].reads
        PROVE  /\ \E j \in 1 .. Len(nodes') : nodes'[j] = fd_list'[k].server
               /\ \A l \in Slot :
                    (fd_list'[l].fd # 0 /\ fd_list'[l].reads
                       /\ fd_list'[l].server = fd_list'[k].server) => l = k
    <3>1. \A l \in Slot : fd_list'[l].fd # 0 => l # i /\ fd_list'[l] = fd_list[l]
      BY <1>12
    <3>2. /\ \E j \in 1 .. N : nodes[j] = fd_list[k].server
          /\ \A q \in Slot :
               (fd_list[q].fd # 0 /\ fd_list[q].reads
                  /\ fd_list[q].server = fd_list[k].server) => q = k
      BY <2>2, <3>1, SlotFacts DEF Reader, N
    <3>3. fd_list[k].server # s
      BY <1>2, <1>3, <2>2, <3>1, <3>2
    <3>4. PICK j \in 1 .. N : nodes[j] = fd_list[k].server
      BY <3>2
    <3>5. j # p
      BY <1>4, <3>3, <3>4
    <3>6. \E l \in 1 .. Len(nodes') : nodes'[l] = fd_list'[k].server
      BY <1>8, <1>11, <2>2, <3>1, <3>4, <3>5
    <3>7. \A l \in Slot :
            (fd_list'[l].fd # 0 /\ fd_list'[l].reads
               /\ fd_list'[l].server = fd_list'[k].server) => l = k
      BY <2>2, <3>1, <3>2
    <3> QED BY <3>6, <3>7
  <2> QED BY <1>2, <2>1, <2>2 DEF Registered, Reader
<1>22. Casting'
  BY <1>2 DEF Casting
<1>23. Hearing'
  <2>1. \A j : Behind(j) = 0 /\ Behind(j)' = 0
    BY <1>2 DEF Behind
  <2>2. ASSUME NEW j \in 1 .. Len(nodes')
        PROVE  /\ phase'[nodes'[j]] # "new"
               /\ alive[nodes'[j]] =>
                    from[nodes'[j]] + Len(heard[nodes'[j]]) + 0 = Len(wire)
    <3>1. PICK q \in 1 .. N : nodes'[j] = nodes[q]
      BY <1>8, <1>10
    <3> QED BY <1>1, <1>7, <1>15, <2>1, <3>1 DEF Hearing, N
  <2> QED BY <1>1, <1>2, <2>1, <2>2, Zenon DEF Hearing
<1> QED BY <1>16, <1>18, <1>19, <1>20, <1>21, <1>22, <1>23 DEF HubInv

(* What a write of the broadcast does. *)
LEMMA RelayFacts ==
  ASSUME HubInv, Relay
  PROVE  /\ cast # Idle /\ cast.at \in 1 .. Len(nodes) /\ cast.pkt = wire[Len(wire)]
         /\ cast.pkt \in Packet /\ wire # <<>>
         /\ nodes[cast.at] \in Session
         /\ \/ /\ alive[nodes[cast.at]] /\ unread[nodes[cast.at]] < Cap
               /\ heard' = [heard EXCEPT ![nodes[cast.at]] = Append(@, cast.pkt)]
               /\ unread' = [unread EXCEPT ![nodes[cast.at]] = @ + 1]
            \/ ~alive[nodes[cast.at]] /\ UNCHANGED <<heard, unread>>
         /\ cast' = IF cast.at >= Len(nodes) THEN Idle ELSE [cast EXCEPT !.at = @ + 1]
         /\ UNCHANGED <<station, phase, alive, path, backlog, files, up, fd_list,
                        fd_generation, nodes, index, nodefd, wire, from>>
<1>1. /\ cast # Idle /\ cast.at \in 1 .. Len(nodes) /\ cast.pkt = wire[Len(wire)]
      /\ cast.pkt \in Packet /\ wire # <<>>
  BY DEF HubInv, Casting, Relay
<1>2. /\ nodes[cast.at] \in Session
      /\ files[nodefd[nodes[cast.at]]] = nodes[cast.at]
  BY <1>1, NodeFacts
<1> QED BY <1>1, <1>2 DEF Relay, Through, client, hub

LEMMA RelayInv ==
  ASSUME HubInv, Relay
  PROVE  HubInv'
<1> DEFINE t == nodes[cast.at]
           N == Len(nodes)
<1>1. TypeOK /\ Queueing /\ Untouched /\ Slots /\ Registered /\ Casting /\ Hearing
  BY DEF HubInv
<1>2. /\ cast # Idle /\ cast.at \in 1 .. N /\ cast.pkt = wire[Len(wire)]
      /\ cast.pkt \in Packet /\ wire # <<>> /\ t \in Session
      /\ UNCHANGED <<station, phase, alive, path, backlog, files, up, fd_list,
                     fd_generation, nodes, index, nodefd, wire, from>>
  BY RelayFacts
<1>3. \/ /\ alive[t] /\ unread[t] < Cap
         /\ heard' = [heard EXCEPT ![t] = Append(@, cast.pkt)]
         /\ unread' = [unread EXCEPT ![t] = @ + 1]
      \/ ~alive[t] /\ UNCHANGED <<heard, unread>>
  BY RelayFacts
<1>4. cast' = IF cast.at >= N THEN Idle ELSE [cast EXCEPT !.at = @ + 1]
  BY RelayFacts
<1>5. /\ N \in Nat /\ N <= MaxNodes /\ nodefd[t] # 0
      /\ \A k \in 1 .. N : nodes[k] \in Session /\ (nodes[k] = t => k = cast.at)
  BY <1>2, NodeFacts
<1>6. cast \in [pkt : Packet \cup {0}, at : 0 .. MaxNodes] /\ cast.at \in Nat
  BY <1>1, <1>2 DEF TypeOK
<1> HIDE DEF t, N
<1>7. \/ cast' = Idle /\ cast.at = N
      \/ /\ cast.at < N /\ cast'.pkt = cast.pkt /\ cast'.at = cast.at + 1
         /\ cast' # Idle
         /\ cast' \in [pkt : Packet \cup {0}, at : 0 .. MaxNodes]
  <2>1. CASE cast.at >= N
    BY <1>2, <1>4, <1>5, <2>1
  <2>2. CASE cast.at < N
    <3>1. cast' = [cast EXCEPT !.at = @ + 1]
      BY <1>4, <1>5, <1>6, <2>2
    <3>2. cast'.pkt = cast.pkt /\ cast'.at = cast.at + 1
      BY <1>6, <3>1
    <3>3. cast.at + 1 \in 0 .. MaxNodes
      BY <1>5, <1>6, <2>2, Constants
    <3>4. cast' # Idle
      BY <1>2, <3>2 DEF Idle, Packet
    <3> QED BY <1>6, <2>2, <3>1, <3>2, <3>3, <3>4
  <2> QED BY <1>2, <1>5, <2>1, <2>2
<1>8. /\ unread' \in [Session -> 0 .. Cap] /\ heard' \in [Session -> Seq(Packet)]
      /\ \A r \in Session : r # t => heard'[r] = heard[r]
      /\ alive[t] => Len(heard'[t]) = Len(heard[t]) + 1
  <2>1. heard \in [Session -> Seq(Packet)] /\ unread \in [Session -> 0 .. Cap] /\ t \in Session
    BY <1>1, <1>2 DEF TypeOK
  <2>2. CASE ~alive[t]
    BY <1>3, <2>1, <2>2
  <2>3. CASE alive[t]
    <3>1. unread[t] + 1 \in 0 .. Cap
      BY <1>3, <2>1, <2>3, Constants
    <3>2. Append(heard[t], cast.pkt) \in Seq(Packet)
          /\ Len(Append(heard[t], cast.pkt)) = Len(heard[t]) + 1
      BY <1>2, <2>1, AppendProperties
    <3> QED BY <1>3, <2>1, <2>3, <3>1, <3>2
  <2> QED BY <2>2, <2>3
<1>9. TypeOK'
  <2>1. cast' \in [pkt : Packet \cup {0}, at : 0 .. MaxNodes]
    BY <1>7, IdleType
  <2> QED BY <1>1, <1>2, <1>8, <2>1 DEF TypeOK
<1>10. Queueing' /\ Untouched' /\ Slots' /\ Registered'
  BY <1>1, <1>2, QueueingKept, UntouchedKept, SlotsKept, RegisteredKept
<1>11. Casting'
  <2>1. CASE cast' = Idle
    BY <2>1 DEF Casting
  <2>2. CASE cast.at < N /\ cast'.pkt = cast.pkt /\ cast'.at = cast.at + 1
    <3>1. cast'.at \in 1 .. Len(nodes')
      BY <1>2, <1>5, <1>6, <2>2 DEF N
    <3> QED BY <1>2, <2>2, <3>1 DEF Casting
  <2> QED BY <1>7, <2>1, <2>2
<1>12. Hearing'
  <2>1. \A r \in Session : nodefd[r] = 0 => heard'[r] = <<>>
    BY <1>1, <1>5, <1>8 DEF Hearing
  <2>2. ASSUME NEW j \in 1 .. N, alive[nodes[j]]
        PROVE  from[nodes[j]] + Len(heard'[nodes[j]]) + Behind(j)' = Len(wire)
    <3>1. /\ from[nodes[j]] + Len(heard[nodes[j]]) + Behind(j) = Len(wire)
          /\ from[nodes[j]] \in Nat /\ Len(heard[nodes[j]]) \in Nat
      BY <2>2, NodeHears DEF N
    <3>2. CASE j = cast.at
      <4>1. Behind(j) = 1
        BY <1>2, <1>6, <3>2 DEF Behind
      <4>2. Behind(j)' = 0
        BY <1>6, <1>7, <3>2 DEF Behind
      <4>3. nodes[j] = t
        BY <3>2 DEF t
      <4> QED BY <1>8, <2>2, <3>1, <4>1, <4>2, <4>3
    <3>3. CASE j # cast.at
      <4>1. nodes[j] # t
        BY <1>5, <3>3
      <4>2. heard'[nodes[j]] = heard[nodes[j]]
        BY <1>5, <1>8, <4>1
      <4>3. Behind(j)' = Behind(j)
        <5>1. CASE j < cast.at
          <6>1. Behind(j) = 0
            BY <1>6, <5>1 DEF Behind
          <6>2. Behind(j)' = 0
            BY <1>6, <1>7, <5>1 DEF Behind
          <6> QED BY <6>1, <6>2
        <5>2. CASE j > cast.at
          <6>1. Behind(j) = 1
            BY <1>2, <1>6, <5>2 DEF Behind
          <6>2. cast' # Idle /\ cast'.at = cast.at + 1
            BY <1>5, <1>6, <1>7, <5>2
          <6>3. j >= cast'.at
            BY <1>6, <5>2, <6>2
          <6> QED BY <6>1, <6>2, <6>3 DEF Behind
        <5> QED BY <1>6, <3>3, <5>1, <5>2
      <4> QED BY <3>1, <4>2, <4>3
    <3> QED BY <3>2, <3>3
  <2>3. \A j \in 1 .. N : phase[nodes[j]] # "new"
    BY <1>1 DEF Hearing, N
  <2> QED BY <1>2, <2>1, <2>2, <2>3, Zenon DEF Hearing, N
<1> QED BY <1>9, <1>10, <1>11, <1>12 DEF HubInv

(* Every step of the hub and its clients keeps the invariant. *)
LEMMA HubInvStep == Sized /\ HubInv /\ [Next]_vars => HubInv'
<1> SUFFICES ASSUME Sized, HubInv, [Next]_vars PROVE HubInv'
  OBVIOUS
<1>1. ASSUME NEW c \in Station, Connect(c) PROVE HubInv'
  BY <1>1, ConnectInv
<1>2. ASSUME NEW s \in Session, HangUp(s) \/ Send(s) \/ Receive(s) PROVE HubInv'
  BY <1>2, ClientInv
<1>3. ASSUME NEW i \in Slot, Accept(i) PROVE HubInv'
  <2>1. AcceptNameless(i) \/ AcceptFull(i) \/ AcceptNode(i)
    BY <1>3 DEF Accept
  <2> QED BY <1>3, <2>1, NamelessInv, FullInv, NodeInv
<1>4. ASSUME NEW i \in Slot, ReadPacket(i) PROVE HubInv'
  BY <1>4, PacketInv
<1>5. ASSUME NEW i \in Slot, ReadEnd(i) PROVE HubInv'
  BY <1>5, EndInv
<1>6. CASE Relay
  BY <1>6, RelayInv
<1>7. CASE UNCHANGED vars
  <2>1. /\ UNCHANGED <<station, phase, alive, path, backlog, files, up, unread, fd_list>>
        /\ UNCHANGED <<fd_generation, nodes, index, nodefd, cast, wire, from, heard>>
    BY <1>7 DEF vars
  <2>2. TypeOK' /\ Casting'
    BY <2>1 DEF HubInv, TypeOK, Casting
  <2>3. \A s \in Session : alive'[s] => alive[s]
    BY <2>1
  <2> QED BY <2>1, <2>2, <2>3, QueueingKept, UntouchedKept, SlotsKept, RegisteredKept,
             HearingKept DEF HubInv
<1> QED BY <1>1, <1>2, <1>3, <1>4, <1>5, <1>6, <1>7 DEF Next

LEMMA HubInvAlways == ASSUME Sized PROVE Spec => []HubInv
<1>1. Init => HubInv
  BY HubInvInit
<1>2. HubInv /\ [Next]_vars => HubInv'
  BY HubInvStep
<1> QED BY <1>1, <1>2, PTL DEF Spec

(* TypeOK: the node vector never outgrows its array, generations stay 16   *)
(* bits wide, a client's buffer is never written past what fits.           *)
THEOREM HubTypes == ASSUME Sized PROVE Spec => []TypeOK
<1>1. HubInv => TypeOK
  BY DEF HubInv
<1> QED BY <1>1, HubInvAlways, PTL

(* Registered: node_new, node_destroy, fd_add and fd_close keep the node   *)
(* vector and the poll list in agreement, whatever order clients come and  *)
(* go in.                                                                  *)
THEOREM StaysRegistered == ASSUME Sized PROVE Spec => []Registered
<1>1. HubInv => Registered
  BY DEF HubInv
<1> QED BY <1>1, HubInvAlways, PTL

(* ClosedIsErased: while generations stay below the sign bit, node_close   *)
(* does erase the client of a descriptor that is closed.                   *)
THEOREM ErasesClosed == ASSUME Sized PROVE Spec => []ClosedIsErased
<1>1. Registered => ClosedIsErased
  BY DEF Registered, ClosedIsErased
<1> QED BY <1>1, StaysRegistered, PTL

-----------------------------------------------------------------------------
(***************************************************************************)
(* The hub is one wire.                                                    *)
(***************************************************************************)
Taps == [s \in Session |-> IF nodefd[s] = 0 THEN "free"
                           ELSE IF alive[s] THEN "on" ELSE "off"]

(* Lan's actions, on the hub's state. *)
LEMMA WireActions ==
  /\ Wire!Init <=> /\ wire = <<>> /\ Taps = [t \in Session |-> "free"]
                   /\ from = [t \in Session |-> 0] /\ heard = [t \in Session |-> <<>>]
  /\ UNCHANGED Wire!vars <=> UNCHANGED <<wire, Taps, from, heard>>
  /\ \A t \in Session :
       Wire!Attach(t) <=> /\ Taps[t] = "free"
                          /\ Taps' = [Taps EXCEPT ![t] = "on"]
                          /\ from' = [from EXCEPT ![t] = Len(wire)]
                          /\ UNCHANGED <<wire, heard>>
  /\ \A p \in Packet :
       Wire!Talk(p) <=> wire' = Append(wire, p) /\ UNCHANGED <<Taps, from, heard>>
  /\ \A t \in Session :
       Wire!Hear(t) <=> /\ Taps[t] = "on" /\ from[t] + Len(heard[t]) + 1 <= Len(wire)
                        /\ heard' = [heard EXCEPT ![t] =
                                       Append(@, wire[from[t] + Len(heard[t]) + 1])]
                        /\ UNCHANGED <<wire, Taps, from>>
  /\ \A t \in Session :
       Wire!Detach(t) <=> /\ Taps[t] # "off"
                          /\ Taps' = [Taps EXCEPT ![t] = "off"]
                          /\ UNCHANGED <<wire, from, heard>>
  /\ Wire!Next <=> \/ \E p \in Packet : Wire!Talk(p)
                   \/ \E t \in Session : Wire!Attach(t) \/ Wire!Hear(t) \/ Wire!Detach(t)
<1>1. Wire!Init <=> /\ wire = <<>> /\ Taps = [t \in Session |-> "free"]
                    /\ from = [t \in Session |-> 0] /\ heard = [t \in Session |-> <<>>]
  BY Zenon DEF Wire!Init, Taps
<1>2. UNCHANGED Wire!vars <=> UNCHANGED <<wire, Taps, from, heard>>
  BY DEF Wire!vars, Taps
<1>3. ASSUME NEW t \in Session
      PROVE  Wire!Attach(t) <=> /\ Taps[t] = "free"
                                /\ Taps' = [Taps EXCEPT ![t] = "on"]
                                /\ from' = [from EXCEPT ![t] = Len(wire)]
                                /\ UNCHANGED <<wire, heard>>
  BY Zenon DEF Wire!Attach, Taps
<1>4. ASSUME NEW p \in Packet
      PROVE  Wire!Talk(p) <=> wire' = Append(wire, p) /\ UNCHANGED <<Taps, from, heard>>
  BY Zenon DEF Wire!Talk, Taps
<1>5. ASSUME NEW t \in Session
      PROVE  Wire!Hear(t) <=> /\ Taps[t] = "on" /\ from[t] + Len(heard[t]) + 1 <= Len(wire)
                              /\ heard' = [heard EXCEPT ![t] =
                                             Append(@, wire[from[t] + Len(heard[t]) + 1])]
                              /\ UNCHANGED <<wire, Taps, from>>
  BY Zenon DEF Wire!Hear, Taps
<1>6. ASSUME NEW t \in Session
      PROVE  Wire!Detach(t) <=> /\ Taps[t] # "off"
                                /\ Taps' = [Taps EXCEPT ![t] = "off"]
                                /\ UNCHANGED <<wire, from, heard>>
  BY Zenon DEF Wire!Detach, Taps
<1>7. Wire!Next <=> \/ \E p \in Packet : Wire!Talk(p)
                    \/ \E t \in Session : Wire!Attach(t) \/ Wire!Hear(t) \/ Wire!Detach(t)
  BY Zenon DEF Wire!Next
<1> QED BY <1>1, <1>2, <1>3, <1>4, <1>5, <1>6, <1>7, Zenon

(* What Taps shows of a step. *)
LEMMA TapsKept ==
  ASSUME UNCHANGED nodefd,
         \A s \in Session : nodefd[s] # 0 => alive'[s] = alive[s]
  PROVE  Taps' = Taps
BY DEF Taps

LEMMA TapsStep ==
  ASSUME NEW s \in Session, nodefd'[s] # 0,
         \A r \in Session : r # s => nodefd'[r] = nodefd[r] /\ alive'[r] = alive[r]
  PROVE  Taps' = [Taps EXCEPT ![s] = IF alive'[s] THEN "on" ELSE "off"]
BY DEF Taps

LEMMA HangUpWire ==
  ASSUME HubInv, NEW s \in Session, HangUp(s)
  PROVE  [Wire!Next]_(Wire!vars)
<1>1. /\ alive[s] /\ alive' = [alive EXCEPT ![s] = FALSE] /\ alive \in [Session -> BOOLEAN]
      /\ UNCHANGED <<nodefd, wire, from, heard>>
  BY DEF HangUp, hub, past, HubInv, TypeOK
<1>2. ~alive'[s] /\ \A r \in Session : r # s => alive'[r] = alive[r]
  BY <1>1
<1>3. CASE nodefd[s] = 0
  <2>1. \A r \in Session : nodefd[r] # 0 => alive'[r] = alive[r]
    BY <1>2, <1>3
  <2>2. Taps' = Taps
    BY <1>1, <2>1, TapsKept
  <2> QED BY <1>1, <2>2, WireActions, Zenon
<1>4. CASE nodefd[s] # 0
  <2>1. Taps[s] # "off"
    BY <1>1, <1>4 DEF Taps
  <2>2. Taps' = [Taps EXCEPT ![s] = IF alive'[s] THEN "on" ELSE "off"]
    BY <1>1, <1>2, <1>4, TapsStep
  <2>3. Taps' = [Taps EXCEPT ![s] = "off"]
    BY <1>2, <2>2
  <2>4. Wire!Detach(s)
    BY <1>1, <2>1, <2>3, WireActions, Zenon
  <2> QED BY <2>4, WireActions, Zenon
<1> QED BY <1>3, <1>4

LEMMA NodeWire ==
  ASSUME Sized, HubInv, NEW i \in Slot, Accept(i), AcceptNode(i)
  PROVE  [Wire!Next]_(Wire!vars)
<1> DEFINE fd == NewFd(files)
<1>1. PICK s \in Session : s = Head(backlog) /\ Outside(s)
  BY ListenFacts
<1>2. fd \in Fd /\ fd >= FirstFd
  BY <1>1, NewFdFacts
<1>3. /\ nodefd' = [nodefd EXCEPT ![s] = fd]
      /\ from' = IF alive[s] THEN [from EXCEPT ![s] = Len(wire)] ELSE from
      /\ UNCHANGED <<alive, wire, heard>>
  BY <1>1 DEF AcceptNode, node_new
<1>4. nodefd[s] = 0 /\ nodefd \in [Session -> Fd]
  BY <1>1 DEF HubInv, TypeOK, Untouched
<1>5. fd # 0
  BY <1>2, Constants DEF Sized, Fd
<1> HIDE DEF fd
<1>6. nodefd'[s] # 0 /\ \A r \in Session : r # s => nodefd'[r] = nodefd[r]
  BY <1>1, <1>3, <1>4, <1>5
<1>7. Taps[s] = "free"
  BY <1>1, <1>4 DEF Taps
<1>8. Taps' = [Taps EXCEPT ![s] = IF alive'[s] THEN "on" ELSE "off"]
  BY <1>1, <1>3, <1>6, TapsStep
<1>9. CASE alive[s]
  <2>1. Taps' = [Taps EXCEPT ![s] = "on"] /\ from' = [from EXCEPT ![s] = Len(wire)]
    BY <1>3, <1>8, <1>9
  <2>2. Wire!Attach(s)
    BY <1>1, <1>3, <1>7, <2>1, WireActions, Zenon
  <2> QED BY <1>1, <2>2, WireActions, Zenon
<1>10. CASE ~alive[s]
  <2>1. Taps' = [Taps EXCEPT ![s] = "off"] /\ from' = from /\ Taps[s] # "off"
    BY <1>3, <1>7, <1>8, <1>10
  <2>2. Wire!Detach(s)
    BY <1>1, <1>3, <2>1, WireActions, Zenon
  <2> QED BY <1>1, <2>2, WireActions, Zenon
<1> QED BY <1>9, <1>10

LEMMA RelayWire ==
  ASSUME HubInv, Relay
  PROVE  [Wire!Next]_(Wire!vars)
<1> DEFINE t == nodes[cast.at]
<1>1. /\ cast # Idle /\ cast.at \in 1 .. Len(nodes) /\ cast.pkt = wire[Len(wire)]
      /\ t \in Session /\ UNCHANGED <<nodefd, alive, wire, from>>
      /\ \/ alive[t] /\ heard' = [heard EXCEPT ![t] = Append(@, cast.pkt)]
         \/ UNCHANGED heard
  BY RelayFacts
<1>2. /\ nodefd[t] # 0
      /\ from[t] \in Nat /\ Len(heard[t]) \in Nat /\ Len(wire) \in Nat
      /\ alive[t] => from[t] + Len(heard[t]) + Behind(cast.at) = Len(wire)
  BY <1>1, NodeFacts, NodeHears
<1>3. Behind(cast.at) = 1
  <2>1. cast.at >= cast.at
    BY <1>1
  <2> QED BY <1>1, <2>1 DEF Behind
<1> HIDE DEF t
<1>4. Taps' = Taps
  BY <1>1, TapsKept
<1>5. CASE UNCHANGED heard
  BY <1>1, <1>4, <1>5, WireActions, Zenon
<1>6. CASE alive[t] /\ heard' = [heard EXCEPT ![t] = Append(@, cast.pkt)]
  <2>1. Taps[t] = "on"
    BY <1>1, <1>2, <1>6 DEF Taps
  <2>2. from[t] + Len(heard[t]) + 1 = Len(wire)
    BY <1>2, <1>3, <1>6
  <2>3. from[t] + Len(heard[t]) + 1 <= Len(wire)
    BY <1>2, <2>2
  <2>4. heard' = [heard EXCEPT ![t] = Append(@, wire[from[t] + Len(heard[t]) + 1])]
    BY <1>1, <1>6, <2>2
  <2>5. Wire!Hear(t)
    BY <1>1, <1>4, <2>1, <2>3, <2>4, WireActions, Zenon
  <2> QED BY <1>1, <2>5, WireActions, Zenon
<1> QED BY <1>1, <1>5, <1>6

(* Every step of the hub is a step of the wire, or none. *)
LEMMA WireStep == Sized /\ HubInv /\ [Next]_vars => [Wire!Next]_(Wire!vars)
<1> SUFFICES ASSUME Sized, HubInv, [Next]_vars PROVE [Wire!Next]_(Wire!vars)
  OBVIOUS
(* The steps that leave nodefd and who is there alone. *)
<1>1. ASSUME UNCHANGED <<nodefd, wire, from, heard>>,
             \A s \in Session : nodefd[s] # 0 => alive'[s] = alive[s]
      PROVE  [Wire!Next]_(Wire!vars)
  <2>1. Taps' = Taps
    BY <1>1, TapsKept
  <2> QED BY <1>1, <2>1, WireActions, Zenon
<1>2. ASSUME NEW c \in Station, Connect(c) PROVE [Wire!Next]_(Wire!vars)
  <2>1. PICK s \in Session : phase[s] = "new" /\ alive' = [alive EXCEPT ![s] = TRUE]
    BY <1>2 DEF Connect
  <2>2. nodefd[s] = 0 /\ alive \in [Session -> BOOLEAN]
    BY <2>1 DEF HubInv, Untouched, Outside, TypeOK
  <2>3. \A r \in Session : nodefd[r] # 0 => alive'[r] = alive[r]
    BY <2>1, <2>2
  <2>4. UNCHANGED <<nodefd, wire, from, heard>>
    BY <1>2 DEF Connect, hub, past
  <2> QED BY <1>1, <2>3, <2>4
<1>3. ASSUME NEW s \in Session, HangUp(s) \/ Send(s) \/ Receive(s)
      PROVE  [Wire!Next]_(Wire!vars)
  <2>1. CASE Send(s) \/ Receive(s)
    <3>1. UNCHANGED <<nodefd, wire, from, heard, alive>>
      BY <2>1 DEF Send, Receive, client, hub, past
    <3> QED BY <1>1, <3>1
  <2> QED BY <1>3, <2>1, HangUpWire
<1>4. ASSUME NEW i \in Slot, Accept(i) PROVE [Wire!Next]_(Wire!vars)
  <2>1. AcceptNameless(i) \/ AcceptFull(i) \/ AcceptNode(i)
    BY <1>4 DEF Accept
  <2>2. CASE AcceptNameless(i) \/ AcceptFull(i)
    <3>1. UNCHANGED <<nodefd, wire, from, heard, alive>>
      BY <2>2 DEF AcceptNameless, AcceptFull, client, hub, past
    <3> QED BY <1>1, <3>1
  <2> QED BY <1>4, <2>1, <2>2, NodeWire
<1>5. ASSUME NEW i \in Slot, ReadPacket(i) PROVE [Wire!Next]_(Wire!vars)
  <2>1. PICK s \in Session : up[s] # <<>> /\ wire' = Append(wire, Head(up[s]))
    BY <1>5 DEF ReadPacket
  <2>2. Head(up[s]) \in Packet
    BY <2>1 DEF HubInv, TypeOK
  <2>3. UNCHANGED <<nodefd, from, heard, alive>>
    BY <1>5 DEF ReadPacket, client, hub
  <2>4. Taps' = Taps
    BY <2>3, TapsKept
  <2>5. Wire!Talk(Head(up[s]))
    BY <2>1, <2>2, <2>3, <2>4, WireActions, Zenon
  <2> QED BY <2>2, <2>5, WireActions, Zenon
<1>6. ASSUME NEW i \in Slot, ReadEnd(i) PROVE [Wire!Next]_(Wire!vars)
  <2>1. UNCHANGED <<nodefd, wire, from, heard, alive>>
    BY <1>6 DEF ReadEnd, client, past
  <2> QED BY <1>1, <2>1
<1>7. CASE Relay
  BY <1>7, RelayWire
<1>8. CASE UNCHANGED vars
  <2>1. UNCHANGED <<nodefd, wire, from, heard, alive>>
    BY <1>8 DEF vars
  <2> QED BY <1>1, <2>1
<1> QED BY <1>2, <1>3, <1>4, <1>5, <1>6, <1>7, <1>8, Zenon DEF Next

(* IsLan: all clients hear the same packets in the same order, each once,  *)
(* from when they are accepted until they leave.                           *)
THEOREM ImplementsLan == ASSUME Sized PROVE Spec => IsLan
<1>1. Init => Wire!Init
  <2> SUFFICES ASSUME Init PROVE Wire!Init
    OBVIOUS
  <2>1. /\ wire = <<>> /\ from = [s \in Session |-> 0]
        /\ heard = [s \in Session |-> <<>>] /\ nodefd = [s \in Session |-> 0]
    BY DEF Init
  <2>2. Taps = [s \in Session |-> "free"]
    BY <2>1 DEF Taps
  <2> QED BY <2>1, <2>2, WireActions, Zenon
<1>2. HubInv /\ [Next]_vars => [Wire!Next]_(Wire!vars)
  BY WireStep
<1> QED BY <1>1, <1>2, HubInvAlways, PTL DEF Spec, IsLan, Wire!Spec

=============================================================================
