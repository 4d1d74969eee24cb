------------------------------ MODULE ChaosHub ------------------------------
(***************************************************************************)
(* The hub, chaosd: clients connect to its Unix socket, and it writes      *)
(* every packet it reads to all of them, the sender too.  transport.c      *)
(* keeps the file descriptors it polls (fd_list), node.c a vector of the   *)
(* clients (nodes), chaosd.c accepts.                                      *)
(*                                                                         *)
(* A station is a client process; every connection it makes is a session   *)
(* of its own.  It binds its socket to a name made from its process id,    *)
(* so that all its sessions have the same name.  The hub looks for that    *)
(* name when it accepts, and removes it.                                   *)
(*                                                                         *)
(* fd_poll() dispatches from a snapshot of the ready descriptors, but what *)
(* is ready stays so until it is read, and a handler closes no descriptor  *)
(* but its own: each handler is an action, and other processes move on     *)
(* between them, and between two writes of a broadcast.                    *)
(***************************************************************************)
EXTENDS Integers, Sequences, FiniteSets

CONSTANTS
  Station,        \* client processes
  MaxSessions,    \* bound: connections made
  MaxPkts,        \* bound: packets written by the clients
  Cap,            \* packets that fit into a client's socket buffer
  FirstFd,        \* lowest descriptor free when the hub starts
  MaxNodes,       \* MAX_NODES
  MaxSlots,       \* MAX_SERVER_FDS
  GenMod          \* 2 ^ 16: fd_generation is an unsigned short

ASSUME HubAssumption ==
  /\ Station # {}
  /\ MaxSessions \in Nat /\ MaxPkts \in Nat /\ FirstFd \in Nat
  /\ Cap \in Nat \ {0} /\ MaxNodes \in Nat \ {0}
  /\ MaxSlots \in Nat \ {0}
  /\ GenMod \in Nat /\ GenMod > 2 /\ GenMod % 2 = 0

Session == 1 .. MaxSessions
Packet  == 1 .. MaxPkts
Slot    == 0 .. MaxSlots - 1
Fd      == 0 .. FirstFd + MaxSessions
LISTEN  == 0                                 \* the listening socket
FREE    == -1
NONODE  == 0

VARIABLES
  (* the clients and the kernel *)
  station,        \* station[s]: the process whose connection s is
  phase,          \* phase[s]: "new", "queued", "accepted" or "closed" (by the hub)
  alive,          \* alive[s]: the client has its end open
  path,           \* path[c]: the name of station c's socket exists
  backlog,        \* sessions connected, not yet accepted
  files,          \* files[f]: what the hub's descriptor f is
  up,             \* up[s]: packets the client wrote, not yet read by the hub
  unread,         \* unread[s]: number of packets in the client's buffer
  (* the hub *)
  fd_list, fd_generation,
  nodes,          \* the vector, a sequence of nodes (named by their session)
  index, nodefd,  \* the fields of a node
  cast,           \* broadcast in progress: the packet, and the node it is at
  (* history *)
  wire,           \* packets read by the hub, in order
  from,           \* from[s]: length of wire when s became a node, its client there
  heard           \* heard[s]: packets written to s, in order

client == <<station, alive, path>>
hub    == <<fd_list, fd_generation, nodes, index, nodefd>>
past   == <<wire, from, heard>>
vars   == <<station, phase, alive, path, backlog, files, up, unread,
            fd_list, fd_generation, nodes, index, nodefd, cast, wire, from, heard>>

Idle == [pkt |-> 0, at |-> 0]

-----------------------------------------------------------------------------
(***************************************************************************)
(* The clients.                                                            *)
(***************************************************************************)
Listening == \E f \in Fd : files[f] = LISTEN
Unread    == UNION {{s} \X (1 .. Len(up[s])) : s \in Session}
Written   == Len(wire) + Cardinality(Unread)

(* connect_to_server(): unlink, bind, connect. *)
Connect(c) ==
  /\ Listening
  /\ \A s \in Session : station[s] = c => ~alive[s]
  /\ \E s \in Session :
       /\ phase[s] = "new" /\ \A r \in 1 .. s - 1 : phase[r] # "new"
       /\ station' = [station EXCEPT ![s] = c]
       /\ phase' = [phase EXCEPT ![s] = "queued"]
       /\ alive' = [alive EXCEPT ![s] = TRUE]
       /\ backlog' = Append(backlog, s)
  /\ path' = [path EXCEPT ![c] = TRUE]
  /\ UNCHANGED <<files, up, unread, hub, cast, past>>

(* The client closes its socket, or dies. *)
HangUp(s) ==
  /\ alive[s]
  /\ alive' = [alive EXCEPT ![s] = FALSE]
  /\ UNCHANGED <<station, path, phase, backlog, files, up, unread, hub, cast, past>>

Send(s) ==
  /\ alive[s] /\ phase[s] # "closed"
  /\ Written < MaxPkts
  /\ up' = [up EXCEPT ![s] = Append(@, Written + 1)]
  /\ UNCHANGED <<client, phase, backlog, files, unread, hub, cast, past>>

Receive(s) ==
  /\ alive[s] /\ unread[s] > 0
  /\ unread' = [unread EXCEPT ![s] = @ - 1]
  /\ UNCHANGED <<client, phase, backlog, files, up, hub, cast, past>>

-----------------------------------------------------------------------------
(***************************************************************************)
(* fd_list (transport.c).  A slot whose fd is 0 is free.                   *)
(***************************************************************************)
Empty == [fd |-> 0, generation |-> 0, server |-> NONODE,
          accepts |-> FALSE, reads |-> FALSE]

FreeSlots == {i \in Slot : fd_list[i].fd = 0}
Lowest(S) == CHOOSE i \in S : \A j \in S : i <= j
NewFd(kernel) == Lowest({f \in Fd : f >= FirstFd /\ kernel[f] = FREE})

(* fd_add(): the first free slot, with the next generation that is not 0.  *)
Generation == IF fd_generation = 0 THEN 1 ELSE fd_generation
Next16(g)  == (g + 1) % GenMod

(* A slot's context is (generation << 16) | index in an int, so that       *)
(* context >> 16 is the generation as a signed number.                     *)
SignExtend(g) == IF g >= GenMod \div 2 THEN g - GenMod ELSE g

(* fd_context_valid(), of the context of slot i. *)
fd_context_valid(i) == fd_list[i].generation = SignExtend(fd_list[i].generation)

(* Mutant of fd_remove: the handlers are cleared and the fd is kept. *)
fd_removeKeeps(i) ==
  [fd_list EXCEPT ![i].generation = 0, ![i].accepts = FALSE, ![i].reads = FALSE]

(* fd_remove() clears the fd and the generation, nothing else. *)
fd_remove(i) == [fd_list EXCEPT ![i].fd = 0, ![i].generation = 0]

-----------------------------------------------------------------------------
(***************************************************************************)
(* nodes (node.c).  index and nodefd live in the node.                     *)
(***************************************************************************)
(* Mutant of Full: one node too many. *)
FullLate == Len(nodes) > MaxNodes

(* node_new() fails. *)
Full == Len(nodes) >= MaxNodes

node_new(s, fd) ==
  /\ nodes' = Append(nodes, s)
  /\ index' = [index EXCEPT ![s] = Len(nodes)]
  /\ nodefd' = [nodefd EXCEPT ![s] = fd]

(* Mutant of node_destroy: the nodes pulled up keep their index. *)
node_destroyStale(s) ==
  LET i == index[s]
  IN  /\ nodes' = [j \in 1 .. Len(nodes) - 1 |->
                     IF j <= i THEN nodes[j] ELSE nodes[j + 1]]
      /\ UNCHANGED index

(* node_destroy(): pull up the vector and renumber what was pulled up. *)
node_destroy(s) ==
  LET i == index[s]
  IN  /\ nodes' = [j \in 1 .. Len(nodes) - 1 |->
                     IF j <= i THEN nodes[j] ELSE nodes[j + 1]]
      /\ index' = [n \in Session |->
                     IF \E j \in i + 2 .. Len(nodes) : nodes[j] = n
                     THEN index[n] - 1 ELSE index[n]]

(* node_close(), called by fd_close(i). *)
node_close(i) ==
  IF fd_context_valid(i) THEN node_destroy(fd_list[i].server)
  ELSE UNCHANGED <<nodes, index>>

-----------------------------------------------------------------------------
(***************************************************************************)
(* The handlers fd_poll() dispatches to.                                   *)
(***************************************************************************)
Polled(i) == cast = Idle /\ fd_list[i].fd # 0

(* server_accept_upcall() on the listening socket in slot i.               *)
(* The name of the client is gone: the new descriptor is forgotten.        *)
AcceptNameless(i) ==
  LET s == Head(backlog)
  IN  /\ ~path[station[s]]
      /\ files' = [files EXCEPT ![NewFd(files)] = s]
      /\ phase' = [phase EXCEPT ![s] = "accepted"]
      /\ backlog' = Tail(backlog)
      /\ UNCHANGED <<client, up, unread, hub, cast, past>>

(* No room in nodes: the upcall fails, and fd_read() closes the listening  *)
(* socket; the clients still in the backlog are disconnected.              *)
AcceptFull(i) ==
  LET s == Head(backlog)
      refused == {backlog[j] : j \in 1 .. Len(backlog)}
  IN  /\ path[station[s]] /\ Full
      /\ path' = [path EXCEPT ![station[s]] = FALSE]
      /\ phase' = [r \in Session |-> IF r \in refused THEN "closed" ELSE phase[r]]
      /\ backlog' = <<>>
      /\ files' = [files EXCEPT ![fd_list[i].fd] = FREE]
      /\ fd_list' = fd_remove(i)
      /\ UNCHANGED <<station, alive, up, unread, fd_generation, nodes, index,
                     nodefd, cast, past>>

(* A new node, and a slot for it if there is one. *)
AcceptNode(i) ==
  LET s  == Head(backlog)
      fd == NewFd(files)
  IN  /\ path[station[s]] /\ ~Full
      /\ path' = [path EXCEPT ![station[s]] = FALSE]
      /\ phase' = [phase EXCEPT ![s] = "accepted"]
      /\ backlog' = Tail(backlog)
      /\ files' = [files EXCEPT ![fd] = s]
      /\ node_new(s, fd)
      /\ from' = IF alive[s] THEN [from EXCEPT ![s] = Len(wire)] ELSE from
      /\ IF FreeSlots = {} THEN UNCHANGED <<fd_list, fd_generation>>
         ELSE /\ fd_list' = [fd_list EXCEPT ![Lowest(FreeSlots)] =
                               [@ EXCEPT !.fd = fd, !.generation = Generation,
                                         !.server = s, !.reads = TRUE]]
              /\ fd_generation' = Next16(Generation)
      /\ UNCHANGED <<station, alive, up, unread, cast, wire, heard>>

Accept(i) ==
  /\ Polled(i) /\ fd_list[i].accepts /\ files[fd_list[i].fd] = LISTEN
  /\ backlog # <<>>
  /\ AcceptNameless(i) \/ AcceptFull(i) \/ AcceptNode(i)

(* node_stream_reader() of slot i: a packet, to be written to every node. *)
ReadPacket(i) ==
  LET s == files[fd_list[i].fd]
  IN  /\ Polled(i) /\ fd_list[i].reads
      /\ s \in Session /\ up[s] # <<>>
      /\ up' = [up EXCEPT ![s] = Tail(@)]
      /\ wire' = Append(wire, Head(up[s]))
      /\ cast' = IF nodes = <<>> THEN Idle ELSE [pkt |-> Head(up[s]), at |-> 1]
      /\ UNCHANGED <<client, phase, backlog, files, unread, hub, from, heard>>

(* ... or the end of the stream: fd_close(). *)
ReadEnd(i) ==
  LET s == files[fd_list[i].fd]
  IN  /\ Polled(i) /\ fd_list[i].reads
      /\ s \in Session /\ up[s] = <<>> /\ ~alive[s]
      /\ node_close(i)
      /\ files' = [files EXCEPT ![fd_list[i].fd] = FREE]
      /\ phase' = [phase EXCEPT ![s] = "closed"]
      /\ fd_list' = fd_remove(i)
      /\ UNCHANGED <<client, backlog, up, unread, fd_generation, nodefd, cast, past>>

(* Mutants of Through: the last node is passed over; a write error ends    *)
(* the loop.                                                               *)
ThroughShort(i) == i >= Len(nodes) - 1
ThroughDead(i)  == LET t == files[nodefd[nodes[i]]]
                   IN  i >= Len(nodes) \/ t \notin Session \/ ~alive[t]

(* The loop over nodes is done. *)
Through(i) == i >= Len(nodes)

(* One writev() of the broadcast.  It blocks while the client's buffer is  *)
(* full; an error is logged, no more.                                      *)
Relay ==
  LET t == files[nodefd[nodes[cast.at]]]
  IN  /\ cast # Idle
      /\ \/ /\ t \in Session /\ alive[t] /\ unread[t] < Cap
            /\ heard' = [heard EXCEPT ![t] = Append(@, cast.pkt)]
            /\ unread' = [unread EXCEPT ![t] = @ + 1]
         \/ /\ t \notin Session \/ ~alive[t]
            /\ UNCHANGED <<heard, unread>>
      /\ cast' = IF Through(cast.at) THEN Idle ELSE [cast EXCEPT !.at = @ + 1]
      /\ UNCHANGED <<client, phase, backlog, files, up, hub, wire, from>>

-----------------------------------------------------------------------------
Init ==
  /\ station = [s \in Session |-> CHOOSE c \in Station : TRUE]
  /\ phase = [s \in Session |-> "new"] /\ alive = [s \in Session |-> FALSE]
  /\ path = [c \in Station |-> FALSE]
  /\ backlog = <<>>
  /\ files = [f \in Fd |-> IF f = FirstFd THEN LISTEN ELSE FREE]
  /\ up = [s \in Session |-> <<>>] /\ unread = [s \in Session |-> 0]
  /\ fd_list = [i \in Slot |->
                  IF i = 0 THEN [Empty EXCEPT !.fd = FirstFd, !.generation = 1,
                                              !.accepts = TRUE]
                  ELSE Empty]
  /\ fd_generation = 2
  /\ nodes = <<>>
  /\ index = [s \in Session |-> 0] /\ nodefd = [s \in Session |-> 0]
  /\ cast = Idle
  /\ wire = <<>>
  /\ from = [s \in Session |-> 0] /\ heard = [s \in Session |-> <<>>]

Next ==
  \/ \E c \in Station : Connect(c)
  \/ \E s \in Session : HangUp(s) \/ Send(s) \/ Receive(s)
  \/ \E i \in Slot : Accept(i) \/ ReadPacket(i) \/ ReadEnd(i)
  \/ Relay

Spec == Init /\ [][Next]_vars

(* fd_poll() comes to every ready descriptor, and every client reads what  *)
(* is in its buffer.  No client has to connect, send or hang up.           *)
FairSpec ==
  /\ Spec
  /\ \A i \in Slot : WF_vars(Accept(i)) /\ WF_vars(ReadPacket(i) \/ ReadEnd(i))
  /\ WF_vars(Relay)
  /\ \A s \in Session : WF_vars(Receive(s))

-----------------------------------------------------------------------------
(***************************************************************************)
(* Properties.                                                             *)
(***************************************************************************)
(* Every variable keeps its type; nodes has no more entries than the C     *)
(* array, and generations stay 16 bits wide.                               *)
TypeOK ==
  /\ station \in [Session -> Station] /\ alive \in [Session -> BOOLEAN]
  /\ phase \in [Session -> {"new", "queued", "accepted", "closed"}]
  /\ path \in [Station -> BOOLEAN]
  /\ backlog \in Seq(Session)
  /\ files \in [Fd -> {FREE, LISTEN} \cup Session]
  /\ up \in [Session -> Seq(Packet)] /\ unread \in [Session -> 0 .. Cap]
  /\ fd_list \in [Slot -> [fd : Fd, generation : 0 .. GenMod - 1,
                           server : Session \cup {NONODE},
                           accepts : BOOLEAN, reads : BOOLEAN]]
  /\ fd_generation \in 0 .. GenMod - 1
  /\ nodes \in Seq(Session) /\ Len(nodes) <= MaxNodes
  /\ index \in [Session -> 0 .. MaxNodes - 1] /\ nodefd \in [Session -> Fd]
  /\ cast \in [pkt : Packet \cup {0}, at : 0 .. MaxNodes]
  /\ wire \in Seq(Packet) /\ from \in [Session -> Nat]
  /\ heard \in [Session -> Seq(Packet)]

Reader(i, s) == /\ fd_list[i].fd # 0 /\ fd_list[i].reads /\ fd_list[i].server = s

(* The node vector and the poll list agree: a node knows its own place in  *)
(* the vector, has one slot, and its descriptor is its client's; a slot    *)
(* that is read has its node.  node_destroy renumbers, fd_close and the    *)
(* accept upcall undo and do both sides.                                   *)
Registered ==
  /\ \A j \in 1 .. Len(nodes) :
       LET n == nodes[j]
       IN  /\ index[n] = j - 1
           /\ files[nodefd[n]] = n
           /\ \E i \in Slot : Reader(i, n) /\ fd_list[i].fd = nodefd[n]
  /\ \A i \in Slot : fd_list[i].fd # 0 /\ fd_list[i].reads =>
       /\ \E j \in 1 .. Len(nodes) : nodes[j] = fd_list[i].server
       /\ \A k \in Slot : Reader(k, fd_list[i].server) => k = i

(* The hub is one wire: all its clients hear the same packets in the same  *)
(* order, each once, from the moment they are accepted until they leave.   *)
Wire == INSTANCE Lan WITH
          Tap <- Session,
          tap <- [s \in Session |-> IF nodefd[s] = 0 THEN "free"
                                    ELSE IF alive[s] THEN "on" ELSE "off"]
IsLan == Wire!Spec

Attached(s) == \E i \in Slot : Reader(i, s)

(* The name s was bound to had been removed when an earlier session of the *)
(* same station was accepted.                                              *)
Overtaken(s) == /\ ~path[station[s]]
                /\ \E r \in 1 .. s - 1 : station[r] = station[s] /\ nodefd[r] # 0

(* A client that connects and stays becomes a node, unless an accept of an *)
(* earlier connection of the same process took its name away, or the hub   *)
(* has closed its listening socket for want of a node.                     *)
Served ==
  \A s \in Session : (phase[s] = "queued") ~>
    (Attached(s) \/ ~alive[s] \/ Overtaken(s) \/ ~Listening)

(* A client that stays hears every packet that comes onto the wire.        *)
Relayed ==
  \A s \in Session : \A n \in 1 .. MaxPkts :
    (Attached(s) /\ Len(wire) >= n /\ n > from[s])
      ~> (~alive[s] \/ Len(heard[s]) >= n - from[s])

(* "callback routine called when an socket is closed down; resets the      *)
(* state of the client object and erases the client" (node_close,          *)
(* node.c:93): a node's descriptor is that of its client, never one closed *)
(* or given to another client since.                                       *)
ClosedIsErased ==
  \A j \in 1 .. Len(nodes) : files[nodefd[nodes[j]]] = nodes[j]
=============================================================================
