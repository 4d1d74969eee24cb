# A TLA+ verification development for CADR's Chaosnet and simulator

The repository holds two programs that talk to each other: `chaos/`, a Chaosnet
in user space (a hub, an NCP with a FILE server behind it, test clients), and
`usim/`, a simulator of the CADR Lisp machine whose Chaosnet interface is one
more client of the hub.  This directory models the network from the hub to the
FILE server's disk, and the simulator from the host's keyboard to the microcode;
it checks the models with TLC on small instances, and proves the main safety
properties of a connection, its queues, the hub, the network interface and the FILE
server with TLAPS for all values of the parameters.

Run a check with `tlc -config <run>.cfg <module>`, a proof with `tlapm <module>.tla`.

## The system

| Component | State | Operations | What is hard |
|---|---|---|---|
| Hub: `chaosd.c`, `transport.c`, `node.c` | `fd_list`, `fd_generation`, `nodes` | accept, read a packet, write it to every node, close | clients that vanish between two writes, reconnects, tables that fill, a generation counter that wraps |
| NCP: `chaos.c`, `ncp.c`, `ncp.h` | `chaos_conntab`, the queues of every connection, listen and RFC lists, routes | `ch_open`, `ch_listen`, `ch_accept`, `ch_write`, `ch_read`, `ch_close`, `rcvpkt` | reordered, repeated and lost packets, windows, 16-bit numbers, late packets of a dead connection |
| NCP clock: `clock.c` | `chaos_clock` | `ch_clock`: retransmit, probe, give up | not linked into any program |
| Server process: `server.c`, `chlib.c` | `child_conn`, the control and data sockets of the FILE child | poll loop, `server_input`, `read_child_data`, `read_child_ctl` | one process, blocking writes in both directions, upcalls from the receive path |
| FILE server: `FILE.c`, `glob.c` | transactions, file handles, transfers, the files themselves | login, data connections, open, close, reposition, rename, delete, list, complete, properties | one process a transfer, a signal that interrupts it anywhere, two pipes, marks between control and data, a superseded file |
| usim Chaosnet interface: `usim/chaos.c` | CSR, receive and transmit buffers, the socket to the hub | register reads and writes, poll, reconnect | a packet that arrives while the guest reads the last, reconnects |
| usim I/O board, interrupts: `iob.c`, `ucode.c` | interrupt status register, TV and keyboard CSR | register access, device events, the 60 Hz signal | two devices behind one bit, a signal handler that stores what the loop stores |
| usim disk: `disk.c` | command, status, address, the delayed interrupt, the image | registers, start, a chain of blocks | a late interrupt, addresses that carry over from block to head to cylinder |
| usim keyboard: `kbd_new.c`, `sdl.c` | shift keys, a queue, one register | a key of the host, a poll, a read of the guest | events that go past the queue or through it, shifts simulated around a key |
| usim engine: `ucode.c` | two level map, both stacks, the instruction fetched ahead, location counter, ALU, microcode | one microinstruction | what is executed after a jump, where a return goes, widths, carries, page faults |

The hub writes every packet it reads to all its clients.  A server process and
`usim` are such clients.  In the server process `chaos_poll()` hands each packet
to `rcvpkt()`; data that comes in order is passed to the FILE child by
`server_input()`, called from inside `rcvdata()`, and what the child writes goes
out through `ch_write()`.  In `usim` the other end of the connection is the
NCP of the Lisp machine, which speaks the same protocol.

The properties that make the parts correct:

* a connection is a reliable channel: what one user writes the other is handed,
  in order, without gap or repetition; nothing that may have to be sent again is
  freed; the window is respected and always opens again; both ends come up and
  go down together;
* the packet queues never lose, share or free twice a buffer, and stay in the
  order their loops rely on;
* the hub is one wire: all clients hear the same packets in the same order;
* the interface announces every packet it holds, never overwrites one that is
  being read, never leaves the hub waiting for nothing, and gets its connection
  back;
* the FILE server loses and doubles no byte, answers every command once, has a
  handle free when it says so, and never loses a file that is being superseded;
* the engine computes what the microcode says, whatever is fetched ahead; the
  devices' interrupts and the keys all reach the guest.

## Modules

| Module | Models |
|---|---|
| `ChaosConn` | one connection, both ends and the network between them |
| `Channel` | what a connection promises its users: the abstract specification that `ChaosConn` implements (`IsChannel`) |
| `ChaosConnProofs`, `ChaosConnChannel` | theorems about `ChaosConn` and their proofs |
| `PacketList`, `PacketQueues` | the buffers of one connection and the chains `cn_thead`, `cn_rhead`, `cn_routorder` |
| `PacketListProofs`, `PacketQueuesProofs` | chains as sequences: lemmas; theorems about `PacketQueues` and their proofs |
| `ChaosHub` | chaosd: poll slots, nodes, accept, broadcast, and the clients' side of the sockets |
| `ChaosHubProofs` | theorems about `ChaosHub` and their proofs |
| `Lan` | one wire with taps: the abstract specification that `ChaosHub` implements (`IsLan`) |
| `ChaosIface` | the Chaosnet interface of usim: registers, buffers, connection to the hub |
| `ChaosIfaceProofs` | theorems about `ChaosIface` and their proofs |
| `FileDisk` | the host's file system as `FILE.c` uses it |
| `FileCommands`, `FileNames` | the command table, options and arguments; pathnames, wild names, completion |
| `FileState`, `FileXfer`, `FileControl`, `FileManage` | what the server's processes share; a transfer process; the control process; the commands on names |
| `FileServer` | the server with its user: composition, fairness, properties |
| `FileServerProofs` | theorems about `FileServer` and their proofs |
| `UsimWords`, `UsimAlu` | words of 32 bits; what the data path computes |
| `UsimState`, `UsimBus`, `UsimDisk`, `UsimKbd` | the simulator's state; memory and registers and interrupts; the disk controller; the keyboard |
| `UsimEngine` | the instruction loop, composed with the devices it polls |
| `UsimProofs` | a theorem about the keyboard and its proof |
| `MCConn`, `MCPacketQueues`, `MCHub`, `MCIface`, `MCFile`, `MCUsim` | instances for TLC |

### ChaosConn

`conn[e]` is `struct connection` of end `e`; its fields have the names of the
code without `cn_`.  `thead` and `routorder`, which the code keeps sorted by
packet number, are sets; `rhead` is a sequence.  `lsn` and `rfcq` say whether
the end's listen packet is on `chaos_lsnlist` and an RFC on `chaos_rfclist`.
`net` is a set of packets: a packet may overtake another, with `Dup` it stays
and may come again, with `Lossy` it may vanish.

Every call of the user interface is an action (`Open`, `Listen`, `Accept`,
`Write`, `Close`, `UserRead`), every branch of `rcvpkt()` is one
(`RcvOPN`, `RcvInOrder`, `RcvSTS`, ...), and `ChClock` is a call of
`ch_clock()`.  A handler is one action with all it calls: `RcvInOrder` receipts,
moves everything that is now in order and calls `INPUT`; `Accept` reads the RFC,
perhaps sends an STS, and sends the OPN.  One handler is not atomic in the
program: `server_input()` writes to the child between two reads, and that write
may block while the network goes on.  It is a loop of `ServerInput` actions, and
`input` keeps the process from doing anything else meanwhile.

Left out of `ChaosConn`: uncontrolled data (its queue is in `PacketQueues`),
connections answered with ANS or FWD, broadcast RFCs, the contact names that the
NCP answers itself or starts a child for (`chaos.c:825`, the FILE server's among
them: an RFC finds a listener or waits for one), and `writev` failures
(`PacketQueues` has them: the packet is neither sent nor kept).  `MaxPkts` keeps
the numbers of a connection in the first half turn of the circle;
`PacketQueues` starts just below the wrap instead.

### PacketQueues

`next` and `num` are the fields `pk_next` and `pk_pkn` of every buffer.
`xmitdone`, `receipt`, `chretran`, `Accept` and `Early` (the two halves of
`rcvdata`), `Uncontrolled`, `End` (`clsconn`) and `Read` walk and relink the
chains as the loops of the code do.  The properties `Unreceipted` and `Stored`
say that the chains are the sets and the sequence of `ChaosConn`.

### ChaosHub

`fd_list`, `fd_generation` and `nodes` are the variables of the code, `index`
and `nodefd` the fields of a node; `files` is the hub's descriptor table in the
kernel.  A session is one connection of a client process (`station`); all
sessions of a process bind the same name, which `server_accept()` looks up and
removes.  `Accept` has three outcomes: no name (the descriptor is forgotten),
no room in `nodes` (the listening socket is closed), a new node.  `ReadPacket`
starts a broadcast, and each `Relay` is one `writev`: it waits while the
client's buffer is full.  Not modelled: starting the server process, signals,
and a client that does not read because it is blocked in its own write.

### ChaosIface

The simulator is one thread, so a register access of the guest and a poll are
one action each, in any order.  `chaos_csr` is the set of bits that are on,
`rcv` holds the receive buffer's packet with `chaos_rcv_buffer_size`, `_ptr`,
`_empty` and the bit count, which the code sets at four places that must agree.
`xmit` is what the guest has put so far.  `interrupt_status` is the unibus half
of the register in `ucode.c`.  On the connection's side `files`, `sock` and
`chaos_fd` are the descriptors of the process: `close(0)` closes the standard
input, and `socket()` takes the lowest free number.  The five seconds between
attempts are a flag that time sets again (`rested`).  A write to a connection
that chaosd has closed kills the process, as SIGPIPE does.  Left out: what is in
the words of a packet; the lost count, which nothing increments as the code is
compiled; a failing `poll()`; a transmission before the first word is put, for
which the code reads in front of its buffer.

### FILE server

The server of a user is a control process and, for every file, listing or
property list being moved, a transfer process that it has forked.  They share
the disk, the control connection, a pipe on which a transfer says that it is
done (`ctlpipe`), and for each transfer a pipe with its commands and a SIGHUP.
`main` is the control process: it checks the pipe (`getwork`), reaps, reads a
command, checks again and performs it; a command on a transfer is sent to its
process (`sendcmd`) and a signal after it.  An element of `xfers` is a transfer:
its fields are those of `struct xfer`, `pc` says where its loop is, `handler` and
`masked` what a SIGHUP does to it now.

A transfer's step is one call that other processes can see: a read or write of
the disk or the net, a command taken from the pipe, each link, unlink and rename
by which a file is superseded (`xclose`, `backfile`), the announcement, the
answer.  Between any two of these the signal may come; it leaves what was being
done by `longjmp`, as `interrupt()` does, and a packet in hand is gone
(`spoiled`).  On Linux the handler's `longjmp` also leaves SIGHUP blocked, so a
second one does nothing: after a FILEPOS has interrupted a reader, the signal of
its CLOSE is not taken.  `MaskRestored` is the other case.  The control process
drops a transfer when it announces itself; one that it has dropped and that
announces itself again (a failed listing that then got a CLOSE) ends it
(`xflush`).

Commands are parsed by `parseargs` from sequences of characters and words, as a
misplaced option is refused by the parser and not by the handler.  Pathnames are
sequences of components of characters: `dcanon` removes `.` and `..`, `~` is the
home directory, and `*`, `?`, `[...]` match as `glob.c` does.  `FileDisk` has
directories, names, permissions, dates and contents, and the ways a call fails
that the code tells apart; it is the host's and not in the repository.  The user
is a script of several threads (`say`, `hear`, `put`, `drain`), whose commands have
numbers of their own (`ScriptAssumption`: the number is how the user knows which of
them an answer is for).  CHANGE-PROPERTIES takes one step for each property: one
system call on the file's name, and a date is then sent to the transfer (`Tell`), so
that a transfer may supersede the file in between.  `faults` holds
the failures that may still come: a full disk, a lost data connection, a fork or
a connection that fails.

What is computed from an undefined value in the code, or after its memory is
freed, ends the control process (`Dead`) where the build does end there: an
unknown command (`FILE.c:568`), RENAME and CHANGE-PROPERTIES of a handle
(`:2604`, `:3146`), PROBE-DIRECTORY (`:1396`), COMPLETE of a name without a type
(`:2898`).

Left out: the values in a property list and how a date is written, disk usage
(`getspace`), `{a,b}` in wild names, the `SELECT` variant that the Makefile does
not build; a write to the disk that takes part of a buffer, which the code takes
for all of it (`FILE.c:4266`: bytes are lost without an error, so `Conserved`
supposes a disk that takes a buffer or fails); a data packet from the user that
is empty or has an opcode other than data, EOF and SYNC mark
(`FILE.c:4341`-`4350`).

### usim

`at` is the step of the instruction loop that comes next.  One turn of the loop
is `poll` (the disk), `fetch`, `source`, `operate`, `write`, `popj`, with `read`
or `store` between two of them when memory is accessed.  Only the signal handler
runs between steps (`Tick`), so the steps are cut where its stores matter:
`set_interrupt_status_reg()` computes its argument, stores the register, then
the pending flag, in three steps (`Stage`, `StoreStatus`, `StoreFlag`), and
dismissing the clock is two: its two stores of `tv_csr` are one step, as a tick
between them is taken away again with its interrupt, as if it had not come.

A word is the set of the positions of its one bits, so that all 32 bits are
there and a field is `Field(w, first, last)`; sums ripple.  An instruction is
such a set of 48 bits.  `UsimAlu` follows the C expressions rather than what a
CADR would do: `m_src_value` is an `int`, the carry of most operations is bit 32
of a 64-bit sum of sign-extended words, that of `add32` and `sub32` is an
unsigned comparison.

`cpu` are the registers, `pipe` the program counter with the instruction already
fetched, `mem` the memories of the processor, `ram` the pages of physical memory
in the order in which they were made (a write past the end of a page lands in
the page made next), `disk` and `pack` the controller and the image, `iob` and
`host` the keyboard at both ends.  Memories are functions on what has been
written, the rest is zero.  A transfer of the disk is made whole while the guest
starts it, block after block along the command list, as the code does; only its
interrupt is late.

An instance is a list of programs: microcode in the PROM, the contents of the
memories and of the disk, keys, and what must have been computed at the halt.
`MCUsim` has an assembler of a few operators for them.

Left out: tracing, breakpoints, statistics, saved states, warm boot, the mouse,
the beep, the microsecond clock, drawing, the tables of keys, the swapped byte
order of an image, and the Chaosnet's registers, which are `ChaosIface`.  Not
run, because the source leaves open what they do: M sources and ALU functions
without a case, a destination past the end of A memory, a command list or its
pages outside memory.  The instruction fetched ahead and the skip flag are
automatic variables of the loop's body; the model takes them to keep their
values from turn to turn, as every build that runs does.

## Runs

| Run | Question | Bounds |
|---|---|---|
| `MCConnSafe` | safety and refinement of `Channel`, reordering and duplicates | window 3, 3 numbered packets an end |
| `MCConnHostile` | nothing forgotten, no more than a window buffered: a writer that ignores the window, loss, a clock at the user's end | window 2, 4 packets |
| `MCConnLive` | liveness without loss and without a clock, as the server is linked; the user may close at any time | window 3, 5 packets, so that the window closes and opens again |
| `MCConnLossy` | delivery over a lossy network with the clock running | 2 packets an end |
| `MCConnDupRFC` | a disagreement of comment and code, see below | 1 packet an end |
| `MCPacketQueues` | the list loops | 4 buffers, 3 packets written and 4 received, fewer of both together (`Together`), window 4, numbers that wrap after 2 |
| `MCHub` | the hub, safety, refinement of `Lan` and liveness | 3 sessions of 2 processes, 2 nodes, 2 packets, a buffer of 1 |
| `MCHubWrap` | the generation counter past half its range, see below | generations modulo 8 |
| `MCIface` | the interface with any guest and a chaosd that comes and goes | packets of 3 words, 1 in the socket, 2 polls between attempts |
| `MCIfaceStdin` | the connection made after a reset, see below | the same |
| `MCFile` | the FILE server: no byte lost, answers, handles, superseded files | 28 scripts, of up to 11 commands, 1 or 2 threads and 1 or 2 failures; 2 bytes a buffer and a packet, 1 packet queued each way |
| `MCUsim` | the simulator's programs | 69 programs; a disk interrupt 3 polls late, a key queue of 6 |

Why these bounds are enough to see the interesting cases.  With window 3 and
three packets in each direction a packet can be early by one and by two, repeated
before and after it was read, and acknowledged out of order; `ch_read()` tells
the peer after two reads, so the writer of five packets meets a closed window
and needs an STS to go on.  A window of 2 or 1 is not a healthy configuration:
`ch_accept()` then sends an STS ahead of the OPN (`HealthyStaysOpen` says so).
Four buffers let three chains be non-empty at once.  Three packets written let
an insertion into `thead` happen at the front, in the middle and at the end;
four received, with the window of 4, let three packets wait on `routorder` and
one be inserted between two others there.  A state constraint bounds both
directions together: the most of either come with one of the other, and two with
two.  Two nodes and three sessions are the
least with which a node is pulled up and renumbered, and with which the vector
is full for one client too many.  In `MCIface` one packet in the buffer and one
behind it in the socket are enough for a packet to be overwritten, and three
words for a first, a middle and a last read; the guest has a CSR value for every
branch of `chaos_set_csr()`.  `Quiet` bounds the clock: it ticks when fewer
than that many packets are in the network, which bounds the copies in flight and
not their order.

In `MCFile` a buffer and a packet of two bytes make every file of six bytes
several of both, so that a transfer is interrupted before, in and between them;
one packet in a direction fills the net.  The scripts cover each command, each
option that changes control, each failure, one file read and written at once,
and one superseded twice at once.  In `MCUsim` the program runs at full width
and nothing of the engine is scaled down; the interrupt of the disk is 3 polls
late instead of 2500, which lets the clock's tick fall before, into and after
everything that a turn does, and the queue holds 6 of the events instead of 10,
which is more than one key with its simulated shifts produces.

Deadlock is not checked: users may stop, and a bounded run always does.

### Fairness

`FairSpec` of `ChaosConn`: `chaos_poll()` reads the socket as long as packets
come, `server_input()` goes on as long as its child reads, a listening user
accepts, a reading one reads.  Nobody has to open, write or close.
`FairLossySpec` adds what loss needs: the network delivers a kind of packet that
is put into it again and again (strong fairness for each kind), and the clock
comes to every old packet.  `FairSpec` of `ChaosHub`: `fd_poll()` comes to every
ready descriptor, and every client reads its buffer.  The last is a real
assumption: the hub's writes block, and one client that stops reading stops
everybody.  `FairSpec` of `ChaosIface`: the instruction loop polls for ever and
time passes; nothing is asked of the guest or of chaosd.  `FairSpec` of
`FileServer`: each process that can go on does, and the user does what its script
says; for the server's processes weak fairness is written out as "again and
again it cannot, or again and again it moves", because what moves a process is
what changes its record.  `Spec` of `UsimEngine`: the loop goes on until it
halts, the timer ticks, and the keyboard is polled again and again, as it is every
65536 turns; written out in the same way.

### What the runs show

A connection delivers in order, exactly once, and forgets nothing, also with a
peer that ignores the window and a network that loses packets; it implements
`Channel`.  Without loss it comes up, moves all data through any number of
window openings and goes down at both ends, without any clock.  With loss it
does so only with the clock, which the programs of the Makefile do not link.
`OpenCompletes` has an exception the code needs: `ch_close()` of a listener
leaves it in CSLISTEN, withdrawn for good.  The hub's
clients hear one wire.  `Served` has two exceptions the code needs: a client
whose name was removed when its earlier connection was accepted (it reconnected
before the hub came to it) is never served, and a client too many makes the hub
close its listening socket for good.

The interface announces and keeps a packet from the network until it has been
read, and takes the next as soon as the buffer is free.  `Untorn` is stated of
packets from the network because one that the guest sends to itself between a
reset and the reconnection is not kept: `chaos_init()` marks the buffer empty.
`Reconnects` is stated of a simulator that has not been killed by SIGPIPE and
whose descriptor 0 is open; both happen in the model.

The FILE server keeps every byte in order through commands and interrupts,
unless the interrupt falls into a packet, or the disk or the net fails.  It
interrupts a writing transfer on CLOSE as well, although the comment at
`FILE.c:2133` says that such a CLOSE "can truly be queued": the packet in hand
is lost then, and if it was the SYNC mark the CLOSE is never answered.
`Conserved` and `AnsweredAll` leave out that transfer.

`AnsweredAll` leaves out one more (`Unsignalled`).  The comment at `FILE.c:2133`
says that a reading transfer is interrupted because the user drains its data only
after the CLOSE is answered, and it would otherwise wait for room in the net for
ever.  With SIGHUP left blocked by an earlier FILEPOS that is what happens: the
CLOSE lies in the pipe of a transfer that waits for the user, who waits for the
answer.  The two `Reposition` scripts have the user drain after the answer and
before it; in the first, without the exception, TLC finds the deadlock.  With
`MaskRestored = TRUE` the property holds without the exception.

A superseded file is under its name or its backup's at every step of the
exchange, but two transfers that supersede the same file at once may leave it
without a name (`VersionKept` says one).  A failed listing announces itself after
its answer, so a command that was sent to it meanwhile stays unanswered.

The engine's programs halt with what the references compute: the products and
quotients of the multiply and divide steps, the macro instructions of a loop in
the order of its branches in both modes of the location counter, with a page
fault in the fetch.  The divisor is positive, as the engine's divide steps ignore
the sign of A.  No tick that is lost between two stores keeps a program from
noticing the disk.  No key is lost while the queue does not overflow, and none is
left in it.

Observed while modelling, without a run of its own: the sequence break is bit 26
of a word, ORed into a `char` (`ucode.c:2697`), so it never makes a jump taken;
`disk_status` keeps its interrupt bit once set (`disk.c:384`); a fault in the
command list ends a transfer without interrupt (`disk.c:469`, "huh.  what to do
now?"); a read past the end of the image gives zeros and success (`disk.c:254`);
offsets on the Unibus are doubled when written and not when read, so the
interrupt status reads 0 (`ucode.c:501-517`); and a simulated shift waits in the
queue while a later key, finding the register free, goes ahead of it
(`kbd_new.c:167`).

Three runs end with a violation, and show a disagreement in the repository.

* `MCConnDupRFC`: the comment of `rcvrfc()` says that a duplicate RFC makes the
  server retransmit its OPN.  It retransmits what is old by `chaos_clock`, which
  never moves in `server`: when the OPN is lost, the user's repeated RFCs are
  thrown away without an answer.
* `MCHubWrap`: `node_close()` is to erase the client of a closed socket.  From
  generation 32768 on the context's generation comes back negative and the
  context is taken for a stale one: the node stays, with a closed descriptor
  that the next client gets, which then hears every packet twice.
* `MCIfaceStdin`: usim may be started before chaosd, and reconnects by itself,
  says `chaos/README`.  Started first it does not try at all until the guest
  resets the interface; the reset closes `chaos_fd`, which is 0 and so the
  standard input, and the connection made next gets descriptor 0, which
  `chaos_poll()` takes for "none".  Further resets repeat this.

## Proofs

`ChaosConnProofs` proves, from the
assumptions on the constants only (the window is positive, and `MaxPkts + RwSize`
is below half of the number circle):

| Theorem | Property |
|---|---|
| `TypeCorrect` | `TypeOK` |
| `Invariance` | the inductive invariant `IInv` |
| `InOrder` | `InOrderDelivery` |
| `ReceiptsSafe` | `ReceiptSafe` |
| `NothingLost` | `NothingForgotten` |
| `WindowKept` | `WindowRespected` |

None of these properties is inductive: they hold because of what packets in
flight say about the past.  `IInv` adds five parts to the types.  *Sender*: the
last number an end has used is the length of its history `sent`; what it
believes received and read is no more than its peer's `rlast` and `rread`; a
sender that minds the window is at most a window ahead of that; and everything
above `trecvd` is on `thead`, under the opcode it was sent with.  *Receiver*:
`rlast`, `rread`, `rhead` and the history `given` fit together, and `routorder`
holds only what the peer sent.  *InFlight*: a packet in the network has the
opcode its sender gave that number, and the acknowledgement, receipt and window
it carries are never ahead of its sender's present ones.  *Opening*: the RFC and
the OPN are the first packets of their ends, and of no other.  *Waiting*: a
listen packet belongs to a listening connection, and an RFC waits only for the
Server.  `ReceiptSafe` and `NothingForgotten` follow from *Sender*, `InOrderDelivery`
from *Receiver*, `WindowRespected` from *Sender* and *InFlight*.  Steps that change one end
(`Transmit`, `Receipt`, `Deliver`, ...) are lemmas; each action's step cites
them.  16-bit comparison is reduced to the order of the naturals once, by a lemma
that uses the bound on `MaxPkts`.

`ChaosConnChannel` proves, from the same assumptions, what a step may do:

| Theorem | Property |
|---|---|
| `MovesForward` | `Forward` |
| `BuffersBounded` | `BufferBounded` |
| `NeverStalls` | `CaptiveNeverStalls` |
| `StaysOpen` | `HealthyStaysOpen` |
| `ImplementsChannel` | `IsChannel` |

The first lemma, `Move`, sums up all actions: whatever a step does, each end
makes one of eleven *moves* (it stays, listens, is matched, establishes, delivers a run
of packets, keeps one out of order, ends, asks, accepts, writes, reads), and what it has
sent grows by at most one packet.  The theorems are then about moves and no longer
about actions.  `Forward` follows at once.  `BufferBounded` needs *Room*: what
is in order ends inside the window, and `routorder` lies beyond a gap, inside the window,
with one packet per number; sets of numbered packets are counted by injections into
intervals.  `CaptiveNeverStalls` needs *Ready*: a queue that is not empty is being
read.  `HealthyStaysOpen` needs *Steady*: when nobody closes, writes early or runs
a clock, the User is open only after the Server, and until then nothing is in the
network but its RFC and the OPN that answers it.  In `ImplementsChannel` the state of
a `Channel` is read off the ends' states and the histories `sent` and `given`: a move
is `Ask`, `Answer`, `Establish`, `Put`, `Take`, `Finish` or a stutter.

`PacketQueuesProofs` proves about the pointer loops, for any number of buffers, from
`ListAssumption` (the null pointer is no buffer) and `QueuesAssumption` (the numbers of
one run, and a window beyond, span less than half a turn of the circle, from any `Start`):

| Theorem | Property |
|---|---|
| `QueueTypes` | `TypeOK` |
| `OwnedOnce` | `BuffersOwnedOnce` |
| `TailFound` | `TailReachable` |
| `SentAscends` | `Unreceipted` |
| `StoredInOrder` | `Stored` |
| `QueueInvariance` | the inductive invariant `QInv` |

`PacketListProofs` is about chains of any kind.  `Linked(next, head, s)` says that the
chain from `head` is the sequence `s` of different buffers; lemmas say what each write
to `pk_next` makes of `s`: a buffer linked in (`LinkIn`), the front cut off
(`LinkedDrop`), a run moved from one chain behind another (`Splice`).  A loop is a
tail-recursive function, which need not end for every argument (a chain could be a
cycle); `LoopReturns` shows that such a function has a value all the same, by the relation
"reaches", and `LoopValue` that it is the value where the loop ends.  `QInv` has, besides the types,
*Chains* (each of the three is `Linked`), *Partition*, *Sending* and *Receiving*.  Numbers
are replaced by their places after `Start`, `Pos(n)`, and one lemma, `Compare`,
shows that the 16-bit comparisons of `ncp.h` are the order of places.  *Sending*:
`thead` rises between `trecvd` and `tlast`, and every place between is on it or leaked.
*Receiving*: a count that starts at what was read goes up by one at each numbered packet
of `rhead` and ends at `rlast`, whatever uncontrolled packets or ends are mixed in; `routorder`
rises and starts beyond `rlast + 1`.  There is one lemma per action.  The loop of
`rcvdata()` that moves what has come in order, and the one of `chretran()` that
resends aged buffers one by one, have an invariant of their own each (`Moves`, `Resent`).

`ChaosHubProofs` proves about the hub, from `HubAssumption` and `Sized`:

| Theorem | Property |
|---|---|
| `HubTypes` | `TypeOK` |
| `StaysRegistered` | `Registered` |
| `ErasesClosed` | `ClosedIsErased` |
| `ImplementsLan` | `IsLan` |

`Sized` says that a descriptor is never 0 (the hub runs in the foreground: with `-s`
descriptor 0 is closed first, and a slot with descriptor 0 counts as free); that
there are more slots than nodes (`MAX_NODES` is 10, `MAX_SERVER_FDS` 32); and that
the generations given out stay below the sign bit of the context.  The last one
is needed: beyond it `MCHubWrap` finds `ClosedIsErased` violated.  The inductive invariant `HubInv` adds four parts to the
types and `Registered`.  *Queueing*: connections wait in the backlog in the order
they were made.  *Untouched*: a client not accepted yet has no descriptor, and
neither the descriptors nor the generations it may be given are taken, so
the accept upcall meets no stale slot.  *Slots*: slot 0 is the listening socket's,
the others are readers', of a generation already given out.  *Casting* and
*Hearing*: the packet being written to the nodes is the last on the wire, and
every live client has heard all of the wire since it joined, less that packet when the
broadcast has not reached it.  A free slot for each new node exists because
each used slot but the first belongs to one node (an injection, by `Registered`).
`IsLan` maps a read of a packet to `Talk`, a write to a client to `Hear`, accept to
`Attach`, the end of a client to `Detach`, all else to a stutter.

`ChaosIfaceProofs` proves, from `IfaceAssumption` only (a buffer's length bounds a
packet, which has at least three words; descriptor 0 is open at the start):

| Theorem | Property |
|---|---|
| `IfaceTypeCorrect` | `TypeOK` |
| `IfaceInvariance` | the inductive invariant: `TypeOK`, `Announced`, `Consumed` |
| `AlwaysAnnounced` | `Announced` |
| `NeverTorn` | `Untorn` |

`Announced` alone is not inductive: a write of the CSR announces again whatever
the buffer holds, and were that a packet already read, its connection may be
long gone.  `Consumed` says that a packet read to its end has freed the buffer.
`Untorn` then follows: a packet from the network that is not read makes the
buffer full and excludes a pending reconnection.  The descriptor's type needs a
least element of a set of naturals; the proof takes it from the well-foundedness
of strict inclusion of finite sets.

`FileServerProofs` proves about the FILE server, for any disk, any failures and any
scripts that the assumptions admit, whatever the sizes of buffers and packets:

| Theorem | Property |
|---|---|
| `OneAtWork` | `OneTransfer` |
| `NoSecondAnswer` | `AnsweredOnce` |
| `FreeAfterClose` | `HandleFree` |
| `ServerInvariance` | the inductive invariant `IInv` |
| `ServerTypeCorrect` | `TypeOK` |

That no command is answered twice is a fact about all the places where a command can
be, so `IInv` names them.  *Tokens*: each is still to be said, on the control
connection, in the control process's hands, in the pipe of one transfer, or a CLOSE
that a transfer keeps or an answer given, and no two of these at once; every step
moves a command from one place to the next or leaves all where they are.  A CLOSE is the hard case: the transfer keeps its number in the flags and
answers long after, so *ClosedLate* says that it is answered only by a
transfer past its answer, that has been announced before.  *Tables*: a listed transfer
and its handle point at each other, an unlisted one has done its work, what is on the
control pipe is finished (`xcheck` may drop it), and a
transfer's place in its program fits its state: `interrupt()` leaves from any
of these places, so this is what keeps a transfer from being put back to
work after its CLOSE.  *Looked*: from the second look at the control pipe until the command is
performed, no listed transfer has a CLOSE answered before the command was
said; this is the order of announcement and answer in `xclose()` and of `xcheck()` and
read in `getwork()`, and `HandleFree` is its last moment.  *Mind* and *Heard* are the
types of the two ends.  There is one lemma for each call of a transfer and
each command, grouped by what the step leaves alone.

`TypeOK` of the server is more than a list of sets: that a transfer's inode is one of
the disk's files, that a handle's pair and its transfer are there, that a packet is
no longer than `CHMAXDATA`, that a position is not negative.  On top of `IInv`, its
inductive invariant `TInv` has to follow the data.  *Whole*: a transfer's
buffers are sequences, one that reads or writes has a file, and the position that
a FILEPOS in its pipe brings is a natural number.  *Wires*: what waits on a connection is
packets of known opcodes whose data are sequences, so the conversions and the
parser are applied to what they are defined for.  *Paired*: the two handles of a
data connection point at each other, and a listed transfer and its handle too.  *Counting*:
what the control process counts, and that it has parsed the number an operation
uses.  `IsDisk`: a name is of a file there is, and files have bytes.  That the disk
only grows (`unlink` removes names, never a file another process has open)
is one lemma, and lets a transfer's inode survive the steps of all others.
The assumptions are on the instances: the digits stand for naturals
(`NumberAssumption`), `Digit` is a sequence (`FileAssumption`), a script's user
puts sequences of integers on its connections, and its disk is one (`ScriptAssumption`).

`UsimProofs` proves, from `UsimAssumption` (there is a program; sizes are naturals) and
`KeyAssumption` (what the user types are key events with integer codes):

| Theorem | Property |
|---|---|
| `NoKeyLost` | `KeysKept` |

It holds for every microprogram, hence for every order of the guest's reads and
of its stores into the registers.  `KeysKept` alone is not inductive: were a key put in the register while the
guest has the keyboard's interrupt disabled, nothing would say that it is there, and
the next key would replace it.  The invariant `KeyIInv` has four parts.  *Board* and *Host* are the
types of the interface and of the host's side.  *Balanced* is `KeysKept` for every
number, posted or not.  *Waiting* says that from a poll of the keyboard to
the end of the keys it finds, the interrupt stays enabled: the stores that could
disable it belong to a turn of the loop that no poll has cut.  How often a value
is in a sequence is a cardinality, and a few lemmas say what appending, taking the head and
converting a code do to it.  The one place where a key is lost, a full queue, is in the
property's hypothesis: `host.lost` is what `iob_queue_key_events()` drops.  The model polls once
the guest has enabled the interrupt: what is typed before that is outside the theorem.

Only model-checked: all liveness properties (`OpenCompletes`, `AllDelivered`,
`NoHalfOpen`, `Served`, `Relayed`, `Pumped`, `Reconnects`, `AnsweredAll`, `Terminates`,
`KeysTaken`), which need fairness and ENABLED; of the FILE server `Conserved` and
`VersionKept`; and of the simulator `Computed`.  `Conserved` compares what was read or written
with the file's bytes, by flattening sequences of packets, an induction over data;
and it is a property of scripts that mind the protocol: two transfers on one file, or
an OPEN sent before the mark of the transfer that it follows was written, rightly break it, so it
is no theorem for every script.  `VersionKept` depends on what a script does to the file's names: one that
deletes the file it wants kept, or renames another over its backup, rightly loses it.  The reference of `Computed` is an interpreter
that runs a whole program, a recursion that the provers cannot unfold.

## Plan

1. done: `ChaosConn` with its proofs, `PacketQueues`, `ChaosHub`, `ChaosIface`
   with its proofs, the FILE server, the simulator;
2. done: proofs about the whole of `ChaosConn`'s safety, with its refinement of
   `Channel`, about the packet queues, and about the hub, with its refinement of `Lan`;
3. done: proofs about the FILE server (its handles, transfers, answers and types) and
   about the keyboard of the simulator;
4. the NCP tables: several connections over `allconn`, the listen and RFC lists,
   the FILE contact, the children of the server process, composed with
   `FileServer` over blocking sockets.

## Not modelled

The routing half of the NCP (`rcvrut`, `sendctl`, `chroutage`: one subnet without
a bridge has one route), its tables beyond one connection, uncontrolled data and
broadcasts in `ChaosConn`; in the server process the control protocol with the
child.  Not planned: logging, X11 and the older keyboard module (not built), the
key tables, the configuration, the symbol tables, the off-line tools
(`diskmaker`, `lod`, `lmfs`, `readmcr`, `macro`), which make one pass over a file
and keep no state, the text of a trace (`decode`), the WIN32 stubs, the test
clients, and `div.c` and `cadrmem.c`, which no program links.
