----------------------------- MODULE FileServer ------------------------------
(***************************************************************************)
(* The FILE server and its user.  The user is a Lisp machine: several      *)
(* processes, each of which says commands on the control connection, waits *)
(* for answers, and writes to and reads from data connections.  What they  *)
(* do, what the disk holds and which failures there may be is a script.    *)
(***************************************************************************)
EXTENDS FileXfer, FileManage

-----------------------------------------------------------------------------
(* The user *)

(* The instructions of a thread.                                           *)
Say(tid, fh, cname, args) == [do |-> "say", tid |-> tid, fh |-> fh, cname |-> cname, args |-> args]
Hear(tid)         == [do |-> "hear", tid |-> tid]          \* wait for its answer
Put(d, op, data)  == [do |-> "put", conn |-> d, op |-> op, data |-> data]
Drain(d, op)      == [do |-> "drain", conn |-> d, op |-> op] \* read to a packet of that kind

Advance(n) == user' = [user EXCEPT !.threads[n] = Tail(@)]

UserSay(n, u) ==
  /\ u.do = "say"
  /\ control' = Append(control, [tid |-> u.tid, fh |-> u.fh, cname |-> u.cname, args |-> u.args,
                                 after |-> Len(replies)])
  /\ Advance(n) /\ UNCHANGED <<main, handles, xfers, ctlpipe, conns, disk, replies, faults>>

UserHear(n, u) ==
  /\ u.do = "hear" /\ Answered(u.tid)
  /\ Advance(n) /\ UNCHANGED <<main, handles, xfers, ctlpipe, conns, disk, control, replies, faults>>

UserPut(n, u) ==
  /\ u.do = "put" /\ u.conn \in DOMAIN conns /\ Len(conns[u.conn].in) < NetMax
  /\ conns' = [conns EXCEPT ![u.conn].in = Append(@, [op |-> u.op, data |-> u.data]),
                            ![u.conn].sent = IF conns[u.conn].synced THEN u.data ELSE @ \o u.data,
                            ![u.conn].synced = (u.op = "SYN")]
  /\ Advance(n) /\ UNCHANGED <<main, handles, xfers, ctlpipe, disk, control, replies, faults>>

UserDrain(n, u) ==
  LET p == Head(conns[u.conn].out)
  IN /\ u.do = "drain" /\ u.conn \in DOMAIN conns /\ conns[u.conn].out # << >>
     /\ conns' = [conns EXCEPT ![u.conn].out = Tail(@),
                               ![u.conn].got = IF p.op = "SYN" THEN << >> ELSE @ \o p.data]
     /\ IF p.op = u.op THEN Advance(n) ELSE UNCHANGED user
     /\ UNCHANGED <<main, handles, xfers, ctlpipe, disk, control, replies, faults>>

UserNext ==
  \E n \in DOMAIN user.threads :
    /\ user.threads[n] # << >>
    /\ LET u == Head(user.threads[n]) IN UserSay(n, u) \/ UserHear(n, u) \/ UserPut(n, u) \/ UserDrain(n, u)

(* The Chaosnet server loses a data connection.                            *)
NetFails ==
  /\ "net" \in faults
  /\ \E d \in DOMAIN conns :
       /\ conns[d].up
       /\ conns' = [conns EXCEPT ![d].up = FALSE] /\ faults' = faults \ {"net"}
       /\ UNCHANGED <<main, handles, xfers, ctlpipe, disk, control, replies, user>>

-----------------------------------------------------------------------------
Init ==
  \E s \in 1 .. Len(Scripts) :
    /\ main = Fresh /\ handles = << >> /\ xfers = << >> /\ ctlpipe = << >>
    /\ conns = << >> /\ control = << >> /\ replies = << >>
    /\ disk = Scripts[s].disk /\ faults = Scripts[s].faults
    /\ user = [script |-> s, threads |-> Scripts[s].threads]

Next == Control \/ (\E i \in DOMAIN xfers : Transfer(i)) \/ UserNext \/ NetFails

Spec == Init /\ [][Next]_vars

(* When the control process can go on, and when transfer i can: it waits   *)
(* for a command, a packet or room for one.                                *)
ControlCan ==
  \/ main.pc \in {"check", "recheck", "do", "put", "kill"}
  \/ main.pc = "read" /\ control # << >>
  \/ main.pc \in {"reap", "rereap"} /\ (Zombies # {} \/ \A i \in DOMAIN xfers : xfers[i].pc = "gone")

Writes(x) == x.pc \in {"send", "eof", "bad", "posmark", "mark"} \/ (x.pc = "last" /\ x.pkt # << >>)
Turns2(x) == Mode(x) = "none" /\ IF x.pc = "copy" THEN x.left # << >> ELSE x.buf # << >>
TransferCan(i) ==
  /\ i \in DOMAIN xfers /\ Live(i)
  /\ LET x == xfers[i]
     IN \/ x.sig /\ x.handler = "int" /\ ~x.masked
        \/ CASE x.pc = "cmd"  -> x.pipe # << >> \/ Dead
             [] x.pc = "read" -> conns[x.conn].in # << >> \/ ~Up(x)
             [] Writes(x)     -> NetRoom(x) \/ ~Up(x)
             [] x.pc = "copy" \/ (x.pc = "work" /\ x.kind = "READ" /\ x.state = "PROCESS") -> ~Turns2(x)
             [] OTHER         -> TRUE

(* The processes run, and the user does what is in its script: weak        *)
(* fairness of each.  For the server's processes it is written out, as     *)
(* that one is stopped again and again or steps again and again: every     *)
(* step of a process changes its own record, and others change it only     *)
(* finitely often, as often as there are commands.                         *)
MaxXfers == 4
FairSpec ==
  /\ Spec
  /\ []<>~ControlCan \/ []<><<TRUE>>_main
  /\ \A i \in 1 .. MaxXfers : []<>~TransferCan(i) \/ []<><<TRUE>>_(SubSeq(xfers, i, i))
  /\ WF_vars(UserNext)

-----------------------------------------------------------------------------
(* Types *)

Packets == [op : {"DAT", "DWD", "EOF", "SYN", "ASY"}, data : Seq(Int)]

(* Every variable keeps its type: what points at a handle, a transfer, a   *)
(* connection or a file points at one there is (the pointers of FILE.c).   *)
TypeOK ==
  /\ main.pc \in {"check", "reap", "read", "recheck", "rereap", "do", "put", "kill", "dead", "gone"}
  /\ main.lastnum \in 0 .. Len(Digit) /\ main.wait \in Int /\ main.nprocdone \in Nat
  /\ \A h \in DOMAIN handles :
       /\ handles[h].type \in {"INPUT", "OUTPUT"} /\ handles[h].conn \in DOMAIN conns
       /\ handles[h].other \in DOMAIN handles /\ handles[handles[h].other].other = h
       /\ handles[h].xfer \in 0 .. Len(xfers)
       /\ handles[h].xfer # 0 => xfers[handles[h].xfer].listed /\ xfers[handles[h].xfer].fh = h
  /\ \A i \in DOMAIN xfers :
       /\ xfers[i].kind \in Kinds /\ xfers[i].conn \in DOMAIN conns
       /\ xfers[i].state \in {"IDLE", "PROCESS", "REOF", "SEOF", "DONE", "DERROR", "BROKEN", "ABORT",
                              "WSYNC", "RSYNC", "ERROR", "RETRY"}
       /\ xfers[i].ino \in 0 .. Len(disk.files)
       /\ Len(xfers[i].pkt) <= CHMAXDATA /\ xfers[i].pos \in Nat
  /\ \A d \in DOMAIN conns : conns[d].in \in Seq(Packets) /\ Len(conns[d].out) <= NetMax
  /\ \A n \in 1 .. Len(ctlpipe) : ctlpipe[n] \in DOMAIN xfers
  /\ \A n \in DOMAIN disk.names : disk.names[n] \in 1 .. Len(disk.files)

-----------------------------------------------------------------------------
(* Data *)

DataOf(q) == FlattenSeq([n \in 1 .. Len(q) |-> q[n].data])
LastSyn(q) == LET s == {n \in 1 .. Len(q) : q[n].op = "SYN"}
              IN IF s = {} THEN 0 ELSE CHOOSE n \in s : \A k \in s : k <= n

(* What a transfer holds of a file it writes, and of one it reads.         *)
Pending(x) ==
  IF x.pc = "reset" \/ (x.pc # "reset" /\ "EOF" \in x.flags /\ x.state \in {"WSYNC", "RSYNC", "DONE"})
    THEN << >> ELSE x.buf
Packed(x)  == IF x.pc = "sent" THEN << >> ELSE x.pkt
Fetched(x) ==
  LET c == conns[x.conn]
  IN (IF LastSyn(c.out) = 0 THEN c.got ELSE << >>) \o DataOf(From(c.out, LastSyn(c.out) + 1))

Sound(i) == Live(i) /\ ~xfers[i].spoiled /\ ~xfers[i].failed /\ xfers[i].pc # "posmark"

(* Between the user and the disk no byte is lost, doubled or put out of    *)
(* order: what the user has written is in the file, in the transfer's      *)
(* buffers or on its way, and what the file holds up to where it was read  *)
(* is with the user, on its way or in the buffers, whatever commands and   *)
(* interrupts there were; unless the interrupt came in the middle of a     *)
(* packet or the disk or the net failed (dowork, interrupt, filepos).      *)
Conserved ==
  \A i \in DOMAIN xfers :
    LET x == xfers[i]
        c == conns[x.conn]
    IN /\ Sound(i) /\ x.kind = "WRITE" /\ c.up =>
            Inward(x, c.sent) =
              SubSeq(Data(x), x.base + 1, x.pos) \o Pending(x) \o Inward(x, x.left) \o Inward(x, DataOf(c.in))
       /\ Sound(i) /\ x.kind = "READ" /\ c.up /\ x.pc # "mark" =>
            Outward(x, SubSeq(Data(x), x.base + 1, x.pos)) = Fetched(x) \o Packed(x) \o Outward(x, x.buf)

(* A user that has the answer to its CLOSE finds the handle free: when a   *)
(* command it said after that is performed, the transfer is off the list   *)
(* (xclose tells the control process before it answers the user, and       *)
(* getwork looks again after it has read a command).                       *)
HandleFree ==
  main.pc = "do" =>
    \A i \in DOMAIN xfers :
      xfers[i].listed /\ xfers[i].close # "none" =>
        \A r \in 1 .. main.cmd.after : replies[r].tid # xfers[i].close

(* A handle has one transfer at work at most (startxfer, xcheck): but for  *)
(* the last SYNC mark of one that is done, nothing else reads or writes    *)
(* the data connection in that direction.                                  *)
Working(i) == Live(i) /\ xfers[i].state \notin {"DONE", "DERROR"}
OneTransfer ==
  \A i, j \in DOMAIN xfers :
    i # j /\ Working(i) /\ Working(j) => xfers[i].conn # xfers[j].conn \/ Reading(xfers[i]) # Reading(xfers[j])

(* The file of the script that is to be kept can always be found under its *)
(* name or its backup's, whenever the transfer that supersedes it stops,   *)
(* and what is found there is the old file or all that was written (xclose *)
(* and backfile); with two that supersede it at once it may be nowhere.    *)
Closing2(n) == {i \in DOMAIN xfers : xfers[i].kind = "WRITE" /\ xfers[i].real = n /\ xfers[i].temp # NoFile}
VersionKept ==
  \A n \in Scripts[user.script].keep :
    Cardinality(Closing2(n)) <= 1 =>
      \E m \in {n, Backup(n)} \cap Names(disk) :
        \/ disk.names[m] = Scripts[user.script].disk.names[n]
        \/ \E i \in Closing2(n) : disk.names[m] = xfers[i].ino /\ xfers[i].pc \in {"unlinktemp", "answer", "zombie", "gone"}

-----------------------------------------------------------------------------
(* Answers *)

(* The commands in some threads, and those that were said.                 *)
Sayings(threads) ==
  UNION {{threads[n][j].tid : j \in {k \in 1 .. Len(threads[n]) : threads[n][k].do = "say"}} :
           n \in DOMAIN threads}
Said == Sayings(Scripts[user.script].threads) \ Sayings(user.threads)

(* Every command is answered, whatever the transfers are in the middle of: *)
(* a reading one is taken out of its output to the net by the signal,      *)
(* though the user drains the net only after the answer to its CLOSE       *)
(* (fileclose); so again and again there is none without its answer.       *)
(* Unless the control process has died, or the signal has made a writing   *)
(* transfer forget a packet, which may have been the SYNC mark, or a       *)
(* transfer whose listing failed, and was answered, has taken the next     *)
(* command with it, or a reading transfer that was interrupted before (by  *)
(* a FILEPOS, with setjmp() leaving the signal blocked) is stuck in its    *)
(* output with the command unread: the deadlock fileclose speaks of.       *)
Forgetful   == \E i \in DOMAIN xfers : xfers[i].kind = "WRITE" /\ xfers[i].spoiled
Deserted    == \E i \in DOMAIN xfers : xfers[i].state = "DERROR" /\ xfers[i].pipe # << >>
Unsignalled == \E i \in DOMAIN xfers :
                 xfers[i].masked /\ xfers[i].pipe # << >> /\ Writes(xfers[i]) /\ ~TransferCan(i)
AnsweredAll == []<>((\A tid \in Said : Answered(tid)) \/ Dead \/ Forgetful \/ Deserted \/ Unsignalled)

(* No command is answered twice.                                           *)
AnsweredOnce ==
  \A r, s \in 1 .. Len(replies) : r # s /\ replies[r].tid # "TIDNO" => replies[r].tid # replies[s].tid
=============================================================================
