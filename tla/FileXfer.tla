------------------------------ MODULE FileXfer ------------------------------
(***************************************************************************)
(* A transfer process of the FILE server (FILE.c: the child's part of      *)
(* startxfer, dowork, and the commands that reach it through its pipe).    *)
(*                                                                         *)
(* One step is a system call, or the work between two of them: between     *)
(* any two steps the signal may come, and other processes run.  What is    *)
(* taken into a buffer or converted is one step.                           *)
(***************************************************************************)
EXTENDS FileState

Up(x)      == conns[x.conn].up
NetRoom(x) == Len(conns[x.conn].out) < NetMax
Data(x)    == disk.files[x.ino].data

(* The frames: a step of transfer i that changes nothing else, that writes *)
(* to its data connection, that answers.                                   *)
Becomes(i, x) == xfers' = [xfers EXCEPT ![i] = x]
Alone     == UNCHANGED <<main, handles, ctlpipe, conns, disk, control, replies, user, faults>>
OnNet     == UNCHANGED <<main, handles, ctlpipe, disk, control, replies, user, faults>>
OnDisk    == UNCHANGED <<main, handles, ctlpipe, conns, control, replies, user, faults>>
OnControl == UNCHANGED <<main, handles, ctlpipe, conns, disk, control, user, faults>>

Send(x, op, data) ==
  conns' = [conns EXCEPT ![x.conn].out = Append(@, [op |-> op, data |-> data])]

(* write() to the data connection: it waits for room, then goes on as x    *)
(* `sent', or fails.                                                       *)
Write(i, op, data, sent, failed) ==
  \/ Up(xfers[i]) /\ NetRoom(xfers[i]) /\ Send(xfers[i], op, data) /\ Becomes(i, sent) /\ OnNet
  \/ ~Up(xfers[i]) /\ Becomes(i, failed) /\ Alone

(* exit() in the transfer: what is left of it is for wait().               *)
Exit(x)  == [x EXCEPT !.pc = "zombie"]
Fatal(i) == /\ Becomes(i, Exit(xfers[i])) /\ main' = Kill(main)
            /\ UNCHANGED <<handles, ctlpipe, conns, disk, control, replies, user, faults>>

-----------------------------------------------------------------------------
(* Signals *)

Handled(x) == [x EXCEPT !.handler = "int"]
Deaf(x)    == [x EXCEPT !.handler = "ign", !.sig = FALSE]

(* An interrupt here loses or repeats data: part of a packet from the net  *)
(* is not yet in the file, or what was written is still in the buffer.     *)
Midway(x) ==
  CASE x.kind = "WRITE" -> x.pc \in {"got", "flush", "full", "reset"} \/ (x.pc = "copy" /\ x.left # << >>)
    [] OTHER            -> x.pc = "sent"

(* interrupt(): with a command in the pipe, back to the top of the loop,   *)
(* wherever the process was.                                               *)
interrupt(i) ==
  LET x == xfers[i]
  IN /\ Live(i) /\ x.sig /\ x.handler = "int" /\ ~x.masked
     /\ Becomes(i, IF x.pipe = << >> THEN [x EXCEPT !.sig = FALSE]
                   ELSE [x EXCEPT !.sig = FALSE, !.pc = "top", !.masked = ~MaskRestored,
                                  !.spoiled = @ \/ Midway(x)])
     /\ Alone

(* The loop of the process: a command if there is one and no CLOSE yet,    *)
(* else a unit of work.                                                    *)
Top(i) ==
  LET x == xfers[i]
  IN /\ x.pc = "top"
     /\ Becomes(i, IF "CLOSE" \in x.flags THEN [x EXCEPT !.pc = "work"]
                   ELSE IF x.pipe = << >> THEN [Handled(x) EXCEPT !.pc = "work"]
                   ELSE [Deaf(x) EXCEPT !.pc = "cmd"])
     /\ Alone

Hang(i) ==
  /\ xfers[i].pc = "hang"
  /\ Becomes(i, [Deaf(xfers[i]) EXCEPT !.pc = "cmd"])
  /\ Alone

-----------------------------------------------------------------------------
(* Commands from the pipe *)

(* fileclose(): a reading transfer is done at once; a writing one goes on  *)
(* until the SYNC mark.                                                    *)
Closing(x) ==
  CASE Reading(x)                                         -> "DONE"
    [] ~Reading(x) /\ x.state = "ERROR"                   -> "WSYNC"
    [] ~Reading(x) /\ x.state \in {"BROKEN", "RSYNC"}     -> "DONE"
    [] OTHER                                              -> x.state
fileclose(x, t) ==
  [Deaf(x) EXCEPT !.flags = @ \cup {"CLOSE"}, !.state = Closing(x), !.close = t.tid]

(* Mutant of filepos: the packet that waits to be sent stays.              *)
fileposKeeps(x, t) ==
  [x EXCEPT !.buf = << >>, !.flags = @ \ {"EOF"}, !.state = "PROCESS",
            !.pos = t.n, !.pc = "posmark", !.spoiled = FALSE]

(* filepos(): the data on its way is forgotten; a SYNC mark follows the    *)
(* answer.                                                                 *)
Movable(x)    == x.kind = "READ" /\ x.state \in {"PROCESS", "REOF", "SEOF"}
Position(x, t) == t.n * (IF x.bytesize = 16 THEN 2 ELSE 1)
InRange(x, t) == Position(x, t) <= Len(Data(x))
filepos(x, t) ==
  [x EXCEPT !.pkt = << >>, !.buf = << >>, !.flags = @ \ {"EOF"}, !.state = "PROCESS",
            !.pos = Position(x, t), !.pc = "posmark", !.spoiled = FALSE]
FileposCode(x, t) == CASE ~Movable(x)                    -> "BUG"
                       [] Movable(x) /\ ~InRange(x, t)   -> "FOR"
                       [] OTHER                          -> "OK"

(* diropen(): the names the pattern stands for, the global properties.     *)
(* Names that are in no directory, or cannot be reached, are an error when *)
(* no name is any better.                                                  *)
Reach(n) == CASE Stat(disk, n) = "ENOENT" -> IF Access(disk, Pop(n), {}) = "OK" THEN "none" ELSE "DNF"
              [] Stat(disk, n) = "EACCES"  -> "ATD"
              [] Stat(disk, n) = "ENOTDIR" -> "DNF"
              [] OTHER                     -> "none"
Listing(x) == Expand(disk, x.real, Code)
Worst(errs) == IF errs = {} THEN "none" ELSE CHOOSE e \in errs : TRUE
Unlisted(l) ==
  IF l.err # "none" \/ \E n \in l.found : Stat(disk, n) = "OK" THEN l.err
  ELSE Worst({Reach(n) : n \in l.found} \ {"none"})
ListError(x) == Unlisted(Listing(x))
Skip(x)    == LET ok == {i \in 1 .. Len(x.glob) : Stat(disk, x.glob[i]) = "OK"}
              IN IF ok = {} THEN << >> ELSE From(x.glob, CHOOSE i \in ok : \A j \in ok : i <= j)
diropen(x, err) ==
  LET y == [x EXCEPT !.glob = Sorted(Listing(x).found, Code)]
  IN IF err # "none"
       THEN [x EXCEPT !.state = "DERROR", !.pc = "derror"]
       ELSE [y EXCEPT !.glob = Skip(y), !.buf = <<[what |-> "global", name |-> NoFile]>>,
                      !.state = "PROCESS", !.pc = "top"]

(* propopen(): what can be set, and the file's name.                       *)
propopen(x) ==
  [x EXCEPT !.buf = <<[what |-> "settable", name |-> x.real]>>, !.state = "PROCESS", !.pc = "top"]

(* rcvcmd(): the next command from the pipe, waited for if need be.        *)
Rcvcmd(i) ==
  LET x == [xfers[i] EXCEPT !.pipe = Tail(@), !.pc = "top"]
      t == Head(xfers[i].pipe)
  IN /\ xfers[i].pc = "cmd" /\ xfers[i].pipe # << >>
     /\ CASE t.cname = "CLOSE"   -> Becomes(i, fileclose(x, t)) /\ UNCHANGED replies
          [] t.cname = "FILEPOS" ->
               /\ Respond(t.tid, FileposCode(x, t), << >>)
               /\ Becomes(i, IF FileposCode(x, t) = "OK" THEN filepos(x, t) ELSE x)
          [] t.cname = "CONTINUE" ->
               /\ Respond(t.tid, IF x.state = "ERROR" THEN "OK" ELSE "BUG", << >>)
               /\ Becomes(i, IF x.state = "ERROR" THEN [x EXCEPT !.state = "RETRY"] ELSE x)
          [] t.cname = "DIRECTORY" ->
               \E err \in {ListError(x)} :
                 Respond(t.tid, IF err = "none" THEN "OK" ELSE err, << >>) /\ Becomes(i, diropen(x, err))
          [] t.cname = "PROPERTIES" -> Respond(t.tid, "OK", << >>) /\ Becomes(i, propopen(x))
          [] t.cname = "delfh"  -> Becomes(i, [x EXCEPT !.flags = @ \cup {"DELETE"}]) /\ UNCHANGED replies
          [] t.cname = "mdatfh" ->
               Becomes(i, [x EXCEPT !.mtime = t.n, !.flags = @ \cup {"MTIME"}]) /\ UNCHANGED replies
          [] t.cname = "adatfh" ->
               Becomes(i, [x EXCEPT !.atime = t.n, !.flags = @ \cup {"ATIME"}]) /\ UNCHANGED replies
     /\ OnControl

(* The SYNC mark of a FILEPOS; without it the process gives up.            *)
PosMark(i) ==
  /\ xfers[i].pc = "posmark"
  /\ \/ /\ Up(xfers[i]) /\ NetRoom(xfers[i]) /\ Send(xfers[i], "SYN", << >>)
        /\ Becomes(i, [xfers[i] EXCEPT !.pc = "top", !.base = xfers[i].pos]) /\ OnNet
     \/ ~Up(xfers[i]) /\ Fatal(i)

(* The pipe is closed at the other end: the control process is no more.    *)
PipeBroken(i) == xfers[i].pc = "cmd" /\ xfers[i].pipe = << >> /\ Dead /\ Fatal(i)

(* The control process is told that the transfer is done; without it the   *)
(* write is the end of the process.                                        *)
Announce(i, x) ==
  /\ ctlpipe' = IF Dead THEN ctlpipe ELSE Append(ctlpipe, i)
  /\ Becomes(i, IF Dead THEN Exit(xfers[i]) ELSE x)
  /\ UNCHANGED <<main, handles, conns, disk, control, replies, user, faults>>

(* A directory list that failed is announced after the error was answered. *)
DirFailed(i) == xfers[i].pc = "derror" /\ Announce(i, [xfers[i] EXCEPT !.pc = "top"])

-----------------------------------------------------------------------------
(* dowork: from the disk to the net *)

(* What the state of a reading transfer has it do.                         *)
ReadWork(i) ==
  LET x == xfers[i]
  IN /\ x.pc = "work" /\ Reading(x) /\ x.state # "PROCESS"
     /\ Becomes(i, CASE x.state = "DERROR"                     -> Exit(x)
                     [] x.state = "DONE"                       -> [x EXCEPT !.pc = "close"]
                     [] x.state = "REOF"                       -> [x EXCEPT !.pc = "eof"]
                     [] x.state \in {"BROKEN", "ABORT", "SEOF", "IDLE"} -> [x EXCEPT !.pc = "hang"])
     /\ Alone

(* The next bytes of the file, dirread() or propread().                    *)
Chunk(x) ==
  CASE x.kind = "READ"       -> SubSeq(Data(x), x.pos + 1, x.pos + LessOf(FSBSIZE, Len(Data(x)) - x.pos))
    [] x.kind = "DIR"        -> LET y == Skip(x)
                                IN IF y = << >> THEN << >> ELSE <<[what |-> "file", name |-> Head(y)]>>
    [] x.kind = "PROPERTIES" -> IF x.real = NoFile THEN << >>
                                ELSE <<[what |-> "file", name |-> x.real]>>
Taken(x) ==
  CASE x.kind = "READ"       -> [x EXCEPT !.buf = Chunk(x), !.pos = @ + Len(Chunk(x))]
    [] x.kind = "DIR"        -> [x EXCEPT !.buf = Chunk(x),
                                          !.glob = IF Skip(x) = << >> THEN << >> ELSE Tail(Skip(x))]
    [] x.kind = "PROPERTIES" -> [x EXCEPT !.buf = Chunk(x), !.real = NoFile]
Unreadable(x) ==
  CASE x.kind = "READ"       -> disk.files[x.ino].dir
    [] x.kind = "DIR"        -> FALSE
    [] x.kind = "PROPERTIES" -> x.real # NoFile /\ Stat(disk, IF x.temp = NoFile THEN x.real ELSE x.temp) # "OK"

(* As much of the disk buffer as the packet has room for.                  *)
Room(x)  == CHMAXDATA - Len(x.pkt)
Fits(x)  == LessOf(Len(x.buf), IF Mode(x) = "bytes" THEN Room(x) \div 2 ELSE Room(x))
Copied(x) == [x EXCEPT !.pkt = @ \o Outward(x, SubSeq(x.buf, 1, Fits(x))), !.buf = From(@, Fits(x) + 1)]

(* One turn of the loop that fills a packet.  With RAW alone no conversion *)
(* is chosen, and it turns for ever.                                       *)
Fill(i) ==
  LET x == xfers[i]
      y == IF x.buf = << >> THEN Taken(x) ELSE x
  IN /\ x.pc = "work" /\ Reading(x) /\ x.state = "PROCESS"
     /\ CASE Room(x) = 0                                  -> Becomes(i, [x EXCEPT !.pc = "send"])
          [] Room(x) # 0 /\ x.buf = << >> /\ Unreadable(x) -> Becomes(i, [x EXCEPT !.pc = "bad"])
          [] Room(x) # 0 /\ y.buf = << >>                 -> Becomes(i, [y EXCEPT !.pc = "last"])
          [] OTHER -> IF Mode(x) = "none" THEN x # y /\ Becomes(i, y) ELSE Becomes(i, Copied(y))
     /\ Alone

(* xpwrite(): a packet of nothing is not sent.                             *)
Op(x) == IF "BINARY" \in x.options THEN "DWD" ELSE "DAT"
SendFull(i) ==
  LET x == xfers[i]
  IN x.pc = "send" /\ Write(i, Op(x), x.pkt, [x EXCEPT !.pc = "sent"],
                            [x EXCEPT !.state = "BROKEN", !.pc = "top"])
Sent(i) ==
  /\ xfers[i].pc = "sent"
  /\ Becomes(i, [xfers[i] EXCEPT !.pkt = << >>, !.pc = "top"])
  /\ Alone
SendLast(i) ==
  LET x    == xfers[i]
      done == [x EXCEPT !.state = "REOF", !.pc = "top"]
  IN /\ x.pc = "last"
     /\ IF x.pkt = << >> THEN Becomes(i, done) /\ Alone
        ELSE Write(i, Op(x), x.pkt, [done EXCEPT !.pkt = << >>], [x EXCEPT !.state = "BROKEN", !.pc = "top"])

(* xpweof(), and fherror() of an error on the disk.                        *)
SendEof(i) ==
  LET x == xfers[i]
  IN x.pc = "eof" /\ Write(i, "EOF", << >>, [x EXCEPT !.state = "SEOF", !.pc = "top"],
                           [x EXCEPT !.state = "BROKEN", !.pc = "top"])
SendBad(i) ==
  LET x == xfers[i]
  IN x.pc = "bad" /\ Write(i, "ASY", << >>, [x EXCEPT !.state = "ABORT", !.pc = "top"],
                           [x EXCEPT !.state = "BROKEN", !.pc = "top"])

-----------------------------------------------------------------------------
(* dowork: from the net to the disk *)

WriteWork(i) ==
  LET x == xfers[i]
  IN /\ x.pc = "work" /\ ~Reading(x)
     /\ Becomes(i, CASE x.state = "DONE"                         -> [x EXCEPT !.pc = "close"]
                     [] x.state \in {"BROKEN", "RSYNC", "ERROR"} -> [x EXCEPT !.pc = "hang"]
                     [] x.state \in {"WSYNC", "PROCESS"}         -> [x EXCEPT !.pc = "read"]
                     [] x.state = "RETRY"                        -> [x EXCEPT !.pc = "retry"])
     /\ Alone

(* xpread(): one packet, or an error.  A user sends data, EOF and SYNC     *)
(* marks only (WellSaid) and no data packet without data: the code reads   *)
(* over such a packet and ends the process at another opcode.              *)
Xpread(i) ==
  LET x  == xfers[i]
      in == conns[x.conn].in
  IN /\ x.pc = "read"
     /\ \/ /\ Up(x) /\ in # << >>
           /\ conns' = [conns EXCEPT ![x.conn].in = Tail(in)]
           /\ Becomes(i, [x EXCEPT !.pc = "got", !.op = Head(in).op, !.left = Head(in).data])
           /\ OnNet
        \/ ~Up(x) /\ Becomes(i, [x EXCEPT !.pc = "got", !.op = "error", !.left = << >>]) /\ Alone

ToClose(x, other) == IF "CLOSE" \in x.flags THEN "DONE" ELSE other

(* What it was.  A SYNC mark before EOF leaves the buffer unwritten.       *)
Got(i) ==
  LET x == [xfers[i] EXCEPT !.pc = "top"]
  IN /\ xfers[i].pc = "got"
     /\ CASE x.op = "SYN" -> Becomes(i, [x EXCEPT !.state = ToClose(x, "RSYNC")]) /\ Alone
          [] x.op = "error" ->
               /\ Becomes(i, [x EXCEPT !.state = ToClose(x, "BROKEN"), !.failed = TRUE])
               /\ replies' = IF x.state = "PROCESS" THEN Append(replies, Mark(x.fh)) ELSE replies
               /\ OnControl
          [] x.op = "EOF" /\ x.state = "PROCESS" ->
               Becomes(i, [x EXCEPT !.flags = @ \cup {"EOF"}, !.pc = "flush"]) /\ Alone
          [] x.op = "DAT" /\ x.state = "PROCESS" -> Becomes(i, [x EXCEPT !.pc = "copy"]) /\ Alone
          [] x.op \in {"EOF", "DAT"} /\ x.state = "WSYNC" -> Becomes(i, [x EXCEPT !.left = << >>]) /\ Alone

(* As much of the packet as the buffer has room for.  A buffer that could  *)
(* not be written, or was written by a RETRY, is still full: text goes on  *)
(* with it, the other modes count down from 0 and smash the process.       *)
Space(x)  == FSBSIZE - Len(x.buf)
Enters(x) == LessOf(Len(x.left), IF Mode(x) = "bytes" THEN 2 * Space(x) ELSE Space(x))
Copy(i) ==
  LET x == xfers[i]
      y == [x EXCEPT !.buf = @ \o Inward(x, SubSeq(x.left, 1, Enters(x))), !.left = From(@, Enters(x) + 1)]
  IN /\ x.pc = "copy"
     /\ CASE x.left = << >>                 -> Becomes(i, [x EXCEPT !.pc = "top"])
          [] x.left # << >> /\ Mode(x) = "none" -> FALSE
          [] x.left # << >> /\ Mode(x) \in {"bytes", "raw"} /\ Space(x) = 0 -> Becomes(i, Exit(x))
          [] OTHER -> Becomes(i, IF Space(y) = 0 THEN [y EXCEPT !.pc = "full"] ELSE y)
     /\ Alone

(* xbwrite(): the buffer goes to the disk, or the disk is full.  `after'   *)
(* is the transfer when it worked, `back' where it goes on when not: after *)
(* a recoverable error unless a CLOSE has come.  The disk takes all of the *)
(* buffer or nothing: a short write, which the code takes for a full one,  *)
(* is left out.                                                            *)
Stored(x) == [x EXCEPT !.pos = @ + Len(x.buf)]
Failed(x, back) ==
  IF "CLOSE" \in x.flags THEN [x EXCEPT !.state = "WSYNC", !.failed = TRUE, !.pc = back]
                         ELSE [x EXCEPT !.state = "ERROR", !.pc = back]
Xbwrite(i, after, back) ==
  LET x == xfers[i]
  IN \/ /\ Becomes(i, after)
        /\ disk' = SetData(disk, x.ino, Written(Data(x), x.pos, x.buf))
        /\ OnDisk
     \/ /\ x.buf # << >> /\ "nospc" \in faults /\ faults' = faults \ {"nospc"}
        /\ Becomes(i, Failed(x, back))
        /\ replies' = Append(replies, Mark(x.fh))
        /\ UNCHANGED <<main, handles, ctlpipe, conns, disk, control, user>>

Full(i)  == xfers[i].pc = "full" /\ Xbwrite(i, [Stored(xfers[i]) EXCEPT !.pc = "reset"], "copy")
Flush(i) == xfers[i].pc = "flush" /\ Xbwrite(i, [Stored(xfers[i]) EXCEPT !.pc = "top", !.state = "WSYNC"], "top")
Retry(i) ==
  /\ xfers[i].pc = "retry"
  /\ Xbwrite(i, [Stored(xfers[i]) EXCEPT !.pc = "top", !.spoiled = @ \/ (xfers[i].buf # << >> /\ "EOF" \notin xfers[i].flags),
                   !.state = IF "EOF" \in xfers[i].flags THEN "WSYNC" ELSE "PROCESS"], "top")
Reset(i) ==
  /\ xfers[i].pc = "reset"
  /\ Becomes(i, [xfers[i] EXCEPT !.buf = << >>, !.pc = "copy"])
  /\ Alone

-----------------------------------------------------------------------------
(* xclose *)

Superseding(x) == x.kind = "WRITE" /\ x.temp # NoFile /\ "DELETE" \notin x.flags

(* The control process is told first.                                      *)
Close(i) ==
  LET x == xfers[i]
  IN x.pc = "close" /\ Announce(i, [x EXCEPT !.pc = IF Superseding(x) THEN "link" ELSE "answer"])

(* The temporary file gets its name; one that is there is made the backup, *)
(* in three calls none of which is checked but link().                     *)
Call(i, pc, k, x) == xfers[i].pc = pc /\ disk' = k /\ Becomes(i, x) /\ OnDisk
To(x, pc) == [x EXCEPT !.pc = pc]

(* Mutant of LinkTemp: the old file goes without a backup.                 *)
LinkTempRash(i) ==
  LET x == xfers[i]
      r == Link(disk, x.temp, x.real)
  IN Call(i, "link", r.disk, IF r.err = "OK" THEN To(x, "unlinktemp") ELSE To(x, "back3"))

LinkTemp(i) ==
  LET x == xfers[i]
      r == Link(disk, x.temp, x.real)
  IN Call(i, "link", r.disk, CASE r.err = "OK"      -> To(x, "unlinktemp")
                                [] r.err = "EEXIST" -> To(x, "back1")
                                [] OTHER            -> [x EXCEPT !.err = "MSC", !.pc = "answer"])
BackUnlink(i) ==
  LET x == xfers[i] IN Call(i, "back1", Unlink(disk, Backup(x.real)).disk, To(x, "back2"))
BackLink(i) ==
  LET x == xfers[i]
      r == Link(disk, x.real, Backup(x.real))
  IN Call(i, "back2", r.disk, To(x, IF r.err = "OK" THEN "back3" ELSE "relink"))
UnlinkReal(i) ==
  LET x == xfers[i] IN Call(i, "back3", Unlink(disk, x.real).disk, To(x, "relink"))
Relink(i) ==
  LET x == xfers[i]
      r == Link(disk, x.temp, x.real)
  IN Call(i, "relink", r.disk, IF r.err = "OK" THEN To(x, "unlinktemp")
                                               ELSE [x EXCEPT !.err = "MSC", !.pc = "answer"])
UnlinkTemp(i) ==
  LET x == xfers[i] IN Call(i, "unlinktemp", Unlink(disk, x.temp).disk, To(x, "answer"))

(* The dates that were asked for, and the answer.                          *)
Dated(x) ==
  LET f == disk.files[disk.names[x.real]]
  IN [disk EXCEPT !.files[disk.names[x.real]] =
        [f EXCEPT !.atime = IF "PRESERVE-DATES" \in x.options \/ "ATIME" \in x.flags
                              THEN x.atime ELSE disk.files[x.ino].atime,
                  !.mtime = IF "PRESERVE-DATES" \in x.options \/ "MTIME" \in x.flags
                              THEN x.mtime ELSE disk.files[x.ino].mtime]]
AnswerClose(i) ==
  LET x == xfers[i]
      dates == /\ x.kind \in {"READ", "WRITE"} /\ x.err = "none" /\ Stat(disk, x.real) = "OK"
               /\ "PRESERVE-DATES" \in x.options \/ x.flags \cap {"ATIME", "MTIME"} # {}
  IN /\ x.pc = "answer"
     /\ disk' = IF dates THEN Dated(x) ELSE disk
     /\ Respond(x.close, IF x.err = "none" THEN "OK" ELSE x.err, << >>)
     /\ Becomes(i, IF Reading(x) THEN To(x, "mark") ELSE Exit(x))
     /\ UNCHANGED <<main, handles, ctlpipe, conns, control, user, faults>>

(* Mutant of SyncMark: an error of it is answered.                         *)
SyncMarkTold(i) ==
  xfers[i].pc = "mark" /\ Write(i, "SYN", << >>, Exit(xfers[i]), To(xfers[i], "answer"))

(* A reading transfer ends with a SYNC mark; errors are ignored.           *)
SyncMark(i) ==
  xfers[i].pc = "mark" /\ Write(i, "SYN", << >>, Exit(xfers[i]), Exit(xfers[i]))

Transfer(i) ==
  \/ interrupt(i)
  \/ Top(i) \/ Hang(i) \/ Rcvcmd(i) \/ PosMark(i) \/ PipeBroken(i) \/ DirFailed(i)
  \/ ReadWork(i) \/ Fill(i) \/ SendFull(i) \/ Sent(i) \/ SendLast(i) \/ SendEof(i) \/ SendBad(i)
  \/ WriteWork(i) \/ Xpread(i) \/ Got(i) \/ Copy(i) \/ Full(i) \/ Flush(i) \/ Retry(i) \/ Reset(i)
  \/ Close(i) \/ LinkTemp(i) \/ BackUnlink(i) \/ BackLink(i) \/ UnlinkReal(i) \/ Relink(i) \/ UnlinkTemp(i)
  \/ AnswerClose(i) \/ SyncMark(i)
=============================================================================
