----------------------------- MODULE FileControl -----------------------------
(***************************************************************************)
(* The control process of the FILE server (FILE.c): it reads a command,    *)
(* picks up the transfers that are done, and performs the command or       *)
(* passes it on to a transfer.  A command is one step, except for the      *)
(* signal that follows what sendcmd() writes.                              *)
(***************************************************************************)
EXTENDS FileState

T == main.cmd
A == main.args                \* what parseargs() has made of its text
Has(n)               == Len(A.strings) >= n
Parse(text, blankok) == parsepath(text, blankok, main.home, main.cwd)
Fh == handles[T.fh]
X  == xfers[Fh.xfer]          \* the transfer on the handle, when xfer # 0

Idle(m)     == [m EXCEPT !.pc = "check", !.cmd = NoCmd, !.args = ainit(<< >>), !.prop = NoProp]
Crash       == main' = [main EXCEPT !.pc = "dead"]
Reply(code) == Respond(T.tid, code, << >>)

-----------------------------------------------------------------------------
(* getwork *)

(* Mutant of Announced: only one transfer is read from the control pipe.   *)
AnnouncedFirst(i) == ctlpipe # << >> /\ Head(ctlpipe) = i

(* xcheck(): the transfers on the control pipe are dropped from the list   *)
(* and their handles are free; so many processes are waited for, less      *)
(* those an earlier wait met.  It is done before a command is read and     *)
(* again after.                                                            *)
Announced(i) == \E n \in 1 .. Len(ctlpipe) : ctlpipe[n] = i
Stray == \E n \in 1 .. Len(ctlpipe) :
           ~xfers[ctlpipe[n]].listed \/ (\E k \in 1 .. n - 1 : ctlpipe[k] = ctlpipe[n])
Waits == [check |-> "reap", recheck |-> "rereap"]
Then  == [check |-> "read", recheck |-> "do", reap |-> "read", rereap |-> "do"]
xcheck ==
  /\ main.pc \in DOMAIN Waits /\ ~Stray
  /\ main' = [main EXCEPT !.wait = Len(ctlpipe) - main.nprocdone, !.nprocdone = 0,
                          !.pc = IF Len(ctlpipe) = main.nprocdone THEN Then[@] ELSE Waits[@]]
  /\ xfers' = [i \in DOMAIN xfers |-> IF Announced(i) THEN [xfers[i] EXCEPT !.listed = FALSE] ELSE xfers[i]]
  /\ handles' = [h \in DOMAIN handles |->
                   IF Announced(handles[h].xfer) THEN [handles[h] EXCEPT !.xfer = 0] ELSE handles[h]]
  /\ ctlpipe' = << >>
  /\ UNCHANGED <<conns, disk, control, replies, user, faults>>

(* xflush(): a transfer announced a second time (a listing that failed and *)
(* then had a CLOSE) is missing on the list, which is fatal.               *)
xflush ==
  /\ main.pc \in DOMAIN Waits /\ Stray /\ Crash
  /\ UNCHANGED <<handles, xfers, ctlpipe, conns, disk, control, replies, user, faults>>

(* wait(): any process that has exited; with none left it is fatal.        *)
Reap ==
  /\ main.pc \in {"reap", "rereap"}
  /\ \/ \E i \in Zombies :
          /\ xfers' = [xfers EXCEPT ![i].pc = "gone"]
          /\ main' = [main EXCEPT !.wait = @ - 1, !.pc = IF main.wait = 1 THEN Then[@] ELSE @]
     \/ (\A i \in DOMAIN xfers : xfers[i].pc = "gone") /\ Crash /\ UNCHANGED xfers
  /\ UNCHANGED <<handles, ctlpipe, conns, disk, control, replies, user, faults>>

(* The next command.                                                       *)
ReadCommand ==
  /\ main.pc = "read" /\ control # << >>
  /\ control' = Tail(control)
  /\ LET t == Head(control)
     IN main' = [main EXCEPT !.cmd = t, !.pc = "recheck",
                             !.args = IF t.cname \in Commands THEN parseargs(t.cname, t.fh # "", t.args) ELSE @]
  /\ UNCHANGED <<handles, xfers, ctlpipe, conns, disk, replies, user, faults>>

(* The end of the connection is the end of the process.                    *)
finish ==
  /\ main.pc = "do" /\ T.cname = "CLS" /\ main' = [main EXCEPT !.pc = "gone"]
  /\ UNCHANGED <<handles, xfers, ctlpipe, conns, disk, control, replies, user, faults>>

(* What is wrong with a command before it is performed.  The end of the    *)
(* table is never noticed: an unknown command is one with no syntax.       *)
Unknown == T.cname \notin Commands
Flag    == IF Unknown THEN {} ELSE Flags[T.cname]
Refusal ==
  CASE T.fh # "" /\ T.fh \notin DOMAIN handles              -> "BUG"
    [] ~(T.fh # "" /\ T.fh \notin DOMAIN handles) /\ T.cname = "" -> "BUG"
    [] (T.fh # "" => T.fh \in DOMAIN handles) /\ T.cname # "" /\ main.home = << >> /\ "NOLOG" \notin Flag -> "NLI"
    [] OTHER ->
         IF \/ T.fh = "" /\ Flag \cap {"FHMUST", "FHINPUT"} # {}
            \/ T.fh # "" /\ "FHCANT" \in Flag
            \/ T.fh # "" /\ "FHINPUT" \in Flag /\ Fh.type # "INPUT"
           THEN "BUG" ELSE IF Unknown THEN "crash" ELSE A.end

Refused ==
  /\ main.pc = "do" /\ T.cname # "CLS" /\ Refusal # "none"
  /\ IF Refusal = "crash" THEN Crash /\ UNCHANGED replies
                          ELSE main' = Idle(main) /\ Reply(Refusal)
  /\ UNCHANGED <<handles, xfers, ctlpipe, conns, disk, control, user, faults>>

Doing(cname) == main.pc = "do" /\ T.cname = cname /\ Refusal = "none"

(* A command that answers and changes the disk at most.                    *)
Answers(code, results, k) ==
  /\ Respond(T.tid, code, results) /\ disk' = k /\ main' = Idle(main)
  /\ UNCHANGED <<handles, xfers, ctlpipe, conns, control, user, faults>>
Errs(code) == Answers(code, << >>, disk)

-----------------------------------------------------------------------------
(* Commands to a transfer *)

Msg(tid, cname, n) == [tid |-> tid, cname |-> cname, n |-> n]

(* Mutant of Interrupts: a CLOSE waits until the transfer looks.           *)
InterruptsSeldom(i, cname) == cname = "FILEPOS" /\ xfers[i].kind = "READ"

(* sendcmd(): to a process that is no more it is SIGPIPE.                  *)
Interrupts(i, cname) == cname = "CLOSE" \/ (cname = "FILEPOS" /\ xfers[i].kind = "READ")
Tell(i, msg, next) ==
  IF Live(i) THEN xfers' = [xfers EXCEPT ![i].pipe = Append(@, msg)] /\ main' = next
             ELSE Crash /\ UNCHANGED xfers
sendcmd(i, msg) ==
  Tell(i, msg, IF Interrupts(i, msg.cname) THEN [Idle(main) EXCEPT !.pc = "kill", !.victim = i] ELSE Idle(main))

xcommand ==
  /\ main.pc = "do" /\ Refusal = "none" /\ "XFER" \in Flag
  /\ IF Fh.xfer = 0 THEN Errs("BUG")
     ELSE /\ sendcmd(Fh.xfer, Msg(T.tid, T.cname, A.numbers["pos"]))
          /\ UNCHANGED <<handles, ctlpipe, conns, disk, control, replies, user, faults>>

(* The signal; a process that ignores it does not get it later.            *)
SendSignal ==
  /\ main.pc = "kill"
  /\ main' = [main EXCEPT !.pc = "check", !.victim = 0]
  /\ xfers' = [xfers EXCEPT ![main.victim].sig = @ \/ (Live(main.victim) /\ xfers[main.victim].handler = "int")]
  /\ UNCHANGED <<handles, ctlpipe, conns, disk, control, replies, user, faults>>

-----------------------------------------------------------------------------
(* Connections and users *)

NewHandle(type, d, other) == [type |-> type, conn |-> d, other |-> other, xfer |-> 0]

dataconn ==
  LET in  == Head(A.strings[1])
      out == Head(A.strings[2])
      d   == Len(conns) + 1
  IN /\ Doing("DATA_CONNECTION")
     /\ \/ {in, out} \cap DOMAIN handles # {} /\ Errs("BUG")
        \/ /\ {in, out} \cap DOMAIN handles = {} /\ "conn" \in faults
           /\ Reply("NET") /\ main' = Idle(main) /\ faults' = faults \ {"conn"}
           /\ UNCHANGED <<handles, xfers, ctlpipe, conns, disk, control, user>>
        \/ /\ {in, out} \cap DOMAIN handles = {}
           /\ handles' = [h \in DOMAIN handles \cup {in, out} |->
                            IF h = in THEN NewHandle("INPUT", d, out)
                            ELSE IF h = out THEN NewHandle("OUTPUT", d, in) ELSE handles[h]]
           /\ conns' = Append(conns, NewConn)
           /\ Reply("OK") /\ main' = Idle(main)
           /\ UNCHANGED <<xfers, ctlpipe, disk, control, user, faults>>

(* Mutant of Pair: the other handle of the connection stays.               *)
PairHalf == {T.fh}

Pair == {T.fh, Fh.other}
undataconn ==
  /\ Doing("UNDATA_CONNECTION")
  /\ IF Fh.xfer # 0 \/ handles[Fh.other].xfer # 0 THEN Errs("BUG")
     ELSE /\ handles' = [h \in DOMAIN handles \ Pair |-> handles[h]]
          /\ conns' = [conns EXCEPT ![Fh.conn].up = FALSE]
          /\ Reply("OK") /\ main' = Idle(main)
          /\ UNCHANGED <<xfers, ctlpipe, disk, control, user, faults>>

(* LOGIN without a name is a logout.  Any password will do.                *)
login ==
  LET name == downcase(A.strings[1])
  IN /\ Doing("LOGIN")
     /\ CASE ~Has(1)                                             -> main' = [main EXCEPT !.pc = "gone"] /\ UNCHANGED replies
          [] Has(1) /\ main.home # << >>                         -> main' = Idle(main) /\ Reply("BUG")
          [] Has(1) /\ main.home = << >> /\ name \notin DOMAIN Passwd -> main' = Idle(main) /\ Reply("UNK")
          [] OTHER -> /\ main' = [Idle(main) EXCEPT !.home = Passwd[name], !.cwd = Passwd[name]]
                      /\ Respond(T.tid, "OK", Passwd[name])
     /\ UNCHANGED <<handles, xfers, ctlpipe, conns, disk, control, user, faults>>

-----------------------------------------------------------------------------
(* Errors of the file system *)

Missing(dir)    == IF Access(disk, dir, {}) = "OK" THEN "FNF" ELSE "DNF"
StatError(p)    == CASE Stat(disk, p.real) = "OK"      -> "none"
                     [] Stat(disk, p.real) = "EACCES"  -> "ATD"
                     [] Stat(disk, p.real) = "ENOTDIR" -> "DNF"
                     [] OTHER                          -> Missing(p.dir)
IsDir(n)        == File(disk, n).dir

(* stat() of what was named, or why not.                                   *)
Named(p) == IF p.err # "none" THEN p.err ELSE StatError(p)

-----------------------------------------------------------------------------
(* OPEN *)

Directions == {"READ", "WRITE", "PROBE"}
Directed(o) == IF o \cap Directions # {} THEN o
               ELSE o \cup {IF T.fh = "" THEN "PROBE" ELSE IF Fh.type = "INPUT" THEN "READ" ELSE "WRITE"}
IfExists   == IF A.exists["IF-EXISTS"] = "NONE" THEN "SUPERSEDE" ELSE A.exists["IF-EXISTS"]
IfNotThere == IF A.exists["IF-DOES-NOT-EXIST"] # "NONE" THEN A.exists["IF-DOES-NOT-EXIST"]
              ELSE IF IfExists \in {"OVERWRITE", "APPEND"} THEN "ERROR" ELSE "CREATE"

Openable == {"RAW", "READ", "WRITE", "PROBE", "DEFAULT", "PRESERVE-DATES", "BINARY", "CHARACTER",
             "PROBE-DIRECTORY"}
(* Mutant of Busy: the wrong one of the two handles is looked at.          *)
BusyOther == T.fh # "" /\ handles[Fh.other].xfer # 0

Busy == T.fh # "" /\ Fh.xfer # 0
OpenRefused(o) ==
  LET read  == "READ" \in o
      write == "WRITE" \in o
  IN CASE read /\ A.exists["IF-DOES-NOT-EXIST"] = "CREATE"    -> "ICO"
       [] write /\ T.fh # "" /\ Fh.type = "OUTPUT" /\ A.exists["IF-EXISTS"] = "NEW-VERSION" -> "UUO"
       [] OTHER -> IF \/ (read \/ write) /\ (T.fh = "" \/ Fh.type # IF read THEN "INPUT" ELSE "OUTPUT")
                      \/ "PROBE" \in o /\ T.fh # ""
                      \/ Busy
                     THEN "BUG" ELSE "none"

(* tempfile(): the first unused of the numbers, from the last one on.      *)
TempName(dir, n) == Append(dir, <<"#", "F", "I", "L", "E", Digit[n + 1]>>)
Try(i)           == (main.lastnum + i) % Len(Digit)
tempfile(dir) ==
  LET unused == {i \in 0 .. Len(Digit) - 1 : Access(disk, TempName(dir, Try(i)), {}) # "OK"}
      first  == CHOOSE i \in unused : \A j \in unused : i <= j
      err    == IF unused = {} THEN "none" ELSE Access(disk, TempName(dir, Try(first)), {})
  IN [err |-> IF err = "ENOENT" THEN "OK" ELSE err, name |-> TempName(dir, Try(first)),
      lastnum |-> Try(first) + 1]

(* What opening comes to: an error code, the disk, the file's number, the  *)
(* temporary name if there is one.                                         *)
Opened(k, ino, temp) == [code |-> "none", disk |-> k, ino |-> ino, temp |-> temp, lastnum |-> main.lastnum]
NotOpened(code)      == [Opened(disk, 0, NoFile) EXCEPT !.code = code]

CannotWrite(err, dir) ==
  CASE err = "EACCES" -> IF Access(disk, dir, {"x"}) = "OK" /\ Access(disk, dir, {"w"}) = "OK" THEN "ATF" ELSE "ATD"
    [] err \in {"ENOENT", "ENOTDIR"} -> "DNF"
    [] err = "EISDIR"                -> "IOD"
    [] err = "ENOSPC"                -> "NMR"
    [] OTHER                         -> "MSC"

(* creat(), when the disk is not full.                                     *)
Create(n, dir, full, temp, lastnum) ==
  LET r == IF full THEN Fails(disk, "ENOSPC") ELSE Creat(disk, n, 0)
  IN IF r.err # "OK" THEN [NotOpened(CannotWrite(r.err, dir)) EXCEPT !.lastnum = lastnum]
     ELSE [Opened(r.disk, r.disk.names[n], temp) EXCEPT !.lastnum = lastnum]
CreateTemp(p, full) ==
  LET t == tempfile(p.dir)
  IN IF t.err # "OK" THEN NotOpened(CannotWrite(t.err, p.dir))
     ELSE Create(t.name, p.dir, full, t.name, t.lastnum)

OpenToWrite(p, full) ==
  LET err    == Stat(disk, p.real)
      search == Access(disk, p.dir, {"x"})
      mode   == OpenFile(disk, p.real, {"w"})
  IN CASE err = "OK" /\ IsDir(p.real)                    -> NotOpened("IOD")
       [] err = "OK" /\ ~IsDir(p.real) /\ IfExists = "ERROR"    -> NotOpened("FAE")
       [] err = "OK" /\ ~IsDir(p.real) /\ IfExists = "TRUNCATE" -> Create(p.real, p.dir, full, NoFile, main.lastnum)
       [] err = "OK" /\ ~IsDir(p.real) /\ IfExists \in {"OVERWRITE", "APPEND"} ->
            IF mode = "OK" THEN Opened(disk, disk.names[p.real], NoFile) ELSE NotOpened(CannotWrite(mode, p.dir))
       [] err # "OK" /\ search # "OK"                    -> NotOpened(CannotWrite(search, p.dir))
       [] err \notin {"OK", "ENOENT"} /\ search = "OK"   -> NotOpened(CannotWrite(err, p.dir))
       [] err = "ENOENT" /\ search = "OK" /\ IfNotThere = "ERROR" -> NotOpened("FNF")
       [] err = "ENOENT" /\ search = "OK" /\ IfNotThere = "CREATE" /\ IfExists \in {"APPEND", "OVERWRITE", "TRUNCATE"} ->
            Create(p.real, p.dir, full, NoFile, main.lastnum)
       [] OTHER -> CreateTemp(p, full)

OpenToRead(p) ==
  LET err == OpenFile(disk, p.real, {"r"})
  IN CASE err = "OK"      -> Opened(disk, disk.names[p.real], NoFile)
       [] err = "EACCES"  -> NotOpened(IF Access(disk, p.dir, {"x"}) = "OK" THEN "ATF" ELSE "ATD")
       [] err = "ENOTDIR" -> NotOpened("DNF")
       [] OTHER           -> NotOpened(Missing(p.dir))

(* Whether the first four bytes are those of a compiled file.              *)
Compiled(data) ==
  /\ Len(data) >= 4
  /\ \/ SubSeq(data, 1, 4) = <<104, 198, 176, 115>>
     \/ data[1] = 19 /\ data[2] = 240 /\ data[3] < 100 /\ data[4] = 0

Decided(o, r) ==
  IF r.code = "none" /\ {"READ", "DEFAULT"} \subseteq o
    THEN o \cup {IF Compiled(r.disk.files[r.ino].data) THEN "BINARY" ELSE "CHARACTER"} ELSE o
ByteSize(o) ==
  IF "BINARY" \in o /\ A.numbers["BYTE-SIZE"] = 0 THEN 16 ELSE A.numbers["BYTE-SIZE"]
TooBig(o) == "BINARY" \in o /\ ByteSize(o) > 16
Length(o, data) ==
  IF "CHARACTER" \in o \/ ByteSize(o) <= 8 THEN Len(data) ELSE (Len(data) + 1) \div 2

(* The transfer of an OPEN, on file f which it has open.                   *)
OpenXfer(o, p, r) ==
  LET f == r.disk.files[r.ino]
      start == IF "WRITE" \in o /\ IfExists = "APPEND" THEN Len(f.data) ELSE 0
  IN [makexfer(T.fh, IF "READ" \in o THEN "READ" ELSE "WRITE", o) EXCEPT
        !.state = "PROCESS", !.bytesize = ByteSize(o), !.ino = r.ino, !.temp = r.temp,
        !.real = p.real, !.preal = p.real, !.dir = p.dir, !.atime = f.atime, !.mtime = f.mtime,
        !.pos = start, !.base = start]

(* startxfer(): the transfer gets a process, unless the fork fails; then   *)
(* it is flushed.                                                          *)
Started(x) ==
  /\ xfers' = Append(xfers, x)
  /\ handles' = [handles EXCEPT ![T.fh].xfer = Len(xfers) + 1]

(* A PROBE answers what is known of the file; with PROBE-DIRECTORY the     *)
(* name is freed twice at the end, which may be the end of the process.    *)
Probe(o, p) ==
  LET n    == IF "PROBE-DIRECTORY" \in o THEN p.dir ELSE p.real
      err  == StatError([p EXCEPT !.real = n])
      code == IF OpenRefused(o) # "none" THEN OpenRefused(o) ELSE IF TooBig(o) THEN "IBS" ELSE err
  IN /\ main' = Idle(main) \/ ("PROBE-DIRECTORY" \in o /\ Crash)
     /\ IF code = "none" THEN Respond(T.tid, "OK", <<Length(o, File(disk, n).data)>>) ELSE Reply(code)
     /\ UNCHANGED <<handles, xfers, ctlpipe, conns, disk, control, user, faults>>

(* READ or WRITE, with what opening the file has come to.                  *)
OpenFor(o, p, r) ==
  LET d    == Decided(o, r)
      code == IF TooBig(d) THEN "IBS" ELSE r.code
  IN /\ disk' = r.disk /\ main' = [Idle(main) EXCEPT !.lastnum = r.lastnum]
     /\ \/ /\ code # "none" /\ Reply(code) /\ UNCHANGED <<handles, xfers>>
           /\ faults' = IF r.code = "NMR" THEN faults \ {"nospc"} ELSE faults
        \/ /\ code = "none" /\ Started(OpenXfer(d, p, r)) /\ UNCHANGED faults
           /\ Respond(T.tid, "OK", <<Length(d, r.disk.files[r.ino].data)>>)
        \/ /\ code = "none" /\ "fork" \in faults /\ faults' = faults \ {"fork"}
           /\ Reply("NER") /\ UNCHANGED <<handles, xfers>>
     /\ UNCHANGED <<ctlpipe, conns, control, user>>

fileopen ==
  LET p == Parse(A.strings[1], FALSE)
      o == Directed(A.options)
  IN /\ Doing("OPEN")
     /\ CASE p.err # "none"                                    -> Errs(p.err)
          [] p.err = "none" /\ ~A.options \subseteq Openable   -> Errs("ICO")
          [] p.err = "none" /\ A.options \subseteq Openable /\ "PROBE" \in o -> Probe(o, p)
          [] OTHER ->
               CASE OpenRefused(o) # "none"                     -> Errs(OpenRefused(o))
                 [] OpenRefused(o) = "none" /\ "READ" \in o    -> OpenFor(o, p, OpenToRead(p))
                 [] OTHER -> \E full \in {FALSE, "nospc" \in faults} : OpenFor(o, p, OpenToWrite(p, full))
=============================================================================
