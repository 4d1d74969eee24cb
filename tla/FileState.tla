----------------------------- MODULE FileState ------------------------------
(***************************************************************************)
(* What the processes of a FILE server share (FILE.c).  The control        *)
(* process reads commands from the control connection; each OPEN of a      *)
(* file, DIRECTORY or PROPERTIES forks a transfer process that moves data  *)
(* between the disk and a data connection.  A transfer process gets its    *)
(* commands from a pipe of its own, with a SIGHUP to interrupt it, and     *)
(* says on the control pipe that it is done.                               *)
(*                                                                         *)
(* The two connections are the datagram sockets to the Chaosnet server;    *)
(* a write to one whose queue is full waits.                               *)
(***************************************************************************)
EXTENDS FileNames, FileCommands

CONSTANTS
  Scripts,        \* what a user may do: a sequence of [threads, faults, disk, keep]
  FSBSIZE,        \* bytes in a transfer's disk buffer
  CHMAXDATA,      \* bytes in a packet
  NetMax,         \* bound: packets queued in one direction of a data connection
  Digit,          \* the digits of the numbers tempfile() tries: a sequence
  Code,           \* the characters' codes
  PermOf,         \* the protections: a function from words to permissions
  MaskRestored    \* longjmp() out of a handler lets the signal in again

IsSeq(s) == s \in Seq(Range(s))

ASSUME FileAssumption ==
  /\ FSBSIZE \in Nat \ {0} /\ CHMAXDATA \in Nat \ {0} /\ CHMAXDATA % 2 = 0
  /\ NetMax \in Nat \ {0} /\ MaskRestored \in BOOLEAN
  /\ Scripts # << >> /\ IsSeq(Digit) /\ Digit # << >>

(* What a user says: a command has a number of its own, which is none of   *)
(* the marks that stand for no command; what it writes is data or a mark.  *)
NoTids == {"none", "TIDNO", "XXXXX"}
WellSaid(threads) ==
  /\ IsSeq(threads) /\ \A n \in DOMAIN threads : IsSeq(threads[n])
  /\ \A n \in DOMAIN threads : \A k \in DOMAIN threads[n] :
       /\ threads[n][k].do = "put" =>
            threads[n][k].op \in {"DAT", "EOF", "SYN"} /\ threads[n][k].data \in Seq(Int)
       /\ threads[n][k].do = "say" =>
            /\ threads[n][k].tid \notin NoTids
            /\ \A m \in DOMAIN threads : \A l \in DOMAIN threads[m] :
                 threads[m][l].do = "say" /\ threads[m][l].tid = threads[n][k].tid => m = n /\ l = k

(* The disk it finds: every entry is of a file, and a file has bytes.      *)
IsDisk(k) ==
  /\ {"names", "files"} \subseteq DOMAIN k /\ IsSeq(k.files)
  /\ \A n \in DOMAIN k.files : "data" \in DOMAIN k.files[n] /\ IsSeq(k.files[n].data)
  /\ \A n \in Names(k) : k.names[n] \in DOMAIN k.files

ASSUME ScriptAssumption ==
  \A s \in 1 .. Len(Scripts) : WellSaid(Scripts[s].threads) /\ IsDisk(Scripts[s].disk)

VARIABLES
  main,        \* the control process
  handles,     \* file_handles: the handles that exist, by name
  xfers,       \* every transfer so far
  ctlpipe,     \* the transfers announced on the control pipe
  conns,       \* the data connections
  disk,        \* the file system
  control,     \* commands in the control connection
  replies,     \* everything the server has said on the control connection
  user,        \* the user's program and how far it is
  faults       \* failures that may still happen, each of them once

vars == <<main, handles, xfers, ctlpipe, conns, disk, control, replies, user, faults>>

NoCmd  == [tid |-> "none", fh |-> "", cname |-> "", args |-> << >>, after |-> 0]
NoProp == [file |-> << >>, was |-> "none"]
NoFile == << >>             \* no name: the root is never one of a transfer's

(* The transfer processes there are, and those that were not waited for.   *)
Live(i)    == xfers[i].pc \notin {"zombie", "gone"}
Zombies    == {i \in DOMAIN xfers : xfers[i].pc = "zombie"}

Answer(tid, code, results) == [tid |-> tid, code |-> code, results |-> results]
Answered(tid) == \E r \in 1 .. Len(replies) : replies[r].tid = tid

(* The answer of a handler: respond() or error().                          *)
Respond(tid, code, results) == replies' = Append(replies, Answer(tid, code, results))
Mark(fh)                    == Answer("TIDNO", fh, << >>)    \* fherror()

Dead == main.pc \in {"dead", "gone"}

(* A data connection: what is on its way in and out, whether it is up; and *)
(* for the properties what the user has written since a SYNC mark it wrote *)
(* and has read since one it read.                                         *)
NewConn == [in |-> << >>, out |-> << >>, up |-> TRUE, sent |-> << >>, synced |-> FALSE, got |-> << >>]

(* The control process at the start.                                       *)
Fresh == [pc |-> "check", cmd |-> NoCmd, args |-> ainit(<< >>), wait |-> 0, nprocdone |-> 0, lastnum |-> 0,
          home |-> << >>, cwd |-> << >>, victim |-> 0, prop |-> NoProp]

(* fatal(): a transfer process takes the control process with it.          *)
Kill(m) == IF m.pc \in {"dead", "gone"} THEN m ELSE [m EXCEPT !.pc = "dead"]

-----------------------------------------------------------------------------
(* A transfer *)

Kinds == {"READ", "WRITE", "DIR", "PROPERTIES"}
Reading(x) == x.kind # "WRITE"

(* makexfer(), and the process that startxfer() forks.  `listed', `preal'  *)
(* and `pdelete' are the control process's copy of it: it is in xfers, its *)
(* name, and X_DELETE.  The others are the transfer's own.                 *)
makexfer(fh, kind, options) ==
  [fh |-> fh, conn |-> handles[fh].conn, kind |-> kind, options |-> options, bytesize |-> 0,
   listed |-> TRUE, preal |-> NoFile, pdelete |-> FALSE,
   pc |-> "top", state |-> "IDLE", flags |-> {}, close |-> "none", pipe |-> << >>,
   handler |-> "ign", sig |-> FALSE, masked |-> FALSE,
   ino |-> 0, pos |-> 0, base |-> 0, real |-> NoFile, temp |-> NoFile, dir |-> NoFile,
   atime |-> 0, mtime |-> 0,
   buf |-> << >>, left |-> << >>, pkt |-> << >>, op |-> "none",
   glob |-> << >>, err |-> "none", spoiled |-> FALSE, failed |-> FALSE]

(* How the data is converted.                                              *)
Mode(x) ==
  LET o == x.options \cap {"CHARACTER", "RAW", "SUPER-IMAGE"}
  IN CASE x.kind \in {"DIR", "PROPERTIES"} -> "records"
       [] x.kind \in {"READ", "WRITE"} /\ o = {} -> IF x.bytesize <= 8 THEN "bytes" ELSE "raw"
       [] x.kind \in {"READ", "WRITE"} /\ o = {"CHARACTER", "RAW"} -> "raw"
       [] x.kind \in {"READ", "WRITE"} /\ o \in {{"CHARACTER"}, {"CHARACTER", "SUPER-IMAGE"}} -> "lispm"
       [] OTHER -> "none"

(* The character sets, as numbers of eight bits: Lisp machine text has its *)
(* formatting characters from octal 210 on, UNIX text where ASCII has.     *)
ToLispm(c) ==
  CASE c \in 136 .. 141 \/ c = 255  -> c - 128
    [] c = 10                       -> 141
    [] c = 13                       -> 138
    [] c \in {8, 9, 11, 12, 127}    -> c + 128
    [] OTHER                        -> c
FromLispm(c) ==
  CASE c \in 8 .. 13 \/ c = 127          -> c + 128
    [] c = 138                           -> 13
    [] c = 141                           -> 10
    [] c \in {136, 137, 139, 140, 255}   -> c - 128
    [] OTHER                             -> c

(* Bytes of the disk as they go over the net, and back; bytes of eight     *)
(* bits take two each.                                                     *)
Outward(x, s) ==
  CASE Mode(x) = "lispm" -> [i \in 1 .. Len(s) |-> ToLispm(s[i])]
    [] Mode(x) = "bytes" -> [i \in 1 .. 2 * Len(s) |-> IF i % 2 = 1 THEN s[(i + 1) \div 2] ELSE 0]
    [] OTHER             -> s
Inward(x, s) ==
  CASE Mode(x) = "lispm" -> [i \in 1 .. Len(s) |-> FromLispm(s[i])]
    [] Mode(x) = "bytes" -> [i \in 1 .. Len(s) \div 2 |-> s[2 * i - 1]]
    [] OTHER             -> s

LessOf(a, b) == IF a <= b THEN a ELSE b
=============================================================================
