--------------------------- MODULE FileServerProofs ---------------------------
(***************************************************************************)
(* Safety of the FILE server, for any disk, failures and scripts in which  *)
(* no two commands have the same number: one transfer works on a handle,   *)
(* no command is answered twice, the handle is free for the user that has  *)
(* the answer to its CLOSE, and every variable keeps its type.             *)
(***************************************************************************)
EXTENDS FileServer, SequenceTheorems, FiniteSetTheorems, WellFoundedInduction, TLAPS

(***************************************************************************)
(* One transfer: what is in its pipe, where it can be in its program in    *)
(* each state, and what a CLOSE has made of it.                            *)
(***************************************************************************)
Core == {"fh", "conn", "kind", "listed", "pc", "state", "flags", "close", "pipe", "handler", "sig", "op"}

ClosingPcs == {"link", "back1", "back2", "back3", "relink", "unlinktemp", "answer", "mark"}
PastAnswer == {"mark", "zombie", "gone"}
Silent     == {"delfh", "mdatfh", "adatfh"}
Opens      == {"DIRECTORY", "PROPERTIES"}
Speaking   == {"CLOSE", "FILEPOS", "CONTINUE"} \cup Opens

(* A message is told, or passes on a command that has a number.           *)
MsgOK(m) ==
  /\ {"tid", "cname"} \subseteq DOMAIN m
  /\ m.cname \in Silent \cup Speaking
  /\ m.cname \in Speaking => m.tid \notin NoTids

Shape(x)  == Core \subseteq DOMAIN x /\ x.kind \in Kinds
(* The pipe of a transfer: what it is to open comes first.                *)
PipeOK(x) ==
  /\ IsSeq(x.pipe)
  /\ \A k \in DOMAIN x.pipe :
       /\ MsgOK(x.pipe[k])
       /\ x.pipe[k].cname \in Opens => k = 1 /\ x.state = "IDLE" /\ x.pc \in {"top", "cmd", "zombie", "gone"}

(* Where the program of a transfer can be in a state: interrupt() leaves  *)
(* from any of these places.                                              *)
ReadingPcs(state) ==
  CASE state = "IDLE"    -> {"top", "cmd", "work", "hang"}
    [] state = "PROCESS" -> {"top", "cmd", "work", "hang", "posmark", "send", "sent", "last", "bad"}
    [] state = "REOF"    -> {"top", "cmd", "work", "hang", "eof"}
    [] state \in {"SEOF", "BROKEN", "ABORT"} -> {"top", "cmd", "work", "hang"}
    [] state = "DERROR"  -> {"top", "cmd", "work", "derror"}
    [] state = "DONE"    -> {"top", "work", "close"} \cup ClosingPcs
    [] OTHER             -> {}
WritingPcs(state) ==
  CASE state \in {"PROCESS", "WSYNC"} -> {"top", "cmd", "work", "read", "got", "copy", "flush", "full", "reset"}
    [] state = "RETRY"   -> {"top", "cmd", "work", "retry"}
    [] state = "ERROR"   -> {"top", "cmd", "work", "hang", "copy", "full", "reset"}
    [] state \in {"BROKEN", "RSYNC"} -> {"top", "cmd", "work", "hang"}
    [] state = "DONE"    -> {"top", "work", "close"} \cup ClosingPcs
    [] OTHER             -> {}
Place(x) ==
  \/ x.pc \in {"zombie", "gone"}
  \/ x.pc \in IF Reading(x) THEN ReadingPcs(x.state) ELSE WritingPcs(x.state)
Packet(x) == x.pc = "got" => x.op \in {"DAT", "EOF", "SYN", "error"}

(* A CLOSE that has come: no signal is handled and no command read then.  *)
Shutting(x) ==
  /\ "CLOSE" \in x.flags <=> x.close # "none"
  /\ x.close # "none" =>
       /\ x.handler = "ign" /\ x.pc \notin {"cmd", "hang", "posmark"}
       /\ x.state \in IF Reading(x) THEN {"DONE"} ELSE {"PROCESS", "WSYNC", "RETRY", "DONE"}
  /\ x.state = "DONE" => x.close # "none"

Fit(x) == Shape(x) /\ PipeOK(x) /\ Place(x) /\ Packet(x) /\ Shutting(x)

(***************************************************************************)
(* The handles, the transfers on them, and the control pipe: a transfer    *)
(* the control process has dropped from its list does no more work.        *)
(***************************************************************************)
Finished(x) == x.state \in {"DONE", "DERROR"}

HandleOK(f) ==
  /\ {"type", "conn", "other", "xfer"} \subseteq DOMAIN f
  /\ f.type \in {"INPUT", "OUTPUT"} /\ f.conn \in DOMAIN conns
  /\ f.xfer \in {0} \cup DOMAIN xfers
Handles ==
  /\ \A h \in DOMAIN handles : HandleOK(handles[h])
  /\ \A g, h \in DOMAIN handles :
       g # h /\ handles[g].conn = handles[h].conn => handles[g].type # handles[h].type

(* The transfer and its handle point at each other.                       *)
OnHandle(i, x) ==
  /\ x.fh \in DOMAIN handles
  /\ handles[x.fh].xfer = i /\ handles[x.fh].conn = x.conn
  /\ handles[x.fh].type = IF Reading(x) THEN "INPUT" ELSE "OUTPUT"

Fitting == IsSeq(xfers) /\ \A i \in DOMAIN xfers : Fit(xfers[i]) /\ xfers[i].conn \in DOMAIN conns
Listed == \A i \in DOMAIN xfers : IF xfers[i].listed THEN OnHandle(i, xfers[i]) ELSE Finished(xfers[i])
(* What is announced is done, and what closes has been announced.         *)
Posted ==
  /\ IsSeq(ctlpipe)
  /\ \A n \in DOMAIN ctlpipe : ctlpipe[n] \in DOMAIN xfers /\ Finished(xfers[ctlpipe[n]])

Dropped(i) == ~xfers[i].listed \/ Announced(i) \/ Dead
Early      == \A i \in DOMAIN xfers : xfers[i].pc \in ClosingPcs => Dropped(i)

Nets ==
  /\ IsSeq(conns)
  /\ \A d \in DOMAIN conns :
       /\ {"in", "out", "up"} \subseteq DOMAIN conns[d]
       /\ IsSeq(conns[d].in)
       /\ \A k \in DOMAIN conns[d].in : conns[d].in[k].op \in {"DAT", "EOF", "SYN"}

(***************************************************************************)
(* The commands.  Each is in one place: to be said, on the control         *)
(* connection, with the control process, in the pipe of a transfer, a      *)
(* CLOSE that a transfer keeps, or answered.                               *)
(***************************************************************************)
Holding == main.pc \in {"recheck", "rereap", "do", "put"}

Mind ==
  /\ {"pc", "cmd", "args", "wait", "nprocdone", "lastnum", "home", "cwd", "victim", "prop"} \subseteq DOMAIN main
  /\ Holding => main.cmd.tid \notin NoTids /\ main.cmd.after \in 0 .. Len(replies)
  /\ main.pc = "put" /\ main.cmd.fh # "" => main.cmd.fh \in DOMAIN handles

Heard ==
  /\ WellSaid(user.threads) /\ "threads" \in DOMAIN user
  /\ IsSeq(control) /\ IsSeq(replies)
  /\ \A k \in DOMAIN control : control[k].tid \notin NoTids /\ control[k].after \in 0 .. Len(replies)

Asking(x) == {x.pipe[k].tid : k \in {l \in DOMAIN x.pipe : x.pipe[l].cname \in Speaking}}
Unsaid    == Sayings(user.threads)
Waiting   == {control[k].tid : k \in DOMAIN control}
InHand    == IF Holding THEN {main.cmd.tid} ELSE {}
Piped     == UNION {Asking(xfers[i]) : i \in DOMAIN xfers}
Kept      == {xfers[i].close : i \in DOMAIN xfers} \ {"none"}
Given     == {replies[r].tid : r \in DOMAIN replies} \ {"TIDNO"}

(* No command in two of the five places, nor twice in one of them.        *)
Separate(U, W, H, P, Z) ==
  /\ U \cap (W \cup H \cup P \cup Z) = {}
  /\ W \cap (H \cup P \cup Z) = {}
  /\ H \cap (P \cup Z) = {}
  /\ P \cap Z = {}
Apart == Separate(Unsaid, Waiting, InHand, Piped, Kept \cup Given)

SaidOnce == \A k, l \in DOMAIN control : control[k].tid = control[l].tid => k = l
Asked(t, i, k) ==
  /\ i \in DOMAIN xfers /\ k \in DOMAIN xfers[i].pipe
  /\ xfers[i].pipe[k].cname \in Speaking /\ xfers[i].pipe[k].tid = t
AskedOnce ==
  \A t \in Piped : \A i, j \in DOMAIN xfers : \A k \in DOMAIN xfers[i].pipe, l \in DOMAIN xfers[j].pipe :
    Asked(t, i, k) /\ Asked(t, j, l) => i = j /\ k = l
KeptOnce ==
  /\ "TIDNO" \notin Kept
  /\ \A i, j \in DOMAIN xfers : xfers[i].close # "none" /\ xfers[i].close = xfers[j].close => i = j
(* The answer to a CLOSE comes after its announcement.                    *)
ClosedLate ==
  \A i \in DOMAIN xfers :
    xfers[i].close # "none" /\ xfers[i].close \in Given => xfers[i].pc \in PastAnswer /\ Dropped(i)

(***************************************************************************)
(* From when the control process has looked at the control pipe until it   *)
(* is done with the command it has read.                                   *)
(***************************************************************************)
Looked ==
  main.pc \in {"rereap", "do", "put"} =>
    \A i \in DOMAIN xfers :
      xfers[i].listed /\ xfers[i].close # "none" =>
        \A r \in 1 .. main.cmd.after : replies[r].tid # xfers[i].close

Tables == Handles /\ Fitting /\ Listed /\ Posted /\ Early /\ Nets
Tokens == Apart /\ SaidOnce /\ AskedOnce /\ KeptOnce /\ ClosedLate /\ AnsweredOnce
IInv   == Mind /\ Heard /\ Tables /\ Tokens /\ Looked

-----------------------------------------------------------------------------
(* Sequences of anything. *)

(* A sequence that IsSeq holds of is one as the library has them.          *)
LEMMA SeqDomain ==
  ASSUME NEW s, IsSeq(s)
  PROVE  Len(s) \in Nat /\ DOMAIN s = 1 .. Len(s)
<1>. s \in Seq(Range(s)) BY DEF IsSeq
<1>. QED BY LenProperties, Zenon

LEMMA SomeSeq == ASSUME NEW S, NEW s \in Seq(S) PROVE IsSeq(s)
<1>. QED BY SeqOfRange, Zenon DEF IsSeq

LEMMA NoneSeq == IsSeq(<< >>)
<1>. << >> \in Seq({}) BY EmptySeq, Zenon
<1>. QED BY SomeSeq, Zenon

(* Append.                                                                 *)
LEMMA AppendSeq ==
  ASSUME NEW s, IsSeq(s), NEW e
  PROVE  /\ IsSeq(Append(s, e)) /\ DOMAIN Append(s, e) = 1 .. (Len(s) + 1) /\ Len(Append(s, e)) = Len(s) + 1
         /\ Append(s, e)[Len(s) + 1] = e /\ \A k \in DOMAIN s : Append(s, e)[k] = s[k]
<1> DEFINE S == Range(s) \cup {e}
<1>1. s \in Seq(Range(s)) BY DEF IsSeq
<1>2. s \in Seq(S) BY <1>1, SeqMonotonic, Zenon
<1>3. e \in S OBVIOUS
<1> HIDE DEF S
<1>4. /\ Append(s, e) \in Seq(S) /\ Len(Append(s, e)) = Len(s) + 1
      /\ \A k \in 1 .. Len(s) : Append(s, e)[k] = s[k]
      /\ Append(s, e)[Len(s) + 1] = e
  BY <1>2, <1>3, AppendProperties
<1>5. IsSeq(Append(s, e)) BY <1>4, SomeSeq, Zenon
<1>6. DOMAIN Append(s, e) = 1 .. Len(Append(s, e)) BY <1>5, SeqDomain, Zenon
<1>7. DOMAIN s = 1 .. Len(s) BY SeqDomain, Zenon
<1>. QED BY <1>4, <1>5, <1>6, <1>7, Zenon

(* The head and the tail.                                                  *)
LEMMA TailSeq ==
  ASSUME NEW s, IsSeq(s), s # << >>
  PROVE  /\ IsSeq(Tail(s)) /\ DOMAIN Tail(s) = 1 .. (Len(s) - 1) /\ 1 \in DOMAIN s /\ Head(s) = s[1]
         /\ \A k \in DOMAIN Tail(s) : k + 1 \in DOMAIN s /\ k + 1 # 1 /\ Tail(s)[k] = s[k + 1]
<1>1. s \in Seq(Range(s)) BY DEF IsSeq
<1>2. /\ Tail(s) \in Seq(Range(s)) /\ Len(Tail(s)) = Len(s) - 1
      /\ \A k \in 1 .. Len(Tail(s)) : Tail(s)[k] = s[k + 1]
  BY <1>1, HeadTailProperties, Zenon
<1>3. Len(s) \in Nat \ {0} BY <1>1, EmptySeq, Zenon
<1>4. IsSeq(Tail(s)) BY <1>2, SomeSeq, Zenon
<1>5. DOMAIN Tail(s) = 1 .. Len(Tail(s)) BY <1>4, SeqDomain, Zenon
<1>6. DOMAIN s = 1 .. Len(s) BY SeqDomain, Zenon
<1>7. Head(s) = s[1] BY <1>1 DEF IsSeq
<1>. QED BY <1>2, <1>3, <1>4, <1>5, <1>6, <1>7

(* One element changed.                                                    *)
LEMMA ExceptSeqs ==
  ASSUME NEW s, IsSeq(s), NEW i \in DOMAIN s, NEW e
  PROVE  /\ IsSeq([s EXCEPT ![i] = e]) /\ DOMAIN [s EXCEPT ![i] = e] = DOMAIN s
         /\ Len([s EXCEPT ![i] = e]) = Len(s)
         /\ [s EXCEPT ![i] = e][i] = e /\ \A j \in DOMAIN s : j # i => [s EXCEPT ![i] = e][j] = s[j]
<1> DEFINE S == Range(s) \cup {e}
<1>1. s \in Seq(Range(s)) BY DEF IsSeq
<1>2. s \in Seq(S) BY <1>1, SeqMonotonic, Zenon
<1>3. e \in S OBVIOUS
<1>4. DOMAIN s = 1 .. Len(s) BY SeqDomain, Zenon
<1> HIDE DEF S
<1>5. [s EXCEPT ![i] = e] \in Seq(S) /\ Len([s EXCEPT ![i] = e]) = Len(s)
  BY <1>2, <1>3, <1>4, ExceptSeq, Zenon
<1>6. IsSeq([s EXCEPT ![i] = e]) BY <1>5, SomeSeq, Zenon
<1>. QED BY <1>5, <1>6

(* Every element changed.                                                  *)
LEMMA MapSeq ==
  ASSUME NEW s, IsSeq(s), NEW t, DOMAIN t = DOMAIN s, t = [i \in DOMAIN s |-> t[i]]
  PROVE  IsSeq(t) /\ Len(t) = Len(s)
<1>1. DOMAIN s = 1 .. Len(s) /\ Len(s) \in Nat BY SeqDomain, Zenon
<1>2. t \in [1 .. Len(s) -> Range(t)] BY <1>1, Zenon DEF Range
<1>3. t \in Seq(Range(t)) BY <1>1, <1>2, SeqDef
<1>4. IsSeq(t) BY <1>3 DEF IsSeq
<1>5. DOMAIN t = 1 .. Len(t) /\ Len(t) \in Nat BY <1>4, SeqDomain, Zenon
<1>. QED BY <1>1, <1>4, <1>5

-----------------------------------------------------------------------------
(* A step of a transfer, x before and y after: it goes on as the transfer  *)
(* it was, and what is finished stays so.                                  *)
Goes(x, y) ==
  /\ y.fh = x.fh /\ y.conn = x.conn /\ y.kind = x.kind /\ y.listed = x.listed
  /\ Finished(x) => Finished(y)
  /\ x.pc \in PastAnswer => y.pc \in PastAnswer

Quiet(x, y) ==
  /\ Fit(y) /\ Goes(x, y) /\ y.pipe = x.pipe /\ y.close = x.close
  /\ y.pc \in ClosingPcs => x.pc \in ClosingPcs

(* An answer to the command of that number.                                *)
Gives(tid) == \E a : replies' = Append(replies, a) /\ a.tid = tid

NetsKept == DOMAIN conns' = DOMAIN conns /\ (Nets => Nets')

(* What becomes of its commands: nothing, the first one in its pipe is     *)
(* taken, or the CLOSE is answered.                                        *)
Takes(x, y) ==
  /\ x.pipe # << >> /\ y.pipe = Tail(x.pipe)
  /\ \/ Head(x.pipe).cname \in Silent /\ y.close = x.close /\ replies' = replies
     \/ Head(x.pipe).cname = "CLOSE" /\ x.close = "none" /\ y.close = Head(x.pipe).tid /\ replies' = replies
     \/ Head(x.pipe).cname \in Speaking /\ y.close = x.close /\ Gives(Head(x.pipe).tid)
Says(x, y) ==
  /\ y.pipe = x.pipe /\ y.close = x.close
  /\ \/ replies' = replies
     \/ replies' = Append(replies, Mark(x.fh))
     \/ x.close # "none" /\ x.pc = "answer" /\ y.pc \in PastAnswer /\ Gives(x.close)

Steps(i, y) ==
  /\ i \in DOMAIN xfers /\ xfers' = [xfers EXCEPT ![i] = y]
  /\ Fit(y) /\ Goes(xfers[i], y) /\ (Takes(xfers[i], y) \/ Says(xfers[i], y))
  /\ \/ ctlpipe' = ctlpipe /\ (y.pc \in ClosingPcs => xfers[i].pc \in ClosingPcs)
     \/ ctlpipe' = Append(ctlpipe, i) /\ Finished(y)
  /\ handles' = handles /\ control' = control /\ user' = user
  /\ main' = main \/ main' = Kill(main)
  /\ NetsKept

(* The frames keep the connections' input.                                 *)
LEMMA SendNets ==
  ASSUME NEW d, NEW p, conns' = [conns EXCEPT ![d].out = p]
  PROVE  NetsKept
<1>1. DOMAIN conns' = DOMAIN conns OBVIOUS
<1>2. ASSUME Nets PROVE Nets'
  <2>1. conns' = [n \in DOMAIN conns |-> conns'[n]] OBVIOUS
  <2>2. IsSeq(conns') BY <1>1, <1>2, <2>1, MapSeq, Zenon DEF Nets
  <2>3. ASSUME NEW n \in DOMAIN conns PROVE DOMAIN conns'[n] = DOMAIN conns[n] /\ conns'[n].in = conns[n].in
    OBVIOUS
  <2>. QED BY <1>1, <1>2, <2>2, <2>3 DEF Nets
<1>. QED BY <1>1, <1>2 DEF NetsKept

LEMMA SameNets == ASSUME conns' = conns PROVE NetsKept
<1>. QED BY DEF NetsKept, Nets

(* A step that nobody sees.                                                *)
LEMMA QuietSteps ==
  ASSUME NEW i \in DOMAIN xfers, NEW y, Becomes(i, y), Quiet(xfers[i], y),
         UNCHANGED <<main, handles, ctlpipe, control, replies, user>>, NetsKept
  PROVE  Steps(i, y)
<1>. QED BY DEF Steps, Becomes, Quiet, Says

LEMMA AloneSteps ==
  ASSUME NEW i \in DOMAIN xfers, NEW y, Becomes(i, y), Quiet(xfers[i], y), Alone
  PROVE  Steps(i, y)
<1>. QED BY QuietSteps, SameNets DEF Alone

LEMMA OnDiskSteps ==
  ASSUME NEW i \in DOMAIN xfers, NEW y, Becomes(i, y), Quiet(xfers[i], y), OnDisk
  PROVE  Steps(i, y)
<1>. QED BY QuietSteps, SameNets DEF OnDisk

LEMMA WriteSteps ==
  ASSUME NEW i \in DOMAIN xfers, NEW op, NEW data, NEW sent, NEW failed,
         Quiet(xfers[i], sent), Quiet(xfers[i], failed), Write(i, op, data, sent, failed)
  PROVE  \E y : Steps(i, y)
<1>1. CASE ~Up(xfers[i]) /\ Becomes(i, failed) /\ Alone
  BY <1>1, AloneSteps
<1>2. CASE Send(xfers[i], op, data) /\ Becomes(i, sent) /\ OnNet
  <2>1. NetsKept
    <3> DEFINE d == xfers[i].conn  p == Append(conns[d].out, [op |-> op, data |-> data])
    <3>1. conns' = [conns EXCEPT ![d].out = p] BY <1>2 DEF Send
    <3> HIDE DEF d, p
    <3>. QED BY <3>1, SendNets
  <2>2. Steps(i, sent) BY <1>2, <2>1, QuietSteps DEF OnNet
  <2>. QED BY <2>2
<1>. QED BY <1>1, <1>2 DEF Write

-----------------------------------------------------------------------------
(* Each step of a transfer. *)

LEMMA StepInterrupt ==
  ASSUME NEW i \in DOMAIN xfers, Fit(xfers[i]), interrupt(i)
  PROVE  \E y : Steps(i, y)
<1> DEFINE x == xfers[i]
           z == [x EXCEPT !.sig = FALSE, !.pc = "top", !.masked = ~MaskRestored, !.spoiled = @ \/ Midway(x)]
           y == IF x.pipe = << >> THEN [x EXCEPT !.sig = FALSE] ELSE z
<1>1. Fit(x) /\ x.pc \notin {"zombie", "gone"} /\ x.handler = "int" BY DEF interrupt, Live
<1>2. Becomes(i, y) /\ Alone BY DEF interrupt
<1> HIDE DEF x
<1>3. Quiet(x, [x EXCEPT !.sig = FALSE])
  BY <1>1 DEF Quiet, Fit, Goes, Finished, Shape, Core, PipeOK, Place, Packet, Shutting, Reading
<1>4. Quiet(x, z)
  BY <1>1 DEF Quiet, Fit, Goes, Finished, Shape, Core, PipeOK, Place, Packet, Shutting, Reading,
              ReadingPcs, WritingPcs, PastAnswer, ClosingPcs
<1>5. Quiet(x, y) BY <1>3, <1>4
<1>. QED BY <1>2, <1>5, AloneSteps DEF x

(* Each step of a transfer that neither takes nor answers a command.       *)

LEMMA StepTop ==
  ASSUME NEW i \in DOMAIN xfers, Fit(xfers[i]), Top(i)
  PROVE  \E y : Steps(i, y)
<1> DEFINE x == xfers[i]
           y == IF "CLOSE" \in x.flags THEN [x EXCEPT !.pc = "work"]
                ELSE IF x.pipe = << >> THEN [Handled(x) EXCEPT !.pc = "work"]
                ELSE [Deaf(x) EXCEPT !.pc = "cmd"]
<1>1. Fit(x) /\ x.pc = "top" BY DEF Top
<1>2. Becomes(i, y) /\ Alone BY DEF Top
<1> HIDE DEF x
<1>3. Quiet(x, y)
  BY <1>1 DEF Quiet, Fit, Goes, Finished, Shape, Core, PipeOK, Place, Packet, Shutting, Reading,
              ReadingPcs, WritingPcs, PastAnswer, ClosingPcs, Handled, Deaf
<1>. QED BY <1>2, <1>3, AloneSteps DEF x

LEMMA StepHang ==
  ASSUME NEW i \in DOMAIN xfers, Fit(xfers[i]), Hang(i)
  PROVE  \E y : Steps(i, y)
<1> DEFINE x == xfers[i]
           y == [Deaf(x) EXCEPT !.pc = "cmd"]
<1>1. Fit(x) /\ x.pc = "hang" BY DEF Hang
<1>2. Becomes(i, y) /\ Alone BY DEF Hang
<1> HIDE DEF x
<1>3. Quiet(x, y)
  BY <1>1 DEF Quiet, Fit, Goes, Finished, Shape, Core, PipeOK, Place, Packet, Shutting, Reading,
              ReadingPcs, WritingPcs, PastAnswer, ClosingPcs, Deaf
<1>. QED BY <1>2, <1>3, AloneSteps DEF x

LEMMA StepReadWork ==
  ASSUME NEW i \in DOMAIN xfers, Fit(xfers[i]), ReadWork(i)
  PROVE  \E y : Steps(i, y)
<1> DEFINE x == xfers[i]
           y == CASE x.state = "DERROR"                     -> Exit(x)
                  [] x.state = "DONE"                       -> [x EXCEPT !.pc = "close"]
                  [] x.state = "REOF"                       -> [x EXCEPT !.pc = "eof"]
                  [] x.state \in {"BROKEN", "ABORT", "SEOF", "IDLE"} -> [x EXCEPT !.pc = "hang"]
<1>1. Fit(x) /\ x.pc = "work" /\ Reading(x) /\ x.state # "PROCESS" BY DEF ReadWork
<1>2. Becomes(i, y) /\ Alone BY DEF ReadWork
<1> HIDE DEF x
<1>3. Quiet(x, y)
  BY <1>1 DEF Quiet, Fit, Goes, Finished, Shape, Core, PipeOK, Place, Packet, Shutting, Reading,
              ReadingPcs, WritingPcs, PastAnswer, ClosingPcs, Exit
<1>. QED BY <1>2, <1>3, AloneSteps DEF x

LEMMA StepWriteWork ==
  ASSUME NEW i \in DOMAIN xfers, Fit(xfers[i]), WriteWork(i)
  PROVE  \E y : Steps(i, y)
<1> DEFINE x == xfers[i]
           y == CASE x.state = "DONE"                         -> [x EXCEPT !.pc = "close"]
                  [] x.state \in {"BROKEN", "RSYNC", "ERROR"} -> [x EXCEPT !.pc = "hang"]
                  [] x.state \in {"WSYNC", "PROCESS"}         -> [x EXCEPT !.pc = "read"]
                  [] x.state = "RETRY"                        -> [x EXCEPT !.pc = "retry"]
<1>1. Fit(x) /\ x.pc = "work" /\ ~Reading(x) BY DEF WriteWork
<1>2. Becomes(i, y) /\ Alone BY DEF WriteWork
<1> HIDE DEF x
<1>3. Quiet(x, y)
  BY <1>1 DEF Quiet, Fit, Goes, Finished, Shape, Core, PipeOK, Place, Packet, Shutting, Reading,
              ReadingPcs, WritingPcs, PastAnswer, ClosingPcs
<1>. QED BY <1>2, <1>3, AloneSteps DEF x

LEMMA StepSent ==
  ASSUME NEW i \in DOMAIN xfers, Fit(xfers[i]), Sent(i)
  PROVE  \E y : Steps(i, y)
<1> DEFINE x == xfers[i]
           y == [x EXCEPT !.pkt = << >>, !.pc = "top"]
<1>1. Fit(x) /\ x.pc = "sent" BY DEF Sent
<1>2. Becomes(i, y) /\ Alone BY DEF Sent
<1> HIDE DEF x
<1>3. Quiet(x, y)
  BY <1>1 DEF Quiet, Fit, Goes, Finished, Shape, Core, PipeOK, Place, Packet, Shutting, Reading,
              ReadingPcs, WritingPcs, PastAnswer, ClosingPcs
<1>. QED BY <1>2, <1>3, AloneSteps DEF x

LEMMA StepReset ==
  ASSUME NEW i \in DOMAIN xfers, Fit(xfers[i]), Reset(i)
  PROVE  \E y : Steps(i, y)
<1> DEFINE x == xfers[i]
           y == [x EXCEPT !.buf = << >>, !.pc = "copy"]
<1>1. Fit(x) /\ x.pc = "reset" BY DEF Reset
<1>2. Becomes(i, y) /\ Alone BY DEF Reset
<1> HIDE DEF x
<1>3. Quiet(x, y)
  BY <1>1 DEF Quiet, Fit, Goes, Finished, Shape, Core, PipeOK, Place, Packet, Shutting, Reading,
              ReadingPcs, WritingPcs, PastAnswer, ClosingPcs
<1>. QED BY <1>2, <1>3, AloneSteps DEF x

LEMMA StepLinkTemp ==
  ASSUME NEW i \in DOMAIN xfers, Fit(xfers[i]), LinkTemp(i)
  PROVE  \E y : Steps(i, y)
<1> DEFINE x == xfers[i]
           y == CASE Link(disk, x.temp, x.real).err = "OK"      -> To(x, "unlinktemp")
                  [] Link(disk, x.temp, x.real).err = "EEXIST" -> To(x, "back1")
                  [] OTHER -> [x EXCEPT !.err = "MSC", !.pc = "answer"]
<1>1. Fit(x) /\ x.pc = "link" BY DEF LinkTemp, Call
<1>2. Becomes(i, y) /\ OnDisk BY DEF LinkTemp, Call
<1> HIDE DEF x
<1>3. Quiet(x, y)
  BY <1>1 DEF Quiet, Fit, Goes, Finished, Shape, Core, PipeOK, Place, Packet, Shutting, Reading,
              ReadingPcs, WritingPcs, PastAnswer, ClosingPcs, To
<1>. QED BY <1>2, <1>3, OnDiskSteps DEF x

LEMMA StepBackUnlink ==
  ASSUME NEW i \in DOMAIN xfers, Fit(xfers[i]), BackUnlink(i)
  PROVE  \E y : Steps(i, y)
<1> DEFINE x == xfers[i]
           y == To(x, "back2")
<1>1. Fit(x) /\ x.pc = "back1" BY DEF BackUnlink, Call
<1>2. Becomes(i, y) /\ OnDisk BY DEF BackUnlink, Call
<1> HIDE DEF x
<1>3. Quiet(x, y)
  BY <1>1 DEF Quiet, Fit, Goes, Finished, Shape, Core, PipeOK, Place, Packet, Shutting, Reading,
              ReadingPcs, WritingPcs, PastAnswer, ClosingPcs, To
<1>. QED BY <1>2, <1>3, OnDiskSteps DEF x

LEMMA StepBackLink ==
  ASSUME NEW i \in DOMAIN xfers, Fit(xfers[i]), BackLink(i)
  PROVE  \E y : Steps(i, y)
<1> DEFINE x == xfers[i]
           y == To(x, IF Link(disk, x.real, Backup(x.real)).err = "OK" THEN "back3" ELSE "relink")
<1>1. Fit(x) /\ x.pc = "back2" BY DEF BackLink, Call
<1>2. Becomes(i, y) /\ OnDisk BY DEF BackLink, Call
<1> HIDE DEF x
<1>3. Quiet(x, y)
  BY <1>1 DEF Quiet, Fit, Goes, Finished, Shape, Core, PipeOK, Place, Packet, Shutting, Reading,
              ReadingPcs, WritingPcs, PastAnswer, ClosingPcs, To
<1>. QED BY <1>2, <1>3, OnDiskSteps DEF x

LEMMA StepUnlinkReal ==
  ASSUME NEW i \in DOMAIN xfers, Fit(xfers[i]), UnlinkReal(i)
  PROVE  \E y : Steps(i, y)
<1> DEFINE x == xfers[i]
           y == To(x, "relink")
<1>1. Fit(x) /\ x.pc = "back3" BY DEF UnlinkReal, Call
<1>2. Becomes(i, y) /\ OnDisk BY DEF UnlinkReal, Call
<1> HIDE DEF x
<1>3. Quiet(x, y)
  BY <1>1 DEF Quiet, Fit, Goes, Finished, Shape, Core, PipeOK, Place, Packet, Shutting, Reading,
              ReadingPcs, WritingPcs, PastAnswer, ClosingPcs, To
<1>. QED BY <1>2, <1>3, OnDiskSteps DEF x

LEMMA StepRelink ==
  ASSUME NEW i \in DOMAIN xfers, Fit(xfers[i]), Relink(i)
  PROVE  \E y : Steps(i, y)
<1> DEFINE x == xfers[i]
           y == IF Link(disk, x.temp, x.real).err = "OK" THEN To(x, "unlinktemp")
                                                        ELSE [x EXCEPT !.err = "MSC", !.pc = "answer"]
<1>1. Fit(x) /\ x.pc = "relink" BY DEF Relink, Call
<1>2. Becomes(i, y) /\ OnDisk BY DEF Relink, Call
<1> HIDE DEF x
<1>3. Quiet(x, y)
  BY <1>1 DEF Quiet, Fit, Goes, Finished, Shape, Core, PipeOK, Place, Packet, Shutting, Reading,
              ReadingPcs, WritingPcs, PastAnswer, ClosingPcs, To
<1>. QED BY <1>2, <1>3, OnDiskSteps DEF x

LEMMA StepUnlinkTemp ==
  ASSUME NEW i \in DOMAIN xfers, Fit(xfers[i]), UnlinkTemp(i)
  PROVE  \E y : Steps(i, y)
<1> DEFINE x == xfers[i]
           y == To(x, "answer")
<1>1. Fit(x) /\ x.pc = "unlinktemp" BY DEF UnlinkTemp, Call
<1>2. Becomes(i, y) /\ OnDisk BY DEF UnlinkTemp, Call
<1> HIDE DEF x
<1>3. Quiet(x, y)
  BY <1>1 DEF Quiet, Fit, Goes, Finished, Shape, Core, PipeOK, Place, Packet, Shutting, Reading,
              ReadingPcs, WritingPcs, PastAnswer, ClosingPcs, To
<1>. QED BY <1>2, <1>3, OnDiskSteps DEF x

LEMMA StepSendFull ==
  ASSUME NEW i \in DOMAIN xfers, Fit(xfers[i]), SendFull(i)
  PROVE  \E y : Steps(i, y)
<1> DEFINE x == xfers[i]
           sent == [x EXCEPT !.pc = "sent"]
           failed == [x EXCEPT !.state = "BROKEN", !.pc = "top"]
<1>1. Fit(x) /\ x.pc = "send" BY DEF SendFull
<1>2. Write(i, Op(x), x.pkt, sent, failed) BY DEF SendFull
<1> HIDE DEF x
<1>3. Quiet(x, sent)
  BY <1>1 DEF Quiet, Fit, Goes, Finished, Shape, Core, PipeOK, Place, Packet, Shutting, Reading,
              ReadingPcs, WritingPcs, PastAnswer, ClosingPcs
<1>4. Quiet(x, failed)
  BY <1>1 DEF Quiet, Fit, Goes, Finished, Shape, Core, PipeOK, Place, Packet, Shutting, Reading,
              ReadingPcs, WritingPcs, PastAnswer, ClosingPcs
<1>. QED BY <1>2, <1>3, <1>4, WriteSteps DEF x

LEMMA StepSendLast ==
  ASSUME NEW i \in DOMAIN xfers, Fit(xfers[i]), SendLast(i)
  PROVE  \E y : Steps(i, y)
<1> DEFINE x == xfers[i]
           sent == [[x EXCEPT !.state = "REOF", !.pc = "top"] EXCEPT !.pkt = << >>]
           failed == [x EXCEPT !.state = "BROKEN", !.pc = "top"]
<1>1. Fit(x) /\ x.pc = "last" BY DEF SendLast
<1>2. \/ Becomes(i, [x EXCEPT !.state = "REOF", !.pc = "top"]) /\ Alone
      \/ Write(i, Op(x), x.pkt, sent, failed) BY DEF SendLast
<1> HIDE DEF x
<1>3. Quiet(x, sent)
  BY <1>1 DEF Quiet, Fit, Goes, Finished, Shape, Core, PipeOK, Place, Packet, Shutting, Reading,
              ReadingPcs, WritingPcs, PastAnswer, ClosingPcs
<1>4. Quiet(x, failed)
  BY <1>1 DEF Quiet, Fit, Goes, Finished, Shape, Core, PipeOK, Place, Packet, Shutting, Reading,
              ReadingPcs, WritingPcs, PastAnswer, ClosingPcs
<1>5. Quiet(x, [x EXCEPT !.state = "REOF", !.pc = "top"])
  BY <1>1 DEF Quiet, Fit, Goes, Finished, Shape, Core, PipeOK, Place, Packet, Shutting, Reading,
              ReadingPcs, WritingPcs, PastAnswer, ClosingPcs
<1>. QED BY <1>2, <1>3, <1>4, <1>5, AloneSteps, WriteSteps DEF x

LEMMA StepSendEof ==
  ASSUME NEW i \in DOMAIN xfers, Fit(xfers[i]), SendEof(i)
  PROVE  \E y : Steps(i, y)
<1> DEFINE x == xfers[i]
           sent == [x EXCEPT !.state = "SEOF", !.pc = "top"]
           failed == [x EXCEPT !.state = "BROKEN", !.pc = "top"]
<1>1. Fit(x) /\ x.pc = "eof" BY DEF SendEof
<1>2. Write(i, "EOF", << >>, sent, failed) BY DEF SendEof
<1> HIDE DEF x
<1>3. Quiet(x, sent)
  BY <1>1 DEF Quiet, Fit, Goes, Finished, Shape, Core, PipeOK, Place, Packet, Shutting, Reading,
              ReadingPcs, WritingPcs, PastAnswer, ClosingPcs
<1>4. Quiet(x, failed)
  BY <1>1 DEF Quiet, Fit, Goes, Finished, Shape, Core, PipeOK, Place, Packet, Shutting, Reading,
              ReadingPcs, WritingPcs, PastAnswer, ClosingPcs
<1>. QED BY <1>2, <1>3, <1>4, WriteSteps DEF x

LEMMA StepSendBad ==
  ASSUME NEW i \in DOMAIN xfers, Fit(xfers[i]), SendBad(i)
  PROVE  \E y : Steps(i, y)
<1> DEFINE x == xfers[i]
           sent == [x EXCEPT !.state = "ABORT", !.pc = "top"]
           failed == [x EXCEPT !.state = "BROKEN", !.pc = "top"]
<1>1. Fit(x) /\ x.pc = "bad" BY DEF SendBad
<1>2. Write(i, "ASY", << >>, sent, failed) BY DEF SendBad
<1> HIDE DEF x
<1>3. Quiet(x, sent)
  BY <1>1 DEF Quiet, Fit, Goes, Finished, Shape, Core, PipeOK, Place, Packet, Shutting, Reading,
              ReadingPcs, WritingPcs, PastAnswer, ClosingPcs
<1>4. Quiet(x, failed)
  BY <1>1 DEF Quiet, Fit, Goes, Finished, Shape, Core, PipeOK, Place, Packet, Shutting, Reading,
              ReadingPcs, WritingPcs, PastAnswer, ClosingPcs
<1>. QED BY <1>2, <1>3, <1>4, WriteSteps DEF x

LEMMA StepSyncMark ==
  ASSUME NEW i \in DOMAIN xfers, Fit(xfers[i]), SyncMark(i)
  PROVE  \E y : Steps(i, y)
<1> DEFINE x == xfers[i]
           sent == Exit(x)
           failed == Exit(x)
<1>1. Fit(x) /\ x.pc = "mark" BY DEF SyncMark
<1>2. Write(i, "SYN", << >>, sent, failed) BY DEF SyncMark
<1> HIDE DEF x
<1>3. Quiet(x, sent)
  BY <1>1 DEF Quiet, Fit, Goes, Finished, Shape, Core, PipeOK, Place, Packet, Shutting, Reading,
              ReadingPcs, WritingPcs, PastAnswer, ClosingPcs, Exit
<1>4. Quiet(x, failed)
  BY <1>1 DEF Quiet, Fit, Goes, Finished, Shape, Core, PipeOK, Place, Packet, Shutting, Reading,
              ReadingPcs, WritingPcs, PastAnswer, ClosingPcs, Exit
<1>. QED BY <1>2, <1>3, <1>4, WriteSteps DEF x

LEMMA StepFill ==
  ASSUME NEW i \in DOMAIN xfers, Fit(xfers[i]), Fill(i)
  PROVE  \E y : Steps(i, y)
<1> DEFINE x == xfers[i]
           y == IF x.buf = << >> THEN Taken(x) ELSE x
<1>1. Fit(x) /\ x.pc = "work" /\ Reading(x) /\ x.state = "PROCESS" BY DEF Fill
<1>2. /\ \/ Becomes(i, [x EXCEPT !.pc = "send"]) \/ Becomes(i, [x EXCEPT !.pc = "bad"])
         \/ Becomes(i, [y EXCEPT !.pc = "last"]) \/ Becomes(i, y) \/ Becomes(i, Copied(y))
      /\ Alone
  BY DEF Fill
<1> HIDE DEF x
<1>3. /\ y.fh = x.fh /\ y.conn = x.conn /\ y.kind = x.kind /\ y.listed = x.listed /\ y.pc = x.pc
      /\ y.state = x.state /\ y.pipe = x.pipe /\ y.close = x.close /\ y.handler = x.handler
      /\ y.flags = x.flags /\ DOMAIN y = DOMAIN x
  BY <1>1 DEF Taken, Fit, Shape, Kinds, Reading
<1> HIDE DEF y
<1>4. Quiet(x, [x EXCEPT !.pc = "send"]) /\ Quiet(x, [x EXCEPT !.pc = "bad"])
  BY <1>1 DEF Quiet, Fit, Goes, Finished, Shape, Core, PipeOK, Place, Packet, Shutting, Reading,
              ReadingPcs, WritingPcs, PastAnswer, ClosingPcs
<1>5. Quiet(x, [y EXCEPT !.pc = "last"])
  BY <1>1, <1>3 DEF Quiet, Fit, Goes, Finished, Shape, Core, PipeOK, Place, Packet, Shutting, Reading,
              ReadingPcs, WritingPcs, PastAnswer, ClosingPcs
<1>6. Quiet(x, y)
  BY <1>1, <1>3 DEF Quiet, Fit, Goes, Finished, Shape, Core, PipeOK, Place, Packet, Shutting, Reading,
              ReadingPcs, WritingPcs, PastAnswer, ClosingPcs
<1>7. Quiet(x, Copied(y))
  BY <1>1, <1>3 DEF Copied, Quiet, Fit, Goes, Finished, Shape, Core, PipeOK, Place, Packet, Shutting, Reading,
              ReadingPcs, WritingPcs, PastAnswer, ClosingPcs
<1>. QED BY <1>2, <1>4, <1>5, <1>6, <1>7, AloneSteps DEF x

LEMMA StepCopy ==
  ASSUME NEW i \in DOMAIN xfers, Fit(xfers[i]), Copy(i)
  PROVE  \E y : Steps(i, y)
<1> DEFINE x == xfers[i]
           y == [x EXCEPT !.buf = @ \o Inward(x, SubSeq(x.left, 1, Enters(x))), !.left = From(@, Enters(x) + 1)]
<1>1. Fit(x) /\ x.pc = "copy" BY DEF Copy
<1>2. /\ \/ Becomes(i, [x EXCEPT !.pc = "top"]) \/ Becomes(i, Exit(x))
         \/ Becomes(i, [y EXCEPT !.pc = "full"]) \/ Becomes(i, y)
      /\ Alone
  BY DEF Copy
<1> HIDE DEF x
<1>3. Quiet(x, [x EXCEPT !.pc = "top"]) /\ Quiet(x, Exit(x))
  BY <1>1 DEF Exit, Quiet, Fit, Goes, Finished, Shape, Core, PipeOK, Place, Packet, Shutting, Reading,
              ReadingPcs, WritingPcs, PastAnswer, ClosingPcs
<1>4. /\ y.fh = x.fh /\ y.conn = x.conn /\ y.kind = x.kind /\ y.listed = x.listed /\ y.pc = x.pc
      /\ y.state = x.state /\ y.pipe = x.pipe /\ y.close = x.close /\ y.handler = x.handler
      /\ y.flags = x.flags /\ DOMAIN y = DOMAIN x
  OBVIOUS
<1> HIDE DEF y
<1>5. Quiet(x, y)
  BY <1>1, <1>4 DEF Quiet, Fit, Goes, Finished, Shape, Core, PipeOK, Place, Packet, Shutting, Reading,
              ReadingPcs, WritingPcs, PastAnswer, ClosingPcs
<1>6. Quiet(x, [y EXCEPT !.pc = "full"])
  BY <1>1, <1>4 DEF Quiet, Fit, Goes, Finished, Shape, Core, PipeOK, Place, Packet, Shutting, Reading,
              ReadingPcs, WritingPcs, PastAnswer, ClosingPcs
<1>. QED BY <1>2, <1>3, <1>5, <1>6, AloneSteps DEF x

-----------------------------------------------------------------------------
(* Each step of a transfer that the user or another process is told of. *)

LEMMA MarkSteps ==
  ASSUME NEW i \in DOMAIN xfers, NEW y, Becomes(i, y), Quiet(xfers[i], y),
         replies' = Append(replies, Mark(xfers[i].fh)),
         UNCHANGED <<main, handles, ctlpipe, conns, control, user>>
  PROVE  Steps(i, y)
<1>. QED BY SameNets DEF Steps, Becomes, Quiet, Says

LEMMA FatalSteps ==
  ASSUME NEW i \in DOMAIN xfers, Fit(xfers[i]), Fatal(i)
  PROVE  \E y : Steps(i, y)
<1> DEFINE x == xfers[i]
<1>1. Fit(x) /\ Becomes(i, Exit(x)) /\ main' = Kill(main)
      /\ UNCHANGED <<handles, ctlpipe, conns, control, replies, user>>
  BY DEF Fatal
<1> HIDE DEF x
<1>2. Quiet(x, Exit(x))
  BY <1>1 DEF Exit, Quiet, Fit, Goes, Finished, Shape, Core, PipeOK, Place, Packet, Shutting, Reading,
              ReadingPcs, WritingPcs, PastAnswer, ClosingPcs
<1>3. Steps(i, Exit(x)) BY <1>1, <1>2, SameNets DEF Steps, Becomes, Quiet, Says, x
<1>. QED BY <1>3

(* The buffer written to the disk, or not.                                 *)
LEMMA XbwriteSteps ==
  ASSUME NEW i \in DOMAIN xfers, Fit(xfers[i]), NEW after, NEW back, Xbwrite(i, after, back),
         Quiet(xfers[i], after), Quiet(xfers[i], Failed(xfers[i], back))
  PROVE  \E y : Steps(i, y)
<1>1. CASE Becomes(i, after) /\ OnDisk BY <1>1, OnDiskSteps
<1>2. CASE /\ Becomes(i, Failed(xfers[i], back)) /\ replies' = Append(replies, Mark(xfers[i].fh))
           /\ UNCHANGED <<main, handles, ctlpipe, conns, disk, control, user>>
  BY <1>2, MarkSteps
<1>. QED BY <1>1, <1>2 DEF Xbwrite

LEMMA StepFull ==
  ASSUME NEW i \in DOMAIN xfers, Fit(xfers[i]), Full(i)
  PROVE  \E y : Steps(i, y)
<1> DEFINE x == xfers[i]
           after == [Stored(x) EXCEPT !.pc = "reset"]
<1>1. Fit(x) /\ x.pc = "full" /\ Xbwrite(i, after, "copy") BY DEF Full
<1> HIDE DEF x
<1>2. Quiet(x, after)
  BY <1>1 DEF Stored, Quiet, Fit, Goes, Finished, Shape, Core, PipeOK, Place, Packet, Shutting, Reading,
              ReadingPcs, WritingPcs, PastAnswer, ClosingPcs
<1>3. Quiet(x, Failed(x, "copy"))
  BY <1>1 DEF Failed, Quiet, Fit, Goes, Finished, Shape, Core, PipeOK, Place, Packet, Shutting, Reading,
              ReadingPcs, WritingPcs, PastAnswer, ClosingPcs
<1> HIDE DEF after
<1>. QED BY <1>1, <1>2, <1>3, XbwriteSteps DEF x

LEMMA StepFlush ==
  ASSUME NEW i \in DOMAIN xfers, Fit(xfers[i]), Flush(i)
  PROVE  \E y : Steps(i, y)
<1> DEFINE x == xfers[i]
           after == [Stored(x) EXCEPT !.pc = "top", !.state = "WSYNC"]
<1>1. Fit(x) /\ x.pc = "flush" /\ Xbwrite(i, after, "top") BY DEF Flush
<1> HIDE DEF x
<1>2. Quiet(x, after)
  BY <1>1 DEF Stored, Quiet, Fit, Goes, Finished, Shape, Core, PipeOK, Place, Packet, Shutting, Reading,
              ReadingPcs, WritingPcs, PastAnswer, ClosingPcs
<1>3. Quiet(x, Failed(x, "top"))
  BY <1>1 DEF Failed, Quiet, Fit, Goes, Finished, Shape, Core, PipeOK, Place, Packet, Shutting, Reading,
              ReadingPcs, WritingPcs, PastAnswer, ClosingPcs
<1> HIDE DEF after
<1>. QED BY <1>1, <1>2, <1>3, XbwriteSteps DEF x

LEMMA StepRetry ==
  ASSUME NEW i \in DOMAIN xfers, Fit(xfers[i]), Retry(i)
  PROVE  \E y : Steps(i, y)
<1> DEFINE x == xfers[i]
           after == [Stored(x) EXCEPT !.pc = "top", !.spoiled = @ \/ (x.buf # << >> /\ "EOF" \notin x.flags),
                                     !.state = IF "EOF" \in x.flags THEN "WSYNC" ELSE "PROCESS"]
<1>1. Fit(x) /\ x.pc = "retry" /\ Xbwrite(i, after, "top") BY DEF Retry
<1> HIDE DEF x
<1>2. Quiet(x, after)
  BY <1>1 DEF Stored, Quiet, Fit, Goes, Finished, Shape, Core, PipeOK, Place, Packet, Shutting, Reading,
              ReadingPcs, WritingPcs, PastAnswer, ClosingPcs
<1>3. Quiet(x, Failed(x, "top"))
  BY <1>1 DEF Failed, Quiet, Fit, Goes, Finished, Shape, Core, PipeOK, Place, Packet, Shutting, Reading,
              ReadingPcs, WritingPcs, PastAnswer, ClosingPcs
<1> HIDE DEF after
<1>. QED BY <1>1, <1>2, <1>3, XbwriteSteps DEF x

(* A packet from the net is one of those the user writes.                  *)
LEMMA StepXpread ==
  ASSUME NEW i \in DOMAIN xfers, Fit(xfers[i]), xfers[i].conn \in DOMAIN conns, Nets, Xpread(i)
  PROVE  \E y : Steps(i, y)
<1> DEFINE x == xfers[i]
           in == conns[x.conn].in
           y == [x EXCEPT !.pc = "got", !.op = Head(in).op, !.left = Head(in).data]
           z == [x EXCEPT !.pc = "got", !.op = "error", !.left = << >>]
<1>1. Fit(x) /\ x.pc = "read" /\ x.conn \in DOMAIN conns BY DEF Xpread
<1>2. \/ in # << >> /\ conns' = [conns EXCEPT ![x.conn].in = Tail(in)] /\ Becomes(i, y) /\ OnNet
      \/ Becomes(i, z) /\ Alone
  BY DEF Xpread
<1> HIDE DEF x
<1>3. CASE in # << >> /\ conns' = [conns EXCEPT ![x.conn].in = Tail(in)] /\ Becomes(i, y) /\ OnNet
  <2>1. IsSeq(in) /\ \A k \in DOMAIN in : in[k].op \in {"DAT", "EOF", "SYN"} BY <1>1 DEF Nets
  <2> DEFINE rest == Tail(in)
  <2>2. /\ IsSeq(rest) /\ 1 \in DOMAIN in /\ Head(in) = in[1]
        /\ \A k \in DOMAIN rest : k + 1 \in DOMAIN in /\ rest[k] = in[k + 1]
    <3> HIDE DEF in
    <3>. QED BY <1>3, <2>1, TailSeq
  <2>3. Head(in).op \in {"DAT", "EOF", "SYN"} BY <2>1, <2>2
  <2>4. \A k \in DOMAIN rest : rest[k].op \in {"DAT", "EOF", "SYN"}
    <3> HIDE DEF in, rest
    <3>. QED BY <2>1, <2>2
  <2>5. Quiet(x, y)
    <3> HIDE DEF in
    <3>. QED BY <1>1, <2>3 DEF Quiet, Fit, Goes, Finished, Shape, Core, PipeOK, Place, Packet, Shutting, Reading,
              ReadingPcs, WritingPcs, PastAnswer, ClosingPcs
  <2>6. NetsKept
    <3>1. conns' = [conns EXCEPT ![x.conn].in = rest] BY <1>3
    <3> HIDE DEF rest, in
    <3>2. conns' = [n \in DOMAIN conns |-> conns'[n]] /\ DOMAIN conns' = DOMAIN conns BY <3>1
    <3>3. IsSeq(conns') BY <3>2, MapSeq, Zenon DEF Nets
    <3>4. ASSUME NEW n \in DOMAIN conns PROVE /\ DOMAIN conns'[n] = DOMAIN conns[n]
                                              /\ conns'[n].in = IF n = x.conn THEN rest ELSE conns[n].in
      BY <3>1, <1>1 DEF Nets
    <3>5. Nets' BY <2>2, <2>4, <3>2, <3>3, <3>4 DEF Nets
    <3>. QED BY <3>2, <3>5 DEF NetsKept
  <2> HIDE DEF y
  <2>7. Steps(i, y) BY <1>3, <2>5, <2>6, QuietSteps DEF OnNet, x
  <2>. QED BY <2>7
<1>4. CASE Becomes(i, z) /\ Alone
  <2>1. Quiet(x, z)
    BY <1>1 DEF Quiet, Fit, Goes, Finished, Shape, Core, PipeOK, Place, Packet, Shutting, Reading,
              ReadingPcs, WritingPcs, PastAnswer, ClosingPcs
  <2>. QED BY <1>4, <2>1, AloneSteps DEF x
<1>. QED BY <1>2, <1>3, <1>4

LEMMA StepGot ==
  ASSUME NEW i \in DOMAIN xfers, Fit(xfers[i]), Got(i)
  PROVE  \E y : Steps(i, y)
<1> DEFINE v == xfers[i]
           x == [v EXCEPT !.pc = "top"]
           y1 == [x EXCEPT !.state = ToClose(x, "RSYNC")]
           y2 == [x EXCEPT !.state = ToClose(x, "BROKEN"), !.failed = TRUE]
           y3 == [x EXCEPT !.flags = @ \cup {"EOF"}, !.pc = "flush"]
           y4 == [x EXCEPT !.pc = "copy"]
           y5 == [x EXCEPT !.left = << >>]
<1>1. Fit(v) /\ v.pc = "got" BY DEF Got
<1>2. v.op \in {"DAT", "EOF", "SYN", "error"} /\ v.state \in {"PROCESS", "WSYNC"} /\ ~Reading(v)
  <2> HIDE DEF v
  <2>. QED BY <1>1 DEF Fit, Packet, Place, ReadingPcs, WritingPcs, Reading, ClosingPcs
<1>3. x.op = v.op /\ x.state = v.state /\ x.fh = v.fh
  <2> HIDE DEF v
  <2>. QED OBVIOUS
<1>4. \/ Becomes(i, y1) /\ Alone
      \/ v.state = "PROCESS" /\ Becomes(i, y3) /\ Alone
      \/ v.state = "PROCESS" /\ Becomes(i, y4) /\ Alone
      \/ Becomes(i, y5) /\ Alone
      \/ Becomes(i, y2) /\ OnControl /\ (replies' = Append(replies, Mark(v.fh)) \/ replies' = replies)
  <2>0. Got(i) OBVIOUS
  <2> HIDE DEF y1, y2, y3, y4, y5
  <2>1. CASE v.op = "SYN"   BY <2>0, <2>1, <1>3 DEF Got, y1
  <2>2. CASE v.op = "error" BY <2>0, <2>2, <1>3 DEF Got, y2
  <2>3. CASE v.op = "EOF"   BY <2>0, <2>3, <1>2, <1>3 DEF Got, y3, y5
  <2>4. CASE v.op = "DAT"   BY <2>0, <2>4, <1>2, <1>3 DEF Got, y4, y5
  <2>. QED BY <1>2, <2>1, <2>2, <2>3, <2>4
<1> HIDE DEF v
<1>5. Quiet(v, y1)
  BY <1>1, <1>2 DEF ToClose, Quiet, Fit, Goes, Finished, Shape, Core, PipeOK, Place, Packet, Shutting, Reading,
              ReadingPcs, WritingPcs, PastAnswer, ClosingPcs
<1>6. Quiet(v, y2)
  BY <1>1, <1>2 DEF ToClose, Quiet, Fit, Goes, Finished, Shape, Core, PipeOK, Place, Packet, Shutting, Reading,
              ReadingPcs, WritingPcs, PastAnswer, ClosingPcs
<1>7. v.state = "PROCESS" => Quiet(v, y3)
  BY <1>1, <1>2 DEF Quiet, Fit, Goes, Finished, Shape, Core, PipeOK, Place, Packet, Shutting, Reading,
              ReadingPcs, WritingPcs, PastAnswer, ClosingPcs
<1>8. v.state = "PROCESS" => Quiet(v, y4)
  BY <1>1, <1>2 DEF Quiet, Fit, Goes, Finished, Shape, Core, PipeOK, Place, Packet, Shutting, Reading,
              ReadingPcs, WritingPcs, PastAnswer, ClosingPcs
<1>9. Quiet(v, y5)
  BY <1>1, <1>2 DEF Quiet, Fit, Goes, Finished, Shape, Core, PipeOK, Place, Packet, Shutting, Reading,
              ReadingPcs, WritingPcs, PastAnswer, ClosingPcs
<1> HIDE DEF y1, y2, y3, y4, y5, x
<1>10. CASE Becomes(i, y2) /\ OnControl /\ replies' = Append(replies, Mark(v.fh))
  BY <1>6, <1>10, MarkSteps DEF OnControl, v
<1>11. CASE Becomes(i, y2) /\ OnControl /\ replies' = replies
  BY <1>6, <1>11, QuietSteps, SameNets DEF OnControl, v
<1>. QED BY <1>4, <1>5, <1>7, <1>8, <1>9, <1>10, <1>11, AloneSteps DEF v

LEMMA StepPosMark ==
  ASSUME NEW i \in DOMAIN xfers, Fit(xfers[i]), PosMark(i)
  PROVE  \E y : Steps(i, y)
<1> DEFINE x == xfers[i]
           y == [x EXCEPT !.pc = "top", !.base = x.pos]
<1>1. CASE Fatal(i) BY <1>1, FatalSteps
<1>2. CASE Send(x, "SYN", << >>) /\ Becomes(i, y) /\ OnNet
  <2>1. NetsKept
    <3> DEFINE d == x.conn  p == Append(conns[d].out, [op |-> "SYN", data |-> << >>])
    <3>1. conns' = [conns EXCEPT ![d].out = p] BY <1>2 DEF Send
    <3> HIDE DEF d, p
    <3>. QED BY <3>1, SendNets
  <2>2. Fit(x) /\ x.pc = "posmark" BY DEF PosMark
  <2>3. Quiet(x, y)
    <3> HIDE DEF x
    <3>. QED BY <2>2 DEF Quiet, Fit, Goes, Finished, Shape, Core, PipeOK, Place, Packet, Shutting, Reading,
              ReadingPcs, WritingPcs, PastAnswer, ClosingPcs
  <2> HIDE DEF y
  <2>. QED BY <1>2, <2>1, <2>3, QuietSteps DEF OnNet
<1>. QED BY <1>1, <1>2 DEF PosMark

LEMMA StepPipeBroken ==
  ASSUME NEW i \in DOMAIN xfers, Fit(xfers[i]), PipeBroken(i)
  PROVE  \E y : Steps(i, y)
<1>. QED BY FatalSteps DEF PipeBroken

(* The end of a transfer is said on the control pipe, unless nobody hears. *)
LEMMA AnnounceSteps ==
  ASSUME NEW i \in DOMAIN xfers, Fit(xfers[i]), NEW y, Announce(i, y),
         Fit(y), Goes(xfers[i], y), y.pipe = xfers[i].pipe, y.close = xfers[i].close, Finished(y)
  PROVE  \E z : Steps(i, z)
<1>1. CASE Dead
  <2> DEFINE x == xfers[i]
  <2>1. Fit(x) /\ Becomes(i, Exit(x)) /\ ctlpipe' = ctlpipe
        /\ UNCHANGED <<main, handles, conns, control, replies, user>>
    BY <1>1 DEF Announce
  <2> HIDE DEF x
  <2>2. Quiet(x, Exit(x))
    BY <2>1 DEF Exit, Quiet, Fit, Goes, Finished, Shape, Core, PipeOK, Place, Packet, Shutting, Reading,
              ReadingPcs, WritingPcs, PastAnswer, ClosingPcs
  <2>. QED BY <2>1, <2>2, QuietSteps, SameNets DEF x
<1>2. CASE ~Dead
  <2>1. Becomes(i, y) /\ ctlpipe' = Append(ctlpipe, i)
        /\ UNCHANGED <<main, handles, conns, control, replies, user>>
    BY <1>2 DEF Announce
  <2>2. Steps(i, y) BY <2>1, SameNets DEF Steps, Becomes, Says
  <2>. QED BY <2>2
<1>. QED BY <1>1, <1>2

LEMMA StepDirFailed ==
  ASSUME NEW i \in DOMAIN xfers, Fit(xfers[i]), DirFailed(i)
  PROVE  \E y : Steps(i, y)
<1> DEFINE x == xfers[i]
           y == [x EXCEPT !.pc = "top"]
<1>1. Fit(x) /\ x.pc = "derror" /\ Announce(i, y) BY DEF DirFailed
<1> HIDE DEF x
<1>2. Quiet(x, y) /\ Finished(y)
  BY <1>1 DEF Quiet, Fit, Goes, Finished, Shape, Core, PipeOK, Place, Packet, Shutting, Reading,
              ReadingPcs, WritingPcs, PastAnswer, ClosingPcs
<1> HIDE DEF y
<1>. QED BY <1>1, <1>2, AnnounceSteps DEF x, Quiet

LEMMA StepClose ==
  ASSUME NEW i \in DOMAIN xfers, Fit(xfers[i]), Close(i)
  PROVE  \E y : Steps(i, y)
<1> DEFINE x == xfers[i]
           y == [x EXCEPT !.pc = IF Superseding(x) THEN "link" ELSE "answer"]
<1>1. Fit(x) /\ x.pc = "close" /\ Announce(i, y) BY DEF Close
<1> HIDE DEF x
<1>2. Fit(y) /\ Goes(x, y) /\ y.pipe = x.pipe /\ y.close = x.close /\ Finished(y)
  BY <1>1 DEF Quiet, Fit, Goes, Finished, Shape, Core, PipeOK, Place, Packet, Shutting, Reading,
              ReadingPcs, WritingPcs, PastAnswer, ClosingPcs
<1> HIDE DEF y
<1>. QED BY <1>1, <1>2, AnnounceSteps DEF x

(* The answer to the CLOSE.                                                *)
LEMMA StepAnswerClose ==
  ASSUME NEW i \in DOMAIN xfers, Fit(xfers[i]), AnswerClose(i)
  PROVE  \E y : Steps(i, y)
<1> DEFINE x == xfers[i]
           y == IF Reading(x) THEN To(x, "mark") ELSE Exit(x)
           a == Answer(x.close, IF x.err = "none" THEN "OK" ELSE x.err, << >>)
<1>1. /\ Fit(x) /\ x.pc = "answer" /\ Becomes(i, y) /\ replies' = Append(replies, a)
      /\ UNCHANGED <<main, handles, ctlpipe, conns, control, user>>
  BY DEF AnswerClose, Respond
<1>2. a.tid = x.close BY DEF Answer
<1>3. Gives(x.close)
  <2> HIDE DEF a
  <2>. QED BY <1>1, <1>2 DEF Gives
<1> HIDE DEF x
<1>4. x.close # "none" /\ y.pc \in PastAnswer
  BY <1>1 DEF To, Exit, Quiet, Fit, Goes, Finished, Shape, Core, PipeOK, Place, Packet, Shutting, Reading,
              ReadingPcs, WritingPcs, PastAnswer, ClosingPcs
<1>5. Quiet(x, y)
  BY <1>1 DEF To, Exit, Quiet, Fit, Goes, Finished, Shape, Core, PipeOK, Place, Packet, Shutting, Reading,
              ReadingPcs, WritingPcs, PastAnswer, ClosingPcs
<1> HIDE DEF y
<1>6. Steps(i, y) BY <1>1, <1>3, <1>4, <1>5, SameNets DEF Steps, Becomes, Quiet, Says, x
<1>. QED BY <1>6

-----------------------------------------------------------------------------
(* The command a transfer takes from its pipe. *)

(* The rest of the pipe opens nothing: that is the first command.          *)
NoOpens(y) == IsSeq(y.pipe) /\ \A k \in DOMAIN y.pipe : MsgOK(y.pipe[k]) /\ y.pipe[k].cname \notin Opens

LEMMA RestOfPipe ==
  ASSUME NEW x, PipeOK(x), x.pipe # << >>, NEW y, y.pipe = Tail(x.pipe)
  PROVE  NoOpens(y)
<1> DEFINE p == x.pipe
           q == Tail(p)
<1>1. IsSeq(p) /\ p # << >> BY DEF PipeOK
<1>2. /\ \A k \in DOMAIN p : MsgOK(p[k]) /\ (p[k].cname \in Opens => k = 1)
      /\ y.pipe = q
  BY DEF PipeOK
<1> HIDE DEF p
<1>3. IsSeq(q) /\ \A k \in DOMAIN q : k + 1 \in DOMAIN p /\ k + 1 # 1 /\ q[k] = p[k + 1]
  BY <1>1, TailSeq
<1> HIDE DEF q
<1>4. \A k \in DOMAIN q : MsgOK(q[k]) /\ q[k].cname \notin Opens BY <1>2, <1>3
<1>. QED BY <1>2, <1>3, <1>4 DEF NoOpens

Next2(v) == [v EXCEPT !.pipe = Tail(@), !.pc = "top"]

(* What the transfer is as it takes the command.                           *)
Taking(v, x, t) ==
  /\ NoOpens(x) /\ x.pipe = Tail(v.pipe) /\ DOMAIN x = DOMAIN v
  /\ x.fh = v.fh /\ x.conn = v.conn /\ x.kind = v.kind /\ x.listed = v.listed /\ x.state = v.state
  /\ x.flags = v.flags /\ x.close = v.close /\ x.handler = v.handler /\ x.pc = "top"
  /\ v.close = "none" /\ "CLOSE" \notin v.flags
  /\ t.cname \in Silent \cup Speaking
  /\ t.cname \in Speaking => t.tid \notin NoTids
  /\ t.cname \in Opens => v.state = "IDLE"

LEMMA AtCommand ==
  ASSUME NEW v, Fit(v), v.pc = "cmd", v.pipe # << >>
  PROVE  Taking(v, Next2(v), Head(v.pipe))
<1> DEFINE x == Next2(v)
<1>1. /\ x.pipe = Tail(v.pipe) /\ DOMAIN x = DOMAIN v
      /\ x.fh = v.fh /\ x.conn = v.conn /\ x.kind = v.kind /\ x.listed = v.listed /\ x.state = v.state
      /\ x.flags = v.flags /\ x.close = v.close /\ x.handler = v.handler /\ x.pc = "top"
  BY DEF Next2, Fit, Shape, Core
<1> HIDE DEF x
<1>2. PipeOK(v) BY DEF Fit
<1>3. NoOpens(x) BY <1>1, <1>2, RestOfPipe
<1>4. v.close = "none" /\ "CLOSE" \notin v.flags BY DEF Fit, Shutting
<1>5. IsSeq(v.pipe) BY <1>2 DEF PipeOK
<1>6. 1 \in DOMAIN v.pipe /\ Head(v.pipe) = v.pipe[1] BY <1>5, TailSeq
<1>7. MsgOK(Head(v.pipe)) /\ (Head(v.pipe).cname \in Opens => v.state = "IDLE") BY <1>2, <1>6 DEF PipeOK
<1>. QED BY <1>1, <1>3, <1>4, <1>7 DEF x, MsgOK, Taking

(* The transfer as it goes on after a command that is not a CLOSE.         *)
Kin(x, y) ==
  /\ DOMAIN y = DOMAIN x /\ y.pipe = x.pipe /\ y.close = x.close
  /\ y.fh = x.fh /\ y.conn = x.conn /\ y.kind = x.kind /\ y.listed = x.listed
  /\ "CLOSE" \in y.flags <=> "CLOSE" \in x.flags
Resumes(v, y) ==
  /\ Fit(y) /\ Goes(v, y) /\ y.pc \notin ClosingPcs /\ y.pipe = Tail(v.pipe) /\ y.close = v.close

LEMMA KinFits ==
  ASSUME NEW v, Fit(v), v.pc = "cmd", NEW x, NEW t, Taking(v, x, t), NEW y, Kin(x, y),
         y.pc \in {"top", "posmark", "derror"}, y.state # "DONE", x.state = "DERROR" => y.state = "DERROR", Place(y)
  PROVE  Resumes(v, y)
<1>1. PipeOK(y) BY DEF PipeOK, NoOpens, Taking, Kin
<1>2. v.kind \in Kinds /\ Core \subseteq DOMAIN v /\ (Finished(v) => v.state = "DERROR" /\ x.state = "DERROR")
  BY DEF Taking, Fit, Shape, Place, Reading, ReadingPcs, WritingPcs, Finished, ClosingPcs
<1>. QED BY <1>1, <1>2 DEF Resumes, Fit, Goes, Finished, Shape, Packet, Shutting, PastAnswer, ClosingPcs, Taking, Kin

(* Nothing is seen of such a command but the answer.                       *)
LEMMA TakenSteps ==
  ASSUME NEW i \in DOMAIN xfers, NEW y, Becomes(i, y), Fit(y), Goes(xfers[i], y), y.pc \notin ClosingPcs,
         Takes(xfers[i], y), OnControl
  PROVE  Steps(i, y)
<1>. QED BY SameNets DEF Steps, Becomes, OnControl

LEMMA SpeakingSteps ==
  ASSUME NEW i \in DOMAIN xfers, xfers[i].pipe # << >>, OnControl, NEW code, NEW results,
         Respond(Head(xfers[i].pipe).tid, code, results), Head(xfers[i].pipe).cname \in Speaking,
         NEW y, Becomes(i, y), Resumes(xfers[i], y)
  PROVE  \E z : Steps(i, z)
<1> DEFINE t == Head(xfers[i].pipe)
           a == Answer(t.tid, code, results)
<1>1. replies' = Append(replies, a) /\ a.tid = t.tid BY DEF Respond, Answer
<1> HIDE DEF a
<1>2. Gives(t.tid) BY <1>1 DEF Gives
<1>3. Takes(xfers[i], y) BY <1>2 DEF Takes, Resumes
<1>4. Fit(y) /\ Goes(xfers[i], y) /\ y.pc \notin ClosingPcs BY DEF Resumes
<1>5. Steps(i, y) BY <1>3, <1>4, TakenSteps
<1>. QED BY <1>5

LEMMA SilentSteps ==
  ASSUME NEW i \in DOMAIN xfers, xfers[i].pipe # << >>, OnControl, UNCHANGED replies,
         Head(xfers[i].pipe).cname \in Silent, NEW y, Becomes(i, y), Resumes(xfers[i], y)
  PROVE  \E z : Steps(i, z)
<1>3. Takes(xfers[i], y) BY DEF Takes, Resumes
<1>4. Fit(y) /\ Goes(xfers[i], y) /\ y.pc \notin ClosingPcs BY DEF Resumes
<1>5. Steps(i, y) BY <1>3, <1>4, TakenSteps
<1>. QED BY <1>5

(* What a CLOSE makes of a transfer.                                       *)
LEMMA fileclosed ==
  ASSUME NEW v, Fit(v), v.pc = "cmd", NEW x, NEW t, Taking(v, x, t), t.cname = "CLOSE"
  PROVE  LET y == fileclose(x, t)
         IN Fit(y) /\ Goes(v, y) /\ y.pipe = Tail(v.pipe) /\ y.close = t.tid /\ y.pc \notin ClosingPcs
<1> DEFINE y == fileclose(x, t)
<1>0. v.kind \in Kinds /\ Core \subseteq DOMAIN v BY DEF Fit, Shape
<1>1. /\ y.fh = v.fh /\ y.conn = v.conn /\ y.kind = v.kind /\ y.listed = v.listed /\ y.pipe = x.pipe
      /\ y.close = t.tid /\ y.flags = v.flags \cup {"CLOSE"} /\ y.handler = "ign" /\ y.pc = "top"
      /\ y.state = Closing(x) /\ DOMAIN y = DOMAIN v
  BY <1>0 DEF fileclose, Deaf, Core, Taking
<1>2. t.tid # "none" BY DEF Speaking, NoTids, Taking
<1> HIDE DEF y
<1>3. PipeOK(y) BY <1>1 DEF PipeOK, NoOpens, Taking, Opens
<1>4. y.state \in IF Reading(y) THEN {"DONE"} ELSE {"PROCESS", "WSYNC", "RETRY", "DONE"}
  BY <1>0, <1>1 DEF Closing, Fit, Kinds, Reading, Place, ReadingPcs, WritingPcs, ClosingPcs, Taking
<1>5. Place(y) BY <1>1, <1>4 DEF Place, ReadingPcs, WritingPcs, Reading
<1>6. y.pipe = Tail(v.pipe) BY <1>1 DEF Taking
<1>. QED BY <1>0, <1>1, <1>2, <1>3, <1>4, <1>5, <1>6 DEF Fit, Goes, Finished, Shape, Packet, Shutting, PastAnswer,
         ClosingPcs, Place, ReadingPcs, WritingPcs, Reading, y

LEMMA StepRcvcmd ==
  ASSUME NEW i \in DOMAIN xfers, Fit(xfers[i]), Rcvcmd(i)
  PROVE  \E y : Steps(i, y)
<1> DEFINE v == xfers[i]
           x == Next2(v)
           t == Head(v.pipe)
<1>1. Fit(v) /\ v.pc = "cmd" /\ v.pipe # << >> /\ OnControl BY DEF Rcvcmd
<1>2. Taking(v, x, t)
  <2> HIDE DEF v
  <2>. QED BY <1>1, AtCommand
<1>3. /\ v.kind \in Kinds /\ Core \subseteq DOMAIN v /\ DOMAIN x = DOMAIN v /\ x.pc = "top" /\ x.state = v.state
      /\ x.kind = v.kind
  BY <1>1, <1>2 DEF Fit, Shape, Taking
<1>4. Place(x) /\ x.state # "DONE"
  BY <1>1, <1>3 DEF Fit, Place, Reading, ReadingPcs, WritingPcs, ClosingPcs
<1>5. Kin(x, x) BY DEF Kin
<1>6. Resumes(v, x)
  <2> HIDE DEF v, x, t
  <2>. QED BY <1>1, <1>2, <1>3, <1>4, <1>5, KinFits
<1>7. CASE t.cname = "CLOSE"
  <2> DEFINE y == fileclose(x, t)
  <2>1. Becomes(i, y) /\ UNCHANGED replies BY <1>7 DEF Rcvcmd, Next2
  <2>2. Fit(y) /\ Goes(v, y) /\ y.pipe = Tail(v.pipe) /\ y.close = t.tid /\ y.pc \notin ClosingPcs
    <3> HIDE DEF v, t, x
    <3>. QED BY <1>1, <1>2, <1>7, fileclosed
  <2> HIDE DEF y
  <2>3. Takes(v, y) BY <1>1, <1>2, <1>7, <2>1, <2>2 DEF Takes, Taking
  <2>4. Steps(i, y) BY <1>1, <2>1, <2>2, <2>3, TakenSteps
  <2>. QED BY <2>4
<1>8. CASE t.cname = "FILEPOS"
  <2> DEFINE y == filepos(x, t)
             code == FileposCode(x, t)
  <2>1. /\ Respond(t.tid, code, << >>)
        /\ Becomes(i, x) \/ (Movable(x) /\ Becomes(i, y))
    BY <1>8 DEF Rcvcmd, Next2, FileposCode
  <2>2. t.cname \in Speaking
    BY <1>2, <1>8 DEF Speaking, Opens, Taking
  <2> HIDE DEF v, t, x, code
  <2>3. ASSUME Movable(x) PROVE Resumes(v, y)
    <3>1. Kin(x, y) /\ y.pc = "posmark" /\ y.state = "PROCESS" /\ x.kind = "READ"
      BY <1>2, <1>3, <1>4, <2>3 DEF Core, Kin, filepos, Movable
    <3> HIDE DEF y
    <3>2. /\ y.pc \in {"top", "posmark", "derror"}
          /\ y.state # "DONE"
          /\ y.kind = x.kind
          /\ (x.state = "DERROR" => y.state = "DERROR")
      BY <1>4, <2>2, <2>3, <3>1 DEF Kin, Movable
    <3>3. Place(y) BY <1>3, <1>4, <2>2, <2>3, <3>1, <3>2 DEF Place, Reading, ReadingPcs, WritingPcs, Kinds, Movable
    <3>. QED BY <1>1, <1>2, <3>1, <3>2, <3>3, KinFits
  <2> HIDE DEF y
  <2>4. Becomes(i, x) \/ (Becomes(i, y) /\ Resumes(v, y)) BY <2>1, <2>3
  <2>5. \E z : Becomes(i, z) /\ Resumes(v, z) BY <1>6, <2>4
  <2>6. PICK z : Becomes(i, z) /\ Resumes(v, z) BY <2>5
  <2>7. Respond(t.tid, code, << >>) /\ t.cname \in Speaking BY <2>1, <2>2
  <2> USE DEF v, t
  <2>. QED BY <1>1, <2>6, <2>7, SpeakingSteps
<1>9. CASE t.cname = "CONTINUE"
  <2> DEFINE y == [x EXCEPT !.state = "RETRY"]
             code == IF x.state = "ERROR" THEN "OK" ELSE "BUG"
  <2>1. /\ Respond(t.tid, code, << >>)
        /\ Becomes(i, x) \/ (x.state = "ERROR" /\ Becomes(i, y))
    BY <1>9 DEF Rcvcmd, Next2
  <2>2. t.cname \in Speaking
    BY <1>2, <1>9 DEF Speaking, Opens, Taking
  <2> HIDE DEF v, t, x, code
  <2>3. ASSUME x.state = "ERROR" PROVE Resumes(v, y)
    <3>1. Kin(x, y) /\ y.pc = "top" /\ y.state = "RETRY" /\ x.state = "ERROR"
      BY <1>2, <1>3, <1>4, <2>3 DEF Core, Kin, Place
    <3> HIDE DEF y
    <3>2. /\ y.pc \in {"top", "posmark", "derror"}
          /\ y.state # "DONE"
          /\ y.kind = x.kind
          /\ (x.state = "DERROR" => y.state = "DERROR")
      BY <1>4, <2>2, <2>3, <3>1 DEF Kin, Movable
    <3>3. Place(y) BY <1>3, <1>4, <2>2, <2>3, <3>1, <3>2 DEF Place, Reading, ReadingPcs, WritingPcs, Kinds
    <3>. QED BY <1>1, <1>2, <3>1, <3>2, <3>3, KinFits
  <2> HIDE DEF y
  <2>4. Becomes(i, x) \/ (Becomes(i, y) /\ Resumes(v, y)) BY <2>1, <2>3
  <2>5. \E z : Becomes(i, z) /\ Resumes(v, z) BY <1>6, <2>4
  <2>6. PICK z : Becomes(i, z) /\ Resumes(v, z) BY <2>5
  <2>7. Respond(t.tid, code, << >>) /\ t.cname \in Speaking BY <2>1, <2>2
  <2> USE DEF v, t
  <2>. QED BY <1>1, <2>6, <2>7, SpeakingSteps
<1>10. CASE t.cname = "DIRECTORY"
  <2> DEFINE y == diropen(x, ListError(x))
             code == IF ListError(x) = "none" THEN "OK" ELSE ListError(x)
  <2>1. /\ Respond(t.tid, code, << >>)
        /\ Becomes(i, y)
    BY <1>10 DEF Rcvcmd, Next2
  <2>2. t.cname \in Speaking /\ x.state = "IDLE"
    BY <1>2, <1>10 DEF Speaking, Opens, Taking
  <2> HIDE DEF v, t, x, code
  <2>3. ASSUME TRUE PROVE Resumes(v, y)
    <3>1. Kin(x, y) /\ ((y.pc = "derror" /\ y.state = "DERROR") \/ (y.pc = "top" /\ y.state = "PROCESS"))
      <4>1. CASE ListError(x) # "none"
        <5> DEFINE w == [x EXCEPT !.state = "DERROR", !.pc = "derror"]
        <5>1. y = w BY <4>1 DEF diropen
        <5>2. Kin(x, w) /\ w.pc = "derror" /\ w.state = "DERROR" BY <1>3 DEF Core, Kin
        <5> HIDE DEF w, y
        <5>. QED BY <5>1, <5>2
      <4>2. CASE ListError(x) = "none"
        <5> DEFINE g == Sorted(Listing(x).found, Code)
                   w == [x EXCEPT !.glob = g]
        <5>1. y = [w EXCEPT !.glob = Skip(w), !.buf = <<[what |-> "global", name |-> NoFile]>>,
                            !.state = "PROCESS", !.pc = "top"]
          BY <4>2 DEF diropen
        <5>2. Kin(x, w) /\ Core \subseteq DOMAIN w BY <1>3 DEF Core, Kin
        <5> HIDE DEF w, y
        <5>. QED BY <5>1, <5>2 DEF Core, Kin
      <4>. QED BY <4>1, <4>2
    <3> HIDE DEF y
    <3>2. /\ y.pc \in {"top", "posmark", "derror"}
          /\ y.state # "DONE"
          /\ y.kind = x.kind
          /\ (x.state = "DERROR" => y.state = "DERROR")
      BY <1>4, <2>2, <2>3, <3>1 DEF Kin, Movable
    <3>3. Place(y) BY <1>3, <1>4, <2>2, <2>3, <3>1, <3>2 DEF Place, Reading, ReadingPcs, WritingPcs, Kinds
    <3>. QED BY <1>1, <1>2, <3>1, <3>2, <3>3, KinFits
  <2> HIDE DEF y
  <2>4. Becomes(i, x) \/ (Becomes(i, y) /\ Resumes(v, y)) BY <2>1, <2>3
  <2>5. \E z : Becomes(i, z) /\ Resumes(v, z) BY <1>6, <2>4
  <2>6. PICK z : Becomes(i, z) /\ Resumes(v, z) BY <2>5
  <2>7. Respond(t.tid, code, << >>) /\ t.cname \in Speaking BY <2>1, <2>2
  <2> USE DEF v, t
  <2>. QED BY <1>1, <2>6, <2>7, SpeakingSteps
<1>11. CASE t.cname = "PROPERTIES"
  <2> DEFINE y == propopen(x)
             code == "OK"
  <2>1. /\ Respond(t.tid, code, << >>)
        /\ Becomes(i, y)
    BY <1>11 DEF Rcvcmd, Next2
  <2>2. t.cname \in Speaking /\ x.state = "IDLE"
    BY <1>2, <1>11 DEF Speaking, Opens, Taking
  <2> HIDE DEF v, t, x, code
  <2>3. ASSUME TRUE PROVE Resumes(v, y)
    <3>1. Kin(x, y) /\ y.pc = "top" /\ y.state = "PROCESS"
      BY <1>2, <1>3, <1>4, <2>3 DEF Core, Kin, propopen
    <3> HIDE DEF y
    <3>2. /\ y.pc \in {"top", "posmark", "derror"}
          /\ y.state # "DONE"
          /\ y.kind = x.kind
          /\ (x.state = "DERROR" => y.state = "DERROR")
      BY <1>4, <2>2, <2>3, <3>1 DEF Kin, Movable
    <3>3. Place(y) BY <1>3, <1>4, <2>2, <2>3, <3>1, <3>2 DEF Place, Reading, ReadingPcs, WritingPcs, Kinds
    <3>. QED BY <1>1, <1>2, <3>1, <3>2, <3>3, KinFits
  <2> HIDE DEF y
  <2>4. Becomes(i, x) \/ (Becomes(i, y) /\ Resumes(v, y)) BY <2>1, <2>3
  <2>5. \E z : Becomes(i, z) /\ Resumes(v, z) BY <1>6, <2>4
  <2>6. PICK z : Becomes(i, z) /\ Resumes(v, z) BY <2>5
  <2>7. Respond(t.tid, code, << >>) /\ t.cname \in Speaking BY <2>1, <2>2
  <2> USE DEF v, t
  <2>. QED BY <1>1, <2>6, <2>7, SpeakingSteps
<1>12. CASE t.cname = "delfh"
  <2> DEFINE y == [x EXCEPT !.flags = @ \cup {"DELETE"}]
  <2>1. Becomes(i, y) /\ UNCHANGED replies /\ t.cname \in Silent BY <1>12 DEF Rcvcmd, Next2, Silent
  <2>2. Resumes(v, y)
    <3> HIDE DEF v, t, x
    <3>1. Kin(x, y) /\ y.pc = "top" /\ y.state = x.state BY <1>3 DEF Core, Kin
    <3> HIDE DEF y
    <3>2. /\ y.pc \in {"top", "posmark", "derror"}
          /\ y.state # "DONE"
          /\ (x.state = "DERROR" => y.state = "DERROR")
          /\ Place(y)
      BY <1>3, <1>4, <3>1 DEF Kin, Place, Reading
    <3>. QED BY <1>1, <1>2, <3>1, <3>2, KinFits
  <2> HIDE DEF y
  <2>. QED BY <1>1, <2>1, <2>2, SilentSteps
<1>13. CASE t.cname = "mdatfh"
  <2> DEFINE y == [x EXCEPT !.mtime = t.n, !.flags = @ \cup {"MTIME"}]
  <2>1. Becomes(i, y) /\ UNCHANGED replies /\ t.cname \in Silent BY <1>13 DEF Rcvcmd, Next2, Silent
  <2>2. Resumes(v, y)
    <3> HIDE DEF v, t, x
    <3>1. Kin(x, y) /\ y.pc = "top" /\ y.state = x.state BY <1>3 DEF Core, Kin
    <3> HIDE DEF y
    <3>2. /\ y.pc \in {"top", "posmark", "derror"}
          /\ y.state # "DONE"
          /\ (x.state = "DERROR" => y.state = "DERROR")
          /\ Place(y)
      BY <1>3, <1>4, <3>1 DEF Kin, Place, Reading
    <3>. QED BY <1>1, <1>2, <3>1, <3>2, KinFits
  <2> HIDE DEF y
  <2>. QED BY <1>1, <2>1, <2>2, SilentSteps
<1>14. CASE t.cname = "adatfh"
  <2> DEFINE y == [x EXCEPT !.atime = t.n, !.flags = @ \cup {"ATIME"}]
  <2>1. Becomes(i, y) /\ UNCHANGED replies /\ t.cname \in Silent BY <1>14 DEF Rcvcmd, Next2, Silent
  <2>2. Resumes(v, y)
    <3> HIDE DEF v, t, x
    <3>1. Kin(x, y) /\ y.pc = "top" /\ y.state = x.state BY <1>3 DEF Core, Kin
    <3> HIDE DEF y
    <3>2. /\ y.pc \in {"top", "posmark", "derror"}
          /\ y.state # "DONE"
          /\ (x.state = "DERROR" => y.state = "DERROR")
          /\ Place(y)
      BY <1>3, <1>4, <3>1 DEF Kin, Place, Reading
    <3>. QED BY <1>1, <1>2, <3>1, <3>2, KinFits
  <2> HIDE DEF y
  <2>. QED BY <1>1, <2>1, <2>2, SilentSteps
<1>. QED BY <1>2, <1>7, <1>8, <1>9, <1>10, <1>11, <1>12, <1>13, <1>14 DEF Speaking, Silent, Opens, Taking

-----------------------------------------------------------------------------
(* A step of a transfer.                                                   *)
LEMMA TransferSteps ==
  ASSUME NEW i \in DOMAIN xfers, Fit(xfers[i]), xfers[i].conn \in DOMAIN conns, Nets, Transfer(i)
  PROVE  \E y : Steps(i, y)
<1>1. CASE interrupt(i) \/ Top(i) \/ Hang(i) \/ Rcvcmd(i) \/ PosMark(i) \/ PipeBroken(i) \/ DirFailed(i)
  BY <1>1, StepInterrupt, StepTop, StepHang, StepRcvcmd, StepPosMark, StepPipeBroken, StepDirFailed
<1>2. CASE ReadWork(i) \/ Fill(i) \/ SendFull(i) \/ Sent(i) \/ SendLast(i) \/ SendEof(i) \/ SendBad(i)
  BY <1>2, StepReadWork, StepFill, StepSendFull, StepSent, StepSendLast, StepSendEof, StepSendBad
<1>3. CASE WriteWork(i) \/ Xpread(i) \/ Got(i) \/ Copy(i) \/ Full(i) \/ Flush(i) \/ Retry(i) \/ Reset(i)
  BY <1>3, StepWriteWork, StepXpread, StepGot, StepCopy, StepFull, StepFlush, StepRetry, StepReset
<1>4. CASE Close(i) \/ LinkTemp(i) \/ BackUnlink(i) \/ BackLink(i) \/ UnlinkReal(i) \/ Relink(i) \/ UnlinkTemp(i)
  BY <1>4, StepClose, StepLinkTemp, StepBackUnlink, StepBackLink, StepUnlinkReal, StepRelink, StepUnlinkTemp
<1>5. CASE AnswerClose(i) \/ SyncMark(i)
  BY <1>5, StepAnswerClose, StepSyncMark
<1>. QED BY <1>1, <1>2, <1>3, <1>4, <1>5 DEF Transfer

-----------------------------------------------------------------------------
(* Commands from one place to another. *)

LEMMA Less ==
  ASSUME NEW U, NEW W, NEW H, NEW P, NEW Z, NEW H1, NEW P1, NEW Z1,
         Separate(U, W, H, P, Z), H1 \subseteq H, P1 \subseteq P, Z1 \subseteq Z
  PROVE  Separate(U, W, H1, P1, Z1)
<1>. QED BY Zenon DEF Separate

LEMMA Spoken ==
  ASSUME NEW U, NEW W, NEW H, NEW P, NEW Z, NEW U1, NEW W1, NEW t,
         Separate(U, W, H, P, Z), t \in U, U1 \subseteq U, t \notin U1, W1 \subseteq W \cup {t}
  PROVE  Separate(U1, W1, H, P, Z)
<1>. QED BY DEF Separate

LEMMA TakenIn ==
  ASSUME NEW U, NEW W, NEW H, NEW P, NEW Z, NEW W1, NEW H1, NEW t,
         Separate(U, W, H, P, Z), t \in W, W1 \subseteq W, t \notin W1, H1 \subseteq {t}
  PROVE  Separate(U, W1, H1, P, Z)
<1>. QED BY DEF Separate

LEMMA PassedOn ==
  ASSUME NEW U, NEW W, NEW H, NEW P, NEW Z, NEW H1, NEW P1, NEW t,
         Separate(U, W, H, P, Z), t \in H, H1 = {}, P1 \subseteq P \cup {t}
  PROVE  Separate(U, W, H1, P1, Z)
<1>. QED BY DEF Separate

LEMMA Settled ==
  ASSUME NEW U, NEW W, NEW H, NEW P, NEW Z, NEW H1, NEW Z1, NEW P1, NEW t,
         Separate(U, W, H, P, Z), t \in H, H1 = {}, P1 \subseteq P, Z1 \subseteq Z \cup {t}
  PROVE  Separate(U, W, H1, P1, Z1)
<1>1. U \cap Z1 = {} /\ W \cap Z1 = {} /\ P1 \cap Z1 = {} BY DEF Separate
<1>2. U \cap (W \cup P1) = {} /\ W \cap P1 = {} BY DEF Separate
<1>. QED BY <1>1, <1>2 DEF Separate

LEMMA TakenUp ==
  ASSUME NEW U, NEW W, NEW H, NEW P, NEW Z, NEW H1, NEW Z1, NEW P1, NEW t,
         Separate(U, W, H, P, Z), t \in P, H1 \subseteq H, P1 \subseteq P, t \notin P1, Z1 \subseteq Z \cup {t}
  PROVE  Separate(U, W, H1, P1, Z1)
<1>. QED BY DEF Separate

-----------------------------------------------------------------------------
(* The commands in the pipes. *)

LEMMA InPipe == \A t : t \in Piped <=> \E i, k : Asked(t, i, k)
<1>. QED BY DEF Piped, Asking, Asked

LEMMA OnceAsked ==
  ASSUME AskedOnce, NEW t, NEW i, NEW j, NEW k, NEW l, Asked(t, i, k), Asked(t, j, l)
  PROVE  i = j /\ k = l
<1>1. t \in Piped BY InPipe
<1>. QED BY <1>1 DEF AskedOnce, Asked

(* Answers.                                                                *)
LEMMA NewAnswer ==
  ASSUME IsSeq(replies), NEW a, replies' = Append(replies, a)
  PROVE  /\ IsSeq(replies') /\ Len(replies') = Len(replies) + 1 /\ Len(replies) \in Nat
         /\ DOMAIN replies = 1 .. Len(replies) /\ DOMAIN replies' = 1 .. (Len(replies) + 1)
         /\ replies'[Len(replies) + 1] = a /\ \A r \in 1 .. Len(replies) : replies'[r] = replies[r]
<1>. QED BY AppendSeq, SeqDomain

LEMMA GivenMore ==
  ASSUME IsSeq(replies), NEW a, replies' = Append(replies, a), AnsweredOnce, a.tid \notin Given
  PROVE  Given' = Given \cup ({a.tid} \ {"TIDNO"}) /\ AnsweredOnce'
<1>1. /\ Len(replies') = Len(replies) + 1 /\ Len(replies) \in Nat
      /\ DOMAIN replies = 1 .. Len(replies) /\ DOMAIN replies' = 1 .. (Len(replies) + 1)
      /\ replies'[Len(replies) + 1] = a /\ \A r \in 1 .. Len(replies) : replies'[r] = replies[r]
  BY NewAnswer
<1>2. DOMAIN replies' = DOMAIN replies \cup {Len(replies) + 1} BY <1>1
<1>3. Given' = Given \cup ({a.tid} \ {"TIDNO"}) BY <1>1, <1>2 DEF Given
<1>4. AnsweredOnce' BY <1>1 DEF AnsweredOnce, Given
<1>. QED BY <1>3, <1>4

-----------------------------------------------------------------------------
(* A step of a transfer keeps the tables. *)

LEMMA StepsXfers ==
  ASSUME Fitting, NEW i, NEW y, Steps(i, y)
  PROVE  /\ i \in DOMAIN xfers /\ IsSeq(xfers') /\ DOMAIN xfers' = DOMAIN xfers
         /\ xfers'[i] = y /\ \A j \in DOMAIN xfers : j # i => xfers'[j] = xfers[j]
<1>1. i \in DOMAIN xfers /\ xfers' = [xfers EXCEPT ![i] = y] BY DEF Steps
<1>2. IsSeq(xfers) BY DEF Fitting
<1>3. IsSeq(xfers') /\ DOMAIN xfers' = DOMAIN xfers BY <1>1, <1>2, ExceptSeqs
<1>. QED BY <1>1, <1>3

(* What is said on the control pipe stays said, and the dead stay dead.    *)
LEMMA StepsDropped ==
  ASSUME Tables, NEW i, NEW y, Steps(i, y), NEW j \in DOMAIN xfers, Dropped(j)
  PROVE  Dropped(j)'
<1>1. xfers[j].listed = xfers'[j].listed BY StepsXfers DEF Tables, Steps, Goes
<1>2. ASSUME Announced(j) PROVE Announced(j)'
  <2>1. CASE ctlpipe' = ctlpipe BY <1>2, <2>1 DEF Announced
  <2>2. CASE ctlpipe' = Append(ctlpipe, i)
    <3>1. IsSeq(ctlpipe) BY DEF Tables, Posted
    <3>2. /\ Len(ctlpipe') = Len(ctlpipe) + 1 /\ Len(ctlpipe) \in Nat /\ DOMAIN ctlpipe = 1 .. Len(ctlpipe)
          /\ \A n \in DOMAIN ctlpipe : ctlpipe'[n] = ctlpipe[n]
      BY <2>2, <3>1, AppendSeq, SeqDomain
    <3>. QED BY <1>2, <3>2 DEF Announced
  <2>. QED BY <2>1, <2>2 DEF Steps
<1>3. ASSUME Dead PROVE Dead' BY <1>3 DEF Steps, Dead, Kill
<1>. QED BY <1>1, <1>2, <1>3 DEF Dropped

LEMMA StepsTables ==
  ASSUME Tables, NEW i, NEW y, Steps(i, y)
  PROVE  Tables'
<1>1. /\ i \in DOMAIN xfers /\ IsSeq(xfers') /\ DOMAIN xfers' = DOMAIN xfers
      /\ xfers'[i] = y /\ \A j \in DOMAIN xfers : j # i => xfers'[j] = xfers[j]
  BY StepsXfers DEF Tables
<1>2. Fit(y) /\ Goes(xfers[i], y) /\ handles' = handles /\ DOMAIN conns' = DOMAIN conns /\ Nets'
  BY DEF Steps, NetsKept, Tables
<1>3. Handles' BY <1>1, <1>2 DEF Tables, Handles, HandleOK
<1>4. Fitting' BY <1>1, <1>2 DEF Tables, Fitting, Goes
<1>5. Listed'
  <2>1. ASSUME NEW j \in DOMAIN xfers
        PROVE  /\ OnHandle(j, xfers[j]) => OnHandle(j, xfers[j])'
               /\ xfers'[j].listed = xfers[j].listed
               /\ Finished(xfers[j]) => Finished(xfers'[j])
    <3>1. CASE j = i BY <1>1, <1>2, <3>1 DEF OnHandle, Goes, Reading
    <3>2. CASE j # i BY <1>1, <1>2, <3>2 DEF OnHandle
    <3>. QED BY <3>1, <3>2
  <2>2. ASSUME NEW j \in DOMAIN xfers PROVE IF xfers'[j].listed THEN OnHandle(j, xfers[j])' ELSE Finished(xfers'[j])
    BY <2>1 DEF Tables, Listed
  <2>. QED BY <1>1, <2>2 DEF Listed
<1>6. Posted'
  <2>1. IsSeq(ctlpipe) /\ \A n \in DOMAIN ctlpipe : ctlpipe[n] \in DOMAIN xfers /\ Finished(xfers[ctlpipe[n]])
    BY DEF Tables, Posted
  <2>2. \A j \in DOMAIN xfers : Finished(xfers[j]) => Finished(xfers'[j]) BY <1>1, <1>2 DEF Goes
  <2>3. CASE ctlpipe' = ctlpipe BY <1>1, <2>1, <2>2, <2>3 DEF Posted
  <2>4. CASE ctlpipe' = Append(ctlpipe, i) /\ Finished(y)
    <3>1. /\ IsSeq(ctlpipe') /\ DOMAIN ctlpipe' = DOMAIN ctlpipe \cup {Len(ctlpipe) + 1}
          /\ ctlpipe'[Len(ctlpipe) + 1] = i /\ \A n \in DOMAIN ctlpipe : ctlpipe'[n] = ctlpipe[n]
      BY <2>1, <2>4, AppendSeq, SeqDomain
    <3>. QED BY <1>1, <2>1, <2>2, <2>4, <3>1 DEF Posted
  <2>. QED BY <2>3, <2>4 DEF Steps
<1>7. Early'
  <2>1. \A j \in DOMAIN xfers : Dropped(j) => Dropped(j)' BY StepsDropped
  <2>2. y.pc \in ClosingPcs => Dropped(i)'
    <3>1. CASE y.pc \in ClosingPcs => xfers[i].pc \in ClosingPcs BY <1>1, <2>1, <3>1 DEF Tables, Early
    <3>2. CASE ctlpipe' = Append(ctlpipe, i)
      <4>1. IsSeq(ctlpipe) BY DEF Tables, Posted
      <4>2. Len(ctlpipe') = Len(ctlpipe) + 1 /\ Len(ctlpipe) \in Nat /\ ctlpipe'[Len(ctlpipe) + 1] = i
        BY <3>2, <4>1, AppendSeq, SeqDomain
      <4>. QED BY <4>2 DEF Dropped, Announced
    <3>. QED BY <3>1, <3>2 DEF Steps
  <2>. QED BY <1>1, <2>1, <2>2 DEF Tables, Early
<1>. QED BY <1>2, <1>3, <1>4, <1>5, <1>6, <1>7 DEF Tables

-----------------------------------------------------------------------------
(* A step of a transfer keeps the rest. *)

(* What it does to the replies.                                            *)
LEMMA StepsReplies ==
  ASSUME NEW i, NEW y, Steps(i, y)
  PROVE  replies' = replies \/ \E a : replies' = Append(replies, a)
<1>. QED BY DEF Steps, Takes, Says, Gives

LEMMA RepliesKept ==
  ASSUME IsSeq(replies), replies' = replies \/ \E a : replies' = Append(replies, a)
  PROVE  /\ IsSeq(replies') /\ Len(replies) \in Nat /\ Len(replies') \in Nat /\ Len(replies) <= Len(replies')
         /\ \A r \in 1 .. Len(replies) : replies'[r] = replies[r]
<1>1. CASE replies' = replies BY <1>1, SeqDomain
<1>2. ASSUME NEW a, replies' = Append(replies, a)
      PROVE  /\ IsSeq(replies') /\ Len(replies) \in Nat /\ Len(replies') \in Nat /\ Len(replies) <= Len(replies')
             /\ \A r \in 1 .. Len(replies) : replies'[r] = replies[r]
  BY <1>2, NewAnswer
<1>. QED BY <1>1, <1>2

LEMMA StepsMind ==
  ASSUME Mind, Heard, NEW i, NEW y, Steps(i, y)
  PROVE  Mind' /\ Heard'
<1>1. /\ IsSeq(replies') /\ Len(replies) \in Nat /\ Len(replies') \in Nat /\ Len(replies) <= Len(replies')
  BY StepsReplies, RepliesKept DEF Heard
<1>2. UNCHANGED <<control, user, handles>> /\ (main' = main \/ main' = Kill(main)) BY DEF Steps
<1>3. DOMAIN main' = DOMAIN main /\ (Holding' => main' = main) BY <1>2 DEF Kill, Holding, Mind
<1>4. Mind'
  <2>1. CASE main' = main
    <3>1. Holding' <=> Holding BY <2>1 DEF Holding
    <3>2. main.cmd.after \in 0 .. Len(replies) => main.cmd.after \in 0 .. Len(replies') BY <1>1
    <3>. QED BY <1>2, <2>1, <3>1, <3>2 DEF Mind
  <2>2. CASE ~Holding' BY <1>3, <2>2 DEF Mind, Holding
  <2>. QED BY <1>3, <2>1, <2>2
<1>5. \A k \in DOMAIN control : control[k].after \in 0 .. Len(replies') BY <1>1 DEF Heard
<1>6. Heard' BY <1>1, <1>2, <1>5 DEF Heard
<1>. QED BY <1>4, <1>6

LEMMA StepsLooked ==
  ASSUME IInv, NEW i, NEW y, Steps(i, y)
  PROVE  Looked'
<1>. SUFFICES ASSUME main'.pc \in {"rereap", "do", "put"} PROVE Looked' BY DEF Looked
<1>1. main' = main BY DEF Steps, Kill, IInv, Mind
<1>2. main.cmd.after \in 0 .. Len(replies) BY <1>1 DEF IInv, Mind, Holding
<1>3. /\ Len(replies) \in Nat /\ \A r \in 1 .. Len(replies) : replies'[r] = replies[r]
      /\ DOMAIN replies = 1 .. Len(replies)
  BY StepsReplies, RepliesKept, SeqDomain DEF IInv, Heard
<1>4. /\ i \in DOMAIN xfers /\ DOMAIN xfers' = DOMAIN xfers
      /\ xfers'[i] = y /\ \A j \in DOMAIN xfers : j # i => xfers'[j] = xfers[j]
  BY StepsXfers DEF IInv, Tables
<1>5. y.listed = xfers[i].listed BY DEF Steps, Goes
<1>6. y.close = xfers[i].close \/ y.close \notin Given \cup {"TIDNO"}
  <2>1. CASE Says(xfers[i], y) BY <2>1 DEF Says
  <2>2. CASE Takes(xfers[i], y) /\ y.close # xfers[i].close
    <3>1. IsSeq(xfers[i].pipe) BY <1>4 DEF IInv, Tables, Fitting, Fit, PipeOK
    <3>2. /\ xfers[i].pipe # << >> /\ y.close = Head(xfers[i].pipe).tid /\ Head(xfers[i].pipe).cname = "CLOSE"
          /\ MsgOK(xfers[i].pipe[1]) /\ 1 \in DOMAIN xfers[i].pipe /\ Head(xfers[i].pipe) = xfers[i].pipe[1]
      BY <1>4, <2>2, <3>1, TailSeq DEF Takes, IInv, Tables, Fitting, Fit, PipeOK
    <3>3. Asked(y.close, i, 1) BY <1>4, <3>2 DEF Asked, Speaking
    <3>4. y.close \in Piped BY <3>3, InPipe
    <3>5. y.close # "TIDNO" BY <3>2 DEF MsgOK, NoTids, Speaking
    <3>. QED BY <3>4, <3>5 DEF IInv, Tokens, Apart, Separate
  <2>. QED BY <2>1, <2>2 DEF Steps
<1>7. y.close # xfers[i].close => \A r \in 1 .. Len(replies) : replies[r].tid # y.close
  BY <1>3, <1>6 DEF Given
<1>. QED BY <1>1, <1>2, <1>3, <1>4, <1>5, <1>7 DEF IInv, Looked

-----------------------------------------------------------------------------
(* A step of a transfer keeps each command in one place. *)

LEMMA InPipeNext == \A t : t \in Piped' <=> \E i, k : Asked(t, i, k)'
<1>. QED BY DEF Piped, Asking, Asked

(* The pipes lose commands but get none.                                   *)
LEMMA PipesSame ==
  ASSUME \A t, i, k : Asked(t, i, k)' <=> Asked(t, i, k), AskedOnce
  PROVE  Piped' = Piped /\ AskedOnce'
<1>1. Piped' = Piped BY InPipe, InPipeNext
<1>2. ASSUME NEW t, NEW i, NEW j, NEW k, NEW l, Asked(t, i, k)', Asked(t, j, l)' PROVE i = j /\ k = l
  <2>1. Asked(t, i, k) /\ Asked(t, j, l) BY <1>2
  <2>. QED BY <2>1, OnceAsked
<1>3. AskedOnce' BY <1>2 DEF AskedOnce
<1>. QED BY <1>1, <1>3

LEMMA PipesTail ==
  ASSUME Fitting, AskedOnce, NEW i, NEW y, Steps(i, y), xfers[i].pipe # << >>, y.pipe = Tail(xfers[i].pipe)
  PROVE  /\ Piped' \subseteq Piped /\ AskedOnce'
         /\ Head(xfers[i].pipe).cname \in Speaking =>
              Head(xfers[i].pipe).tid \in Piped /\ Head(xfers[i].pipe).tid \notin Piped'
<1>1. /\ i \in DOMAIN xfers /\ DOMAIN xfers' = DOMAIN xfers
      /\ xfers'[i] = y /\ \A j \in DOMAIN xfers : j # i => xfers'[j] = xfers[j]
  BY StepsXfers
<1> DEFINE p == xfers[i].pipe
<1>2. IsSeq(p) /\ p # << >> BY <1>1 DEF Fitting, Fit, PipeOK
<1> HIDE DEF p
<1>3. /\ DOMAIN Tail(p) = 1 .. (Len(p) - 1) /\ 1 \in DOMAIN p /\ Head(p) = p[1]
      /\ \A k \in DOMAIN Tail(p) : k + 1 \in DOMAIN p /\ k + 1 # 1 /\ Tail(p)[k] = p[k + 1]
  BY <1>2, TailSeq
<1>4. ASSUME NEW t, NEW j, NEW k, Asked(t, j, k)'
      PROVE  IF j = i THEN k \in DOMAIN Tail(p) /\ Asked(t, i, k + 1) /\ k + 1 # 1 ELSE Asked(t, j, k)
  <2>1. CASE j # i BY <1>1, <1>4, <2>1 DEF Asked
  <2>2. CASE j = i BY <1>1, <1>3, <1>4, <2>2 DEF Asked, p
  <2>. QED BY <2>1, <2>2
<1>5. ASSUME NEW t, NEW j, NEW j2, NEW k, NEW l, Asked(t, j, k)', Asked(t, j2, l)' PROVE j = j2 /\ k = l
  <2>1. CASE j = i /\ j2 = i
    <3>1. k \in DOMAIN Tail(p) /\ l \in DOMAIN Tail(p) /\ Asked(t, i, k + 1) /\ Asked(t, i, l + 1) BY <1>4, <1>5, <2>1
    <3>2. k + 1 = l + 1 BY <3>1, OnceAsked
    <3>3. k \in Int /\ l \in Int BY <1>3, <3>1
    <3>. QED BY <2>1, <3>2, <3>3
  <2>2. CASE j = i /\ j2 # i
    <3>1. Asked(t, i, k + 1) /\ Asked(t, j2, l) BY <1>4, <1>5, <2>2
    <3>. QED BY <2>2, <3>1, OnceAsked
  <2>3. CASE j # i /\ j2 = i
    <3>1. Asked(t, j, k) /\ Asked(t, i, l + 1) BY <1>4, <1>5, <2>3
    <3>. QED BY <2>3, <3>1, OnceAsked
  <2>4. CASE j # i /\ j2 # i
    <3>1. Asked(t, j, k) /\ Asked(t, j2, l) BY <1>4, <1>5, <2>4
    <3>. QED BY <3>1, OnceAsked
  <2>. QED BY <2>1, <2>2, <2>3, <2>4
<1>6. AskedOnce' BY <1>5 DEF AskedOnce
<1>7. Piped' \subseteq Piped BY <1>4, InPipe, InPipeNext
<1>8. ASSUME NEW t, t = Head(p).tid, Head(p).cname \in Speaking PROVE t \in Piped /\ t \notin Piped'
  <2>1. Asked(t, i, 1) BY <1>1, <1>3, <1>8 DEF Asked, p
  <2>2. t \in Piped BY <2>1, InPipe
  <2>3. ASSUME NEW j, NEW k, Asked(t, j, k)' PROVE FALSE
    <3>1. CASE j = i
      <4>1. Asked(t, i, k + 1) /\ k + 1 # 1 BY <1>4, <2>3, <3>1
      <4>. QED BY <2>1, <4>1, OnceAsked
    <3>2. CASE j # i
      <4>1. Asked(t, j, k) BY <1>4, <2>3, <3>2
      <4>. QED BY <2>1, <3>2, <4>1, OnceAsked
    <3>. QED BY <3>1, <3>2
  <2>. QED BY <2>2, <2>3, InPipeNext
<1>. QED BY <1>6, <1>7, <1>8 DEF p

(* A transfer that keeps no CLOSE, or the one it kept.                     *)
LEMMA KeptSame ==
  ASSUME DOMAIN xfers' = DOMAIN xfers, \A j \in DOMAIN xfers : xfers'[j].close = xfers[j].close, KeptOnce
  PROVE  Kept' = Kept /\ KeptOnce'
<1>1. Kept' = Kept BY DEF Kept
<1>. QED BY <1>1 DEF KeptOnce

LEMMA KeptMore ==
  ASSUME DOMAIN xfers' = DOMAIN xfers, NEW i \in DOMAIN xfers, KeptOnce,
         \A j \in DOMAIN xfers : j # i => xfers'[j].close = xfers[j].close,
         xfers[i].close = "none", xfers'[i].close \notin Kept \cup {"none", "TIDNO"}
  PROVE  Kept' \subseteq Kept \cup {xfers'[i].close} /\ KeptOnce'
<1>1. Kept' \subseteq Kept \cup {xfers'[i].close} BY DEF Kept
<1>2. \A j \in DOMAIN xfers : j # i => xfers'[j].close # xfers'[i].close BY DEF Kept
<1>. QED BY <1>1, <1>2 DEF KeptOnce

(* The places a transfer does not touch.                                   *)
LEMMA StepsPlaces ==
  ASSUME Mind, NEW i, NEW y, Steps(i, y)
  PROVE  Unsaid' = Unsaid /\ Waiting' = Waiting /\ InHand' \subseteq InHand /\ (SaidOnce => SaidOnce')
<1>1. UNCHANGED <<control, user>> /\ (main' = main \/ main' = Kill(main)) BY DEF Steps
<1>2. InHand' \subseteq InHand BY <1>1 DEF InHand, Holding, Kill, Mind
<1>. QED BY <1>1, <1>2 DEF Unsaid, Sayings, Waiting, SaidOnce

(* Those of a step that takes no command.                                  *)
LEMMA SaysTokens ==
  ASSUME IInv, NEW i, NEW y, Steps(i, y), Says(xfers[i], y)
  PROVE  Tokens'
<1> DEFINE x == xfers[i]
<1>1. /\ i \in DOMAIN xfers /\ DOMAIN xfers' = DOMAIN xfers
      /\ xfers'[i] = y /\ \A j \in DOMAIN xfers : j # i => xfers'[j] = xfers[j]
  BY StepsXfers DEF IInv, Tables
<1>2. y.pipe = x.pipe /\ y.close = x.close BY DEF Says
<1>3. \A t, j, k : Asked(t, j, k)' <=> Asked(t, j, k) BY <1>1, <1>2 DEF Asked
<1>4. Piped' = Piped /\ AskedOnce' BY <1>3, PipesSame DEF IInv, Tokens
<1>5. Kept' = Kept /\ KeptOnce' BY <1>1, <1>2, KeptSame DEF IInv, Tokens
<1>6. Unsaid' = Unsaid /\ Waiting' = Waiting /\ InHand' \subseteq InHand /\ SaidOnce'
  BY StepsPlaces DEF IInv, Tokens
<1>7. \A j \in DOMAIN xfers : /\ Dropped(j) => Dropped(j)'
                              /\ xfers[j].pc \in PastAnswer => xfers'[j].pc \in PastAnswer
                              /\ xfers'[j].close = xfers[j].close
  BY <1>1, <1>2, StepsDropped DEF IInv, Steps, Goes
<1>8. IsSeq(replies) BY DEF IInv, Heard
<1>9. CASE replies' = replies \/ replies' = Append(replies, Mark(x.fh))
  <2>1. Given' = Given /\ AnsweredOnce'
    <3>1. CASE replies' = replies BY <3>1 DEF Given, AnsweredOnce, IInv, Tokens
    <3>2. CASE replies' = Append(replies, Mark(x.fh))
      <4>1. Mark(x.fh).tid = "TIDNO" BY DEF Mark, Answer
      <4>2. Mark(x.fh).tid \notin Given BY <4>1 DEF Given
      <4>. QED BY <1>8, <3>2, <4>1, <4>2, GivenMore DEF IInv, Tokens
    <3>. QED BY <1>9, <3>1, <3>2
  <2>2. ClosedLate' BY <1>1, <1>7, <2>1 DEF ClosedLate, IInv, Tokens
  <2>3. Apart' BY <1>4, <1>5, <1>6, <2>1, Less DEF Apart, IInv, Tokens
  <2>. QED BY <1>4, <1>5, <1>6, <2>1, <2>2, <2>3 DEF Tokens
<1>10. CASE x.close # "none" /\ x.pc = "answer" /\ y.pc \in PastAnswer /\ Gives(x.close)
  <2>1. PICK a : replies' = Append(replies, a) /\ a.tid = x.close BY <1>10 DEF Gives
  <2>2. x.close \in Kept /\ x.close # "TIDNO" BY <1>1, <1>10 DEF Kept, KeptOnce, IInv, Tokens
  <2>3. x.close \notin Given BY <1>1, <1>10 DEF ClosedLate, PastAnswer, IInv, Tokens
  <2>4. Given' = Given \cup {x.close} /\ AnsweredOnce'
    BY <1>8, <2>1, <2>2, <2>3, GivenMore DEF IInv, Tokens
  <2>5. Dropped(i)' BY <1>1, <1>7, <1>10 DEF Early, ClosingPcs, IInv, Tables
  <2>6. \A j \in DOMAIN xfers : xfers[j].close = x.close => j = i BY <1>1, <1>10 DEF KeptOnce, IInv, Tokens
  <2>7. ClosedLate'
    <3>. SUFFICES ASSUME NEW j \in DOMAIN xfers, xfers'[j].close # "none", xfers'[j].close \in Given'
                  PROVE  xfers'[j].pc \in PastAnswer /\ Dropped(j)'
      BY <1>1 DEF ClosedLate
    <3>1. CASE xfers[j].close \in Given BY <1>7, <3>1 DEF ClosedLate, IInv, Tokens
    <3>2. CASE j = i BY <1>1, <1>10, <2>5, <3>2
    <3>. QED BY <1>7, <2>4, <2>6, <3>1, <3>2
  <2>8. Kept' \cup Given' \subseteq Kept \cup Given BY <1>5, <2>2, <2>4
  <2>9. Apart' BY <1>4, <1>6, <2>8, Less DEF Apart, IInv, Tokens
  <2>. QED BY <1>4, <1>5, <1>6, <2>4, <2>7, <2>9 DEF Tokens
<1>. QED BY <1>9, <1>10 DEF Says

(* Those of a step that takes one.                                         *)
LEMMA TakesTokens ==
  ASSUME IInv, NEW i, NEW y, Steps(i, y), Takes(xfers[i], y)
  PROVE  Tokens'
<1> DEFINE x == xfers[i]
           t == Head(x.pipe)
<1>1. /\ i \in DOMAIN xfers /\ DOMAIN xfers' = DOMAIN xfers
      /\ xfers'[i] = y /\ \A j \in DOMAIN xfers : j # i => xfers'[j] = xfers[j]
  BY StepsXfers DEF IInv, Tables
<1>2. x.pipe # << >> /\ y.pipe = Tail(x.pipe) BY DEF Takes
<1>3. /\ Piped' \subseteq Piped /\ AskedOnce'
      /\ t.cname \in Speaking => t.tid \in Piped /\ t.tid \notin Piped'
  BY <1>2, PipesTail DEF IInv, Tables, Tokens
<1>4. Unsaid' = Unsaid /\ Waiting' = Waiting /\ InHand' \subseteq InHand /\ SaidOnce'
  BY StepsPlaces DEF IInv, Tokens
<1>5. \A j \in DOMAIN xfers : /\ Dropped(j) => Dropped(j)'
                              /\ xfers[j].pc \in PastAnswer => xfers'[j].pc \in PastAnswer
  BY <1>1, StepsDropped DEF IInv, Steps, Goes
<1>6. IsSeq(replies) BY DEF IInv, Heard
<1>7. t.cname \in Speaking => t.tid \notin NoTids
  <2>1. PipeOK(x) BY <1>1 DEF IInv, Tables, Fitting, Fit
  <2>2. 1 \in DOMAIN x.pipe /\ t = x.pipe[1] BY <1>2, <2>1, TailSeq DEF PipeOK
  <2>. QED BY <2>1, <2>2 DEF PipeOK, MsgOK
<1>8. t.cname \in Speaking => t.tid \notin Kept \cup Given BY <1>3 DEF IInv, Tokens, Apart, Separate
<1>9. CASE t.cname \in Silent /\ y.close = x.close /\ replies' = replies
  <2>1. Kept' = Kept /\ KeptOnce' BY <1>1, <1>9, KeptSame DEF IInv, Tokens
  <2>2. Given' = Given /\ AnsweredOnce' BY <1>9 DEF Given, AnsweredOnce, IInv, Tokens
  <2>3. ClosedLate' BY <1>1, <1>5, <1>9, <2>2 DEF ClosedLate, IInv, Tokens
  <2>4. Apart' BY <1>3, <1>4, <2>1, <2>2, Less DEF Apart, IInv, Tokens
  <2>. QED BY <1>3, <1>4, <2>1, <2>2, <2>3, <2>4 DEF Tokens
<1>10. CASE t.cname = "CLOSE" /\ x.close = "none" /\ y.close = t.tid /\ replies' = replies
  <2>1. t.cname \in Speaking BY <1>10 DEF Speaking
  <2>2. y.close \notin Kept \cup Given \cup {"none", "TIDNO"} BY <1>7, <1>8, <1>10, <2>1 DEF NoTids
  <2>3. Kept' \subseteq Kept \cup {t.tid} /\ KeptOnce' BY <1>1, <1>10, <2>2, KeptMore DEF IInv, Tokens
  <2>4. Given' = Given /\ AnsweredOnce' BY <1>10 DEF Given, AnsweredOnce, IInv, Tokens
  <2>5. ClosedLate' BY <1>1, <1>5, <2>2, <2>4 DEF ClosedLate, IInv, Tokens
  <2>6. Kept' \cup Given' \subseteq (Kept \cup Given) \cup {t.tid} BY <2>3, <2>4
  <2>7. Apart'
    <3> HIDE DEF t
    <3>. QED BY <1>3, <1>4, <2>1, <2>6, TakenUp DEF Apart, IInv, Tokens
  <2>. QED BY <1>3, <1>4, <2>3, <2>4, <2>5, <2>7 DEF Tokens
<1>11. CASE t.cname \in Speaking /\ y.close = x.close /\ Gives(t.tid)
  <2>1. PICK a : replies' = Append(replies, a) /\ a.tid = t.tid BY <1>11 DEF Gives
  <2>2. t.tid \notin Kept \cup Given /\ t.tid # "TIDNO" BY <1>7, <1>8, <1>11 DEF NoTids
  <2>3. Given' = Given \cup {t.tid} /\ AnsweredOnce'
    <3> HIDE DEF t
    <3>. QED BY <1>6, <2>1, <2>2, GivenMore DEF IInv, Tokens
  <2>4. Kept' = Kept /\ KeptOnce' BY <1>1, <1>11, KeptSame DEF IInv, Tokens
  <2>5. ClosedLate'
    <3>. SUFFICES ASSUME NEW j \in DOMAIN xfers, xfers'[j].close # "none", xfers'[j].close \in Given'
                  PROVE  xfers'[j].pc \in PastAnswer /\ Dropped(j)'
      BY <1>1 DEF ClosedLate
    <3>1. xfers'[j].close = xfers[j].close BY <1>1, <1>11
    <3>2. t.tid # "none" BY <1>7, <1>11 DEF NoTids
    <3>3. xfers[j].close # t.tid BY <2>2, <3>2 DEF Kept
    <3>4. xfers[j].close \in Given BY <2>3, <3>1, <3>3
    <3>. QED BY <1>5, <3>1, <3>4 DEF ClosedLate, IInv, Tokens
  <2>6. Kept' \cup Given' \subseteq (Kept \cup Given) \cup {t.tid} BY <2>3, <2>4
  <2>7. Apart'
    <3> HIDE DEF t
    <3>. QED BY <1>3, <1>4, <1>11, <2>6, TakenUp DEF Apart, IInv, Tokens
  <2>. QED BY <1>3, <1>4, <2>3, <2>4, <2>5, <2>7 DEF Tokens
<1>. QED BY <1>9, <1>10, <1>11 DEF Takes

LEMMA StepsInv ==
  ASSUME IInv, NEW i, NEW y, Steps(i, y)
  PROVE  IInv'
<1>1. Tokens' BY SaysTokens, TakesTokens DEF Steps
<1>2. Mind' /\ Heard' BY StepsMind DEF IInv
<1>3. Tables' BY StepsTables DEF IInv
<1>4. Looked' BY StepsLooked
<1>. QED BY <1>1, <1>2, <1>3, <1>4 DEF IInv

-----------------------------------------------------------------------------
(* A step of the control process, as it touches the transfers there are.   *)
Same(x, y) ==
  /\ Fit(y) /\ Goes(x, y) /\ y.close = x.close
  /\ y.pc \in ClosingPcs => x.pc \in ClosingPcs
Workers ==
  /\ ~Dead /\ IsSeq(xfers') /\ DOMAIN xfers' = DOMAIN xfers
  /\ \A j \in DOMAIN xfers : Same(xfers[j], xfers'[j])
  /\ UNCHANGED <<handles, ctlpipe, conns, control, user>>

(* What becomes of its command: it goes on with it, or it is done.         *)
MainKept == DOMAIN main' = DOMAIN main
GoesOn ==
  /\ MainKept /\ main'.cmd = main.cmd /\ replies' = replies
  /\ Holding' => Holding
  /\ main'.pc \in {"rereap", "do", "put"} => main.pc \in {"rereap", "do", "put"}
  /\ main'.pc = "put" /\ T.fh # "" => T.fh \in DOMAIN handles
Concludes == MainKept /\ ~Holding' /\ (replies' = replies \/ (Holding /\ Gives(T.tid)))

(* What becomes of the commands in the pipes: they stay, or it tells a     *)
(* transfer one of that number.                                            *)
PipesKept == \A t, j, k : Asked(t, j, k)' <=> Asked(t, j, k)
PipesTold(tid) ==
  \E i, l : \A t, j, k : Asked(t, j, k)' => Asked(t, j, k) \/ (t = tid /\ j = i /\ k = l)

LEMMA WorkersTables ==
  ASSUME Tables, Workers
  PROVE  Tables' /\ \A j \in DOMAIN xfers : Dropped(j) => Dropped(j)'
<1>1. /\ IsSeq(xfers') /\ DOMAIN xfers' = DOMAIN xfers /\ ~Dead
      /\ UNCHANGED <<handles, ctlpipe, conns>>
      /\ \A j \in DOMAIN xfers : Fit(xfers'[j]) /\ Goes(xfers[j], xfers'[j])
                                 /\ (xfers'[j].pc \in ClosingPcs => xfers[j].pc \in ClosingPcs)
  BY DEF Workers, Same
<1>2. Handles' BY <1>1 DEF Tables, Handles, HandleOK
<1>3. Fitting' BY <1>1 DEF Tables, Fitting, Goes
<1>4. Listed'
  <2>1. ASSUME NEW j \in DOMAIN xfers
        PROVE  /\ OnHandle(j, xfers[j]) => OnHandle(j, xfers[j])'
               /\ xfers'[j].listed = xfers[j].listed
               /\ Finished(xfers[j]) => Finished(xfers'[j])
    BY <1>1 DEF OnHandle, Goes, Reading
  <2>2. ASSUME NEW j \in DOMAIN xfers PROVE IF xfers'[j].listed THEN OnHandle(j, xfers[j])' ELSE Finished(xfers'[j])
    BY <2>1 DEF Tables, Listed
  <2>. QED BY <1>1, <2>2 DEF Listed
<1>5. Posted' BY <1>1 DEF Tables, Posted, Goes
<1>6. \A j \in DOMAIN xfers : Dropped(j) => Dropped(j)' BY <1>1 DEF Dropped, Announced, Goes
<1>7. Early' BY <1>1, <1>6 DEF Tables, Early
<1>8. Nets' BY <1>1, SameNets DEF NetsKept, Tables
<1>. QED BY <1>2, <1>3, <1>4, <1>5, <1>6, <1>7, <1>8 DEF Tables

LEMMA WorkersTokens ==
  ASSUME IInv, Workers
  PROVE  /\ Unsaid' = Unsaid /\ Waiting' = Waiting /\ SaidOnce'
         /\ Kept' = Kept /\ KeptOnce'
         /\ \A j \in DOMAIN xfers : /\ xfers[j].pc \in PastAnswer => xfers'[j].pc \in PastAnswer
                                    /\ xfers'[j].close = xfers[j].close /\ xfers'[j].listed = xfers[j].listed
<1>1. /\ DOMAIN xfers' = DOMAIN xfers /\ control' = control /\ user' = user
      /\ \A j \in DOMAIN xfers : /\ xfers[j].pc \in PastAnswer => xfers'[j].pc \in PastAnswer
                                 /\ xfers'[j].close = xfers[j].close /\ xfers'[j].listed = xfers[j].listed
  BY DEF Workers, Same, Goes
<1>2. Unsaid' = Unsaid /\ Waiting' = Waiting /\ SaidOnce'
  BY <1>1 DEF Unsaid, Sayings, Waiting, SaidOnce, IInv, Tokens
<1>3. Kept' = Kept /\ KeptOnce' BY <1>1, KeptSame DEF IInv, Tokens
<1>. QED BY <1>1, <1>2, <1>3

(* It goes on with its command.                                            *)
LEMMA GoesOnInv ==
  ASSUME IInv, Workers, PipesKept, GoesOn
  PROVE  IInv'
<1>1. Tables' /\ \A j \in DOMAIN xfers : Dropped(j) => Dropped(j)' BY WorkersTables DEF IInv
<1>2. /\ Unsaid' = Unsaid /\ Waiting' = Waiting /\ SaidOnce'
      /\ Kept' = Kept /\ KeptOnce'
      /\ \A j \in DOMAIN xfers : /\ xfers[j].pc \in PastAnswer => xfers'[j].pc \in PastAnswer
                                 /\ xfers'[j].close = xfers[j].close /\ xfers'[j].listed = xfers[j].listed
  BY WorkersTokens
<1>3. Piped' = Piped /\ AskedOnce' BY PipesSame DEF PipesKept, IInv, Tokens
<1>4. DOMAIN xfers' = DOMAIN xfers /\ UNCHANGED <<control, user, handles>> BY DEF Workers
<1>5. Given' = Given /\ AnsweredOnce' /\ replies' = replies BY DEF GoesOn, Given, AnsweredOnce, IInv, Tokens
<1>6. InHand' \subseteq InHand BY DEF InHand, GoesOn
<1>7. Apart' BY <1>2, <1>3, <1>5, <1>6, Less DEF Apart, IInv, Tokens
<1>8. ClosedLate' BY <1>1, <1>2, <1>4, <1>5 DEF ClosedLate, IInv, Tokens
<1>9. Mind' BY <1>4 DEF Mind, Holding, GoesOn, MainKept, IInv, T
<1>10. Heard' BY <1>4, <1>5 DEF Heard, IInv
<1>11. Looked' BY <1>2, <1>4, <1>5 DEF Looked, GoesOn, IInv
<1>. QED BY <1>1, <1>2, <1>3, <1>5, <1>7, <1>8, <1>9, <1>10, <1>11 DEF IInv, Tokens

(* Without a command there is little to say of the control process.        *)
LEMMA NothingInHand ==
  ASSUME Mind, Heard, MainKept, ~Holding', UNCHANGED <<control, user>>,
         replies' = replies \/ \E a : replies' = Append(replies, a)
  PROVE  Mind' /\ Heard' /\ Looked' /\ InHand' = {}
<1>1. Mind' BY DEF Mind, Holding, MainKept
<1>2. /\ IsSeq(replies') /\ Len(replies) \in Nat /\ Len(replies') \in Nat /\ Len(replies) <= Len(replies')
  BY RepliesKept DEF Heard
<1>3. \A k \in DOMAIN control : control[k].after \in 0 .. Len(replies') BY <1>2 DEF Heard
<1>4. Heard' BY <1>2, <1>3 DEF Heard
<1>5. Looked' BY DEF Looked, Holding
<1>. QED BY <1>1, <1>4, <1>5 DEF InHand

(* What is answered is with the replies: the transfers keep none of it.    *)
LEMMA AnswerTokens ==
  ASSUME IInv, Holding, Gives(T.tid)
  PROVE  /\ Given' = Given \cup {T.tid} /\ AnsweredOnce'
         /\ T.tid \in InHand /\ \A j \in DOMAIN xfers : xfers[j].close # T.tid
<1>1. T.tid \in InHand BY DEF InHand, T
<1>2. T.tid \notin Kept \cup Given BY <1>1 DEF IInv, Tokens, Apart, Separate
<1>3. T.tid \notin {"none", "TIDNO"} BY DEF IInv, Mind, NoTids, T
<1>4. PICK a : replies' = Append(replies, a) /\ a.tid = T.tid BY DEF Gives
<1>5. Given' = Given \cup {T.tid} /\ AnsweredOnce'
  BY <1>2, <1>3, <1>4, GivenMore DEF IInv, Tokens, Heard
<1>. QED BY <1>1, <1>2, <1>3, <1>5 DEF Kept

(* It is done with it.                                                     *)
LEMMA EndsInv ==
  ASSUME IInv, Workers, PipesKept, Concludes
  PROVE  IInv'
<1>1. Tables' /\ \A j \in DOMAIN xfers : Dropped(j) => Dropped(j)' BY WorkersTables DEF IInv
<1>2. /\ Unsaid' = Unsaid /\ Waiting' = Waiting /\ SaidOnce'
      /\ Kept' = Kept /\ KeptOnce'
      /\ \A j \in DOMAIN xfers : /\ xfers[j].pc \in PastAnswer => xfers'[j].pc \in PastAnswer
                                 /\ xfers'[j].close = xfers[j].close /\ xfers'[j].listed = xfers[j].listed
  BY WorkersTokens
<1>3. Piped' = Piped /\ AskedOnce' BY PipesSame DEF PipesKept, IInv, Tokens
<1>4. DOMAIN xfers' = DOMAIN xfers /\ UNCHANGED <<control, user>> BY DEF Workers
<1>5. Mind' /\ Heard' /\ Looked' /\ InHand' = {} BY <1>4, NothingInHand DEF Concludes, Gives, IInv
<1>6. CASE replies' = replies
  <2>1. Given' = Given /\ AnsweredOnce' BY <1>6 DEF Given, AnsweredOnce, IInv, Tokens
  <2>2. InHand' \subseteq InHand BY <1>5
  <2>3. Apart' BY <1>2, <1>3, <2>1, <2>2, Less DEF Apart, IInv, Tokens
  <2>4. ClosedLate' BY <1>1, <1>2, <1>4, <2>1 DEF ClosedLate, IInv, Tokens
  <2>. QED BY <1>1, <1>2, <1>3, <1>5, <2>1, <2>3, <2>4 DEF IInv, Tokens
<1>7. CASE Holding /\ Gives(T.tid)
  <2>1. /\ Given' = Given \cup {T.tid} /\ AnsweredOnce'
        /\ T.tid \in InHand /\ \A j \in DOMAIN xfers : xfers[j].close # T.tid
    BY <1>7, AnswerTokens
  <2>2. Kept' \cup Given' \subseteq (Kept \cup Given) \cup {T.tid} BY <1>2, <2>1
  <2>3. Apart' BY <1>2, <1>3, <1>5, <2>1, <2>2, Settled DEF Apart, IInv, Tokens
  <2>4. ClosedLate' BY <1>1, <1>2, <1>4, <2>1 DEF ClosedLate, IInv, Tokens
  <2>. QED BY <1>1, <1>2, <1>3, <1>5, <2>1, <2>3, <2>4 DEF IInv, Tokens
<1>. QED BY <1>6, <1>7 DEF Concludes

(* It is done with it, and a transfer has it.                              *)
LEMMA PipesMore ==
  ASSUME AskedOnce, NEW t, t \notin Piped, PipesTold(t)
  PROVE  Piped' \subseteq Piped \cup {t} /\ AskedOnce'
<1>1. PICK i, l : \A u, j, k : Asked(u, j, k)' => Asked(u, j, k) \/ (u = t /\ j = i /\ k = l) BY DEF PipesTold
<1>2. Piped' \subseteq Piped \cup {t} BY <1>1, InPipe, InPipeNext
<1>3. ASSUME NEW u, NEW j, NEW j2, NEW k, NEW k2, Asked(u, j, k)', Asked(u, j2, k2)' PROVE j = j2 /\ k = k2
  <2>1. ~ \E n, m : Asked(t, n, m) BY InPipe
  <2>. QED BY <1>1, <1>3, <2>1, OnceAsked
<1>4. AskedOnce' BY <1>3 DEF AskedOnce
<1>. QED BY <1>2, <1>4

LEMMA TellsInv ==
  ASSUME IInv, Workers, Holding, NEW t, t = T.tid, PipesTold(t), MainKept, ~Holding', replies' = replies
  PROVE  IInv'
<1>1. Tables' /\ \A j \in DOMAIN xfers : Dropped(j) => Dropped(j)' BY WorkersTables DEF IInv
<1>2. /\ Unsaid' = Unsaid /\ Waiting' = Waiting /\ SaidOnce'
      /\ Kept' = Kept /\ KeptOnce'
      /\ \A j \in DOMAIN xfers : /\ xfers[j].pc \in PastAnswer => xfers'[j].pc \in PastAnswer
                                 /\ xfers'[j].close = xfers[j].close /\ xfers'[j].listed = xfers[j].listed
  BY WorkersTokens
<1>3. t \in InHand BY DEF InHand, T
<1>4. t \notin Piped BY <1>3 DEF IInv, Tokens, Apart, Separate
<1>5. Piped' \subseteq Piped \cup {t} /\ AskedOnce' BY <1>4, PipesMore DEF IInv, Tokens
<1>6. DOMAIN xfers' = DOMAIN xfers /\ UNCHANGED <<control, user>> BY DEF Workers
<1>7. Mind' /\ Heard' /\ Looked' /\ InHand' = {} BY <1>6, NothingInHand DEF IInv
<1>8. Given' = Given /\ AnsweredOnce' BY DEF Given, AnsweredOnce, IInv, Tokens
<1>9. Apart' BY <1>2, <1>3, <1>5, <1>7, <1>8, PassedOn DEF Apart, IInv, Tokens
<1>10. ClosedLate' BY <1>1, <1>2, <1>6, <1>8 DEF ClosedLate, IInv, Tokens
<1>. QED BY <1>1, <1>2, <1>5, <1>7, <1>8, <1>9, <1>10 DEF IInv, Tokens

-----------------------------------------------------------------------------
(* A transfer is started. *)

Begins(x) ==
  /\ Fit(x) /\ x.fh = T.fh /\ x.listed /\ x.conn = Fh.conn /\ x.close = "none" /\ x.pc = "top"
  /\ T.fh \in DOMAIN handles /\ Fh.xfer = 0
  /\ Fh.type = IF Reading(x) THEN "INPUT" ELSE "OUTPUT"
Starts(x) ==
  /\ ~Dead /\ Holding /\ Begins(x) /\ Started(x)
  /\ UNCHANGED <<ctlpipe, conns, control, user>> /\ MainKept /\ ~Holding'

LEMMA StartsXfers ==
  ASSUME Fitting, NEW x, Starts(x)
  PROVE  /\ IsSeq(xfers') /\ Len(xfers) \in Nat /\ DOMAIN xfers = 1 .. Len(xfers)
         /\ DOMAIN xfers' = DOMAIN xfers \cup {Len(xfers) + 1}
         /\ xfers'[Len(xfers) + 1] = x /\ \A j \in DOMAIN xfers : xfers'[j] = xfers[j]
<1>1. IsSeq(xfers) BY DEF Fitting
<1>2. xfers' = Append(xfers, x) BY DEF Starts, Started
<1>3. /\ IsSeq(xfers') /\ DOMAIN xfers' = 1 .. (Len(xfers) + 1)
      /\ xfers'[Len(xfers) + 1] = x /\ \A j \in DOMAIN xfers : xfers'[j] = xfers[j]
  BY <1>1, <1>2, AppendSeq
<1>4. Len(xfers) \in Nat /\ DOMAIN xfers = 1 .. Len(xfers) BY <1>1, SeqDomain
<1>. QED BY <1>3, <1>4

LEMMA StartsTables ==
  ASSUME Tables, NEW x, Starts(x)
  PROVE  Tables' /\ \A j \in DOMAIN xfers : Dropped(j) => Dropped(j)'
<1>0. PICK n : n = Len(xfers) + 1 OBVIOUS
<1>1. /\ IsSeq(xfers') /\ Len(xfers) \in Nat /\ DOMAIN xfers = 1 .. Len(xfers)
      /\ DOMAIN xfers' = DOMAIN xfers \cup {n}
      /\ xfers'[n] = x /\ \A j \in DOMAIN xfers : xfers'[j] = xfers[j]
  BY <1>0, StartsXfers DEF Tables
<1>2. n \notin DOMAIN xfers /\ n # 0 BY <1>0, <1>1
<1>3. /\ T.fh \in DOMAIN handles /\ handles' = [handles EXCEPT ![T.fh].xfer = n]
      /\ UNCHANGED <<ctlpipe, conns>> /\ ~Dead
  BY <1>0 DEF Starts, Begins, Started
<1>4. {"type", "conn", "other", "xfer"} \subseteq DOMAIN handles[T.fh] BY <1>3 DEF Tables, Handles, HandleOK
<1>5. /\ DOMAIN handles' = DOMAIN handles
      /\ \A h \in DOMAIN handles : DOMAIN handles'[h] = DOMAIN handles[h]
                                   /\ handles'[h].type = handles[h].type /\ handles'[h].conn = handles[h].conn
                                   /\ (h # T.fh => handles'[h] = handles[h])
      /\ handles'[T.fh].xfer = n
  BY <1>3, <1>4
<1>6. Handles' BY <1>1, <1>3, <1>5 DEF Tables, Handles, HandleOK
<1>7. /\ Fit(x) /\ x.fh = T.fh /\ x.listed /\ x.conn = handles[T.fh].conn /\ x.pc = "top"
      /\ handles[T.fh].xfer = 0 /\ handles[T.fh].type = IF Reading(x) THEN "INPUT" ELSE "OUTPUT"
  BY DEF Starts, Begins, Fh
<1>8. Fitting' BY <1>1, <1>3, <1>7 DEF Tables, Fitting, Handles, HandleOK
<1>9. Listed'
  <2>1. OnHandle(n, x)' BY <1>3, <1>5, <1>7 DEF OnHandle
  <2>2. ASSUME NEW j \in DOMAIN xfers, OnHandle(j, xfers[j]) PROVE OnHandle(j, xfers[j])'
    <3>1. j # 0 BY <1>1
    <3>2. xfers[j].fh \in DOMAIN handles /\ xfers[j].fh # T.fh BY <1>7, <2>2, <3>1 DEF OnHandle
    <3>. QED BY <1>1, <1>5, <2>2, <3>2 DEF OnHandle
  <2>3. ASSUME NEW j \in DOMAIN xfers PROVE IF xfers'[j].listed THEN OnHandle(j, xfers[j])' ELSE Finished(xfers'[j])
    BY <1>1, <2>2 DEF Tables, Listed
  <2>4. IF xfers'[n].listed THEN OnHandle(n, xfers[n])' ELSE Finished(xfers'[n])
    <3>1. xfers'[n].listed BY <1>1, <1>7
    <3>2. OnHandle(n, xfers[n])' BY <1>1, <1>3, <1>5, <1>7 DEF OnHandle
    <3>. QED BY <3>1, <3>2
  <2>. QED BY <1>1, <2>3, <2>4 DEF Listed
<1>10. Posted' BY <1>1, <1>3 DEF Tables, Posted
<1>11. \A j \in DOMAIN xfers : Dropped(j) => Dropped(j)' BY <1>1, <1>3 DEF Dropped, Announced
<1>12. Early' BY <1>1, <1>7, <1>11 DEF Tables, Early, ClosingPcs
<1>13. Nets' BY <1>3, SameNets DEF NetsKept, Tables
<1>. QED BY <1>6, <1>8, <1>9, <1>10, <1>11, <1>12, <1>13 DEF Tables

LEMMA StartsTokens ==
  ASSUME IInv, NEW x, Starts(x)
  PROVE  /\ Unsaid' = Unsaid /\ Waiting' = Waiting /\ SaidOnce'
         /\ Kept' = Kept /\ KeptOnce'
         /\ Mind /\ Heard /\ (replies' = replies \/ Gives(T.tid) => Mind' /\ Heard' /\ Looked' /\ InHand' = {})
<1>1. /\ DOMAIN xfers' = DOMAIN xfers \cup {Len(xfers) + 1} /\ xfers'[Len(xfers) + 1].close = "none"
      /\ \A j \in DOMAIN xfers : xfers'[j] = xfers[j]
  BY StartsXfers DEF Starts, Begins, IInv, Tables
<1>2. UNCHANGED <<control, user>> /\ MainKept /\ ~Holding' BY DEF Starts
<1>3. Unsaid' = Unsaid /\ Waiting' = Waiting /\ SaidOnce'
  BY <1>2 DEF Unsaid, Sayings, Waiting, SaidOnce, IInv, Tokens
<1>4. Kept' = Kept BY <1>1 DEF Kept
<1>5. KeptOnce' BY <1>1, <1>4 DEF KeptOnce, IInv, Tokens
<1>6. ASSUME replies' = replies \/ Gives(T.tid) PROVE Mind' /\ Heard' /\ Looked' /\ InHand' = {}
  BY <1>2, <1>6, NothingInHand DEF IInv, Gives
<1>. QED BY <1>3, <1>4, <1>5, <1>6 DEF IInv

(* The command was to open a file: it is answered.                         *)
LEMMA OpensInv ==
  ASSUME IInv, NEW x, Starts(x), x.pipe = << >>, Gives(T.tid)
  PROVE  IInv'
<1>1. Tables' /\ \A j \in DOMAIN xfers : Dropped(j) => Dropped(j)' BY StartsTables DEF IInv
<1>2. /\ Unsaid' = Unsaid /\ Waiting' = Waiting /\ SaidOnce' /\ Kept' = Kept /\ KeptOnce'
      /\ Mind' /\ Heard' /\ Looked' /\ InHand' = {}
  BY StartsTokens
<1>3. /\ DOMAIN xfers' = DOMAIN xfers \cup {Len(xfers) + 1} /\ xfers'[Len(xfers) + 1] = x
      /\ \A j \in DOMAIN xfers : xfers'[j] = xfers[j] /\ j # Len(xfers) + 1
  <2>1. Fitting BY DEF IInv, Tables
  <2>2. /\ Len(xfers) \in Nat /\ DOMAIN xfers = 1 .. Len(xfers)
        /\ DOMAIN xfers' = DOMAIN xfers \cup {Len(xfers) + 1}
        /\ xfers'[Len(xfers) + 1] = x /\ \A j \in DOMAIN xfers : xfers'[j] = xfers[j]
    BY <2>1, StartsXfers
  <2>. QED BY <2>2
<1>4. DOMAIN xfers'[Len(xfers) + 1].pipe = {} BY <1>3
<1>5. \A t, j, k : Asked(t, j, k)' <=> Asked(t, j, k) BY <1>3, <1>4 DEF Asked
<1>6. Piped' = Piped /\ AskedOnce' BY <1>5, PipesSame DEF IInv, Tokens
<1>7. /\ Given' = Given \cup {T.tid} /\ AnsweredOnce'
      /\ T.tid \in InHand /\ \A j \in DOMAIN xfers : xfers[j].close # T.tid
  BY AnswerTokens DEF Starts
<1>8. Kept' \cup Given' \subseteq (Kept \cup Given) \cup {T.tid} BY <1>2, <1>7
<1>9. Apart' BY <1>2, <1>6, <1>7, <1>8, Settled DEF Apart, IInv, Tokens
<1>10. x.close = "none" BY DEF Starts, Begins
<1>11. ClosedLate' BY <1>1, <1>3, <1>7, <1>10 DEF ClosedLate, IInv, Tokens
<1>. QED BY <1>1, <1>2, <1>6, <1>7, <1>9, <1>11 DEF IInv, Tokens

(* The command was to list: the transfer is to answer.                     *)
LEMMA ListsInv ==
  ASSUME IInv, NEW x, Starts(x), NEW m, x.pipe = <<m>>, m.tid = T.tid, UNCHANGED replies
  PROVE  IInv'
<1>0. PICK t : t = T.tid OBVIOUS
<1>1. Tables' /\ \A j \in DOMAIN xfers : Dropped(j) => Dropped(j)' BY StartsTables DEF IInv
<1>2. /\ Unsaid' = Unsaid /\ Waiting' = Waiting /\ SaidOnce' /\ Kept' = Kept /\ KeptOnce'
      /\ Mind' /\ Heard' /\ Looked' /\ InHand' = {}
  BY StartsTokens
<1>3. PICK n : n = Len(xfers) + 1 OBVIOUS
<1>4. /\ DOMAIN xfers' = DOMAIN xfers \cup {n} /\ xfers'[n] = x
      /\ \A j \in DOMAIN xfers : xfers'[j] = xfers[j]
  BY <1>3, StartsXfers DEF IInv, Tables
<1>5. \A u, j, k : Asked(u, j, k)' => Asked(u, j, k) \/ (u = t /\ j = n /\ k = 1)
  <2>1. DOMAIN x.pipe = {1} /\ x.pipe[1] = m OBVIOUS
  <2>. QED BY <1>0, <1>4, <2>1 DEF Asked
<1>6. t \in InHand BY <1>0 DEF InHand, T, Starts
<1>7. t \notin Piped BY <1>6 DEF IInv, Tokens, Apart, Separate
<1>8. PipesTold(t) BY <1>5 DEF PipesTold
<1>9. Piped' \subseteq Piped \cup {t} /\ AskedOnce' BY <1>7, <1>8, PipesMore DEF IInv, Tokens
<1>10. Given' = Given /\ AnsweredOnce' BY DEF Given, AnsweredOnce, IInv, Tokens
<1>11. Apart' BY <1>2, <1>6, <1>9, <1>10, PassedOn DEF Apart, IInv, Tokens
<1>12. x.close = "none" BY DEF Starts, Begins
<1>13. ClosedLate' BY <1>1, <1>4, <1>10, <1>12 DEF ClosedLate, IInv, Tokens
<1>. QED BY <1>1, <1>2, <1>9, <1>10, <1>11, <1>13 DEF IInv, Tokens

-----------------------------------------------------------------------------
(* The handles and the connections of the control process. *)

(* Of the tokens nothing changes where the transfers do not.               *)
LEMMA Untouched ==
  ASSUME IInv, Tables', UNCHANGED <<xfers, ctlpipe, control, user>>, Concludes, ~Dead
  PROVE  IInv'
<1>1. \A j \in DOMAIN xfers : Dropped(j) => Dropped(j)' BY DEF Dropped, Announced
<1>2. Unsaid' = Unsaid /\ Waiting' = Waiting /\ SaidOnce'
  BY DEF Unsaid, Sayings, Waiting, SaidOnce, IInv, Tokens
<1>3. Kept' = Kept /\ KeptOnce' BY DEF Kept, KeptOnce, IInv, Tokens
<1>4. \A t, j, k : Asked(t, j, k)' <=> Asked(t, j, k) BY DEF Asked
<1>5. Piped' = Piped /\ AskedOnce' BY <1>4, PipesSame DEF IInv, Tokens
<1>6. Mind' /\ Heard' /\ Looked' /\ InHand' = {} BY NothingInHand DEF Concludes, Gives, IInv
<1>7. CASE replies' = replies
  <2>1. Given' = Given /\ AnsweredOnce' BY <1>7 DEF Given, AnsweredOnce, IInv, Tokens
  <2>2. InHand' \subseteq InHand BY <1>6
  <2>3. Apart' BY <1>2, <1>3, <1>5, <2>1, <2>2, Less DEF Apart, IInv, Tokens
  <2>4. ClosedLate' BY <1>1, <2>1 DEF ClosedLate, IInv, Tokens
  <2>. QED BY <1>2, <1>3, <1>5, <1>6, <2>1, <2>3, <2>4 DEF IInv, Tokens
<1>8. CASE Holding /\ Gives(T.tid)
  <2>1. /\ Given' = Given \cup {T.tid} /\ AnsweredOnce'
        /\ T.tid \in InHand /\ \A j \in DOMAIN xfers : xfers[j].close # T.tid
    BY <1>8, AnswerTokens
  <2>2. Kept' \cup Given' \subseteq (Kept \cup Given) \cup {T.tid} BY <1>3, <2>1
  <2>3. Apart' BY <1>2, <1>5, <1>6, <2>1, <2>2, Settled DEF Apart, IInv, Tokens
  <2>4. ClosedLate' BY <1>1, <2>1 DEF ClosedLate, IInv, Tokens
  <2>. QED BY <1>2, <1>3, <1>5, <1>6, <2>1, <2>3, <2>4 DEF IInv, Tokens
<1>. QED BY <1>7, <1>8 DEF Concludes

(* Two handles more, of a connection that is new.                          *)
NewHandles(in, out) ==
  /\ {in, out} \cap DOMAIN handles = {}
  /\ handles' = [h \in DOMAIN handles \cup {in, out} |->
                   IF h = in THEN NewHandle("INPUT", Len(conns) + 1, out)
                   ELSE IF h = out THEN NewHandle("OUTPUT", Len(conns) + 1, in) ELSE handles[h]]
  /\ conns' = Append(conns, NewConn)

LEMMA NewConnNets ==
  ASSUME Nets, conns' = Append(conns, NewConn)
  PROVE  Nets' /\ DOMAIN conns \subseteq DOMAIN conns' /\ Len(conns) + 1 \in DOMAIN conns'
         /\ Len(conns) + 1 \notin DOMAIN conns
<1>1. IsSeq(conns) BY DEF Nets
<1>2. /\ IsSeq(conns') /\ DOMAIN conns' = 1 .. (Len(conns) + 1)
      /\ conns'[Len(conns) + 1] = NewConn /\ \A d \in DOMAIN conns : conns'[d] = conns[d]
  BY <1>1, AppendSeq
<1>3. Len(conns) \in Nat /\ DOMAIN conns = 1 .. Len(conns) BY <1>1, SeqDomain
<1>4. {"in", "out", "up"} \subseteq DOMAIN NewConn /\ NewConn.in = << >> BY DEF NewConn
<1>5. IsSeq(NewConn.in) /\ DOMAIN NewConn.in = {} BY <1>4, NoneSeq
<1> HIDE DEF NewConn
<1>. QED BY <1>2, <1>3, <1>4, <1>5 DEF Nets

LEMMA NewHandlesTables ==
  ASSUME Tables, NEW in, NEW out, NewHandles(in, out), UNCHANGED <<xfers, ctlpipe>>, ~Dead
  PROVE  Tables'
<1>0. PICK d : d = Len(conns) + 1 OBVIOUS
<1>1. Nets' /\ DOMAIN conns \subseteq DOMAIN conns' /\ d \in DOMAIN conns' /\ d \notin DOMAIN conns
  BY <1>0, NewConnNets DEF NewHandles, Tables
<1>2. /\ DOMAIN handles' = DOMAIN handles \cup {in, out}
      /\ \A h \in DOMAIN handles : h \notin {in, out} /\ handles'[h] = handles[h]
      /\ handles'[in] = NewHandle("INPUT", d, out)
      /\ in # out => handles'[out] = NewHandle("OUTPUT", d, in)
  BY <1>0 DEF NewHandles
<1>3. \A type, other : /\ {"type", "conn", "other", "xfer"} \subseteq DOMAIN NewHandle(type, d, other)
                       /\ NewHandle(type, d, other).type = type /\ NewHandle(type, d, other).conn = d
                       /\ NewHandle(type, d, other).xfer = 0
  BY DEF NewHandle
<1>4. \A h \in DOMAIN handles : HandleOK(handles[h]) /\ handles'[h].conn # d /\ handles'[h] = handles[h]
  BY <1>1, <1>2 DEF Tables, Handles, HandleOK
<1>5. Handles'
  <2>1. ASSUME NEW h \in DOMAIN handles' PROVE HandleOK(handles[h])'
    <3>1. CASE h \in DOMAIN handles BY <1>1, <1>4, <3>1 DEF HandleOK
    <3>2. CASE h \in {in, out} BY <1>1, <1>2, <1>3, <3>2 DEF HandleOK
    <3>. QED BY <1>2, <3>1, <3>2
  <2>2. ASSUME NEW g \in DOMAIN handles', NEW h \in DOMAIN handles', g # h, handles'[g].conn = handles'[h].conn
        PROVE  handles'[g].type # handles'[h].type
    <3>1. CASE g \in DOMAIN handles /\ h \in DOMAIN handles BY <1>4, <2>2, <3>1 DEF Tables, Handles
    <3>2. CASE g \in {in, out} /\ h \in {in, out} BY <1>2, <1>3, <2>2, <3>2
    <3>3. CASE g \in DOMAIN handles /\ h \in {in, out} BY <1>2, <1>3, <1>4, <2>2, <3>3
    <3>4. CASE g \in {in, out} /\ h \in DOMAIN handles BY <1>2, <1>3, <1>4, <2>2, <3>4
    <3>. QED BY <1>2, <3>1, <3>2, <3>3, <3>4
  <2>. QED BY <2>1, <2>2 DEF Handles
<1>6. Fitting' BY <1>1 DEF Tables, Fitting
<1>7. Listed'
  <2>1. \A j \in DOMAIN xfers : OnHandle(j, xfers[j]) => OnHandle(j, xfers[j])' BY <1>2 DEF OnHandle
  <2>2. ASSUME NEW j \in DOMAIN xfers PROVE IF xfers'[j].listed THEN OnHandle(j, xfers[j])' ELSE Finished(xfers'[j])
    BY <2>1 DEF Tables, Listed
  <2>. QED BY <2>2 DEF Listed
<1>8. Posted' BY DEF Tables, Posted
<1>9. \A j \in DOMAIN xfers : Dropped(j) => Dropped(j)' BY DEF Dropped, Announced
<1>10. Early' BY <1>9 DEF Tables, Early
<1>. QED BY <1>1, <1>5, <1>6, <1>7, <1>8, <1>10 DEF Tables

(* Both handles less, of a connection that no transfer is on.              *)
LessHandles ==
  /\ T.fh \in DOMAIN handles /\ Fh.xfer = 0 /\ handles[Fh.other].xfer = 0
  /\ handles' = [h \in DOMAIN handles \ Pair |-> handles[h]]
  /\ conns' = [conns EXCEPT ![Fh.conn].up = FALSE]

LEMMA DownNets ==
  ASSUME NEW d, conns' = [conns EXCEPT ![d].up = FALSE]
  PROVE  NetsKept
<1>1. DOMAIN conns' = DOMAIN conns OBVIOUS
<1>2. ASSUME Nets PROVE Nets'
  <2>1. conns' = [n \in DOMAIN conns |-> conns'[n]] OBVIOUS
  <2>2. IsSeq(conns') BY <1>1, <1>2, <2>1, MapSeq, Zenon DEF Nets
  <2>3. ASSUME NEW n \in DOMAIN conns PROVE DOMAIN conns'[n] = DOMAIN conns[n] /\ conns'[n].in = conns[n].in
    OBVIOUS
  <2>. QED BY <1>1, <1>2, <2>2, <2>3 DEF Nets
<1>. QED BY <1>1, <1>2 DEF NetsKept

LEMMA LessHandlesTables ==
  ASSUME Tables, LessHandles, UNCHANGED <<xfers, ctlpipe>>, ~Dead
  PROVE  Tables'
<1>1. Nets' /\ DOMAIN conns' = DOMAIN conns
  <2> DEFINE d == Fh.conn
  <2>1. conns' = [conns EXCEPT ![d].up = FALSE] BY DEF LessHandles
  <2> HIDE DEF d
  <2>. QED BY <2>1, DownNets DEF NetsKept, Tables
<1>2. /\ DOMAIN handles' = DOMAIN handles \ Pair
      /\ \A h \in DOMAIN handles' : h \in DOMAIN handles /\ handles'[h] = handles[h]
  BY DEF LessHandles
<1>3. Handles' BY <1>1, <1>2 DEF Tables, Handles, HandleOK
<1>4. Fitting' BY <1>1 DEF Tables, Fitting
<1>5. Listed'
  <2>0. \A j \in DOMAIN xfers : j # 0 BY SeqDomain DEF Tables, Fitting
  <2>1. ASSUME NEW j \in DOMAIN xfers, OnHandle(j, xfers[j]) PROVE OnHandle(j, xfers[j])'
    <3>1. handles[xfers[j].fh].xfer # 0 BY <2>0, <2>1 DEF OnHandle
    <3>2. xfers[j].fh \notin Pair BY <3>1 DEF Pair, LessHandles, Fh
    <3>. QED BY <1>2, <2>1, <3>2 DEF OnHandle
  <2>2. ASSUME NEW j \in DOMAIN xfers PROVE IF xfers'[j].listed THEN OnHandle(j, xfers[j])' ELSE Finished(xfers'[j])
    BY <2>1 DEF Tables, Listed
  <2>. QED BY <2>2 DEF Listed
<1>6. Posted' BY DEF Tables, Posted
<1>7. \A j \in DOMAIN xfers : Dropped(j) => Dropped(j)' BY DEF Dropped, Announced
<1>8. Early' BY <1>7 DEF Tables, Early
<1>. QED BY <1>1, <1>3, <1>4, <1>5, <1>6, <1>8 DEF Tables

-----------------------------------------------------------------------------
(* The control pipe is read. *)

LEMMA CheckMain ==
  ASSUME Mind, xcheck
  PROVE  /\ MainKept /\ main'.cmd = main.cmd /\ ~Dead /\ (Holding' <=> Holding) /\ main'.pc # "put"
         /\ main'.pc \in {"rereap", "do"} => main.pc = "recheck"
         /\ UNCHANGED <<conns, control, replies, user>> /\ ctlpipe' = << >>
<1>1. main.pc \in {"check", "recheck"} BY DEF xcheck, Waits
<1>2. /\ MainKept /\ main'.cmd = main.cmd
      /\ main'.pc \in {Then[main.pc], Waits[main.pc]}
  BY DEF xcheck, Mind, MainKept
<1>3. CASE main.pc = "check" BY <1>2, <1>3 DEF xcheck, Then, Waits, Holding, Dead
<1>4. CASE main.pc = "recheck" BY <1>2, <1>4 DEF xcheck, Then, Waits, Holding, Dead
<1>. QED BY <1>1, <1>3, <1>4

LEMMA CheckXfers ==
  ASSUME Tables, xcheck
  PROVE  /\ IsSeq(xfers') /\ DOMAIN xfers' = DOMAIN xfers
         /\ \A j \in DOMAIN xfers :
              /\ Fit(xfers'[j]) /\ xfers'[j].fh = xfers[j].fh /\ xfers'[j].conn = xfers[j].conn
              /\ xfers'[j].kind = xfers[j].kind /\ xfers'[j].pc = xfers[j].pc /\ xfers'[j].pipe = xfers[j].pipe
              /\ xfers'[j].close = xfers[j].close /\ xfers'[j].state = xfers[j].state
              /\ xfers'[j].listed <=> (xfers[j].listed /\ ~Announced(j))
              /\ ~Announced(j) => xfers'[j] = xfers[j]
<1> DEFINE off(x) == [x EXCEPT !.listed = FALSE]
<1>1. xfers' = [j \in DOMAIN xfers |-> IF Announced(j) THEN off(xfers[j]) ELSE xfers[j]] BY DEF xcheck
<1>2. DOMAIN xfers' = DOMAIN xfers /\ \A j \in DOMAIN xfers : xfers'[j] = IF Announced(j) THEN off(xfers[j]) ELSE xfers[j]
  BY <1>1
<1>3. xfers' = [j \in DOMAIN xfers |-> xfers'[j]] BY <1>1
<1>4. IsSeq(xfers') BY <1>2, <1>3, MapSeq, Zenon DEF Tables, Fitting
<1>5. ASSUME NEW x, Fit(x)
      PROVE  /\ Fit(off(x)) /\ off(x).fh = x.fh /\ off(x).conn = x.conn /\ off(x).kind = x.kind /\ off(x).pc = x.pc
             /\ off(x).pipe = x.pipe /\ off(x).close = x.close /\ off(x).state = x.state /\ off(x).listed = FALSE
  BY <1>5 DEF Fit, Shape, Core, PipeOK, Place, Packet, Shutting, Reading
<1> HIDE DEF off
<1>6. ASSUME NEW j \in DOMAIN xfers
      PROVE  /\ Fit(xfers'[j]) /\ xfers'[j].fh = xfers[j].fh /\ xfers'[j].conn = xfers[j].conn
             /\ xfers'[j].kind = xfers[j].kind /\ xfers'[j].pc = xfers[j].pc /\ xfers'[j].pipe = xfers[j].pipe
             /\ xfers'[j].close = xfers[j].close /\ xfers'[j].state = xfers[j].state
             /\ xfers'[j].listed <=> (xfers[j].listed /\ ~Announced(j))
             /\ ~Announced(j) => xfers'[j] = xfers[j]
  <2>1. Fit(xfers[j]) BY DEF Tables, Fitting
  <2>2. CASE Announced(j) BY <1>2, <1>5, <2>1, <2>2
  <2>3. CASE ~Announced(j) BY <1>2, <2>1, <2>3
  <2>. QED BY <2>2, <2>3
<1>. QED BY <1>2, <1>4, <1>6

LEMMA CheckTables ==
  ASSUME Tables, xcheck, ~Dead, UNCHANGED conns, ctlpipe' = << >>
  PROVE  Tables' /\ \A j \in DOMAIN xfers : Dropped(j) => Dropped(j)'
<1>1. /\ IsSeq(xfers') /\ DOMAIN xfers' = DOMAIN xfers
      /\ \A j \in DOMAIN xfers :
           /\ Fit(xfers'[j]) /\ xfers'[j].fh = xfers[j].fh /\ xfers'[j].conn = xfers[j].conn
           /\ xfers'[j].kind = xfers[j].kind /\ xfers'[j].pc = xfers[j].pc
           /\ xfers'[j].state = xfers[j].state
           /\ xfers'[j].listed <=> (xfers[j].listed /\ ~Announced(j))
  BY CheckXfers
<1>2. handles' = [h \in DOMAIN handles |->
                    IF Announced(handles[h].xfer) THEN [handles[h] EXCEPT !.xfer = 0] ELSE handles[h]]
  BY DEF xcheck
<1>3. /\ DOMAIN handles' = DOMAIN handles
      /\ \A h \in DOMAIN handles : /\ HandleOK(handles[h])
                                   /\ handles'[h].type = handles[h].type /\ handles'[h].conn = handles[h].conn
                                   /\ DOMAIN handles'[h] = DOMAIN handles[h]
                                   /\ IF Announced(handles[h].xfer) THEN handles'[h].xfer = 0
                                                                    ELSE handles'[h].xfer = handles[h].xfer
  BY <1>2 DEF Tables, Handles, HandleOK
<1>4. Handles'
  <2>1. ASSUME NEW h \in DOMAIN handles PROVE HandleOK(handles[h])' BY <1>1, <1>3 DEF HandleOK
  <2>. QED BY <1>3, <2>1 DEF Tables, Handles
<1>5. Fitting' BY <1>1 DEF Tables, Fitting
<1>6. Listed'
  <2>1. ASSUME NEW j \in DOMAIN xfers, xfers'[j].listed PROVE OnHandle(j, xfers[j])'
    <3>1. OnHandle(j, xfers[j]) /\ ~Announced(j) BY <1>1, <2>1 DEF Tables, Listed
    <3>. QED BY <1>1, <1>3, <3>1 DEF OnHandle, Reading
  <2>2. ASSUME NEW j \in DOMAIN xfers, ~xfers'[j].listed PROVE Finished(xfers'[j])
    <3>1. CASE Announced(j)
      <4>1. DOMAIN ctlpipe = 1 .. Len(ctlpipe) BY SeqDomain DEF Tables, Posted
      <4>2. Finished(xfers[j]) BY <3>1, <4>1 DEF Announced, Tables, Posted
      <4>. QED BY <1>1, <4>2 DEF Finished
    <3>2. CASE ~Announced(j) BY <1>1, <2>2, <3>2 DEF Tables, Listed, Finished
    <3>. QED BY <3>1, <3>2
  <2>3. ASSUME NEW j \in DOMAIN xfers PROVE IF xfers'[j].listed THEN OnHandle(j, xfers[j])' ELSE Finished(xfers'[j])
    BY <2>1, <2>2
  <2>. QED BY <1>1, <2>3 DEF Listed
<1>7. Posted' BY NoneSeq DEF Posted
<1>8. \A j \in DOMAIN xfers : Dropped(j) => Dropped(j)' BY <1>1 DEF Dropped
<1>9. Early' BY <1>1, <1>8 DEF Tables, Early
<1>10. Nets' BY SameNets DEF NetsKept, Tables
<1>. QED BY <1>4, <1>5, <1>6, <1>7, <1>8, <1>9, <1>10 DEF Tables

LEMMA CheckInv ==
  ASSUME IInv, xcheck
  PROVE  IInv'
<1>1. /\ MainKept /\ main'.cmd = main.cmd /\ ~Dead /\ (Holding' <=> Holding) /\ main'.pc # "put"
      /\ main'.pc \in {"rereap", "do"} => main.pc = "recheck"
      /\ UNCHANGED <<conns, control, replies, user>> /\ ctlpipe' = << >>
  BY CheckMain DEF IInv
<1>2. Tables' /\ \A j \in DOMAIN xfers : Dropped(j) => Dropped(j)' BY <1>1, CheckTables DEF IInv
<1>3. /\ DOMAIN xfers' = DOMAIN xfers
      /\ \A j \in DOMAIN xfers :
           /\ xfers'[j].pc = xfers[j].pc /\ xfers'[j].pipe = xfers[j].pipe /\ xfers'[j].close = xfers[j].close
           /\ xfers'[j].listed <=> (xfers[j].listed /\ ~Announced(j))
  BY CheckXfers DEF IInv
<1>4. Unsaid' = Unsaid /\ Waiting' = Waiting /\ SaidOnce'
  BY <1>1 DEF Unsaid, Sayings, Waiting, SaidOnce, IInv, Tokens
<1>5. Kept' = Kept /\ KeptOnce' BY <1>3, KeptSame DEF IInv, Tokens
<1>6. \A t, j, k : Asked(t, j, k)' <=> Asked(t, j, k) BY <1>3 DEF Asked
<1>7. Piped' = Piped /\ AskedOnce' BY <1>6, PipesSame DEF IInv, Tokens
<1>8. Given' = Given /\ AnsweredOnce' BY <1>1 DEF Given, AnsweredOnce, IInv, Tokens
<1>9. InHand' \subseteq InHand BY <1>1 DEF InHand
<1>10. Apart' BY <1>4, <1>5, <1>7, <1>8, <1>9, Less DEF Apart, IInv, Tokens
<1>11. ClosedLate' BY <1>2, <1>3, <1>8 DEF ClosedLate, IInv, Tokens
<1>12. Mind' BY <1>1 DEF Mind, MainKept, IInv
<1>13. Heard' BY <1>1 DEF Heard, IInv
<1>14. Looked'
  <2>. SUFFICES ASSUME main'.pc \in {"rereap", "do"}, NEW j \in DOMAIN xfers, xfers'[j].listed,
                       xfers'[j].close # "none", NEW r \in 1 .. main.cmd.after,
                       replies[r].tid = xfers'[j].close
                PROVE  FALSE
    BY <1>1, <1>3 DEF Looked
  <2>1. main.pc = "recheck" /\ ~Dead BY <1>1
  <2>2. main.cmd.after \in 0 .. Len(replies) BY <2>1 DEF IInv, Mind, Holding
  <2>3. Len(replies) \in Nat /\ DOMAIN replies = 1 .. Len(replies) BY SeqDomain DEF IInv, Heard
  <2>4. xfers[j].close \in Kept /\ xfers[j].close # "TIDNO" BY <1>3 DEF Kept, KeptOnce, IInv, Tokens
  <2>5. r \in DOMAIN replies BY <2>2, <2>3
  <2>6. xfers[j].close \in Given BY <1>3, <2>4, <2>5 DEF Given
  <2>7. Dropped(j) BY <1>3, <2>6 DEF ClosedLate, IInv, Tokens
  <2>. QED BY <1>1, <1>3, <2>7 DEF Dropped
<1>. QED BY <1>2, <1>4, <1>5, <1>7, <1>8, <1>10, <1>11, <1>12, <1>13, <1>14 DEF IInv, Tokens

-----------------------------------------------------------------------------
(* A command is read. *)
LEMMA ReadInv ==
  ASSUME IInv, ReadCommand
  PROVE  IInv'
<1>0. PICK t : t = Head(control).tid OBVIOUS
<1>1. /\ main.pc = "read" /\ control # << >> /\ control' = Tail(control)
      /\ UNCHANGED <<handles, xfers, ctlpipe, conns, replies, user>>
  BY DEF ReadCommand
<1>2. MainKept /\ main'.cmd = Head(control) /\ main'.pc = "recheck" /\ ~Dead
  BY DEF ReadCommand, MainKept, IInv, Mind, Dead
<1>3. /\ IsSeq(control') /\ 1 \in DOMAIN control /\ Head(control) = control[1]
      /\ \A k \in DOMAIN control' : k + 1 \in DOMAIN control /\ k + 1 # 1 /\ control'[k] = control[k + 1]
  BY <1>1, TailSeq DEF IInv, Heard
<1>4. DOMAIN control' \subseteq Int
  <2>1. DOMAIN control' = 1 .. Len(control') BY <1>3, SeqDomain
  <2>. QED BY <2>1
<1>5. t \in Waiting /\ Waiting' \subseteq Waiting /\ t \notin Waiting'
  BY <1>0, <1>3 DEF Waiting, SaidOnce, IInv, Tokens
<1>6. SaidOnce' BY <1>3, <1>4 DEF SaidOnce, IInv, Tokens
<1>7. InHand' \subseteq {t} BY <1>0, <1>2 DEF InHand
<1>8. Tables'
  <2>1. Handles' /\ Fitting' /\ Posted' BY <1>1 DEF IInv, Tables, Handles, HandleOK, Fitting, Posted
  <2>2. Nets' BY <1>1, SameNets DEF NetsKept, IInv, Tables
  <2>3. \A j \in DOMAIN xfers : (OnHandle(j, xfers[j]) => OnHandle(j, xfers[j])') /\ (Dropped(j) => Dropped(j)')
    BY <1>1, <1>2 DEF OnHandle, Dropped, Announced
  <2>4. ASSUME NEW j \in DOMAIN xfers PROVE IF xfers'[j].listed THEN OnHandle(j, xfers[j])' ELSE Finished(xfers'[j])
    BY <1>1, <2>3 DEF IInv, Tables, Listed
  <2>5. Listed' BY <1>1, <2>4 DEF Listed
  <2>6. Early' BY <1>1, <2>3 DEF IInv, Tables, Early
  <2>. QED BY <2>1, <2>2, <2>5, <2>6 DEF Tables
<1>9. Unsaid' = Unsaid BY <1>1 DEF Unsaid, Sayings
<1>10. Kept' = Kept /\ KeptOnce' BY <1>1 DEF Kept, KeptOnce, IInv, Tokens
<1>11. \A u, j, k : Asked(u, j, k)' <=> Asked(u, j, k) BY <1>1 DEF Asked
<1>12. Piped' = Piped /\ AskedOnce' BY <1>11, PipesSame DEF IInv, Tokens
<1>13. Given' = Given /\ AnsweredOnce' BY <1>1 DEF Given, AnsweredOnce, IInv, Tokens
<1>14. Apart' BY <1>5, <1>7, <1>9, <1>10, <1>12, <1>13, TakenIn DEF Apart, IInv, Tokens
<1>15. \A j \in DOMAIN xfers : Dropped(j) => Dropped(j)' BY <1>1, <1>2 DEF Dropped, Announced
<1>16. ClosedLate' BY <1>1, <1>13, <1>15 DEF ClosedLate, IInv, Tokens
<1>17. Mind' BY <1>1, <1>2, <1>3 DEF Mind, MainKept, Heard, IInv
<1>18. Heard' BY <1>1, <1>3 DEF Heard, IInv
<1>19. Looked' BY <1>2 DEF Looked
<1>. QED BY <1>6, <1>8, <1>10, <1>12, <1>13, <1>14, <1>16, <1>17, <1>18, <1>19 DEF IInv, Tokens

-----------------------------------------------------------------------------
(* The user, and the net. *)

(* What is said in some threads.                                           *)
SaidIn(t, threads) ==
  \E m \in DOMAIN threads : \E k \in DOMAIN threads[m] : threads[m][k].do = "say" /\ threads[m][k].tid = t

LEMMA SayingsIff == ASSUME NEW w, WellSaid(w), NEW t PROVE t \in Sayings(w) <=> SaidIn(t, w)
<1>1. \A m \in DOMAIN w : DOMAIN w[m] = 1 .. Len(w[m]) BY SeqDomain DEF WellSaid
<1>. QED BY <1>1 DEF Sayings, SaidIn

Later(s, n) == [s EXCEPT ![n] = Tail(@)]
Sendable(u) == u.op \in {"DAT", "EOF", "SYN"} /\ u.data \in Seq(Int)

(* An instruction less in one of the threads.                              *)
LEMMA Advanced ==
  ASSUME NEW s, WellSaid(s), NEW n \in DOMAIN s, s[n] # << >>, NEW v, v = Later(s, n)
  PROVE  /\ WellSaid(v) /\ Sayings(v) \subseteq Sayings(s)
         /\ Head(s[n]).do = "say" => /\ Head(s[n]).tid \in Sayings(s) /\ Head(s[n]).tid \notin Sayings(v)
                                     /\ Head(s[n]).tid \notin NoTids
         /\ Head(s[n]).do = "put" => Sendable(Head(s[n]))
<1> DEFINE p == s[n]
           q == Tail(p)
<1>1. IsSeq(s) /\ IsSeq(p) /\ p # << >> BY DEF WellSaid
<1>2. v = [s EXCEPT ![n] = q] BY DEF Later
<1> HIDE DEF p
<1>3. /\ IsSeq(q) /\ 1 \in DOMAIN p /\ Head(p) = p[1]
      /\ \A k \in DOMAIN q : k + 1 \in DOMAIN p /\ k + 1 # 1 /\ q[k] = p[k + 1]
  BY <1>1, TailSeq
<1>4. DOMAIN q \subseteq Int
  <2>1. DOMAIN q = 1 .. Len(q) BY <1>3, SeqDomain
  <2>. QED BY <2>1
<1> HIDE DEF q
<1>5. IsSeq(v) /\ DOMAIN v = DOMAIN s /\ v[n] = q /\ \A m \in DOMAIN s : m # n => v[m] = s[m]
  <2> DEFINE w == [s EXCEPT ![n] = q]
  <2>1. /\ IsSeq(w) /\ DOMAIN w = DOMAIN s /\ w[n] = q /\ \A m \in DOMAIN s : m # n => w[m] = s[m]
    BY <1>1, ExceptSeqs, Zenon
  <2>2. v = w BY <1>2
  <2> HIDE DEF w
  <2>. QED BY <2>1, <2>2
<1>6. ASSUME NEW m \in DOMAIN v, NEW k \in DOMAIN v[m]
      PROVE  IF m = n THEN k + 1 \in DOMAIN s[n] /\ k + 1 # 1 /\ v[m][k] = s[n][k + 1] /\ k \in Int
             ELSE k \in DOMAIN s[m] /\ v[m][k] = s[m][k]
  BY <1>3, <1>4, <1>5 DEF p
<1>7. ASSUME NEW m \in DOMAIN v, NEW k \in DOMAIN v[m]
      PROVE  \E l \in DOMAIN s[m] : v[m][k] = s[m][l]
  BY <1>5, <1>6
<1>8. ASSUME NEW m \in DOMAIN v, NEW k \in DOMAIN v[m], NEW j \in DOMAIN v, NEW l \in DOMAIN v[j],
             v[m][k].do = "say", v[j][l].do = "say", v[j][l].tid = v[m][k].tid
      PROVE  j = m /\ l = k
  <2>1. CASE m = n /\ j = n
    <3>1. l + 1 = k + 1 /\ l \in Int /\ k \in Int BY <1>5, <1>6, <1>8, <2>1 DEF WellSaid
    <3>. QED BY <2>1, <3>1
  <2>2. CASE m = n /\ j # n BY <1>5, <1>6, <1>8, <2>2 DEF WellSaid
  <2>3. CASE m # n /\ j = n BY <1>5, <1>6, <1>8, <2>3 DEF WellSaid
  <2>4. CASE m # n /\ j # n BY <1>5, <1>6, <1>8, <2>4 DEF WellSaid
  <2>. QED BY <2>1, <2>2, <2>3, <2>4
<1>9. WellSaid(v)
  <2>1. \A m \in DOMAIN v : IsSeq(v[m]) BY <1>3, <1>5 DEF WellSaid
  <2>2. ASSUME NEW m \in DOMAIN v, NEW k \in DOMAIN v[m]
        PROVE  /\ v[m][k].do = "put" => v[m][k].op \in {"DAT", "EOF", "SYN"} /\ v[m][k].data \in Seq(Int)
               /\ v[m][k].do = "say" => v[m][k].tid \notin NoTids
    BY <1>5, <1>7 DEF WellSaid
  <2>. QED BY <1>5, <1>8, <2>1, <2>2 DEF WellSaid
<1>10. Sayings(v) \subseteq Sayings(s)
  <2>1. ASSUME NEW t, SaidIn(t, v) PROVE SaidIn(t, s)
    <3>1. PICK m \in DOMAIN v : \E k \in DOMAIN v[m] : v[m][k].do = "say" /\ v[m][k].tid = t BY <2>1 DEF SaidIn
    <3>2. PICK k \in DOMAIN v[m] : v[m][k].do = "say" /\ v[m][k].tid = t BY <3>1
    <3>. QED BY <1>5, <1>7, <3>2 DEF SaidIn
  <2>. QED BY <1>9, <2>1, SayingsIff
<1>11. ASSUME Head(p).do = "say"
       PROVE  Head(p).tid \in Sayings(s) /\ Head(p).tid \notin Sayings(v) /\ Head(p).tid \notin NoTids
  <2>1. SaidIn(Head(p).tid, s) BY <1>3, <1>11 DEF p, SaidIn
  <2>2. Head(p).tid \notin NoTids BY <1>3, <1>11 DEF p, WellSaid
  <2>3. ~SaidIn(Head(p).tid, v) BY <1>3, <1>5, <1>6, <1>11 DEF p, WellSaid, SaidIn
  <2>. QED BY <1>9, <2>1, <2>2, <2>3, SayingsIff
<1>12. Head(p).do = "put" => Sendable(Head(p)) BY <1>3 DEF p, WellSaid, Sendable
<1>. QED BY <1>9, <1>10, <1>11, <1>12 DEF p

LEMMA Quieter ==
  ASSUME NEW U, NEW W, NEW H, NEW P, NEW Z, NEW U1, Separate(U, W, H, P, Z), U1 \subseteq U
  PROVE  Separate(U1, W, H, P, Z)
<1>. QED BY Zenon DEF Separate

(* What the server is as the user or the net does something.               *)
Outside == UNCHANGED <<main, handles, xfers, ctlpipe, replies>> /\ NetsKept

LEMMA OutsideKept ==
  ASSUME IInv, Outside
  PROVE  /\ Tables' /\ Mind' /\ Looked' /\ ClosedLate' /\ KeptOnce' /\ AskedOnce' /\ AnsweredOnce'
         /\ InHand' = InHand /\ Piped' = Piped /\ (Kept \cup Given)' = Kept \cup Given
<1>1. /\ UNCHANGED <<main, handles, xfers, ctlpipe, replies>> /\ DOMAIN conns' = DOMAIN conns /\ Nets'
  BY DEF Outside, NetsKept, IInv, Tables
<1>2. Tables'
  <2>1. Handles' /\ Fitting' /\ Posted' BY <1>1 DEF IInv, Tables, Handles, HandleOK, Fitting, Posted
  <2>2. \A j \in DOMAIN xfers : (OnHandle(j, xfers[j]) => OnHandle(j, xfers[j])') /\ (Dropped(j) => Dropped(j)')
    BY <1>1 DEF OnHandle, Dropped, Announced, Dead
  <2>3. ASSUME NEW j \in DOMAIN xfers PROVE IF xfers'[j].listed THEN OnHandle(j, xfers[j])' ELSE Finished(xfers'[j])
    BY <1>1, <2>2 DEF IInv, Tables, Listed
  <2>4. Listed' BY <1>1, <2>3 DEF Listed
  <2>5. Early' BY <1>1, <2>2 DEF IInv, Tables, Early
  <2>. QED BY <1>1, <2>1, <2>4, <2>5 DEF Tables
<1>3. Mind' BY <1>1 DEF Mind, Holding, IInv
<1>4. Looked' BY <1>1 DEF Looked, IInv
<1>5. (Kept \cup Given)' = Kept \cup Given /\ KeptOnce' /\ AnsweredOnce'
  BY <1>1 DEF Kept, Given, KeptOnce, AnsweredOnce, IInv, Tokens
<1>6. \A t, j, k : Asked(t, j, k)' <=> Asked(t, j, k) BY <1>1 DEF Asked
<1>7. Piped' = Piped /\ AskedOnce' BY <1>6, PipesSame DEF IInv, Tokens
<1>8. InHand' = InHand BY <1>1 DEF InHand, Holding
<1>9. \A j \in DOMAIN xfers : Dropped(j) => Dropped(j)' BY <1>1 DEF Dropped, Announced, Dead
<1>10. ClosedLate' BY <1>1, <1>9 DEF ClosedLate, Given, IInv, Tokens
<1>. QED BY <1>2, <1>3, <1>4, <1>5, <1>7, <1>8, <1>10

(* An instruction of the user that says nothing.                           *)
LEMMA OutsideInv ==
  ASSUME IInv, Outside, UNCHANGED control, WellSaid(user.threads'), "threads" \in DOMAIN user',
         Unsaid' \subseteq Unsaid
  PROVE  IInv'
<1>1. /\ Tables' /\ Mind' /\ Looked' /\ ClosedLate' /\ KeptOnce' /\ AskedOnce' /\ AnsweredOnce'
      /\ InHand' = InHand /\ Piped' = Piped /\ (Kept \cup Given)' = Kept \cup Given
  BY OutsideKept
<1>2. Waiting' = Waiting /\ SaidOnce' BY DEF Waiting, SaidOnce, IInv, Tokens
<1>3. Apart' BY <1>1, <1>2, Quieter DEF Apart, IInv, Tokens
<1>4. Heard' BY DEF Heard, Outside, IInv
<1>. QED BY <1>1, <1>2, <1>3, <1>4 DEF IInv, Tokens

(* One that does.                                                          *)
LEMMA SayInv ==
  ASSUME IInv, Outside, NEW c, control' = Append(control, c), WellSaid(user.threads'), "threads" \in DOMAIN user',
         NEW t, t = c.tid, t \in Unsaid, Unsaid' \subseteq Unsaid, t \notin Unsaid', t \notin NoTids, c.after = Len(replies)
  PROVE  IInv'
<1>1. /\ Tables' /\ Mind' /\ Looked' /\ ClosedLate' /\ KeptOnce' /\ AskedOnce' /\ AnsweredOnce'
      /\ InHand' = InHand /\ Piped' = Piped /\ (Kept \cup Given)' = Kept \cup Given
  BY OutsideKept
<1>2. IsSeq(control) BY DEF IInv, Heard
<1>3. /\ IsSeq(control') /\ DOMAIN control' = DOMAIN control \cup {Len(control) + 1}
      /\ control'[Len(control) + 1] = c /\ \A k \in DOMAIN control : control'[k] = control[k]
  BY <1>2, AppendSeq, SeqDomain
<1>4. Waiting' \subseteq Waiting \cup {t} BY <1>3 DEF Waiting
<1>5. t \notin Waiting BY DEF IInv, Tokens, Apart, Separate
<1>6. SaidOnce' BY <1>3, <1>5 DEF SaidOnce, Waiting, IInv, Tokens
<1>7. Apart'
  <2>1. Separate(Unsaid, Waiting, InHand, Piped, Kept \cup Given) BY DEF Apart, IInv, Tokens
  <2>2. Separate(Unsaid', Waiting', InHand, Piped, Kept \cup Given) BY <1>4, <2>1, Spoken
  <2>. QED BY <1>1, <2>2 DEF Apart
<1>8. Len(replies) \in Nat /\ replies' = replies BY SeqDomain DEF IInv, Heard, Outside
<1>9. Heard' BY <1>3, <1>8 DEF Heard, IInv
<1>. QED BY <1>1, <1>6, <1>7, <1>9 DEF IInv, Tokens

(* What a thread does.                                                     *)
LEMMA AdvanceSays ==
  ASSUME Heard, NEW n \in DOMAIN user.threads, user.threads[n] # << >>, Advance(n), NEW u, u = Head(user.threads[n])
  PROVE  /\ WellSaid(user.threads') /\ "threads" \in DOMAIN user' /\ Unsaid' \subseteq Unsaid
         /\ u.do = "say" => u.tid \in Unsaid /\ u.tid \notin Unsaid' /\ u.tid \notin NoTids
         /\ u.do = "put" => Sendable(u)
<1>1. WellSaid(user.threads) /\ "threads" \in DOMAIN user BY DEF Heard
<1>2. user'.threads = [user.threads EXCEPT ![n] = Tail(@)] /\ "threads" \in DOMAIN user' BY <1>1 DEF Advance
<1> DEFINE s == user.threads
           v == user'.threads
<1>3. v = Later(s, n) BY <1>2 DEF Later
<1>4. WellSaid(s) /\ n \in DOMAIN s /\ s[n] # << >> /\ u = Head(s[n]) BY <1>1
<1> HIDE DEF s, v
<1>5. /\ WellSaid(v) /\ Sayings(v) \subseteq Sayings(s)
      /\ Head(s[n]).do = "say" => /\ Head(s[n]).tid \in Sayings(s) /\ Head(s[n]).tid \notin Sayings(v)
                                  /\ Head(s[n]).tid \notin NoTids
      /\ Head(s[n]).do = "put" => Sendable(Head(s[n]))
  BY <1>3, <1>4, Advanced
<1>6. Unsaid = Sayings(s) BY DEF Unsaid, s
<1>7. Unsaid' = Sayings(v) BY DEF Unsaid, Sayings, v
<1>8. user.threads' = v BY DEF v
<1>. QED BY <1>2, <1>4, <1>5, <1>6, <1>7, <1>8

LEMMA PutNets ==
  ASSUME NEW n, NEW u, UserPut(n, u), Sendable(u)
  PROVE  NetsKept
<1> DEFINE d == u.conn
           p == [op |-> u.op, data |-> u.data]
<1>1. d \in DOMAIN conns /\ DOMAIN conns' = DOMAIN conns /\ \A e \in DOMAIN conns : e # d => conns'[e] = conns[e]
  BY DEF UserPut
<1>2. DOMAIN conns'[d] = DOMAIN conns[d] /\ ("in" \in DOMAIN conns[d] => conns'[d].in = Append(conns[d].in, p))
  BY <1>1 DEF UserPut
<1>3. conns' = [e \in DOMAIN conns |-> conns'[e]] BY DEF UserPut
<1>4. p.op \in {"DAT", "EOF", "SYN"} BY DEF Sendable
<1> HIDE DEF d, p
<1>5. ASSUME Nets PROVE Nets'
  <2>1. {"in", "out", "up"} \subseteq DOMAIN conns[d] /\ IsSeq(conns[d].in) /\ IsSeq(conns) BY <1>1, <1>5 DEF Nets
  <2>2. IsSeq(conns') BY <1>1, <1>3, <2>1, MapSeq, Zenon
  <2>3. conns'[d].in = Append(conns[d].in, p) BY <1>2, <2>1
  <2>4. PICK s : s = conns[d].in OBVIOUS
  <2>5. IsSeq(s) /\ DOMAIN s = 1 .. Len(s) /\ Len(s) \in Nat BY <2>1, <2>4, SeqDomain
  <2>6. /\ IsSeq(Append(s, p)) /\ DOMAIN Append(s, p) = 1 .. (Len(s) + 1) /\ Append(s, p)[Len(s) + 1] = p
        /\ \A k \in DOMAIN s : Append(s, p)[k] = s[k]
    BY <2>5, AppendSeq
  <2>7. DOMAIN Append(s, p) = DOMAIN s \cup {Len(s) + 1} BY <2>5, <2>6
  <2>8. \A k \in DOMAIN s : s[k].op \in {"DAT", "EOF", "SYN"} BY <1>1, <1>5, <2>4 DEF Nets
  <2>9. \A k \in DOMAIN Append(s, p) : Append(s, p)[k].op \in {"DAT", "EOF", "SYN"} BY <1>4, <2>6, <2>7, <2>8
  <2>10. conns'[d].in = Append(s, p) BY <2>3, <2>4
  <2>11. ASSUME NEW e \in DOMAIN conns
         PROVE  /\ {"in", "out", "up"} \subseteq DOMAIN conns'[e] /\ IsSeq(conns'[e].in)
                /\ \A k \in DOMAIN conns'[e].in : conns'[e].in[k].op \in {"DAT", "EOF", "SYN"}
    <3>1. CASE e = d BY <1>2, <2>1, <2>6, <2>9, <2>10, <3>1
    <3>2. CASE e # d BY <1>1, <1>5, <3>2 DEF Nets
    <3>. QED BY <3>1, <3>2
  <2>. QED BY <1>1, <2>2, <2>11 DEF Nets
<1>. QED BY <1>1, <1>5 DEF NetsKept

LEMMA DrainNets ==
  ASSUME NEW n, NEW u, UserDrain(n, u)
  PROVE  NetsKept
<1>1. DOMAIN conns' = DOMAIN conns BY DEF UserDrain
<1>2. ASSUME NEW e \in DOMAIN conns PROVE DOMAIN conns'[e] = DOMAIN conns[e] /\ conns'[e].in = conns[e].in
  BY DEF UserDrain
<1>3. conns' = [e \in DOMAIN conns |-> conns'[e]] BY DEF UserDrain
<1>4. ASSUME Nets PROVE Nets'
  <2>1. IsSeq(conns') BY <1>1, <1>3, <1>4, MapSeq, Zenon DEF Nets
  <2>. QED BY <1>1, <1>2, <1>4, <2>1 DEF Nets
<1>. QED BY <1>1, <1>4 DEF NetsKept

LEMMA UserInv ==
  ASSUME IInv, UserNext
  PROVE  IInv'
<1>1. PICK n \in DOMAIN user.threads :
        /\ user.threads[n] # << >>
        /\ LET u == Head(user.threads[n]) IN UserSay(n, u) \/ UserHear(n, u) \/ UserPut(n, u) \/ UserDrain(n, u)
  BY DEF UserNext
<1>2. PICK u : u = Head(user.threads[n]) OBVIOUS
<1>3. UserSay(n, u) \/ UserHear(n, u) \/ UserPut(n, u) \/ UserDrain(n, u) BY <1>1, <1>2
<1>4. ASSUME Advance(n)
      PROVE  /\ WellSaid(user.threads') /\ "threads" \in DOMAIN user' /\ Unsaid' \subseteq Unsaid
             /\ u.do = "say" => u.tid \in Unsaid /\ u.tid \notin Unsaid' /\ u.tid \notin NoTids
             /\ u.do = "put" => Sendable(u)
  BY <1>1, <1>2, <1>4, AdvanceSays DEF IInv
<1>5. CASE UserSay(n, u)
  <2>1. PICK c : c = [tid |-> u.tid, fh |-> u.fh, cname |-> u.cname, args |-> u.args, after |-> Len(replies)] OBVIOUS
  <2>2. PICK t : t = u.tid OBVIOUS
  <2>3. c.tid = t /\ c.after = Len(replies) BY <2>1, <2>2
  <2>4. u.do = "say" /\ control' = Append(control, c) /\ Advance(n) BY <1>5, <2>1 DEF UserSay
  <2>5. Outside BY <1>5, SameNets DEF UserSay, Outside, NetsKept
  <2>. QED BY <1>4, <2>2, <2>3, <2>4, <2>5, SayInv
<1>6. CASE UserHear(n, u)
  <2>1. Outside BY <1>6, SameNets DEF UserHear, Outside, NetsKept
  <2>2. Advance(n) /\ UNCHANGED control BY <1>6 DEF UserHear
  <2>. QED BY <1>4, <2>1, <2>2, OutsideInv
<1>7. CASE UserPut(n, u)
  <2>1. u.do = "put" /\ Advance(n) /\ UNCHANGED control BY <1>7 DEF UserPut
  <2>2. Outside BY <1>4, <1>7, <2>1, PutNets DEF UserPut, Outside
  <2>. QED BY <1>4, <2>1, <2>2, OutsideInv
<1>8. CASE UserDrain(n, u)
  <2>1. Outside /\ UNCHANGED control BY <1>8, DrainNets DEF UserDrain, Outside
  <2>2. Advance(n) \/ UNCHANGED user BY <1>8 DEF UserDrain
  <2>3. CASE Advance(n) BY <1>4, <2>1, <2>3, OutsideInv
  <2>4. CASE UNCHANGED user
    <3>1. Unsaid' = Unsaid /\ WellSaid(user.threads') /\ "threads" \in DOMAIN user'
      BY <2>4 DEF Unsaid, Sayings, IInv, Heard, WellSaid
    <3>. QED BY <2>1, <3>1, OutsideInv
  <2>. QED BY <2>2, <2>3, <2>4
<1>. QED BY <1>3, <1>5, <1>6, <1>7, <1>8

LEMMA NetFailsInv ==
  ASSUME IInv, NetFails
  PROVE  IInv'
<1>1. PICK d \in DOMAIN conns :
        /\ conns' = [conns EXCEPT ![d].up = FALSE]
        /\ UNCHANGED <<main, handles, xfers, ctlpipe, control, replies, user>>
  BY DEF NetFails
<1>2. Outside /\ UNCHANGED control BY <1>1, DownNets DEF Outside
<1>3. Unsaid' = Unsaid /\ WellSaid(user.threads') /\ "threads" \in DOMAIN user'
  BY <1>1 DEF Unsaid, Sayings, IInv, Heard, WellSaid
<1>. QED BY <1>2, <1>3, OutsideInv

-----------------------------------------------------------------------------
(* The control process has done a command. *)

LEMMA RespondGives ==
  ASSUME NEW tid, NEW code, NEW results, Respond(tid, code, results)
  PROVE  Gives(tid)
<1>. QED BY DEF Respond, Gives, Answer

(* The transfers there are, none of them touched.                          *)
LEMMA SameWorkers ==
  ASSUME IInv, ~Dead, UNCHANGED <<handles, xfers, ctlpipe, conns, control, user>>
  PROVE  Workers /\ PipesKept
<1>1. IsSeq(xfers) /\ \A j \in DOMAIN xfers : Fit(xfers[j]) BY DEF IInv, Tables, Fitting
<1>2. Workers BY <1>1 DEF Workers, Same, Goes
<1>3. PipesKept BY DEF PipesKept, Asked
<1>. QED BY <1>2, <1>3

LEMMA FinishInv ==
  ASSUME IInv, ~Dead, UNCHANGED <<handles, xfers, ctlpipe, conns, control, user>>, Concludes
  PROVE  IInv'
<1>. QED BY SameWorkers, EndsInv

(* How it leaves the command.                                              *)
Leaves == MainKept /\ ~Holding'

LEMMA IdleLeaves ==
  ASSUME Mind
  PROVE  /\ main' = Idle(main) => Leaves
         /\ Crash => Leaves
         /\ main' = [main EXCEPT !.pc = "gone"] => Leaves
<1>1. main' = Idle(main) => DOMAIN main' = DOMAIN main /\ main'.pc = "check" BY DEF Mind, Idle
<1>2. Crash => DOMAIN main' = DOMAIN main /\ main'.pc = "dead" BY DEF Mind, Crash
<1>3. main' = [main EXCEPT !.pc = "gone"] => DOMAIN main' = DOMAIN main /\ main'.pc = "gone" BY DEF Mind
<1>. QED BY <1>1, <1>2, <1>3 DEF Leaves, MainKept, Holding

LEMMA AnswersInv ==
  ASSUME IInv, Holding, NEW code, NEW results, NEW k, Answers(code, results, k)
  PROVE  IInv'
<1>1. ~Dead BY DEF Holding, Dead
<1>2. Gives(T.tid) BY RespondGives DEF Answers
<1>3. Leaves BY IdleLeaves DEF Answers, IInv
<1>4. UNCHANGED <<handles, xfers, ctlpipe, conns, control, user>> BY DEF Answers
<1>. QED BY <1>1, <1>2, <1>3, <1>4, FinishInv DEF Concludes, Leaves

LEMMA ErrsInv ==
  ASSUME IInv, Holding, NEW code, Errs(code)
  PROVE  IInv'
<1>. QED BY AnswersInv DEF Errs

LEMMA CrashInv ==
  ASSUME IInv, ~Dead, Crash, UNCHANGED <<handles, xfers, ctlpipe, conns, control, user>>,
         replies' = replies \/ (Holding /\ Gives(T.tid))
  PROVE  IInv'
<1>1. Leaves BY IdleLeaves DEF IInv
<1>. QED BY <1>1, FinishInv DEF Concludes, Leaves

LEMMA IdleInv ==
  ASSUME IInv, Holding, Leaves, Gives(T.tid), UNCHANGED <<handles, xfers, ctlpipe, conns, control, user>>
  PROVE  IInv'
<1>1. ~Dead BY DEF Holding, Dead
<1>. QED BY <1>1, FinishInv DEF Concludes, Leaves

-----------------------------------------------------------------------------
(* A command that is performed has the handle it needs. *)

LEMMA Granted ==
  ASSUME Refusal = "none"
  PROVE  /\ T.fh # "" => T.fh \in DOMAIN handles
         /\ Flag \cap {"FHMUST", "FHINPUT"} # {} => T.fh # ""
         /\ "FHINPUT" \in Flag => Fh.type = "INPUT"
<1>1. T.fh # "" => T.fh \in DOMAIN handles BY DEF Refusal
<1>2. ~(T.cname = "") BY <1>1 DEF Refusal
<1>3. ~(main.home = << >> /\ "NOLOG" \notin Flag) BY <1>1, <1>2 DEF Refusal
<1>4. ~(\/ T.fh = "" /\ Flag \cap {"FHMUST", "FHINPUT"} # {}
        \/ T.fh # "" /\ "FHCANT" \in Flag
        \/ T.fh # "" /\ "FHINPUT" \in Flag /\ Fh.type # "INPUT")
  BY <1>1, <1>2, <1>3 DEF Refusal
<1>. QED BY <1>1, <1>4

LEMMA GrantedTo ==
  ASSUME NEW cname, Doing(cname)
  PROVE  /\ Holding /\ ~Dead /\ T.cname = cname /\ main.pc = "do"
         /\ T.fh # "" => T.fh \in DOMAIN handles
         /\ cname \in {"UNDATA_CONNECTION", "DIRECTORY", "PROPERTIES"} => T.fh \in DOMAIN handles
         /\ cname \in {"DIRECTORY", "PROPERTIES"} => Fh.type = "INPUT"
<1>1. main.pc = "do" /\ T.cname = cname /\ Refusal = "none" BY DEF Doing
<1>2. Holding /\ ~Dead BY <1>1 DEF Holding, Dead
<1>3. /\ cname = "UNDATA_CONNECTION" => "FHMUST" \in Flag
      /\ cname \in {"DIRECTORY", "PROPERTIES"} => "FHINPUT" \in Flag
  BY <1>1 DEF Flag, Unknown, Commands, Flags
<1>4. /\ T.fh # "" => T.fh \in DOMAIN handles
      /\ Flag \cap {"FHMUST", "FHINPUT"} # {} => T.fh # ""
      /\ "FHINPUT" \in Flag => Fh.type = "INPUT"
  BY <1>1, Granted
<1>. QED BY <1>1, <1>2, <1>3, <1>4

-----------------------------------------------------------------------------
(* A transfer is told something. *)

LEMMA TellWorkers ==
  ASSUME IInv, ~Dead, NEW j \in DOMAIN xfers, NEW m, MsgOK(m), m.cname \notin Opens, NEW t, t = m.tid,
         xfers' = [xfers EXCEPT ![j].pipe = Append(@, m)], UNCHANGED <<handles, ctlpipe, conns, control, user>>
  PROVE  Workers /\ PipesTold(t) /\ (m.cname \in Silent => PipesKept)
<1> DEFINE x == xfers[j]
           y == [x EXCEPT !.pipe = Append(@, m)]
           n == Len(x.pipe) + 1
<1>1. Fitting BY DEF IInv, Tables
<1>2. Fit(x) BY <1>1 DEF Fitting
<1>3. xfers' = [xfers EXCEPT ![j] = y] OBVIOUS
<1>4. IsSeq(x.pipe) /\ Len(x.pipe) \in Nat /\ DOMAIN x.pipe = 1 .. Len(x.pipe) BY <1>2, SeqDomain DEF Fit, PipeOK
<1>5. /\ IsSeq(Append(x.pipe, m)) /\ DOMAIN Append(x.pipe, m) = 1 .. n
      /\ Append(x.pipe, m)[n] = m /\ \A k \in DOMAIN x.pipe : Append(x.pipe, m)[k] = x.pipe[k]
  BY <1>4, AppendSeq
<1>6. /\ DOMAIN y = DOMAIN x /\ y.pipe = Append(x.pipe, m)
      /\ \A f \in Core \ {"pipe"} : y[f] = x[f]
  BY <1>2 DEF Fit, Shape, Core
<1>7. /\ y.fh = x.fh /\ y.conn = x.conn /\ y.kind = x.kind /\ y.listed = x.listed /\ y.pc = x.pc
      /\ y.state = x.state /\ y.flags = x.flags /\ y.close = x.close /\ y.handler = x.handler /\ y.op = x.op
  BY <1>6 DEF Core
<1> HIDE DEF y
<1>8. IsSeq(xfers') /\ DOMAIN xfers' = DOMAIN xfers /\ xfers'[j] = y /\ \A i \in DOMAIN xfers : i # j => xfers'[i] = xfers[i]
  <2>1. IsSeq(xfers) BY <1>1 DEF Fitting
  <2>2. PICK s : s = [xfers EXCEPT ![j] = y] OBVIOUS
  <2>3. IsSeq(s) /\ DOMAIN s = DOMAIN xfers /\ s[j] = y /\ \A i \in DOMAIN xfers : i # j => s[i] = xfers[i]
    BY <2>1, <2>2, ExceptSeqs
  <2>4. xfers' = s BY <1>3, <2>2
  <2>. QED BY <2>3, <2>4
<1>9. DOMAIN y.pipe = DOMAIN x.pipe \cup {n} /\ n \notin DOMAIN x.pipe BY <1>4, <1>5, <1>6
<1>10. PipeOK(y) BY <1>2, <1>5, <1>6, <1>7, <1>9 DEF Fit, PipeOK
<1>11. Fit(y) BY <1>2, <1>6, <1>7, <1>10 DEF Fit, Shape, Place, Packet, Shutting, Reading
<1>12. Same(x, y) BY <1>7, <1>11 DEF Same, Goes, Finished
<1>13. \A i \in DOMAIN xfers : Same(xfers[i], xfers'[i])
  <2>1. ASSUME NEW i \in DOMAIN xfers, i # j PROVE Same(xfers[i], xfers'[i])
    <3>1. Fit(xfers[i]) /\ xfers'[i] = xfers[i] BY <1>1, <1>8, <2>1 DEF Fitting
    <3>. QED BY <3>1 DEF Same, Goes
  <2>. QED BY <1>8, <1>12, <2>1
<1>14. Workers BY <1>8, <1>13 DEF Workers
<1>15. \A u, i, k : Asked(u, i, k)' <=> Asked(u, i, k) \/ (u = t /\ i = j /\ k = n /\ m.cname \in Speaking)
  <2>1. ASSUME NEW u, NEW i, NEW k PROVE Asked(u, i, k)' <=> Asked(u, i, k) \/ (u = t /\ i = j /\ k = n /\ m.cname \in Speaking)
    <3>1. CASE i # j BY <1>8, <3>1 DEF Asked
    <3>2. CASE i = j /\ k = n BY <1>5, <1>6, <1>8, <1>9, <3>2 DEF Asked
    <3>3. CASE i = j /\ k # n
      <4>1. xfers'[i].pipe = y.pipe /\ i \in DOMAIN xfers' /\ i \in DOMAIN xfers BY <1>8, <3>3
      <4>2. k \in DOMAIN y.pipe <=> k \in DOMAIN x.pipe BY <1>9, <3>3
      <4>3. k \in DOMAIN x.pipe => y.pipe[k] = x.pipe[k] BY <1>5, <1>6
      <4>. QED BY <3>3, <4>1, <4>2, <4>3 DEF Asked
    <3>. QED BY <3>1, <3>2, <3>3
  <2>. QED BY <2>1
<1>16. PipesTold(t) BY <1>15 DEF PipesTold
<1>17. m.cname \in Silent => m.cname \notin Speaking BY DEF Silent, Speaking, Opens
<1>18. m.cname \in Silent => PipesKept BY <1>15, <1>17 DEF PipesKept
<1>. QED BY <1>14, <1>16, <1>18

-----------------------------------------------------------------------------
(* Between the commands. *)

LEMMA FinishCmdInv ==
  ASSUME IInv, finish \/ Refused
  PROVE  IInv'
<1>1. main.pc = "do" /\ Holding /\ ~Dead /\ UNCHANGED <<handles, xfers, ctlpipe, conns, control, user>>
  BY DEF finish, Refused, Holding, Dead
<1>2. CASE finish
  <2>1. Leaves /\ replies' = replies BY <1>2, IdleLeaves DEF finish, IInv
  <2>. QED BY <1>1, <2>1, FinishInv DEF Concludes, Leaves
<1>3. CASE Refused
  <2>1. CASE Crash /\ UNCHANGED replies BY <1>1, <2>1, CrashInv
  <2>2. CASE main' = Idle(main) /\ Reply(Refusal)
    <3>1. Leaves BY <2>2, IdleLeaves DEF IInv
    <3>2. Gives(T.tid) BY <2>2, RespondGives DEF Reply
    <3>. QED BY <1>1, <3>1, <3>2, IdleInv
  <2>. QED BY <1>3, <2>1, <2>2 DEF Refused
<1>. QED BY <1>2, <1>3

(* A process is waited for.                                                *)
LEMMA Buried ==
  ASSUME IInv, ~Dead, NEW S, S \subseteq Zombies, UNCHANGED <<handles, ctlpipe, conns, control, user>>,
         xfers' = [i \in DOMAIN xfers |-> IF i \in S THEN [xfers[i] EXCEPT !.pc = "gone"] ELSE xfers[i]]
  PROVE  Workers /\ PipesKept
<1> DEFINE off(x) == [x EXCEPT !.pc = "gone"]
<1>1. /\ DOMAIN xfers' = DOMAIN xfers
      /\ \A i \in DOMAIN xfers : xfers'[i] = IF i \in S THEN off(xfers[i]) ELSE xfers[i]
  OBVIOUS
<1>2. IsSeq(xfers) /\ \A i \in DOMAIN xfers : Fit(xfers[i]) BY DEF IInv, Tables, Fitting
<1>3. xfers' = [i \in DOMAIN xfers |-> xfers'[i]] OBVIOUS
<1>4. IsSeq(xfers') BY <1>1, <1>2, <1>3, MapSeq, Zenon
<1>5. ASSUME NEW x, Fit(x), x.pc = "zombie"
      PROVE  Same(x, off(x)) /\ off(x).pipe = x.pipe
  <2> DEFINE y == off(x)
  <2>1. /\ DOMAIN y = DOMAIN x /\ y.fh = x.fh /\ y.conn = x.conn /\ y.kind = x.kind /\ y.listed = x.listed /\ y.pc = "gone"
        /\ y.state = x.state /\ y.flags = x.flags /\ y.close = x.close /\ y.handler = x.handler /\ y.op = x.op
        /\ y.pipe = x.pipe
    BY <1>5 DEF Fit, Shape, Core
  <2> HIDE DEF y
  <2>2. Fit(y) BY <1>5, <2>1 DEF Fit, Shape, PipeOK, Place, Packet, Shutting, Reading
  <2>3. Same(x, y) BY <1>5, <2>1, <2>2 DEF Same, Goes, Finished, PastAnswer, ClosingPcs
  <2>. QED BY <2>1, <2>3 DEF y
<1>6. ASSUME NEW x, Fit(x) PROVE Same(x, x) BY <1>6 DEF Same, Goes
<1> HIDE DEF off
<1>7. ASSUME NEW i \in DOMAIN xfers PROVE Same(xfers[i], xfers'[i]) /\ xfers'[i].pipe = xfers[i].pipe
  <2>1. CASE i \in S
    <3>1. xfers[i].pc = "zombie" /\ Fit(xfers[i]) BY <1>2, <2>1 DEF Zombies
    <3>. QED BY <1>1, <1>5, <2>1, <3>1
  <2>2. CASE i \notin S BY <1>1, <1>2, <1>6, <2>2
  <2>. QED BY <2>1, <2>2
<1>8. Workers BY <1>1, <1>4, <1>7 DEF Workers
<1>9. PipesKept BY <1>1, <1>7 DEF PipesKept, Asked
<1>. QED BY <1>8, <1>9

LEMMA FlushInv == ASSUME IInv, xflush PROVE IInv'
<1>1. ~Dead /\ Crash /\ UNCHANGED <<handles, xfers, ctlpipe, conns, control, replies, user>>
  BY DEF xflush, Waits, Dead
<1>. QED BY <1>1, CrashInv

LEMMA ReapInv ==
  ASSUME IInv, Reap
  PROVE  IInv'
<1>1. /\ main.pc \in {"reap", "rereap"} /\ ~Dead
      /\ UNCHANGED <<handles, ctlpipe, conns, control, replies, user>>
  BY DEF Reap, Dead
<1>2. ASSUME NEW i \in Zombies,
             xfers' = [xfers EXCEPT ![i].pc = "gone"],
             main' = [main EXCEPT !.wait = @ - 1, !.pc = IF main.wait = 1 THEN Then[@] ELSE @]
      PROVE  IInv'
  <2>1. PICK S : S = {i} OBVIOUS
  <2>2. S \subseteq Zombies BY <2>1
  <2>3. xfers' = [j \in DOMAIN xfers |-> IF j \in S THEN [xfers[j] EXCEPT !.pc = "gone"] ELSE xfers[j]]
    BY <1>2, <2>1
  <2>4. Workers /\ PipesKept BY <1>1, <2>2, <2>3, Buried
  <2>5. MainKept /\ main'.cmd = main.cmd /\ main'.pc \in {main.pc, Then[main.pc]}
    BY <1>2 DEF MainKept, IInv, Mind
  <2>6. GoesOn
    <3>1. CASE main.pc = "reap"
      <4>1. main'.pc \in {"reap", "read"} BY <2>5, <3>1 DEF Then
      <4>. QED BY <1>1, <2>5, <4>1 DEF GoesOn, Holding
    <3>2. CASE main.pc = "rereap"
      <4>1. main'.pc \in {"rereap", "do"} BY <2>5, <3>2 DEF Then
      <4>. QED BY <1>1, <2>5, <3>2, <4>1 DEF GoesOn, Holding
    <3>. QED BY <1>1, <3>1, <3>2
  <2>. QED BY <2>4, <2>6, GoesOnInv
<1>3. CASE Crash /\ UNCHANGED xfers BY <1>1, <1>3, CrashInv
<1>. QED BY <1>1, <1>2, <1>3 DEF Reap

LEMMA SignalInv ==
  ASSUME IInv, SendSignal
  PROVE  IInv'
<1> DEFINE v == main.victim
           s == xfers[v].sig \/ (Live(v) /\ xfers[v].handler = "int")
           y == [xfers[v] EXCEPT !.sig = s]
<1>1. /\ main.pc = "kill" /\ ~Dead /\ UNCHANGED <<handles, ctlpipe, conns, control, replies, user>>
  BY DEF SendSignal, Dead
<1>2. MainKept /\ main'.pc = "check" BY DEF SendSignal, MainKept, IInv, Mind
<1>3. Concludes BY <1>1, <1>2 DEF Concludes, Holding
<1>4. xfers' = [xfers EXCEPT ![v] = y] BY DEF SendSignal
<1>5. DOMAIN xfers' = DOMAIN xfers /\ \A i \in DOMAIN xfers : i # v => xfers'[i] = xfers[i] BY <1>4
<1>6. v \in DOMAIN xfers => xfers'[v] = y BY <1>4
<1>7. IsSeq(xfers) /\ \A i \in DOMAIN xfers : Fit(xfers[i]) BY DEF IInv, Tables, Fitting
<1>8. ASSUME v \in DOMAIN xfers PROVE Same(xfers[v], y) /\ y.pipe = xfers[v].pipe
  <2> DEFINE x == xfers[v]
  <2>1. Fit(x) BY <1>7, <1>8
  <2>2. /\ DOMAIN y = DOMAIN x /\ y.fh = x.fh /\ y.conn = x.conn /\ y.kind = x.kind /\ y.listed = x.listed /\ y.pc = x.pc
        /\ y.state = x.state /\ y.flags = x.flags /\ y.close = x.close /\ y.handler = x.handler /\ y.op = x.op
        /\ y.pipe = x.pipe
    OBVIOUS
  <2> HIDE DEF y, x
  <2>3. Fit(y) BY <2>1, <2>2 DEF Fit, Shape, PipeOK, Place, Packet, Shutting, Reading
  <2>4. Same(x, y) BY <2>2, <2>3 DEF Same, Goes, Finished
  <2>. QED BY <2>2, <2>4 DEF x
<1> HIDE DEF y, s
<1>9. IsSeq(xfers')
  <2>1. xfers' = [i \in DOMAIN xfers |-> xfers'[i]] BY <1>4
  <2>. QED BY <1>5, <1>7, <2>1, MapSeq, Zenon
<1>10. ASSUME NEW i \in DOMAIN xfers PROVE Same(xfers[i], xfers'[i]) /\ xfers'[i].pipe = xfers[i].pipe
  <2>1. CASE i = v BY <1>6, <1>8, <2>1
  <2>2. CASE i # v
    <3>1. xfers'[i] = xfers[i] /\ Fit(xfers[i]) BY <1>5, <1>7, <2>2
    <3>. QED BY <3>1 DEF Same, Goes
  <2>. QED BY <2>1, <2>2
<1>11. Workers BY <1>1, <1>5, <1>9, <1>10 DEF Workers
<1>12. PipesKept BY <1>5, <1>10 DEF PipesKept, Asked
<1>. QED BY <1>3, <1>11, <1>12, EndsInv

-----------------------------------------------------------------------------
(* Commands to a transfer. *)

LEMMA OnIt ==
  ASSUME Tables, T.fh \in DOMAIN handles, Fh.xfer # 0
  PROVE  Fh.xfer \in DOMAIN xfers
<1>. QED BY DEF Tables, Handles, HandleOK, Fh

LEMMA SendLeaves ==
  ASSUME Mind, NEW j, NEW m, sendcmd(j, m)
  PROVE  Leaves
<1>1. \/ main' = Idle(main) \/ Crash \/ main' = [Idle(main) EXCEPT !.pc = "kill", !.victim = j]
  BY DEF sendcmd, Tell
<1>2. main' = [Idle(main) EXCEPT !.pc = "kill", !.victim = j] => DOMAIN main' = DOMAIN main /\ main'.pc = "kill"
  BY DEF Mind, Idle
<1>. QED BY <1>1, <1>2, IdleLeaves DEF Leaves, MainKept, Holding

LEMMA XcommandInv ==
  ASSUME IInv, xcommand
  PROVE  IInv'
<1>1. main.pc = "do" /\ Refusal = "none" /\ "XFER" \in Flag /\ Holding /\ ~Dead BY DEF xcommand, Holding, Dead
<1>2. T.cname \in {"CLOSE", "FILEPOS", "CONTINUE"} /\ Flag \cap {"FHMUST", "FHINPUT"} # {}
  BY <1>1 DEF Flag, Unknown, Commands, Flags
<1>3. T.fh \in DOMAIN handles BY <1>1, <1>2, Granted
<1>4. CASE Fh.xfer = 0
  <2>1. Errs("BUG") BY <1>4 DEF xcommand
  <2>. QED BY <1>1, <2>1, ErrsInv
<1>5. CASE Fh.xfer # 0
  <2>1. PICK j : j = Fh.xfer OBVIOUS
  <2>2. PICK m : m = Msg(T.tid, T.cname, A.numbers["pos"]) OBVIOUS
  <2>3. sendcmd(j, m) /\ UNCHANGED <<handles, ctlpipe, conns, control, replies, user>>
    BY <1>5, <2>1, <2>2 DEF xcommand
  <2>4. j \in DOMAIN xfers BY <1>3, <1>5, <2>1, OnIt DEF IInv
  <2>5. /\ DOMAIN m = {"tid", "cname", "n"} /\ m.tid = T.tid /\ m.cname = T.cname
    BY <2>2 DEF Msg
  <2>6. MsgOK(m) /\ m.cname \notin Opens
    BY <1>1, <1>2, <2>5 DEF MsgOK, Speaking, Opens, IInv, Mind, T
  <2>7. Leaves BY <2>3, SendLeaves DEF IInv
  <2>8. CASE Live(j)
    <3>1. xfers' = [xfers EXCEPT ![j].pipe = Append(@, m)] BY <2>3, <2>8 DEF sendcmd, Tell
    <3>2. PICK t : t = T.tid OBVIOUS
    <3>3. t = m.tid BY <2>5, <3>2
    <3>4. Workers /\ PipesTold(t) BY <1>1, <2>3, <2>4, <2>6, <3>1, <3>3, TellWorkers
    <3>. QED BY <1>1, <2>3, <2>7, <3>2, <3>4, TellsInv DEF Leaves
  <2>9. CASE ~Live(j)
    <3>1. Crash /\ UNCHANGED xfers BY <2>3, <2>9 DEF sendcmd, Tell
    <3>. QED BY <1>1, <2>3, <3>1, CrashInv
  <2>. QED BY <2>8, <2>9
<1>. QED BY <1>4, <1>5

-----------------------------------------------------------------------------
(* Connections and users. *)

LEMMA DataconnInv ==
  ASSUME IInv, dataconn
  PROVE  IInv'
<1>1. Holding /\ ~Dead BY GrantedTo DEF dataconn
<1>2. PICK in, out : in = Head(A.strings[1]) /\ out = Head(A.strings[2]) OBVIOUS
<1>3. \/ Errs("BUG")
      \/ /\ Reply("NET") /\ main' = Idle(main)
         /\ UNCHANGED <<handles, xfers, ctlpipe, conns, control, user>>
      \/ /\ NewHandles(in, out) /\ Reply("OK") /\ main' = Idle(main)
         /\ UNCHANGED <<xfers, ctlpipe, control, user>>
  BY <1>2 DEF dataconn, NewHandles
<1>4. CASE Errs("BUG") BY <1>1, <1>4, ErrsInv
<1>5. CASE /\ Reply("NET") /\ main' = Idle(main)
           /\ UNCHANGED <<handles, xfers, ctlpipe, conns, control, user>>
  <2>1. Gives(T.tid) BY <1>5, RespondGives DEF Reply
  <2>2. Leaves BY <1>5, IdleLeaves DEF IInv
  <2>. QED BY <1>1, <1>5, <2>1, <2>2, IdleInv
<1>6. CASE /\ NewHandles(in, out) /\ Reply("OK") /\ main' = Idle(main)
           /\ UNCHANGED <<xfers, ctlpipe, control, user>>
  <2>1. Gives(T.tid) BY <1>6, RespondGives DEF Reply
  <2>2. Leaves BY <1>6, IdleLeaves DEF IInv
  <2>3. Tables' BY <1>1, <1>6, NewHandlesTables DEF IInv
  <2>. QED BY <1>1, <1>6, <2>1, <2>2, <2>3, Untouched DEF Concludes, Leaves
<1>. QED BY <1>3, <1>4, <1>5, <1>6

LEMMA UndataconnInv ==
  ASSUME IInv, undataconn
  PROVE  IInv'
<1>1. Holding /\ ~Dead /\ T.fh \in DOMAIN handles BY GrantedTo DEF undataconn
<1>2. CASE Errs("BUG") BY <1>1, <1>2, ErrsInv
<1>3. CASE ~Errs("BUG")
  <2>1. LessHandles /\ Reply("OK") /\ main' = Idle(main) /\ UNCHANGED <<xfers, ctlpipe, control, user>>
    BY <1>1, <1>3 DEF undataconn, LessHandles
  <2>2. Gives(T.tid) BY <2>1, RespondGives DEF Reply
  <2>3. Leaves BY <2>1, IdleLeaves DEF IInv
  <2>4. Tables' BY <1>1, <2>1, LessHandlesTables DEF IInv
  <2>. QED BY <1>1, <2>1, <2>2, <2>3, <2>4, Untouched DEF Concludes, Leaves
<1>. QED BY <1>2, <1>3

LEMMA LoginInv ==
  ASSUME IInv, login
  PROVE  IInv'
<1>1. Holding /\ ~Dead /\ UNCHANGED <<handles, xfers, ctlpipe, conns, control, user>> BY GrantedTo DEF login
<1>2. PICK name : name = downcase(A.strings[1]) OBVIOUS
<1>3. \/ main' = [main EXCEPT !.pc = "gone"] /\ UNCHANGED replies
      \/ main' = Idle(main) /\ \E code : Reply(code)
      \/ main' = [Idle(main) EXCEPT !.home = Passwd[name], !.cwd = Passwd[name]] /\ Respond(T.tid, "OK", Passwd[name])
  BY <1>2 DEF login
<1>4. CASE main' = [main EXCEPT !.pc = "gone"] /\ UNCHANGED replies
  <2>1. Leaves BY <1>4, IdleLeaves DEF IInv
  <2>. QED BY <1>1, <1>4, <2>1, FinishInv DEF Concludes, Leaves
<1>5. CASE main' = Idle(main) /\ \E code : Reply(code)
  <2>1. Leaves BY <1>5, IdleLeaves DEF IInv
  <2>2. Gives(T.tid) BY <1>5, RespondGives DEF Reply
  <2>. QED BY <1>1, <2>1, <2>2, IdleInv
<1>6. CASE main' = [Idle(main) EXCEPT !.home = Passwd[name], !.cwd = Passwd[name]] /\ Respond(T.tid, "OK", Passwd[name])
  <2>1. DOMAIN main' = DOMAIN main /\ main'.pc = "check" BY <1>6 DEF Idle, IInv, Mind
  <2>2. Leaves BY <2>1 DEF Leaves, MainKept, Holding
  <2>3. Gives(T.tid) BY <1>6, RespondGives
  <2>. QED BY <1>1, <2>2, <2>3, IdleInv
<1>. QED BY <1>3, <1>4, <1>5, <1>6

-----------------------------------------------------------------------------
(* OPEN *)

LEMMA ProbeInv ==
  ASSUME IInv, Holding, NEW o, NEW p, Probe(o, p)
  PROVE  IInv'
<1>1. UNCHANGED <<handles, xfers, ctlpipe, conns, control, user>> BY DEF Probe
<1>2. Gives(T.tid) BY RespondGives DEF Probe, Reply
<1>3. Leaves BY IdleLeaves DEF Probe, IInv
<1>. QED BY <1>1, <1>2, <1>3, IdleInv

(* What the transfer of an OPEN is.                                        *)
LEMMA OpenXferIs ==
  ASSUME T.fh \in DOMAIN handles, NEW o, NEW p, NEW r, NEW x, x = OpenXfer(o, p, r)
  PROVE  Fit(x) /\ x.fh = T.fh /\ x.listed /\ x.conn = Fh.conn /\ x.close = "none" /\ x.pc = "top"
         /\ x.pipe = << >> /\ x.kind = IF "READ" \in o THEN "READ" ELSE "WRITE"
<1> DEFINE kind == IF "READ" \in o THEN "READ" ELSE "WRITE"
           f == r.disk.files[r.ino]
           start == IF "WRITE" \in o /\ IfExists = "APPEND" THEN Len(f.data) ELSE 0
           new == makexfer(T.fh, kind, o)
           opened == [new EXCEPT !.state = "PROCESS", !.bytesize = ByteSize(o), !.ino = r.ino, !.temp = r.temp]
           named  == [opened EXCEPT !.real = p.real, !.preal = p.real, !.dir = p.dir]
           Made(y) == /\ Core \subseteq DOMAIN y /\ y.fh = T.fh /\ y.listed = TRUE /\ y.conn = Fh.conn
                      /\ y.close = "none" /\ y.pc = "top" /\ y.pipe = << >> /\ y.kind = kind
                      /\ y.flags = {} /\ y.handler = "ign"
<1>1. Made(x) /\ x.state = "PROCESS"
  <2>1. x = [named EXCEPT !.atime = f.atime, !.mtime = f.mtime, !.pos = start, !.base = start]
    BY DEF OpenXfer
  <2> HIDE DEF kind, f, start
  <2>2. Made(new) BY DEF makexfer, Core, Fh
  <2> HIDE DEF new
  <2>3. Made(opened) /\ opened.state = "PROCESS" BY <2>2 DEF Core
  <2> HIDE DEF opened
  <2>4. Made(named) /\ named.state = "PROCESS" BY <2>3 DEF Core
  <2> HIDE DEF named
  <2>5. PICK a, m : x = [named EXCEPT !.atime = a, !.mtime = m, !.pos = start, !.base = start] BY <2>1
  <2>. QED BY <2>4, <2>5 DEF Core
<1>2. Shape(x) BY <1>1 DEF Shape, Kinds
<1>3. PipeOK(x) BY <1>1, NoneSeq DEF PipeOK
<1>4. Place(x)
  <2>1. x.pc \in ReadingPcs(x.state) /\ x.pc \in WritingPcs(x.state) BY <1>1 DEF ReadingPcs, WritingPcs
  <2>. QED BY <2>1 DEF Place
<1>5. Packet(x) /\ Shutting(x) BY <1>1 DEF Packet, Shutting
<1>. QED BY <1>1, <1>2, <1>3, <1>4, <1>5 DEF Fit

LEMMA OpenForInv ==
  ASSUME IInv, Holding, NEW o, NEW p, NEW r, OpenFor(o, p, r),
         T.fh \in DOMAIN handles, Fh.xfer = 0, Fh.type = IF "READ" \in o THEN "INPUT" ELSE "OUTPUT"
  PROVE  IInv'
<1>1. ~Dead BY DEF Holding, Dead
<1>2. PICK d : d = Decided(o, r) OBVIOUS
<1>3. "READ" \in d <=> "READ" \in o BY <1>2 DEF Decided
<1>4. /\ main' = [Idle(main) EXCEPT !.lastnum = r.lastnum] /\ UNCHANGED <<ctlpipe, conns, control, user>>
      /\ \/ (\E code : Reply(code)) /\ UNCHANGED <<handles, xfers>>
         \/ Started(OpenXfer(d, p, r)) /\ Respond(T.tid, "OK", <<Length(d, r.disk.files[r.ino].data)>>)
  BY <1>2 DEF OpenFor
<1>5. DOMAIN main' = DOMAIN main /\ main'.pc = "check" BY <1>4 DEF Idle, IInv, Mind
<1>6. Leaves BY <1>5 DEF Leaves, MainKept, Holding
<1>7. Gives(T.tid) BY <1>4, RespondGives DEF Reply
<1>8. CASE UNCHANGED <<handles, xfers>> BY <1>4, <1>6, <1>7, <1>8, IdleInv
<1>9. CASE Started(OpenXfer(d, p, r))
  <2>1. PICK x : x = OpenXfer(d, p, r) OBVIOUS
  <2>2. /\ Fit(x) /\ x.fh = T.fh /\ x.listed /\ x.conn = Fh.conn /\ x.close = "none" /\ x.pc = "top"
        /\ x.pipe = << >> /\ x.kind = IF "READ" \in d THEN "READ" ELSE "WRITE"
    BY <2>1, OpenXferIs
  <2>3. Fh.type = IF Reading(x) THEN "INPUT" ELSE "OUTPUT" BY <1>3, <2>2 DEF Reading
  <2>4. Begins(x) BY <2>2, <2>3 DEF Begins
  <2>5. Starts(x) BY <1>1, <1>4, <1>6, <1>9, <2>1, <2>4 DEF Starts, Leaves
  <2>. QED BY <1>7, <2>2, <2>5, OpensInv
<1>. QED BY <1>4, <1>8, <1>9

(* What is not refused has a handle of its own.                            *)
LEMMA NotRefused ==
  ASSUME NEW o, OpenRefused(o) = "none", "PROBE" \notin o, o \cap Directions # {}, T.fh # "" => T.fh \in DOMAIN handles
  PROVE  /\ T.fh \in DOMAIN handles /\ Fh.xfer = 0
         /\ "READ" \in o \/ "WRITE" \in o
         /\ Fh.type = IF "READ" \in o THEN "INPUT" ELSE "OUTPUT"
<1>1. "READ" \in o \/ "WRITE" \in o BY DEF Directions
<1>2. ~("READ" \in o /\ A.exists["IF-DOES-NOT-EXIST"] = "CREATE") BY DEF OpenRefused
<1>3. ~("WRITE" \in o /\ T.fh # "" /\ Fh.type = "OUTPUT" /\ A.exists["IF-EXISTS"] = "NEW-VERSION")
  BY <1>2 DEF OpenRefused
<1>4. ~(\/ ("READ" \in o \/ "WRITE" \in o) /\ (T.fh = "" \/ Fh.type # IF "READ" \in o THEN "INPUT" ELSE "OUTPUT")
        \/ "PROBE" \in o /\ T.fh # ""
        \/ Busy)
  BY <1>2, <1>3 DEF OpenRefused
<1>. QED BY <1>1, <1>4 DEF Busy

LEMMA FileopenInv ==
  ASSUME IInv, fileopen
  PROVE  IInv'
<1>1. Holding /\ ~Dead /\ (T.fh # "" => T.fh \in DOMAIN handles) BY GrantedTo DEF fileopen
<1>2. PICK p : p = Parse(A.strings[1], FALSE) OBVIOUS
<1>3. PICK o : o = Directed(A.options) OBVIOUS
<1>4. o \cap Directions # {} BY <1>3 DEF Directed, Directions
<1>5. \/ \E code : Errs(code)
      \/ "PROBE" \in o /\ Probe(o, p)
      \/ "PROBE" \notin o /\ OpenRefused(o) = "none" /\ \E r : OpenFor(o, p, r)
  <2>1. CASE p.err # "none" BY <1>2, <2>1 DEF fileopen
  <2>2. CASE p.err = "none" /\ ~A.options \subseteq Openable BY <1>2, <2>2 DEF fileopen
  <2>3. CASE p.err = "none" /\ A.options \subseteq Openable /\ "PROBE" \in o BY <1>2, <1>3, <2>3 DEF fileopen
  <2>4. CASE p.err = "none" /\ A.options \subseteq Openable /\ "PROBE" \notin o
    <3>1. CASE OpenRefused(o) # "none" BY <1>2, <1>3, <2>4, <3>1 DEF fileopen
    <3>2. CASE OpenRefused(o) = "none" /\ "READ" \in o BY <1>2, <1>3, <2>4, <3>2 DEF fileopen
    <3>3. CASE OpenRefused(o) = "none" /\ "READ" \notin o BY <1>2, <1>3, <2>4, <3>3 DEF fileopen
    <3>. QED BY <3>1, <3>2, <3>3
  <2>. QED BY <2>1, <2>2, <2>3, <2>4
<1>6. CASE \E code : Errs(code) BY <1>1, <1>6, ErrsInv
<1>7. CASE "PROBE" \in o /\ Probe(o, p) BY <1>1, <1>7, ProbeInv
<1>8. CASE "PROBE" \notin o /\ OpenRefused(o) = "none" /\ \E r : OpenFor(o, p, r)
  <2>1. T.fh \in DOMAIN handles /\ Fh.xfer = 0 /\ Fh.type = IF "READ" \in o THEN "INPUT" ELSE "OUTPUT"
    BY <1>1, <1>4, <1>8, NotRefused
  <2>2. PICK r : OpenFor(o, p, r) BY <1>8
  <2>. QED BY <1>1, <2>1, <2>2, OpenForInv
<1>. QED BY <1>5, <1>6, <1>7, <1>8

-----------------------------------------------------------------------------
(* Names and directories. *)

LEMMA RunsInv ==
  ASSUME IInv, Holding, NEW code, NEW r, Runs(code, r)
  PROVE  IInv'
<1>1. ~Dead BY DEF Holding, Dead
<1>2. PICK S \in SUBSET Zombies :
        /\ main' = [Idle(main) EXCEPT !.nprocdone = @ + Cardinality(S)]
        /\ xfers' = [i \in DOMAIN xfers |-> IF i \in S THEN [xfers[i] EXCEPT !.pc = "gone"] ELSE xfers[i]]
        /\ Reply(IF r.err = "OK" THEN "OK" ELSE code)
        /\ UNCHANGED <<handles, ctlpipe, conns, control, user>>
  BY DEF Runs
<1>3. Workers /\ PipesKept BY <1>1, <1>2, Buried
<1>4. Gives(T.tid) BY <1>2, RespondGives DEF Reply
<1>5. DOMAIN main' = DOMAIN main /\ main'.pc = "check" BY <1>2 DEF Idle, IInv, Mind
<1>6. Concludes BY <1>4, <1>5 DEF Concludes, MainKept, Holding
<1>. QED BY <1>3, <1>6, EndsInv

(* What a transfer is told of its file.                                    *)
LEMMA QuietInv ==
  ASSUME IInv, ~Dead, NEW j \in DOMAIN xfers, Live(j), NEW m, MsgOK(m), m.cname \in Silent,
         xfers' = [xfers EXCEPT ![j].pipe = Append(@, m)], UNCHANGED <<handles, ctlpipe, conns, control, user>>,
         Concludes \/ GoesOn
  PROVE  IInv'
<1>1. PICK t : t = m.tid OBVIOUS
<1>2. m.cname \notin Opens BY DEF Silent, Opens
<1>3. Workers /\ PipesKept BY <1>1, <1>2, TellWorkers
<1>. QED BY <1>3, EndsInv, GoesOnInv

LEMMA DeleteInv ==
  ASSUME IInv, delete
  PROVE  IInv'
<1>1. Holding /\ ~Dead /\ (T.fh # "" => T.fh \in DOMAIN handles) BY GrantedTo DEF delete
<1>2. PICK p : p = Parse(A.strings[1], FALSE) OBVIOUS
<1>3. \/ \E code : Errs(code)
      \/ T.fh # "" /\ Fh.xfer # 0 /\ DeleteOpen
      \/ DeleteNamed(p)
  <2>1. CASE T.fh # "" /\ (Has(1) \/ Fh.xfer = 0) BY <2>1 DEF delete
  <2>2. CASE T.fh # "" /\ ~Has(1) /\ Fh.xfer # 0 BY <2>2 DEF delete
  <2>3. CASE T.fh = "" /\ ~Has(1) BY <2>3 DEF delete
  <2>4. CASE T.fh = "" /\ Has(1) BY <1>2, <2>4 DEF delete
  <2>. QED BY <2>1, <2>2, <2>3, <2>4
<1>4. CASE \E code : Errs(code) BY <1>1, <1>4, ErrsInv
<1>5. CASE T.fh # "" /\ Fh.xfer # 0 /\ DeleteOpen
  <2>1. PICK j : j = Fh.xfer OBVIOUS
  <2>2. PICK m : m = Msg("XXXXX", "delfh", 0) OBVIOUS
  <2>3. \/ \E code : Errs(code)
        \/ Reply("OK") /\ sendcmd(j, m) /\ UNCHANGED <<handles, ctlpipe, conns, control, user>>
    BY <1>5, <2>1, <2>2 DEF DeleteOpen
  <2>4. CASE \E code : Errs(code) BY <1>1, <2>4, ErrsInv
  <2>5. CASE Reply("OK") /\ sendcmd(j, m) /\ UNCHANGED <<handles, ctlpipe, conns, control, user>>
    <3>1. j \in DOMAIN xfers BY <1>1, <1>5, <2>1, OnIt DEF IInv
    <3>2. MsgOK(m) /\ m.cname \in Silent
      <4>1. DOMAIN m = {"tid", "cname", "n"} /\ m.cname = "delfh" BY <2>2 DEF Msg
      <4>. QED BY <4>1 DEF MsgOK, Silent, Speaking, Opens
    <3>3. Gives(T.tid) BY <2>5, RespondGives DEF Reply
    <3>4. Leaves BY <2>5, SendLeaves DEF IInv
    <3>5. CASE Live(j)
      <4>1. xfers' = [xfers EXCEPT ![j].pipe = Append(@, m)] BY <2>5, <3>5 DEF sendcmd, Tell
      <4>2. Concludes BY <1>1, <3>3, <3>4 DEF Concludes, Leaves
      <4>. QED BY <1>1, <2>5, <3>1, <3>2, <3>5, <4>1, <4>2, QuietInv
    <3>6. CASE ~Live(j)
      <4>1. Crash /\ UNCHANGED xfers BY <2>5, <3>6 DEF sendcmd, Tell
      <4>. QED BY <1>1, <2>5, <3>3, <4>1, CrashInv
    <3>. QED BY <3>5, <3>6
  <2>. QED BY <2>3, <2>4, <2>5
<1>6. CASE DeleteNamed(p)
  <2>1. \/ \E code : Errs(code)
        \/ \E code, results, k : Answers(code, results, k)
        \/ \E code, r : Runs(code, r)
    <3>1. CASE Named(p) # "none" BY <1>6, <3>1 DEF DeleteNamed
    <3>2. CASE Named(p) = "none" /\ ~IsDir(p.real) BY <1>6, <3>2 DEF DeleteNamed
    <3>3. CASE Named(p) = "none" /\ IsDir(p.real) BY <1>6, <3>3 DEF DeleteNamed
    <3>. QED BY <3>1, <3>2, <3>3
  <2>. QED BY <1>1, <2>1, ErrsInv, AnswersInv, RunsInv
<1>. QED BY <1>3, <1>4, <1>5, <1>6

LEMMA RenameInv ==
  ASSUME IInv, xrename
  PROVE  IInv'
<1>1. Holding /\ ~Dead BY GrantedTo DEF xrename
<1>2. PICK p : p = Parse(A.strings[1], FALSE) OBVIOUS
<1>3. Renaming(p) BY <1>2 DEF xrename
<1>4. \/ \E code : Errs(code)
      \/ \E r : RenamedOpen(r)
      \/ \E p2 : RenameNamed(p, p2)
  <2>1. CASE p.err # "none" BY <1>3, <2>1 DEF Renaming
  <2>2. CASE p.err = "none" /\ T.fh # "" BY <1>3, <2>2 DEF Renaming, RenameOpen
  <2>3. CASE p.err = "none" /\ T.fh = "" BY <1>3, <2>3 DEF Renaming
  <2>. QED BY <2>1, <2>2, <2>3
<1>5. CASE \E code : Errs(code) BY <1>1, <1>5, ErrsInv
<1>6. ASSUME NEW r, RenamedOpen(r) PROVE IInv'
  <2>1. CASE r.code # "none"
    <3>1. Answers(r.code, << >>, r.disk) BY <1>6, <2>1 DEF RenamedOpen
    <3>. QED BY <1>1, <3>1, AnswersInv
  <2>2. CASE r.code = "none"
    <3>1. Reply("OK") /\ Crash /\ UNCHANGED <<handles, xfers, ctlpipe, conns, control, user>>
      BY <1>6, <2>2 DEF RenamedOpen
    <3>2. Gives(T.tid) BY <3>1, RespondGives DEF Reply
    <3>. QED BY <1>1, <3>1, <3>2, CrashInv
  <2>. QED BY <2>1, <2>2
<1>7. ASSUME NEW p2, RenameNamed(p, p2) PROVE IInv'
  <2>1. (\E code : Errs(code)) \/ \E code, results, k : Answers(code, results, k) BY <1>7 DEF RenameNamed
  <2>. QED BY <1>1, <2>1, ErrsInv, AnswersInv
<1>. QED BY <1>4, <1>5, <1>6, <1>7

LEMMA CompleteInv ==
  ASSUME IInv, complete
  PROVE  IInv'
<1>1. Holding /\ ~Dead BY GrantedTo DEF complete
<1>2. (\E code : Errs(code)) \/ \E d, p : CompleteIn(d, p)
  <2> DEFINE deflt == A.strings[1]
             input == A.strings[2]
             d == Parse(deflt, TRUE)
             p == Parse(IF input # << >> /\ Head(input) = "/" THEN input ELSE Text(d.dir) \o <<"/">> \o input, TRUE)
             known == A.options \subseteq {"NEW-OK", "OLD", "DELETED", "READ", "WRITE"}
             bare  == deflt = << >> \/ Head(deflt) # "/"
  <2>1. CASE ~known BY <2>1 DEF complete
  <2>2. CASE known /\ bare BY <2>2 DEF complete
  <2>3. CASE known /\ ~bare
    <3>1. CASE d.err # "none" BY <2>3, <3>1 DEF complete
    <3>2. CASE d.err = "none" /\ p.err # "none" BY <2>3, <3>2 DEF complete
    <3>3. CASE d.err = "none" /\ p.err = "none"
      <4>1. IF CannotList(p.dir) # "none" THEN Errs(CannotList(p.dir)) ELSE CompleteIn(d, p)
        BY <2>3, <3>3 DEF complete
      <4> HIDE DEF d, p
      <4>. QED BY <4>1
    <3>. QED BY <3>1, <3>2, <3>3
  <2>. QED BY <2>1, <2>2, <2>3
<1>3. CASE \E code : Errs(code) BY <1>1, <1>3, ErrsInv
<1>4. ASSUME NEW d, NEW p, CompleteIn(d, p) PROVE IInv'
  <2>1. \/ Crash /\ UNCHANGED <<handles, xfers, ctlpipe, conns, control, replies, user>>
        \/ \E code, results, k : Answers(code, results, k)
    BY <1>4 DEF CompleteIn
  <2>. QED BY <1>1, <2>1, CrashInv, AnswersInv
<1>. QED BY <1>2, <1>3, <1>4

LEMMA CrdirInv ==
  ASSUME IInv, crdir \/ expunge
  PROVE  IInv'
<1>1. Holding /\ ~Dead BY GrantedTo DEF crdir, expunge
<1>2. CASE crdir
  <2>1. (\E code : Errs(code)) \/ \E code, r : Runs(code, r)
    <3> DEFINE p      == Parse(A.strings[1], TRUE)
               access == Access(disk, Pop(p.dir), {"x", "w"})
    <3>1. CASE p.err # "none" BY <1>2, <3>1 DEF crdir
    <3>2. CASE p.err = "none" /\ access # "OK" BY <1>2, <3>2 DEF crdir
    <3>3. CASE p.err = "none" /\ access = "OK"
      <4>1. IF Stat(disk, p.dir) = "OK" THEN Errs("DAE") ELSE Runs("MSC", Mkdir(disk, p.dir, 0))
        BY <1>2, <3>3 DEF crdir
      <4> HIDE DEF p
      <4>. QED BY <4>1
    <3>. QED BY <3>1, <3>2, <3>3
  <2>. QED BY <1>1, <2>1, ErrsInv, RunsInv
<1>3. CASE expunge
  <2>1. (\E code : Errs(code)) \/ \E code, results, k : Answers(code, results, k) BY <1>3 DEF expunge
  <2>. QED BY <1>1, <2>1, ErrsInv, AnswersInv
<1>. QED BY <1>2, <1>3

-----------------------------------------------------------------------------
(* Listings. *)

Lists(x) ==
  /\ Core \subseteq DOMAIN x /\ x.fh = T.fh /\ x.listed = TRUE /\ x.conn = Fh.conn /\ x.close = "none" /\ x.pc = "top"
  /\ x.state = "IDLE" /\ x.flags = {} /\ x.handler = "ign" /\ x.kind \in {"DIR", "PROPERTIES"}

LEMMA ListInv ==
  ASSUME IInv, Holding, NEW x, Lists(x), NEW cname \in Opens, List(x, cname),
         T.fh \in DOMAIN handles, Fh.xfer = 0, Fh.type = "INPUT"
  PROVE  IInv'
<1>1. ~Dead BY DEF Holding, Dead
<1>2. Leaves BY IdleLeaves DEF List, IInv
<1>3. PICK m : m = Msg(T.tid, cname, 0) OBVIOUS
<1>4. PICK y : y = [x EXCEPT !.pipe = <<m>>] OBVIOUS
<1>5. \/ Started(y) /\ UNCHANGED <<ctlpipe, conns, control, replies, user>>
      \/ Reply("NER") /\ UNCHANGED <<handles, xfers, ctlpipe, conns, control, user>>
  BY <1>3, <1>4 DEF List
<1>6. CASE Started(y) /\ UNCHANGED <<ctlpipe, conns, control, replies, user>>
  <2>1. /\ Core \subseteq DOMAIN y /\ y.fh = T.fh /\ y.listed = TRUE /\ y.conn = Fh.conn /\ y.close = "none" /\ y.pc = "top"
        /\ y.state = "IDLE" /\ y.flags = {} /\ y.handler = "ign" /\ y.kind \in {"DIR", "PROPERTIES"} /\ y.pipe = <<m>>
    BY <1>4 DEF Lists, Core
  <2>2. DOMAIN m = {"tid", "cname", "n"} /\ m.tid = T.tid /\ m.cname = cname BY <1>3 DEF Msg
  <2>3. MsgOK(m) BY <2>2 DEF MsgOK, Speaking, IInv, Mind, T
  <2>4. IsSeq(<<m>>) /\ DOMAIN <<m>> = {1} /\ <<m>>[1] = m
    <3>1. <<m>> \in Seq({m}) OBVIOUS
    <3>2. IsSeq(<<m>>) BY <3>1, SomeSeq, Zenon
    <3>. QED BY <3>2
  <2>5. PipeOK(y) BY <2>1, <2>3, <2>4 DEF PipeOK
  <2>6. Shape(y) /\ Packet(y) /\ Shutting(y) BY <2>1 DEF Shape, Kinds, Packet, Shutting
  <2>7. Place(y)
    <3>1. y.pc \in ReadingPcs(y.state) /\ Reading(y) BY <2>1 DEF ReadingPcs, Reading
    <3>. QED BY <3>1 DEF Place
  <2>8. Begins(y) BY <2>1, <2>5, <2>6, <2>7 DEF Begins, Fit, Reading
  <2>9. Starts(y) BY <1>1, <1>2, <1>6, <2>8 DEF Starts, Leaves
  <2>. QED BY <1>6, <2>1, <2>2, <2>9, ListsInv
<1>7. CASE Reply("NER") /\ UNCHANGED <<handles, xfers, ctlpipe, conns, control, user>>
  <2>1. Gives(T.tid) BY <1>7, RespondGives DEF Reply
  <2>. QED BY <1>2, <1>7, <2>1, IdleInv
<1>. QED BY <1>5, <1>6, <1>7

LEMMA DirectoryInv ==
  ASSUME IInv, directory
  PROVE  IInv'
<1>1. Holding /\ ~Dead /\ T.fh \in DOMAIN handles /\ Fh.type = "INPUT" BY GrantedTo DEF directory
<1> DEFINE p == Parse(A.strings[1], FALSE)
           x == [makexfer(T.fh, "DIR", AsText(A.options)) EXCEPT !.real = p.real, !.dir = p.dir]
           known == A.options \subseteq {"DELETED", "FAST", "SORTED"}
<1>2. CASE ~known
  <2>1. Errs("ICO") BY <1>2 DEF directory
  <2>. QED BY <1>1, <2>1, ErrsInv
<1>3. CASE known /\ Fh.xfer # 0
  <2>1. Errs("BUG") BY <1>3 DEF directory
  <2>. QED BY <1>1, <2>1, ErrsInv
<1>4. CASE known /\ Fh.xfer = 0
  <2>1. IF p.err # "none" THEN Errs(p.err) ELSE List(x, "DIRECTORY") BY <1>4 DEF directory
  <2>2. Lists(x) BY DEF Lists, makexfer, Core, Fh
  <2> HIDE DEF p, x
  <2>3. CASE p.err # "none" BY <1>1, <2>1, <2>3, ErrsInv
  <2>4. CASE p.err = "none"
    <3>1. List(x, "DIRECTORY") /\ "DIRECTORY" \in Opens BY <2>1, <2>4 DEF Opens
    <3>. QED BY <1>1, <1>4, <2>2, <3>1, ListInv
  <2>. QED BY <2>3, <2>4
<1>. QED BY <1>2, <1>3, <1>4

LEMMA GetpropsInv ==
  ASSUME IInv, getprops
  PROVE  IInv'
<1>1. Holding /\ ~Dead /\ T.fh \in DOMAIN handles /\ Fh.type = "INPUT" BY GrantedTo, ZenonT(40) DEF getprops
<1> DEFINE name  == A.strings[1]
           other == Head(name)
           y     == xfers[handles[other].xfer]
           p     == IF name # << >> THEN [err |-> "none", real |-> y.preal, dir |-> y.dir]
                                    ELSE Parse(A.strings[2], FALSE)
           temp  == IF name # << >> THEN y.temp ELSE NoFile
           bad   == name # << >> /\ (other \notin DOMAIN handles \/ handles[other].xfer = 0)
           none  == IF name = << >> THEN ~Has(2) ELSE temp = NoFile
           x     == [makexfer(T.fh, "PROPERTIES", AsText(A.options)) EXCEPT
                       !.real = p.real, !.dir = p.dir, !.temp = temp]
<1>2. CASE Fh.xfer # 0 \/ bad
  <2>1. Errs("BUG") BY <1>2 DEF getprops
  <2>. QED BY <1>1, <2>1, ErrsInv
<1>3. CASE Fh.xfer = 0 /\ ~bad /\ none
  <2>1. Crash /\ UNCHANGED <<handles, xfers, ctlpipe, conns, control, replies, user>> BY <1>3 DEF getprops
  <2>. QED BY <1>1, <2>1, CrashInv
<1>4. CASE Fh.xfer = 0 /\ ~bad /\ ~none
  <2>1. IF Named(p) # "none" THEN Errs(Named(p)) ELSE List(x, "PROPERTIES") BY <1>4 DEF getprops
  <2>2. Lists(x)
    <3> HIDE DEF p, temp
    <3>. QED BY DEF Lists, makexfer, Core, Fh
  <2> HIDE DEF p, x, bad, none
  <2>3. CASE Named(p) # "none" BY <1>1, <2>1, <2>3, ErrsInv
  <2>4. CASE Named(p) = "none"
    <3>1. List(x, "PROPERTIES") /\ "PROPERTIES" \in Opens BY <2>1, <2>4 DEF Opens
    <3>. QED BY <1>1, <1>4, <2>2, <3>1, ListInv
  <2>. QED BY <2>3, <2>4
<1>. QED BY <1>2, <1>3, <1>4

-----------------------------------------------------------------------------
(* Properties. *)

LEMMA ChangeInv ==
  ASSUME IInv, main.pc = "do", NEW n, Change(n), T.fh # "" => T.fh \in DOMAIN handles
  PROVE  IInv'
<1>1. ~Dead /\ Holding BY DEF Dead, Holding
<1>2. UNCHANGED <<handles, xfers, ctlpipe, conns, control, replies, user>> BY DEF Change
<1>3. MainKept /\ main'.pc = "put" /\ main'.cmd = main.cmd BY DEF Change, MainKept, IInv, Mind
<1>4. GoesOn BY <1>1, <1>2, <1>3 DEF GoesOn
<1>. QED BY <1>1, <1>2, <1>4, SameWorkers, GoesOnInv

LEMMA ChngpropInv ==
  ASSUME IInv, chngprop
  PROVE  IInv'
<1>1. Holding /\ ~Dead /\ main.pc = "do" /\ (T.fh # "" => T.fh \in DOMAIN handles) BY GrantedTo DEF chngprop
<1>2. \/ \E code : Errs(code)
      \/ \E n : Change(n)
      \/ /\ Crash /\ UNCHANGED <<handles, xfers, ctlpipe, conns, control, user>>
         /\ Reply("BUG") \/ UNCHANGED replies
  <2> DEFINE named == Has(1) /\ A.strings[1] # << >>
             n     == IF X.kind = "WRITE" THEN X.temp ELSE X.preal
             p     == Parse(A.strings[1], FALSE)
             lists == X.kind \in {"DIR", "PROPERTIES"}
             lost  == n = NoFile \/ Stat(disk, n) # "OK"
  <2>1. CASE T.fh # "" /\ (named \/ Fh.xfer = 0) BY <2>1 DEF chngprop
  <2>2. CASE T.fh # "" /\ ~named /\ Fh.xfer # 0
    <3>1. CASE lists BY <2>2, <3>1 DEF chngprop
    <3>2. CASE ~lists /\ lost BY <2>2, <3>2 DEF chngprop
    <3>3. CASE ~lists /\ ~lost
      <4>1. Change(n) BY <2>2, <3>3 DEF chngprop
      <4>. QED BY <4>1
    <3>. QED BY <3>1, <3>2, <3>3
  <2>3. CASE T.fh = ""
    <3>1. IF Named(p) # "none" THEN Errs(Named(p)) ELSE Change(p.real) BY <2>3 DEF chngprop
    <3> HIDE DEF p
    <3>. QED BY <3>1
  <2>. QED BY <2>1, <2>2, <2>3
<1>3. CASE \E code : Errs(code) BY <1>1, <1>3, ErrsInv
<1>4. CASE \E n : Change(n) BY <1>1, <1>4, ChangeInv
<1>5. CASE /\ Crash /\ UNCHANGED <<handles, xfers, ctlpipe, conns, control, user>>
           /\ Reply("BUG") \/ UNCHANGED replies
  <2>1. replies' = replies \/ Gives(T.tid) BY <1>5, RespondGives DEF Reply
  <2>. QED BY <1>1, <1>5, <2>1, CrashInv
<1>. QED BY <1>2, <1>3, <1>4, <1>5

(* What changing a property comes to.                                      *)
LEMMA PutpropIs ==
  ASSUME NEW p, NEW name, NEW value
  PROVE  \/ \E code : putprop(p, name, value) = Err(code)
         \/ \E n : putprop(p, name, value) = putname(p, n)
         \/ \E w : putprop(p, name, value) = putprot(p, w)
         \/ \E w : putprop(p, name, value) = putrdate(p, w)
         \/ \E w : putprop(p, name, value) = putmdate(p, w)
<1>1. CASE name \notin Settable
  <2>1. name \notin {"AUTHOR", "PROTECTION", "REFERENCE-DATE"} BY <1>1 DEF Settable
  <2>2. putprop(p, name, value) = Err(IF name \in Properties THEN "CSP" ELSE "UKP") BY <1>1, <2>1 DEF putprop
  <2>. QED BY <2>2
<1>2. CASE name = "AUTHOR" BY <1>2 DEF putprop, Settable
<1>3. CASE name = "PROTECTION" BY <1>3 DEF putprop, Settable
<1>4. CASE name = "REFERENCE-DATE" BY <1>4 DEF putprop, Settable
<1>5. CASE name \in Settable /\ name \notin {"AUTHOR", "PROTECTION", "REFERENCE-DATE"} BY <1>5 DEF putprop
<1>. QED BY <1>1, <1>2, <1>3, <1>4, <1>5

(* The message a change makes.                                             *)
LEMMA DateSaid ==
  ASSUME NEW p, NEW name, NEW value
  PROVE  putprop(p, name, value).date \in {"none", "mdatfh", "adatfh"}
<1>1. \A code : Err(code).date = "none" BY DEF Err
<1>2. \A g, date : Make(p, g, date).date \in {"none", date} BY <1>1 DEF Make
<1>3. \A n : putname(p, n).date = "none" BY <1>1 DEF putname, Nothing
<1>4. ASSUME NEW mode PROVE putprot(p, mode).date = "none"
  <2>1. CASE mode \notin DOMAIN PermOf BY <1>1, <2>1 DEF putprot
  <2>2. CASE mode \in DOMAIN PermOf /\ PermOf[mode] = p.was.perm BY <1>1, <2>2 DEF putprot, Nothing
  <2>3. CASE mode \in DOMAIN PermOf /\ PermOf[mode] # p.was.perm
    <3>1. putprot(p, mode) = Make(p, [File(disk, p.file) EXCEPT !.perm = PermOf[mode]], "none")
      BY <2>3 DEF putprot
    <3>. QED BY <1>2, <3>1
  <2>. QED BY <2>1, <2>2, <2>3
<1>5. ASSUME NEW time PROVE putmdate(p, time).date \in {"none", "mdatfh"}
  <2>1. CASE time \notin DOMAIN NumberOf BY <1>1, <2>1 DEF putmdate
  <2>2. CASE time \in DOMAIN NumberOf /\ NumberOf[time] = p.was.mtime BY <1>1, <2>2 DEF putmdate, Nothing
  <2>3. CASE time \in DOMAIN NumberOf /\ NumberOf[time] # p.was.mtime
    <3>1. \E g : putmdate(p, time) = Make(p, g, "mdatfh") BY <2>3, Zenon DEF putmdate
    <3>. QED BY <1>2, <3>1
  <2>. QED BY <2>1, <2>2, <2>3
<1>6. ASSUME NEW time PROVE putrdate(p, time).date \in {"none", "adatfh"}
  <2>1. CASE time \notin DOMAIN NumberOf BY <1>1, <2>1 DEF putrdate
  <2>2. CASE time \in DOMAIN NumberOf /\ NumberOf[time] = p.was.atime BY <1>1, <2>2 DEF putrdate, Nothing
  <2>3. CASE time \in DOMAIN NumberOf /\ NumberOf[time] # p.was.atime
    <3>1. \E g : putrdate(p, time) = Make(p, g, "adatfh") BY <2>3, Zenon DEF putrdate
    <3>. QED BY <1>2, <3>1
  <2>. QED BY <2>1, <2>2, <2>3
<1>7. \/ \E code : putprop(p, name, value) = Err(code)
      \/ \E n : putprop(p, name, value) = putname(p, n)
      \/ \E w : putprop(p, name, value) = putprot(p, w)
      \/ \E w : putprop(p, name, value) = putrdate(p, w)
      \/ \E w : putprop(p, name, value) = putmdate(p, w)
  BY PutpropIs
<1>. QED BY <1>1, <1>3, <1>4, <1>5, <1>6, <1>7

LEMMA NextPropInv ==
  ASSUME IInv, NextProp
  PROVE  IInv'
<1>1. main.pc = "put" /\ Holding /\ ~Dead BY DEF NextProp, Holding, Dead
<1>2. T.fh # "" => T.fh \in DOMAIN handles BY <1>1 DEF IInv, Mind, T
<1> DEFINE q == Head(A.plist)
           r == putprop(main.prop, Head(q.name), q.value)
           i == IF T.fh = "" THEN 0 ELSE Fh.xfer
           on == [main EXCEPT !.args.plist = Tail(@)]
           word == IF q.value = << >> THEN "" ELSE Head(q.value)
           m == Msg("XXXXX", r.date, NumberOf[word])
<1>3. CASE A.plist = << >>
  <2>1. Errs("OK") BY <1>3 DEF NextProp
  <2>. QED BY <1>1, <2>1, ErrsInv
<1>4. CASE A.plist # << >> /\ r.code # "none"
  <2>1. Errs(r.code) BY <1>4 DEF NextProp
  <2>. QED BY <1>1, <2>1, ErrsInv
<1>5. CASE A.plist # << >> /\ r.code = "none"
  <2>1. /\ IF r.date = "none" \/ i = 0 THEN main' = on /\ UNCHANGED xfers ELSE Tell(i, m, on)
        /\ UNCHANGED <<handles, ctlpipe, conns, control, replies, user>>
    BY <1>5 DEF NextProp
  <2>2. r.date \in {"none", "mdatfh", "adatfh"} BY DateSaid
  <2>3. m.cname = r.date /\ DOMAIN m = {"tid", "cname", "n"} BY DEF Msg
  <2>4. main' = on => GoesOn
    <3>1. main' = on => DOMAIN main' = DOMAIN main /\ main'.cmd = main.cmd /\ main'.pc = "put"
      BY <1>1 DEF IInv, Mind
    <3>. QED BY <1>1, <1>2, <2>1, <3>1 DEF GoesOn, MainKept
  <2> HIDE DEF m, r, on
  <2>5. CASE r.date = "none" \/ i = 0
    <3>1. main' = on /\ UNCHANGED xfers BY <2>1, <2>5
    <3>. QED BY <1>1, <2>1, <2>4, <3>1, SameWorkers, GoesOnInv
  <2>6. CASE r.date # "none" /\ i # 0
    <3>1. i \in DOMAIN xfers BY <1>2, <2>6, OnIt DEF IInv
    <3>2. Tell(i, m, on) BY <2>1, <2>6
    <3>3. MsgOK(m) /\ m.cname \in Silent BY <2>2, <2>3, <2>6 DEF MsgOK, Silent, Speaking, Opens
    <3> HIDE DEF i
    <3>4. CASE Live(i)
      <4>1. xfers' = [xfers EXCEPT ![i].pipe = Append(@, m)] /\ main' = on BY <3>2, <3>4 DEF Tell
      <4>. QED BY <1>1, <2>1, <2>4, <3>1, <3>3, <3>4, <4>1, QuietInv
    <3>5. CASE ~Live(i)
      <4>1. Crash /\ UNCHANGED xfers BY <3>2, <3>5 DEF Tell
      <4>. QED BY <1>1, <2>1, <4>1, CrashInv
    <3>. QED BY <3>4, <3>5
  <2>. QED BY <2>5, <2>6
<1>. QED BY <1>3, <1>4, <1>5

-----------------------------------------------------------------------------
(* The invariant. *)

LEMMA ControlInv ==
  ASSUME IInv, Control
  PROVE  IInv'
<1>1. CASE xcheck \/ xflush \/ Reap \/ ReadCommand BY <1>1, CheckInv, FlushInv, ReapInv, ReadInv
<1>2. CASE finish \/ Refused \/ SendSignal \/ xcommand BY <1>2, FinishCmdInv, SignalInv, XcommandInv
<1>3. CASE dataconn \/ undataconn \/ login BY <1>3, DataconnInv, UndataconnInv, LoginInv
<1>4. CASE fileopen \/ delete \/ xrename BY <1>4, FileopenInv, DeleteInv, RenameInv
<1>5. CASE complete \/ crdir \/ expunge BY <1>5, CompleteInv, CrdirInv
<1>6. CASE directory \/ getprops BY <1>6, DirectoryInv, GetpropsInv
<1>7. CASE chngprop \/ NextProp BY <1>7, ChngpropInv, NextPropInv
<1>. QED BY <1>1, <1>2, <1>3, <1>4, <1>5, <1>6, <1>7 DEF Control

LEMMA TransferInv ==
  ASSUME IInv, NEW i \in DOMAIN xfers, Transfer(i)
  PROVE  IInv'
<1>1. Fit(xfers[i]) /\ xfers[i].conn \in DOMAIN conns /\ Nets BY DEF IInv, Tables, Fitting
<1>2. PICK y : Steps(i, y) BY <1>1, TransferSteps
<1>. QED BY <1>2, StepsInv

LEMMA InitInv == Init => IInv
<1>. SUFFICES ASSUME Init PROVE IInv OBVIOUS
<1>1. PICK s \in 1 .. Len(Scripts) :
        /\ main = Fresh /\ handles = << >> /\ xfers = << >> /\ ctlpipe = << >>
        /\ conns = << >> /\ control = << >> /\ replies = << >>
        /\ user = [script |-> s, threads |-> Scripts[s].threads]
  BY DEF Init
<1>2. WellSaid(Scripts[s].threads) BY ScriptAssumption
<1>3. WellSaid(user.threads) /\ "threads" \in DOMAIN user BY <1>1, <1>2
<1>4. DOMAIN main = {"pc", "cmd", "args", "wait", "nprocdone", "lastnum", "home", "cwd", "victim", "prop"}
      /\ main.pc = "check"
  BY <1>1 DEF Fresh
<1>5. Mind /\ Looked BY <1>4 DEF Mind, Looked, Holding
<1>6. IsSeq(<< >>) /\ DOMAIN << >> = {} /\ Len(<< >>) = 0 BY NoneSeq
<1>7. /\ IsSeq(xfers) /\ IsSeq(ctlpipe) /\ IsSeq(conns) /\ IsSeq(control) /\ IsSeq(replies)
      /\ DOMAIN xfers = {} /\ DOMAIN ctlpipe = {} /\ DOMAIN conns = {} /\ DOMAIN control = {} /\ DOMAIN replies = {}
      /\ DOMAIN handles = {} /\ Len(replies) = 0
  BY <1>1, <1>6
<1>8. Heard BY <1>3, <1>7 DEF Heard
<1>9. Tables BY <1>7 DEF Tables, Handles, Fitting, Listed, Posted, Early, Nets
<1>10. Waiting = {} /\ InHand = {} /\ Kept = {} /\ Given = {}
  BY <1>4, <1>7 DEF Waiting, InHand, Holding, Kept, Given
<1>11. Piped = {} BY <1>7, InPipe DEF Asked
<1>12. Apart BY <1>10, <1>11 DEF Apart, Separate
<1>13. SaidOnce /\ AskedOnce /\ KeptOnce /\ ClosedLate /\ AnsweredOnce
  BY <1>7, <1>10, <1>11 DEF SaidOnce, AskedOnce, KeptOnce, ClosedLate, AnsweredOnce
<1>. QED BY <1>5, <1>8, <1>9, <1>12, <1>13 DEF IInv, Tokens

LEMMA SameInv ==
  ASSUME IInv, UNCHANGED vars
  PROVE  IInv'
<1>1. UNCHANGED <<main, handles, xfers, ctlpipe, conns, control, replies, user>> BY DEF vars
<1>2. Outside BY <1>1, SameNets DEF Outside
<1>3. Unsaid' = Unsaid /\ WellSaid(user.threads') /\ "threads" \in DOMAIN user'
  BY <1>1 DEF Unsaid, Sayings, IInv, Heard, WellSaid
<1>. QED BY <1>1, <1>2, <1>3, OutsideInv

-----------------------------------------------------------------------------
(***************************************************************************)
(* The types: what points at a handle, a transfer, a connection or a file  *)
(* points at one there is.  The buffers are sequences, a packet is not too *)
(* long, and the numbers are numbers.                                      *)
(***************************************************************************)
Body == {"ino", "pos", "pkt", "buf", "left", "state", "kind", "pipe"}
States == {"IDLE", "PROCESS", "REOF", "SEOF", "DONE", "DERROR", "BROKEN", "ABORT",
           "WSYNC", "RSYNC", "ERROR", "RETRY"}
Buffers(x) == IsSeq(x.buf) /\ IsSeq(x.left) /\ IsSeq(x.pkt) /\ Len(x.pkt) <= CHMAXDATA
OnFile(x, k) == x.ino \in {0} \cup DOMAIN k.files /\ (x.kind \in {"READ", "WRITE"} => x.ino # 0)
(* A position it is told is a number.                                      *)
Numbered(p) == \A n \in DOMAIN p : p[n].cname = "FILEPOS" => p[n].n \in Nat
Loaded(x, k) ==
  /\ Body \subseteq DOMAIN x /\ x.state \in States
  /\ OnFile(x, k) /\ x.pos \in Nat /\ Buffers(x) /\ Numbered(x.pipe)

Wire(c)  == c.in \in Seq(Packets) /\ "out" \in DOMAIN c /\ IsSeq(c.out) /\ Len(c.out) <= NetMax
Wires    == \A d \in DOMAIN conns : Wire(conns[d])
Whole    == \A i \in DOMAIN xfers : Loaded(xfers[i], disk)
Paired   ==
  \A h \in DOMAIN handles :
    /\ handles[h].other \in DOMAIN handles /\ handles[handles[h].other].other = h
    /\ handles[h].xfer # 0 => xfers[handles[h].xfer].listed /\ xfers[handles[h].xfer].fh = h
Counting ==
  /\ main.pc \in {"check", "reap", "read", "recheck", "rereap", "do", "put", "kill", "dead", "gone"}
  /\ main.lastnum \in 0 .. Len(Digit) /\ main.wait \in Int /\ main.nprocdone \in Nat
  /\ T.cname \in {"CLOSE", "FILEPOS", "CONTINUE"} => A.numbers["pos"] \in Nat
  /\ main.pc = "put" => T.cname = "CHANGE_PROPERTIES"
TInv == Counting /\ Paired /\ Whole /\ Wires /\ IsDisk(disk)

-----------------------------------------------------------------------------
(* Sequences that are made of others. *)

LEMMA SubSeqSeq ==
  ASSUME NEW s, NEW m \in Int, NEW n \in Int
  PROVE  IsSeq(SubSeq(s, m, n)) /\ Len(SubSeq(s, m, n)) = IF m <= n THEN n - m + 1 ELSE 0
<1> DEFINE S == {s[i] : i \in m .. n}
<1>1. \A i \in m .. n : s[i] \in S OBVIOUS
<1> HIDE DEF S
<1>2. SubSeq(s, m, n) \in Seq(S) /\ Len(SubSeq(s, m, n)) = IF m <= n THEN n - m + 1 ELSE 0
  BY <1>1, SubSeqProperties
<1>. QED BY <1>2, SomeSeq, Zenon

LEMMA ConcatSeq ==
  ASSUME NEW s, IsSeq(s), NEW t, IsSeq(t)
  PROVE  IsSeq(s \o t) /\ Len(s \o t) = Len(s) + Len(t)
<1> DEFINE S == Range(s) \cup Range(t)
<1>1. s \in Seq(Range(s)) /\ t \in Seq(Range(t)) BY DEF IsSeq
<1>2. s \in Seq(S) /\ t \in Seq(S) BY <1>1, SeqMonotonic, Zenon
<1> HIDE DEF S
<1>3. s \o t \in Seq(S) /\ Len(s \o t) = Len(s) + Len(t) BY <1>2, ConcatProperties
<1>. QED BY <1>3, SomeSeq, Zenon

LEMMA MadeSeq ==
  ASSUME NEW n \in Nat, NEW t, DOMAIN t = 1 .. n, t = [i \in 1 .. n |-> t[i]]
  PROVE  IsSeq(t) /\ Len(t) = n
<1>1. t \in [1 .. n -> Range(t)] BY Zenon DEF Range
<1>2. t \in Seq(Range(t)) BY <1>1, SeqDef
<1>3. IsSeq(t) BY <1>2 DEF IsSeq
<1>4. DOMAIN t = 1 .. Len(t) /\ Len(t) \in Nat BY <1>3, SeqDomain, Zenon
<1>. QED BY <1>3, <1>4

(* What is converted.                                                      *)
LEMMA OutwardSeq ==
  ASSUME NEW x, NEW s, IsSeq(s)
  PROVE  IsSeq(Outward(x, s)) /\ Len(Outward(x, s)) = IF Mode(x) = "bytes" THEN 2 * Len(s) ELSE Len(s)
<1>1. PICK n, m : n = Len(s) /\ m = Mode(x) OBVIOUS
<1>2. n \in Nat BY <1>1, SeqDomain
<1>3. CASE m = "lispm"
  <2> DEFINE t == [i \in 1 .. n |-> ToLispm(s[i])]
  <2>1. Outward(x, s) = t BY <1>1, <1>3 DEF Outward
  <2>2. IsSeq(t) /\ Len(t) = n BY <1>2, MadeSeq
  <2>. QED BY <1>1, <1>3, <2>1, <2>2
<1>4. CASE m = "bytes"
  <2> DEFINE e(i) == IF i % 2 = 1 THEN s[(i + 1) \div 2] ELSE 0
             t == [i \in 1 .. 2 * n |-> e(i)]
  <2>1. Outward(x, s) = t BY <1>1, <1>4 DEF Outward
  <2>2. IsSeq(t) /\ Len(t) = 2 * n
    <3>1. 2 * n \in Nat BY <1>2
    <3> HIDE DEF e
    <3>2. DOMAIN t = 1 .. 2 * n /\ t = [i \in 1 .. 2 * n |-> t[i]] OBVIOUS
    <3>. QED BY <3>1, <3>2, MadeSeq
  <2>. QED BY <1>1, <1>4, <2>1, <2>2
<1>5. CASE m \notin {"lispm", "bytes"} BY <1>1, <1>5 DEF Outward
<1>. QED BY <1>3, <1>4, <1>5

LEMMA InwardSeq ==
  ASSUME NEW x, NEW s, IsSeq(s)
  PROVE  IsSeq(Inward(x, s))
<1>1. PICK n, m : n = Len(s) /\ m = Mode(x) OBVIOUS
<1>2. n \in Nat BY <1>1, SeqDomain
<1>3. CASE m = "lispm"
  <2> DEFINE t == [i \in 1 .. n |-> FromLispm(s[i])]
  <2>1. Inward(x, s) = t BY <1>1, <1>3 DEF Inward
  <2>2. IsSeq(t) BY <1>2, MadeSeq
  <2>. QED BY <2>1, <2>2
<1>4. CASE m = "bytes"
  <2> DEFINE t == [i \in 1 .. n \div 2 |-> s[2 * i - 1]]
  <2>1. Inward(x, s) = t BY <1>1, <1>4 DEF Inward
  <2>2. n \div 2 \in Nat BY <1>2
  <2>3. DOMAIN t = 1 .. n \div 2 /\ t = [i \in 1 .. n \div 2 |-> t[i]] OBVIOUS
  <2>4. IsSeq(t) BY <2>2, <2>3, MadeSeq
  <2>. QED BY <2>1, <2>4
<1>5. CASE m \notin {"lispm", "bytes"} BY <1>1, <1>5 DEF Inward
<1>. QED BY <1>3, <1>4, <1>5

LEMMA OneSeq == ASSUME NEW e PROVE IsSeq(<<e>>) /\ Len(<<e>>) = 1
<1>1. <<e>> \in Seq({e}) OBVIOUS
<1>. QED BY <1>1, SomeSeq

-----------------------------------------------------------------------------
(* The disk after a call: the files there were are still counted. *)
Grows(k, l) == IsDisk(l) /\ DOMAIN k.files \subseteq DOMAIN l.files
Filed(f)    == "data" \in DOMAIN f /\ IsSeq(f.data)

LEMMA FoundThere ==
  ASSUME NEW k, NEW n
  PROVE  /\ Stat(k, n) = "OK" => n \in Names(k)
         /\ \A perm : Access(k, n, perm) = "OK" => n \in Names(k)
         /\ \A perm : OpenFile(k, n, perm) = "OK" => n \in Names(k)
<1>1. \A i : Obstacle(k, n, i) # "OK" BY DEF Obstacle
<1>2. Search(k, n) # "OK" BY <1>1 DEF Search
<1>3. Stat(k, n) = "OK" => n \in Names(k) BY <1>2 DEF Stat, Reached
<1>4. \A perm : Access(k, n, perm) = "OK" => Stat(k, n) = "OK" BY DEF Access, Allowed
<1>. QED BY <1>3, <1>4 DEF OpenFile

LEMMA AddEntryGrows ==
  ASSUME NEW k, IsDisk(k), NEW n, NEW i \in DOMAIN k.files
  PROVE  Grows(k, AddEntry(k, n, i))
<1> DEFINE p == [m \in Names(k) \cup {n} |-> IF m = n THEN i ELSE k.names[m]]
           l == [k EXCEPT !.names = p]
<1>1. AddEntry(k, n, i) = l BY DEF AddEntry
<1>2. DOMAIN p = Names(k) \cup {n} /\ \A m \in DOMAIN p : p[m] \in DOMAIN k.files BY DEF IsDisk
<1> HIDE DEF p
<1>3. DOMAIN l = DOMAIN k /\ l.names = p /\ l.files = k.files BY DEF IsDisk
<1> HIDE DEF l
<1>4. Grows(k, l) BY <1>2, <1>3 DEF Grows, IsDisk, Names
<1>. QED BY <1>1, <1>4

LEMMA DropEntryGrows ==
  ASSUME NEW k, IsDisk(k), NEW n
  PROVE  Grows(k, DropEntry(k, n))
<1> DEFINE p == [m \in Names(k) \ {n} |-> k.names[m]]
           l == [k EXCEPT !.names = p]
<1>1. DropEntry(k, n) = l BY DEF DropEntry
<1>2. DOMAIN p \subseteq Names(k) /\ \A m \in DOMAIN p : p[m] \in DOMAIN k.files BY DEF IsDisk
<1> HIDE DEF p
<1>3. DOMAIN l = DOMAIN k /\ l.names = p /\ l.files = k.files BY DEF IsDisk
<1> HIDE DEF l
<1>4. Grows(k, l) BY <1>2, <1>3 DEF Grows, IsDisk, Names
<1>. QED BY <1>1, <1>4

LEMMA AddFileGrows ==
  ASSUME NEW k, IsDisk(k), NEW n, NEW f, Filed(f), NEW l, l = AddFile(k, n, f)
  PROVE  Grows(k, l) /\ l.names[n] \in DOMAIN l.files
<1>1. PICK s, q : s = k.files /\ q = Append(s, f) OBVIOUS
<1>2. IsSeq(s) BY <1>1 DEF IsDisk
<1>3. /\ IsSeq(q) /\ DOMAIN q = 1 .. (Len(s) + 1) /\ q[Len(s) + 1] = f /\ \A j \in DOMAIN s : q[j] = s[j]
      /\ DOMAIN s = 1 .. Len(s) /\ Len(s) \in Nat
  <2>1. DOMAIN s = 1 .. Len(s) /\ Len(s) \in Nat BY <1>2, SeqDomain
  <2>2. q = Append(s, f) BY <1>1
  <2>. QED BY <1>2, <2>1, <2>2, AppendSeq
<1>4. DOMAIN q = DOMAIN s \cup {Len(s) + 1} BY <1>3
<1>5. PICK m : m = [k EXCEPT !.files = q] OBVIOUS
<1>6. DOMAIN m = DOMAIN k /\ m.files = q /\ m.names = k.names BY <1>5 DEF IsDisk
<1>7. IsDisk(m)
  <2>1. ASSUME NEW j \in DOMAIN q PROVE Filed(q[j])
    BY <1>1, <1>3, <1>4 DEF IsDisk, Filed
  <2>. QED BY <1>1, <1>3, <1>4, <1>6, <2>1 DEF IsDisk, Filed, Names
<1>8. l = AddEntry(m, n, Len(s) + 1) BY <1>1, <1>5 DEF AddFile
<1>9. Len(s) + 1 \in DOMAIN m.files BY <1>4, <1>6
<1>10. Grows(m, l) BY <1>7, <1>8, <1>9, AddEntryGrows
<1>11. l.names[n] = Len(s) + 1
  <2>1. "names" \in DOMAIN m BY <1>7 DEF IsDisk
  <2>. QED BY <1>8, <2>1 DEF AddEntry
<1>. QED BY <1>1, <1>4, <1>6, <1>9, <1>10, <1>11 DEF Grows

(* One file changed.                                                       *)
LEMMA FilePut ==
  ASSUME NEW k, IsDisk(k), NEW i \in DOMAIN k.files, NEW g, Filed(g), NEW l, l = [k EXCEPT !.files[i] = g]
  PROVE  Grows(k, l) /\ l.names = k.names
<1>1. PICK s, q : s = k.files /\ q = [s EXCEPT ![i] = g] OBVIOUS
<1>2. IsSeq(s) /\ i \in DOMAIN s BY <1>1 DEF IsDisk
<1>3. IsSeq(q) /\ DOMAIN q = DOMAIN s /\ q[i] = g /\ \A j \in DOMAIN s : j # i => q[j] = s[j]
  BY <1>1, <1>2, ExceptSeqs
<1>4. l = [k EXCEPT !.files = q] BY <1>1
<1>5. DOMAIN l = DOMAIN k /\ l.files = q /\ l.names = k.names BY <1>4 DEF IsDisk
<1>6. \A j \in DOMAIN q : Filed(q[j]) BY <1>1, <1>3 DEF IsDisk, Filed
<1>. QED BY <1>1, <1>3, <1>5, <1>6 DEF Grows, IsDisk, Names, Filed

LEMMA SetDataGrows ==
  ASSUME NEW k, IsDisk(k), NEW i \in DOMAIN k.files, NEW d, IsSeq(d)
  PROVE  Grows(k, SetData(k, i, d)) /\ SetData(k, i, d).names = k.names
<1>1. PICK f, g : f = k.files[i] /\ g = [f EXCEPT !.data = d] OBVIOUS
<1>2. DOMAIN g = DOMAIN f /\ g.data = d BY <1>1 DEF IsDisk
<1>3. Filed(g) BY <1>1, <1>2 DEF IsDisk, Filed
<1>4. SetData(k, i, d) = [k EXCEPT !.files[i] = g] BY <1>1 DEF SetData
<1>. QED BY <1>3, <1>4, FilePut

LEMMA SelfGrows == ASSUME NEW k, IsDisk(k) PROVE Grows(k, k)
<1>. QED BY DEF Grows

LEMMA FailsGrows == ASSUME NEW k, IsDisk(k), NEW err PROVE Grows(k, Fails(k, err).disk)
<1>. QED BY SelfGrows DEF Fails

LEMMA LinkGrows ==
  ASSUME NEW k, IsDisk(k), NEW from, NEW to
  PROVE  Grows(k, Link(k, from, to).disk)
<1> DEFINE l == AddEntry(k, to, k.names[from])
<1>1. \/ \E err : Link(k, from, to) = Fails(k, err)
      \/ Stat(k, from) = "OK" /\ Link(k, from, to) = Done(l)
  BY DEF Link
<1>2. CASE Stat(k, from) = "OK" /\ Link(k, from, to) = Done(l)
  <2>1. k.names[from] \in DOMAIN k.files BY <1>2, FoundThere DEF IsDisk
  <2>2. Grows(k, l) BY <2>1, AddEntryGrows
  <2>. QED BY <1>2, <2>2 DEF Done
<1>. QED BY <1>1, <1>2, FailsGrows

LEMMA UnlinkGrows ==
  ASSUME NEW k, IsDisk(k), NEW n
  PROVE  Grows(k, Unlink(k, n).disk)
<1>1. (\E err : Unlink(k, n) = Fails(k, err)) \/ Unlink(k, n) = Done(DropEntry(k, n)) BY DEF Unlink
<1>2. Done(DropEntry(k, n)).disk = DropEntry(k, n) BY DEF Done
<1>. QED BY <1>1, <1>2, DropEntryGrows, FailsGrows

LEMMA RmdirGrows ==
  ASSUME NEW k, IsDisk(k), NEW n
  PROVE  Grows(k, Rmdir(k, n).disk)
<1>1. (\E err : Rmdir(k, n) = Fails(k, err)) \/ Rmdir(k, n) = Done(DropEntry(k, n)) BY DEF Rmdir
<1>2. Done(DropEntry(k, n)).disk = DropEntry(k, n) BY DEF Done
<1>. QED BY <1>1, <1>2, DropEntryGrows, FailsGrows

LEMMA NewFiled == \A dir, perm, date : Filed(NewFile(dir, perm, << >>, date))
<1>. QED BY NoneSeq DEF Filed, NewFile

LEMMA MkdirGrows ==
  ASSUME NEW k, IsDisk(k), NEW n, NEW date
  PROVE  Grows(k, Mkdir(k, n, date).disk)
<1> DEFINE f == NewFile(TRUE, {"r", "w", "x"}, << >>, date)
           l == AddFile(k, n, f)
<1>1. (\E err : Mkdir(k, n, date) = Fails(k, err)) \/ Mkdir(k, n, date) = Done(l) BY DEF Mkdir
<1>2. Grows(k, l)
  <2>1. Filed(f) BY NewFiled
  <2> HIDE DEF f
  <2>. QED BY <2>1, AddFileGrows
<1>3. Done(l).disk = l BY DEF Done
<1>. QED BY <1>1, <1>2, <1>3, FailsGrows

LEMMA CreatGrows ==
  ASSUME NEW k, IsDisk(k), NEW n, NEW date, NEW r, r = Creat(k, n, date)
  PROVE  Grows(k, r.disk) /\ (r.err = "OK" => r.disk.names[n] \in DOMAIN r.disk.files)
<1> DEFINE f == NewFile(FALSE, {"r", "w"}, << >>, date)
           l == AddFile(k, n, f)
           c == SetData(k, k.names[n], << >>)
<1>1. \/ \E err : err # "OK" /\ r = Fails(k, err)
      \/ n \in Names(k) /\ r = Done(c)
      \/ r = Done(l)
  <2>1. CASE Search(k, n) # "none"
    <3>1. \A i : Obstacle(k, n, i) # "OK" BY DEF Obstacle
    <3>2. Search(k, n) # "OK" BY <3>1 DEF Search
    <3>. QED BY <2>1, <3>2 DEF Creat
  <2>2. CASE Search(k, n) = "none" /\ n \in Names(k)
    <3>1. r = Emptied(k, n, OpenFile(k, n, {"w"})) BY <2>2 DEF Creat
    <3>. QED BY <2>2, <3>1 DEF Emptied
  <2>3. CASE Search(k, n) = "none" /\ n \notin Names(k) BY <2>3 DEF Creat
  <2>. QED BY <2>1, <2>2, <2>3
<1>2. CASE \E err : err # "OK" /\ r = Fails(k, err)
  <2>1. r.err # "OK" BY <1>2 DEF Fails
  <2>. QED BY <1>2, <2>1, FailsGrows
<1>3. CASE n \in Names(k) /\ r = Done(c)
  <2>1. k.names[n] \in DOMAIN k.files BY <1>3 DEF IsDisk
  <2>2. Grows(k, c) /\ c.names = k.names BY <2>1, NoneSeq, SetDataGrows
  <2>3. r.disk = c BY <1>3 DEF Done
  <2> HIDE DEF c
  <2>. QED BY <2>1, <2>2, <2>3 DEF Grows
<1>4. CASE r = Done(l)
  <2>1. Filed(f) BY NewFiled
  <2>2. r.disk = l BY <1>4 DEF Done
  <2> HIDE DEF f
  <2>3. Grows(k, l) /\ l.names[n] \in DOMAIN l.files BY <2>1, AddFileGrows
  <2>. QED BY <2>2, <2>3
<1>. QED BY <1>1, <1>2, <1>3, <1>4

-----------------------------------------------------------------------------
(* The types after a step of a transfer. *)
Ready(i) == TInv /\ i \in DOMAIN xfers /\ Fit(xfers[i]) /\ xfers[i].conn \in DOMAIN conns /\ Nets
Moves(i) ==
  \E y : xfers' = [xfers EXCEPT ![i] = y] /\ Loaded(y, disk') /\ Grows(disk, disk') /\ Wires'

(* The transfer holds what it held.                                        *)
Light(x, y) ==
  /\ Body \subseteq DOMAIN y /\ y.state \in States /\ y.kind = x.kind /\ y.pipe = x.pipe
  /\ y.ino = x.ino /\ y.pos = x.pos /\ y.buf = x.buf /\ y.left = x.left /\ y.pkt = x.pkt

LEMMA LightLoaded ==
  ASSUME NEW k, NEW x, Loaded(x, k), NEW y, Light(x, y)
  PROVE  Loaded(y, k)
<1>. QED BY DEF Loaded, Light, OnFile, Buffers

LEMMA LoadedGrown ==
  ASSUME NEW k, NEW l, Grows(k, l), NEW x, Loaded(x, k)
  PROVE  Loaded(x, l)
<1>. QED BY DEF Loaded, OnFile, Grows

LEMMA ReadyIs ==
  ASSUME NEW i, Ready(i)
  PROVE  Loaded(xfers[i], disk) /\ IsDisk(disk) /\ Wires
<1>. QED BY DEF Ready, TInv, Whole

LEMMA LoadedMoves ==
  ASSUME NEW i, Ready(i), NEW y, Becomes(i, y), Loaded(y, disk), Grows(disk, disk'), Wires'
  PROVE  Moves(i)
<1>. QED BY LoadedGrown DEF Moves, Becomes

LEMMA HereMoves ==
  ASSUME NEW i, Ready(i), NEW y, Becomes(i, y), Loaded(y, disk), UNCHANGED <<conns, disk>>
  PROVE  Moves(i)
<1>1. Grows(disk, disk') BY ReadyIs, SelfGrows
<1>2. Wires' BY ReadyIs DEF Wires
<1>. QED BY <1>1, <1>2, LoadedMoves

LEMMA LightMoves ==
  ASSUME NEW i, Ready(i), NEW y, Becomes(i, y), Light(xfers[i], y), UNCHANGED <<conns, disk>>
  PROVE  Moves(i)
<1>1. Loaded(y, disk) BY ReadyIs, LightLoaded
<1>. QED BY <1>1, HereMoves

LEMMA DiskMoves ==
  ASSUME NEW i, Ready(i), NEW y, Becomes(i, y), Light(xfers[i], y), Grows(disk, disk'), UNCHANGED conns
  PROVE  Moves(i)
<1>1. Loaded(y, disk) BY ReadyIs, LightLoaded
<1>2. Wires' BY ReadyIs DEF Wires
<1>. QED BY <1>1, <1>2, LoadedMoves

(* A packet on a connection with room for it.                              *)
LEMMA SendWires ==
  ASSUME Wires, Nets, NEW x, x.conn \in DOMAIN conns, NetRoom(x), NEW op, NEW data, Send(x, op, data)
  PROVE  Wires'
<1>1. PICK d, c, s, p : d = x.conn /\ c = conns[d] /\ s = c.out /\ p = Append(s, [op |-> op, data |-> data]) OBVIOUS
<1>2. Wire(c) /\ Len(s) < NetMax /\ {"in", "out", "up"} \subseteq DOMAIN c
  BY <1>1 DEF Wires, NetRoom, Nets
<1>3. IsSeq(s) /\ Len(s) \in Nat BY <1>1, <1>2, SeqDomain DEF Wire
<1>4. IsSeq(p) /\ Len(p) = Len(s) + 1 BY <1>1, <1>3, AppendSeq
<1>5. conns' = [conns EXCEPT ![d].out = p] BY <1>1 DEF Send
<1>6. DOMAIN conns' = DOMAIN conns /\ \A e \in DOMAIN conns : e # d => conns'[e] = conns[e] BY <1>5
<1>7. conns'[d] = [c EXCEPT !.out = p] BY <1>1, <1>5
<1>8. conns'[d].in = c.in /\ conns'[d].out = p /\ "out" \in DOMAIN conns'[d] BY <1>2, <1>7
<1>9. Wire(conns'[d])
  <2>1. Len(p) <= NetMax BY <1>2, <1>3, <1>4, FileAssumption
  <2>. QED BY <1>2, <1>4, <1>8, <2>1 DEF Wire
<1>. QED BY <1>6, <1>9 DEF Wires

LEMMA WriteMoves ==
  ASSUME NEW i, Ready(i), NEW op, NEW data, NEW sent, NEW failed, Write(i, op, data, sent, failed),
         Loaded(sent, disk), Loaded(failed, disk)
  PROVE  Moves(i)
<1>1. CASE Up(xfers[i]) /\ NetRoom(xfers[i]) /\ Send(xfers[i], op, data) /\ Becomes(i, sent) /\ OnNet
  <2>1. Wires' BY <1>1, ReadyIs, SendWires DEF Ready
  <2>2. Grows(disk, disk') BY <1>1, ReadyIs, SelfGrows DEF OnNet
  <2>. QED BY <1>1, <2>1, <2>2, LoadedMoves
<1>2. CASE ~Up(xfers[i]) /\ Becomes(i, failed) /\ Alone BY <1>2, HereMoves DEF Alone
<1>. QED BY <1>1, <1>2 DEF Write

(***************************************************************************)
(* Each step of a transfer: the ones that move no data.                    *)
(***************************************************************************)
LEMMA AloneMoves ==
  ASSUME NEW i, Ready(i), NEW y, Becomes(i, y), Light(xfers[i], y), Alone
  PROVE  Moves(i)
<1>. QED BY LightMoves DEF Alone

LEMMA MoveLoop ==
  ASSUME NEW i, Ready(i), interrupt(i) \/ Top(i) \/ Hang(i)
  PROVE  Moves(i)
<1> DEFINE x == xfers[i]
           z == [x EXCEPT !.sig = FALSE, !.pc = "top", !.masked = ~MaskRestored, !.spoiled = @ \/ Midway(x)]
           y1 == IF x.pipe = << >> THEN [x EXCEPT !.sig = FALSE] ELSE z
           y2 == IF "CLOSE" \in x.flags THEN [x EXCEPT !.pc = "work"]
                 ELSE IF x.pipe = << >> THEN [Handled(x) EXCEPT !.pc = "work"]
                 ELSE [Deaf(x) EXCEPT !.pc = "cmd"]
           y3 == [Deaf(x) EXCEPT !.pc = "cmd"]
<1>1. (Becomes(i, y1) \/ Becomes(i, y2) \/ Becomes(i, y3)) /\ Alone
  BY DEF interrupt, Top, Hang
<1>2. Loaded(x, disk) BY ReadyIs
<1> HIDE DEF x
<1>3. Light(x, y1) BY <1>2 DEF Light, Loaded, Body
<1>4. Light(x, y2) BY <1>2 DEF Light, Loaded, Body, Handled, Deaf
<1>5. Light(x, y3) BY <1>2 DEF Light, Loaded, Body, Deaf
<1> HIDE DEF y1, y2, y3
<1>. QED BY <1>1, <1>3, <1>4, <1>5, AloneMoves DEF x

LEMMA MoveReadWork ==
  ASSUME NEW i, Ready(i), ReadWork(i)
  PROVE  Moves(i)
<1> DEFINE x == xfers[i]
           y == CASE x.state = "DERROR"                     -> Exit(x)
                  [] x.state = "DONE"                       -> [x EXCEPT !.pc = "close"]
                  [] x.state = "REOF"                       -> [x EXCEPT !.pc = "eof"]
                  [] x.state \in {"BROKEN", "ABORT", "SEOF", "IDLE"} -> [x EXCEPT !.pc = "hang"]
<1>1. Fit(x) /\ x.pc = "work" /\ Reading(x) /\ x.state # "PROCESS" BY DEF ReadWork, Ready
<1>2. Becomes(i, y) /\ Alone BY DEF ReadWork
<1>3. Loaded(x, disk) BY ReadyIs
<1> HIDE DEF x
<1>4. x.state \in {"DERROR", "DONE", "REOF", "BROKEN", "ABORT", "SEOF", "IDLE"}
  BY <1>1 DEF Fit, Place, ReadingPcs, ClosingPcs
<1>5. Light(x, y) BY <1>3, <1>4 DEF Light, Loaded, Body, Exit
<1> HIDE DEF y
<1>. QED BY <1>2, <1>5, AloneMoves DEF x

LEMMA MoveWriteWork ==
  ASSUME NEW i, Ready(i), WriteWork(i)
  PROVE  Moves(i)
<1> DEFINE x == xfers[i]
           y == CASE x.state = "DONE"                         -> [x EXCEPT !.pc = "close"]
                  [] x.state \in {"BROKEN", "RSYNC", "ERROR"} -> [x EXCEPT !.pc = "hang"]
                  [] x.state \in {"WSYNC", "PROCESS"}         -> [x EXCEPT !.pc = "read"]
                  [] x.state = "RETRY"                        -> [x EXCEPT !.pc = "retry"]
<1>1. Fit(x) /\ x.pc = "work" /\ ~Reading(x) BY DEF WriteWork, Ready
<1>2. Becomes(i, y) /\ Alone BY DEF WriteWork
<1>3. Loaded(x, disk) BY ReadyIs
<1> HIDE DEF x
<1>4. x.state \in {"DONE", "BROKEN", "RSYNC", "ERROR", "WSYNC", "PROCESS", "RETRY"}
  BY <1>1 DEF Fit, Place, WritingPcs, ClosingPcs
<1>5. Light(x, y) BY <1>3, <1>4 DEF Light, Loaded, Body
<1> HIDE DEF y
<1>. QED BY <1>2, <1>5, AloneMoves DEF x

LEMMA MoveEnds ==
  ASSUME NEW i, Ready(i), PipeBroken(i) \/ DirFailed(i) \/ Close(i)
  PROVE  Moves(i)
<1> DEFINE x == xfers[i]
           y1 == [x EXCEPT !.pc = "top"]
           y2 == [x EXCEPT !.pc = IF Superseding(x) THEN "link" ELSE "answer"]
<1>1. /\ Becomes(i, Exit(x)) \/ Becomes(i, y1) \/ Becomes(i, y2)
      /\ UNCHANGED <<conns, disk>>
  BY DEF PipeBroken, DirFailed, Close, Fatal, Announce
<1>2. Loaded(x, disk) BY ReadyIs
<1> HIDE DEF x
<1>3. Light(x, Exit(x)) BY <1>2 DEF Light, Loaded, Body, Exit
<1>4. Light(x, y1) /\ Light(x, y2) BY <1>2 DEF Light, Loaded, Body
<1> HIDE DEF y1, y2
<1>. QED BY <1>1, <1>3, <1>4, LightMoves DEF x

(* What is written to the net.                                             *)
LEMMA MovePosMark ==
  ASSUME NEW i, Ready(i), PosMark(i)
  PROVE  Moves(i)
<1> DEFINE x == xfers[i]
           y == [x EXCEPT !.pc = "top", !.base = x.pos]
<1>1. \/ Up(x) /\ NetRoom(x) /\ Send(x, "SYN", << >>) /\ Becomes(i, y) /\ OnNet
      \/ Becomes(i, Exit(x)) /\ UNCHANGED <<conns, disk>>
  BY DEF PosMark, Fatal
<1>2. Loaded(x, disk) BY ReadyIs
<1>3. Light(x, y) /\ Light(x, Exit(x))
  <2> HIDE DEF x
  <2>. QED BY <1>2 DEF Light, Loaded, Body, Exit
<1>4. Loaded(y, disk) BY <1>2, <1>3, LightLoaded
<1> HIDE DEF y
<1>5. CASE Up(x) /\ NetRoom(x) /\ Send(x, "SYN", << >>) /\ Becomes(i, y) /\ OnNet
  <2>1. Wires' BY <1>5, ReadyIs, SendWires DEF Ready
  <2>2. Grows(disk, disk') BY <1>5, ReadyIs, SelfGrows DEF OnNet
  <2>. QED BY <1>4, <1>5, <2>1, <2>2, LoadedMoves
<1>. QED BY <1>1, <1>3, <1>5, LightMoves

LEMMA MoveSends ==
  ASSUME NEW i, Ready(i), SendFull(i) \/ SendEof(i) \/ SendBad(i) \/ SyncMark(i)
  PROVE  Moves(i)
<1> DEFINE x == xfers[i]
           sent == [x EXCEPT !.pc = "sent"]
           eof  == [x EXCEPT !.state = "SEOF", !.pc = "top"]
           bad  == [x EXCEPT !.state = "ABORT", !.pc = "top"]
           failed == [x EXCEPT !.state = "BROKEN", !.pc = "top"]
<1>1. \E op, data : \/ Write(i, op, data, sent, failed) \/ Write(i, op, data, eof, failed)
                    \/ Write(i, op, data, bad, failed) \/ Write(i, op, data, Exit(x), Exit(x))
  BY DEF SendFull, SendEof, SendBad, SyncMark
<1>2. Loaded(x, disk) BY ReadyIs
<1>3. Light(x, sent) /\ Light(x, eof) /\ Light(x, bad) /\ Light(x, failed) /\ Light(x, Exit(x))
  <2> HIDE DEF x
  <2>. QED BY <1>2 DEF Light, Loaded, Body, Exit, States
<1>4. Loaded(sent, disk) /\ Loaded(eof, disk) /\ Loaded(bad, disk) /\ Loaded(failed, disk) /\ Loaded(Exit(x), disk)
  BY <1>2, <1>3, LightLoaded
<1> HIDE DEF sent, eof, bad, failed
<1>. QED BY <1>1, <1>4, WriteMoves

LEMMA MoveSendLast ==
  ASSUME NEW i, Ready(i), SendLast(i)
  PROVE  Moves(i)
<1> DEFINE x == xfers[i]
           done == [x EXCEPT !.state = "REOF", !.pc = "top"]
           sent == [done EXCEPT !.pkt = << >>]
           failed == [x EXCEPT !.state = "BROKEN", !.pc = "top"]
<1>1. (Becomes(i, done) /\ Alone) \/ Write(i, Op(x), x.pkt, sent, failed) BY DEF SendLast
<1>2. Loaded(x, disk) BY ReadyIs
<1>3. Light(x, done) /\ Light(x, failed)
  <2> HIDE DEF x
  <2>. QED BY <1>2 DEF Light, Loaded, Body, States
<1>4. Loaded(done, disk) /\ Loaded(failed, disk) BY <1>2, <1>3, LightLoaded
<1>5. Loaded(sent, disk)
  <2>1. Body \subseteq DOMAIN done BY <1>4 DEF Loaded
  <2> HIDE DEF done
  <2>2. /\ Body \subseteq DOMAIN sent /\ sent.state = done.state /\ sent.kind = done.kind /\ sent.pipe = done.pipe
        /\ sent.ino = done.ino /\ sent.pos = done.pos /\ sent.buf = done.buf /\ sent.left = done.left
        /\ sent.pkt = << >>
    BY <2>1 DEF Body
  <2> HIDE DEF sent
  <2>3. Buffers(sent) BY <1>4, <2>2, NoneSeq, FileAssumption DEF Loaded, Buffers
  <2>. QED BY <1>4, <2>2, <2>3 DEF Loaded, OnFile
<1> HIDE DEF done, sent, failed
<1>. QED BY <1>1, <1>3, <1>4, <1>5, WriteMoves, AloneMoves

(* What is done to the names and the dates.                                *)
LEMMA CallMoves ==
  ASSUME NEW i, Ready(i), NEW pc, NEW k, NEW y, Call(i, pc, k, y), Grows(disk, k), Light(xfers[i], y)
  PROVE  Moves(i)
<1>. QED BY DiskMoves DEF Call, OnDisk

LEMMA MoveNames ==
  ASSUME NEW i, Ready(i),
         LinkTemp(i) \/ BackUnlink(i) \/ BackLink(i) \/ UnlinkReal(i) \/ Relink(i) \/ UnlinkTemp(i)
  PROVE  Moves(i)
<1> DEFINE x == xfers[i]
           OneOf(k) == \/ \E from, to : k = Link(disk, from, to).disk
                       \/ \E n : k = Unlink(disk, n).disk
           Other(y) == (\E pc : y = To(x, pc)) \/ y = [x EXCEPT !.err = "MSC", !.pc = "answer"]
<1>1. \E pc, k, y : Call(i, pc, k, y) /\ OneOf(k) /\ Other(y)
  <2>1. CASE LinkTemp(i)
    <3>1. \E y : Call(i, "link", Link(disk, x.temp, x.real).disk, y) /\ Other(y) BY <2>1 DEF LinkTemp
    <3>. QED BY <3>1
  <2>2. CASE Relink(i)
    <3>1. \E y : Call(i, "relink", Link(disk, x.temp, x.real).disk, y) /\ Other(y) BY <2>2 DEF Relink
    <3>. QED BY <3>1
  <2>3. CASE BackLink(i)
    <3>1. \E y : Call(i, "back2", Link(disk, x.real, Backup(x.real)).disk, y) /\ Other(y) BY <2>3 DEF BackLink
    <3>. QED BY <3>1
  <2>4. CASE BackUnlink(i)
    <3>1. Call(i, "back1", Unlink(disk, Backup(x.real)).disk, To(x, "back2")) BY <2>4 DEF BackUnlink
    <3>. QED BY <3>1
  <2>5. CASE UnlinkReal(i)
    <3>1. Call(i, "back3", Unlink(disk, x.real).disk, To(x, "relink")) BY <2>5 DEF UnlinkReal
    <3>. QED BY <3>1
  <2>6. CASE UnlinkTemp(i)
    <3>1. Call(i, "unlinktemp", Unlink(disk, x.temp).disk, To(x, "answer")) BY <2>6 DEF UnlinkTemp
    <3>. QED BY <3>1
  <2>. QED BY <2>1, <2>2, <2>3, <2>4, <2>5, <2>6
<1>2. PICK pc, k, y : Call(i, pc, k, y) /\ OneOf(k) /\ Other(y) BY <1>1
<1>3. Grows(disk, k) BY <1>2, ReadyIs, LinkGrows, UnlinkGrows
<1>4. Light(x, y)
  <2>1. Loaded(x, disk) BY ReadyIs
  <2>2. Other(y) BY <1>2
  <2> HIDE DEF x
  <2>. QED BY <2>1, <2>2 DEF Light, Loaded, Body, To
<1>. QED BY <1>2, <1>3, <1>4, CallMoves

LEMMA DatedGrows ==
  ASSUME IsDisk(disk), NEW x, Stat(disk, x.real) = "OK"
  PROVE  Grows(disk, Dated(x))
<1>1. PICK n, f : n = disk.names[x.real] /\ f = disk.files[n] OBVIOUS
<1>2. n \in DOMAIN disk.files BY <1>1, FoundThere DEF IsDisk
<1>3. Filed(f) BY <1>1, <1>2 DEF IsDisk, Filed
<1> DEFINE ad == IF "PRESERVE-DATES" \in x.options \/ "ATIME" \in x.flags THEN x.atime ELSE disk.files[x.ino].atime
           md == IF "PRESERVE-DATES" \in x.options \/ "MTIME" \in x.flags THEN x.mtime ELSE disk.files[x.ino].mtime
           g  == [f EXCEPT !.atime = ad, !.mtime = md]
<1>4. Dated(x) = [disk EXCEPT !.files[n] = g] BY <1>1 DEF Dated
<1> HIDE DEF ad, md
<1>5. Filed(g) BY <1>3 DEF Filed
<1> HIDE DEF g
<1>. QED BY <1>2, <1>4, <1>5, FilePut

LEMMA MoveAnswerClose ==
  ASSUME NEW i, Ready(i), AnswerClose(i)
  PROVE  Moves(i)
<1> DEFINE x == xfers[i]
           y == IF Reading(x) THEN To(x, "mark") ELSE Exit(x)
<1>0. /\ UNCHANGED conns /\ Becomes(i, y)
      /\ disk' = IF /\ x.kind \in {"READ", "WRITE"} /\ x.err = "none" /\ Stat(disk, x.real) = "OK"
                    /\ "PRESERVE-DATES" \in x.options \/ x.flags \cap {"ATIME", "MTIME"} # {}
                   THEN Dated(x) ELSE disk
  BY Zenon DEF AnswerClose
<1>1. Becomes(i, y) /\ UNCHANGED conns /\ (disk' = disk \/ (Stat(disk, x.real) = "OK" /\ disk' = Dated(x)))
  <2> HIDE DEF x
  <2>. QED BY <1>0, Zenon
<1>2. Grows(disk, disk') BY <1>1, ReadyIs, SelfGrows, DatedGrows
<1>3. Light(x, y)
  <2>1. Loaded(x, disk) BY ReadyIs
  <2> HIDE DEF x
  <2>. QED BY <2>1 DEF Light, Loaded, Body, To, Exit
<1> HIDE DEF y
<1>. QED BY <1>1, <1>2, <1>3, DiskMoves

(***************************************************************************)
(* The ones that move data.                                                *)
(***************************************************************************)
LEMMA LoadedAgain ==
  ASSUME NEW k, NEW x, Loaded(x, k), NEW y, Body \subseteq DOMAIN y, y.state \in States, y.kind = x.kind, y.ino = x.ino,
         y.pos \in Nat, Buffers(y), y.pipe = x.pipe \/ Numbered(y.pipe)
  PROVE  Loaded(y, k)
<1>. QED BY DEF Loaded, OnFile

LEMMA ClearedLoaded ==
  ASSUME NEW k, NEW x, Loaded(x, k)
  PROVE  /\ Loaded([x EXCEPT !.pkt = << >>, !.pc = "top"], k)
         /\ Loaded([x EXCEPT !.buf = << >>, !.pc = "copy"], k)
         /\ Loaded([x EXCEPT !.pc = "got", !.op = "error", !.left = << >>], k)
<1> DEFINE y1 == [x EXCEPT !.pkt = << >>, !.pc = "top"]
           y2 == [x EXCEPT !.buf = << >>, !.pc = "copy"]
           y3 == [x EXCEPT !.pc = "got", !.op = "error", !.left = << >>]
<1>1. Body \subseteq DOMAIN x BY DEF Loaded
<1>2. /\ Body \subseteq DOMAIN y1 /\ y1.state = x.state /\ y1.kind = x.kind /\ y1.ino = x.ino /\ y1.pos = x.pos
      /\ y1.buf = x.buf /\ y1.left = x.left /\ y1.pkt = << >> /\ y1.pipe = x.pipe
  BY <1>1 DEF Body
<1>3. /\ Body \subseteq DOMAIN y2 /\ y2.state = x.state /\ y2.kind = x.kind /\ y2.ino = x.ino /\ y2.pos = x.pos
      /\ y2.buf = << >> /\ y2.left = x.left /\ y2.pkt = x.pkt /\ y2.pipe = x.pipe
  BY <1>1 DEF Body
<1>4. /\ Body \subseteq DOMAIN y3 /\ y3.state = x.state /\ y3.kind = x.kind /\ y3.ino = x.ino /\ y3.pos = x.pos
      /\ y3.buf = x.buf /\ y3.left = << >> /\ y3.pkt = x.pkt /\ y3.pipe = x.pipe
  BY <1>1 DEF Body
<1> HIDE DEF y1, y2, y3
<1>5. Buffers(y1) /\ Buffers(y2) /\ Buffers(y3)
  BY <1>2, <1>3, <1>4, NoneSeq, FileAssumption DEF Loaded, Buffers
<1>6. Loaded(y1, k) BY <1>2, <1>5, LoadedAgain DEF Loaded
<1>7. Loaded(y2, k) BY <1>3, <1>5, LoadedAgain DEF Loaded
<1>8. Loaded(y3, k) BY <1>4, <1>5, LoadedAgain DEF Loaded
<1>. QED BY <1>6, <1>7, <1>8 DEF y1, y2, y3

LEMMA MoveClears ==
  ASSUME NEW i, Ready(i), Sent(i) \/ Reset(i)
  PROVE  Moves(i)
<1> DEFINE x == xfers[i]
<1>1. /\ Becomes(i, [x EXCEPT !.pkt = << >>, !.pc = "top"]) \/ Becomes(i, [x EXCEPT !.buf = << >>, !.pc = "copy"])
      /\ UNCHANGED <<conns, disk>>
  BY DEF Sent, Reset, Alone
<1>2. Loaded(x, disk) BY ReadyIs
<1> HIDE DEF x
<1>. QED BY <1>1, <1>2, ClearedLoaded, HereMoves DEF x

(* A packet taken from the net.                                            *)
LEMMA TakeWires ==
  ASSUME Wires, Nets, NEW d \in DOMAIN conns, conns[d].in # << >>, NEW q, q = Tail(conns[d].in),
         conns' = [conns EXCEPT ![d].in = q]
  PROVE  Wires' /\ Head(conns[d].in) \in Packets
<1>1. PICK c, s : c = conns[d] /\ s = c.in OBVIOUS
<1>2. Wire(c) /\ {"in", "out", "up"} \subseteq DOMAIN c BY <1>1 DEF Wires, Nets
<1>3. s \in Seq(Packets) /\ s # << >> BY <1>1, <1>2 DEF Wire
<1>4. q \in Seq(Packets) /\ Head(s) \in Packets BY <1>1, <1>3, HeadTailProperties
<1>5. DOMAIN conns' = DOMAIN conns /\ \A e \in DOMAIN conns : e # d => conns'[e] = conns[e] OBVIOUS
<1>6. conns'[d] = [c EXCEPT !.in = q] BY <1>1
<1>7. conns'[d].in = q /\ conns'[d].out = c.out /\ "out" \in DOMAIN conns'[d] BY <1>2, <1>6
<1>8. Wire(conns'[d]) BY <1>2, <1>4, <1>7 DEF Wire
<1>. QED BY <1>1, <1>4, <1>5, <1>8 DEF Wires

LEMMA MoveXpread ==
  ASSUME NEW i, Ready(i), Xpread(i)
  PROVE  Moves(i)
<1> DEFINE x == xfers[i]
           in == conns[x.conn].in
           y == [x EXCEPT !.pc = "got", !.op = Head(in).op, !.left = Head(in).data]
           z == [x EXCEPT !.pc = "got", !.op = "error", !.left = << >>]
<1>1. \/ in # << >> /\ conns' = [conns EXCEPT ![x.conn].in = Tail(in)] /\ Becomes(i, y) /\ OnNet
      \/ Becomes(i, z) /\ Alone
  BY DEF Xpread
<1>2. Loaded(x, disk) /\ x.conn \in DOMAIN conns /\ Wires /\ Nets BY ReadyIs DEF Ready
<1>3. Loaded(z, disk)
  <2> HIDE DEF x
  <2>. QED BY <1>2, ClearedLoaded
<1>4. CASE in # << >> /\ conns' = [conns EXCEPT ![x.conn].in = Tail(in)] /\ Becomes(i, y) /\ OnNet
  <2>1. Wires' /\ Head(in) \in Packets BY <1>2, <1>4, TakeWires
  <2>2. Head(in).data \in Seq(Int) BY <2>1 DEF Packets
  <2>3. IsSeq(Head(in).data) BY <2>2, SomeSeq
  <2>4. PICK o, d : o = Head(in).op /\ d = Head(in).data OBVIOUS
  <2>5. Loaded(y, disk)
    <3>1. y = [x EXCEPT !.pc = "got", !.op = o, !.left = d] BY <2>4
    <3> HIDE DEF x, y
    <3>2. Body \subseteq DOMAIN x BY <1>2 DEF Loaded
    <3>3. /\ Body \subseteq DOMAIN y /\ y.state = x.state /\ y.kind = x.kind /\ y.ino = x.ino /\ y.pos = x.pos
          /\ y.buf = x.buf /\ y.left = d /\ y.pkt = x.pkt /\ y.pipe = x.pipe
      BY <3>1, <3>2 DEF Body
    <3>4. Buffers(y) BY <1>2, <2>3, <2>4, <3>3 DEF Loaded, Buffers
    <3>. QED BY <1>2, <3>3, <3>4, LoadedAgain DEF Loaded
  <2>6. Grows(disk, disk') BY <1>4, ReadyIs, SelfGrows DEF OnNet
  <2> HIDE DEF y
  <2>. QED BY <1>4, <2>1, <2>5, <2>6, LoadedMoves
<1> HIDE DEF z
<1>. QED BY <1>1, <1>3, <1>4, HereMoves DEF Alone

LEMMA MoveGot ==
  ASSUME NEW i, Ready(i), Got(i)
  PROVE  Moves(i)
<1> DEFINE v == xfers[i]
           x == [v EXCEPT !.pc = "top"]
           y1 == [x EXCEPT !.state = ToClose(x, "RSYNC")]
           y2 == [x EXCEPT !.state = ToClose(x, "BROKEN"), !.failed = TRUE]
           y3 == [x EXCEPT !.flags = @ \cup {"EOF"}, !.pc = "flush"]
           y4 == [x EXCEPT !.pc = "copy"]
           y5 == [x EXCEPT !.left = << >>]
<1>1. Fit(v) /\ v.pc = "got" BY DEF Got, Ready
<1>2. v.op \in {"DAT", "EOF", "SYN", "error"} /\ v.state \in {"PROCESS", "WSYNC"}
  <2> HIDE DEF v
  <2>. QED BY <1>1 DEF Fit, Packet, Place, ReadingPcs, WritingPcs, Reading, ClosingPcs
<1>3. x.op = v.op /\ x.state = v.state
  <2> HIDE DEF v
  <2>. QED OBVIOUS
<1>4. /\ Becomes(i, y1) \/ Becomes(i, y2) \/ Becomes(i, y3) \/ Becomes(i, y4) \/ Becomes(i, y5)
      /\ UNCHANGED <<conns, disk>>
  <2>0. Got(i) OBVIOUS
  <2> HIDE DEF y1, y2, y3, y4, y5
  <2>1. CASE v.op = "SYN"   BY <2>0, <2>1, <1>3 DEF Got, y1, Alone
  <2>2. CASE v.op = "error" BY <2>0, <2>2, <1>3 DEF Got, y2, OnControl
  <2>3. CASE v.op = "EOF"   BY <2>0, <2>3, <1>2, <1>3 DEF Got, y3, y5, Alone
  <2>4. CASE v.op = "DAT"   BY <2>0, <2>4, <1>2, <1>3 DEF Got, y4, y5, Alone
  <2>. QED BY <1>2, <2>1, <2>2, <2>3, <2>4
<1>5. Loaded(v, disk) BY ReadyIs
<1> HIDE DEF v
<1>6. Light(v, y1) /\ Light(v, y2) BY <1>5 DEF Light, Loaded, Body, States, ToClose
<1>7. Light(v, y3) /\ Light(v, y4) BY <1>5 DEF Light, Loaded, Body
<1>8. Loaded(y5, disk)
  <2>1. Body \subseteq DOMAIN v BY <1>5 DEF Loaded
  <2>2. /\ Body \subseteq DOMAIN y5 /\ y5.state = v.state /\ y5.kind = v.kind /\ y5.ino = v.ino /\ y5.pos = v.pos
        /\ y5.buf = v.buf /\ y5.left = << >> /\ y5.pkt = v.pkt /\ y5.pipe = v.pipe
    BY <2>1 DEF Body
  <2> HIDE DEF y5
  <2>3. Buffers(y5) BY <1>5, <2>2, NoneSeq DEF Loaded, Buffers
  <2>. QED BY <1>5, <2>2, <2>3, LoadedAgain DEF Loaded
<1> HIDE DEF y1, y2, y3, y4, y5
<1>. QED BY <1>4, <1>6, <1>7, <1>8, HereMoves, LightMoves DEF v

LEMMA LessIs == ASSUME NEW a \in Int, NEW b \in Int PROVE LessOf(a, b) \in Int /\ LessOf(a, b) <= a /\ LessOf(a, b) <= b
<1>. QED BY DEF LessOf

LEMMA MoveCopy ==
  ASSUME NEW i, Ready(i), Copy(i)
  PROVE  Moves(i)
<1> DEFINE x == xfers[i]
           n == Enters(x)
           y == [x EXCEPT !.buf = @ \o Inward(x, SubSeq(x.left, 1, Enters(x))), !.left = From(@, Enters(x) + 1)]
           z == [y EXCEPT !.pc = "full"]
<1>1. Becomes(i, [x EXCEPT !.pc = "top"]) \/ Becomes(i, Exit(x)) \/ Becomes(i, z) \/ Becomes(i, y)
  BY DEF Copy
<1>2. UNCHANGED <<conns, disk>> BY DEF Copy, Alone
<1>3. Loaded(x, disk) BY ReadyIs
<1> HIDE DEF x
<1>4. n \in Int
  <2>1. IsSeq(x.buf) /\ IsSeq(x.left) BY <1>3 DEF Loaded, Buffers
  <2>2. Len(x.buf) \in Nat /\ Len(x.left) \in Nat BY <2>1, SeqDomain
  <2>3. Space(x) \in Int BY <2>2, FileAssumption DEF Space
  <2>4. PICK a, s : a = Len(x.left) /\ s = Space(x) OBVIOUS
  <2>5. a \in Int /\ s \in Int /\ 2 * s \in Int BY <2>2, <2>3, <2>4
  <2>6. n = IF Mode(x) = "bytes" THEN LessOf(a, 2 * s) ELSE LessOf(a, s) BY <2>4 DEF Enters
  <2>7. LessOf(a, 2 * s) \in Int /\ LessOf(a, s) \in Int BY <2>5, LessIs
  <2> HIDE DEF n
  <2>. QED BY <2>6, <2>7
<1>5. PICK b, l : b = x.buf \o Inward(x, SubSeq(x.left, 1, n)) /\ l = From(x.left, n + 1) OBVIOUS
<1>6. y = [x EXCEPT !.buf = b, !.left = l] BY <1>5
<1>7. IsSeq(b)
  <2>1. IsSeq(SubSeq(x.left, 1, n)) BY <1>4, SubSeqSeq
  <2>2. IsSeq(Inward(x, SubSeq(x.left, 1, n))) BY <2>1, InwardSeq
  <2>3. IsSeq(x.buf) BY <1>3 DEF Loaded, Buffers
  <2>. QED BY <1>5, <2>2, <2>3, ConcatSeq
<1>8. IsSeq(l)
  <2>1. Len(x.left) \in Nat BY <1>3, SeqDomain DEF Loaded, Buffers
  <2> HIDE DEF n
  <2>2. n + 1 \in Int /\ Len(x.left) \in Int BY <1>4, <2>1
  <2>. QED BY <1>5, <2>2, SubSeqSeq DEF From
<1> HIDE DEF y
<1>9. Loaded(y, disk)
  <2>1. Body \subseteq DOMAIN x BY <1>3 DEF Loaded
  <2>2. /\ Body \subseteq DOMAIN y /\ y.state = x.state /\ y.kind = x.kind /\ y.ino = x.ino /\ y.pos = x.pos
        /\ y.buf = b /\ y.left = l /\ y.pkt = x.pkt /\ y.pipe = x.pipe
    BY <1>6, <2>1 DEF Body
  <2>3. Buffers(y) BY <1>3, <1>7, <1>8, <2>2 DEF Loaded, Buffers
  <2>. QED BY <1>3, <2>2, <2>3, LoadedAgain DEF Loaded
<1>10. Light(y, z) BY <1>9 DEF Light, Loaded, Body
<1>11. Loaded(z, disk) BY <1>9, <1>10, LightLoaded
<1>12. Light(x, [x EXCEPT !.pc = "top"]) /\ Light(x, Exit(x)) BY <1>3 DEF Light, Loaded, Body, Exit
<1> HIDE DEF z
<1>. QED BY <1>1, <1>2, <1>9, <1>11, <1>12, HereMoves, LightMoves DEF x

LEMMA WrittenSeq ==
  ASSUME NEW data, IsSeq(data), NEW pos \in Nat, NEW s, IsSeq(s)
  PROVE  IsSeq(Written(data, pos, s))
<1>1. Len(data) \in Nat /\ Len(s) \in Nat BY SeqDomain
<1>2. IsSeq(SubSeq(data, 1, pos)) BY SubSeqSeq
<1>3. pos + Len(s) + 1 \in Int /\ Len(data) \in Int BY <1>1
<1>4. IsSeq(SubSeq(data, pos + Len(s) + 1, Len(data))) BY <1>3, SubSeqSeq
<1>5. IsSeq(SubSeq(data, 1, pos) \o s) BY <1>2, ConcatSeq
<1>6. IsSeq((SubSeq(data, 1, pos) \o s) \o SubSeq(data, pos + Len(s) + 1, Len(data))) BY <1>4, <1>5, ConcatSeq
<1>. QED BY <1>6 DEF Written, Upto

(* The buffer written to the disk, or not.                                 *)
LEMMA XbwriteMoves ==
  ASSUME NEW i, Ready(i), xfers[i].kind = "WRITE", NEW after, NEW back, Xbwrite(i, after, back),
         Loaded(after, disk)
  PROVE  Moves(i)
<1> DEFINE x == xfers[i]
           d == Written(Data(x), x.pos, x.buf)
           y == Failed(x, back)
<1>1. \/ Becomes(i, after) /\ disk' = SetData(disk, x.ino, d) /\ UNCHANGED conns
      \/ Becomes(i, y) /\ UNCHANGED <<conns, disk>>
  BY DEF Xbwrite, OnDisk
<1>2. Loaded(x, disk) /\ IsDisk(disk) /\ Wires BY ReadyIs
<1>3. x.ino \in DOMAIN disk.files BY <1>2 DEF Loaded, OnFile
<1>4. IsSeq(d)
  <2>1. IsSeq(Data(x)) BY <1>2, <1>3 DEF IsDisk, Data
  <2>2. x.pos \in Nat /\ IsSeq(x.buf) BY <1>2 DEF Loaded, Buffers
  <2>. QED BY <2>1, <2>2, WrittenSeq
<1>5. CASE Becomes(i, after) /\ disk' = SetData(disk, x.ino, d) /\ UNCHANGED conns
  <2> HIDE DEF d
  <2>1. Grows(disk, disk') BY <1>2, <1>3, <1>4, <1>5, SetDataGrows
  <2>2. Wires' BY <1>2, <1>5 DEF Wires
  <2>. QED BY <1>5, <2>1, <2>2, LoadedMoves
<1>6. Light(x, y)
  <2> HIDE DEF x
  <2>. QED BY <1>2 DEF Light, Loaded, Body, Failed, States
<1> HIDE DEF y
<1>. QED BY <1>1, <1>5, <1>6, LightMoves

LEMMA MoveBuffer ==
  ASSUME NEW i, Ready(i), Full(i) \/ Flush(i) \/ Retry(i)
  PROVE  Moves(i)
<1> DEFINE x == xfers[i]
           a1 == [Stored(x) EXCEPT !.pc = "reset"]
           a2 == [Stored(x) EXCEPT !.pc = "top", !.state = "WSYNC"]
           a3 == [Stored(x) EXCEPT !.pc = "top", !.spoiled = @ \/ (x.buf # << >> /\ "EOF" \notin x.flags),
                                   !.state = IF "EOF" \in x.flags THEN "WSYNC" ELSE "PROCESS"]
<1>1. x.pc \in {"full", "flush", "retry"} /\ Fit(x) BY DEF Full, Flush, Retry, Ready
<1>2. \E back : Xbwrite(i, a1, back) \/ Xbwrite(i, a2, back) \/ Xbwrite(i, a3, back) BY DEF Full, Flush, Retry
<1>3. Loaded(x, disk) BY ReadyIs
<1>4. x.kind = "WRITE"
  <2> HIDE DEF x
  <2>. QED BY <1>1 DEF Fit, Place, Reading, ReadingPcs, ClosingPcs
<1>5. Loaded(Stored(x), disk)
  <2> DEFINE y == Stored(x)
  <2> HIDE DEF x
  <2>1. Body \subseteq DOMAIN x BY <1>3 DEF Loaded
  <2>2. x.pos + Len(x.buf) \in Nat BY <1>3, SeqDomain DEF Loaded, Buffers
  <2>3. /\ Body \subseteq DOMAIN y /\ y.state = x.state /\ y.kind = x.kind /\ y.ino = x.ino
        /\ y.pos = x.pos + Len(x.buf) /\ y.buf = x.buf /\ y.left = x.left /\ y.pkt = x.pkt /\ y.pipe = x.pipe
    BY <2>1 DEF Body, Stored
  <2> HIDE DEF y
  <2>4. Buffers(y) BY <1>3, <2>3 DEF Loaded, Buffers
  <2>5. Loaded(y, disk) BY <1>3, <2>2, <2>3, <2>4, LoadedAgain DEF Loaded
  <2>. QED BY <2>5 DEF y
<1>6. PICK s : s = Stored(x) OBVIOUS
<1>7. Loaded(a1, disk) /\ Loaded(a2, disk) /\ Loaded(a3, disk)
  <2>1. Loaded(s, disk) BY <1>5, <1>6
  <2>2. PICK b1, b2 : b1 = (s.spoiled \/ (x.buf # << >> /\ "EOF" \notin x.flags))
                      /\ b2 = IF "EOF" \in x.flags THEN "WSYNC" ELSE "PROCESS" OBVIOUS
  <2>3. a1 = [s EXCEPT !.pc = "reset"] BY <1>6
  <2>4. a2 = [s EXCEPT !.pc = "top", !.state = "WSYNC"] BY <1>6
  <2>5. a3 = [s EXCEPT !.pc = "top", !.spoiled = b1, !.state = b2] BY <1>6, <2>2
  <2>6. b2 \in States BY <2>2 DEF States
  <2> HIDE DEF a1, a2, a3
  <2>7. Light(s, a1) BY <2>1, <2>3 DEF Light, Loaded, Body
  <2>8. Light(s, a2) BY <2>1, <2>4 DEF Light, Loaded, Body, States
  <2>9. Light(s, a3) BY <2>1, <2>5, <2>6 DEF Light, Loaded, Body
  <2>. QED BY <2>1, <2>7, <2>8, <2>9, LightLoaded
<1> HIDE DEF a1, a2, a3
<1>. QED BY <1>2, <1>4, <1>7, XbwriteMoves

(* What is taken from the disk and put in a packet.                        *)
LEMMA TakenLoaded ==
  ASSUME IsDisk(disk), NEW x, Loaded(x, disk), Shape(x), Reading(x)
  PROVE  Loaded(Taken(x), disk) /\ Len(Taken(x).pkt) = Len(x.pkt) /\ Taken(x).state = x.state
<1> DEFINE y == Taken(x)
<1>1. Body \subseteq DOMAIN x BY DEF Loaded
<1>2. x.kind \in {"READ", "DIR", "PROPERTIES"} BY DEF Shape, Kinds, Reading
<1>3. IsSeq(Chunk(x)) /\ Len(Chunk(x)) \in Nat
  <2>1. CASE x.kind = "READ"
    <3>1. x.ino \in DOMAIN disk.files /\ x.pos \in Nat BY <2>1 DEF Loaded, OnFile
    <3>2. IsSeq(Data(x)) BY <3>1 DEF IsDisk, Data
    <3>3. PICK p, l : p = x.pos /\ l = Len(Data(x)) OBVIOUS
    <3>4. p \in Nat /\ l \in Nat BY <3>1, <3>2, <3>3, SeqDomain
    <3>5. l - p \in Int /\ FSBSIZE \in Int BY <3>4, FileAssumption
    <3>6. LessOf(FSBSIZE, l - p) \in Int BY <3>5, LessIs
    <3>7. p + 1 \in Int /\ p + LessOf(FSBSIZE, l - p) \in Int BY <3>4, <3>6
    <3>8. Chunk(x) = SubSeq(Data(x), p + 1, p + LessOf(FSBSIZE, l - p)) BY <2>1, <3>3 DEF Chunk
    <3>9. IsSeq(Chunk(x)) BY <3>7, <3>8, SubSeqSeq
    <3>. QED BY <3>9, SeqDomain
  <2>2. CASE x.kind # "READ"
    <3>1. Chunk(x) = << >> \/ \E e : Chunk(x) = <<e>> BY <1>2, <2>2 DEF Chunk
    <3>2. IsSeq(Chunk(x)) BY <3>1, NoneSeq, OneSeq
    <3>. QED BY <3>2, SeqDomain
  <2>. QED BY <2>1, <2>2
<1>4. PICK c : c = Chunk(x) OBVIOUS
<1>5. /\ Body \subseteq DOMAIN y /\ y.state = x.state /\ y.kind = x.kind /\ y.ino = x.ino
      /\ y.pos \in {x.pos, x.pos + Len(c)} /\ y.buf = c /\ y.left = x.left /\ y.pkt = x.pkt /\ y.pipe = x.pipe
  <2>1. CASE x.kind = "READ"
    <3>1. y = [x EXCEPT !.buf = c, !.pos = @ + Len(c)] BY <1>4, <2>1 DEF Taken
    <3>. QED BY <1>1, <3>1 DEF Body
  <2>2. CASE x.kind = "DIR"
    <3>1. PICK g : g = IF Skip(x) = << >> THEN << >> ELSE Tail(Skip(x)) OBVIOUS
    <3>2. y = [x EXCEPT !.buf = c, !.glob = g] BY <1>4, <2>2, <3>1 DEF Taken
    <3>. QED BY <1>1, <3>2 DEF Body
  <2>3. CASE x.kind = "PROPERTIES"
    <3>1. y = [x EXCEPT !.buf = c, !.real = NoFile] BY <1>4, <2>3 DEF Taken
    <3>. QED BY <1>1, <3>1 DEF Body
  <2>. QED BY <1>2, <2>1, <2>2, <2>3
<1> HIDE DEF y
<1>6. Buffers(y) BY <1>3, <1>4, <1>5 DEF Loaded, Buffers
<1>7. y.pos \in Nat
  <2>1. x.pos \in Nat BY DEF Loaded
  <2>. QED BY <1>3, <1>4, <1>5, <2>1
<1>8. Loaded(y, disk) BY <1>5, <1>6, <1>7, LoadedAgain DEF Loaded
<1>. QED BY <1>5, <1>8 DEF y

LEMMA FitsIs ==
  ASSUME NEW y, Buffers(y)
  PROVE  /\ Len(y.buf) \in Nat /\ Len(y.pkt) \in Nat /\ Fits(y) \in Nat /\ Fits(y) <= Len(y.buf)
         /\ (IF Mode(y) = "bytes" THEN 2 * Fits(y) ELSE Fits(y)) <= CHMAXDATA - Len(y.pkt)
<1>1. PICK b, r : b = Len(y.buf) /\ r = Room(y) OBVIOUS
<1>2. b \in Nat /\ Len(y.pkt) \in Nat BY <1>1, SeqDomain DEF Buffers
<1>3. r \in Nat /\ r = CHMAXDATA - Len(y.pkt) BY <1>1, <1>2, FileAssumption DEF Buffers, Room
<1>4. r \div 2 \in Nat /\ 2 * (r \div 2) <= r BY <1>3
<1>5. PICK h : h = r \div 2 OBVIOUS
<1>6. CASE Mode(y) = "bytes"
  <2>1. Fits(y) = LessOf(b, h) BY <1>1, <1>5, <1>6 DEF Fits
  <2>2. LessOf(b, h) \in Nat /\ LessOf(b, h) <= b /\ LessOf(b, h) <= h BY <1>2, <1>4, <1>5 DEF LessOf
  <2>3. 2 * LessOf(b, h) <= r BY <1>3, <1>4, <1>5, <2>2
  <2>. QED BY <1>1, <1>2, <1>3, <1>6, <2>1, <2>2, <2>3
<1>7. CASE Mode(y) # "bytes"
  <2>1. Fits(y) = LessOf(b, r) BY <1>1, <1>7 DEF Fits
  <2>2. LessOf(b, r) \in Nat /\ LessOf(b, r) <= b /\ LessOf(b, r) <= r BY <1>2, <1>3 DEF LessOf
  <2>. QED BY <1>1, <1>2, <1>3, <1>7, <2>1, <2>2
<1>. QED BY <1>6, <1>7

LEMMA CopiedLoaded ==
  ASSUME NEW y, Loaded(y, disk)
  PROVE  Loaded(Copied(y), disk)
<1> DEFINE z == Copied(y)
<1>0. Buffers(y) /\ Body \subseteq DOMAIN y BY DEF Loaded
<1>1. PICK n, m : n = Fits(y) /\ m = Len(y.pkt) OBVIOUS
<1>2. /\ Len(y.buf) \in Nat /\ m \in Nat /\ n \in Nat
      /\ (IF Mode(y) = "bytes" THEN 2 * n ELSE n) <= CHMAXDATA - m
  BY <1>0, <1>1, FitsIs
<1>3. PICK s, p, b : s = Outward(y, SubSeq(y.buf, 1, n)) /\ p = y.pkt \o s /\ b = From(y.buf, n + 1) OBVIOUS
<1>4. IsSeq(SubSeq(y.buf, 1, n)) /\ Len(SubSeq(y.buf, 1, n)) = n
  <2>1. n \in Int /\ 1 \in Int BY <1>2
  <2>2. IsSeq(SubSeq(y.buf, 1, n)) /\ Len(SubSeq(y.buf, 1, n)) = IF 1 <= n THEN n - 1 + 1 ELSE 0 BY <2>1, SubSeqSeq
  <2>3. PICK q, l : q = SubSeq(y.buf, 1, n) /\ l = Len(q) OBVIOUS
  <2>4. l = IF 1 <= n THEN n - 1 + 1 ELSE 0 BY <2>2, <2>3
  <2>5. l = n BY <1>2, <2>4
  <2>. QED BY <2>2, <2>3, <2>5
<1>5. IsSeq(s) /\ Len(s) = IF Mode(y) = "bytes" THEN 2 * n ELSE n BY <1>3, <1>4, OutwardSeq
<1>6. IsSeq(p) /\ Len(p) = m + Len(s) BY <1>0, <1>1, <1>3, <1>5, ConcatSeq DEF Buffers
<1>7. Len(p) <= CHMAXDATA BY <1>2, <1>5, <1>6, FileAssumption
<1>8. IsSeq(b)
  <2>1. n + 1 \in Int /\ Len(y.buf) \in Int BY <1>2
  <2>. QED BY <1>3, <2>1, SubSeqSeq DEF From
<1>9. z = [y EXCEPT !.pkt = p, !.buf = b] BY <1>1, <1>3 DEF Copied
<1> HIDE DEF z
<1>10. /\ Body \subseteq DOMAIN z /\ z.state = y.state /\ z.kind = y.kind /\ z.ino = y.ino /\ z.pos = y.pos
       /\ z.buf = b /\ z.left = y.left /\ z.pkt = p /\ z.pipe = y.pipe
  BY <1>0, <1>9 DEF Body
<1>11. Buffers(z) BY <1>0, <1>6, <1>7, <1>8, <1>10 DEF Buffers
<1>12. Loaded(z, disk) BY <1>10, <1>11, LoadedAgain DEF Loaded
<1>. QED BY <1>12 DEF z

LEMMA MoveFill ==
  ASSUME NEW i, Ready(i), Fill(i)
  PROVE  Moves(i)
<1> DEFINE x == xfers[i]
           y == IF x.buf = << >> THEN Taken(x) ELSE x
<1>1. /\ \/ Becomes(i, [x EXCEPT !.pc = "send"]) \/ Becomes(i, [x EXCEPT !.pc = "bad"])
         \/ Becomes(i, [y EXCEPT !.pc = "last"]) \/ Becomes(i, y) \/ Becomes(i, Copied(y))
      /\ UNCHANGED <<conns, disk>>
  BY DEF Fill, Alone
<1>2. Shape(x) /\ Reading(x) BY DEF Fill, Fit, Ready
<1>3. Loaded(x, disk) /\ IsDisk(disk) BY ReadyIs
<1> HIDE DEF x
<1>4. Loaded(y, disk) BY <1>2, <1>3, TakenLoaded
<1> HIDE DEF y
<1>5. Light(x, [x EXCEPT !.pc = "send"]) /\ Light(x, [x EXCEPT !.pc = "bad"]) BY <1>3 DEF Light, Loaded, Body
<1>6. Light(y, [y EXCEPT !.pc = "last"]) BY <1>4 DEF Light, Loaded, Body
<1>7. Loaded([y EXCEPT !.pc = "last"], disk) BY <1>4, <1>6, LightLoaded
<1>8. Loaded(Copied(y), disk) BY <1>4, CopiedLoaded
<1>. QED BY <1>1, <1>4, <1>5, <1>7, <1>8, HereMoves, LightMoves DEF x

(***************************************************************************)
(* The ones that take a command.                                           *)
(***************************************************************************)
LEMMA NextLoaded ==
  ASSUME NEW v, Fit(v), Loaded(v, disk), v.pipe # << >>
  PROVE  /\ Loaded(Next2(v), disk) /\ Next2(v).state = v.state /\ Next2(v).kind = v.kind
         /\ Next2(v).buf = v.buf /\ Next2(v).pkt = v.pkt
<1> DEFINE x == Next2(v)
<1>1. PICK p, q : p = v.pipe /\ q = Tail(p) OBVIOUS
<1>2. IsSeq(p) /\ p # << >> BY <1>1 DEF Fit, PipeOK
<1>3. \A k \in DOMAIN q : k + 1 \in DOMAIN p /\ q[k] = p[k + 1] BY <1>1, <1>2, TailSeq
<1>4. Numbered(p) BY <1>1 DEF Loaded
<1>5. Numbered(q) BY <1>3, <1>4 DEF Numbered
<1>6. x = [v EXCEPT !.pipe = q, !.pc = "top"] BY <1>1 DEF Next2
<1>7. Body \subseteq DOMAIN v BY DEF Loaded
<1> HIDE DEF x
<1>8. /\ Body \subseteq DOMAIN x /\ x.state = v.state /\ x.kind = v.kind /\ x.ino = v.ino /\ x.pos = v.pos
      /\ x.buf = v.buf /\ x.left = v.left /\ x.pkt = v.pkt /\ x.pipe = q
  BY <1>6, <1>7 DEF Body
<1>9. Buffers(x) BY <1>8 DEF Loaded, Buffers
<1>10. Loaded(x, disk) BY <1>5, <1>8, <1>9, LoadedAgain DEF Loaded
<1>. QED BY <1>8, <1>10 DEF x

LEMMA ClosedLoaded ==
  ASSUME NEW x, Loaded(x, disk), NEW t
  PROVE  Loaded(fileclose(x, t), disk)
<1> DEFINE y == fileclose(x, t)
<1>1. Closing(x) \in States BY DEF Closing, Loaded, States
<1>2. PICK c : c = Closing(x) OBVIOUS
<1>3. y = [Deaf(x) EXCEPT !.flags = @ \cup {"CLOSE"}, !.state = c, !.close = t.tid] BY <1>2 DEF fileclose
<1> HIDE DEF y
<1>4. Light(x, y) BY <1>1, <1>2, <1>3 DEF Light, Loaded, Body, Deaf
<1>5. Loaded(y, disk) BY <1>4, LightLoaded
<1>. QED BY <1>5 DEF y

LEMMA PositionedLoaded ==
  ASSUME NEW x, Loaded(x, disk), NEW t, t.n \in Nat
  PROVE  Loaded(filepos(x, t), disk)
<1> DEFINE y == filepos(x, t)
<1>1. PICK p, b : p = Position(x, t) /\ b = x.bytesize OBVIOUS
<1>2. p = t.n * (IF b = 16 THEN 2 ELSE 1) BY <1>1 DEF Position
<1>3. p \in Nat
  <2>1. CASE b = 16 BY <1>2, <2>1
  <2>2. CASE b # 16 BY <1>2, <2>2
  <2>. QED BY <2>1, <2>2
<1>4. y = [x EXCEPT !.pkt = << >>, !.buf = << >>, !.flags = @ \ {"EOF"}, !.state = "PROCESS",
                    !.pos = p, !.pc = "posmark", !.spoiled = FALSE]
  BY <1>1 DEF filepos
<1>5. Body \subseteq DOMAIN x BY DEF Loaded
<1> HIDE DEF y
<1>6. /\ Body \subseteq DOMAIN y /\ y.state = "PROCESS" /\ y.kind = x.kind /\ y.ino = x.ino /\ y.pos = p
      /\ y.buf = << >> /\ y.left = x.left /\ y.pkt = << >> /\ y.pipe = x.pipe
  BY <1>4, <1>5 DEF Body
<1>7. Buffers(y) BY <1>6, NoneSeq, FileAssumption DEF Loaded, Buffers
<1>8. Loaded(y, disk) BY <1>3, <1>6, <1>7, LoadedAgain DEF Loaded, States
<1>. QED BY <1>8 DEF y

(* The transfer with one record in its buffer.                             *)
LEMMA OpenedLoaded ==
  ASSUME NEW x, Loaded(x, disk), NEW y, NEW e, Body \subseteq DOMAIN y, y.state = "PROCESS", y.kind = x.kind,
         y.ino = x.ino, y.pos = x.pos, y.buf = <<e>>, y.left = x.left, y.pkt = x.pkt, y.pipe = x.pipe
  PROVE  Loaded(y, disk)
<1>1. Buffers(y) BY OneSeq DEF Loaded, Buffers
<1>. QED BY <1>1, LoadedAgain DEF Loaded, States

LEMMA DirOpenedLoaded ==
  ASSUME NEW x, Loaded(x, disk), NEW err
  PROVE  Loaded(diropen(x, err), disk)
<1>1. Body \subseteq DOMAIN x BY DEF Loaded
<1>2. CASE err # "none"
  <2> DEFINE w == [x EXCEPT !.state = "DERROR", !.pc = "derror"]
  <2>1. diropen(x, err) = w BY <1>2 DEF diropen
  <2>2. Light(x, w) BY <1>1 DEF Light, Loaded, Body, States
  <2> HIDE DEF w
  <2>. QED BY <2>1, <2>2, LightLoaded
<1>3. CASE err = "none"
  <2> DEFINE w == [x EXCEPT !.glob = Sorted(Listing(x).found, Code)]
             e == [what |-> "global", name |-> NoFile]
             y == [w EXCEPT !.glob = Skip(w), !.buf = <<e>>, !.state = "PROCESS", !.pc = "top"]
  <2>1. diropen(x, err) = y BY <1>3 DEF diropen
  <2>2. Body \subseteq DOMAIN w /\ \A f \in Body : w[f] = x[f] BY <1>1 DEF Body
  <2> HIDE DEF w
  <2>3. PICK g : g = Skip(w) OBVIOUS
  <2>4. y = [w EXCEPT !.glob = g, !.buf = <<e>>, !.state = "PROCESS", !.pc = "top"] BY <2>3
  <2> HIDE DEF e, y
  <2>5. /\ Body \subseteq DOMAIN y /\ y.state = "PROCESS" /\ y.kind = x.kind /\ y.ino = x.ino /\ y.pos = x.pos
        /\ y.buf = <<e>> /\ y.left = x.left /\ y.pkt = x.pkt /\ y.pipe = x.pipe
    BY <2>2, <2>4 DEF Body
  <2>6. Loaded(y, disk) BY <2>5, OpenedLoaded
  <2>. QED BY <2>1, <2>6
<1>. QED BY <1>2, <1>3

LEMMA PropOpenedLoaded ==
  ASSUME NEW x, Loaded(x, disk)
  PROVE  Loaded(propopen(x), disk)
<1> DEFINE e == [what |-> "settable", name |-> x.real]
           y == [x EXCEPT !.buf = <<e>>, !.state = "PROCESS", !.pc = "top"]
<1>1. propopen(x) = y BY DEF propopen
<1>2. Body \subseteq DOMAIN x BY DEF Loaded
<1> HIDE DEF e
<1>3. /\ Body \subseteq DOMAIN y /\ y.state = "PROCESS" /\ y.kind = x.kind /\ y.ino = x.ino /\ y.pos = x.pos
      /\ y.buf = <<e>> /\ y.left = x.left /\ y.pkt = x.pkt /\ y.pipe = x.pipe
  BY <1>2 DEF Body
<1> HIDE DEF y
<1>. QED BY <1>1, <1>3, OpenedLoaded

LEMMA MoveRcvcmd ==
  ASSUME NEW i, Ready(i), Rcvcmd(i)
  PROVE  Moves(i)
<1> DEFINE v == xfers[i]
           x == Next2(v)
           t == Head(v.pipe)
<1>1. Fit(v) /\ v.pc = "cmd" /\ v.pipe # << >> BY DEF Rcvcmd, Ready
<1>2. UNCHANGED <<conns, disk>> BY DEF Rcvcmd, OnControl
<1>3. Loaded(v, disk) BY ReadyIs
<1>4. t.cname \in Silent \cup Speaking /\ (t.cname = "FILEPOS" => t.n \in Nat)
  <2>1. PICK p : p = v.pipe OBVIOUS
  <2>2. IsSeq(p) /\ p # << >> BY <1>1, <2>1 DEF Fit, PipeOK
  <2>3. 1 \in DOMAIN p /\ Head(p) = p[1] BY <2>2, TailSeq
  <2>4. MsgOK(p[1]) BY <1>1, <2>1, <2>3 DEF Fit, PipeOK
  <2>5. Numbered(p) BY <1>3, <2>1 DEF Loaded
  <2>. QED BY <2>1, <2>3, <2>4, <2>5 DEF MsgOK, Numbered
<1>5. Loaded(x, disk)
  <2> HIDE DEF v
  <2>. QED BY <1>1, <1>3, NextLoaded
<1>6. CASE t.cname = "CLOSE"
  <2>1. Becomes(i, fileclose(x, t)) BY <1>6 DEF Rcvcmd, Next2
  <2> HIDE DEF x, t
  <2>. QED BY <1>2, <1>5, <2>1, ClosedLoaded, HereMoves
<1>7. CASE t.cname = "FILEPOS"
  <2>1. Becomes(i, x) \/ Becomes(i, filepos(x, t)) BY <1>7 DEF Rcvcmd, Next2
  <2> HIDE DEF x, t
  <2>. QED BY <1>2, <1>4, <1>5, <1>7, <2>1, PositionedLoaded, HereMoves
<1>8. CASE t.cname = "CONTINUE"
  <2> DEFINE y == [x EXCEPT !.state = "RETRY"]
  <2>1. Becomes(i, x) \/ Becomes(i, y) BY <1>8 DEF Rcvcmd, Next2
  <2> HIDE DEF x, t
  <2>2. Light(x, y) BY <1>5 DEF Light, Loaded, Body, States
  <2>3. Loaded(y, disk) BY <1>5, <2>2, LightLoaded
  <2> HIDE DEF y
  <2>. QED BY <1>2, <1>5, <2>1, <2>3, HereMoves
<1>9. CASE t.cname = "DIRECTORY"
  <2>1. \E err : Becomes(i, diropen(x, err)) BY <1>9 DEF Rcvcmd, Next2
  <2> HIDE DEF x, t
  <2>. QED BY <1>2, <1>5, <2>1, DirOpenedLoaded, HereMoves
<1>10. CASE t.cname = "PROPERTIES"
  <2>1. Becomes(i, propopen(x)) BY <1>10 DEF Rcvcmd, Next2
  <2> HIDE DEF x, t
  <2>. QED BY <1>2, <1>5, <2>1, PropOpenedLoaded, HereMoves
<1>11. CASE t.cname \in Silent
  <2> DEFINE y1 == [x EXCEPT !.flags = @ \cup {"DELETE"}]
             y2 == [x EXCEPT !.mtime = t.n, !.flags = @ \cup {"MTIME"}]
             y3 == [x EXCEPT !.atime = t.n, !.flags = @ \cup {"ATIME"}]
  <2>1. ASSUME t.cname = "delfh" PROVE Becomes(i, y1) BY <2>1 DEF Rcvcmd, Next2
  <2>2. ASSUME t.cname = "mdatfh" PROVE Becomes(i, y2) BY <2>2 DEF Rcvcmd, Next2
  <2>3. ASSUME t.cname = "adatfh" PROVE Becomes(i, y3) BY <2>3 DEF Rcvcmd, Next2
  <2>4. Becomes(i, y1) \/ Becomes(i, y2) \/ Becomes(i, y3) BY <1>11, <2>1, <2>2, <2>3 DEF Silent
  <2> HIDE DEF x, t
  <2>5. Light(x, y1) /\ Light(x, y2) /\ Light(x, y3) BY <1>5 DEF Light, Loaded, Body
  <2>6. Loaded(y1, disk) /\ Loaded(y2, disk) /\ Loaded(y3, disk) BY <1>5, <2>5, LightLoaded
  <2> HIDE DEF y1, y2, y3
  <2>. QED BY <1>2, <2>4, <2>6, HereMoves
<1>. QED BY <1>4, <1>6, <1>7, <1>8, <1>9, <1>10, <1>11 DEF Speaking, Opens

LEMMA TransferMoves ==
  ASSUME NEW i, Ready(i), Transfer(i)
  PROVE  Moves(i)
<1>1. CASE interrupt(i) \/ Top(i) \/ Hang(i) \/ Rcvcmd(i) \/ PosMark(i) \/ PipeBroken(i) \/ DirFailed(i) \/ Close(i)
  BY <1>1, MoveLoop, MoveRcvcmd, MovePosMark, MoveEnds
<1>2. CASE ReadWork(i) \/ Fill(i) \/ SendFull(i) \/ Sent(i) \/ SendLast(i) \/ SendEof(i) \/ SendBad(i) \/ SyncMark(i)
  BY <1>2, MoveReadWork, MoveFill, MoveSends, MoveClears, MoveSendLast
<1>3. CASE WriteWork(i) \/ Xpread(i) \/ Got(i) \/ Copy(i) \/ Full(i) \/ Flush(i) \/ Retry(i) \/ Reset(i)
  BY <1>3, MoveWriteWork, MoveXpread, MoveGot, MoveCopy, MoveBuffer, MoveClears
<1>4. CASE LinkTemp(i) \/ BackUnlink(i) \/ BackLink(i) \/ UnlinkReal(i) \/ Relink(i) \/ UnlinkTemp(i) \/ AnswerClose(i)
  BY <1>4, MoveNames, MoveAnswerClose
<1>. QED BY <1>1, <1>2, <1>3, <1>4 DEF Transfer

-----------------------------------------------------------------------------
(* The types after a step that leaves the transfers where they are. *)
LEMMA TypesKept ==
  ASSUME TInv, Handles, UNCHANGED handles, DOMAIN xfers' = DOMAIN xfers,
         \A j \in DOMAIN xfers : /\ xfers'[j].listed = xfers[j].listed /\ xfers'[j].fh = xfers[j].fh
                                 /\ Loaded(xfers'[j], disk'),
         IsDisk(disk'), Wires', Counting'
  PROVE  TInv'
<1>1. Whole' BY DEF Whole
<1>2. Paired'
  <2>1. \A h \in DOMAIN handles : handles[h].xfer # 0 => handles[h].xfer \in DOMAIN xfers
    BY DEF Handles, HandleOK
  <2>. QED BY <2>1 DEF TInv, Paired
<1>. QED BY <1>1, <1>2 DEF TInv

LEMMA SameTypes ==
  ASSUME TInv, Handles, UNCHANGED <<handles, xfers, conns>>, Grows(disk, disk'), Counting'
  PROVE  TInv'
<1>1. \A j \in DOMAIN xfers : Loaded(xfers[j], disk') BY LoadedGrown DEF TInv, Whole
<1>2. Wires' BY DEF TInv, Wires
<1>. QED BY <1>1, <1>2, TypesKept DEF Grows

LEMMA LightTypes ==
  ASSUME TInv, Handles, UNCHANGED <<handles, conns>>, Grows(disk, disk'), Counting', DOMAIN xfers' = DOMAIN xfers,
         \A j \in DOMAIN xfers : /\ xfers'[j].listed = xfers[j].listed /\ xfers'[j].fh = xfers[j].fh
                                 /\ Light(xfers[j], xfers'[j])
  PROVE  TInv'
<1>1. \A j \in DOMAIN xfers : Loaded(xfers'[j], disk') BY LoadedGrown, LightLoaded DEF TInv, Whole
<1>2. Wires' BY DEF TInv, Wires
<1>. QED BY <1>1, <1>2, TypesKept DEF Grows

(* A transfer's step.                                                      *)
LEMMA TransferTypes ==
  ASSUME IInv, TInv, NEW i \in DOMAIN xfers, Transfer(i)
  PROVE  TInv'
<1>1. Fit(xfers[i]) /\ xfers[i].conn \in DOMAIN conns /\ Nets /\ Fitting /\ Handles BY DEF IInv, Tables, Fitting
<1>2. PICK y : Steps(i, y) BY <1>1, TransferSteps
<1>3. PICK z : xfers' = [xfers EXCEPT ![i] = z] /\ Loaded(z, disk') /\ Grows(disk, disk') /\ Wires'
  BY <1>1, TransferMoves DEF Ready, Moves
<1>4. DOMAIN xfers' = DOMAIN xfers /\ xfers'[i] = z /\ \A j \in DOMAIN xfers : j # i => xfers'[j] = xfers[j] BY <1>3
<1>5. z = y BY <1>1, <1>2, <1>4, StepsXfers
<1>6. /\ UNCHANGED handles /\ y.listed = xfers[i].listed /\ y.fh = xfers[i].fh
      /\ main' = main \/ main' = Kill(main)
  BY <1>2 DEF Steps, Goes
<1>7. \A j \in DOMAIN xfers : j # i => Loaded(xfers[j], disk') BY <1>3, LoadedGrown DEF TInv, Whole
<1>8. Counting'
  <2>1. CASE main' = main BY <2>1 DEF TInv, Counting, T, A
  <2>2. CASE main' = Kill(main)
    <3>1. /\ main'.pc \in {main.pc, "dead", "gone"} /\ main'.lastnum = main.lastnum /\ main'.wait = main.wait
          /\ main'.nprocdone = main.nprocdone /\ main'.cmd = main.cmd /\ main'.args = main.args
      BY <2>2 DEF Kill, IInv, Mind
    <3>. QED BY <3>1 DEF TInv, Counting, T, A
  <2>. QED BY <1>6, <2>1, <2>2
<1>. QED BY <1>1, <1>3, <1>4, <1>5, <1>6, <1>7, <1>8, TypesKept DEF Grows

-----------------------------------------------------------------------------
(* The counts of the control process. *)

(* It is done with the command.                                            *)
LEMMA IdleIs ==
  ASSUME Mind, NEW m, m = Idle(main)
  PROVE  /\ DOMAIN m = DOMAIN main /\ m.pc = "check" /\ m.cmd = NoCmd /\ m.lastnum = main.lastnum
         /\ m.wait = main.wait /\ m.nprocdone = main.nprocdone
<1>. QED BY DEF Mind, Idle

LEMMA NoCmdCounts ==
  ASSUME main'.cmd = NoCmd, main'.pc \in {"check", "kill"}, main'.lastnum \in 0 .. Len(Digit),
         main'.wait \in Int, main'.nprocdone \in Nat
  PROVE  Counting'
<1>1. NoCmd.cname = "" BY DEF NoCmd
<1>. QED BY <1>1 DEF Counting, T, A

LEMMA IdleCounts ==
  ASSUME Mind, Counting, main' = Idle(main)
  PROVE  Counting'
<1>1. PICK m : m = Idle(main) OBVIOUS
<1>2. /\ m.pc = "check" /\ m.cmd = NoCmd /\ m.lastnum = main.lastnum
      /\ m.wait = main.wait /\ m.nprocdone = main.nprocdone
  BY <1>1, IdleIs
<1>3. main' = m BY <1>1
<1>4. main.lastnum \in 0 .. Len(Digit) /\ main.wait \in Int /\ main.nprocdone \in Nat BY DEF Counting
<1>. QED BY <1>2, <1>3, <1>4, NoCmdCounts

LEMMA EndCounts ==
  ASSUME Mind, Counting, NEW pc \in {"dead", "gone"}, main' = [main EXCEPT !.pc = pc]
  PROVE  Counting'
<1>1. /\ main'.pc = pc /\ main'.lastnum = main.lastnum /\ main'.wait = main.wait
      /\ main'.nprocdone = main.nprocdone /\ main'.cmd = main.cmd /\ main'.args = main.args
  BY DEF Mind
<1>. QED BY <1>1 DEF Counting, T, A

LEMMA CrashCounts == ASSUME Mind, Counting, Crash PROVE Counting'
<1>. QED BY EndCounts DEF Crash

LEMMA CtlTypes ==
  ASSUME IInv, TInv, UNCHANGED <<handles, xfers, conns>>, Grows(disk, disk'), main' = Idle(main) \/ Crash
  PROVE  TInv'
<1>1. Counting' BY IdleCounts, CrashCounts DEF IInv, TInv
<1>. QED BY <1>1, SameTypes DEF IInv, Tables

LEMMA StillTypes ==
  ASSUME IInv, TInv, UNCHANGED <<handles, xfers, conns, disk>>, main' = Idle(main) \/ Crash
  PROVE  TInv'
<1>1. Grows(disk, disk') BY SelfGrows DEF TInv
<1>. QED BY <1>1, CtlTypes

LEMMA AnswersTypes ==
  ASSUME IInv, TInv, NEW code, NEW results, NEW k, Answers(code, results, k), Grows(disk, k)
  PROVE  TInv'
<1>1. UNCHANGED <<handles, xfers, conns>> /\ disk' = k /\ main' = Idle(main) BY DEF Answers
<1>. QED BY <1>1, CtlTypes

LEMMA ErrsTypes == ASSUME IInv, TInv, NEW code, Errs(code) PROVE TInv'
<1>1. Grows(disk, disk) BY SelfGrows DEF TInv
<1>. QED BY <1>1, AnswersTypes DEF Errs

-----------------------------------------------------------------------------
(* The control pipe, and what has exited. *)
LEMMA CheckTypes ==
  ASSUME IInv, TInv, xcheck
  PROVE  TInv'
<1>1. /\ main'.cmd = main.cmd /\ main'.pc # "put" /\ UNCHANGED <<conns, disk>>
      /\ "pc" \in DOMAIN main'
  BY CheckMain DEF IInv, xcheck, MainKept, Mind
<1>2. Counting'
  <2>1. PICK n : n = Len(ctlpipe) OBVIOUS
  <2>2. n \in Nat BY <2>1, SeqDomain DEF IInv, Tables, Posted
  <2>3. PICK p : p = main.nprocdone OBVIOUS
  <2>4. p \in Nat BY <2>3 DEF TInv, Counting
  <2>5. /\ main'.wait = n - p /\ main'.nprocdone = 0 /\ main'.lastnum = main.lastnum /\ main'.args = main.args
        /\ main'.pc \in {Then[main.pc], Waits[main.pc]} /\ main.pc \in {"check", "recheck"}
    BY <2>1, <2>3 DEF xcheck, IInv, Mind, Waits
  <2>6. main'.pc \in {"reap", "read", "rereap", "do"} BY <2>5 DEF Then, Waits
  <2>7. n - p \in Int BY <2>2, <2>4
  <2>8. main.lastnum \in 0 .. Len(Digit) /\ (T.cname \in {"CLOSE", "FILEPOS", "CONTINUE"} => A.numbers["pos"] \in Nat)
    BY DEF TInv, Counting
  <2>. QED BY <1>1, <2>5, <2>6, <2>7, <2>8 DEF Counting, T, A
<1>3. DOMAIN xfers' = DOMAIN xfers /\ \A j \in DOMAIN xfers : ~Announced(j) => xfers'[j] = xfers[j]
  BY CheckXfers DEF IInv
<1>4. ASSUME NEW j \in DOMAIN xfers PROVE Loaded(xfers'[j], disk)
  <2>1. Loaded(xfers[j], disk) BY DEF TInv, Whole
  <2>2. CASE Announced(j)
    <3>1. xfers'[j] = [xfers[j] EXCEPT !.listed = FALSE] BY <2>2 DEF xcheck
    <3>2. Light(xfers[j], xfers'[j]) BY <2>1, <3>1 DEF Light, Loaded, Body
    <3>. QED BY <2>1, <3>2, LightLoaded
  <2>. QED BY <1>3, <2>1, <2>2
<1>5. Whole' BY <1>1, <1>3, <1>4 DEF Whole
<1>6. Paired'
  <2>1. handles' = [h \in DOMAIN handles |->
                      IF Announced(handles[h].xfer) THEN [handles[h] EXCEPT !.xfer = 0] ELSE handles[h]]
    BY DEF xcheck
  <2>2. /\ DOMAIN handles' = DOMAIN handles
        /\ \A h \in DOMAIN handles : /\ HandleOK(handles[h])
                                     /\ handles'[h].other = handles[h].other
                                     /\ IF Announced(handles[h].xfer) THEN handles'[h].xfer = 0
                                                                      ELSE handles'[h].xfer = handles[h].xfer
    BY <2>1 DEF IInv, Tables, Handles, HandleOK
  <2>3. ASSUME NEW h \in DOMAIN handles, handles'[h].xfer # 0
        PROVE  xfers'[handles'[h].xfer].listed /\ xfers'[handles'[h].xfer].fh = h
    <3>1. ~Announced(handles[h].xfer) /\ handles'[h].xfer = handles[h].xfer BY <2>2, <2>3
    <3>2. handles[h].xfer \in DOMAIN xfers BY <2>2, <2>3, <3>1 DEF HandleOK
    <3>3. xfers'[handles[h].xfer] = xfers[handles[h].xfer] BY <1>3, <3>1, <3>2
    <3>. QED BY <2>3, <3>1, <3>3 DEF TInv, Paired
  <2>. QED BY <2>2, <2>3 DEF TInv, Paired
<1>7. Wires' BY <1>1 DEF TInv, Wires
<1>. QED BY <1>1, <1>2, <1>5, <1>6, <1>7 DEF TInv

(* Some that have exited are waited for.                                   *)
LEMMA BuriedLight ==
  ASSUME IInv, TInv, NEW S \in SUBSET Zombies,
         xfers' = [j \in DOMAIN xfers |-> IF j \in S THEN [xfers[j] EXCEPT !.pc = "gone"] ELSE xfers[j]]
  PROVE  /\ DOMAIN xfers' = DOMAIN xfers
         /\ \A j \in DOMAIN xfers : /\ xfers'[j].listed = xfers[j].listed /\ xfers'[j].fh = xfers[j].fh
                                    /\ Light(xfers[j], xfers'[j])
<1>1. ASSUME NEW j \in DOMAIN xfers
      PROVE  /\ xfers'[j].listed = xfers[j].listed /\ xfers'[j].fh = xfers[j].fh
             /\ Light(xfers[j], xfers'[j])
  <2>1. PICK x : x = xfers[j] OBVIOUS
  <2>2. Loaded(x, disk) /\ Shape(x) BY <2>1 DEF TInv, Whole, IInv, Tables, Fitting, Fit
  <2>3. xfers'[j] = IF j \in S THEN [x EXCEPT !.pc = "gone"] ELSE x BY <2>1
  <2>4. Light(x, xfers'[j]) /\ xfers'[j].listed = x.listed /\ xfers'[j].fh = x.fh
    <3>1. CASE j \in S BY <2>2, <2>3, <3>1 DEF Light, Loaded, Body, Shape, Core
    <3>2. CASE j \notin S BY <2>2, <2>3, <3>2 DEF Light, Loaded, Body
    <3>. QED BY <3>1, <3>2
  <2>. QED BY <2>1, <2>4
<1>. QED BY <1>1

LEMMA FlushTypes == ASSUME IInv, TInv, xflush PROVE TInv'
<1>. QED BY StillTypes DEF xflush

LEMMA ReapTypes ==
  ASSUME IInv, TInv, Reap
  PROVE  TInv'
<1>1. main.pc \in {"reap", "rereap"} /\ UNCHANGED <<handles, conns, disk>> BY DEF Reap
<1>2. Grows(disk, disk') BY <1>1, SelfGrows DEF TInv
<1>3. ASSUME NEW i \in Zombies,
        xfers' = [xfers EXCEPT ![i].pc = "gone"],
        main' = [main EXCEPT !.wait = @ - 1, !.pc = IF main.wait = 1 THEN Then[@] ELSE @]
      PROVE  TInv'
  <2>1. PICK S : S = {i} OBVIOUS
  <2>2. S \subseteq Zombies BY <2>1
  <2>3. xfers' = [j \in DOMAIN xfers |-> IF j \in S THEN [xfers[j] EXCEPT !.pc = "gone"] ELSE xfers[j]]
    BY <1>3, <2>1
  <2>4. PICK w : w = main.wait OBVIOUS
  <2>5. w \in Int BY <2>4 DEF TInv, Counting
  <2>6. /\ main'.cmd = main.cmd /\ main'.args = main.args /\ main'.pc \in {main.pc, Then[main.pc]}
        /\ main'.wait = w - 1 /\ main'.lastnum = main.lastnum /\ main'.nprocdone = main.nprocdone
    BY <1>3, <2>4 DEF IInv, Mind
  <2>7. main'.pc \in {"reap", "read", "rereap", "do"} BY <1>1, <2>6 DEF Then
  <2>8. w - 1 \in Int BY <2>5
  <2>9. Counting' BY <2>6, <2>7, <2>8 DEF TInv, Counting, T, A
  <2>. QED BY <1>1, <1>2, <2>2, <2>3, <2>9, BuriedLight, LightTypes DEF IInv, Tables
<1>4. CASE Crash /\ UNCHANGED xfers BY <1>1, <1>4, StillTypes
<1>. QED BY <1>3, <1>4 DEF Reap

-----------------------------------------------------------------------------
(* The arguments of a command whose text is at most one number. *)
Parsed(syntax, b, s) == FoldLeft(LAMBDA c, i : Element(c, syntax, i), b, s)

LEMMA NoElements ==
  ASSUME NEW syntax, NEW b, NEW s, DOMAIN s = {}
  PROVE  Parsed(syntax, b, s) = b
<1> DEFINE g == [t \in SUBSET {} |-> b]
<1>. QED BY DEF Parsed, FoldLeft, MapThenFoldSet

LEMMA OneElement ==
  ASSUME NEW syntax, NEW b, NEW s, DOMAIN s = {1}
  PROVE  Parsed(syntax, b, s) = Element(b, syntax, s[1])
<1> DEFINE e == Element(b, syntax, s[1])
           g == [t \in SUBSET {1} |-> IF t = {} THEN b ELSE e]
           R(it) == it = [t \in SUBSET {1} |-> IF t = {} THEN b ELSE Element(it[t \ {Max(t)}], syntax, s[Max(t)])]
           h == CHOOSE it : R(it)
<1>1. Max({1}) = 1 BY DEF Max
<1>2. R(g)
  <2>1. ASSUME NEW t \in SUBSET {1} 
        PROVE  (IF t = {} THEN b ELSE Element(g[t \ {Max(t)}], syntax, s[Max(t)])) = IF t = {} THEN b ELSE e
    <3>1. CASE t = {} BY <3>1
    <3>2. CASE t = {1}
      <4>1. t \ {Max(t)} = {} BY <1>1, <3>2
      <4>2. g[{}] = b OBVIOUS
      <4>. QED BY <1>1, <3>2, <4>1, <4>2
    <3>. QED BY <3>1, <3>2
  <2>. QED BY <2>1
<1>3. R(h) BY <1>2
<1>4. h[{}] = b
  <2> HIDE DEF h
  <2>. QED BY <1>3
<1>5. h[{1}] = e
  <2> HIDE DEF h
  <2>1. h[{1}] = Element(h[{1} \ {Max({1})}], syntax, s[Max({1})]) BY <1>3
  <2>2. {1} \ {Max({1})} = {} BY <1>1
  <2>. QED BY <2>1, <2>2, <1>1, <1>4
<1>6. Parsed(syntax, b, s) = h[{1}]
  BY Zenon DEF Parsed, FoldLeft, MapThenFoldSet
<1>. QED BY <1>5, <1>6

LEMMA ParsedIs ==
  ASSUME NEW fh, NEW args, NEW cname, NEW x, x = Syntax(cname, fh, Len(args)),
         NEW a, a = Parsed(x, ainit(args), [i \in 1 .. Len(x) |-> i])
  PROVE  parseargs(cname, fh, args) = Ends(a, "BUG") \/ parseargs(cname, fh, args) = Ends(a, "none")
         \/ parseargs(cname, fh, args) = a
<1>1. CASE x = << >> /\ args # << >> BY <1>1 DEF parseargs, Parsed, FoldLeft, MapThenFoldSet
<1>2. CASE ~(x = << >> /\ args # << >>) /\ a.end = "end" BY <1>2 DEF parseargs, Parsed, FoldLeft, MapThenFoldSet
<1>3. CASE ~(x = << >> /\ args # << >>) /\ a.end # "end" BY <1>3 DEF parseargs, Parsed, FoldLeft, MapThenFoldSet
<1>. QED BY <1>1, <1>2, <1>3

(* What stands for a position is a number.                                *)
LEMMA PosIs ==
  ASSUME NEW fh, NEW args, NEW cname \in {"CLOSE", "CONTINUE", "FILEPOS"}
  PROVE  parseargs(cname, fh, args).numbers["pos"] \in Nat
<1>1. PICK x : x = Syntax(cname, fh, Len(args)) OBVIOUS
<1> DEFINE s == [i \in 1 .. Len(x) |-> i]
<1>2. PICK a : a = Parsed(x, ainit(args), s) OBVIOUS
<1>3. "numbers" \in DOMAIN a /\ "pos" \in DOMAIN a.numbers /\ a.numbers["pos"] \in Nat /\ "end" \in DOMAIN a
  <2>0. PICK z : z = ainit(args) OBVIOUS
  <2>1. /\ {"numbers", "end", "rest"} \subseteq DOMAIN z /\ "pos" \in DOMAIN z.numbers /\ z.numbers["pos"] = 0
        /\ z.end = "none"
    BY <2>0 DEF ainit
  <2>2. CASE cname \in {"CLOSE", "CONTINUE"}
    <3>1. x = << >> BY <1>1, <2>2 DEF Syntax
    <3>2. DOMAIN s = {} BY <3>1
    <3> HIDE DEF s
    <3>3. a = z BY <1>2, <2>0, <3>2, NoElements
    <3>. QED BY <2>1, <3>3
  <2>3. CASE cname = "FILEPOS"
    <3>1. x = <<"NUMBER">> BY <1>1, <2>3 DEF Syntax
    <3>2. DOMAIN s = {1} /\ s[1] = 1 BY <3>1
    <3> HIDE DEF s
    <3>3. a = Element(z, x, 1) BY <1>2, <2>0, <3>2, OneElement
    <3>4. x[1] = "NUMBER" BY <3>1
    <3>5. PICK w : w = Head(z.rest) OBVIOUS
    <3>6. Element(z, x, 1) =
            IF IsDigits(z.rest) THEN [z EXCEPT !.numbers["pos"] = NumberOf[w], !.rest = Tail(@)] ELSE Ends(z, "BUG")
      BY <2>1, <3>4, <3>5 DEF Element
    <3>7. CASE IsDigits(z.rest)
      <4>1. NumberOf[w] \in Nat BY <3>5, <3>7, NumberAssumption DEF IsDigits
      <4>. QED BY <2>1, <3>3, <3>6, <3>7, <4>1
    <3>8. CASE ~IsDigits(z.rest) BY <2>1, <3>3, <3>6, <3>8 DEF Ends
    <3>. QED BY <3>7, <3>8
  <2>. QED BY <2>2, <2>3
<1>4. \/ parseargs(cname, fh, args) = Ends(a, "BUG") \/ parseargs(cname, fh, args) = Ends(a, "none")
      \/ parseargs(cname, fh, args) = a
  BY <1>1, <1>2, ParsedIs
<1>. QED BY <1>3, <1>4 DEF Ends

-----------------------------------------------------------------------------
(* Commands to a transfer. *)
LEMMA ReadTypes ==
  ASSUME IInv, TInv, ReadCommand
  PROVE  TInv'
<1>1. UNCHANGED <<handles, xfers, conns, disk>> BY DEF ReadCommand
<1>2. Grows(disk, disk') BY <1>1, SelfGrows DEF TInv
<1>3. PICK t : t = Head(control) OBVIOUS
<1>4. PICK a : a = IF t.cname \in Commands THEN parseargs(t.cname, t.fh # "", t.args) ELSE main.args OBVIOUS
<1>5. main' = [main EXCEPT !.cmd = t, !.pc = "recheck", !.args = a] BY <1>3, <1>4 DEF ReadCommand
<1>6. /\ main'.cmd = t /\ main'.args = a /\ main'.pc = "recheck" /\ main'.wait = main.wait
      /\ main'.nprocdone = main.nprocdone /\ main'.lastnum = main.lastnum
  BY <1>5 DEF IInv, Mind
<1>7. t.cname \in {"CLOSE", "FILEPOS", "CONTINUE"} => a.numbers["pos"] \in Nat
  <2>1. ASSUME t.cname \in {"CLOSE", "FILEPOS", "CONTINUE"} PROVE a.numbers["pos"] \in Nat
    <3>1. t.cname \in Commands BY <2>1 DEF Commands, Flags
    <3>2. a = parseargs(t.cname, t.fh # "", t.args) BY <1>4, <3>1
    <3>. QED BY <2>1, <3>2, PosIs
  <2>. QED BY <2>1
<1>8. Counting' BY <1>6, <1>7 DEF TInv, Counting, T, A
<1>. QED BY <1>1, <1>2, <1>8, SameTypes DEF IInv, Tables

LEMMA FinishTypes ==
  ASSUME IInv, TInv, finish \/ Refused
  PROVE  TInv'
<1>1. CASE finish
  <2>1. UNCHANGED <<handles, xfers, conns, disk>> /\ main' = [main EXCEPT !.pc = "gone"] BY <1>1 DEF finish
  <2>2. Counting' BY <2>1, EndCounts DEF IInv, TInv
  <2>3. Grows(disk, disk') BY <2>1, SelfGrows DEF TInv
  <2>. QED BY <2>1, <2>2, <2>3, SameTypes DEF IInv, Tables
<1>2. CASE Refused
  <2>1. UNCHANGED <<handles, xfers, conns, disk>> /\ (main' = Idle(main) \/ Crash) BY <1>2 DEF Refused
  <2>. QED BY <2>1, StillTypes
<1>. QED BY <1>1, <1>2

LEMMA SignalTypes ==
  ASSUME IInv, TInv, SendSignal
  PROVE  TInv'
<1> DEFINE v == main.victim
           s == xfers[v].sig \/ (Live(v) /\ xfers[v].handler = "int")
           y == [xfers[v] EXCEPT !.sig = s]
<1>1. UNCHANGED <<handles, conns, disk>> BY DEF SendSignal
<1>2. Grows(disk, disk') BY <1>1, SelfGrows DEF TInv
<1>3. xfers' = [xfers EXCEPT ![v] = y] BY DEF SendSignal
<1>4. DOMAIN xfers' = DOMAIN xfers /\ \A i \in DOMAIN xfers : i # v => xfers'[i] = xfers[i] BY <1>3
<1>5. v \in DOMAIN xfers => xfers'[v] = y BY <1>3
<1>6. ASSUME NEW j \in DOMAIN xfers
      PROVE  /\ xfers'[j].listed = xfers[j].listed /\ xfers'[j].fh = xfers[j].fh
             /\ Light(xfers[j], xfers'[j])
  <2>1. PICK x : x = xfers[j] OBVIOUS
  <2>2. Loaded(x, disk) /\ Shape(x) BY <2>1 DEF TInv, Whole, IInv, Tables, Fitting, Fit
  <2>3. PICK t : t = s OBVIOUS
  <2>4. xfers'[j] = x \/ xfers'[j] = [x EXCEPT !.sig = t] BY <1>4, <1>5, <2>1, <2>3
  <2>. HIDE DEF y, s, v
  <2>5. CASE xfers'[j] = x BY <2>1, <2>2, <2>5 DEF Light, Loaded
  <2>6. CASE xfers'[j] = [x EXCEPT !.sig = t] BY <2>1, <2>2, <2>6 DEF Light, Loaded, Body, Shape, Core
  <2>. QED BY <2>4, <2>5, <2>6
<1>7. Counting'
  <2>1. main' = [main EXCEPT !.pc = "check", !.victim = 0] BY DEF SendSignal
  <2>2. /\ main'.pc = "check" /\ main'.lastnum = main.lastnum /\ main'.wait = main.wait
        /\ main'.nprocdone = main.nprocdone /\ main'.cmd = main.cmd /\ main'.args = main.args
    BY <2>1 DEF IInv, Mind
  <2>. QED BY <2>2 DEF TInv, Counting, T, A
<1>. QED BY <1>1, <1>2, <1>4, <1>6, <1>7, LightTypes DEF IInv, Tables

(* A transfer is told something: a position is a number.                   *)
LEMMA ToldTypes ==
  ASSUME IInv, TInv, NEW j \in DOMAIN xfers, NEW m, m.cname = "FILEPOS" => m.n \in Nat,
         xfers' = [xfers EXCEPT ![j].pipe = Append(@, m)], UNCHANGED <<handles, conns>>, Grows(disk, disk'), Counting'
  PROVE  TInv'
<1>1. PICK x, p, q : x = xfers[j] /\ p = x.pipe /\ q = Append(p, m) OBVIOUS
<1>2. PICK y : y = [x EXCEPT !.pipe = q] OBVIOUS
<1>3. Loaded(x, disk) /\ Shape(x) /\ IsSeq(p) BY <1>1 DEF TInv, Whole, IInv, Tables, Fitting, Fit, PipeOK
<1>4. Numbered(q)
  <2>1. DOMAIN q = 1 .. (Len(p) + 1) /\ q[Len(p) + 1] = m /\ \A k \in DOMAIN p : q[k] = p[k] BY <1>1, <1>3, AppendSeq
  <2>2. DOMAIN p = 1 .. Len(p) /\ Len(p) \in Nat BY <1>3, SeqDomain
  <2>3. \A k \in DOMAIN q : k \in DOMAIN p \/ k = Len(p) + 1 BY <2>1, <2>2
  <2>4. Numbered(p) BY <1>1, <1>3 DEF Loaded
  <2>. QED BY <2>1, <2>3, <2>4 DEF Numbered
<1>5. Body \subseteq DOMAIN x BY <1>3 DEF Loaded
<1>6. /\ Body \subseteq DOMAIN y /\ y.state = x.state /\ y.kind = x.kind /\ y.ino = x.ino /\ y.pos = x.pos
      /\ y.buf = x.buf /\ y.left = x.left /\ y.pkt = x.pkt /\ y.pipe = q /\ y.listed = x.listed /\ y.fh = x.fh
  BY <1>2, <1>3, <1>5 DEF Body, Shape, Core
<1>7. Loaded(y, disk) BY <1>3, <1>4, <1>6 DEF Loaded, OnFile, Buffers
<1>8. xfers' = [xfers EXCEPT ![j] = y] BY <1>1, <1>2
<1>9. DOMAIN xfers' = DOMAIN xfers /\ xfers'[j] = y /\ \A i \in DOMAIN xfers : i # j => xfers'[i] = xfers[i] BY <1>8
<1>10. \A i \in DOMAIN xfers : Loaded(xfers'[i], disk) BY <1>7, <1>9 DEF TInv, Whole
<1>11. Wires' BY DEF TInv, Wires
<1>12. \A i \in DOMAIN xfers : xfers'[i].listed = xfers[i].listed /\ xfers'[i].fh = xfers[i].fh BY <1>1, <1>6, <1>9
<1>13. \A i \in DOMAIN xfers : Loaded(xfers'[i], disk') BY <1>10, LoadedGrown
<1>. QED BY <1>9, <1>11, <1>12, <1>13, TypesKept DEF IInv, Tables, Grows

LEMMA TellTypes ==
  ASSUME IInv, TInv, NEW j \in DOMAIN xfers, NEW m, m.cname = "FILEPOS" => m.n \in Nat, NEW next,
         Tell(j, m, next), UNCHANGED <<handles, conns>>, Grows(disk, disk'), main' = next => Counting'
  PROVE  TInv'
<1>1. CASE Live(j)
  <2>1. xfers' = [xfers EXCEPT ![j].pipe = Append(@, m)] /\ main' = next BY <1>1 DEF Tell
  <2>. QED BY <2>1, ToldTypes
<1>2. CASE ~Live(j)
  <2>1. Crash /\ UNCHANGED xfers BY <1>2 DEF Tell
  <2>. QED BY <2>1, CtlTypes
<1>. QED BY <1>1, <1>2

LEMMA SendTypes ==
  ASSUME IInv, TInv, NEW j \in DOMAIN xfers, NEW m, m.cname = "FILEPOS" => m.n \in Nat,
         sendcmd(j, m), UNCHANGED <<handles, conns>>, Grows(disk, disk')
  PROVE  TInv'
<1>1. PICK next : next = IF Interrupts(j, m.cname) THEN [Idle(main) EXCEPT !.pc = "kill", !.victim = j] ELSE Idle(main)
  OBVIOUS
<1>2. Tell(j, m, next) BY <1>1 DEF sendcmd
<1>3. ASSUME main' = next PROVE Counting'
  <2>1. PICK w : w = Idle(main) OBVIOUS
  <2>2. /\ DOMAIN w = DOMAIN main /\ w.pc = "check" /\ w.cmd = NoCmd /\ w.lastnum = main.lastnum
        /\ w.wait = main.wait /\ w.nprocdone = main.nprocdone
    BY <2>1, IdleIs DEF IInv
  <2>3. main' = w \/ main' = [w EXCEPT !.pc = "kill", !.victim = j] BY <1>1, <1>3, <2>1
  <2>4. /\ main'.pc \in {"check", "kill"} /\ main'.cmd = NoCmd /\ main'.lastnum = main.lastnum
        /\ main'.wait = main.wait /\ main'.nprocdone = main.nprocdone
    BY <2>2, <2>3 DEF IInv, Mind
  <2>5. main.lastnum \in 0 .. Len(Digit) /\ main.wait \in Int /\ main.nprocdone \in Nat BY DEF TInv, Counting
  <2>. QED BY <2>4, <2>5, NoCmdCounts
<1>. QED BY <1>2, <1>3, TellTypes

LEMMA XcommandTypes ==
  ASSUME IInv, TInv, xcommand
  PROVE  TInv'
<1>1. main.pc = "do" /\ Refusal = "none" /\ "XFER" \in Flag BY DEF xcommand
<1>2. T.cname \in {"CLOSE", "FILEPOS", "CONTINUE"} /\ Flag \cap {"FHMUST", "FHINPUT"} # {}
  BY <1>1 DEF Flag, Unknown, Commands, Flags
<1>3. T.fh \in DOMAIN handles BY <1>1, <1>2, Granted
<1>4. CASE Fh.xfer = 0
  <2>1. Errs("BUG") BY <1>4 DEF xcommand
  <2>. QED BY <2>1, ErrsTypes
<1>5. CASE Fh.xfer # 0
  <2>1. PICK j : j = Fh.xfer OBVIOUS
  <2>2. PICK m : m = Msg(T.tid, T.cname, A.numbers["pos"]) OBVIOUS
  <2>3. sendcmd(j, m) /\ UNCHANGED <<handles, conns, disk>> BY <1>5, <2>1, <2>2 DEF xcommand
  <2>4. j \in DOMAIN xfers BY <1>3, <1>5, <2>1, OnIt DEF IInv
  <2>5. m.n = A.numbers["pos"] BY <2>2 DEF Msg
  <2>6. m.n \in Nat BY <1>2, <2>5 DEF TInv, Counting
  <2>7. Grows(disk, disk') BY <2>3, SelfGrows DEF TInv
  <2>. QED BY <2>3, <2>4, <2>6, <2>7, SendTypes
<1>. QED BY <1>4, <1>5

-----------------------------------------------------------------------------
(* Connections and users. *)

LEMMA NewHandlesTypes ==
  ASSUME IInv, TInv, NEW in, NEW out, NewHandles(in, out), UNCHANGED <<xfers, disk>>, main' = Idle(main)
  PROVE  TInv'
<1>1. Counting' BY IdleCounts DEF IInv, TInv
<1>2. PICK d : d = Len(conns) + 1 OBVIOUS
<1>3. /\ DOMAIN handles' = DOMAIN handles \cup {in, out}
      /\ \A h \in DOMAIN handles : h \notin {in, out} /\ handles'[h] = handles[h]
      /\ handles'[in] = NewHandle("INPUT", d, out)
      /\ in # out => handles'[out] = NewHandle("OUTPUT", d, in)
  BY <1>2 DEF NewHandles
<1>4. \A type, other : NewHandle(type, d, other).other = other /\ NewHandle(type, d, other).xfer = 0
  BY DEF NewHandle
<1>5. Paired'
  <2>1. ASSUME NEW h \in DOMAIN handles'
        PROVE  /\ handles'[h].other \in DOMAIN handles' /\ handles'[handles'[h].other].other = h
               /\ handles'[h].xfer # 0 => xfers[handles'[h].xfer].listed /\ xfers[handles'[h].xfer].fh = h
    <3>1. CASE h \in DOMAIN handles
      <4>1. handles[h].other \in DOMAIN handles /\ handles'[h] = handles[h] BY <1>3, <3>1 DEF TInv, Paired
      <4>2. handles'[handles[h].other] = handles[handles[h].other] BY <1>3, <4>1
      <4>. QED BY <1>3, <3>1, <4>1, <4>2 DEF TInv, Paired
    <3>2. CASE h \in {in, out} BY <1>3, <1>4, <3>2
    <3>. QED BY <1>3, <3>1, <3>2
  <2>. QED BY <2>1 DEF Paired
<1>6. Wires'
  <2>1. IsSeq(conns) BY DEF IInv, Tables, Nets
  <2>2. /\ DOMAIN conns' = 1 .. (Len(conns) + 1) /\ Len(conns) \in Nat /\ DOMAIN conns = 1 .. Len(conns)
        /\ conns'[Len(conns) + 1] = NewConn /\ \A e \in DOMAIN conns : conns'[e] = conns[e]
    BY <2>1, AppendSeq, SeqDomain DEF NewHandles
  <2>3. \A e \in DOMAIN conns' : e \in DOMAIN conns \/ e = Len(conns) + 1 BY <2>2
  <2>4. Wire(NewConn)
    <3>1. /\ "out" \in DOMAIN NewConn /\ NewConn.in = << >> /\ NewConn.out = << >> BY DEF NewConn
    <3>2. << >> \in Seq(Packets) /\ Len(<< >>) = 0 OBVIOUS
    <3>. QED BY <3>1, <3>2, NoneSeq, FileAssumption DEF Wire
  <2>. QED BY <2>2, <2>3, <2>4 DEF TInv, Wires
<1>. QED BY <1>1, <1>5, <1>6 DEF TInv, Whole

LEMMA DataconnTypes ==
  ASSUME IInv, TInv, dataconn
  PROVE  TInv'
<1>1. PICK in, out : in = Head(A.strings[1]) /\ out = Head(A.strings[2]) OBVIOUS
<1>2. \/ Errs("BUG")
      \/ main' = Idle(main) /\ UNCHANGED <<handles, xfers, conns, disk>>
      \/ NewHandles(in, out) /\ main' = Idle(main) /\ UNCHANGED <<xfers, disk>>
  BY <1>1 DEF dataconn, NewHandles
<1>. QED BY <1>2, ErrsTypes, StillTypes, NewHandlesTypes

(* A connection is down.                                                   *)
LEMMA DownWires ==
  ASSUME Wires, Nets, NEW d, conns' = [conns EXCEPT ![d].up = FALSE]
  PROVE  Wires'
<1>1. DOMAIN conns' = DOMAIN conns OBVIOUS
<1>2. ASSUME NEW e \in DOMAIN conns
      PROVE  conns'[e].in = conns[e].in /\ conns'[e].out = conns[e].out /\ "out" \in DOMAIN conns'[e]
  <2>1. {"in", "out", "up"} \subseteq DOMAIN conns[e] BY DEF Nets
  <2>. QED BY <2>1
<1>. QED BY <1>1, <1>2 DEF Wires, Wire

LEMMA UndataconnTypes ==
  ASSUME IInv, TInv, undataconn
  PROVE  TInv'
<1>1. T.fh \in DOMAIN handles BY GrantedTo DEF undataconn
<1>2. CASE Errs("BUG") BY <1>2, ErrsTypes
<1>3. CASE ~Errs("BUG")
  <2>1. LessHandles /\ main' = Idle(main) /\ UNCHANGED <<xfers, disk>> BY <1>1, <1>3 DEF undataconn, LessHandles
  <2>2. Counting' BY <2>1, IdleCounts DEF IInv, TInv
  <2>3. PICK g : g = Fh.other OBVIOUS
  <2>4. /\ DOMAIN handles' = DOMAIN handles \ {T.fh, g}
        /\ \A h \in DOMAIN handles' : h \in DOMAIN handles /\ handles'[h] = handles[h]
    BY <2>1, <2>3 DEF LessHandles, Pair
  <2>5. Paired'
    <3>1. g \in DOMAIN handles /\ handles[g].other = T.fh /\ g = handles[T.fh].other
      BY <1>1, <2>3 DEF TInv, Paired, Fh
    <3>2. ASSUME NEW h \in DOMAIN handles' PROVE handles[h].other \in DOMAIN handles'
      <4>1. /\ h \in DOMAIN handles /\ h # T.fh /\ h # g
            /\ handles[h].other \in DOMAIN handles /\ handles[handles[h].other].other = h
        BY <2>4 DEF TInv, Paired
      <4>2. handles[h].other # T.fh /\ handles[h].other # g BY <3>1, <4>1
      <4>. QED BY <2>4, <4>1, <4>2
    <3>3. ASSUME NEW h \in DOMAIN handles'
          PROVE  /\ handles'[h].other \in DOMAIN handles' /\ handles'[handles'[h].other].other = h
                 /\ handles'[h].xfer # 0 => xfers[handles'[h].xfer].listed /\ xfers[handles'[h].xfer].fh = h
      BY <2>4, <3>2 DEF TInv, Paired
    <3>. QED BY <2>1, <3>3 DEF Paired
  <2>6. Wires'
    <3>1. PICK d : d = Fh.conn OBVIOUS
    <3>2. conns' = [conns EXCEPT ![d].up = FALSE] BY <2>1, <3>1 DEF LessHandles
    <3>. QED BY <3>2, DownWires DEF TInv, IInv, Tables
  <2>. QED BY <2>1, <2>2, <2>5, <2>6 DEF TInv, Whole
<1>. QED BY <1>2, <1>3

LEMMA LoginTypes ==
  ASSUME IInv, TInv, login
  PROVE  TInv'
<1>1. UNCHANGED <<handles, xfers, conns, disk>> BY DEF login
<1>2. PICK name : name = downcase(A.strings[1]) OBVIOUS
<1>3. \/ main' = [main EXCEPT !.pc = "gone"]
      \/ main' = Idle(main)
      \/ main' = [Idle(main) EXCEPT !.home = Passwd[name], !.cwd = Passwd[name]]
  BY <1>2 DEF login
<1>4. Grows(disk, disk') BY <1>1, SelfGrows DEF TInv
<1>5. Counting'
  <2>1. CASE main' = [main EXCEPT !.pc = "gone"] BY <2>1, EndCounts DEF IInv, TInv
  <2>2. CASE main' = Idle(main) BY <2>2, IdleCounts DEF IInv, TInv
  <2>3. CASE main' = [Idle(main) EXCEPT !.home = Passwd[name], !.cwd = Passwd[name]]
    <3>1. PICK w : w = Idle(main) OBVIOUS
    <3>2. /\ DOMAIN w = DOMAIN main /\ w.pc = "check" /\ w.cmd = NoCmd /\ w.lastnum = main.lastnum
          /\ w.wait = main.wait /\ w.nprocdone = main.nprocdone
      BY <3>1, IdleIs DEF IInv
    <3>3. PICK dir : dir = Passwd[name] OBVIOUS
    <3>4. main' = [w EXCEPT !.home = dir, !.cwd = dir] BY <2>3, <3>1, <3>3
    <3>5. /\ main'.pc = "check" /\ main'.cmd = NoCmd /\ main'.lastnum = main.lastnum
          /\ main'.wait = main.wait /\ main'.nprocdone = main.nprocdone
      BY <3>2, <3>4 DEF IInv, Mind
    <3>6. main.lastnum \in 0 .. Len(Digit) /\ main.wait \in Int /\ main.nprocdone \in Nat BY DEF TInv, Counting
    <3>. QED BY <3>5, <3>6, NoCmdCounts
  <2>. QED BY <1>3, <2>1, <2>2, <2>3
<1>. QED BY <1>1, <1>4, <1>5, SameTypes DEF IInv, Tables

-----------------------------------------------------------------------------
(* OPEN *)

(* What opening comes to: a file that is there, or an error.               *)
Result(r) ==
  /\ Grows(disk, r.disk) /\ r.lastnum \in 0 .. Len(Digit)
  /\ r.code = "none" => r.ino \in DOMAIN r.disk.files

LEMMA OpenedResult ==
  ASSUME NEW k, Grows(disk, k), NEW ino \in DOMAIN k.files, NEW temp, NEW n \in 0 .. Len(Digit), NEW r,
         r = [Opened(k, ino, temp) EXCEPT !.lastnum = n]
  PROVE  Result(r)
<1>1. r.disk = k /\ r.ino = ino /\ r.lastnum = n BY DEF Opened
<1>. QED BY <1>1 DEF Result

LEMMA NotOpenedResult ==
  ASSUME IsDisk(disk), NEW code, code # "none", NEW n \in 0 .. Len(Digit), NEW r,
         r = [NotOpened(code) EXCEPT !.lastnum = n]
  PROVE  Result(r)
<1>1. r.disk = disk /\ r.code = code /\ r.lastnum = n BY DEF Opened, NotOpened
<1>. QED BY <1>1, SelfGrows DEF Result

LEMMA NotOpenedHere ==
  ASSUME IsDisk(disk), NEW code, code # "none", main.lastnum \in 0 .. Len(Digit)
  PROVE  Result(NotOpened(code))
<1>1. PICK r : r = NotOpened(code) OBVIOUS
<1>2. r.disk = disk /\ r.code = code /\ r.lastnum = main.lastnum BY <1>1 DEF Opened, NotOpened
<1>. QED BY <1>1, <1>2, SelfGrows DEF Result

LEMMA OpenedHere ==
  ASSUME IsDisk(disk), NEW n \in Names(disk), main.lastnum \in 0 .. Len(Digit)
  PROVE  Result(Opened(disk, disk.names[n], NoFile))
<1>1. PICK r : r = Opened(disk, disk.names[n], NoFile) OBVIOUS
<1>2. r.disk = disk /\ r.ino = disk.names[n] /\ r.lastnum = main.lastnum BY <1>1 DEF Opened
<1>3. disk.names[n] \in DOMAIN disk.files BY DEF IsDisk
<1>. QED BY <1>1, <1>2, <1>3, SelfGrows DEF Result

LEMMA CannotWriteIs == ASSUME NEW err, NEW dir PROVE CannotWrite(err, dir) # "none"
<1>1. CASE err = "EACCES" BY <1>1 DEF CannotWrite
<1>2. CASE err \in {"ENOENT", "ENOTDIR"} BY <1>2 DEF CannotWrite
<1>3. CASE err = "EISDIR" BY <1>3 DEF CannotWrite
<1>4. CASE err = "ENOSPC" BY <1>4 DEF CannotWrite
<1>5. CASE err \notin {"EACCES", "ENOENT", "ENOTDIR", "EISDIR", "ENOSPC"} BY <1>5 DEF CannotWrite
<1>. QED BY <1>1, <1>2, <1>3, <1>4, <1>5

LEMMA CreateResult ==
  ASSUME IsDisk(disk), NEW n, NEW dir, NEW full, NEW temp, NEW lastnum \in 0 .. Len(Digit)
  PROVE  Result(Create(n, dir, full, temp, lastnum))
<1>1. PICK r : r = IF full THEN Fails(disk, "ENOSPC") ELSE Creat(disk, n, 0) OBVIOUS
<1>2. Grows(disk, r.disk) /\ (r.err = "OK" => r.disk.names[n] \in DOMAIN r.disk.files)
  <2>1. CASE full
    <3>1. r.err = "ENOSPC" /\ r.disk = disk BY <1>1, <2>1 DEF Fails
    <3>. QED BY <3>1, SelfGrows
  <2>2. CASE ~full BY <1>1, <2>2, CreatGrows
  <2>. QED BY <2>1, <2>2
<1>3. CASE r.err # "OK"
  <2>1. Create(n, dir, full, temp, lastnum) = [NotOpened(CannotWrite(r.err, dir)) EXCEPT !.lastnum = lastnum]
    BY <1>1, <1>3 DEF Create
  <2>. QED BY <2>1, CannotWriteIs, NotOpenedResult
<1>4. CASE r.err = "OK"
  <2>1. Create(n, dir, full, temp, lastnum) = [Opened(r.disk, r.disk.names[n], temp) EXCEPT !.lastnum = lastnum]
    BY <1>1, <1>4 DEF Create
  <2>. QED BY <1>2, <1>4, <2>1, OpenedResult
<1>. QED BY <1>3, <1>4

(* The number that is found is one of the digits'.                         *)
LEMMA LeastOf ==
  ASSUME NEW B \in SUBSET Nat, B # {}
  PROVE  (CHOOSE i \in B : \A j \in B : i <= j) \in B
<1>1. PICK x \in B : TRUE OBVIOUS
<1> DEFINE R == OpToRel(<, Nat)
<1>2. IsWellFoundedOn(R, Nat) BY NatLessThanWellFounded, Zenon
<1>3. \A j, i \in Nat : j < i => <<j, i>> \in R BY Zenon DEF OpToRel
<1> HIDE DEF R
<1>4. PICK m \in B : \A j \in B : ~(<<j, m>> \in R) BY <1>1, <1>2, WFMin
<1>5. \A j \in B : ~(j < m) BY <1>3, <1>4
<1>6. \A j \in B : m <= j BY <1>5
<1>. QED BY <1>6

LEMMA TempNumber ==
  ASSUME NEW dir, tempfile(dir).err = "OK", main.lastnum \in 0 .. Len(Digit)
  PROVE  tempfile(dir).lastnum \in 0 .. Len(Digit)
<1> DEFINE unused == {i \in 0 .. Len(Digit) - 1 : Access(disk, TempName(dir, Try(i)), {}) # "OK"}
           first  == CHOOSE i \in unused : \A j \in unused : i <= j
<1>1. unused # {}
  <2>1. CASE unused = {}
    <3>1. tempfile(dir).err = "none" BY <2>1 DEF tempfile
    <3>. QED BY <3>1
  <2>. QED BY <2>1
<1>2. tempfile(dir).lastnum = Try(first) + 1 BY Zenon DEF tempfile
<1>3. unused \in SUBSET (0 .. Len(Digit) - 1) OBVIOUS
<1> HIDE DEF unused
<1>4. PICK n : n = Len(Digit) OBVIOUS
<1>5. n \in Nat \ {0}
  <2>1. Digit \in Seq(Range(Digit)) /\ Digit # << >> BY FileAssumption DEF IsSeq
  <2>. QED BY <1>4, <2>1, EmptySeq, LenProperties
<1>6. unused \in SUBSET Nat /\ unused \in SUBSET (0 .. n - 1) BY <1>3, <1>4, <1>5
<1>7. first \in unused BY <1>1, <1>6, LeastOf
<1>8. PICK f : f = first OBVIOUS
<1>9. f \in 0 .. n - 1 BY <1>6, <1>7, <1>8
<1>10. PICK a : a = main.lastnum OBVIOUS
<1>11. a \in 0 .. n BY <1>4, <1>10
<1>12. Try(first) = (a + f) % n BY <1>4, <1>8, <1>10 DEF Try
<1>13. (a + f) % n \in 0 .. n - 1 BY <1>5, <1>9, <1>11
<1>. QED BY <1>2, <1>4, <1>5, <1>12, <1>13

LEMMA CreateTempResult ==
  ASSUME IsDisk(disk), main.lastnum \in 0 .. Len(Digit), NEW p, NEW full
  PROVE  Result(CreateTemp(p, full))
<1>1. PICK t : t = tempfile(p.dir) OBVIOUS
<1>2. CASE t.err # "OK"
  <2>1. CreateTemp(p, full) = NotOpened(CannotWrite(t.err, p.dir)) BY <1>1, <1>2 DEF CreateTemp
  <2>. QED BY <2>1, CannotWriteIs, NotOpenedHere
<1>3. CASE t.err = "OK"
  <2>1. CreateTemp(p, full) = Create(t.name, p.dir, full, t.name, t.lastnum) BY <1>1, <1>3 DEF CreateTemp
  <2>2. t.lastnum \in 0 .. Len(Digit) BY <1>1, <1>3, TempNumber
  <2>. QED BY <2>1, <2>2, CreateResult
<1>. QED BY <1>2, <1>3

LEMMA OpenToWriteResult ==
  ASSUME IsDisk(disk), main.lastnum \in 0 .. Len(Digit), NEW p, NEW full
  PROVE  Result(OpenToWrite(p, full))
<1>1. PICK err, search, mode : err = Stat(disk, p.real) /\ search = Access(disk, p.dir, {"x"})
                               /\ mode = OpenFile(disk, p.real, {"w"})
  OBVIOUS
<1>2. CASE err = "OK"
  <2>1. CASE IsDir(p.real)
    <3>1. OpenToWrite(p, full) = NotOpened("IOD") BY <1>1, <1>2, <2>1 DEF OpenToWrite
    <3>. QED BY <3>1, NotOpenedHere
  <2>2. CASE ~IsDir(p.real) /\ IfExists = "ERROR"
    <3>1. OpenToWrite(p, full) = NotOpened("FAE") BY <1>1, <1>2, <2>2 DEF OpenToWrite
    <3>. QED BY <3>1, NotOpenedHere
  <2>3. CASE ~IsDir(p.real) /\ IfExists = "TRUNCATE"
    <3>1. OpenToWrite(p, full) = Create(p.real, p.dir, full, NoFile, main.lastnum) BY <1>1, <1>2, <2>3 DEF OpenToWrite
    <3>. QED BY <3>1, CreateResult
  <2>4. CASE ~IsDir(p.real) /\ IfExists \in {"OVERWRITE", "APPEND"}
    <3>1. OpenToWrite(p, full) =
            IF mode = "OK" THEN Opened(disk, disk.names[p.real], NoFile) ELSE NotOpened(CannotWrite(mode, p.dir))
      BY <1>1, <1>2, <2>4 DEF OpenToWrite
    <3>2. p.real \in Names(disk) BY <1>1, <1>2, FoundThere
    <3>3. Result(Opened(disk, disk.names[p.real], NoFile)) BY <3>2, OpenedHere
    <3>4. Result(NotOpened(CannotWrite(mode, p.dir))) BY CannotWriteIs, NotOpenedHere
    <3>. QED BY <3>1, <3>3, <3>4
  <2>5. CASE ~IsDir(p.real) /\ IfExists \notin {"ERROR", "TRUNCATE", "OVERWRITE", "APPEND"}
    <3>1. OpenToWrite(p, full) = CreateTemp(p, full) BY <1>1, <1>2, <2>5 DEF OpenToWrite
    <3>. QED BY <3>1, CreateTempResult
  <2>. QED BY <2>1, <2>2, <2>3, <2>4, <2>5
<1>3. CASE err # "OK" /\ search # "OK"
  <2>1. OpenToWrite(p, full) = NotOpened(CannotWrite(search, p.dir)) BY <1>1, <1>3 DEF OpenToWrite
  <2>. QED BY <2>1, CannotWriteIs, NotOpenedHere
<1>4. CASE err \notin {"OK", "ENOENT"} /\ search = "OK"
  <2>1. OpenToWrite(p, full) = NotOpened(CannotWrite(err, p.dir)) BY <1>1, <1>4 DEF OpenToWrite
  <2>. QED BY <2>1, CannotWriteIs, NotOpenedHere
<1>5. CASE err = "ENOENT" /\ search = "OK"
  <2>1. CASE IfNotThere = "ERROR"
    <3>1. OpenToWrite(p, full) = NotOpened("FNF") BY <1>1, <1>5, <2>1 DEF OpenToWrite
    <3>. QED BY <3>1, NotOpenedHere
  <2>2. CASE IfNotThere = "CREATE" /\ IfExists \in {"APPEND", "OVERWRITE", "TRUNCATE"}
    <3>1. OpenToWrite(p, full) = Create(p.real, p.dir, full, NoFile, main.lastnum) BY <1>1, <1>5, <2>2 DEF OpenToWrite
    <3>. QED BY <3>1, CreateResult
  <2>3. CASE IfNotThere # "ERROR" /\ ~(IfNotThere = "CREATE" /\ IfExists \in {"APPEND", "OVERWRITE", "TRUNCATE"})
    <3>1. OpenToWrite(p, full) = CreateTemp(p, full) BY <1>1, <1>5, <2>3 DEF OpenToWrite
    <3>. QED BY <3>1, CreateTempResult
  <2>. QED BY <2>1, <2>2, <2>3
<1>. QED BY <1>2, <1>3, <1>4, <1>5

LEMMA OpenToReadResult ==
  ASSUME IsDisk(disk), main.lastnum \in 0 .. Len(Digit), NEW p
  PROVE  Result(OpenToRead(p))
<1>1. PICK err : err = OpenFile(disk, p.real, {"r"}) OBVIOUS
<1>2. CASE err = "OK"
  <2>1. OpenToRead(p) = Opened(disk, disk.names[p.real], NoFile) BY <1>1, <1>2 DEF OpenToRead
  <2>2. p.real \in Names(disk) BY <1>1, <1>2, FoundThere
  <2>. QED BY <2>1, <2>2, OpenedHere
<1>3. CASE err # "OK"
  <2>1. PICK code : code = IF err = "EACCES" THEN (IF Access(disk, p.dir, {"x"}) = "OK" THEN "ATF" ELSE "ATD")
                           ELSE IF err = "ENOTDIR" THEN "DNF" ELSE Missing(p.dir)
    OBVIOUS
  <2>2. OpenToRead(p) = NotOpened(code)
    <3>1. CASE err = "EACCES" BY <1>1, <2>1, <3>1 DEF OpenToRead
    <3>2. CASE err = "ENOTDIR" BY <1>1, <2>1, <3>2 DEF OpenToRead
    <3>3. CASE err \notin {"EACCES", "ENOTDIR"} BY <1>1, <1>3, <2>1, <3>3 DEF OpenToRead
    <3>. QED BY <3>1, <3>2, <3>3
  <2>3. code # "none" BY <2>1 DEF Missing
  <2>. QED BY <2>2, <2>3, NotOpenedHere
<1>. QED BY <1>2, <1>3

LEMMA OpenXferLoaded ==
  ASSUME NEW o, NEW p, NEW r, Result(r), r.code = "none"
  PROVE  Loaded(OpenXfer(o, p, r), r.disk)
<1>1. PICK k : k = r.disk OBVIOUS
<1>2. PICK ino : ino = r.ino OBVIOUS
<1>3. PICK d : d = k.files[ino].data OBVIOUS
<1>4. IsDisk(k) /\ ino \in DOMAIN k.files BY <1>1, <1>2 DEF Result, Grows
<1>5. ino # 0
  <2>1. DOMAIN k.files = 1 .. Len(k.files) /\ Len(k.files) \in Nat BY <1>4, SeqDomain DEF IsDisk
  <2>. QED BY <1>4, <2>1
<1>6. PICK start : start = IF "WRITE" \in o /\ IfExists = "APPEND" THEN Len(d) ELSE 0 OBVIOUS
<1>7. start \in Nat
  <2>1. IsSeq(d) BY <1>3, <1>4 DEF IsDisk
  <2>2. Len(d) \in Nat BY <2>1, SeqDomain
  <2>. QED BY <1>6, <2>2
<1>8. PICK x : x = OpenXfer(o, p, r) OBVIOUS
<1>9. /\ Body \subseteq DOMAIN x /\ x.state = "PROCESS" /\ x.ino = ino /\ x.pos = start /\ x.buf = << >> /\ x.left = << >>
      /\ x.pkt = << >> /\ x.pipe = << >>
  <2> DEFINE kind == IF "READ" \in o THEN "READ" ELSE "WRITE"
             f == r.disk.files[r.ino]
             from == IF "WRITE" \in o /\ IfExists = "APPEND" THEN Len(f.data) ELSE 0
             new == makexfer(T.fh, kind, o)
             opened == [new EXCEPT !.state = "PROCESS", !.bytesize = ByteSize(o), !.ino = r.ino, !.temp = r.temp]
             named  == [opened EXCEPT !.real = p.real, !.preal = p.real, !.dir = p.dir]
             Made(y) == /\ Body \subseteq DOMAIN y /\ y.buf = << >> /\ y.left = << >> /\ y.pkt = << >> /\ y.pipe = << >>
  <2>1. x = [named EXCEPT !.atime = f.atime, !.mtime = f.mtime, !.pos = from, !.base = from]
    BY <1>8 DEF OpenXfer
  <2>2. from = start BY <1>1, <1>2, <1>3, <1>6
  <2> HIDE DEF kind, f, from
  <2>3. Made(new) BY DEF makexfer, Body
  <2> HIDE DEF new
  <2>4. Made(opened) /\ opened.state = "PROCESS" /\ opened.ino = ino BY <1>2, <2>3 DEF Body
  <2> HIDE DEF opened
  <2>5. Made(named) /\ named.state = "PROCESS" /\ named.ino = ino BY <2>4 DEF Body
  <2> HIDE DEF named
  <2>6. PICK a, m : x = [named EXCEPT !.atime = a, !.mtime = m, !.pos = start, !.base = start] BY <2>1, <2>2
  <2>. QED BY <2>5, <2>6 DEF Body
<1>10. IsSeq(<< >>) /\ Len(<< >>) = 0 BY NoneSeq
<1>11. Buffers(x) BY <1>9, <1>10, FileAssumption DEF Buffers
<1>12. Numbered(x.pipe) BY <1>9 DEF Numbered
<1>13. OnFile(x, k) BY <1>4, <1>5, <1>9 DEF OnFile
<1>14. Loaded(x, k) BY <1>7, <1>9, <1>11, <1>12, <1>13 DEF Loaded, States
<1>. QED BY <1>1, <1>8, <1>14

(* A transfer starts.                                                      *)
LEMMA StartsTypes ==
  ASSUME IInv, TInv, NEW x, Starts(x), Loaded(x, disk'), Grows(disk, disk'), Counting'
  PROVE  TInv'
<1>1. PICK n : n = Len(xfers) + 1 OBVIOUS
<1>2. /\ Len(xfers) \in Nat /\ DOMAIN xfers = 1 .. Len(xfers) /\ DOMAIN xfers' = DOMAIN xfers \cup {n}
      /\ xfers'[n] = x /\ \A j \in DOMAIN xfers : xfers'[j] = xfers[j]
  BY <1>1, StartsXfers DEF IInv, Tables
<1>3. n # 0 BY <1>1, <1>2
<1>4. T.fh \in DOMAIN handles /\ handles' = [handles EXCEPT ![T.fh].xfer = n] /\ UNCHANGED conns
      /\ x.fh = T.fh /\ x.listed /\ Fh.xfer = 0
  BY <1>1 DEF Starts, Begins, Started
<1>5. \A h \in DOMAIN handles : HandleOK(handles[h]) BY DEF IInv, Tables, Handles
<1>6. /\ DOMAIN handles' = DOMAIN handles
      /\ \A h \in DOMAIN handles : handles'[h].other = handles[h].other /\ (h # T.fh => handles'[h] = handles[h])
      /\ handles'[T.fh].xfer = n
  BY <1>4, <1>5 DEF HandleOK
<1>7. Paired'
  <2>1. ASSUME NEW h \in DOMAIN handles, handles'[h].xfer # 0
        PROVE  xfers'[handles'[h].xfer].listed /\ xfers'[handles'[h].xfer].fh = h
    <3>1. CASE h = T.fh BY <1>2, <1>4, <1>6, <3>1
    <3>2. CASE h # T.fh
      <4>1. handles'[h] = handles[h] /\ handles[h].xfer \in DOMAIN xfers BY <1>5, <1>6, <2>1, <3>2 DEF HandleOK
      <4>. QED BY <1>2, <2>1, <4>1 DEF TInv, Paired
    <3>. QED BY <3>1, <3>2
  <2>2. ASSUME NEW h \in DOMAIN handles
        PROVE  handles'[h].other \in DOMAIN handles' /\ handles'[handles'[h].other].other = h
    BY <1>6 DEF TInv, Paired
  <2>. QED BY <1>6, <2>1, <2>2 DEF Paired
<1>8. Whole'
  <2>1. \A j \in DOMAIN xfers : Loaded(xfers'[j], disk') BY <1>2, LoadedGrown DEF TInv, Whole
  <2>. QED BY <1>2, <2>1 DEF Whole
<1>9. Wires' BY <1>4 DEF TInv, Wires
<1>. QED BY <1>7, <1>8, <1>9 DEF TInv, Grows

LEMMA OpenForTypes ==
  ASSUME IInv, TInv, Holding, NEW o, NEW p, NEW r, OpenFor(o, p, r), Result(r),
         T.fh \in DOMAIN handles, Fh.xfer = 0, Fh.type = IF "READ" \in o THEN "INPUT" ELSE "OUTPUT"
  PROVE  TInv'
<1>1. ~Dead BY DEF Holding, Dead
<1>2. PICK d : d = Decided(o, r) OBVIOUS
<1>3. "READ" \in d <=> "READ" \in o BY <1>2 DEF Decided
<1>4. /\ disk' = r.disk /\ main' = [Idle(main) EXCEPT !.lastnum = r.lastnum] /\ UNCHANGED <<ctlpipe, conns, control, user>>
      /\ \/ UNCHANGED <<handles, xfers>>
         \/ r.code = "none" /\ Started(OpenXfer(d, p, r))
  BY <1>2 DEF OpenFor
<1>5. DOMAIN main' = DOMAIN main /\ main'.pc = "check" BY <1>4 DEF Idle, IInv, Mind
<1>6. Leaves BY <1>5 DEF Leaves, MainKept, Holding
<1>7. Grows(disk, disk') BY <1>4 DEF Result
<1>8. Counting'
  <2>1. PICK w : w = Idle(main) OBVIOUS
  <2>2. PICK n : n = r.lastnum OBVIOUS
  <2>3. /\ DOMAIN w = DOMAIN main /\ w.pc = "check" /\ w.cmd = NoCmd
        /\ w.wait = main.wait /\ w.nprocdone = main.nprocdone
    BY <2>1, IdleIs DEF IInv
  <2>4. main' = [w EXCEPT !.lastnum = n] BY <1>4, <2>1, <2>2
  <2>5. /\ main'.pc = "check" /\ main'.cmd = NoCmd /\ main'.lastnum = n
        /\ main'.wait = main.wait /\ main'.nprocdone = main.nprocdone
    BY <2>3, <2>4 DEF IInv, Mind
  <2>6. n \in 0 .. Len(Digit) /\ main.wait \in Int /\ main.nprocdone \in Nat BY <2>2 DEF TInv, Counting, Result
  <2>. QED BY <2>5, <2>6, NoCmdCounts
<1>9. CASE UNCHANGED <<handles, xfers>> BY <1>4, <1>7, <1>8, <1>9, SameTypes DEF IInv, Tables
<1>10. CASE r.code = "none" /\ Started(OpenXfer(d, p, r))
  <2>1. PICK x : x = OpenXfer(d, p, r) OBVIOUS
  <2>2. /\ Fit(x) /\ x.fh = T.fh /\ x.listed /\ x.conn = Fh.conn /\ x.close = "none" /\ x.pc = "top"
        /\ x.pipe = << >> /\ x.kind = IF "READ" \in d THEN "READ" ELSE "WRITE"
    BY <2>1, OpenXferIs
  <2>3. Fh.type = IF Reading(x) THEN "INPUT" ELSE "OUTPUT" BY <1>3, <2>2 DEF Reading
  <2>4. Begins(x) BY <2>2, <2>3 DEF Begins
  <2>5. Starts(x) BY <1>1, <1>4, <1>6, <1>10, <2>1, <2>4 DEF Starts, Leaves
  <2>6. Loaded(x, disk') BY <1>4, <1>10, <2>1, OpenXferLoaded
  <2>. QED BY <1>7, <1>8, <2>5, <2>6, StartsTypes
<1>. QED BY <1>4, <1>9, <1>10

LEMMA FileopenTypes ==
  ASSUME IInv, TInv, fileopen
  PROVE  TInv'
<1>1. Holding /\ ~Dead /\ (T.fh # "" => T.fh \in DOMAIN handles) BY GrantedTo DEF fileopen
<1>2. PICK p : p = Parse(A.strings[1], FALSE) OBVIOUS
<1>3. PICK o : o = Directed(A.options) OBVIOUS
<1>4. o \cap Directions # {} BY <1>3 DEF Directed, Directions
<1>5. IsDisk(disk) /\ main.lastnum \in 0 .. Len(Digit) BY DEF TInv, Counting
<1>6. \/ \E code : Errs(code)
      \/ "PROBE" \in o /\ Probe(o, p)
      \/ "PROBE" \notin o /\ OpenRefused(o) = "none" /\ \E r : Result(r) /\ OpenFor(o, p, r)
  <2>1. CASE p.err # "none" BY <1>2, <2>1 DEF fileopen
  <2>2. CASE p.err = "none" /\ ~A.options \subseteq Openable BY <1>2, <2>2 DEF fileopen
  <2>3. CASE p.err = "none" /\ A.options \subseteq Openable /\ "PROBE" \in o BY <1>2, <1>3, <2>3 DEF fileopen
  <2>4. CASE p.err = "none" /\ A.options \subseteq Openable /\ "PROBE" \notin o
    <3>1. CASE OpenRefused(o) # "none" BY <1>2, <1>3, <2>4, <3>1 DEF fileopen
    <3>2. CASE OpenRefused(o) = "none" /\ "READ" \in o
      <4>1. OpenFor(o, p, OpenToRead(p)) BY <1>2, <1>3, <2>4, <3>2 DEF fileopen
      <4>2. Result(OpenToRead(p)) BY <1>5, OpenToReadResult
      <4>. QED BY <2>4, <3>2, <4>1, <4>2
    <3>3. CASE OpenRefused(o) = "none" /\ "READ" \notin o
      <4>1. PICK full : OpenFor(o, p, OpenToWrite(p, full)) BY <1>2, <1>3, <2>4, <3>3 DEF fileopen
      <4>2. Result(OpenToWrite(p, full)) BY <1>5, OpenToWriteResult
      <4>. QED BY <2>4, <3>3, <4>1, <4>2
    <3>. QED BY <3>1, <3>2, <3>3
  <2>. QED BY <2>1, <2>2, <2>3, <2>4
<1>7. CASE \E code : Errs(code) BY <1>7, ErrsTypes
<1>8. CASE "PROBE" \in o /\ Probe(o, p)
  <2>1. UNCHANGED <<handles, xfers, conns, disk>> /\ (main' = Idle(main) \/ Crash) BY <1>8 DEF Probe
  <2>. QED BY <2>1, StillTypes
<1>9. CASE "PROBE" \notin o /\ OpenRefused(o) = "none" /\ \E r : Result(r) /\ OpenFor(o, p, r)
  <2>1. T.fh \in DOMAIN handles /\ Fh.xfer = 0 /\ Fh.type = IF "READ" \in o THEN "INPUT" ELSE "OUTPUT"
    BY <1>1, <1>4, <1>9, NotRefused
  <2>2. PICK r : Result(r) /\ OpenFor(o, p, r) BY <1>9
  <2>. QED BY <1>1, <2>1, <2>2, OpenForTypes
<1>. QED BY <1>6, <1>7, <1>8, <1>9

-----------------------------------------------------------------------------
(* Names and directories. *)

LEMMA ZombieCount == ASSUME IInv, NEW S \in SUBSET Zombies PROVE Cardinality(S) \in Nat
<1>1. Len(xfers) \in Nat /\ DOMAIN xfers = 1 .. Len(xfers) BY SeqDomain DEF IInv, Tables, Fitting
<1>2. IsFiniteSet(1 .. Len(xfers)) BY <1>1, FS_Interval
<1>3. S \subseteq 1 .. Len(xfers) BY <1>1 DEF Zombies
<1>4. IsFiniteSet(S) BY <1>2, <1>3, FS_Subset
<1>. QED BY <1>4, FS_CardinalityType

LEMMA RunsTypes ==
  ASSUME IInv, TInv, NEW code, NEW r, Runs(code, r), Grows(disk, r.disk)
  PROVE  TInv'
<1>1. PICK S \in SUBSET Zombies :
        /\ main' = [Idle(main) EXCEPT !.nprocdone = @ + Cardinality(S)]
        /\ xfers' = [i \in DOMAIN xfers |-> IF i \in S THEN [xfers[i] EXCEPT !.pc = "gone"] ELSE xfers[i]]
        /\ disk' = r.disk /\ UNCHANGED <<handles, conns>>
  BY DEF Runs
<1>2. Counting'
  <2>1. PICK w : w = Idle(main) OBVIOUS
  <2>2. /\ DOMAIN w = DOMAIN main /\ w.pc = "check" /\ w.cmd = NoCmd /\ w.lastnum = main.lastnum
        /\ w.wait = main.wait /\ w.nprocdone = main.nprocdone
    BY <2>1, IdleIs DEF IInv
  <2>3. PICK n : n = w.nprocdone + Cardinality(S) OBVIOUS
  <2>4. main' = [w EXCEPT !.nprocdone = n] BY <1>1, <2>1, <2>3
  <2>5. /\ main'.pc = "check" /\ main'.cmd = NoCmd /\ main'.lastnum = main.lastnum
        /\ main'.wait = main.wait /\ main'.nprocdone = n
    BY <2>2, <2>4 DEF IInv, Mind
  <2>6. main.lastnum \in 0 .. Len(Digit) /\ main.wait \in Int /\ main.nprocdone \in Nat BY DEF TInv, Counting
  <2>7. n \in Nat
    <3>1. Cardinality(S) \in Nat BY ZombieCount
    <3>. QED BY <2>2, <2>3, <2>6, <3>1
  <2>. QED BY <2>5, <2>6, <2>7, NoCmdCounts
<1>3. /\ DOMAIN xfers' = DOMAIN xfers
      /\ \A j \in DOMAIN xfers : /\ xfers'[j].listed = xfers[j].listed /\ xfers'[j].fh = xfers[j].fh
                                 /\ Light(xfers[j], xfers'[j])
  BY <1>1, BuriedLight
<1>. QED BY <1>1, <1>2, <1>3, LightTypes DEF IInv, Tables

LEMMA DeleteTypes ==
  ASSUME IInv, TInv, delete
  PROVE  TInv'
<1>1. T.fh # "" => T.fh \in DOMAIN handles BY GrantedTo DEF delete
<1>2. PICK p : p = Parse(A.strings[1], FALSE) OBVIOUS
<1>3. \/ \E code : Errs(code)
      \/ T.fh # "" /\ Fh.xfer # 0 /\ DeleteOpen
      \/ DeleteNamed(p)
  <2>1. CASE T.fh # "" /\ (Has(1) \/ Fh.xfer = 0) BY <2>1 DEF delete
  <2>2. CASE T.fh # "" /\ ~Has(1) /\ Fh.xfer # 0 BY <2>2 DEF delete
  <2>3. CASE T.fh = "" /\ ~Has(1) BY <2>3 DEF delete
  <2>4. CASE T.fh = "" /\ Has(1) BY <1>2, <2>4 DEF delete
  <2>. QED BY <2>1, <2>2, <2>3, <2>4
<1>4. IsDisk(disk) BY DEF TInv
<1>5. CASE \E code : Errs(code) BY <1>5, ErrsTypes
<1>6. CASE T.fh # "" /\ Fh.xfer # 0 /\ DeleteOpen
  <2>1. PICK j : j = Fh.xfer OBVIOUS
  <2>2. PICK m : m = Msg("XXXXX", "delfh", 0) OBVIOUS
  <2>3. PICK n : n = IF X.temp = NoFile THEN X.preal ELSE X.temp OBVIOUS
  <2>4. \/ \E code : Errs(code)
        \/ sendcmd(j, m) /\ UNCHANGED <<handles, conns>> /\ disk' = Unlink(disk, n).disk
    BY <1>6, <2>1, <2>2, <2>3 DEF DeleteOpen
  <2>5. CASE sendcmd(j, m) /\ UNCHANGED <<handles, conns>> /\ disk' = Unlink(disk, n).disk
    <3>1. j \in DOMAIN xfers BY <1>1, <1>6, <2>1, OnIt DEF IInv
    <3>2. m.cname = "delfh" BY <2>2 DEF Msg
    <3>3. Grows(disk, disk') BY <1>4, <2>5, UnlinkGrows
    <3>. QED BY <2>5, <3>1, <3>2, <3>3, SendTypes
  <2>. QED BY <2>4, <2>5, ErrsTypes
<1>7. CASE DeleteNamed(p)
  <2>1. \/ \E code : Errs(code)
        \/ Answers("OK", << >>, Unlink(disk, p.real).disk)
        \/ Runs("DNE", Rmdir(disk, p.real))
    <3>1. CASE Named(p) # "none" BY <1>7, <3>1 DEF DeleteNamed
    <3>2. CASE Named(p) = "none" /\ ~IsDir(p.real) BY <1>7, <3>2 DEF DeleteNamed
    <3>3. CASE Named(p) = "none" /\ IsDir(p.real) BY <1>7, <3>3 DEF DeleteNamed
    <3>. QED BY <3>1, <3>2, <3>3
  <2>2. Grows(disk, Unlink(disk, p.real).disk) /\ Grows(disk, Rmdir(disk, p.real).disk)
    BY <1>4, UnlinkGrows, RmdirGrows
  <2>. QED BY <2>1, <2>2, ErrsTypes, AnswersTypes, RunsTypes
<1>. QED BY <1>3, <1>5, <1>6, <1>7

(* mv(): a link and an unlink.                                             *)
LEMMA MvGrows ==
  ASSUME IsDisk(disk), NEW from, NEW fromdir, NEW to, NEW todir
  PROVE  Grows(disk, mv(from, fromdir, to, todir).disk)
<1>1. PICK l : l = Link(disk, from, to) OBVIOUS
<1>2. PICK r : r = IF l.err = "OK" THEN Unlink(l.disk, from) ELSE l OBVIOUS
<1>3. mv(from, fromdir, to, todir).disk = r.disk BY <1>1, <1>2 DEF mv, Linked, Moved
<1>4. Grows(disk, l.disk) BY <1>1, LinkGrows
<1>5. Grows(disk, r.disk)
  <2>1. CASE l.err = "OK"
    <3>1. Grows(l.disk, r.disk) BY <1>2, <1>4, <2>1, UnlinkGrows DEF Grows
    <3>. QED BY <1>4, <3>1 DEF Grows
  <2>. QED BY <1>2, <1>4, <2>1
<1>. QED BY <1>3, <1>5

LEMMA RenameTypes ==
  ASSUME IInv, TInv, xrename
  PROVE  TInv'
<1>1. PICK p : p = Parse(A.strings[1], FALSE) OBVIOUS
<1>2. Renaming(p) BY <1>1 DEF xrename
<1>3. IsDisk(disk) BY DEF TInv
<1>4. \/ \E code : Errs(code)
      \/ \E r : Grows(disk, r.disk) /\ RenamedOpen(r)
      \/ \E p2 : RenameNamed(p, p2)
  <2>1. CASE p.err # "none" BY <1>2, <2>1 DEF Renaming
  <2>2. CASE p.err = "none" /\ T.fh # ""
    <3>1. (\E code : Errs(code)) \/ RenameOpen(p) BY <1>2, <2>2 DEF Renaming
    <3>2. CASE RenameOpen(p)
      <4>1. PICK code : code = IF Access(disk, p.dir, {"x", "w"}) # "OK" THEN "ATD" ELSE "none" OBVIOUS
      <4>2. PICK r : r = IF X.kind = "WRITE" THEN [disk |-> disk, code |-> code] ELSE mv(X.preal, X.dir, p.real, p.dir)
        OBVIOUS
      <4>3. RenamedOpen(r) BY <3>2, <4>1, <4>2 DEF RenameOpen
      <4>4. Grows(disk, r.disk)
        <5>1. CASE X.kind = "WRITE"
          <6>1. r.disk = disk BY <4>2, <5>1
          <6>. QED BY <1>3, <6>1, SelfGrows
        <5>2. CASE X.kind # "WRITE" BY <1>3, <4>2, <5>2, MvGrows
        <5>. QED BY <5>1, <5>2
      <4>. QED BY <4>3, <4>4
    <3>. QED BY <3>1, <3>2
  <2>3. CASE p.err = "none" /\ T.fh = "" BY <1>2, <2>3 DEF Renaming
  <2>. QED BY <2>1, <2>2, <2>3
<1>5. CASE \E code : Errs(code) BY <1>5, ErrsTypes
<1>6. ASSUME NEW r, Grows(disk, r.disk), RenamedOpen(r) PROVE TInv'
  <2>1. CASE r.code # "none"
    <3>1. Answers(r.code, << >>, r.disk) BY <1>6, <2>1 DEF RenamedOpen
    <3>. QED BY <1>6, <3>1, AnswersTypes
  <2>2. CASE r.code = "none"
    <3>1. Crash /\ disk' = r.disk /\ UNCHANGED <<handles, xfers, conns>> BY <1>6, <2>2 DEF RenamedOpen
    <3>. QED BY <1>6, <3>1, CtlTypes
  <2>. QED BY <2>1, <2>2
<1>7. ASSUME NEW p2, RenameNamed(p, p2) PROVE TInv'
  <2>1. PICK r : r = mv(p.real, p.dir, p2.real, p2.dir) OBVIOUS
  <2>2. (\E code : Errs(code)) \/ \E code : Answers(code, << >>, r.disk) BY <1>7, <2>1 DEF RenameNamed
  <2>3. Grows(disk, r.disk) BY <1>3, <2>1, MvGrows
  <2>. QED BY <2>2, <2>3, ErrsTypes, AnswersTypes
<1>. QED BY <1>4, <1>5, <1>6, <1>7

LEMMA CompleteTypes ==
  ASSUME IInv, TInv, complete
  PROVE  TInv'
<1>1. (\E code : Errs(code)) \/ \E d, p : CompleteIn(d, p)
  <2> DEFINE deflt == A.strings[1]
             input == A.strings[2]
             d == Parse(deflt, TRUE)
             p == Parse(IF input # << >> /\ Head(input) = "/" THEN input ELSE Text(d.dir) \o <<"/">> \o input, TRUE)
             known == A.options \subseteq {"NEW-OK", "OLD", "DELETED", "READ", "WRITE"}
             bare  == deflt = << >> \/ Head(deflt) # "/"
  <2>1. CASE ~known BY <2>1 DEF complete
  <2>2. CASE known /\ bare BY <2>2 DEF complete
  <2>3. CASE known /\ ~bare
    <3>1. CASE d.err # "none" BY <2>3, <3>1 DEF complete
    <3>2. CASE d.err = "none" /\ p.err # "none" BY <2>3, <3>2 DEF complete
    <3>3. CASE d.err = "none" /\ p.err = "none"
      <4>1. IF CannotList(p.dir) # "none" THEN Errs(CannotList(p.dir)) ELSE CompleteIn(d, p)
        BY <2>3, <3>3 DEF complete
      <4> HIDE DEF d, p
      <4>. QED BY <4>1
    <3>. QED BY <3>1, <3>2, <3>3
  <2>. QED BY <2>1, <2>2, <2>3
<1>2. ASSUME NEW d, NEW p, CompleteIn(d, p) PROVE TInv'
  <2>1. \/ Crash /\ UNCHANGED <<handles, xfers, conns, disk>>
        \/ \E code, results : Answers(code, results, disk)
    BY <1>2 DEF CompleteIn
  <2>2. Grows(disk, disk) BY SelfGrows DEF TInv
  <2>. QED BY <2>1, <2>2, StillTypes, AnswersTypes
<1>. QED BY <1>1, <1>2, ErrsTypes

LEMMA CrdirTypes ==
  ASSUME IInv, TInv, crdir \/ expunge
  PROVE  TInv'
<1>1. IsDisk(disk) BY DEF TInv
<1>2. CASE crdir
  <2>1. (\E code : Errs(code)) \/ \E dir : Runs("MSC", Mkdir(disk, dir, 0))
    <3> DEFINE p      == Parse(A.strings[1], TRUE)
               access == Access(disk, Pop(p.dir), {"x", "w"})
    <3>1. CASE p.err # "none" BY <1>2, <3>1 DEF crdir
    <3>2. CASE p.err = "none" /\ access # "OK" BY <1>2, <3>2 DEF crdir
    <3>3. CASE p.err = "none" /\ access = "OK"
      <4>1. IF Stat(disk, p.dir) = "OK" THEN Errs("DAE") ELSE Runs("MSC", Mkdir(disk, p.dir, 0))
        BY <1>2, <3>3 DEF crdir
      <4> HIDE DEF p
      <4>. QED BY <4>1
    <3>. QED BY <3>1, <3>2, <3>3
  <2>. QED BY <1>1, <2>1, ErrsTypes, RunsTypes, MkdirGrows
<1>3. CASE expunge
  <2>1. (\E code : Errs(code)) \/ \E code, results : Answers(code, results, disk) BY <1>3 DEF expunge
  <2>2. Grows(disk, disk) BY <1>1, SelfGrows
  <2>. QED BY <2>1, <2>2, ErrsTypes, AnswersTypes
<1>. QED BY <1>2, <1>3

-----------------------------------------------------------------------------
(* Listings. *)

Blank(x) == /\ Body \subseteq DOMAIN x /\ x.ino = 0 /\ x.pos = 0
            /\ x.buf = << >> /\ x.left = << >> /\ x.pkt = << >>

LEMMA ListTypes ==
  ASSUME IInv, TInv, Holding, NEW x, Lists(x), Blank(x), NEW cname \in Opens, List(x, cname),
         T.fh \in DOMAIN handles, Fh.xfer = 0, Fh.type = "INPUT"
  PROVE  TInv'
<1>1. ~Dead BY DEF Holding, Dead
<1>2. Leaves BY IdleLeaves DEF List, IInv
<1>3. PICK m : m = Msg(T.tid, cname, 0) OBVIOUS
<1>4. PICK y : y = [x EXCEPT !.pipe = <<m>>] OBVIOUS
<1>5. /\ main' = Idle(main) /\ UNCHANGED <<ctlpipe, conns, disk, control, user>>
      /\ Started(y) \/ UNCHANGED <<handles, xfers>>
  BY <1>3, <1>4 DEF List
<1>6. Grows(disk, disk') BY <1>5, SelfGrows DEF TInv
<1>7. CASE Started(y)
  <2>1. /\ Core \subseteq DOMAIN y /\ y.fh = T.fh /\ y.listed = TRUE /\ y.conn = Fh.conn /\ y.close = "none" /\ y.pc = "top"
        /\ y.state = "IDLE" /\ y.flags = {} /\ y.handler = "ign" /\ y.kind \in {"DIR", "PROPERTIES"} /\ y.pipe = <<m>>
    BY <1>4 DEF Lists, Core
  <2>2. DOMAIN m = {"tid", "cname", "n"} /\ m.tid = T.tid /\ m.cname = cname BY <1>3 DEF Msg
  <2>3. MsgOK(m) BY <2>2 DEF MsgOK, Speaking, IInv, Mind, T
  <2>4. IsSeq(<<m>>) /\ DOMAIN <<m>> = {1} /\ <<m>>[1] = m
    <3>1. IsSeq(<<m>>) BY OneSeq
    <3>. QED BY <3>1
  <2>5. PipeOK(y) BY <2>1, <2>3, <2>4 DEF PipeOK
  <2>6. Shape(y) /\ Packet(y) /\ Shutting(y) BY <2>1 DEF Shape, Kinds, Packet, Shutting
  <2>7. Place(y)
    <3>1. y.pc \in ReadingPcs(y.state) /\ Reading(y) BY <2>1 DEF ReadingPcs, Reading
    <3>. QED BY <3>1 DEF Place
  <2>8. Begins(y) BY <2>1, <2>5, <2>6, <2>7 DEF Begins, Fit, Reading
  <2>9. Starts(y) BY <1>1, <1>2, <1>5, <1>7, <2>8 DEF Starts, Leaves
  <2>10. Loaded(y, disk')
    <3>1. Numbered(y.pipe)
      <4>1. m.cname # "FILEPOS" BY <2>2 DEF Opens
      <4>. QED BY <2>1, <2>4, <4>1 DEF Numbered
    <3>2. /\ Body \subseteq DOMAIN y /\ y.ino = 0 /\ y.pos = 0 /\ y.buf = << >> /\ y.left = << >> /\ y.pkt = << >>
      BY <1>4 DEF Blank, Body
    <3>3. IsSeq(<< >>) /\ Len(<< >>) = 0 BY NoneSeq
    <3>4. Buffers(y) BY <3>2, <3>3, FileAssumption DEF Buffers
    <3>. QED BY <2>1, <3>1, <3>2, <3>4 DEF Loaded, OnFile, States
  <2>11. Counting' BY <1>5, IdleCounts DEF IInv, TInv
  <2>. QED BY <1>6, <2>9, <2>10, <2>11, StartsTypes
<1>8. CASE UNCHANGED <<handles, xfers>> BY <1>5, <1>6, <1>8, CtlTypes
<1>. QED BY <1>5, <1>7, <1>8

LEMMA DirectoryTypes ==
  ASSUME IInv, TInv, directory
  PROVE  TInv'
<1>1. Holding /\ T.fh \in DOMAIN handles /\ Fh.type = "INPUT" BY GrantedTo DEF directory
<1> DEFINE p == Parse(A.strings[1], FALSE)
           x == [makexfer(T.fh, "DIR", AsText(A.options)) EXCEPT !.real = p.real, !.dir = p.dir]
           known == A.options \subseteq {"DELETED", "FAST", "SORTED"}
<1>2. CASE ~known
  <2>1. Errs("ICO") BY <1>2 DEF directory
  <2>. QED BY <2>1, ErrsTypes
<1>3. CASE known /\ Fh.xfer # 0
  <2>1. Errs("BUG") BY <1>3 DEF directory
  <2>. QED BY <2>1, ErrsTypes
<1>4. CASE known /\ Fh.xfer = 0
  <2>1. IF p.err # "none" THEN Errs(p.err) ELSE List(x, "DIRECTORY") BY <1>4 DEF directory
  <2>2. Lists(x) BY DEF Lists, makexfer, Core, Fh
  <2>3. Blank(x) BY DEF Blank, makexfer, Body
  <2> HIDE DEF p, x
  <2>4. CASE p.err # "none" BY <2>1, <2>4, ErrsTypes
  <2>5. CASE p.err = "none"
    <3>1. List(x, "DIRECTORY") /\ "DIRECTORY" \in Opens BY <2>1, <2>5 DEF Opens
    <3>. QED BY <1>1, <1>4, <2>2, <2>3, <3>1, ListTypes
  <2>. QED BY <2>4, <2>5
<1>. QED BY <1>2, <1>3, <1>4

LEMMA GetpropsTypes ==
  ASSUME IInv, TInv, getprops
  PROVE  TInv'
<1>1. Holding /\ T.fh \in DOMAIN handles /\ Fh.type = "INPUT" BY GrantedTo, ZenonT(40) DEF getprops
<1> DEFINE name  == A.strings[1]
           other == Head(name)
           y     == xfers[handles[other].xfer]
           p     == IF name # << >> THEN [err |-> "none", real |-> y.preal, dir |-> y.dir]
                                    ELSE Parse(A.strings[2], FALSE)
           temp  == IF name # << >> THEN y.temp ELSE NoFile
           bad   == name # << >> /\ (other \notin DOMAIN handles \/ handles[other].xfer = 0)
           none  == IF name = << >> THEN ~Has(2) ELSE temp = NoFile
           x     == [makexfer(T.fh, "PROPERTIES", AsText(A.options)) EXCEPT
                       !.real = p.real, !.dir = p.dir, !.temp = temp]
<1>2. CASE Fh.xfer # 0 \/ bad
  <2>1. Errs("BUG") BY <1>2 DEF getprops
  <2>. QED BY <2>1, ErrsTypes
<1>3. CASE Fh.xfer = 0 /\ ~bad /\ none
  <2>1. Crash /\ UNCHANGED <<handles, xfers, conns, disk>> BY <1>3 DEF getprops
  <2>. QED BY <2>1, StillTypes
<1>4. CASE Fh.xfer = 0 /\ ~bad /\ ~none
  <2>1. IF Named(p) # "none" THEN Errs(Named(p)) ELSE List(x, "PROPERTIES") BY <1>4 DEF getprops
  <2>2. Lists(x)
    <3> HIDE DEF p, temp
    <3>. QED BY DEF Lists, makexfer, Core, Fh
  <2>3. Blank(x)
    <3> HIDE DEF p, temp
    <3>. QED BY DEF Blank, makexfer, Body
  <2> HIDE DEF p, x, bad, none
  <2>4. CASE Named(p) # "none" BY <2>1, <2>4, ErrsTypes
  <2>5. CASE Named(p) = "none"
    <3>1. List(x, "PROPERTIES") /\ "PROPERTIES" \in Opens BY <2>1, <2>5 DEF Opens
    <3>. QED BY <1>1, <1>4, <2>2, <2>3, <3>1, ListTypes
  <2>. QED BY <2>4, <2>5
<1>. QED BY <1>2, <1>3, <1>4

-----------------------------------------------------------------------------
(* Properties. *)

LEMMA ChangeTypes ==
  ASSUME IInv, TInv, NEW n, Change(n), T.cname = "CHANGE_PROPERTIES"
  PROVE  TInv'
<1>1. UNCHANGED <<handles, xfers, conns, disk>> BY DEF Change
<1>2. PICK v : v = [file |-> n, was |-> File(disk, n)] OBVIOUS
<1>3. main' = [main EXCEPT !.pc = "put", !.prop = v] BY <1>2 DEF Change
<1>4. /\ main'.pc = "put" /\ main'.cmd = main.cmd /\ main'.args = main.args /\ main'.lastnum = main.lastnum
      /\ main'.wait = main.wait /\ main'.nprocdone = main.nprocdone
  BY <1>3 DEF IInv, Mind
<1>5. Counting' BY <1>4 DEF TInv, Counting, T, A
<1>6. Grows(disk, disk') BY <1>1, SelfGrows DEF TInv
<1>. QED BY <1>1, <1>5, <1>6, SameTypes DEF IInv, Tables

LEMMA ChngpropTypes ==
  ASSUME IInv, TInv, chngprop
  PROVE  TInv'
<1>1. T.cname = "CHANGE_PROPERTIES" BY GrantedTo DEF chngprop
<1>2. \/ \E code : Errs(code)
      \/ \E n : Change(n)
      \/ Crash /\ UNCHANGED <<handles, xfers, conns, disk>>
  <2> DEFINE named == Has(1) /\ A.strings[1] # << >>
             n     == IF X.kind = "WRITE" THEN X.temp ELSE X.preal
             p     == Parse(A.strings[1], FALSE)
             lists == X.kind \in {"DIR", "PROPERTIES"}
             lost  == n = NoFile \/ Stat(disk, n) # "OK"
  <2>1. CASE T.fh # "" /\ (named \/ Fh.xfer = 0) BY <2>1 DEF chngprop
  <2>2. CASE T.fh # "" /\ ~named /\ Fh.xfer # 0
    <3>1. CASE lists BY <2>2, <3>1 DEF chngprop
    <3>2. CASE ~lists /\ lost BY <2>2, <3>2 DEF chngprop
    <3>3. CASE ~lists /\ ~lost
      <4>1. Change(n) BY <2>2, <3>3 DEF chngprop
      <4>. QED BY <4>1
    <3>. QED BY <3>1, <3>2, <3>3
  <2>3. CASE T.fh = ""
    <3>1. IF Named(p) # "none" THEN Errs(Named(p)) ELSE Change(p.real) BY <2>3 DEF chngprop
    <3> HIDE DEF p
    <3>. QED BY <3>1
  <2>. QED BY <2>1, <2>2, <2>3
<1>. QED BY <1>1, <1>2, ErrsTypes, ChangeTypes, StillTypes

(* A change of a property leaves the file's bytes.                         *)
LEMMA PutpropGrows ==
  ASSUME IsDisk(disk), NEW p, NEW name, NEW value
  PROVE  Grows(disk, putprop(p, name, value).disk)
<1>1. \A code : Err(code).disk = disk BY DEF Err
<1>2. Nothing.disk = disk BY DEF Err, Nothing
<1>3. ASSUME NEW g, Filed(File(disk, p.file)) => Filed(g), NEW date PROVE Grows(disk, Make(p, g, date).disk)
  <2>1. CASE Owned(p)
    <3>1. PICK k : k = [disk EXCEPT !.files[disk.names[p.file]] = g] OBVIOUS
    <3>2. Make(p, g, date).disk = k BY <2>1, <3>1 DEF Make
    <3>3. disk.names[p.file] \in DOMAIN disk.files BY <2>1, FoundThere DEF Owned, IsDisk
    <3>4. Filed(File(disk, p.file)) BY <3>3 DEF IsDisk, Filed, File
    <3>. QED BY <1>3, <3>1, <3>2, <3>3, <3>4, FilePut
  <2>2. CASE ~Owned(p)
    <3>1. Make(p, g, date).disk = disk BY <1>1, <2>2 DEF Make
    <3>. QED BY <3>1, SelfGrows
  <2>. QED BY <2>1, <2>2
<1>4. PICK f : f = File(disk, p.file) OBVIOUS
<1>5. ASSUME NEW n PROVE putname(p, n).disk = disk BY <1>1, <1>2 DEF putname
<1>6. ASSUME NEW mode PROVE Grows(disk, putprot(p, mode).disk)
  <2>1. CASE mode \notin DOMAIN PermOf BY <1>1, <2>1, SelfGrows DEF putprot
  <2>2. CASE mode \in DOMAIN PermOf /\ PermOf[mode] = p.was.perm BY <1>2, <2>2, SelfGrows DEF putprot
  <2>3. CASE mode \in DOMAIN PermOf /\ PermOf[mode] # p.was.perm
    <3>1. PICK g : g = [f EXCEPT !.perm = PermOf[mode]] OBVIOUS
    <3>2. putprot(p, mode) = Make(p, g, "none") BY <1>4, <2>3, <3>1 DEF putprot
    <3>3. Filed(f) => Filed(g) BY <3>1 DEF Filed
    <3>. QED BY <1>3, <1>4, <3>2, <3>3
  <2>. QED BY <2>1, <2>2, <2>3
<1>7. ASSUME NEW time PROVE Grows(disk, putmdate(p, time).disk)
  <2>1. CASE time \notin DOMAIN NumberOf BY <1>1, <2>1, SelfGrows DEF putmdate
  <2>2. CASE time \in DOMAIN NumberOf /\ NumberOf[time] = p.was.mtime BY <1>2, <2>2, SelfGrows DEF putmdate
  <2>3. CASE time \in DOMAIN NumberOf /\ NumberOf[time] # p.was.mtime
    <3>1. PICK g : g = [f EXCEPT !.atime = p.was.atime, !.mtime = NumberOf[time]] OBVIOUS
    <3>2. putmdate(p, time) = Make(p, g, "mdatfh") BY <1>4, <2>3, <3>1 DEF putmdate
    <3>3. Filed(f) => Filed(g) BY <3>1 DEF Filed
    <3>. QED BY <1>3, <1>4, <3>2, <3>3
  <2>. QED BY <2>1, <2>2, <2>3
<1>8. ASSUME NEW time PROVE Grows(disk, putrdate(p, time).disk)
  <2>1. CASE time \notin DOMAIN NumberOf BY <1>1, <2>1, SelfGrows DEF putrdate
  <2>2. CASE time \in DOMAIN NumberOf /\ NumberOf[time] = p.was.atime BY <1>2, <2>2, SelfGrows DEF putrdate
  <2>3. CASE time \in DOMAIN NumberOf /\ NumberOf[time] # p.was.atime
    <3>1. PICK g : g = [f EXCEPT !.atime = NumberOf[time], !.mtime = p.was.mtime] OBVIOUS
    <3>2. putrdate(p, time) = Make(p, g, "adatfh") BY <1>4, <2>3, <3>1 DEF putrdate
    <3>3. Filed(f) => Filed(g) BY <3>1 DEF Filed
    <3>. QED BY <1>3, <1>4, <3>2, <3>3
  <2>. QED BY <2>1, <2>2, <2>3
<1>9. Grows(disk, disk) BY SelfGrows
<1>10. \/ \E code : putprop(p, name, value) = Err(code)
       \/ \E n : putprop(p, name, value) = putname(p, n)
       \/ \E w : putprop(p, name, value) = putprot(p, w)
       \/ \E w : putprop(p, name, value) = putrdate(p, w)
       \/ \E w : putprop(p, name, value) = putmdate(p, w)
  BY PutpropIs
<1>. QED BY <1>1, <1>5, <1>6, <1>7, <1>8, <1>9, <1>10

LEMMA NextPropTypes ==
  ASSUME IInv, TInv, NextProp
  PROVE  TInv'
<1>1. main.pc = "put" BY DEF NextProp
<1>2. T.cname = "CHANGE_PROPERTIES" BY <1>1 DEF TInv, Counting
<1>3. T.fh # "" => T.fh \in DOMAIN handles BY <1>1 DEF IInv, Mind, T
<1> DEFINE q == Head(A.plist)
           r == putprop(main.prop, Head(q.name), q.value)
           i == IF T.fh = "" THEN 0 ELSE Fh.xfer
           on == [main EXCEPT !.args.plist = Tail(@)]
           word == IF q.value = << >> THEN "" ELSE Head(q.value)
           m == Msg("XXXXX", r.date, NumberOf[word])
<1>4. CASE A.plist = << >>
  <2>1. Errs("OK") BY <1>4 DEF NextProp
  <2>. QED BY <2>1, ErrsTypes
<1>5. CASE A.plist # << >> /\ r.code # "none"
  <2>1. Errs(r.code) BY <1>5 DEF NextProp
  <2>. QED BY <2>1, ErrsTypes
<1>6. CASE A.plist # << >> /\ r.code = "none"
  <2>1. /\ disk' = r.disk /\ UNCHANGED <<handles, conns>>
        /\ IF r.date = "none" \/ i = 0 THEN main' = on /\ UNCHANGED xfers ELSE Tell(i, m, on)
    BY <1>6 DEF NextProp
  <2>2. r.date \in {"none", "mdatfh", "adatfh"} BY DateSaid
  <2>3. m.cname # "FILEPOS" BY <2>2 DEF Msg
  <2>4. Grows(disk, disk') BY <2>1, PutpropGrows DEF TInv
  <2>5. ASSUME main' = on PROVE Counting'
    <3>1. /\ main'.cmd = main.cmd /\ main'.pc = "put" /\ main'.lastnum = main.lastnum
          /\ main'.wait = main.wait /\ main'.nprocdone = main.nprocdone
      BY <1>1, <2>5 DEF IInv, Mind
    <3>2. T'.cname = "CHANGE_PROPERTIES" BY <1>2, <3>1 DEF T
    <3>. QED BY <3>1, <3>2 DEF TInv, Counting
  <2> HIDE DEF m, r, on
  <2>6. CASE r.date = "none" \/ i = 0
    <3>1. main' = on /\ UNCHANGED xfers BY <2>1, <2>6
    <3>. QED BY <2>1, <2>4, <2>5, <3>1, SameTypes DEF IInv, Tables
  <2>7. CASE r.date # "none" /\ i # 0
    <3>1. i \in DOMAIN xfers BY <1>3, <2>7, OnIt DEF IInv
    <3>2. Tell(i, m, on) BY <2>1, <2>7
    <3> HIDE DEF i
    <3>. QED BY <2>1, <2>3, <2>4, <2>5, <3>1, <3>2, TellTypes
  <2>. QED BY <2>6, <2>7
<1>. QED BY <1>4, <1>5, <1>6

-----------------------------------------------------------------------------
(* The control process, the user and the net. *)

LEMMA ControlTypes ==
  ASSUME IInv, TInv, Control
  PROVE  TInv'
<1>1. CASE xcheck \/ xflush \/ Reap \/ ReadCommand BY <1>1, CheckTypes, FlushTypes, ReapTypes, ReadTypes
<1>2. CASE finish \/ Refused \/ SendSignal \/ xcommand BY <1>2, FinishTypes, SignalTypes, XcommandTypes
<1>3. CASE dataconn \/ undataconn \/ login BY <1>3, DataconnTypes, UndataconnTypes, LoginTypes
<1>4. CASE fileopen \/ delete \/ xrename BY <1>4, FileopenTypes, DeleteTypes, RenameTypes
<1>5. CASE complete \/ crdir \/ expunge BY <1>5, CompleteTypes, CrdirTypes
<1>6. CASE directory \/ getprops BY <1>6, DirectoryTypes, GetpropsTypes
<1>7. CASE chngprop \/ NextProp BY <1>7, ChngpropTypes, NextPropTypes
<1>. QED BY <1>1, <1>2, <1>3, <1>4, <1>5, <1>6, <1>7 DEF Control

(* What happens on the net.                                                *)
LEMMA NetTypes ==
  ASSUME IInv, TInv, UNCHANGED <<main, handles, xfers, disk>>, Wires'
  PROVE  TInv'
<1>1. Counting' BY DEF TInv, Counting, T, A
<1>2. Paired' BY DEF TInv, Paired
<1>3. Whole' /\ IsDisk(disk)' BY DEF TInv, Whole
<1>. QED BY <1>1, <1>2, <1>3 DEF TInv

LEMMA PutWires ==
  ASSUME IInv, TInv, NEW n, NEW u, UserPut(n, u), Sendable(u)
  PROVE  Wires'
<1> DEFINE d == u.conn
           p == [op |-> u.op, data |-> u.data]
<1>1. d \in DOMAIN conns /\ DOMAIN conns' = DOMAIN conns /\ \A e \in DOMAIN conns : e # d => conns'[e] = conns[e]
  BY DEF UserPut
<1>2. {"in", "out", "up"} \subseteq DOMAIN conns[d] /\ Wire(conns[d]) BY <1>1 DEF IInv, Tables, Nets, TInv, Wires
<1>3. /\ DOMAIN conns'[d] = DOMAIN conns[d] /\ conns'[d].out = conns[d].out
      /\ conns'[d].in = Append(conns[d].in, p)
  BY <1>1, <1>2 DEF UserPut
<1>4. p \in Packets BY DEF Sendable, Packets
<1> HIDE DEF d, p
<1>5. Wire(conns'[d])
  <2>1. PICK s : s = conns[d].in OBVIOUS
  <2>2. s \in Seq(Packets) BY <1>2, <2>1 DEF Wire
  <2>3. Append(s, p) \in Seq(Packets) BY <1>4, <2>2
  <2>. QED BY <1>2, <1>3, <2>1, <2>3 DEF Wire
<1>. QED BY <1>1, <1>5 DEF TInv, Wires

LEMMA DrainWires ==
  ASSUME IInv, TInv, NEW n, NEW u, UserDrain(n, u)
  PROVE  Wires'
<1> DEFINE d == u.conn
<1>1. /\ d \in DOMAIN conns /\ conns[d].out # << >> /\ DOMAIN conns' = DOMAIN conns
      /\ \A e \in DOMAIN conns : e # d => conns'[e] = conns[e]
  BY DEF UserDrain
<1>2. {"in", "out", "up"} \subseteq DOMAIN conns[d] /\ Wire(conns[d]) BY <1>1 DEF IInv, Tables, Nets, TInv, Wires
<1>3. /\ DOMAIN conns'[d] = DOMAIN conns[d] /\ conns'[d].in = conns[d].in
      /\ conns'[d].out = Tail(conns[d].out)
  BY <1>1, <1>2 DEF UserDrain
<1> HIDE DEF d
<1>4. Wire(conns'[d])
  <2>1. PICK s : s = conns[d].out OBVIOUS
  <2>2. PICK t : t = Tail(s) OBVIOUS
  <2>3. IsSeq(s) /\ Len(s) <= NetMax /\ s # << >> BY <1>1, <1>2, <2>1 DEF Wire
  <2>4. IsSeq(t) BY <2>2, <2>3, TailSeq
  <2>5. Len(t) <= NetMax
    <3>1. s \in Seq(Range(s)) BY <2>3 DEF IsSeq
    <3>2. Len(t) = Len(s) - 1 /\ Len(s) \in Nat BY <2>2, <2>3, <3>1, HeadTailProperties, LenProperties
    <3>. QED BY <2>3, <3>2, FileAssumption
  <2>. QED BY <1>2, <1>3, <2>1, <2>2, <2>4, <2>5 DEF Wire
<1>. QED BY <1>1, <1>4 DEF TInv, Wires

LEMMA UserTypes ==
  ASSUME IInv, TInv, UserNext
  PROVE  TInv'
<1>1. PICK n \in DOMAIN user.threads :
        /\ user.threads[n] # << >>
        /\ LET u == Head(user.threads[n]) IN UserSay(n, u) \/ UserHear(n, u) \/ UserPut(n, u) \/ UserDrain(n, u)
  BY DEF UserNext
<1>2. PICK u : u = Head(user.threads[n]) OBVIOUS
<1>3. UserSay(n, u) \/ UserHear(n, u) \/ UserPut(n, u) \/ UserDrain(n, u) BY <1>1, <1>2
<1>4. UNCHANGED <<main, handles, xfers, disk>> BY <1>3 DEF UserSay, UserHear, UserPut, UserDrain
<1>5. Wires'
  <2>1. CASE UserSay(n, u) \/ UserHear(n, u)
    <3>1. UNCHANGED conns BY <2>1 DEF UserSay, UserHear
    <3>. QED BY <3>1 DEF TInv, Wires
  <2>2. CASE UserPut(n, u)
    <3>1. Advance(n) /\ u.do = "put" BY <2>2 DEF UserPut
    <3>2. Sendable(u) BY <1>1, <1>2, <3>1, AdvanceSays DEF IInv
    <3>. QED BY <2>2, <3>2, PutWires
  <2>3. CASE UserDrain(n, u) BY <2>3, DrainWires
  <2>. QED BY <1>3, <2>1, <2>2, <2>3
<1>. QED BY <1>4, <1>5, NetTypes

LEMMA NetFailsTypes ==
  ASSUME IInv, TInv, NetFails
  PROVE  TInv'
<1>1. UNCHANGED <<main, handles, xfers, disk>> /\ \E d \in DOMAIN conns : conns' = [conns EXCEPT ![d].up = FALSE]
  BY DEF NetFails
<1>2. Wires' BY <1>1, DownWires DEF TInv, IInv, Tables
<1>. QED BY <1>1, <1>2, NetTypes

LEMMA InitTypes == Init => TInv
<1>. SUFFICES ASSUME Init PROVE TInv OBVIOUS
<1>1. PICK s \in 1 .. Len(Scripts) :
        main = Fresh /\ handles = << >> /\ xfers = << >> /\ conns = << >> /\ disk = Scripts[s].disk
  BY DEF Init
<1>2. IsDisk(disk) BY <1>1, ScriptAssumption
<1>3. main.pc = "check" /\ main.cmd = NoCmd /\ main.lastnum = 0 /\ main.wait = 0 /\ main.nprocdone = 0
  BY <1>1 DEF Fresh
<1>4. NoCmd.cname = "" BY DEF NoCmd
<1>5. 0 \in 0 .. Len(Digit)
  <2>1. IsSeq(Digit) BY FileAssumption
  <2>2. Len(Digit) \in Nat BY <2>1, SeqDomain
  <2>. QED BY <2>2
<1>6. Counting
  <2>1. T.cname = "" BY <1>3, <1>4 DEF T
  <2>2. main.lastnum \in 0 .. Len(Digit) BY <1>3, <1>5
  <2>3. main.wait \in Int /\ main.nprocdone \in Nat BY <1>3
  <2>4. T.cname \notin {"CLOSE", "FILEPOS", "CONTINUE"} BY <2>1
  <2>5. main.pc # "put" /\ main.pc \in {"check", "reap", "read", "recheck", "rereap", "do", "put", "kill", "dead", "gone"}
    BY <1>3
  <2>. QED BY <2>2, <2>3, <2>4, <2>5 DEF Counting
<1>7. DOMAIN handles = {} /\ DOMAIN xfers = {} /\ DOMAIN conns = {} BY <1>1, NoneSeq
<1>. QED BY <1>2, <1>6, <1>7 DEF TInv, Paired, Whole, Wires

(* The types are those of the variables.                                   *)
LEMMA TypesOK == ASSUME IInv, TInv PROVE TypeOK
<1>1. /\ Len(xfers) \in Nat /\ DOMAIN xfers = 1 .. Len(xfers)
      /\ Len(disk.files) \in Nat /\ DOMAIN disk.files = 1 .. Len(disk.files)
      /\ Len(ctlpipe) \in Nat /\ DOMAIN ctlpipe = 1 .. Len(ctlpipe)
  BY SeqDomain DEF IInv, Tables, Fitting, Posted, TInv, IsDisk
<1>2. /\ main.pc \in {"check", "reap", "read", "recheck", "rereap", "do", "put", "kill", "dead", "gone"}
      /\ main.lastnum \in 0 .. Len(Digit) /\ main.wait \in Int /\ main.nprocdone \in Nat
  BY DEF TInv, Counting
<1>3. ASSUME NEW h \in DOMAIN handles
      PROVE  /\ handles[h].type \in {"INPUT", "OUTPUT"} /\ handles[h].conn \in DOMAIN conns
             /\ handles[h].other \in DOMAIN handles /\ handles[handles[h].other].other = h
             /\ handles[h].xfer \in 0 .. Len(xfers)
             /\ handles[h].xfer # 0 => xfers[handles[h].xfer].listed /\ xfers[handles[h].xfer].fh = h
  <2>1. HandleOK(handles[h]) BY DEF IInv, Tables, Handles
  <2>2. handles[h].xfer \in 0 .. Len(xfers) BY <1>1, <2>1 DEF HandleOK
  <2>. QED BY <2>1, <2>2 DEF HandleOK, TInv, Paired
<1>4. ASSUME NEW i \in DOMAIN xfers
      PROVE  /\ xfers[i].kind \in Kinds /\ xfers[i].conn \in DOMAIN conns
             /\ xfers[i].state \in {"IDLE", "PROCESS", "REOF", "SEOF", "DONE", "DERROR", "BROKEN", "ABORT",
                                    "WSYNC", "RSYNC", "ERROR", "RETRY"}
             /\ xfers[i].ino \in 0 .. Len(disk.files)
             /\ Len(xfers[i].pkt) <= CHMAXDATA /\ xfers[i].pos \in Nat
  <2>1. Loaded(xfers[i], disk) BY DEF TInv, Whole
  <2>2. xfers[i].kind \in Kinds /\ xfers[i].conn \in DOMAIN conns BY DEF IInv, Tables, Fitting, Fit, Shape
  <2>3. xfers[i].ino \in 0 .. Len(disk.files) BY <1>1, <2>1 DEF Loaded, OnFile
  <2>. QED BY <2>1, <2>2, <2>3 DEF Loaded, Buffers, States
<1>5. \A d \in DOMAIN conns : conns[d].in \in Seq(Packets) /\ Len(conns[d].out) <= NetMax
  BY DEF TInv, Wires, Wire
<1>6. \A n \in 1 .. Len(ctlpipe) : ctlpipe[n] \in DOMAIN xfers BY <1>1 DEF IInv, Tables, Posted
<1>7. \A n \in DOMAIN disk.names : disk.names[n] \in 1 .. Len(disk.files) BY <1>1 DEF TInv, IsDisk, Names
<1>. QED BY <1>2, <1>3, <1>4, <1>5, <1>6, <1>7 DEF TypeOK

-----------------------------------------------------------------------------
(* What the FILE server promises. *)

(* The tables of the server agree with each other and a command is in one  *)
(* place: the invariant, of the start and of every step of the control     *)
(* process, a transfer, the user and the net.                              *)
THEOREM ServerInvariance == Spec => []IInv
<1>1. ASSUME IInv, [Next]_vars PROVE IInv'
  <2>1. CASE Control BY <1>1, <2>1, ControlInv
  <2>2. CASE \E i \in DOMAIN xfers : Transfer(i) BY <1>1, <2>2, TransferInv
  <2>3. CASE UserNext BY <1>1, <2>3, UserInv
  <2>4. CASE NetFails BY <1>1, <2>4, NetFailsInv
  <2>5. CASE UNCHANGED vars BY <1>1, <2>5, SameInv
  <2>. QED BY <1>1, <2>1, <2>2, <2>3, <2>4, <2>5 DEF Next
<1>. QED BY <1>1, InitInv, PTL DEF Spec

(* A handle has one transfer at work at most (startxfer, xcheck): what the *)
(* control process lists is on its handle, what it does not is finished.   *)
THEOREM OneAtWork == Spec => []OneTransfer
<1>1. ASSUME IInv PROVE OneTransfer
  <2>1. ASSUME NEW i \in DOMAIN xfers, Working(i) PROVE OnHandle(i, xfers[i])
    BY <1>1, <2>1 DEF Working, IInv, Tables, Listed, Finished
  <2>2. ASSUME NEW i \in DOMAIN xfers, NEW j \in DOMAIN xfers, i # j, Working(i), Working(j),
               xfers[i].conn = xfers[j].conn, Reading(xfers[i]) <=> Reading(xfers[j])
        PROVE  FALSE
    <3>1. OnHandle(i, xfers[i]) /\ OnHandle(j, xfers[j]) BY <2>1, <2>2
    <3>2. xfers[i].fh # xfers[j].fh BY <2>2, <3>1 DEF OnHandle
    <3>. QED BY <1>1, <2>2, <3>1, <3>2 DEF OnHandle, IInv, Tables, Handles
  <2>. QED BY <2>2, Zenon DEF OneTransfer, Reading
<1>. QED BY <1>1, ServerInvariance, PTL

(* No command is answered twice, by the control process, by the transfer   *)
(* it was passed to, or by one and then the other (respond, error, xclose).*)
THEOREM NoSecondAnswer == Spec => []AnsweredOnce
<1>1. IInv => AnsweredOnce BY DEF IInv, Tokens
<1>. QED BY <1>1, ServerInvariance, PTL

(* Whoever has the answer to its CLOSE finds the handle free (xclose,      *)
(* xcheck): a command said after it is performed when the transfer is off  *)
(* the list.                                                               *)
THEOREM FreeAfterClose == Spec => []HandleFree
<1>1. IInv => HandleFree BY DEF IInv, Looked, HandleFree
<1>. QED BY <1>1, ServerInvariance, PTL

(* Every variable keeps its type, whatever the user says and the net does: *)
(* a pointer to a handle, a transfer, a connection or a file is to one     *)
(* there is, a packet is not longer than CHMAXDATA, and the positions and  *)
(* counts are numbers (the pointers and buffers of FILE.c).                *)
THEOREM ServerTypeCorrect == Spec => []TypeOK
<1>1. ASSUME IInv, TInv, [Next]_vars PROVE TInv'
  <2>1. CASE Control BY <1>1, <2>1, ControlTypes
  <2>2. CASE \E i \in DOMAIN xfers : Transfer(i) BY <1>1, <2>2, TransferTypes
  <2>3. CASE UserNext BY <1>1, <2>3, UserTypes
  <2>4. CASE NetFails BY <1>1, <2>4, NetFailsTypes
  <2>5. CASE UNCHANGED vars
    <3>1. UNCHANGED <<main, handles, xfers, disk, conns>> BY <2>5 DEF vars
    <3>2. Wires' BY <1>1, <3>1 DEF TInv, Wires
    <3>. QED BY <1>1, <3>1, <3>2, NetTypes
  <2>. QED BY <1>1, <2>1, <2>2, <2>3, <2>4, <2>5 DEF Next
<1>2. IInv /\ TInv => TypeOK BY TypesOK
<1>. QED BY <1>1, <1>2, InitTypes, ServerInvariance, PTL DEF Spec
=============================================================================
