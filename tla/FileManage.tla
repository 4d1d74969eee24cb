----------------------------- MODULE FileManage ------------------------------
(***************************************************************************)
(* The commands of the FILE server that work on names and properties       *)
(* (FILE.c: delete, xrename, complete, crdir, expunge, chngprop) and the   *)
(* two that list them through a transfer (directory, getprops).            *)
(***************************************************************************)
EXTENDS FileControl

(* mkdir and rmdir are processes of their own: the wait for one may meet   *)
(* transfers that are done, which xcheck() is then not to wait for.        *)
Runs(code, r) ==
  \E S \in SUBSET Zombies :
    /\ main' = [Idle(main) EXCEPT !.nprocdone = @ + Cardinality(S)]
    /\ xfers' = [i \in DOMAIN xfers |-> IF i \in S THEN [xfers[i] EXCEPT !.pc = "gone"] ELSE xfers[i]]
    /\ Reply(IF r.err = "OK" THEN "OK" ELSE code) /\ disk' = r.disk
    /\ UNCHANGED <<handles, ctlpipe, conns, control, user, faults>>

-----------------------------------------------------------------------------
(* DELETE *)

CannotUnlink(err, dir) ==
  CASE err = "EACCES"  -> "ATD"
    [] err = "ENOENT"  -> Missing(dir)
    [] err = "ENOTDIR" -> "DNF"
    [] OTHER           -> "MSC"

(* The file on a handle, under the name it has now; the transfer is told,  *)
(* so that closing does not give it a name again.                          *)
DeleteOpen ==
  LET r == Unlink(disk, IF X.temp = NoFile THEN X.preal ELSE X.temp)
  IN IF r.err # "OK" THEN Errs(CASE r.err = "EACCES" -> "ATD"
                                 [] r.err \in {"ENOENT", "ENOTDIR"} -> "DNF"
                                 [] OTHER -> "MSC")
     ELSE /\ disk' = r.disk /\ Reply("OK")
          /\ sendcmd(Fh.xfer, Msg("XXXXX", "delfh", 0))
          /\ UNCHANGED <<handles, ctlpipe, conns, control, user, faults>>

DeleteNamed(p) ==
  LET r == Unlink(disk, p.real)
  IN CASE Named(p) # "none" -> Errs(Named(p))
       [] Named(p) = "none" /\ ~IsDir(p.real) ->
            IF r.err = "OK" THEN Answers("OK", << >>, r.disk) ELSE Errs(CannotUnlink(r.err, p.dir))
       [] OTHER -> IF \/ Access(disk, p.dir, {"w"}) # "OK" \/ Access(disk, p.real, {"x", "w"}) # "OK"
                     THEN Errs("ATD") ELSE Runs("DNE", Rmdir(disk, p.real))

delete ==
  /\ Doing("DELETE")
  /\ CASE T.fh # "" /\ (Has(1) \/ Fh.xfer = 0)                   -> Errs("BUG")
       [] T.fh # "" /\ ~Has(1) /\ Fh.xfer # 0                    ->
            IF X.kind \in {"DIR", "PROPERTIES"} THEN Errs("BUG") ELSE DeleteOpen
       [] T.fh = "" /\ ~Has(1)                                   -> Errs("BUG")
       [] OTHER                                                  -> DeleteNamed(Parse(A.strings[1], FALSE))

-----------------------------------------------------------------------------
(* RENAME *)

(* mv(): a link and an unlink; the second name must not exist.  When both  *)
(* names look well the error is the one of the link, or of the unlink,     *)
(* which leaves both names.                                                *)
CannotLink(k, to, todir, err) ==
  CASE err = "OK"      -> "REF"
    [] err = "EACCES"  -> "ATD"
    [] err = "ENOTDIR" -> "DNF"
    [] OTHER           -> IF Access(k, todir, {}) # "OK" THEN "DNF" ELSE "MSC"
CannotMove(k, from, fromdir, to, todir, err) ==
  CASE err = "EACCES"  -> "ATD"
    [] err = "ENOENT"  -> Missing(fromdir)
    [] err = "ENOTDIR" -> "DNF"
    [] OTHER           -> IF File(k, from).dir THEN "IOD"
                          ELSE IF Access(k, fromdir, {"w"}) # "OK" THEN "ATD"
                          ELSE CannotLink(k, to, todir, Stat(k, to))
Moved(l, r, from, fromdir, to, todir) ==
  [disk |-> r.disk,
   code |-> IF r.err = "OK" THEN "none"
            ELSE CannotMove(l.disk, from, fromdir, to, todir, Stat(l.disk, from))]
Linked(l, from, fromdir, to, todir) ==
  Moved(l, IF l.err = "OK" THEN Unlink(l.disk, from) ELSE l, from, fromdir, to, todir)
mv(from, fromdir, to, todir) == Linked(Link(disk, from, to), from, fromdir, to, todir)

(* With a file handle the rename is done and answered; then the name for   *)
(* the transfer is taken from a pointer that has just been cleared.  A     *)
(* file being written has its name when it is closed.                      *)
RenamedOpen(r) ==
  IF r.code # "none" THEN Answers(r.code, << >>, r.disk)
  ELSE /\ Reply("OK") /\ Crash /\ disk' = r.disk
       /\ UNCHANGED <<handles, xfers, ctlpipe, conns, control, user, faults>>
RenameOpen(p) ==
  RenamedOpen(IF X.kind = "WRITE"
                THEN [disk |-> disk, code |-> IF Access(disk, p.dir, {"x", "w"}) # "OK" THEN "ATD" ELSE "none"]
                ELSE mv(X.preal, X.dir, p.real, p.dir))

RenameNamed(p1, p2) ==
  IF p2.err # "none" THEN Errs(p2.err)
  ELSE LET Reported(r) == Answers(IF r.code = "none" THEN "OK" ELSE r.code, << >>, r.disk)
       IN Reported(mv(p1.real, p1.dir, p2.real, p2.dir))
Renaming(p) ==
  CASE p.err # "none"                     -> Errs(p.err)
    [] p.err = "none" /\ T.fh # ""        -> IF Has(2) \/ Fh.xfer = 0 \/ X.kind \in {"DIR", "PROPERTIES"}
                                              THEN Errs("BUG") ELSE RenameOpen(p)
    [] OTHER                              -> IF Has(2) THEN RenameNamed(p, Parse(A.strings[2], FALSE))
                                                       ELSE Errs("BUG")
xrename == Doing("RENAME") /\ Renaming(Parse(A.strings[1], FALSE))

-----------------------------------------------------------------------------
(* COMPLETE *)

(* The last component as name and type, none of a name that ends in "/".   *)
LastPart(p) == IF p.real = p.dir THEN [name |-> None, type |-> None] ELSE NameType(Last(p.real))

CannotList(dir) ==
  CASE OpenFile(disk, dir, {"r"}) = "EACCES"                 -> "ATD"
    [] OpenFile(disk, dir, {"r"}) \in {"ENOENT", "ENOTDIR"}  -> "DNF"
    [] OTHER -> IF IsDir(dir) THEN "none" ELSE "DNF"

(* The entries come in any order.                                          *)
CompleteIn(d, p) ==
  \E entries \in SetToSeqs(Entries(disk, p.dir)) :
    LET c     == Completion(LastPart(p), LastPart(d), entries)
        n     == IF c.part = << >> THEN p.dir ELSE Append(p.dir, c.part)
        slash == c.dir /\ Stat(disk, n) = "OK" /\ IsDir(n)
    IN IF c.crash
         THEN Crash /\ UNCHANGED <<handles, xfers, ctlpipe, conns, disk, control, replies, user, faults>>
         ELSE Answers("OK", <<IF c.old THEN "OLD" ELSE "NIL", Text(n) \o (IF slash THEN <<"/">> ELSE << >>)>>, disk)

complete ==
  LET deflt == A.strings[1]
      input == A.strings[2]
      d     == Parse(deflt, TRUE)
      p     == Parse(IF input # << >> /\ Head(input) = "/" THEN input ELSE Text(d.dir) \o <<"/">> \o input, TRUE)
  IN /\ Doing("COMPLETE")
     /\ CASE ~A.options \subseteq {"NEW-OK", "OLD", "DELETED", "READ", "WRITE"} -> Errs("UUO")
          [] A.options \subseteq {"NEW-OK", "OLD", "DELETED", "READ", "WRITE"} /\ (deflt = << >> \/ Head(deflt) # "/") ->
               Errs("IPS")
          [] OTHER -> CASE d.err # "none"                    -> Errs(d.err)
                        [] d.err = "none" /\ p.err # "none"  -> Errs(p.err)
                        [] OTHER -> IF CannotList(p.dir) # "none" THEN Errs(CannotList(p.dir)) ELSE CompleteIn(d, p)

-----------------------------------------------------------------------------
(* Directories *)

(* CREATE-DIRECTORY, of the directory part of the name.                    *)
crdir ==
  LET p      == Parse(A.strings[1], TRUE)
      parent == Pop(p.dir)
      access == Access(disk, parent, {"x", "w"})
  IN /\ Doing("CREATE_DIRECTORY")
     /\ CASE p.err # "none"                        -> Errs(p.err)
          [] p.err = "none" /\ access # "OK"       -> Errs(IF access = "EACCES" THEN "ATD" ELSE "DNF")
          [] OTHER -> IF Stat(disk, p.dir) = "OK" THEN Errs("DAE") ELSE Runs("MSC", Mkdir(disk, p.dir, 0))

expunge ==
  LET p == Parse(A.strings[1], TRUE)
  IN Doing("EXPUNGE") /\ IF p.err # "none" THEN Errs(p.err) ELSE Answers("OK", <<0>>, disk)

(* A listing is a transfer, whose first command the handler writes.        *)
List(x, cname) ==
  \/ /\ Started([x EXCEPT !.pipe = <<Msg(T.tid, cname, 0)>>]) /\ main' = Idle(main)
     /\ UNCHANGED <<ctlpipe, conns, disk, control, replies, user, faults>>
  \/ /\ "fork" \in faults /\ faults' = faults \ {"fork"} /\ Reply("NER") /\ main' = Idle(main)
     /\ UNCHANGED <<handles, xfers, ctlpipe, conns, disk, control, user>>

AsText(o) == IF o \cap {"BINARY", "CHARACTER"} = {} THEN o \cup {"CHARACTER"} ELSE o

directory ==
  LET p == Parse(A.strings[1], FALSE)
  IN /\ Doing("DIRECTORY")
     /\ CASE ~A.options \subseteq {"DELETED", "FAST", "SORTED"}                  -> Errs("ICO")
          [] A.options \subseteq {"DELETED", "FAST", "SORTED"} /\ Fh.xfer # 0    -> Errs("BUG")
          [] OTHER -> IF p.err # "none" THEN Errs(p.err)
                      ELSE List([makexfer(T.fh, "DIR", AsText(A.options)) EXCEPT !.real = p.real, !.dir = p.dir],
                                "DIRECTORY")

-----------------------------------------------------------------------------
(* Properties *)

(* PROPERTIES, of a file that is named or open on a handle.  The name of   *)
(* the temporary file of a transfer without one is copied from nowhere, as *)
(* is a file's name that was not given.                                    *)
getprops ==
  LET name  == A.strings[1]
      other == Head(name)
      y     == xfers[handles[other].xfer]
      p     == IF name # << >> THEN [err |-> "none", real |-> y.preal, dir |-> y.dir]
                               ELSE Parse(A.strings[2], FALSE)
      temp  == IF name # << >> THEN y.temp ELSE NoFile
      bad   == name # << >> /\ (other \notin DOMAIN handles \/ handles[other].xfer = 0)
  IN /\ Doing("PROPERTIES")
     /\ CASE Fh.xfer # 0 \/ bad -> Errs("BUG")
          [] Fh.xfer = 0 /\ ~bad /\ IF name = << >> THEN ~Has(2) ELSE temp = NoFile ->
               Crash /\ UNCHANGED <<handles, xfers, ctlpipe, conns, disk, control, replies, user, faults>>
          [] OTHER -> IF Named(p) # "none" THEN Errs(Named(p))
                      ELSE List([makexfer(T.fh, "PROPERTIES", AsText(A.options)) EXCEPT
                                   !.real = p.real, !.dir = p.dir, !.temp = temp],
                                "PROPERTIES")

Settable   == {"AUTHOR", "PROTECTION", "CREATION-DATE", "MODIFICATION-DATE", "REFERENCE-DATE"}
Properties == Settable \cup {"PHYSICAL-VOLUME", "DISK-SPACE-DESCRIPTION", "BLOCK-SIZE", "BYTE-SIZE",
                             "LENGTH-IN-BLOCKS", "LENGTH-IN-BYTES", "SETTABLE-PROPERTIES", "DIRECTORY"}

(* One property of the list, q, on the file of the command: p is what the  *)
(* command keeps of it, its name and what stat() said before the first.    *)
(* It comes to an error, to nothing, or to a change, which is the owner's  *)
(* to make; a date that was changed is sent to the transfer on the file.   *)
Err(code)      == [code |-> code, disk |-> disk, date |-> "none"]
Nothing        == Err("none")
Owned(p)       == Stat(disk, p.file) = "OK" /\ File(disk, p.file).author = "me"
Make(p, g, date) ==
  IF Owned(p) THEN [code |-> "none", disk |-> [disk EXCEPT !.files[disk.names[p.file]] = g], date |-> date]
              ELSE Err("ATF")

putname(p, name) ==
  IF name \notin DOMAIN Passwd THEN Err("IPV")
  ELSE IF (Passwd[name] = main.home) = (p.was.author = "me") THEN Nothing ELSE Err("ATF")
putprot(p, mode) ==
  CASE mode \notin DOMAIN PermOf                                 -> Err("IPV")
    [] mode \in DOMAIN PermOf /\ PermOf[mode] = p.was.perm       -> Nothing
    [] OTHER -> Make(p, [File(disk, p.file) EXCEPT !.perm = PermOf[mode]], "none")
putmdate(p, time) ==
  CASE time \notin DOMAIN NumberOf                               -> Err("IPV")
    [] time \in DOMAIN NumberOf /\ NumberOf[time] = p.was.mtime  -> Nothing
    [] OTHER -> Make(p, [File(disk, p.file) EXCEPT !.atime = p.was.atime, !.mtime = NumberOf[time]], "mdatfh")
putrdate(p, time) ==
  CASE time \notin DOMAIN NumberOf                               -> Err("IPV")
    [] time \in DOMAIN NumberOf /\ NumberOf[time] = p.was.atime  -> Nothing
    [] OTHER -> Make(p, [File(disk, p.file) EXCEPT !.atime = NumberOf[time], !.mtime = p.was.mtime], "adatfh")

putprop(p, name, value) ==
  LET word == IF value = << >> THEN "" ELSE Head(value)
  IN CASE name \notin Settable       -> Err(IF name \in Properties THEN "CSP" ELSE "UKP")
       [] name = "AUTHOR"            -> putname(p, downcase(value))
       [] name = "PROTECTION"        -> putprot(p, word)
       [] name = "REFERENCE-DATE"    -> putrdate(p, word)
       [] OTHER                      -> putmdate(p, word)

(* The loop of chngprop(): the last property first, up to the first error, *)
(* and each a system call of its own, on the name of the file.             *)
NextProp ==
  LET p == main.prop
      q == Head(A.plist)
      r == putprop(p, Head(q.name), q.value)
      i == IF T.fh = "" THEN 0 ELSE Fh.xfer
      on == [main EXCEPT !.args.plist = Tail(@)]
      word == IF q.value = << >> THEN "" ELSE Head(q.value)
  IN /\ main.pc = "put"
     /\ IF A.plist = << >> THEN Errs("OK")
        ELSE IF r.code # "none" THEN Errs(r.code)
        ELSE /\ disk' = r.disk
             /\ IF r.date = "none" \/ i = 0 THEN main' = on /\ UNCHANGED xfers
                                            ELSE Tell(i, Msg("XXXXX", r.date, NumberOf[word]), on)
             /\ UNCHANGED <<handles, ctlpipe, conns, control, replies, user, faults>>

Change(n) ==
  /\ main' = [main EXCEPT !.pc = "put", !.prop = [file |-> n, was |-> File(disk, n)]]
  /\ UNCHANGED <<handles, xfers, ctlpipe, conns, disk, control, replies, user, faults>>

(* CHANGE-PROPERTIES.  After an error with a file handle the command, now  *)
(* freed, is taken for one without: the answer is the last thing done.     *)
chngprop ==
  LET named == Has(1) /\ A.strings[1] # << >>
      n     == IF X.kind = "WRITE" THEN X.temp ELSE X.preal
      p     == Parse(A.strings[1], FALSE)
  IN /\ Doing("CHANGE_PROPERTIES")
     /\ CASE T.fh # "" /\ (named \/ Fh.xfer = 0) -> Reply("BUG") /\ Crash
               /\ UNCHANGED <<handles, xfers, ctlpipe, conns, disk, control, user, faults>>
          [] T.fh # "" /\ ~named /\ Fh.xfer # 0 ->
               CASE X.kind \in {"DIR", "PROPERTIES"} -> Reply("BUG") /\ Crash
                      /\ UNCHANGED <<handles, xfers, ctlpipe, conns, disk, control, user, faults>>
                 [] X.kind \notin {"DIR", "PROPERTIES"} /\ (n = NoFile \/ Stat(disk, n) # "OK") ->
                      Crash /\ UNCHANGED <<handles, xfers, ctlpipe, conns, disk, control, replies, user, faults>>
                 [] OTHER -> Change(n)
          [] OTHER -> IF Named(p) # "none" THEN Errs(Named(p)) ELSE Change(p.real)

Control ==
  \/ xcheck \/ xflush \/ Reap \/ ReadCommand \/ finish \/ Refused \/ SendSignal \/ xcommand
  \/ dataconn \/ undataconn \/ login \/ fileopen \/ delete \/ xrename \/ complete
  \/ crdir \/ expunge \/ directory \/ getprops \/ chngprop
  \/ NextProp
=============================================================================
