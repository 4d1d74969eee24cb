------------------------------- MODULE MCFile --------------------------------
(***************************************************************************)
(* Scripts for the FILE server: a small disk, and what a user does with it *)
(* and what fails meanwhile.  Each script is a model of its own: Init      *)
(* chooses one.                                                            *)
(***************************************************************************)
EXTENDS FileServer

Chars(s) == [i \in 1 .. Len(s) |-> SubSeq(s, i, i)]
Name(parts) == [i \in 1 .. Len(parts) |-> Chars(parts[i])]

MCOrder == Chars("#*-./12?EFIL[]abefhilnuxy~")
MCCode  == [c \in Range(MCOrder) |-> CHOOSE n \in DOMAIN MCOrder : MCOrder[n] = c]
MCLower  == [c \in {"F", "I", "L", "E"} |-> CASE c = "F" -> "f" [] c = "I" -> "i" [] c = "L" -> "l" [] c = "E" -> "e"]
MCPasswd == Chars("u") :> Chars("/h")
MCNumber == [w \in {"0", "1", "2", "8", "17"} |->
               CASE w = "0" -> 0 [] w = "1" -> 1 [] w = "2" -> 2 [] w = "8" -> 8 [] w = "17" -> 17]
MCPerm   == ("644" :> {"r", "w"}) @@ ("000" :> {})
MCDigit  == <<"1", "2">>

(* The disk: the home directory with a file, a file of another's, a        *)
(* compiled file, a directory and one that cannot be searched.             *)
Dir(perm)        == NewFile(TRUE, perm, << >>, 0)
Plain(data)      == NewFile(FALSE, {"r", "w"}, data, 1)
MCDisk ==
  [names |-> (Name(<< >>) :> 1) @@ (Name(<<"h">>) :> 2) @@ (Name(<<"h", "a">>) :> 3) @@
             (Name(<<"h", "b.x">>) :> 4) @@ (Name(<<"h", "n">>) :> 5) @@ (Name(<<"h", "x">>) :> 6) @@
             (Name(<<"h", "x", "y">>) :> 7),
   files |-> <<Dir({"r", "x"}), Dir({"r", "w", "x"}), Plain(<<10, 11, 12, 13, 14, 15>>),
               Plain(<<104, 198, 176, 115, 1>>),
               [Plain(<<3>>) EXCEPT !.perm = {}, !.author = "root"],
               Dir({"r", "w", "x"}), Plain(<<4>>)>>]
Locked == [MCDisk EXCEPT !.files[6].perm = {"r"}]

-----------------------------------------------------------------------------
(* Scripts *)

Line      == <<"NL">>
Path(s)   == Line \o Chars(s) \o Line
Opts(words) == FlattenSeq([i \in 1 .. Len(words) |-> <<"SP", words[i]>>])
Do(tid, fh, cname, args) == <<Say(tid, fh, cname, args), Hear(tid)>>
Begin     == Do("t1", "", "LOGIN", Chars("u")) \o Do("t2", "", "DATA_CONNECTION", <<"i", "SP", "o">>)
Open(tid, fh, words, path) == Do(tid, fh, "OPEN", Opts(words) \o Path(path))
Shut(tid, fh)    == <<Say(tid, fh, "CLOSE", << >>)>>
Closed2(tid, fh) == Do(tid, fh, "CLOSE", << >>)
Synced    == <<Drain(1, "SYN")>>
Ceased(tid, fh)  == Closed2(tid, fh) \o Synced    \* FILE.c:2133: drained only after the answer
Bytes(s)  == <<Put(1, "DAT", s)>>
Ended     == <<Put(1, "EOF", << >>), Put(1, "SYN", << >>)>>
After(tid, s) == <<Hear(tid)>> \o s

Script(threads, failures, before, keep) ==
  [threads |-> threads, faults |-> failures, disk |-> before, keep |-> keep]
Quiet(threads) == Script(threads, {}, MCDisk, {})
KeepA == {Name(<<"h", "a">>)}

(* A file is superseded while its data is written; the CLOSE overtakes it. *)
Supersede ==
  Script(<<Begin \o Open("t3", "o", <<"WRITE", "CHARACTER">>, "a") \o Closed2("t4", "o"),
           After("t3", Bytes(<<138, 20>>) \o Bytes(<<21, 141>>) \o Bytes(<<22>>) \o Ended)>>, {}, MCDisk, KeepA)

(* A file is read; the position is changed while the net is full; the      *)
(* CLOSE comes while the rest is read, and the user drains the net when it *)
(* is answered, or at once; then the handle is used again.                 *)
Reposition(ending) ==
  Quiet(<<Begin \o Open("t3", "i", <<"READ", "CHARACTER">>, "a") \o Do("t4", "i", "FILEPOS", <<"1">>)
            \o Synced \o ending
            \o Open("t6", "i", <<"READ", "DEFAULT">>, "/h/x/../b.x") \o Ceased("t7", "i")
            \o Open("t8", "i", <<"READ">>, "/h/./x") \o <<Drain(1, "ASY")>>
            \o Ceased("t9", "i") \o Do("t10", "i", "UNDATA_CONNECTION", << >>)>>)

(* One file is read and another written over one connection.               *)
BothWays ==
  Quiet(<<Begin \o Open("t3", "o", <<"WRITE", "CHARACTER", "IF-EXISTS", "APPEND">>, "a")
            \o Open("t4", "i", <<"READ", "BINARY">>, "x/y") \o Bytes(<<30>>) \o Ended \o Closed2("t5", "o"),
          After("t5", Ceased("t6", "i"))>>)

(* The disk is full once: the user continues, or closes.                   *)
FullDisk ==
  Script(<<Begin \o Open("t3", "o", <<"WRITE", "CHARACTER", "IF-EXISTS", "OVERWRITE">>, "a")
             \o Bytes(<<40>>) \o <<Put(1, "EOF", << >>), Hear("TIDNO")>>
             \o Do("t4", "o", "CONTINUE", << >>) \o <<Put(1, "SYN", << >>)>> \o Closed2("t5", "o")>>,
         {"nospc"}, MCDisk, {})
FullClose ==
  Script(<<Begin \o Open("t3", "o", <<"WRITE", "CHARACTER">>, "a")
             \o Bytes(<<40, 41>>) \o <<Hear("TIDNO"), Put(1, "SYN", << >>)>> \o Closed2("t5", "o")>>,
         {"nospc"}, MCDisk, KeepA)

(* After a RETRY the buffer is still full: the next packet, not being      *)
(* text, goes past its end; then a directory is made.                      *)
Smashed ==
  Script(<<Begin \o Open("t3", "o", <<"WRITE", "IF-DOES-NOT-EXIST", "CREATE">>, "x/u")
             \o Bytes(<<40, 0>>) \o Bytes(<<41, 0>>) \o <<Hear("TIDNO")>>
             \o Do("t4", "o", "CONTINUE", << >>) \o Bytes(<<42, 0>>)
             \o Do("t5", "", "CREATE_DIRECTORY", Path("u/"))>>,
         {"nospc"}, MCDisk, {})

(* Directories: a listing with a directory made and removed meanwhile, the *)
(* properties of a file, names completed, dates set.                       *)
Listings ==
  Quiet(<<Begin \o Do("t3", "i", "DIRECTORY", Path("*")) \o Do("t4", "", "CREATE_DIRECTORY", Path("u/"))
            \o Ceased("t5", "i") \o Do("t6", "", "DELETE", Path("u"))
            \o Do("t7", "i", "PROPERTIES", Path("a")) \o <<Drain(1, "EOF")>> \o Shut("t8", "i")>>)
NoListing ==
  Quiet(<<Begin \o Do("t3", "i", "DIRECTORY", Path("y/*")) \o Do("t4", "i", "DIRECTORY", Path("?.[a-x]"))
            \o Ceased("t5", "i")>>)
Names2 ==
  Quiet(<<Begin \o Do("t3", "", "COMPLETE", Path("/h/") \o Chars("a") \o Line)
            \o Do("t4", "", "COMPLETE", <<"OLD">> \o Path("/h/b.x") \o Chars("b") \o Line)
            \o Do("t5", "", "RENAME", Path("a") \o Chars("e") \o Line) \o Do("t6", "", "RENAME", Path("x") \o Chars("y") \o Line)
            \o Do("t7", "", "DELETE", Path("~/x/y")) \o Do("t8", "", "EXPUNGE", Path("x/"))
            \o Do("t9", "", "CHANGE_PROPERTIES", Path("b.x") \o <<"CREATION-DATE", "SP", "8">> \o Line)
            \o Open("t10", "", <<"PROBE">>, "b.x")>>)

(* The file on a handle is deleted, its dates are set.                     *)
Deleted ==
  Quiet(<<Begin \o Open("t3", "o", <<"WRITE", "CHARACTER">>, "a") \o Do("t4", "o", "DELETE", << >>)
            \o <<Put(1, "SYN", << >>)>> \o Closed2("t5", "o")>>)
Dated2 ==
  Quiet(<<Begin \o Open("t3", "o", <<"WRITE", "CHARACTER">>, "a")
            \o Do("t4", "o", "CHANGE_PROPERTIES",
                  Line \o <<"MODIFICATION-DATE", "SP", "2">> \o Line \o <<"REFERENCE-DATE", "SP", "8">> \o Line)
            \o Do("t5", "i", "PROPERTIES", <<"o">>) \o <<Put(1, "SYN", << >>)>> \o Closed2("t6", "o")
            \o Shut("t7", "i") \o Synced>>)
DatedLate ==
  Quiet(<<Begin \o Open("t3", "o", <<"WRITE", "CHARACTER">>, "a") \o <<Put(1, "SYN", << >>)>> \o Shut("t4", "o")
            \o Do("t5", "o", "CHANGE_PROPERTIES",
                  Line \o <<"MODIFICATION-DATE", "SP", "2">> \o Line \o <<"REFERENCE-DATE", "SP", "8">> \o Line)>>)

(* Two transfers supersede one file at the same time.                      *)
Race ==
  Quiet(<<Begin \o Do("t3", "", "DATA_CONNECTION", <<"i2", "SP", "o2">>)
            \o Open("t4", "o", <<"WRITE">>, "a") \o Open("t5", "o2", <<"WRITE">>, "a")
            \o <<Put(1, "SYN", << >>)>> \o Closed2("t6", "o"),
          After("t5", <<Put(2, "SYN", << >>)>> \o Closed2("t7", "o2"))>>)

(* Failures: the net, a fork, a connection; a user that leaves.            *)
NetDown(kind, fh, end) ==
  Script(<<Begin \o Open("t3", fh, <<kind, "CHARACTER">>, "a") \o end \o Closed2("t4", fh)>>, {"net"}, MCDisk, KeepA)
Posit ==
  Script(<<Begin \o Open("t3", "i", <<"READ", "CHARACTER">>, "a") \o Do("t4", "i", "FILEPOS", <<"0">>)>>,
         {"net"}, MCDisk, {})
NoFork ==
  Script(<<Begin \o Open("t3", "o", <<"WRITE">>, "u") \o Open("t4", "o", <<"WRITE">>, "u")
            \o Do("t5", "i", "DIRECTORY", Path("x/y"))>>,
         {"fork", "conn"}, MCDisk, {})
Leaves ==
  Quiet(<<Begin \o Open("t3", "i", <<"READ", "CHARACTER">>, "x/y") \o Open("t4", "o", <<"WRITE", "IF-EXISTS", "TRUNCATE">>, "u")
            \o <<Put(1, "SYN", << >>)>> \o Shut("t5", "o") \o Shut("t6", "i") \o Do("t7", "", "LOGIN", << >>),
          After("t5", Synced)>>)
Hangs ==
  Quiet(<<Begin \o Open("t3", "i", <<"READ", "CHARACTER">>, "a") \o <<Say("t4", "", "CLS", << >>), Drain(1, "EOF")>>>>)

(* What is refused, and what the control process does not survive.         *)
Errors ==
  Quiet(<<Do("t1", "", "OPEN", Path("a")) \o Do("t2", "", "LOGIN", Chars("b")) \o Do("t3", "", "LOGIN", Chars("u"))
            \o Open("t4", "", <<"WRITE">>, "a") \o Open("t5", "", <<"PROBE">>, "/h/n/u") \o Do("t6", "z", "CLOSE", << >>)
            \o Do("t7", "", "CREATE_DIRECTORY", Path("/u/b/")) \o Do("t8", "", "DELETE", Path("[a"))
            \o Do("t9", "", "RENAME", Path("n") \o Chars("a") \o Line) \o Open("t10", "", <<"PROBE", "OLD">>, "a")
            \o Do("t11", "", "UNKNOWN", << >>)>>)
Dies(open, fh, cname, args) == Quiet(<<Begin \o open \o Do("t4", fh, cname, args)>>)
DiesReading(fh, cname, args) == Dies(Open("t3", "i", <<"READ", "CHARACTER">>, "a"), fh, cname, args)

MCScripts ==
  <<Supersede, Reposition(Ceased("t5", "i")), Reposition(Shut("t5", "i") \o Synced \o <<Hear("t5")>>),
    BothWays, FullDisk, FullClose, Smashed, Listings, NoListing, Names2, Deleted, Dated2, DatedLate, Race,
    NetDown("READ", "i", << >>), NetDown("WRITE", "o", Ended), Posit, NoFork, Leaves, Hangs, Errors,
    DiesReading("i", "RENAME", Path("u")), DiesReading("", "OPEN", <<"PROBE", "SP", "PROBE-DIRECTORY">> \o Path("a")),
    DiesReading("o", "CHANGE_PROPERTIES", Line),
    Dies(<< >>, "i", "PROPERTIES", << >>), Dies(<< >>, "", "COMPLETE", Path("/h/b.x") \o Line),
    Dies(Do("t3", "i", "DIRECTORY", Path("x/*")), "i", "CHANGE_PROPERTIES", Line),
    Dies(Open("t3", "o", <<"WRITE", "IF-EXISTS", "TRUNCATE">>, "a"), "o", "CHANGE_PROPERTIES", Line)>>
=============================================================================
