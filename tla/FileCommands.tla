---------------------------- MODULE FileCommands ----------------------------
(***************************************************************************)
(* The commands of the FILE protocol and how their arguments are parsed    *)
(* (FILE.c, parseargs and its tables).                                     *)
(*                                                                         *)
(* The text after a command's name is a sequence of tokens: SP and NL for  *)
(* the two characters that delimit, a word for an option's name or a run   *)
(* of digits, a character for anything else.                               *)
(***************************************************************************)
EXTENDS Integers, Sequences, SequencesExt

CONSTANT NumberOf     \* the digits' values: a function from some of the words

ASSUME NumberAssumption == \A w \in DOMAIN NumberOf : NumberOf[w] \in Nat

(* Tables *)

Xoptions == {"ERROR", "NEW-VERSION", "RENAME", "RENAME-AND-DELETE", "OVERWRITE", "APPEND",
             "SUPERSEDE", "CREATE", "TRUNCATE"}

(* Of IF-EXISTS and IF-DOES-NOT-EXIST, the one that x cannot be given to.  *)
XCant(x) == CASE x = "ERROR"  -> "neither"
              [] x = "CREATE" -> "IF-EXISTS"
              [] OTHER        -> "IF-DOES-NOT-EXIST"

OExists == {"IF-EXISTS", "IF-DOES-NOT-EXIST"}
ONumber == {"BYTE-SIZE", "ESTIMATED-LENGTH"}
Ignored == {"INHIBIT-LINKS", "NO-EXTRA-INFO"}
OBit    == {"READ", "WRITE", "PROBE", "CHARACTER", "BINARY", "RAW", "SUPER-IMAGE", "TEMPORARY",
            "DELETED", "OLD", "NEW-OK", "DEFAULT", "FAST", "SORTED", "PRESERVE-DATES",
            "PROBE-DIRECTORY"}

(* The options that cannot be on with a given one.                         *)
OCant(o) == CASE o = "READ"        -> {"WRITE", "PROBE"}
              [] o = "WRITE"       -> {"READ", "PROBE"}
              [] o = "PROBE"       -> {"READ", "WRITE"}
              [] o = "CHARACTER"   -> {"BINARY", "DEFAULT"}
              [] o = "BINARY"      -> {"CHARACTER", "DEFAULT"}
              [] o = "RAW"         -> {"BINARY", "SUPER-IMAGE"}
              [] o = "SUPER-IMAGE" -> {"BINARY", "RAW"}
              [] o = "OLD"         -> {"NEW-OK"}
              [] o = "NEW-OK"      -> {"OLD"}
              [] o = "DEFAULT"     -> {"BINARY", "CHARACTER", "PROBE", "WRITE"}
              [] o = "PROBE-DIRECTORY" -> {"READ", "WRITE"}
              [] OTHER             -> {}

(* c_flags.                                                                *)
Flags ==
  [DATA_CONNECTION |-> {"FHCANT", "NOLOG"}, UNDATA_CONNECTION |-> {"FHMUST", "NOLOG"},
   OPEN |-> {}, CLOSE |-> {"XFER", "FHMUST"}, FILEPOS |-> {"XFER", "FHINPUT"},
   DELETE |-> {}, RENAME |-> {}, CONTINUE |-> {"XFER", "FHMUST"}, EXPUNGE |-> {"FHCANT"},
   LOGIN |-> {"FHCANT", "NOLOG"}, DIRECTORY |-> {"FHINPUT"}, COMPLETE |-> {"FHCANT"},
   CHANGE_PROPERTIES |-> {}, CREATE_DIRECTORY |-> {"FHCANT"}, PROPERTIES |-> {"FHINPUT"}]
Commands == DOMAIN Flags

(* c_syntax for a command of n arguments.  REPEAT goes back to the last    *)
(* OPEND, and a turn takes at least two tokens; FHSKIP leaves the file's   *)
(* name and its NL out when there is a file handle.                        *)
Turns(n) == FlattenSeq([i \in 1 .. n + 1 |-> <<"OPEND", "PNAME", "SP", "PVALUE", "NL">>])
Syntax(cname, fh, n) ==
  CASE cname = "DATA_CONNECTION" -> <<"STRING", "SP", "STRING">>
    [] cname \in {"UNDATA_CONNECTION", "CLOSE", "CONTINUE"} -> << >>
    [] cname \in {"OPEN", "DIRECTORY"} -> <<"OPTIONS", "NL", "STRING", "NL">>
    [] cname = "FILEPOS"    -> <<"NUMBER">>
    [] cname = "DELETE"     -> <<"OPEND", "NL", "STRING", "NL">>
    [] cname = "RENAME"     -> <<"NL", "STRING", "NL", "OPEND", "STRING", "NL">>
    [] cname = "LOGIN"      -> <<"OPEND", "STRING", "OPEND", "SP", "STRING", "OPEND", "SP", "STRING">>
    [] cname = "COMPLETE"   -> <<"OPTIONS", "NL", "STRING", "NL", "STRING", "NL">>
    [] cname = "PROPERTIES" -> <<"STRING", "OPEND", "NL", "STRING", "NL">>
    [] cname \in {"CREATE_DIRECTORY", "EXPUNGE"} -> <<"NL", "STRING", "NL">>
    [] cname = "CHANGE_PROPERTIES" -> (IF fh THEN <<"NL">> ELSE <<"NL", "STRING", "NL">>) \o Turns(n)

-----------------------------------------------------------------------------
(* parseargs *)

(* What an argument parse has come to: the tokens left, the arguments so   *)
(* far, and how it ended: "none" while it goes on, "end" at an OPEND with  *)
(* nothing left, or an error.                                              *)
ainit(args) == [rest |-> args, options |-> {}, strings |-> << >>,
                exists |-> [o \in OExists |-> "NONE"], numbers |-> [o \in ONumber \cup {"pos"} |-> 0],
                plist |-> << >>, end |-> "none"]

Ends(a, err) == [a EXCEPT !.end = err]

(* string(): up to one of the delimiters, or to the end.                   *)
Span(args, delims) ==
  LET stops == {i \in 1 .. Len(args) : args[i] \in delims}
  IN IF stops = {} THEN Len(args) ELSE (CHOOSE i \in stops : \A j \in stops : i <= j) - 1
string(args, delims)      == SubSeq(args, 1, Span(args, delims))
AfterString(args, delims) == SubSeq(args, Span(args, delims) + 1, Len(args))

(* The delimiter of a STRING: the next element of the syntax, past OPEND.  *)
Delims(syntax, i) ==
  LET j == IF i < Len(syntax) /\ syntax[i + 1] = "OPEND" THEN i + 2 ELSE i + 1
  IN IF j > Len(syntax) THEN {} ELSE {syntax[j]}

IsDigits(args) == args # << >> /\ Head(args) \in DOMAIN NumberOf

(* The value of an IF-EXISTS or IF-DOES-NOT-EXIST: SP and a keyword.       *)
getxoption(a, o, args) ==
  LET x == IF Len(args) > 1 THEN args[2] ELSE "SP"
  IN CASE args = << >> \/ Head(args) # "SP"                       -> Ends(a, "MSC")
       [] args # << >> /\ Head(args) = "SP" /\ x \in {"SP", "NL"} -> Ends(a, "MSC")
       [] args # << >> /\ Head(args) = "SP" /\ x \notin {"SP", "NL"} /\ x \notin Xoptions -> Ends(a, "UUO")
       [] OTHER -> IF XCant(x) = o THEN Ends(a, "ICO") ELSE [a EXCEPT !.exists[o] = x]

(* The options, one word at a time; `word' is the next and the tokens      *)
(* after it begin with its value, if it takes one.                         *)
Option(a, word, args) ==
  CASE word \in OBit    -> [a EXCEPT !.options = @ \cup {word}]
    [] word \in Ignored -> a
    [] word \in ONumber ->
         IF Len(args) > 1 /\ Head(args) = "SP" /\ IsDigits(Tail(args))
           THEN [a EXCEPT !.numbers[word] = NumberOf[args[2]]] ELSE Ends(a, "BUG")
    [] word \in OExists -> getxoption(a, word, args)
    [] OTHER            -> Ends(a, "UUO")

(* Position i of the text is the value of the option before it.            *)
IsValue(args, i) == i > 2 /\ args[i - 1] = "SP" /\ args[i - 2] \in OExists \cup ONumber

Options(a) ==
  LET text  == string(a.rest, {"NL"})
      Read(b, i) == IF b.end # "none" \/ text[i] = "SP" \/ IsValue(text, i) THEN b
                    ELSE Option(b, text[i], SubSeq(text, i + 1, Len(text)))
      b     == FoldLeft(Read, a, [i \in 1 .. Len(text) |-> i])
      Clash == \E o \in b.options : OCant(o) \cap b.options # {}
  IN [b EXCEPT !.rest = AfterString(a.rest, {"NL"}),
               !.end = IF @ = "none" /\ Clash THEN "ICO" ELSE @]

(* One element of the syntax.  A property's name goes on the front of the  *)
(* list, its value to the one on the front.                                *)
Element(a, syntax, i) ==
  LET e     == syntax[i]
      text  == string(a.rest, Delims(syntax, i))
      after == [a EXCEPT !.rest = AfterString(@, Delims(syntax, i))]
  IN CASE a.end # "none"     -> a
       [] a.end = "none" /\ e \in {"SP", "NL"} ->
            IF a.rest # << >> /\ Head(a.rest) = e THEN [a EXCEPT !.rest = Tail(@)] ELSE Ends(a, "BUG")
       [] a.end = "none" /\ e = "OPEND"   -> IF a.rest = << >> THEN Ends(a, "end") ELSE a
       [] a.end = "none" /\ e = "NUMBER"  ->
            IF IsDigits(a.rest) THEN [a EXCEPT !.numbers["pos"] = NumberOf[Head(a.rest)], !.rest = Tail(@)]
                                ELSE Ends(a, "BUG")
       [] a.end = "none" /\ e = "STRING"  -> [after EXCEPT !.strings = Append(@, text)]
       [] a.end = "none" /\ e = "PNAME"   -> [after EXCEPT !.plist = <<[name |-> text, value |-> << >>]>> \o @]
       [] a.end = "none" /\ e = "PVALUE"  -> [after EXCEPT !.plist[1].value = text]
       [] a.end = "none" /\ e = "OPTIONS" -> Options(a)

parseargs(cname, fh, args) ==
  LET syntax == Syntax(cname, fh, Len(args))
      a      == FoldLeft(LAMBDA b, i : Element(b, syntax, i), ainit(args), [i \in 1 .. Len(syntax) |-> i])
  IN CASE syntax = << >> /\ args # << >> -> Ends(a, "BUG")
       [] a.end = "end"                  -> Ends(a, "none")
       [] OTHER                          -> a
=============================================================================
