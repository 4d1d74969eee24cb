----------------------------- MODULE FileNames ------------------------------
(***************************************************************************)
(* Pathnames in the FILE server: how the text of one is made canonical     *)
(* (FILE.c: parsepath, dcanon), which names a wild one stands for          *)
(* (glob.c), what COMPLETE makes of the start of one, and the name of a    *)
(* backup file.                                                            *)
(*                                                                         *)
(* Text is a sequence of characters, which are strings of one letter; a    *)
(* name of FileDisk is a sequence of components, each of them text.        *)
(***************************************************************************)
EXTENDS FileDisk

CONSTANTS
  LowerCase,     \* tolower(): a function from some of the characters
  Passwd         \* the home directory, as text, of each user name

Lower(c)       == IF c \in DOMAIN LowerCase THEN LowerCase[c] ELSE c
downcase(text) == [i \in 1 .. Len(text) |-> Lower(text[i])]

-----------------------------------------------------------------------------
(* Canonical names *)

(* The text between slashes.                                               *)
Split(text) ==
  FoldLeft(LAMBDA parts, c : IF c = "/" THEN Append(parts, << >>)
                                        ELSE [parts EXCEPT ![Len(parts)] = Append(@, c)],
           << << >> >>, text)

Pop(name) == IF name = << >> THEN name ELSE Front(name)

(* A component with a slash after it.                                      *)
Enter(name, part) ==
  CASE part \in {<< >>, <<".">>} -> name
    [] part = <<".", ".">>       -> Pop(name)
    [] OTHER                     -> Append(name, part)

(* The last one: "." stays, and nothing is an error except for the root    *)
(* or where a blank name is accepted.                                      *)
dcanon(text, blankok) ==
  LET parts == Split(text)
      dir   == FoldLeft(Enter, << >>, Front(parts))
      last  == Last(parts)
      blank == last = << >> /\ dir # << >>
  IN [err   |-> IF blank /\ ~blankok THEN "IPS" ELSE "none",
      name  |-> CASE last = << >>        -> dir
                  [] last = <<".", ".">> -> Pop(dir)
                  [] OTHER               -> Append(dir, last),
      blank |-> blank]

(* Where a pathname starts, and the rest of it.                            *)
User(path) == Tail(Head(Split(path)))
Start(path, home, cwd) ==
  CASE path # << >> /\ Head(path) = "~" /\ User(path) = << >> /\ home = << >> -> [err |-> "NLI"]
    [] path # << >> /\ Head(path) = "~" /\ User(path) = << >> /\ home # << >> ->
         [err |-> "none", text |-> home \o <<"/">> \o Tail(path)]
    [] path # << >> /\ Head(path) = "~" /\ User(path) # << >> ->
         IF User(path) \in DOMAIN Passwd
           THEN [err  |-> "none",
                 text |-> Passwd[User(path)] \o <<"/">> \o SubSeq(path, Len(User(path)) + 2, Len(path))]
           ELSE [err |-> "IPS"]
    [] path # << >> /\ Head(path) = "/" -> [err |-> "none", text |-> path]
    [] OTHER -> IF cwd = << >> THEN [err |-> "IPS"]
                               ELSE [err |-> "none", text |-> cwd \o <<"/">> \o path]

(* The name and the name of its directory; a blank name is its directory.  *)
NoPath(err)    == [err |-> err, real |-> << >>, dir |-> << >>]
Located(canon) ==
  LET real == [i \in 1 .. Len(canon.name) |-> downcase(canon.name[i])]
  IN IF canon.err # "none" THEN NoPath(canon.err)
     ELSE [err |-> "none", real |-> real, dir |-> IF canon.blank THEN real ELSE Pop(real)]
Canonical(start, blankok) ==
  IF start.err # "none" THEN NoPath(start.err) ELSE Located(dcanon(start.text, blankok))
parsepath(path, blankok, home, cwd) == Canonical(Start(path, home, cwd), blankok)

Backup(name) == Append(Front(name), Append(Last(name), "~"))

-----------------------------------------------------------------------------
(* Wild names *)

Wild(part) == \E i \in 1 .. Len(part) : part[i] \in {"*", "?", "["}

From(text, i) == SubSeq(text, i, Len(text))

(* The characters between [ and ]: single ones and ranges x-y, over an     *)
(* order of the characters, `Code'.                                        *)
InClass(c, class, Code) ==
  \/ \E i \in 1 .. Len(class) : class[i] = c /\ c # "-"
  \/ \E i \in 2 .. Len(class) - 1 :
       class[i] = "-" /\ Code[class[i - 1]] <= Code[c] /\ Code[c] <= Code[class[i + 1]]

(* Where the class that p[j] begins is closed, 0 for nowhere.              *)
Bracket(p, j) == LET ends == {n \in j + 1 .. Len(p) : p[n] = "]"}
               IN IF ends = {} THEN 0 ELSE CHOOSE n \in ends : \A m \in ends : n <= m

(* amatch() within one component: whether p[j ..] matches s[i ..].         *)
amatch(s, p, Code) ==
  LET M[i \in Nat, j \in Nat] ==
        IF j > Len(p) THEN i > Len(s)
        ELSE CASE p[j] = "*" -> j = Len(p) \/ \E n \in i .. Len(s) + 1 : M[n, j + 1]
               [] p[j] = "?" -> i <= Len(s) /\ M[i + 1, j + 1]
               [] p[j] = "[" -> /\ i <= Len(s) /\ Bracket(p, j) # 0
                                /\ InClass(s[i], SubSeq(p, j + 1, Bracket(p, j) - 1), Code)
                                /\ M[i + 1, Bracket(p, j) + 1]
               [] OTHER      -> i <= Len(s) /\ s[i] = p[j] /\ M[i + 1, j + 1]
  IN M[1, 1]

(* Whether it comes to a [ without its ], which is an error.               *)
MissingBracket(s, p, Code) ==
  \E j \in 1 .. Len(p) :
    /\ p[j] = "[" /\ Bracket(p, j) = 0
    /\ \E i \in 0 .. Len(s) : amatch(SubSeq(s, 1, i), SubSeq(p, 1, j - 1), Code)

(* strcmp() of two texts, and of two names.                                *)
Before(a, b, Code) ==
  LET L[i \in Nat] == CASE i > Len(a) -> i <= Len(b)
                        [] i <= Len(a) /\ i > Len(b) -> FALSE
                        [] OTHER -> Code[a[i]] < Code[b[i]] \/ (a[i] = b[i] /\ L[i + 1])
  IN L[1]
Text(name) == FlattenSeq([i \in 1 .. Len(name) |-> <<"/">> \o name[i]])

(* What matchdir() finds under d for the pattern p, last or not: all that  *)
(* match, or the directories among them.                                   *)
matchdir(k, d, p, last, Code) ==
  {Append(d, e) : e \in {f \in Entries(k, d) :
                           /\ amatch(f, p, Code)
                           /\ last \/ (Stat(k, Append(d, f)) = "OK" /\ File(k, Append(d, f)).dir)}}
DirError(k, d, p, Code) ==
  CASE Access(k, d, {"r"}) = "EACCES"                     -> "ATD"
    [] Access(k, d, {"r"}) \in {"ENOENT", "ENOTDIR"}      -> "DNF"
    [] Access(k, d, {"r"}) = "OK" /\ ~File(k, d).dir      -> "DNF"
    [] OTHER -> IF \E e \in Entries(k, d) : MissingBracket(e, p, Code) THEN "IWC" ELSE "none"

(* expand(): the names pattern n stands for, component by component.  Past *)
(* a wild component, only what exists counts.                              *)
Expand(k, n, Code) ==
  LET E[i \in Nat] ==
        IF i = 0 THEN [err |-> "none", found |-> {<< >>}]
        ELSE LET before == E[i - 1]
                 errs   == {DirError(k, d, n[i], Code) : d \in before.found} \ {"none"}
             IN CASE before.err # "none" -> before
                  [] before.err = "none" /\ ~Wild(n[i]) ->
                       [before EXCEPT !.found = {Append(d, n[i]) : d \in @}]
                  [] OTHER -> [err   |-> IF errs = {} THEN "none" ELSE CHOOSE e \in errs : TRUE,
                               found |-> UNION {matchdir(k, d, n[i], i = Len(n), Code) : d \in before.found}]
      IsWild == \E i \in 1 .. Len(n) : Wild(n[i])
      all    == E[Len(n)]
  IN [all EXCEPT !.found = IF IsWild THEN {m \in @ : Stat(k, m) = "OK" \/ Wild(Last(n))} ELSE @]

(* sort().                                                                 *)
Sorted(names, Code) ==
  CHOOSE s \in SetToSeqs(names) :
    \A i, j \in 1 .. Len(s) : i < j => ~Before(Text(s[j]), Text(s[i]), Code)

-----------------------------------------------------------------------------
(* Completion *)

None == <<"none">>      \* no name or no type, as opposed to an empty one

(* A component's name and type: what is before and after its last dot.     *)
Dots(part) == {i \in 1 .. Len(part) : part[i] = "."}
NameType(part) ==
  IF Dots(part) = {} THEN [name |-> part, type |-> None]
  ELSE LET dot == CHOOSE i \in Dots(part) : \A j \in Dots(part) : j <= i
       IN [name |-> SubSeq(part, 1, dot - 1), type |-> From(part, dot + 1)]

prefix(in, new) ==
  CASE in = None /\ new = None -> "EXACT"
    [] in = None /\ new # None -> "PREFIX"
    [] in # None /\ new = None -> "NONE"
    [] OTHER -> IF in = new THEN "EXACT" ELSE IF IsPrefix(in, new) THEN "PREFIX" ELSE "NONE"

Common(a, b) == LET n == {i \in 0 .. Len(a) : IsPrefix(SubSeq(a, 1, i), b)}
                IN SubSeq(a, 1, CHOOSE i \in n : \A j \in n : j <= i)
incommon(old, new) == IF old = None \/ new = None THEN old ELSE Common(old, new)

(* One entry of the directory against the input and the default; s is how  *)
(* far the search has come: the states of the name and the type and the    *)
(* name and type to be answered.                                           *)
Consider(s, in, default, e) ==
  LET name  == prefix(in.name, e.name)
      type  == prefix(in.type, e.type)
      deflt == default.type # None /\ e.type = default.type
      exact == type = "EXACT" /\ in.name # None
      crash == default.type # None /\ e.type = None   \* strcmp() of no type
  IN CASE s.done \/ name = "NONE" \/ type = "NONE" -> s
       [] ~s.done /\ name = "EXACT" /\ type = "EXACT" ->
            [s EXCEPT !.n = "EXACT", !.t = "EXACT", !.done = TRUE]
       [] ~s.done /\ name = "EXACT" /\ type = "PREFIX" ->
            [s EXCEPT !.n = "EXACT",
                      !.t    = IF deflt THEN "DEFAULT" ELSE IF s.n # "EXACT" THEN "PREFIX"
                               ELSE IF s.t # "DEFAULT" THEN "MANY" ELSE @,
                      !.type = IF deflt THEN @ ELSE IF s.n # "EXACT" THEN e.type
                               ELSE IF s.t # "DEFAULT" THEN incommon(@, e.type) ELSE @]
       [] ~s.done /\ name = "PREFIX" /\ type # "NONE" /\ s.n = "NONE" ->
            [s EXCEPT !.n = "PREFIX", !.name = e.name, !.crash = ~exact /\ crash,
                      !.done = ~exact /\ crash,
                      !.t    = IF exact THEN "EXACT" ELSE IF deflt THEN "DEFAULT" ELSE "PREFIX",
                      !.type = IF exact \/ deflt THEN @ ELSE e.type]
       [] ~s.done /\ name = "PREFIX" /\ type # "NONE" /\ s.n # "NONE" /\ s.t = "EXACT" ->
            IF type = "EXACT" THEN [s EXCEPT !.n = "MANY", !.name = incommon(@, e.name)] ELSE s
       [] ~s.done /\ name = "PREFIX" /\ type # "NONE" /\ s.n # "NONE" /\ s.t # "EXACT" ->
            CASE exact -> [s EXCEPT !.n = "PREFIX", !.t = "EXACT", !.name = e.name]
              [] ~exact /\ deflt /\ s.t = "DEFAULT" ->
                   [s EXCEPT !.n = "MANY", !.name = incommon(@, e.name)]
              [] ~exact /\ deflt /\ s.t # "DEFAULT" ->
                   [s EXCEPT !.n = "PREFIX", !.t = "DEFAULT", !.name = e.name]
              [] ~exact /\ ~deflt /\ s.t # "DEFAULT" /\ s.n = "PREFIX" ->
                   [s EXCEPT !.n = "MANY", !.t = "MANY",
                             !.name = incommon(@, e.name), !.type = incommon(@, e.type)]
              [] ~exact /\ ~deflt /\ s.t # "DEFAULT" /\ s.n = "MANY" ->
                   [s EXCEPT !.t = "MANY", !.type = incommon(@, e.type)]
              [] OTHER -> s

(* The name and the type answered when the directory is read to its end,   *)
(* and whether they name a file there is.                                  *)
Completed(s, in, default) ==
  LET name == IF s.n \in {"EXACT", "NONE"} THEN in.name ELSE s.name
      type == CASE s.t \in {"EXACT", "NONE"} -> in.type
                [] s.t = "DEFAULT"           -> default.type
                [] OTHER                     -> s.type
  IN [part |-> (IF name = None THEN << >> ELSE name) \o
               (IF type = None THEN << >> ELSE <<".">> \o type),
      old  |-> s.n \notin {"NONE", "MANY"} /\ s.t # "MANY",
      dir  |-> s.n \in {"EXACT", "PREFIX"} /\ s.t \in {"EXACT", "PREFIX"},
      crash |-> s.crash]

Completion(in, default, entries) ==
  LET none == [n |-> "NONE", t |-> "NONE", name |-> None, type |-> None,
               done |-> FALSE, crash |-> FALSE]
      s    == FoldLeft(LAMBDA r, e : Consider(r, in, default, NameType(e)), none, entries)
  IN Completed(s, in, default)
=============================================================================
