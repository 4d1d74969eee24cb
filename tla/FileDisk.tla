------------------------------ MODULE FileDisk ------------------------------
(***************************************************************************)
(* The file system as FILE.c uses it: the system calls it makes, on the    *)
(* directories and files of one user who is not the super-user.            *)
(*                                                                         *)
(* A name is the sequence of its components, << >> the root.  A disk has   *)
(* its entries, a function from names to numbers, and its files, the       *)
(* sequence those numbers count in: a file with two names, or one that     *)
(* is open after its last name is gone, is one file.                       *)
(***************************************************************************)
EXTENDS Integers, Sequences, FiniteSets, SequencesExt

LOCAL Least(S) == CHOOSE n \in S : \A k \in S : n <= k

Upto(n, i)  == SubSeq(n, 1, i)
Parent(n)   == Upto(n, Len(n) - 1)
File(k, n)  == k.files[k.names[n]]
Names(k)    == DOMAIN k.names

NewFile(dir, perm, data, date) ==
  [dir |-> dir, perm |-> perm, data |-> data, mtime |-> date, atime |-> date, author |-> "me"]

(* What stops the search for a name: the first of its directories that is  *)
(* not there, not a directory or not to be searched.                       *)
Obstacle(k, n, i) ==
  LET d == Upto(n, i)
  IN CASE d \notin Names(k)         -> "ENOENT"
       [] d \in Names(k) /\ ~File(k, d).dir -> "ENOTDIR"
       [] d \in Names(k) /\ File(k, d).dir /\ "x" \notin File(k, d).perm -> "EACCES"
       [] OTHER                     -> "none"

Search(k, n) ==
  LET stops == {i \in 0 .. Len(n) - 1 : Obstacle(k, n, i) # "none"}
  IN IF stops = {} THEN "none" ELSE Obstacle(k, n, Least(stops))

Reached(k, n, err) == IF err # "none" THEN err ELSE IF n \in Names(k) THEN "OK" ELSE "ENOENT"
Stat(k, n)         == Reached(k, n, Search(k, n))

Allowed(k, n, perm, err) == IF err = "OK" /\ ~perm \subseteq File(k, n).perm THEN "EACCES" ELSE err
Access(k, n, perm)       == Allowed(k, n, perm, Stat(k, n))

(* The result of a call: an error number or "OK", and the disk after it.   *)
Fails(k, err) == [err |-> err, disk |-> k]
Done(k)       == [err |-> "OK", disk |-> k]

OpenFile(k, n, perm) ==
  IF "w" \in perm /\ Stat(k, n) = "OK" /\ File(k, n).dir THEN "EISDIR" ELSE Access(k, n, perm)

AddEntry(k, n, i) ==
  [k EXCEPT !.names = [m \in Names(k) \cup {n} |-> IF m = n THEN i ELSE k.names[m]]]
AddFile(k, n, f) ==
  AddEntry([k EXCEPT !.files = Append(@, f)], n, Len(k.files) + 1)
DropEntry(k, n) ==
  [k EXCEPT !.names = [m \in Names(k) \ {n} |-> k.names[m]]]

(* The directory of n lets entries be made and removed.                    *)
Closed(k, n) == "w" \notin File(k, Parent(n)).perm

SetData(k, i, data) == [k EXCEPT !.files[i].data = data]

Emptied(k, n, err) == IF err = "OK" THEN Done(SetData(k, k.names[n], << >>)) ELSE Fails(k, err)
Creat(k, n, date) ==
  CASE Search(k, n) # "none" -> Fails(k, Search(k, n))
    [] Search(k, n) = "none" /\ n \in Names(k) -> Emptied(k, n, OpenFile(k, n, {"w"}))
    [] OTHER -> IF Closed(k, n) THEN Fails(k, "EACCES")
                                ELSE Done(AddFile(k, n, NewFile(FALSE, {"r", "w"}, << >>, date)))

Link(k, from, to) ==
  CASE Stat(k, from) # "OK"                   -> Fails(k, Stat(k, from))
    [] Stat(k, from) = "OK" /\ Search(k, to) # "none" -> Fails(k, Search(k, to))
    [] OTHER -> IF to \in Names(k) THEN Fails(k, "EEXIST")
                ELSE IF Closed(k, to) THEN Fails(k, "EACCES")
                ELSE IF File(k, from).dir THEN Fails(k, "EPERM")
                ELSE Done(AddEntry(k, to, k.names[from]))

Unlink(k, n) ==
  CASE Stat(k, n) # "OK"                       -> Fails(k, Stat(k, n))
    [] Stat(k, n) = "OK" /\ File(k, n).dir     -> Fails(k, "EPERM")
    [] OTHER -> IF Closed(k, n) THEN Fails(k, "EACCES") ELSE Done(DropEntry(k, n))

(* What mkdir and rmdir do; their answer is an exit status.                *)
Mkdir(k, n, date) ==
  IF Stat(k, n) # "ENOENT" \/ Search(k, n) # "none" \/ Closed(k, n)
    THEN Fails(k, "exit")
    ELSE Done(AddFile(k, n, NewFile(TRUE, {"r", "w", "x"}, << >>, date)))
Rmdir(k, n) ==
  IF Closed(k, n) \/ \E m \in Names(k) : m # n /\ IsPrefix(n, m)
    THEN Fails(k, "exit")
    ELSE Done(DropEntry(k, n))

(* write(): the bytes s go over the ones at pos, or after the last.        *)
Written(data, pos, s) == Upto(data, pos) \o s \o SubSeq(data, pos + Len(s) + 1, Len(data))

(* The names in a directory.                                               *)
Entries(k, d) == {n[Len(n)] : n \in {m \in Names(k) : m # << >> /\ Parent(m) = d}}
=============================================================================
