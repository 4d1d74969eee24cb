------------------------------- MODULE UsimKbd -------------------------------
(***************************************************************************)
(* The keyboard of the I/O board (kbd_new.c), fed from the host's by       *)
(* display_poll() (sdl.c) every 2^16 turns of the instruction loop.  A key *)
(* of the Lisp machine keyboard that wants other shifts than the user is   *)
(* holding is sent between simulated ones.                                 *)
(*                                                                         *)
(* A host key is a record: `shift' names the shift it is bound to, "other" *)
(* for one like CONTROL that is not tracked, "no" for a character; what a  *)
(* character sends, alone and with the host's shift, is in `plain' and     *)
(* `shifted', each with the shift that the guest wants with it.  The key   *)
(* tables themselves are data.                                             *)
(***************************************************************************)
EXTENDS UsimDisk, FiniteSets

Shifts      == {"TOP", "GREEK", "SHIFT"}     \* those kbd_shifts tracks, in the order they are pressed again
ShiftCode(s) == CASE s = "SHIFT" -> \o24 [] s = "GREEK" -> \o44 [] OTHER -> \o104
AllUpBit(s)  == CASE s = "SHIFT" -> 1 [] s = "GREEK" -> 2 [] s = "TOP" -> 4 [] OTHER -> \o20

Stored(v) == 2 ^ 16 + v                      \* (1<<16) | v
KeyUp(code)  == 256 + code
AllUp(mods)  == 2 ^ 15 + mods
KeyInterrupt == 2 \in iob.csr                \* the keyboard's interrupt
Ready        == 5 \in iob.csr

(* iob_queue_key_event(), for some events in a row: those that do not fit  *)
(* are lost, and then the guest is told there is a key, which there may    *)
(* not be.                                                                 *)
Room(h) == KEY_QUEUE - Len(h.queue)
LesserOf(a, b) == IF a <= b THEN a ELSE b
Queued(h, vs) ==
  [h EXCEPT !.posted = @ \o vs,
            !.queue  = @ \o SubSeq(vs, 1, LesserOf(Room(h), Len(vs))),
            !.lost   = @ \o SubSeq(vs, LesserOf(Room(h), Len(vs)) + 1, Len(vs))]
iob_queue_key_events(h, vs) ==
  /\ host' = Queued(h, vs)
  /\ IF Len(vs) > Room(h) /\ ~Ready /\ KeyInterrupt
       THEN iob' = [iob EXCEPT !.csr = @ \cup {5}] /\ assert_unibus_interrupt(\o260, "host")
       ELSE UNCHANGED iob /\ Skip("host")

(* iob_key_scan, and the interrupt if the guest wants it.                  *)
Scanned(v) ==
  IF KeyInterrupt
    THEN iob' = [scan |-> Stored(v), csr |-> iob.csr \cup {5}] /\ assert_unibus_interrupt(\o260, "host")
    ELSE iob' = [iob EXCEPT !.scan = Stored(v)] /\ Skip("host")
(* Mutant of iob_sdl_key_event: whether or not the register is free.       *)
iob_sdl_key_eventRash(h, v) == Scanned(v) /\ host' = [h EXCEPT !.posted = Append(@, v)]

(* iob_sdl_key_event(), iob_sdl_allup_event(): the register if it is free. *)
iob_sdl_key_event(h, v) ==
  IF Ready THEN iob_queue_key_events(h, <<v>>)
  ELSE Scanned(v) /\ host' = [h EXCEPT !.posted = Append(@, v)]

(* iob_dequeue_key_event(), at the start of a poll.                        *)
HostFrame == UNCHANGED <<prog, pipe, ir, cpu, mem, ram, bitmap, disk, pack, signalled>>
(* Mutant of HostPoll: the last key stays in the queue.                    *)
HostPollButOne ==
  /\ at = "fetch" /\ KeyInterrupt
  /\ host.left # << >> \/ host.queue # << >>
  /\ IF Ready \/ Len(host.queue) <= 1 THEN UNCHANGED <<iob, host>> /\ Skip("host")
     ELSE Scanned(Head(host.queue)) /\ host' = [host EXCEPT !.queue = Tail(@)]
  /\ HostFrame

(* A poll comes at any turn; its keys, once the guest wants interrupts.     *)
HostPoll ==
  /\ at = "fetch" /\ KeyInterrupt
  /\ host.left # << >> \/ host.queue # << >>
  /\ IF Ready \/ host.queue = << >> THEN UNCHANGED <<iob, host>> /\ Skip("host")
     ELSE Scanned(Head(host.queue)) /\ host' = [host EXCEPT !.queue = Tail(@)]
  /\ HostFrame
HostDone ==
  /\ at = "host" /\ at' = "polled"
  /\ UNCHANGED <<prog, then, pipe, ir, cpu, mem, ram, devices, interrupts>>

-----------------------------------------------------------------------------
(* sdl_process_key() *)

Held(e)     == IF e.down THEN host.held \cup {e.key} ELSE host.held \ {e.key}
ShiftsOf(ks) == {k.shift : k \in ks}
Sent(k)     == IF \E h \in host.held : h.shift = "SHIFT" THEN k.shifted ELSE k.plain
CodeOf(e, code) == IF e.down THEN code ELSE KeyUp(code)

Bit(ss, s)  == IF s \in ss THEN AllUpBit(s) ELSE 0
Mods(ss)    == Bit(ss, "SHIFT") + Bit(ss, "GREEK") + Bit(ss, "TOP") + Bit(ss, "other")

(* The last character key is up: one event says which shifts still are not *)
(* (SDL's table of the keys that are down, as of the event).               *)
AllKeysUp(e) == ~e.down /\ \A k \in Held(e) : k.shift # "no"
SendAllUp(e, h) ==
  iob_sdl_key_event([h EXCEPT !.shifts = ShiftsOf(h.held) \cap Shifts], AllUp(Mods(ShiftsOf(h.held))))

(* A shift.                                                                *)
SendShift(e, h) ==
  iob_sdl_key_event(
    [h EXCEPT !.shifts = CASE e.key.shift \in Shifts /\ e.down  -> @ \cup {e.key.shift}
                           [] e.key.shift \in Shifts /\ ~e.down -> @ \ {e.key.shift}
                           [] OTHER                             -> @],
    CodeOf(e, e.key.plain.code))

(* A character: as it is if the shifts are those it wants, or else all up, *)
(* the shift it wants, the key, and the shifts that are held again.        *)
Fits(want) == (want = "none" /\ "SHIFT" \notin host.shifts) \/ want \in host.shifts
Again(s)   == IF s \in host.shifts THEN <<ShiftCode(s)>> ELSE << >>
Simulated(e, k) ==
  <<AllUp(0)>> \o (IF k.want = "none" THEN << >> ELSE <<ShiftCode(k.want)>>)
  \o <<CodeOf(e, k.code)>> \o (IF k.want = "none" THEN << >> ELSE <<KeyUp(ShiftCode(k.want))>>)
  \o Again("TOP") \o Again("SHIFT") \o Again("GREEK")
SendCharacter(e, h, k) ==
  IF Fits(k.want) THEN iob_sdl_key_event(h, CodeOf(e, k.code))
  ELSE iob_queue_key_events(h, Simulated(e, k))

sdl_process_key(e, h) ==
  CASE AllKeysUp(e)                          -> SendAllUp(e, h)
    [] ~AllKeysUp(e) /\ e.key.shift # "no"   -> SendShift(e, h)
    [] OTHER                                 -> SendCharacter(e, h, Sent(e.key))
HostKey ==
  /\ at = "host" /\ host.left # << >> /\ Head(host.left).what = "key"
  /\ \E e \in {Head(host.left)} :
       sdl_process_key(e, [host EXCEPT !.held = Held(e), !.left = Tail(@)])
  /\ HostFrame

(* SDL_ACTIVEEVENT: another window, sdl_queue_all_keys_up().               *)
HostFocus ==
  /\ at = "host" /\ host.left # << >> /\ Head(host.left).what = "focus"
  /\ iob_queue_key_events([host EXCEPT !.shifts = {}, !.left = Tail(@)], <<AllUp(0)>>)
  /\ HostFrame

KbdStep == HostPoll \/ HostDone \/ HostKey \/ HostFocus

-----------------------------------------------------------------------------
(* No key event is lost, changed or read twice between the host and the    *)
(* guest, as long as the queue does not overflow: each that was posted was *)
(* taken, waits in the queue or is in the register and not yet read.       *)
Times(v, s) == Cardinality({i \in DOMAIN s : s[i] = v})
KeysKept ==
  host.lost = << >> =>
    \A v \in {host.posted[i] : i \in DOMAIN host.posted} :
      Times(v, host.posted) = Times(Stored(v), host.taken) + Times(v, host.queue)
                              + (IF Ready /\ iob.scan = Stored(v) THEN 1 ELSE 0)
=============================================================================
