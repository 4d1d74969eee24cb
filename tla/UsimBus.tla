------------------------------- MODULE UsimBus -------------------------------
(***************************************************************************)
(* Memory of the simulated CADR as the microcode sees it (ucode.c): the    *)
(* two level map, the pages of physical memory, the frame buffer, and the  *)
(* registers on the Unibus and the Xbus; and the interrupt status.         *)
(*                                                                         *)
(* Left out: the Chaosnet's registers, which are ChaosIface's; the mouse,  *)
(* the beep and the microsecond clock; warm boot.                          *)
(***************************************************************************)
EXTENDS UsimState

(* set_interrupt_status_reg(): two stores, and the signal may come before  *)
(* each.  Its argument was computed from the register before; the second   *)
(* is of the argument, or of the register, as the compiler likes.          *)
Stage(w, next) == /\ staged' = w /\ at' = "irq" /\ then' = next
Skip(next)     == /\ at' = next /\ UNCHANGED <<then, staged>>

StoreStatus ==
  /\ at = "irq" /\ at' = "flag" /\ interrupt_status_reg' = staged
  /\ UNCHANGED <<prog, then, pipe, ir, cpu, mem, ram, devices, tv_csr, interrupt_pending_flag, staged>>
StoreFlag ==
  /\ at = "flag" /\ at' = then
  /\ \E w \in {staged, interrupt_status_reg} : interrupt_pending_flag' = (w \cap {14, 15} # {})
  /\ staged' = {}
  /\ UNCHANGED <<prog, then, pipe, ir, cpu, mem, ram, devices, tv_csr, interrupt_status_reg>>

Vector == 2 .. 9
assert_unibus_interrupt(vector, next) ==
  IF 10 \in interrupt_status_reg
    THEN Stage((interrupt_status_reg \ Vector) \cup {15} \cup (Put(vector, 0) \cap Vector), next)
    ELSE Skip(next)
assert_xbus_interrupt(next) == Stage(interrupt_status_reg \cup {14}, next)
deassert_xbus_interrupt(next) ==
  IF 14 \in interrupt_status_reg THEN Stage(interrupt_status_reg \ {14}, next) ELSE Skip(next)

(* sigalrm_handler(): the 60 Hz tick, between any two steps of the thread. *)
Tick ==
  /\ Machine[prog].ticks /\ at # "halted"
  /\ tv_csr' = tv_csr \cup {4}
  /\ interrupt_status_reg' = interrupt_status_reg \cup {14}
  /\ interrupt_pending_flag' = TRUE
  /\ UNCHANGED <<prog, at, then, pipe, ir, cpu, mem, ram, devices, staged>>

-----------------------------------------------------------------------------
(* The map *)

Tv        == \o36000
TvControl == \o37760
Xbus      == \o36777
Iob       == \o37764
Unibus    == \o37766
phys_ram_pages == \o20000

l1(virt) == Field(Get(mem.l1, Field(virt, 13, 23)), 0, 4)
l2_index(virt) == 32 * l1(virt) + Field(virt, 8, 12)

(* map_vtop(): the frame buffer, the colour screen and the Xbus registers  *)
(* are where they are without a map.                                       *)
Unmapped(virt) == Field(virt, 15, 23) \in {\o770, \o772} \/ Field(virt, 8, 23) = \o176777
map_vtop(virt) ==
  CASE Field(virt, 15, 23) \in {\o770, \o772} -> {22, 23} \cup Put(Tv, 0)
    [] Field(virt, 8, 23) = \o176777          -> {22, 23} \cup Put(Xbus, 0)
    [] OTHER                                  -> Get(mem.l2, l2_index(virt))

(* The address of an access is always in VMA: its page and offset.         *)
Map    == map_vtop(cpu.vma)
Pn     == Field(Map, 0, 13)
Offset == Field(cpu.vma, 0, 7)

(* phy_pages[]: a new page is cut from a block after the one before it, so *)
(* a word past the end of a page is in the next one that was made.         *)
Exists(pages, pn)   == \E k \in DOMAIN pages : pages[k] = pn
Loc(pages, pn, off) == 256 * (CHOOSE k \in DOMAIN pages : pages[k] = pn) + off
add_new_page_no(pages, pn) == IF Exists(pages, pn) THEN pages ELSE Append(pages, pn)

Color == Field(cpu.vma, 15, 23) = \o772

-----------------------------------------------------------------------------
(* read_mem(vma, &new_md) *)

Clear(c) == [c EXCEPT !.page_fault_flag = FALSE, !.write_fault_bit = FALSE, !.access_fault_bit = FALSE]
Fault(c) == [Clear(c) EXCEPT !.page_fault_flag = TRUE, !.opc = Pn]

Reading(w) ==
  /\ at = "read" /\ 23 \in Map /\ at' = then
  /\ cpu' = [Clear(cpu) EXCEPT !.new_md = w, !.new_md_delay = 2]
ReadOnly == UNCHANGED <<prog, then, pipe, ir, mem, ram, devices, interrupts>>

(* A page: what is neither memory that is missing nor a register.          *)
PageRead ==
  /\ Pn \notin phys_ram_pages .. \o35777 \cup {Tv, Iob}
  /\ ~(Pn = Unibus /\ Offset \in {\o40, \o44})
  /\ ~(Pn = Xbus /\ (Offset >= \o370 \/ Offset = \o360))
ReadPage ==
  /\ PageRead /\ Exists(ram.pages, Pn)
  /\ Reading(Get(ram.words, Loc(ram.pages, Pn, Offset)))
  /\ ReadOnly
ReadFault ==
  /\ at = "read" /\ at' = then
  /\ \/ /\ 23 \notin Map
        /\ cpu' = [Fault(cpu) EXCEPT !.access_fault_bit = TRUE, !.new_md = {}, !.new_md_delay = 2]
     \/ /\ 23 \in Map /\ PageRead /\ ~Exists(ram.pages, Pn)
        /\ cpu' = [Fault(cpu) EXCEPT !.new_md_delay = 2]
  /\ ReadOnly
ReadMissing == Pn \in phys_ram_pages .. \o35777 /\ Reading(Ones) /\ ReadOnly
ReadTv ==
  /\ Pn = Tv
  /\ Reading(IF Color \/ Field(cpu.vma, 0, 14) >= TvWords THEN {} ELSE Get(bitmap, Field(cpu.vma, 0, 14)))
  /\ ReadOnly
(* unibus 766100 and 766110: the status and the errors at offsets that are *)
(* not doubled, as those of the I/O board are and those of a write.        *)
ReadUnibus == Pn = Unibus /\ Offset \in {\o40, \o44} /\ Reading({}) /\ ReadOnly
ReadTvCsr  == Pn = Xbus /\ Offset = \o360 /\ Reading(tv_csr) /\ ReadOnly

(* iob_unibus_read(): the keyboard's registers, and its CSR.  Either half  *)
(* of a key that is read takes it.                                         *)
ReadKbd ==
  /\ Pn = Iob /\ 2 * Offset \in {\o100, \o102}
  /\ Reading(IF 2 * Offset = \o100 THEN Put(iob.scan, 0) \cap (0 .. 15) ELSE Down(Put(iob.scan, 0), 16))
  /\ iob' = [iob EXCEPT !.csr = @ \ {5}]
  /\ host' = IF 5 \in iob.csr THEN [host EXCEPT !.taken = Append(@, iob.scan)] ELSE host
  /\ UNCHANGED <<prog, then, pipe, ir, mem, ram, bitmap, disk, pack, interrupts>>
ReadKbdCsr == Pn = Iob /\ 2 * Offset = \o112 /\ Reading(iob.csr) /\ ReadOnly

(* disk_xbus_read()                                                        *)
DiskRegister(off) ==
  CASE off \in {\o370, \o374} -> disk.status
    [] off = \o371            -> disk.ma
    [] off \in {\o372, \o376} -> disk.da
    [] off = \o375            -> Put(disk.clp, 0)
    [] OTHER                  -> {}
disk_xbus_read == Pn = Xbus /\ Offset >= \o370 /\ Reading(DiskRegister(Offset)) /\ ReadOnly

read_mem ==
  \/ ReadPage \/ ReadFault \/ ReadMissing \/ ReadTv \/ ReadUnibus \/ ReadTvCsr \/ ReadKbd \/ ReadKbdCsr
  \/ disk_xbus_read

-----------------------------------------------------------------------------
(* write_mem(vma, md) *)

Access  == {22, 23} \subseteq Map
Writing == at = "store" /\ Access /\ cpu' = Clear(cpu)
Doubled == 2 * Offset

WriteFault ==
  /\ at = "store" /\ at' = then
  /\ \/ 23 \notin Map /\ cpu' = [Fault(cpu) EXCEPT !.access_fault_bit = TRUE]
     \/ 23 \in Map /\ 22 \notin Map /\ cpu' = [Fault(cpu) EXCEPT !.write_fault_bit = TRUE]
  /\ UNCHANGED <<prog, then, pipe, ir, mem, ram, devices, interrupts>>

(* A page: no register takes the write.  On the Unibus the offset has been *)
(* doubled before it is the page's turn.                                   *)
PageWrite ==
  /\ Pn \notin {Tv, TvControl, Iob}
  /\ ~(Pn = Unibus /\ (Doubled <= \o44 \/ Doubled \in \o140 .. \o176))
  /\ ~(Pn = Xbus /\ (Offset >= \o370 \/ Offset = \o360))
WritePage ==
  /\ PageWrite /\ at = "store" /\ Access /\ at' = then
  /\ IF Exists(ram.pages, Pn)
       THEN /\ cpu' = Clear(cpu)
            /\ ram' = [ram EXCEPT !.words =
                 Set(@, Loc(ram.pages, Pn, IF Pn = Unibus THEN Doubled ELSE Offset), cpu.md)]
       ELSE cpu' = Fault(cpu) /\ UNCHANGED ram
  /\ UNCHANGED <<prog, then, pipe, ir, mem, devices, interrupts>>

(* video_write(): inside the bitmap.                                       *)
WriteTv ==
  /\ Pn = Tv /\ (Color \/ Field(cpu.vma, 0, 14) < TvWords) /\ Writing /\ at' = then
  /\ bitmap' = IF Color THEN bitmap ELSE Set(bitmap, Field(cpu.vma, 0, 14), cpu.md)
  /\ UNCHANGED <<prog, then, pipe, ir, mem, ram, disk, pack, iob, host, interrupts>>

(* The spy register that turns the PROM off.                               *)
WriteSpy ==
  /\ Pn = Unibus /\ Doubled <= \o36 /\ Writing /\ at' = then
  /\ pipe' = [pipe EXCEPT !.prom = @ /\ ~(Doubled = \o12 /\ {2, 5} \subseteq cpu.md)]
  /\ UNCHANGED <<prog, then, ir, mem, ram, devices, interrupts>>

(* Interrupt status: the enables, and the stimulus.                        *)
WriteStatus ==
  /\ Pn = Unibus /\ Doubled \in {\o40, \o42} /\ Writing
  /\ LET settable == IF Doubled = \o40 THEN {0, 10, 11, 12, 13} ELSE Vector \cup {15}
     IN Stage((interrupt_status_reg \ settable) \cup (cpu.md \cap settable), then)
  /\ UNCHANGED <<prog, pipe, ir, mem, ram, devices, signalled>>

(* Accepted and ignored: bus errors, the Unibus map, the TV's controls.    *)
WriteNothing ==
  /\ Pn = TvControl \/ (Pn = Unibus /\ Doubled \in {\o44} \cup \o140 .. \o176)
     \/ (Pn = Iob /\ Doubled \notin {\o112} \cup \o140 .. \o152)
  /\ Writing /\ at' = then
  /\ UNCHANGED <<prog, then, pipe, ir, mem, ram, devices, interrupts>>

(* iob_unibus_write(): the keyboard's CSR, of which the enables are set.   *)
WriteKbdCsr ==
  /\ Pn = Iob /\ Doubled = \o112 /\ Writing /\ at' = then
  /\ iob' = [iob EXCEPT !.csr = (@ \ (0 .. 3)) \cup (cpu.md \cap (0 .. 3))]
  /\ UNCHANGED <<prog, then, pipe, ir, mem, ram, bitmap, disk, pack, host, interrupts>>

(* tv_xbus_write(): takes the tick's bit away, and then its interrupt.     *)
(* Its two stores of tv_csr are one step: a tick between them is taken     *)
(* away again, as is one just before them.                                 *)
WriteTvCsr ==
  /\ Pn = Xbus /\ Offset = \o360 /\ Writing /\ at' = "dismiss"
  /\ tv_csr' = cpu.md \ {4}
  /\ UNCHANGED <<prog, then, pipe, ir, mem, ram, devices, interrupt_status_reg, interrupt_pending_flag, staged>>
Dismiss ==
  /\ at = "dismiss" /\ deassert_xbus_interrupt(then)
  /\ UNCHANGED <<prog, pipe, ir, cpu, mem, ram, devices, signalled>>

write_mem ==
  \/ WriteFault \/ WritePage \/ WriteTv \/ WriteSpy \/ WriteStatus \/ WriteNothing \/ WriteKbdCsr \/ WriteTvCsr
=============================================================================
