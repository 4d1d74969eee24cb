------------------------------ MODULE UsimState ------------------------------
(***************************************************************************)
(* The state of a simulated CADR (usim: ucode.c, disk.c, iob.c,            *)
(* kbd_new.c).  The simulator is one thread that runs the instruction loop *)
(* and, from it, polls the devices; the SIGVTALRM handler, 60 times a      *)
(* second, comes between any two stores.  What the loop does in one        *)
(* microinstruction is cut into the steps named by `at'.                   *)
(*                                                                         *)
(* Memories are functions on the locations written so far: an array that   *)
(* C has zeroed, or the fresh pages that malloc() gets, read 0 elsewhere.  *)
(***************************************************************************)
EXTENDS UsimAlu, Sequences, TLC

CONSTANTS
  Programs,       \* what is in the machine at the start: a sequence of records
  DISK_DELAY,     \* polls until a transfer that has been made says so, 2500
  KEY_QUEUE,      \* IOB_KEY_QUEUE_LEN, 10
  TvWords         \* words of the frame buffer, MAX_BITMAP_OFFSET

ASSUME UsimAssumption ==
  /\ Programs # << >>
  /\ DISK_DELAY \in Nat \ {0} /\ KEY_QUEUE \in Nat \ {0} /\ TvWords \in Nat

(* What the user does at the keyboard: keys, and windows that come forward. *)
Sending(k)   == k.code \in Int
KeyEvent(e)  ==
  \/ e.what = "focus"
  \/ e.what = "key" /\ e.down \in BOOLEAN /\ Sending(e.key.plain) /\ Sending(e.key.shifted)
Keyboard(ks) == ks \in Seq({ks[n] : n \in DOMAIN ks}) /\ \A n \in DOMAIN ks : KeyEvent(ks[n])

ASSUME KeyAssumption == \A p \in DOMAIN Programs : Keyboard(Programs[p].keys)

Machine == Programs   \* (TLC evaluates a definition once)

VARIABLES
  prog,           \* which of the Programs is in the machine
  at, then,       \* the step of the instruction loop that comes next, and the one after it
  pipe,           \* u_pc, the instruction fetched ahead (p1), no_exec_next, prom_enabled_flag
  ir,             \* the instruction being executed and its sources, destination and output
  cpu,            \* the registers
  mem,            \* the memories of the processor and its two map levels
  ram,            \* physical memory: the pages there are, in the order they were made, and their words
  bitmap,         \* tv_bitmap
  disk, pack,     \* the disk controller; the disk image
  iob,            \* the keyboard's register and CSR on the I/O board
  host,           \* the host's keyboard: what was posted, what waits in the queue, what is to come
  tv_csr, interrupt_status_reg, interrupt_pending_flag,
  staged          \* what the thread is about to store in interrupt_status_reg

vars == <<prog, at, then, pipe, ir, cpu, mem, ram, bitmap, disk, pack, iob, host,
          tv_csr, interrupt_status_reg, interrupt_pending_flag, staged>>

(* What only the thread writes, in groups that steps leave alone.          *)
devices    == <<bitmap, disk, pack, iob, host>>
signalled  == <<tv_csr, interrupt_status_reg, interrupt_pending_flag>>
interrupts == <<signalled, staged>>

Get(f, i)    == IF i \in DOMAIN f THEN f[i] ELSE {}
Set(f, i, w) == (i :> w) @@ f
Empty        == << >>

(* run() up to its loop, after disk_init(): geometry from the pack's label *)
(* even when the label is not one, and the pack is then ignored.           *)
Registers ==
  [q |-> {}, opc |-> 0, md |-> {}, vma |-> {}, new_md |-> {}, new_md_delay |-> 0,
   alu |-> Out({}, FALSE), lc |-> {}, ic |-> {}, oa_reg_lo |-> {}, oa_reg_hi |-> {},
   dispatch_constant |-> 0, page_fault_flag |-> FALSE, write_fault_bit |-> FALSE,
   access_fault_bit |-> FALSE, pdl_ptr |-> 0, pdl_index |-> 0, spc_stack_ptr |-> 0]

Nothing == [u |-> {}, pc |-> 0, popj |-> FALSE, m |-> {}, a |-> {}, dest |-> 0, out |-> {}]

Label(p) == IF 0 \in DOMAIN p.blocks THEN p.blocks[0] ELSE Empty
LABEL    == Put(\o114, 0) \cup Put(\o101, 8) \cup Put(\o102, 16) \cup Put(\o114, 24)
disk_init(p) ==
  [fd |-> Get(Label(p), 0) = LABEL, blocks |-> p.blocks,
   heads |-> Field(Get(Label(p), 3), 0, 23), blocks_per_track |-> Field(Get(Label(p), 4), 0, 23)]

Init ==
  /\ prog \in DOMAIN Programs
  /\ at = "poll" /\ then = "poll"
  /\ pipe = [u_pc |-> 0, p1 |-> {}, p1_pc |-> 0, no_exec_next |-> FALSE, prom |-> TRUE]
  /\ ir = Nothing
  /\ cpu = Registers
  /\ mem = [a |-> Machine[prog].a, m |-> Machine[prog].m, pdl |-> Empty, spc |-> Empty,
            disp |-> Machine[prog].disp, ucode |-> Empty, l1 |-> Machine[prog].l1, l2 |-> Machine[prog].l2]
  /\ ram = [pages |-> <<0>> \o Machine[prog].pages, words |-> Machine[prog].words]
  /\ bitmap = Empty
  /\ disk = [status |-> {0}, cmd |-> {}, clp |-> 0, ma |-> {}, da |-> {}, delay |-> 0,
             unit |-> 0, cyl |-> 0, head |-> 0, block |-> 0]
  /\ pack = disk_init(Machine[prog].pack)
  /\ iob = [scan |-> 0, csr |-> {}]
  /\ host = [posted |-> << >>, lost |-> << >>, taken |-> << >>, queue |-> << >>, shifts |-> {}, held |-> {},
             left |-> Machine[prog].keys]
  /\ tv_csr = {} /\ interrupt_status_reg = {} /\ interrupt_pending_flag = FALSE /\ staged = {}
=============================================================================
