------------------------------ MODULE UsimEngine ------------------------------
(***************************************************************************)
(* The microcode engine of usim (run() in ucode.c): fetching one           *)
(* instruction ahead, the sources, the four kinds of instruction, the      *)
(* destinations, and the return that any instruction may ask for.          *)
(*                                                                         *)
(* One turn of the loop: poll, fetch, source, operate, write, popj; a      *)
(* memory access comes between two of them (read, store).                  *)
(*                                                                         *)
(* Left out: tracing, breakpoints, statistics, max_cycles, saved states.   *)
(* Sources and ALU functions that the source does not define are not used. *)
(***************************************************************************)
EXTENDS UsimKbd

Devices == UNCHANGED <<prog, bitmap, disk, pack, iob, host, interrupts>>

lc_byte_mode_flag(c)  == 29 \in c.ic
interrupt_enable_flag == 27 \in cpu.ic
Misc(u) == Field(u, 10, 11)

-----------------------------------------------------------------------------
(* Fetch: the instruction fetched ahead is executed, unless it is to be    *)
(* skipped; then so is the one after it, in the same turn.                 *)
FETCH(pc) == IF pipe.prom THEN Get(Machine[prog].code, pc) ELSE Get(mem.ucode, pc)
Delayed(c) ==
  CASE c.new_md_delay = 0 -> c
    [] c.new_md_delay = 1 -> [c EXCEPT !.new_md_delay = 0, !.md = c.new_md]
    [] OTHER              -> [c EXCEPT !.new_md_delay = @ - 1]
Modified(u) == u \cup cpu.oa_reg_lo \cup {b + 26 : b \in cpu.oa_reg_hi}
Ahead(pc)   == [pipe EXCEPT !.p1 = FETCH(pc), !.p1_pc = pc, !.u_pc = pc + 1, !.no_exec_next = FALSE]
Execute(u, pc) == ir' = [Nothing EXCEPT !.u = u, !.pc = pc, !.popj = 42 \in u]

Fetch ==
  /\ at \in {"fetch", "polled"} /\ at' = "source"
  /\ cpu' = [Delayed(cpu) EXCEPT !.oa_reg_lo = {}, !.oa_reg_hi = {}]
  /\ IF pipe.no_exec_next
       THEN Execute(Modified(FETCH(pipe.u_pc)), pipe.u_pc) /\ pipe' = Ahead(pipe.u_pc + 1)
       ELSE Execute(Modified(pipe.p1), pipe.p1_pc) /\ pipe' = Ahead(pipe.u_pc)
  /\ UNCHANGED <<then, mem, ram>> /\ Devices

-----------------------------------------------------------------------------
(* Sources.  map_vtop() does not set the first level for an address that   *)
(* is not mapped, and MAP[MD] then has whatever was there.                 *)
SPC == Put(cpu.spc_stack_ptr, 24) \cup (Get(mem.spc, cpu.spc_stack_ptr) \cap (0 .. 18))
Level1(virt) == IF Unmapped(virt) THEN 0 .. 31 ELSE {l1(virt)}
MapOf(virt, level1) ==
  (IF cpu.write_fault_bit THEN {31} ELSE {}) \cup (IF cpu.access_fault_bit THEN {30} ELSE {})
  \cup Put(level1, 24) \cup (map_vtop(virt) \cap (0 .. 23))

Functional(f, level1) ==
  CASE f = 0           -> Put(cpu.dispatch_constant, 0)
    [] f \in {1, \o14} -> SPC
    [] f = 2           -> Put(cpu.pdl_ptr, 0)
    [] f = 3           -> Put(cpu.pdl_index, 0)
    [] f = 5           -> Get(mem.pdl, cpu.pdl_index)
    [] f = 6           -> Put(cpu.opc, 0)
    [] f = 7           -> cpu.q
    [] f = \o10        -> cpu.vma
    [] f = \o11        -> MapOf(cpu.md, level1)
    [] f = \o12        -> cpu.md
    [] f = \o13        -> IF lc_byte_mode_flag(cpu) THEN cpu.lc ELSE cpu.lc \ {0}
    [] f \in {\o24, \o25} -> Get(mem.pdl, cpu.pdl_ptr)

MSource(u, level1) ==
  IF 31 \in u THEN Functional(Field(u, 26, 30), level1) ELSE Get(mem.m, Field(u, 26, 30))
Pops(u, f) == 31 \in u /\ Field(u, 26, 30) = f

Source ==
  /\ at = "source" /\ at' = "operate"
  /\ \E level1 \in IF Pops(ir.u, \o11) THEN Level1(cpu.md) ELSE {0} :
       ir' = [ir EXCEPT !.a = Get(mem.a, Field(ir.u, 32, 41)), !.m = MSource(ir.u, level1)]
  /\ cpu' = [cpu EXCEPT !.spc_stack_ptr = IF Pops(ir.u, \o14) THEN (@ - 1) % 32 ELSE @,
                        !.pdl_ptr       = IF Pops(ir.u, \o24) THEN (@ - 1) % 1024 ELSE @]
  /\ UNCHANGED <<then, pipe, mem, ram>> /\ Devices

-----------------------------------------------------------------------------
(* The location counter: what it makes of the registers, and whether the   *)
(* word it points to must be read.                                         *)
LastByte(c, lc) == ~(lc_byte_mode_flag(c) /\ 0 \in lc) /\ 1 \notin lc
NewLc(c, lc)    == IF LastByte(c, lc) THEN lc \cup {31} ELSE lc
NeedFetch(c)    == 31 \in c.lc
Counted(c)      == Sum(c.lc, IF lc_byte_mode_flag(c) THEN {0} ELSE {1}, FALSE) \ (IF NeedFetch(c) THEN {31} ELSE {})
advance_lc(c) ==
  [c EXCEPT !.lc = NewLc(c, Counted(c)), !.vma = IF NeedFetch(c) THEN Down(c.lc \cap (0 .. 25), 2) ELSE @]

(* The microcode stack.  A return through an entry with bit 14 set goes to *)
(* the next macro instruction: past the two instructions that would read   *)
(* it when it is in hand.                                                  *)
On(c, spc, pc) == [c |-> c, spc |-> spc, pc |-> pc, fetch |-> FALSE]
Deeper(c)      == [c EXCEPT !.spc_stack_ptr = (@ + 1) % 32]
push_spc(s, n) ==
  [s EXCEPT !.c = Deeper(@), !.spc = Set(@, (s.c.spc_stack_ptr + 1) % 32, Put(n, 0))]
Returned(s, w) ==
  IF 14 \in w
    THEN [s EXCEPT !.c = advance_lc(@), !.fetch = @ \/ NeedFetch(s.c),
                   !.pc = Field(IF NeedFetch(s.c) THEN w ELSE w \cup {1}, 0, 13)]
    ELSE [s EXCEPT !.pc = Field(w, 0, 13)]
pop_spc(s) ==
  Returned([s EXCEPT !.c.spc_stack_ptr = (@ - 1) % 32], Get(s.spc, s.c.spc_stack_ptr))

(* Mutant of Called: the same place whether or not the next is skipped.    *)
CalledPast(s, p, n, u_pc) == IF p THEN push_spc(s, u_pc) ELSE s

(* process_jump, for a jump that is taken; u_pc is past the instruction    *)
(* already fetched, which is the one to come back to if it is skipped.     *)
Called(s, p, n, u_pc) == IF p THEN push_spc(s, IF n THEN u_pc - 1 ELSE u_pc) ELSE s
process_jump(s, p, r, n, u_pc) ==
  IF r THEN pop_spc(Called(s, p, n, u_pc)) ELSE Called(s, p, n, u_pc)

JumpTo(s, n) ==
  /\ cpu' = s.c /\ ir' = [ir EXCEPT !.popj = FALSE]
  /\ pipe' = [pipe EXCEPT !.u_pc = s.pc, !.no_exec_next = n]
  /\ at' = (IF s.fetch THEN "read" ELSE "popj") /\ then' = "popj"

-----------------------------------------------------------------------------
(* Operations *)

Op(k) == at = "operate" /\ Field(ir.u, 43, 44) = k
NOP_MASK == (0 .. 46) \ {12}

Nop ==
  /\ Op(0) /\ ir.u \cap NOP_MASK = {} /\ at' = "poll"
  /\ UNCHANGED <<then, pipe, ir, cpu, mem, ram>> /\ Devices
AluOp ==
  /\ Op(0) /\ ir.u \cap NOP_MASK # {} /\ at' = "write"
  /\ \E alu \in {Alu(ir.u, ir.m, ir.a, 0 \in cpu.q, cpu.alu)} :
       /\ cpu' = [cpu EXCEPT !.alu = alu, !.q = NextQ(ir.u, @, alu.out)]
       /\ ir' = [ir EXCEPT !.out = OutBus(ir.u, alu, cpu.q, ir.m), !.dest = Field(ir.u, 14, 25)]
  /\ UNCHANGED <<then, pipe, mem, ram>> /\ Devices
Byte ==
  /\ Op(3) /\ at' = "write"
  /\ \E pos \in {Position(ir.u, cpu.lc, lc_byte_mode_flag(cpu))} :
       ir' = [ir EXCEPT !.out = ByteOut(ir.u, ir.m, ir.a, pos), !.dest = Field(ir.u, 14, 25)]
  /\ UNCHANGED <<then, pipe, cpu, mem, ram>> /\ Devices

(* Jump conditions.  take_jump is a char, and the flag that the sequence   *)
(* break ORs into it is bit 26 of a word.                                  *)
Interrupted == cpu.page_fault_flag \/ (interrupt_enable_flag /\ interrupt_pending_flag)
Condition(u, m, a) ==
  LET cond == Field(u, 0, 3)
  IN IF 5 \notin u THEN 0 \in rotate_left(m, Field(u, 0, 4))
     ELSE \/ cond = 1 /\ Less(m, a)
          \/ cond = 2 /\ ~Less(a, m)
          \/ cond = 3 /\ m = a
          \/ cond = 4 /\ cpu.page_fault_flag
          \/ cond \in {5, 6} /\ Interrupted
          \/ cond = 7
Taken(u) == Condition(u, ir.m, ir.a) # (6 \in u)

(* P and R of a jump: the instruction is also a store into the microcode.  *)
Tested(u, m) == IF 5 \in u THEN m ELSE rotate_left(m, Field(u, 0, 4))
write_ucode(u) ==
  IF {8, 9} \subseteq u
    THEN Set(mem.ucode, Field(u, 12, 25), Tested(u, ir.m) \cup {b + 32 : b \in ir.a \cap (0 .. 15)})
    ELSE mem.ucode

Halt ==
  /\ Op(1) /\ Misc(ir.u) = 1 /\ at' = "halted"
  /\ UNCHANGED <<then, pipe, ir, cpu, mem, ram>> /\ Devices
Jump ==
  /\ Op(1) /\ Misc(ir.u) # 1 /\ Taken(ir.u)
  /\ \E s \in {process_jump(On(cpu, mem.spc, Field(ir.u, 12, 25)), 8 \in ir.u, 9 \in ir.u, 7 \in ir.u, pipe.u_pc)} :
       /\ JumpTo(s, 7 \in ir.u)
       /\ mem' = [mem EXCEPT !.spc = s.spc, !.ucode = write_ucode(ir.u)]
  /\ UNCHANGED ram /\ Devices
JumpNot ==
  /\ Op(1) /\ Misc(ir.u) # 1 /\ ~Taken(ir.u) /\ at' = "popj"
  /\ mem' = [mem EXCEPT !.ucode = write_ucode(ir.u)]
  /\ UNCHANGED <<then, pipe, ir, cpu, ram>> /\ Devices

(* Dispatch: the field of M, and bits of the map of MD, select an entry;   *)
(* "enable ish" goes on to the next macro instruction.                     *)
MapBits(u) ==
  LET l2_map == map_vtop(cpu.md)
  IN IF (8 \in u /\ 18 \in l2_map) \/ (9 \in u /\ 19 \in l2_map) THEN {0} ELSE {}
DispatchAddress(u) ==
  Field({b - 12 : b \in u \cap (12 .. 22)} \cup MapBits(u)
        \cup Dispatched(u, ir.m, Position(u, cpu.lc, lc_byte_mode_flag(cpu))), 0, 10)
DispatchWrite ==
  /\ Op(2) /\ Misc(ir.u) = 2 /\ at' = "popj"
  /\ mem' = [mem EXCEPT !.disp = Set(@, Field(ir.u, 12, 22), ir.a)]
  /\ UNCHANGED <<then, pipe, ir, cpu, ram>> /\ Devices

Entry(w) == [pc |-> Field(w, 0, 13), n |-> 14 \in w, p |-> 15 \in w, r |-> 16 \in w]
Constant == [cpu EXCEPT !.dispatch_constant = Field(ir.u, 32, 41)]
Ish(u) == 24 \in u
Started(pc) ==
  IF Ish(ir.u) THEN [On(advance_lc(Constant), mem.spc, pc) EXCEPT !.fetch = NeedFetch(cpu)]
  ELSE On(Constant, mem.spc, pc)
Past(e) == IF 25 \in ir.u /\ e.n THEN pipe.u_pc - 1 ELSE pipe.u_pc
Dispatch ==
  /\ Op(2) /\ Misc(ir.u) # 2
  /\ \E e \in {Entry(Get(mem.disp, DispatchAddress(ir.u)))} :
       \/ /\ ~(e.p /\ e.r)
          /\ \E s \in {process_jump(Started(e.pc), e.p, e.r, e.n, Past(e))} :
               JumpTo(s, e.n) /\ mem' = [mem EXCEPT !.spc = s.spc]
       \/ /\ e.p /\ e.r
          /\ pipe' = [pipe EXCEPT !.u_pc = Past(e), !.no_exec_next = e.n]
          /\ cpu' = Started(0).c
          /\ at' = (IF Started(0).fetch THEN "read" ELSE "popj") /\ then' = "popj"
          /\ UNCHANGED <<ir, mem>>
  /\ UNCHANGED ram /\ Devices

-----------------------------------------------------------------------------
(* write_dest() *)

(* The functional destinations that are registers.                         *)
Registered(c, f, out) ==
  CASE f = 1    -> [c EXCEPT !.lc = (@ \ (0 .. 25)) \cup {31}
                                    \cup (out \cap IF lc_byte_mode_flag(c) THEN 0 .. 25 ELSE 1 .. 25)]
    [] f = 2    -> [c EXCEPT !.ic = out, !.lc = (@ \ (26 .. 29)) \cup (out \cap (26 .. 29))]
    [] f = \o11 -> [c EXCEPT !.pdl_ptr = (@ + 1) % 1024]
    [] f = \o13 -> [c EXCEPT !.pdl_index = Field(out, 0, 9)]
    [] f = \o14 -> [c EXCEPT !.pdl_ptr = Field(out, 0, 9)]
    [] f = \o15 -> Deeper(c)
    [] f = \o16 -> [c EXCEPT !.oa_reg_lo = out \cap (0 .. 25)]
    [] f = \o17 -> [c EXCEPT !.oa_reg_hi = out]
    [] f \in \o20 .. \o23 -> [c EXCEPT !.vma = out]
    [] f \in \o30 .. \o33 -> [c EXCEPT !.md = out]
    [] OTHER    -> c

(* Those that are memories, with the registers already written.            *)
MapWrite(mm, c) ==
  LET i  == Field(c.md, 13, 23)
      m1 == IF 26 \in c.vma THEN [mm EXCEPT !.l1 = Set(@, i, Down(c.vma, 27))] ELSE mm
  IN IF 25 \in c.vma
       THEN [m1 EXCEPT !.l2 = Set(@, 32 * Field(Get(m1.l1, i), 0, 4) + Field(c.md, 8, 12), c.vma)]
       ELSE m1
Memorised(mm, c, f, out) ==
  CASE f \in {\o10, \o11} -> [mm EXCEPT !.pdl = Set(@, c.pdl_ptr, out)]
    [] f = \o12           -> [mm EXCEPT !.pdl = Set(@, c.pdl_index, out)]
    [] f = \o15           -> [mm EXCEPT !.spc = Set(@, c.spc_stack_ptr, out)]
    [] f \in {\o23, \o33} -> MapWrite(mm, c)
    [] OTHER              -> mm
write_m_mem(mm, loc, out) == [mm EXCEPT !.m = Set(@, loc, out), !.a = Set(@, loc, out)]

Then(f) == CASE f \in {\o21, \o31} -> "read" [] f \in {\o22, \o32} -> "store" [] OTHER -> "popj"

WriteA ==
  /\ at = "write" /\ ir.dest >= 2048 /\ at' = "popj"
  /\ mem' = [mem EXCEPT !.a = Set(@, ir.dest % 1024, ir.out)]
  /\ UNCHANGED <<then, pipe, ir, cpu, ram>> /\ Devices
WriteDest ==
  /\ at = "write" /\ ir.dest < 2048
  /\ \E f \in {ir.dest \div 32} : \E c \in {Registered(cpu, f, ir.out)} :
       /\ cpu' = c
       /\ mem' = write_m_mem(Memorised(mem, c, f, ir.out), ir.dest % 32, ir.out)
       /\ ram' = IF f \in {\o23, \o33} /\ 25 \in c.vma
                   THEN [ram EXCEPT !.pages = add_new_page_no(@, Field(c.vma, 0, 13))] ELSE ram
       /\ at' = Then(f) /\ then' = "popj"
  /\ UNCHANGED <<pipe, ir>> /\ Devices

-----------------------------------------------------------------------------
Popj ==
  /\ at = "popj" /\ ir.popj
  /\ \E s \in {pop_spc(On(cpu, mem.spc, 0))} :
       /\ cpu' = s.c /\ pipe' = [pipe EXCEPT !.u_pc = s.pc]
       /\ at' = (IF s.fetch THEN "read" ELSE "poll") /\ then' = "poll"
  /\ UNCHANGED <<ir, mem, ram>> /\ Devices
PopjNot ==
  /\ at = "popj" /\ ~ir.popj /\ at' = "poll"
  /\ UNCHANGED <<then, pipe, ir, cpu, mem, ram>> /\ Devices
Halted == at = "halted" /\ UNCHANGED vars

EngineStep ==
  \/ Fetch \/ Source \/ Nop \/ AluOp \/ Byte \/ Halt \/ Jump \/ JumpNot \/ DispatchWrite \/ Dispatch
  \/ WriteA \/ WriteDest \/ Popj \/ PopjNot

ThreadStep ==
  \/ EngineStep \/ StoreStatus \/ StoreFlag \/ Dismiss \/ read_mem \/ write_mem \/ DiskStep \/ KbdStep
Next == ThreadStep \/ Tick \/ Halted

(* The thread goes on until it has halted; the interval timer goes on as  *)
(* long as the thread does; the keyboard is polled every 2^16 turns.       *)
Running  == []<><<TRUE>>_at \/ <>(at = "halted")
Timer    == WF_signalled(Tick)
Pollable == KeyInterrupt /\ (host.left # << >> \/ host.queue # << >>)
Polled   == []<>(at = "host") \/ <>[]~Pollable
Spec == Init /\ [][Next]_vars /\ Running /\ Timer /\ Polled
=============================================================================
