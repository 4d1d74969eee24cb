------------------------------ MODULE UsimDisk -------------------------------
(***************************************************************************)
(* The disk controller (disk.c).  A command list is a chain of words in    *)
(* physical memory, each with the address of a page and a bit that says    *)
(* there is another; the controller moves one block to or from each page.  *)
(* All of that happens while the guest's store into the start register     *)
(* waits; only the interrupt that says so comes DISK_DELAY polls later.    *)
(*                                                                         *)
(* A list ends, or leaves memory, before its 65535th word; the pages that  *)
(* it names are in memory.                                                 *)
(***************************************************************************)
EXTENDS UsimBus

(* read_phy_mem() and write_phy_mem(): a page below phys_ram_pages is made *)
(* when it is missing.                                                     *)
Present(pn)  == Exists(ram.pages, pn) \/ pn < phys_ram_pages
PhyPages(pn) == IF Present(pn) THEN add_new_page_no(ram.pages, pn) ELSE ram.pages

(* The 256 words of a page; the block that replaces them.                  *)
PageOf(r, pn) ==
  LET base == Loc(r.pages, pn, 0)
  IN [i \in {w - base : w \in DOMAIN r.words \cap (base .. base + 255)} |-> r.words[base + i]]
Loaded(r, pn, content) ==
  LET base == Loc(r.pages, pn, 0)
      gone == DOMAIN r.words \cap (base .. base + 255)
      new  == {base + i : i \in DOMAIN content}
  IN [r EXCEPT !.words = [w \in (DOMAIN r.words \ gone) \cup new |->
                            IF w \in new THEN content[w - base] ELSE r.words[w]]]
Patched(r, pn, content) ==
  Loaded(r, pn, content @@ PageOf(r, pn))

(* disk_set_cmd(): a command without an interrupt enable takes the Xbus    *)
(* interrupt away, whosever it is.                                         *)
WriteCmd ==
  /\ Pn = Xbus /\ Offset = \o374 /\ Writing
  /\ disk' = [disk EXCEPT !.cmd = cpu.md]
  /\ at' = IF cpu.md \cap {10, 11} = {} THEN "dismiss" ELSE then
  /\ UNCHANGED <<prog, then, pipe, ir, mem, ram, bitmap, pack, iob, host, interrupts>>
WriteDiskRegister ==
  /\ Pn = Xbus /\ Offset \in {\o370, \o371, \o372, \o373, \o375, \o376} /\ Writing /\ at' = then
  /\ disk' = CASE Offset = \o375 -> [disk EXCEPT !.clp = Field(cpu.md, 0, 21)]
               [] Offset = \o376 -> [disk EXCEPT !.da = cpu.md]
               [] OTHER          -> disk
  /\ UNCHANGED <<prog, then, pipe, ir, mem, ram, bitmap, pack, iob, host, interrupts>>

(* disk_decode_addr(), disk_undecode_addr(), disk_incr_block().            *)
disk_decode_addr(d) ==
  [d EXCEPT !.unit = Field(d.da, 28, 30), !.cyl = Field(d.da, 16, 27),
            !.head = Field(d.da, 8, 15), !.block = Field(d.da, 0, 7)]
disk_undecode_addr(d) ==
  [d EXCEPT !.da = Put(d.unit % 8, 28) \cup Put(d.cyl % 4096, 16) \cup Put(d.head % 256, 8) \cup Put(d.block % 256, 0)]
disk_incr_block(d) ==
  CASE d.block + 1 < pack.blocks_per_track -> [d EXCEPT !.block = @ + 1]
    [] d.block + 1 >= pack.blocks_per_track /\ d.head + 1 < pack.heads -> [d EXCEPT !.block = 0, !.head = @ + 1]
    [] OTHER -> [d EXCEPT !.block = 0, !.head = 0, !.cyl = @ + 1]
block_no(d) == d.cyl * pack.blocks_per_track * pack.heads + d.head * pack.blocks_per_track + d.block

(* disk_start(): a read or a write goes through its list; read compare     *)
(* only decodes the address; the rest does nothing.                        *)
Command(d) == Field(d.cmd, 0, 9)
disk_start ==
  /\ Pn = Xbus /\ Offset = \o377 /\ Writing
  /\ disk' = IF Command(disk) \in {0, \o10, \o11} THEN disk_decode_addr(disk) ELSE disk
  /\ at' = IF Command(disk) \in {0, \o11} THEN "disk" ELSE then
  /\ UNCHANGED <<prog, then, pipe, ir, mem, ram, bitmap, pack, iob, host, interrupts>>

(* The label that a machine without a pack reads.                          *)
FakeLabel ==
  (0 :> LABEL) @@ (1 :> {0}) @@ (2 :> Put(\o1000, 0)) @@ (3 :> Put(4, 0)) @@ (4 :> Put(\o100, 0))
  @@ (5 :> Put(\o400, 0)) @@ (6 :> Put(\o1234, 0)) @@ (\o200 :> {0}) @@ (\o201 :> {0})
  @@ (\o202 :> Put(\o1234, 0)) @@ (\o203 :> Put(\o1000, 0)) @@ (\o204 :> Put(\o10, 0))
AtLabel(d) == d.unit = 0 /\ d.cyl = 0 /\ d.head = 0 /\ d.block = 0

(* disk_read_block() and disk_write_block() with the page there is: past   *)
(* the end of the image a read gives zeros and no error.                   *)
Content(d) == IF block_no(d) \in DOMAIN pack.blocks THEN pack.blocks[block_no(d)] ELSE Empty
Made(r, pn) == [r EXCEPT !.pages = add_new_page_no(@, pn)]
ReadBlock(d, r, pn) ==
  /\ ram' = CASE pack.fd                  -> Loaded(Made(r, pn), pn, Content(d))
              [] ~pack.fd /\ AtLabel(d)   -> Patched(Made(r, pn), pn, FakeLabel)
              [] OTHER                    -> r
  /\ UNCHANGED pack
WriteBlock(d, r, pn) ==
  /\ ram' = IF pack.fd THEN Made(r, pn) ELSE r
  /\ pack' = IF pack.fd THEN [pack EXCEPT !.blocks = (block_no(d) :> PageOf(Made(r, pn), pn)) @@ @] ELSE pack

(* One word of the list: the block is moved, and then it was the last one, *)
(* or the next word and the next block.                                    *)
Transfer(d, ccw, r, pn) ==
  /\ IF Command(d) = 0 THEN ReadBlock(d, r, pn) ELSE WriteBlock(d, r, pn)
  /\ disk' = [IF 0 \in ccw THEN [disk_incr_block(d) EXCEPT !.clp = @ + 1] ELSE d EXCEPT !.ma = ccw \ (0 .. 7)]
  /\ at' = IF 0 \in ccw THEN "disk" ELSE "moved"
DiskWord ==
  /\ at = "disk" /\ Present(disk.clp \div 256)
  /\ \E pages \in {PhyPages(disk.clp \div 256)} :
       \E ccw \in {Get(ram.words, Loc(pages, disk.clp \div 256, disk.clp % 256))} :
         Transfer(disk, ccw, [ram EXCEPT !.pages = pages], Field(ccw, 8, 21))
  /\ UNCHANGED <<prog, then, pipe, ir, cpu, mem, bitmap, iob, host, interrupts>>
(* The list is not in memory: no interrupt, and no disk address.           *)
DiskLost ==
  /\ at = "disk" /\ ~Present(disk.clp \div 256) /\ at' = then
  /\ UNCHANGED <<prog, then, pipe, ir, cpu, mem, ram, devices, interrupts>>
(* Mutant of DiskMoved: the other enable asks for the interrupt.           *)
DiskMovedOther ==
  /\ at = "moved" /\ at' = then
  /\ disk' = [disk_undecode_addr(disk) EXCEPT !.delay = IF 10 \in disk.cmd THEN DISK_DELAY ELSE @]
  /\ UNCHANGED <<prog, then, pipe, ir, cpu, mem, ram, bitmap, pack, iob, host, interrupts>>

(* After the last word; disk_future_interrupt().                           *)
DiskMoved ==
  /\ at = "moved" /\ at' = then
  /\ disk' = [disk_undecode_addr(disk) EXCEPT !.delay = IF 11 \in disk.cmd THEN DISK_DELAY ELSE @]
  /\ UNCHANGED <<prog, then, pipe, ir, cpu, mem, ram, bitmap, pack, iob, host, interrupts>>

(* disk_poll(), every time round the loop, and disk_throw_interrupt().     *)
disk_poll ==
  /\ at = "poll"
  /\ disk' = [disk EXCEPT !.delay = IF @ > 0 THEN @ - 1 ELSE @,
                          !.status = IF disk.delay = 1 THEN @ \cup {3} ELSE @]
  /\ IF disk.delay = 1 THEN assert_xbus_interrupt("fetch") ELSE Skip("fetch")
  /\ UNCHANGED <<prog, pipe, ir, cpu, mem, ram, bitmap, pack, iob, host, signalled>>

DiskStep ==
  \/ WriteCmd \/ WriteDiskRegister \/ disk_start \/ DiskWord \/ DiskLost \/ DiskMoved \/ disk_poll
=============================================================================
