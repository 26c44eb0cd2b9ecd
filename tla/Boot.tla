-------------------------------- MODULE Boot ---------------------------------
(***************************************************************************)
(* kmain (src/kmain.c 67-159) from its entry to the kernel of Kernel.tla:  *)
(* the multiboot magic check, interrupt_init (the 8259 PICs, the IDT, the  *)
(* PIT and the fault handlers), syscall_init, the frame allocator, the     *)
(* process manager and module 0's process, then interrupt_sti and the      *)
(* kernel steps of Kernel.tla.  Before interrupt_sti no interrupt can      *)
(* arrive, so each init call is one step.                                  *)
(*                                                                         *)
(* Handlers are named by their C function.  A gate keeps the fields the    *)
(* CPU reads: the stub it points to (interrupt_handler_<n>, named by n)    *)
(* and the config byte.  A PIC keeps its vector base, its mask and the     *)
(* initialisation words it still expects.  The GDT keeps each descriptor's*)
(* access byte, the limit, the TR and tss.ss0.  log_init and the PIT's    *)
(* divisor change nothing the properties read.  init_vfs                  *)
(* and the module loop's initrd modules (i > 0) are the steps of          *)
(* KernelFs.tla, sequenced here as kmain makes them.                      *)
(***************************************************************************)
EXTENDS Kernel, Bitwise, KernelFs

CONSTANT ModuleCounts   \* values of mbinfo->mods_count the loader may pass

ASSUME ModuleCounts \subseteq Nat

IDT_NUM_ENTRIES == 256
Vectors == 0..IDT_NUM_ENTRIES - 1
MAX_SYSCALLS == 32

\* idt.h / interrupt.h / syscall.c
PL0 == 0
PL3 == 3
IDT_TRAP_GATE_TYPE == 1
SYSCALL_INT_IDX == 128
INTERRUPT_GENERAL_PROTECTION_FAULT == 13
INTERRUPT_PAGE_FAULT == 14

\* pit.h is not in the tree; IRQ_PIT of idt.h (IRQ0 at base 32).
PIT_INT_IDX == 32

\* syscall_init registers these at numbers 1..4 (SYS_PRINTF .. SYS_WAIT).
SyscallTable == <<"sys_printf", "sys_fork", "sys_exit", "sys_wait">>

\* pic.c 5-21; line 12 defines the slave's ICW1 as the master's ICW2.
PIC1_ICW2 == 32
PIC1_ICW1 == 17
PIC2_ICW1 == PIC1_ICW2
PIC2_ICW2 == 40
PIC1_ICW3 == 4
PIC2_ICW3 == 2
PIC1_ICW4 == 5
PIC2_ICW4 == 1

Handlers == {"NULL", "pit_handler", "general_protection_fault_handler",
             "syscall_interrupt_handler", "page_fault_handler"}
SyscallHandlers == {"NULL"} \cup {SyscallTable[n] : n \in 1..4}

NoGate == [stub |-> -1, config |-> 0]

\* A PIC as the BIOS leaves it: master at vector 8, slave at 0x70.
BiosPic == [c \in {1, 2} |-> [base |-> IF c = 1 THEN 8 ELSE 112,
                               mask |-> 0, expect |-> <<>>]]

\* kmain's position:
\*   entry .. init_vfs before the init call of that name (lines 68-86)
\*   modules           at module mod_i of the loop (88-137)
\*   mount, list, read before mount_fs, test_list_directory, test_read_file
\*   sti               after the module loop, before interrupt_sti (147)
\*   done              interrupts on: Kernel.tla's steps from here
\*   halted            the invalid-magic hlt loop (71-75)
BootPcs == {"entry", "interrupt_init", "syscall_init", "pfa",
            "process_manager", "init_vfs", "modules", "mount", "list", "read",
            "sti", "done", "halted"}

VARIABLES
  boot_pc,
  magic_ok,            \* magic_number = MULTIBOOT_BOOTLOADER_MAGIC (input)
  mods_count,          \* mbinfo->mods_count (input)
  mods_flag,           \* mbinfo->flags & MULTIBOOT_INFO_MODS (input)
  interrupt_handlers,  \* interrupt.c interrupt_handlers[256]
  syscall_handlers,    \* syscall.c syscall_handlers[32]
  idt,                 \* idt.c idt[256]
  pic,                 \* pic[1] master, pic[2] slave
  gdt,                 \* gdt.c gdt_entries, gdt_ptr, tss.c tss.ss0, the TR
  mod_i,               \* the module loop's i
  test_k               \* which test_read_file call comes next (1..3)

fsboot == <<mod_i, test_k, fsvars>>
bootvars == <<boot_pc, magic_ok, mods_count, mods_flag, interrupt_handlers,
              syscall_handlers, idt, pic, gdt, fsboot>>
bootAll == <<vars, bootvars>>

(***************************************************************************)
(* Helpers translated from the code.                                       *)
(***************************************************************************)
\* register_interrupt_handler (interrupt.c 12-20): refuse a vector out of
\* range or already taken.  Every caller ignores the result.
register_interrupt_handler(tbl, v, h) ==
  IF v >= IDT_NUM_ENTRIES \/ tbl[v] # "NULL" THEN tbl
  ELSE [tbl EXCEPT ![v] = h]

\* pit_init's registration of its handler (pit.c 21-30); the command byte
\* and the divisor it writes to the PIT are not modelled.
pit_init(tbl) == register_interrupt_handler(tbl, PIT_INT_IDX, "pit_handler")

\* register_syscall (syscall.c 30-36).
register_syscall(tbl, n, h) ==
  IF n < MAX_SYSCALLS THEN [tbl EXCEPT ![n] = h] ELSE tbl

\* create_idt_gate's config byte (idt.c 229), present, DPL and type, for
\* each type and level the code passes (a constant table, computed once).
GateConfig ==
  [t \in {IDT_TRAP_GATE_TYPE}, pl \in {PL0, PL3} |->
     128 | ((pl & 3) * 32) | 8 | 4 | 2 | t]

\* What the CPU reads from a config byte: bit 7, bits 6..5, bits 3..0
\* (bit fields read with div and mod, which TLC evaluates directly).
Present(c) == (c \div 128) % 2 = 1
Dpl(c)     == (c \div 32) % 4
TrapGate(c) == c % 16 = 15

\* The gate create_idt_gate(n, &interrupt_handler_n, type, pl) writes to
\* idt[n] (idt.c 225-229).
create_idt_gate(n, type, pl) == [stub |-> n, config |-> GateConfig[type, pl]]

\* Mutant: the system-call gate made with CREATE_IDT_GATE, at PL0.
idt_init_syscall_pl0(tbl) ==
  [v \in Vectors |->
     IF v <= 47 \/ v = SYSCALL_INT_IDX THEN create_idt_gate(v, IDT_TRAP_GATE_TYPE, PL0)
     ELSE tbl[v]]

\* idt_init (idt.c 232-300): CREATE_IDT_GATE(0) .. (47), trap gates at PL0,
\* then the system-call gate at PL3; load_idt installs the table.
idt_init(tbl) ==
  [v \in Vectors |->
     CASE v <= 47              -> create_idt_gate(v, IDT_TRAP_GATE_TYPE, PL0)
       [] v = SYSCALL_INT_IDX -> create_idt_gate(v, IDT_TRAP_GATE_TYPE, PL3)
       [] OTHER               -> tbl[v]]

\* An 8259A's response to a byte written to its command port "A" or its
\* data port "B": on A a byte with bit 4 set is ICW1 (clears the mask,
\* expects ICW2, ICW3 when bit 1 is clear, ICW4 when bit 0 is set), any
\* other byte an OCW2/OCW3 that leaves base and mask alone; on B the next
\* expected ICW (ICW2 sets the vector base to bits 7..3), otherwise OCW1,
\* the mask.
PicWrite(chip, port, byte) ==
  CASE port = "A" /\ (byte & 16) # 0 ->
         [chip EXCEPT !.mask = 0,
                      !.expect = <<"icw2">> \o (IF (byte & 2) = 0 THEN <<"icw3">> ELSE <<>>)
                                            \o (IF (byte & 1) = 1 THEN <<"icw4">> ELSE <<>>)]
    [] port = "A" -> chip
    [] chip.expect # <<>> ->
         [chip EXCEPT !.base = IF Head(chip.expect) = "icw2" THEN byte & 248 ELSE @,
                      !.expect = Tail(@)]
    [] OTHER -> [chip EXCEPT !.mask = byte]

\* pic_mask (pic.c 64-67).
pic_mask(m1, m2) == << <<1, "B", m1>>, <<2, "B", m2>> >>

\* Mutant: pic_init ends with the masks spec.md 5 gives, 0xFA (only the
\* timer and the cascade unmasked) and 0xFF.
PicInitWrites_spec ==
  << <<1, "A", PIC1_ICW1>>, <<2, "A", PIC2_ICW1>>,
     <<1, "B", PIC1_ICW2>>, <<2, "B", PIC2_ICW2>>,
     <<1, "B", PIC1_ICW3>>, <<2, "B", PIC2_ICW3>>,
     <<1, "B", PIC1_ICW4>>, <<2, "B", PIC2_ICW4>> >> \o pic_mask(250, 255)

\* pic_init's port writes in order (pic.c 25-57): <<chip, port, byte>>.
PicInitWrites ==
  << <<1, "A", PIC1_ICW1>>, <<2, "A", PIC2_ICW1>>,
     <<1, "B", PIC1_ICW2>>, <<2, "B", PIC2_ICW2>>,
     <<1, "B", PIC1_ICW3>>, <<2, "B", PIC2_ICW3>>,
     <<1, "B", PIC1_ICW4>>, <<2, "B", PIC2_ICW4>> >> \o pic_mask(236, 255)

pic_init(p) ==
  FoldLeft(LAMBDA q, w : [q EXCEPT ![w[1]] = PicWrite(@, w[2], w[3])], p, PicInitWrites)

\* IRQ lines a PIC passes to the CPU, as <<chip, line>>: an unmasked line
\* of the master other than the cascade, and an unmasked slave line when
\* the master's cascade line 2 is unmasked.
Unmasked(c, i) == (pic[c].mask \div (2 ^ i)) % 2 = 0
Delivered(c, i) ==
  IF c = 1 THEN i # 2 /\ Unmasked(1, i) ELSE Unmasked(2, i) /\ Unmasked(1, 2)
DeliverableIrqs == {irq \in {1, 2} \X (0..7) : Delivered(irq[1], irq[2])}

IrqVector(irq) == pic[irq[1]].base + irq[2]

\* A vector the CPU can take and interrupt_handler dispatches: a present
\* gate to the stub of that vector, a DPL that lets code at cpl raise it,
\* and a registered handler.
Routed(v, h, cpl) ==
  /\ Present(idt[v].config)
  /\ idt[v].stub = v
  /\ Dpl(idt[v].config) >= cpl
  /\ interrupt_handlers[v] = h

\* Routed's last conjunct is interrupt_handler's test (interrupt.c 54-68):
\* a vector without a registered handler is only logged.

\* gdt.h 25-51, idt.h 13, process.h 11-12: descriptor indices, the access
\* byte's flags and the selectors the kernel loads.
GDT_NULL_INDEX == 0
GDT_CODE_INDEX == 1
GDT_DATA_INDEX == 2
GDT_USER_CODE_INDEX == 3
GDT_USER_DATA_INDEX == 4
GDT_DATA_OFFSET == 16
GDT_ACCESS_PRESENT == 128
GDT_ACCESS_RING0 == 0
GDT_ACCESS_RING3 == 96
GDT_ACCESS_CODE == 24
GDT_ACCESS_DATA == 16
GDT_ACCESS_EXECUTABLE == 8
GDT_ACCESS_READABLE == 2
GDT_ACCESS_WRITABLE == 2
SEGSEL_KERNEL_CS == 8
USER_CS_SELECTOR == 27
USER_DS_SELECTOR == 35
GdtIndices == 0..5   \* gdt_entries[6]

\* The GDT as the CPU sees it: each descriptor's access byte (base, limit
\* and granularity are flat 0..4 GiB for every segment but the TSS's and
\* are left out), gdt_ptr.limit, the task register and the TSS's ss0.
NoGdt == [entries |-> [i \in GdtIndices |-> 0], limit |-> 0, tr |-> 0, ss0 |-> 0]

\* gdt_set_gate (gdt.c 7-37), as far as the access byte.
gdt_set_gate(g, num, access) == [g EXCEPT !.entries[num] = access]

\* gdt_init's five gdt_set_gate calls (gdt.c 47-67), <<index, access>>: the
\* null descriptor, then kernel code and data, user code and data.
GdtInitGates ==
  LET flat(a) == GDT_ACCESS_PRESENT | a
  IN  << <<GDT_NULL_INDEX, 0>>,
         <<GDT_CODE_INDEX, flat(GDT_ACCESS_RING0 | GDT_ACCESS_CODE | GDT_ACCESS_EXECUTABLE | GDT_ACCESS_READABLE)>>,
         <<GDT_DATA_INDEX, flat(GDT_ACCESS_RING0 | GDT_ACCESS_DATA | GDT_ACCESS_WRITABLE)>>,
         <<GDT_USER_CODE_INDEX, flat(GDT_ACCESS_RING3 | GDT_ACCESS_CODE | GDT_ACCESS_EXECUTABLE | GDT_ACCESS_READABLE)>>,
         <<GDT_USER_DATA_INDEX, flat(GDT_ACCESS_RING3 | GDT_ACCESS_DATA | GDT_ACCESS_WRITABLE)>> >>

\* Mutant: gdt_ptr.limit computed for five descriptors.
gdt_init_limit5(g) ==
  FoldLeft(LAMBDA t, e : gdt_set_gate(t, e[1], e[2]), [g EXCEPT !.limit = 8 * 5 - 1], GdtInitGates)

\* gdt_init (gdt.c 39-73): gdt_ptr over six descriptors, the five gates,
\* then gdt_asm's lgdt.
gdt_init(g) ==
  FoldLeft(LAMBDA t, e : gdt_set_gate(t, e[1], e[2]), [g EXCEPT !.limit = 8 * 6 - 1], GdtInitGates)

\* tss_init (tss.c 10-28): ss0 = GDT_DATA_OFFSET, descriptor 5 an available
\* 32-bit TSS (0x89), then ltr 0x28, which the CPU refuses (#GP) unless
\* that selector is inside the limit and names an available TSS, and which
\* marks the descriptor busy (type 0xB).
tss_init(g) ==
  LET h == gdt_set_gate([g EXCEPT !.ss0 = GDT_DATA_OFFSET], 5, 137)
  IN  IF 40 + 7 <= h.limit /\ h.entries[5] = 137
      THEN [h EXCEPT !.tr = 40, !.entries[5] = 139]
      ELSE h

\* What the CPU checks when it loads selector sel into a segment register
\* of the given kind: inside gdt_ptr.limit, present, DPL = RPL, and a code,
\* writable data or busy TSS descriptor.
SegmentKind(a) ==
  CASE (a \div 16) % 2 = 0         -> IF a % 16 = 11 THEN "tss" ELSE "system"
    [] (a \div 8) % 2 = 1          -> "code"
    [] (a \div 2) % 2 = 1          -> "data"
    [] OTHER                       -> "readonly"
Resolves(g, sel, kind) ==
  /\ (sel \div 8) * 8 + 7 <= g.limit
  /\ sel \div 8 \in GdtIndices
  /\ Present(g.entries[sel \div 8])
  /\ Dpl(g.entries[sel \div 8]) = sel % 4
  /\ SegmentKind(g.entries[sel \div 8]) = kind

(***************************************************************************)
(* kmain's steps                                                           *)
(***************************************************************************)
BootInit ==
  \* .bss and static initialisers before kmain runs
  /\ frame_bitmap = [f \in Frames |-> FALSE]
  /\ process_table = [s \in Slots |-> FreePcb]
  /\ pd = [s \in Slots |-> NoTables]
  /\ pt = [s \in Slots |-> NoPages]
  /\ ready_queue = <<>>
  /\ current_process = NULL
  /\ next_pid = 1
  /\ irq0_in_service = FALSE
  /\ cpu = "boot"
  /\ child = NULL
  /\ todo = {}
  /\ interrupt_handlers = [v \in Vectors |-> "NULL"]
  /\ syscall_handlers = [n \in 0..MAX_SYSCALLS - 1 |-> "NULL"]
  /\ idt = [v \in Vectors |-> NoGate]
  /\ pic = BiosPic
  /\ gdt = NoGdt
  \* what the loader passes
  /\ magic_ok \in BOOLEAN
  /\ mods_count \in ModuleCounts
  /\ mods_flag \in BOOLEAN
  /\ FsInit(mods_count)
  /\ mod_i = 0
  /\ test_k = 1
  /\ boot_pc = "entry"

BootStep(from, to) == boot_pc = from /\ boot_pc' = to

\* log_init, then the magic check: a wrong magic halts (lines 68-76).
KmainBadMagic ==
  /\ ~magic_ok
  /\ BootStep("entry", "halted")
  /\ UNCHANGED <<vars, magic_ok, mods_count, mods_flag, interrupt_handlers,
                 syscall_handlers, idt, pic, gdt, fsboot>>

\* gdt_init, then tss_init (lines 78-79).
KmainEntry ==
  /\ magic_ok
  /\ BootStep("entry", "interrupt_init")
  /\ gdt' = tss_init(gdt_init(gdt))
  /\ UNCHANGED <<vars, magic_ok, mods_count, mods_flag, interrupt_handlers,
                 syscall_handlers, idt, pic, fsboot>>

\* interrupt_init (interrupt.c 70-76): pic_init, idt_init, pit_init's
\* registration of pit_handler, then the GPF handler.
InterruptInit ==
  /\ BootStep("interrupt_init", "syscall_init")
  /\ pic' = pic_init(pic)
  /\ idt' = idt_init(idt)
  /\ interrupt_handlers' =
       register_interrupt_handler(pit_init(interrupt_handlers),
         INTERRUPT_GENERAL_PROTECTION_FAULT, "general_protection_fault_handler")
  /\ UNCHANGED <<vars, magic_ok, mods_count, mods_flag, syscall_handlers, gdt, fsboot>>

\* syscall_init (syscall.c 19-28).
SyscallInit ==
  /\ BootStep("syscall_init", "pfa")
  /\ interrupt_handlers' = register_interrupt_handler(interrupt_handlers,
                             SYSCALL_INT_IDX, "syscall_interrupt_handler")
  /\ syscall_handlers' = FoldLeft(LAMBDA t, n : register_syscall(t, n, SyscallTable[n]),
                                  syscall_handlers, <<1, 2, 3, 4>>)
  /\ UNCHANGED <<vars, magic_ok, mods_count, mods_flag, idt, pic, gdt, fsboot>>

\* init_page_frame_allocator: the bitmap, then the page-fault handler.
PfaInit ==
  /\ BootStep("pfa", "process_manager")
  /\ frame_bitmap' = InitBitmap
  /\ interrupt_handlers' = register_interrupt_handler(interrupt_handlers,
                             INTERRUPT_PAGE_FAULT, "page_fault_handler")
  /\ UNCHANGED <<process_table, pd, pt, ready_queue, current_process, next_pid,
                 irq0_in_service, cpu, child, todo, magic_ok, mods_count,
                 mods_flag, syscall_handlers, idt, pic, gdt, fsboot>>

\* init_process_manager (process.c 46-58).
ProcessManagerInit ==
  /\ BootStep("process_manager", "init_vfs")
  /\ process_table' = [s \in Slots |-> [process_table[s] EXCEPT !.state = "FREE", !.pid = 0]]
  /\ current_process' = NULL
  /\ ready_queue' = <<>>
  /\ next_pid' = 1
  /\ UNCHANGED <<frame_bitmap, pd, pt, irq0_in_service, cpu, child, todo,
                 magic_ok, mods_count, mods_flag, interrupt_handlers,
                 syscall_handlers, idt, pic, gdt, fsboot>>

\* init_vfs (line 86).
InitVfsStep ==
  /\ BootStep("init_vfs", "modules")
  /\ InitVfs
  /\ UNCHANGED <<vars, magic_ok, mods_count, mods_flag, interrupt_handlers,
                 syscall_handlers, idt, pic, gdt, mod_i, test_k>>

\* The end of one pass of the module loop: i++, and the loop test.
NextModule ==
  /\ mod_i' = mod_i + 1
  /\ boot_pc' = IF mod_i + 1 < mods_count THEN "modules" ELSE "sti"

\* The module loop's i = 0 (lines 88-137): create_process takes the first
\* free PCB and the next pid, a directory frame and one frame per module
\* page, sets the frame to resume at USER_CODE_START and pushes the PCB,
\* READY, on the queue.  Its failure paths cannot happen on an empty table
\* with the frames Kernel.tla's ASSUME provides.
CreateModuleProcess ==
  LET s    == Min(FreeSlots)
      dirR == alloc_frame(frame_bitmap)
      as   == LoadPages([bitmap |-> dirR.bitmap, pd |-> NewDirectory, pt |-> NoPages],
                        CodePages)
  IN  /\ mods_count > 0 /\ mods_flag
      /\ boot_pc = "modules" /\ mod_i = 0
      /\ NextModule
      /\ process_table' = [process_table EXCEPT
                             ![s] = [allocate_pcb_and_pid(s) EXCEPT !.state = "READY",
                                                                    !.cr3 = dirR.frame]]
      /\ next_pid' = next_pid + 1
      /\ frame_bitmap' = as.bitmap
      /\ pd' = [pd EXCEPT ![s] = as.pd]
      /\ pt' = [pt EXCEPT ![s] = as.pt]
      /\ ready_queue' = <<s>> \o ready_queue
      /\ UNCHANGED <<current_process, irq0_in_service, cpu, child, todo, magic_ok,
                     mods_count, mods_flag, interrupt_handlers, syscall_handlers,
                     idt, pic, gdt, test_k, fsvars>>

\* No module, or mods_count without MULTIBOOT_INFO_MODS: logged only.
NoModuleProcess ==
  /\ ~(mods_count > 0 /\ mods_flag)
  /\ BootStep("modules", "sti")
  /\ UNCHANGED <<vars, magic_ok, mods_count, mods_flag, interrupt_handlers,
                 syscall_handlers, idt, pic, gdt, fsboot>>

\* A module i > 0 with a command line (lines 107-114): init_initrd on its
\* bytes, then mount_fs.
InitrdModule ==
  /\ boot_pc = "modules" /\ mod_i > 0
  /\ modules[mod_i].cmdline
  /\ boot_pc' = "mount"
  /\ InitInitrd(modules[mod_i])
  /\ UNCHANGED <<vars, magic_ok, mods_count, mods_flag, interrupt_handlers,
                 syscall_handlers, idt, pic, gdt, mod_i, test_k>>

\* A module i > 0 without a command line is passed over.
SkipModule ==
  /\ boot_pc = "modules" /\ mod_i > 0
  /\ ~modules[mod_i].cmdline
  /\ NextModule
  /\ UNCHANGED <<vars, magic_ok, mods_count, mods_flag, interrupt_handlers,
                 syscall_handlers, idt, pic, gdt, test_k, fsvars>>

\* mount_fs("/") succeeds: the self-tests follow (116-122).
Mount ==
  /\ BootStep("mount", "list")
  /\ MountInitrd(mod_i)
  /\ UNCHANGED <<vars, magic_ok, mods_count, mods_flag, interrupt_handlers,
                 syscall_handlers, idt, pic, gdt, mod_i, test_k>>

\* mount_fs refuses: logged, and the loop goes on (123-125).
MountFailed ==
  /\ boot_pc = "mount"
  /\ MountRefused
  /\ NextModule
  /\ UNCHANGED <<vars, magic_ok, mods_count, mods_flag, interrupt_handlers,
                 syscall_handlers, idt, pic, gdt, test_k, fsvars>>

ListDirectory ==
  /\ BootStep("list", "read")
  /\ TestListDirectory
  /\ UNCHANGED <<vars, magic_ok, mods_count, mods_flag, interrupt_handlers,
                 syscall_handlers, idt, pic, gdt, mod_i, test_k>>

\* test_read_file on "/hello.txt", "/test.txt", "/README.txt" in turn.
ReadFile ==
  /\ boot_pc = "read"
  /\ TestReadFile(test_k)
  /\ IF test_k < 3 THEN test_k' = test_k + 1 /\ UNCHANGED <<boot_pc, mod_i>>
                    ELSE NextModule /\ UNCHANGED test_k
  /\ UNCHANGED <<vars, magic_ok, mods_count, mods_flag, interrupt_handlers,
                 syscall_handlers, idt, pic, gdt>>

\* interrupt_sti (147): from here a tick can arrive, and kmain calls
\* schedule() as Kernel.tla's cpu = "boot".
Sti ==
  /\ BootStep("sti", "done")
  /\ UNCHANGED <<vars, magic_ok, mods_count, mods_flag, interrupt_handlers,
                 syscall_handlers, idt, pic, gdt, fsboot>>

KernelAfterBoot ==
  /\ boot_pc = "done"
  /\ Next
  /\ UNCHANGED bootvars

BootNext ==
  \/ KmainBadMagic \/ KmainEntry \/ InterruptInit \/ SyscallInit
  \/ PfaInit \/ ProcessManagerInit \/ InitVfsStep
  \/ CreateModuleProcess \/ NoModuleProcess \/ InitrdModule \/ SkipModule
  \/ Mount \/ MountFailed \/ ListDirectory \/ ReadFile
  \/ Sti \/ KernelAfterBoot

BootSpec == BootInit /\ [][BootNext]_bootAll

\* Fairness: kmain's init calls run to completion, nothing can preempt them
\* before interrupt_sti; after it, Kernel.tla's fairness.
BootFairSpec ==
  /\ BootSpec
  /\ WF_bootAll(boot_pc # "done" /\ BootNext)
  /\ WF_bootAll(boot_pc = "done" /\ KernelStep /\ UNCHANGED bootvars)
  /\ WF_bootAll(boot_pc = "done" /\ Tick /\ UNCHANGED bootvars)

BootTypeOK ==
  /\ TypeOK
  /\ boot_pc \in BootPcs
  /\ magic_ok \in BOOLEAN /\ mods_flag \in BOOLEAN
  /\ mods_count \in ModuleCounts
  /\ interrupt_handlers \in [Vectors -> Handlers]
  /\ syscall_handlers \in [0..MAX_SYSCALLS - 1 -> SyscallHandlers]
  /\ \A v \in Vectors : idt[v] = NoGate \/ (idt[v].stub \in Vectors /\ idt[v].config \in 0..255)
  /\ \A c \in {1, 2} : pic[c].base \in 0..255 /\ pic[c].mask \in 0..255
  /\ gdt \in [entries : [GdtIndices -> 0..255], limit : 0..65535,
              tr : {0, 40}, ss0 : {0, GDT_DATA_OFFSET}]
  /\ mod_i \in 0..mods_count /\ test_k \in 1..3
  /\ tested \in 0..mods_count
  /\ FsTypeOK

(***************************************************************************)
(* Properties                                                              *)
(***************************************************************************)

(***************************************************************************)
(* Once kmain has enabled interrupts, every trap the kernel relies on      *)
(* reaches its handler through the IDT and interrupt_handler: the timer    *)
(* on the master PIC's line 0 (pit_handler, registered by pit_init at      *)
(* PIT_INT_IDX, so the PIC must have been remapped to that base), the GPF  *)
(* and page-fault exceptions, and int $0x80 from user code at CPL 3; and  *)
(* syscall_init has filled the four system-call slots.  It ties pic_init, *)
(* idt_init and four registrations made in three files.                   *)
(***************************************************************************)
TrapsRouted ==
  boot_pc = "done" =>
    /\ <<1, 0>> \in DeliverableIrqs
    /\ Routed(IrqVector(<<1, 0>>), "pit_handler", PL0)
    /\ Routed(INTERRUPT_GENERAL_PROTECTION_FAULT, "general_protection_fault_handler", PL0)
    /\ Routed(INTERRUPT_PAGE_FAULT, "page_fault_handler", PL0)
    /\ Routed(SYSCALL_INT_IDX, "syscall_interrupt_handler", PL3)
    /\ \A n \in 1..4 : syscall_handlers[n] = SyscallTable[n]

(***************************************************************************)
(* Once kmain has booted, the IRQs the PICs deliver to a vector with no    *)
(* registered handler are exactly IRQ1 (keyboard) and IRQ4 (COM1), at      *)
(* vectors 33 and 36: pic_init's final pic_mask(0xEC, 0xFF) leaves them    *)
(* unmasked besides the timer, and only pit_init registers an IRQ handler. *)
(* interrupt_handler only logs such an interrupt and sends no EOI.  The    *)
(* slave, which the PIC2_ICW1 typo leaves at the BIOS base, delivers       *)
(* nothing because the cascade line is masked.  spec.md 5 says only the    *)
(* timer and the cascade are unmasked, which would make this set empty.   *)
(***************************************************************************)
UnhandledIrqsAreKeyboardAndCom1 ==
  boot_pc = "done" =>
    {IrqVector(irq) : irq \in {irq \in DeliverableIrqs :
                                ~\E h \in Handlers \ {"NULL"} : Routed(IrqVector(irq), h, PL0)}}
      = {33, 36}

(***************************************************************************)
(* From gdt_init and tss_init on, every selector the kernel loads resolves *)
(* to the descriptor it needs: SEGSEL_KERNEL_CS of every IDT gate          *)
(* (idt.c 227) to ring-0 code, the USER_CS/USER_DS_SELECTOR that           *)
(* create_process puts in the iret frame (process.c 116-118) to ring-3     *)
(* code and writable data, tss.ss0 that the CPU loads on a trap from user  *)
(* code to ring-0 data, and the task register to the TSS.  The selectors   *)
(* are literals in four files; the table, its limit and the ltr are in two *)
(* more.  A mismatch faults only at the first iret or the first trap.      *)
(***************************************************************************)
SegmentsResolve ==
  boot_pc \notin {"entry", "halted"} =>
    /\ Resolves(gdt, SEGSEL_KERNEL_CS, "code")
    /\ Resolves(gdt, USER_CS_SELECTOR, "code")
    /\ Resolves(gdt, USER_DS_SELECTOR, "data")
    /\ Resolves(gdt, gdt.ss0, "data")
    /\ Resolves(gdt, gdt.tr, "tss")

====
