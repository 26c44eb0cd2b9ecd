------------------------------- MODULE Kernel -------------------------------
(***************************************************************************)
(* The process layer of the kernel on one CPU: the PCB table and LIFO      *)
(* ready queue of src/mem/process.c, the fork and exit system calls of     *)
(* src/arch/x86/syscall.c, demand paging by page_fault_handler, per-       *)
(* process address spaces built by map_page (src/mem/paging.c), and the    *)
(* timer tick of src/arch/x86/pit.c with the 8259's in-service bit.        *)
(*                                                                         *)
(* All IDT gates are trap gates (idt.c), so the tick can arrive between    *)
(* any two kernel steps; the variable cpu says where the single CPU is in  *)
(* a multi-step kernel path, and every such path is split at the points a  *)
(* tick can separate.  A user address space is abstracted to the user      *)
(* pages the program uses, named by virtual page number, and the page     *)
(* tables to the frames the directory entries of those pages point to.    *)
(***************************************************************************)
EXTENDS FrameBitmap, SequencesExt

CONSTANTS
  MaxProcesses,   \* MAX_PROCESSES: size of process_table
  ModulePages,    \* pages of module 0, loaded by create_process
  ExitStatuses,   \* statuses user code passes to exit()
  MaxPid          \* bound on next_pid: no fork once it is exceeded

ASSUME MaxProcesses \in Nat \ {0} /\ ModulePages \in Nat \ {0} /\ MaxPid \in Nat
ASSUME KernelEndFrame + 2 + ModulePages <= NFrames  \* create_process succeeds

Slots == 1..MaxProcesses
NULL == 0

States == {"FREE", "READY", "RUNNING", "BLOCKED", "TERMINATED"}

\* Virtual page numbers (address / 4096) of USER_CODE_START, USER_HEAP_START
\* and of the page below USER_STACK_TOP, the first one a push touches.
CodePages == {32840 + i : i \in 0..ModulePages - 1}
HeapPage  == 33024
StackPage == 786430
UserPages == CodePages \cup {HeapPage, StackPage}

\* map_page's pd_index = virtual_addr >> 22, i.e. page >> 10.
PdIndex(p) == p \div 1024
UserPdes == {PdIndex(p) : p \in UserPages}

\* KERNEL_PDT_IDX = KERNEL_VIRTUAL_START >> 22: the first entry of the kernel
\* half of a directory, the one covering the kernel image at 0xC0000000.
KERNEL_PDT_IDX == PdIndex(786432)

\* Where the single CPU is:
\*   boot         kmain after interrupt_sti, before its schedule()
\*   user         user mode of current_process
\*   fork_copy    sys_fork in its page-copy loop (lines 117-142)
\*   fork_ready   sys_fork after the loop, before state = READY
\*   fork_link    sys_fork between state = READY and the queue link
\*   exit_sched   sys_exit after state = TERMINATED, before schedule()
\*   sched_switch schedule() between the dequeue and state = RUNNING
\*   halt         a fatal handler's hlt loop (interrupts still enabled)
\*   idle         kmain's final hlt loop
CpuModes == {"boot", "user", "fork_copy", "fork_ready", "fork_link",
             "exit_sched", "sched_switch", "halt", "idle"}

VARIABLES
  frame_bitmap,     \* page_frame_allocator.c frame_bitmap
  process_table,    \* process.c process_table: the PCB fields that matter
  pd,               \* pd[s][d]: frame of the page table in PDE d of s's directory
  pt,               \* pt[s][p]: frame mapped at user page p in s's tables
  ready_queue,      \* the list from ready_queue_head, head first
  current_process,  \* slot of current_process, NULL for none
  next_pid,
  irq0_in_service,  \* the master PIC's ISR bit for IRQ0 (no EOI yet)
  cpu,
  child,            \* sys_fork's child slot while a fork is in progress
  todo              \* user pages the fork loop has still to copy

vars == <<frame_bitmap, process_table, pd, pt, ready_queue, current_process,
          next_pid, irq0_in_service, cpu, child, todo>>

NoTables == [d \in UserPdes \cup {KERNEL_PDT_IDX} |-> NoFrame]

\* kernel_page_directory (paging.c 6), the entry create_page_directory
\* copies from.  It is a zeroed static; init_paging (9-19), the only code
\* that points KERNEL_PDT_IDX at kernel_page_table, has no caller, so the
\* entry stays 0.  The entries after it are 0 in every build.
kernel_page_directory == [d \in {KERNEL_PDT_IDX} |-> NoFrame]

\* create_page_directory (40-56) once its alloc_frame succeeded: the frame
\* zeroed, then the kernel half copied from kernel_page_directory.
NewDirectory == [NoTables EXCEPT ![KERNEL_PDT_IDX] = kernel_page_directory[KERNEL_PDT_IDX]]
NoPages  == [p \in UserPages |-> NoFrame]

\* map_page on the address space (bm, dir, tbl): allocate and install a page
\* table when the PDE is not present; when that allocation fails, log and
\* return without mapping.
map_page(bm, dir, tbl, p, f) ==
  LET d == PdIndex(p)
      r == alloc_frame(bm)
  IN  IF dir[d] # NoFrame
        THEN [bitmap |-> bm, pd |-> dir, pt |-> [tbl EXCEPT ![p] = f]]
      ELSE IF r.frame = NoFrame
        THEN [bitmap |-> bm, pd |-> dir, pt |-> tbl]
      ELSE [bitmap |-> r.bitmap, pd |-> [dir EXCEPT ![d] = r.frame],
            pt |-> [tbl EXCEPT ![p] = f]]

\* create_process's loop: for each module page, alloc_frame then map_page.
RECURSIVE LoadPages(_, _)
LoadPages(as, ps) ==
  IF ps = {} THEN as
  ELSE LET p == Min(ps)
           r == alloc_frame(as.bitmap)
       IN  LoadPages(map_page(r.bitmap, as.pd, as.pt, p, r.frame), ps \ {p})

FreePcb == [pid |-> 0, state |-> "FREE", parent_pid |-> 0, eax |-> 0, cr3 |-> NoFrame]

\* The state in which kmain enables interrupts: init_process_manager has
\* cleared the table and create_process has loaded module 0 into slot 1,
\* READY at the head of the queue.
Init ==
  LET dirR == alloc_frame(InitBitmap)
      as   == LoadPages([bitmap |-> dirR.bitmap, pd |-> NewDirectory, pt |-> NoPages],
                        CodePages)
  IN  /\ frame_bitmap = as.bitmap
      /\ process_table = [s \in Slots |->
                            IF s = 1 THEN [FreePcb EXCEPT !.pid = 1, !.state = "READY",
                                                          !.cr3 = dirR.frame]
                            ELSE FreePcb]
      /\ pd = [s \in Slots |-> IF s = 1 THEN as.pd ELSE NoTables]
      /\ pt = [s \in Slots |-> IF s = 1 THEN as.pt ELSE NoPages]
      /\ ready_queue = <<1>>
      /\ current_process = NULL
      /\ next_pid = 2
      /\ irq0_in_service = FALSE
      /\ cpu = "boot"
      /\ child = NULL
      /\ todo = {}

TypeOK ==
  /\ frame_bitmap \in [Frames -> BOOLEAN]
  /\ process_table \in [Slots -> [pid : 0..MaxPid, state : States,
                                  parent_pid : 0..MaxPid,
                                  eax : ExitStatuses \cup {0}, cr3 : Frames]]
  /\ pd \in [Slots -> [UserPdes \cup {KERNEL_PDT_IDX} -> Frames]]
  /\ pt \in [Slots -> [UserPages -> Frames]]
  /\ ready_queue \in Seq(Slots)
  /\ current_process \in Slots \cup {NULL}
  /\ next_pid \in 1..MaxPid + 1
  /\ irq0_in_service \in BOOLEAN
  /\ cpu \in CpuModes
  /\ child \in Slots \cup {NULL}
  /\ todo \subseteq UserPages

Cur == current_process
FreeSlots == {s \in Slots : process_table[s].state = "FREE"}

\* allocate_pcb_and_pid on slot s: pid = next_pid++, context zeroed; the
\* state is left FREE.
allocate_pcb_and_pid(s) ==
  [process_table[s] EXCEPT !.pid = next_pid, !.eax = 0, !.cr3 = NoFrame]

\* Mutant: the scheduler's dequeue also puts a preempted RUNNING process
\* back at the tail (the re-queue spec.md 9 asks for).
schedule_pop_requeue(q) ==
  IF Cur # NULL /\ process_table[Cur].state = "RUNNING"
    THEN Tail(q) \o <<Cur>> ELSE Tail(q)

\* Mutant: the dequeue is lost and the head stays on the queue.
schedule_pop_keep(q) == q

\* schedule(): ready_queue_head = ready_queue_head->next_in_ready_queue.
schedule_pop(q) == Tail(q)

(***************************************************************************)
(* schedule() called by kmain (line 150) or by sys_exit (line 181).        *)
(***************************************************************************)
\* An empty queue: schedule returns; kmain halts, sys_exit returns 0 to user.
ScheduleEmpty ==
  /\ cpu \in {"boot", "exit_sched"}
  /\ ready_queue = <<>>
  /\ cpu' = IF cpu = "boot" THEN "idle" ELSE "user"
  /\ UNCHANGED <<frame_bitmap, process_table, pd, pt, ready_queue,
                 current_process, next_pid, irq0_in_service, child, todo>>

\* current_process = head; head = head->next.
SchedulePick ==
  /\ cpu \in {"boot", "exit_sched"}
  /\ ready_queue # <<>>
  /\ current_process' = Head(ready_queue)
  /\ ready_queue' = schedule_pop(ready_queue)
  /\ cpu' = "sched_switch"
  /\ UNCHANGED <<frame_bitmap, process_table, pd, pt, next_pid,
                 irq0_in_service, child, todo>>

\* state = RUNNING, tss_set_kernel_stack, switch_to_process: iret into the
\* user frame of the new current process.
SwitchTo ==
  /\ cpu = "sched_switch"
  /\ process_table' = [process_table EXCEPT ![Cur].state = "RUNNING"]
  /\ cpu' = "user"
  /\ UNCHANGED <<frame_bitmap, pd, pt, ready_queue, current_process,
                 next_pid, irq0_in_service, child, todo>>

(***************************************************************************)
(* pit_handler: schedule() and only then pic_acknowledge().  When the      *)
(* queue is not empty, switch_to_process does not return, the EOI is      *)
(* never sent and IRQ0 stays in service; the interrupted flow, user code  *)
(* or a kernel path, is abandoned with its process off the queue.  With   *)
(* an empty queue the handler changes nothing.                           *)
(***************************************************************************)
Tick ==
  /\ ~irq0_in_service
  /\ ready_queue # <<>>
  /\ irq0_in_service' = TRUE
  /\ current_process' = Head(ready_queue)
  /\ ready_queue' = schedule_pop(ready_queue)
  /\ process_table' = [process_table EXCEPT ![Head(ready_queue)].state = "RUNNING"]
  /\ cpu' = "user"
  /\ child' = NULL
  /\ todo' = {}
  /\ UNCHANGED <<frame_bitmap, pd, pt, next_pid>>

(***************************************************************************)
(* sys_fork (syscall.c 81-163), split where a tick can separate its steps. *)
(* The no-free-PCB path returns -1 and changes nothing that is modelled.  *)
(***************************************************************************)
\* Mutant: allocate_pcb_and_pid forgets to advance next_pid.
NextPidStuck(n) == n

\* next_pid++ in allocate_pcb_and_pid.
NextPid(n) == n + 1

\* allocate_pcb_and_pid and parent_pid; create_page_directory fails: state
\* = FREE (it still is) and -1 is returned.  The pid stays in the slot.
SysForkNoDirectory ==
  /\ cpu = "user"
  /\ next_pid <= MaxPid
  /\ FreeSlots # {}
  /\ alloc_frame(frame_bitmap).frame = NoFrame
  /\ LET s == Min(FreeSlots)
     IN  process_table' = [process_table EXCEPT
                             ![s] = [allocate_pcb_and_pid(s) EXCEPT
                                       !.parent_pid = process_table[Cur].pid]]
  /\ next_pid' = NextPid(next_pid)
  /\ UNCHANGED <<frame_bitmap, pd, pt, ready_queue, current_process,
                 irq0_in_service, cpu, child, todo>>

\* allocate_pcb_and_pid, parent_pid, create_page_directory (a zeroed
\* directory sharing the kernel half), reg copied from the parent; the copy
\* loop will walk every present PTE of the parent's user half.
SysFork ==
  /\ cpu = "user"
  /\ next_pid <= MaxPid
  /\ FreeSlots # {}
  /\ LET s    == Min(FreeSlots)
         dirR == alloc_frame(frame_bitmap)
     IN  /\ dirR.frame # NoFrame
         /\ frame_bitmap' = dirR.bitmap
         /\ process_table' = [process_table EXCEPT
                                ![s] = [allocate_pcb_and_pid(s) EXCEPT
                                          !.parent_pid = process_table[Cur].pid,
                                          !.cr3 = dirR.frame,
                                          !.eax = process_table[Cur].eax]]
         /\ pd' = [pd EXCEPT ![s] = NewDirectory]
         /\ pt' = [pt EXCEPT ![s] = NoPages]
         /\ child' = s
  /\ next_pid' = NextPid(next_pid)
  /\ todo' = {p \in UserPages : pt[Cur][p] # NoFrame}
  /\ cpu' = "fork_copy"
  /\ UNCHANGED <<ready_queue, current_process, irq0_in_service>>

\* One iteration of the copy loop: alloc_frame, memcpy, map_page into the
\* child's directory with the parent's flags.
ForkCopy ==
  /\ cpu = "fork_copy"
  /\ todo # {}
  /\ LET p  == Min(todo)
         r  == alloc_frame(frame_bitmap)
         as == map_page(r.bitmap, pd[child], pt[child], p, r.frame)
     IN  /\ r.frame # NoFrame
         /\ frame_bitmap' = as.bitmap
         /\ pd' = [pd EXCEPT ![child] = as.pd]
         /\ pt' = [pt EXCEPT ![child] = as.pt]
         /\ todo' = todo \ {p}
  /\ UNCHANGED <<process_table, ready_queue, current_process, next_pid,
                 irq0_in_service, cpu, child>>

\* alloc_frame fails in the loop: state = FREE, return -1.  The frames of
\* the directory, tables and pages copied so far are not freed.
ForkCopyFail ==
  /\ cpu = "fork_copy"
  /\ todo # {}
  /\ alloc_frame(frame_bitmap).frame = NoFrame
  /\ process_table' = [process_table EXCEPT ![child].state = "FREE"]
  /\ cpu' = "user"
  /\ child' = NULL
  /\ todo' = {}
  /\ UNCHANGED <<frame_bitmap, pd, pt, ready_queue, current_process,
                 next_pid, irq0_in_service>>

\* The kstack frame is built, reg.eax = 0, state = READY.
ForkReady ==
  /\ cpu = "fork_copy"
  /\ todo = {}
  /\ process_table' = [process_table EXCEPT ![child].eax = 0,
                                            ![child].state = "READY"]
  /\ cpu' = "fork_link"
  /\ UNCHANGED <<frame_bitmap, pd, pt, ready_queue, current_process,
                 next_pid, irq0_in_service, child, todo>>

\* The child is linked at the head of the queue; the parent returns.
ForkLink ==
  /\ cpu = "fork_link"
  /\ ready_queue' = <<child>> \o ready_queue
  /\ cpu' = "user"
  /\ child' = NULL
  /\ UNCHANGED <<frame_bitmap, process_table, pd, pt, current_process,
                 next_pid, irq0_in_service, todo>>

(***************************************************************************)
(* sys_exit: reg.eax = status, state = TERMINATED, then schedule().        *)
(***************************************************************************)
SysExit(st) ==
  /\ cpu = "user"
  /\ process_table' = [process_table EXCEPT ![Cur].eax = st,
                                            ![Cur].state = "TERMINATED"]
  /\ cpu' = "exit_sched"
  /\ UNCHANGED <<frame_bitmap, pd, pt, ready_queue, current_process,
                 next_pid, irq0_in_service, child, todo>>

\* allocate_pcb_and_pid finds no FREE slot: sys_fork returns -1 and
\* nothing changes.  Only UserProgram, which sees the result, uses it.
ForkNoPcb ==
  /\ cpu = "user"
  /\ FreeSlots = {}
  /\ UNCHANGED vars

(***************************************************************************)
(* sys_wait (syscall.c 186-220), for UserProgram, which sees its result.   *)
(* The reap branch needs a parent to run after its child exited, which     *)
(* NoReapableZombie shows never happens, so here sys_wait changes nothing *)
(* reachable and Next leaves it out.                                      *)
(***************************************************************************)
\* The first TERMINATED slot whose parent_pid is ppid; NULL if none.
get_zombie_process_for_parent(ppid) ==
  LET z == {s \in Slots : /\ process_table[s].state = "TERMINATED"
                          /\ process_table[s].parent_pid = ppid}
  IN  IF z = {} THEN NULL ELSE Min(z)

\* The zombie becomes FREE with pid and parent_pid 0.
SysWait ==
  /\ cpu = "user"
  /\ LET z == get_zombie_process_for_parent(process_table[Cur].pid)
     IN  process_table' =
           IF z = NULL THEN process_table
           ELSE [process_table EXCEPT ![z].state = "FREE", ![z].pid = 0,
                                      ![z].parent_pid = 0]
  /\ UNCHANGED <<frame_bitmap, pd, pt, ready_queue, current_process,
                 next_pid, irq0_in_service, cpu, child, todo>>

\* What sys_wait returns for zombie z: -1 for none, else child->pid read
\* after it was zeroed (line 219).
wait_return(z) == IF z = NULL THEN -1 ELSE process_table'[z].pid

(***************************************************************************)
(* page_fault_handler on a not-present user page p of the current process: *)
(* alloc_frame (halt on failure), map_page into current_process's cr3,   *)
(* zero the frame, restart the instruction.                               *)
(***************************************************************************)
PageFault(p) ==
  /\ cpu = "user"
  /\ pt[Cur][p] = NoFrame
  /\ LET r  == alloc_frame(frame_bitmap)
         as == map_page(r.bitmap, pd[Cur], pt[Cur], p, r.frame)
     IN  /\ r.frame # NoFrame
         /\ frame_bitmap' = as.bitmap
         /\ pd' = [pd EXCEPT ![Cur] = as.pd]
         /\ pt' = [pt EXCEPT ![Cur] = as.pt]
  /\ UNCHANGED <<process_table, ready_queue, current_process, next_pid,
                 irq0_in_service, cpu, child, todo>>

PageFaultNoFrame(p) ==
  /\ cpu = "user"
  /\ pt[Cur][p] = NoFrame
  /\ alloc_frame(frame_bitmap).frame = NoFrame
  /\ cpu' = "halt"
  /\ UNCHANGED <<frame_bitmap, process_table, pd, pt, ready_queue,
                 current_process, next_pid, irq0_in_service, child, todo>>

\* A page fault page_fault_handler treats as fatal: an address at or above
\* KERNEL_VIRTUAL_START, or a protection violation.
FatalFault ==
  /\ cpu = "user"
  /\ cpu' = "halt"
  /\ UNCHANGED <<frame_bitmap, process_table, pd, pt, ready_queue,
                 current_process, next_pid, irq0_in_service, child, todo>>

\* general_protection_fault_handler (interrupt.c 22-52), for a user
\* instruction the CPU refuses: it logs the frame and halts, with
\* interrupts still enabled (a trap gate), whoever was running.
GeneralProtectionFault ==
  /\ cpu = "user"
  /\ cpu' = "halt"
  /\ UNCHANGED <<frame_bitmap, process_table, pd, pt, ready_queue,
                 current_process, next_pid, irq0_in_service, child, todo>>

Next ==
  \/ ScheduleEmpty \/ SchedulePick \/ SwitchTo \/ Tick
  \/ SysForkNoDirectory \/ SysFork \/ ForkCopy \/ ForkCopyFail
  \/ ForkReady \/ ForkLink
  \/ \E st \in ExitStatuses : SysExit(st)
  \/ \E p \in UserPages : PageFault(p) \/ PageFaultNoFrame(p)
  \/ FatalFault \/ GeneralProtectionFault

Spec == Init /\ [][Next]_vars

(***************************************************************************)
(* Properties                                                              *)
(***************************************************************************)
\* Slots whose address space is in use: every non-FREE PCB and the child a
\* fork is building.
LiveSlots == {s \in Slots : process_table[s].state # "FREE"}
               \cup (IF child # NULL THEN {child} ELSE {})

\* The frames an address space references: directory, page tables, pages.
RefKeys == {<<"dir", 0>>} \cup {<<"pde", d>> : d \in UserPdes}
             \cup {<<"pte", p>> : p \in UserPages}
FrameAt(s, k) ==
  CASE k[1] = "dir" -> process_table[s].cr3
    [] k[1] = "pde" -> pd[s][k[2]]
    [] OTHER        -> pt[s][k[2]]
Refs == {<<s, k>> \in LiveSlots \X RefKeys : FrameAt(s, k) # NoFrame}

(***************************************************************************)
(* No frame is shared: the directories, page tables and pages of live      *)
(* processes (including a child mid-fork) are distinct frames, each       *)
(* marked in the bitmap and above the reserved kernel region.  Fork's     *)
(* eager copy, demand paging and map_page's table allocation all depend   *)
(* on alloc_frame never handing out a frame twice.                        *)
(***************************************************************************)
FrameOwnership ==
  \A x, y \in Refs :
    /\ frame_bitmap[FrameAt(x[1], x[2])]
    /\ FrameAt(x[1], x[2]) >= KernelEndFrame
    /\ x # y => FrameAt(x[1], x[2]) # FrameAt(y[1], y[2])

(***************************************************************************)
(* The ready queue is a list of distinct READY slots and does not hold the *)
(* current process: fork's head insertion, schedule's and the tick's      *)
(* dequeue, interleaved at any kernel step, keep the list well formed.    *)
(***************************************************************************)
ReadyQueueSound ==
  /\ IsInjective(ready_queue)
  /\ \A i \in DOMAIN ready_queue : process_table[ready_queue[i]].state = "READY"
  /\ Cur # NULL => Cur \notin ToSet(ready_queue)

(***************************************************************************)
(* PIDs are never reused in a run (spec.md 3): PCBs in use carry distinct  *)
(* pids below next_pid, whatever fork failures and slot reuse happened.    *)
(***************************************************************************)
PidsUnique ==
  \A s, t \in Slots \ FreeSlots :
    /\ process_table[s].pid \in 1..next_pid - 1
    /\ s # t => process_table[s].pid # process_table[t].pid

(***************************************************************************)
(* sys_wait never finds a child to reap: whenever a process runs user code *)
(* no TERMINATED PCB names it as parent.  A parent is taken off the queue  *)
(* when it is preempted and never re-queued, so it cannot run again after  *)
(* its child has run and exited (spec.md 8, scenario 3, expects it to).   *)
(***************************************************************************)
NoReapableZombie ==
  cpu = "user" =>
    ~\E s \in Slots : /\ process_table[s].state = "TERMINATED"
                      /\ process_table[s].parent_pid = process_table[Cur].pid

(***************************************************************************)
(* Claims of spec.md that the code does not keep (violation runs).         *)
(***************************************************************************)

\* spec.md 3: exactly one PCB is RUNNING while interrupts are enabled, the
\* one whose user code runs.  schedule() from a tick marks the new head
\* RUNNING and leaves the preempted process RUNNING, off the queue; sys_exit
\* on an empty queue returns 0 to its TERMINATED caller (spec.md 4.F: exit
\* never returns).
ExactlyOneRunning ==
  {s \in Slots : process_table[s].state = "RUNNING"} = {Cur}

(***************************************************************************)
(* spec.md 3: a READY PCB is linked in the ready queue, whenever user code *)
(* runs.  A tick between sys_fork's state = READY and its link, or between *)
(* schedule()'s dequeue and state = RUNNING, strands a READY PCB.          *)
(***************************************************************************)
ReadyMeansQueued ==
  cpu = "user" =>
    \A s \in Slots : process_table[s].state = "READY" => s \in ToSet(ready_queue)

(***************************************************************************)
(* spec.md 3: FREE PCBs have pid 0.  A failed fork sets the slot FREE and  *)
(* keeps the pid allocate_pcb_and_pid gave it.                            *)
(***************************************************************************)
FreeSlotHasNoPid ==
  \A s \in FreeSlots : process_table[s].pid = 0

(***************************************************************************)
(* spec.md 3 lists the PCB invariants together: FREE PCBs have pid 0, a   *)
(* READY PCB is linked in the ready queue, exactly one PCB is RUNNING.    *)
(* A failed or interrupted sys_fork, a tick inside fork or schedule(), a  *)
(* timer-driven schedule() and an exit with nothing queued each break one *)
(* of them.  Stated where user code runs, between kernel paths.          *)
(***************************************************************************)
PcbInvariants ==
  cpu = "user" => FreeSlotHasNoPid /\ ReadyMeansQueued /\ ExactlyOneRunning

(***************************************************************************)
(* spec.md 4.B: every live PCB's directory carries the shared kernel       *)
(* mapping, the top-half entries of the kernel directory, which init()    *)
(* points at the kernel page table.  switch_to_process loads the current  *)
(* process's directory into CR3 while it runs kernel code at 0xC0000000,  *)
(* and the trap stubs run under that CR3, so whenever user code runs the  *)
(* entry KERNEL_PDT_IDX of its directory must be present.                 *)
(***************************************************************************)
KernelHalfMapped ==
  cpu = "user" => pd[Cur][KERNEL_PDT_IDX] # NoFrame

(***************************************************************************)
(* Fairness: kernel paths run to completion unless the tick preempts them, *)
(* and the PIT fires every 10 ms, so an enabled tick is eventually taken.  *)
(* User code gets no fairness: a program may loop or stop in user mode.   *)
(***************************************************************************)
KernelStep ==
  \/ ScheduleEmpty \/ SchedulePick \/ SwitchTo
  \/ ForkCopy \/ ForkCopyFail \/ ForkReady \/ ForkLink

FairSpec == Spec /\ WF_vars(KernelStep) /\ WF_vars(Tick)

(***************************************************************************)
(* spec.md 4.D and 5: the timer preempts user code and the scheduler runs  *)
(* every queued process, so a process on the ready queue eventually runs.  *)
(* pit_handler acknowledges the PIC only after schedule(), which does not  *)
(* return when it switches, so IRQ0 stays in service after the first      *)
(* timer-driven switch and no tick comes again.                           *)
(***************************************************************************)
QueuedEventuallyRuns ==
  \A s \in Slots :
    (s \in ToSet(ready_queue)) ~> (process_table[s].state = "RUNNING")
============================================================================
