------------------------------ MODULE UserProgram ------------------------------
(***************************************************************************)
(* The kernel of Kernel.tla running the one program it boots: main() of    *)
(* src/app/main.c, whose system calls go through syscall() of              *)
(* src/app/syscall.c: the number in EAX, int $0x80, the result read back   *)
(* from EAX.  Each step of main() that makes a system call is composed     *)
(* with the kernel step that enters or returns from it; a tick can still   *)
(* fall between any two of them.                                           *)
(*                                                                         *)
(* Two facts of the code decide what user code sees:                       *)
(*  - where a process resumes: switch_to_process irets through the frame   *)
(*    built from context.stack, which create_process sets to the module    *)
(*    entry and sys_fork copies from the parent (syscall.c 112);           *)
(*  - what EAX holds after int $0x80: the stub restores the registers it   *)
(*    saved, and syscall_interrupt_handler stores its result into its     *)
(*    by-value cpu_state_t (syscall.c 61), a copy interrupt_handler made  *)
(*    for the call (interrupt.c 57).  The store reaches the saved frame   *)
(*    only if the compiler turns that call into a sibling call that       *)
(*    reuses interrupt_handler's incoming arguments; otherwise EAX keeps  *)
(*    the call number.  Which of the two the build does is fixed for a    *)
(*    run and chosen in the initial state (variable sibcall).             *)
(***************************************************************************)
EXTENDS Kernel

\* syscall.c 12-15
SYS_PRINTF == 1
SYS_FORK   == 2
SYS_WAIT   == 4

\* The statement of main() a process executes next (app/main.c):
\*   start  printf("Starting main process")   line 4
\*   fork   pid = fork()                      line 6
\*   failed / child / parent                  lines 10, 12, 15 (printf)
\*   wait   child_pid = wait(&status)         line 18
\*   exited / wait_failed                     lines 21, 23 (printf)
\*   exiting printf("Main process exiting")   line 27
\*   loop   while(1) {}                       line 28
Pcs == {"start", "fork", "failed", "child", "parent", "wait", "exited",
        "wait_failed", "exiting", "loop"}

\* Where an iret frame can send user code: the module entry, main's first
\* statement (USER_CODE_START), or the instruction after int $0x80 in fork().
Resumes == {"entry", "after_int80"}

VARIABLES
  upc,      \* upc[s]: the statement of main() slot s's process runs next
  entry,    \* entry[s]: where context.stack.eip of slot s resumes
  pid_var,  \* pid_var[s]: main's local pid, the value fork() returned
  sibcall   \* the build's handler store reaches user EAX (never changes)

uvars == <<upc, entry, pid_var, sibcall>>
allvars == <<vars, uvars>>

\* The printf calls and the statement after each; the child branch (line 12)
\* is not here because no process reaches it (ChildBranchDead).
AfterPrintf == [start |-> "fork", failed |-> "exiting", parent |-> "wait",
                exited |-> "exiting", wait_failed |-> "exiting",
                exiting |-> "loop"]

\* EAX after int $0x80 with call number num whose handler returned result.
UserEax(num, result) == IF sibcall THEN result ELSE num

\* main's branch on pid = fork() (lines 9-15) and on wait's result (20-24).
AfterFork(r) == CASE r < 0 -> "failed" [] r = 0 -> "child" [] OTHER -> "parent"
AfterWait(r) == IF r > 0 THEN "exited" ELSE "wait_failed"

\* Mutant: fork builds the child's frame to resume after int $0x80, as
\* spec.md 4.F says it does.
child_entry_after_int80(e) == "after_int80"

\* child->context.stack = current_process->context.stack (line 112).
child_entry(e) == e

\* Mutant: sys_fork returns next_pid, one past the child's pid.
fork_return_next(s) == next_pid

\* return child->pid (line 162).
fork_return(s) == process_table[s].pid

\* The statement user code of slot s starts at when switch_to_process irets
\* into it: main's first one, or the return of fork() with EAX restored
\* from context.reg.eax.
Resume(s) == IF entry[s] = "entry" THEN "start"
             ELSE AfterFork(process_table[s].eax)

\* main's frame is on the user stack: a call touches StackPage first.
StackMapped == pt[Cur][StackPage] # NoFrame

ProgInit ==
  /\ Init
  /\ upc = [s \in Slots |-> "start"]
  /\ entry = [s \in Slots |-> "entry"]   \* create_process: eip = USER_CODE_START
  /\ pid_var = [s \in Slots |-> 0]
  /\ sibcall \in BOOLEAN

ProgTypeOK ==
  /\ TypeOK
  /\ upc \in [Slots -> Pcs]
  /\ entry \in [Slots -> Resumes]
  /\ pid_var \in [Slots -> -1..MaxPid]
  /\ sibcall \in BOOLEAN

(***************************************************************************)
(* User steps.                                                             *)
(***************************************************************************)
\* The first push faults on the stack page; page_fault_handler maps it.
StackFault ==
  /\ PageFault(StackPage)
  /\ UNCHANGED uvars

\* printf: sys_printf gets a non-NULL format, logs it and returns 1, which
\* main ignores.
Printf ==
  /\ cpu = "user"
  /\ StackMapped
  /\ upc[Cur] \in DOMAIN AfterPrintf
  /\ upc' = [upc EXCEPT ![Cur] = AfterPrintf[upc[Cur]]]
  /\ UNCHANGED <<vars, entry, pid_var, sibcall>>

\* fork() enters sys_fork, which gets a PCB and a directory and copies the
\* parent's trap frame into the child.
ForkEnter ==
  /\ Cur # NULL
  /\ upc[Cur] = "fork"
  /\ StackMapped
  /\ SysFork
  /\ entry' = [entry EXCEPT ![child'] = child_entry(entry[Cur])]
  /\ UNCHANGED <<upc, pid_var, sibcall>>

\* sys_fork's copy loop and the building of the child's kernel stack.
ForkBody ==
  /\ ForkCopy \/ ForkReady
  /\ UNCHANGED uvars

\* main stores what fork() left in EAX and branches on it.
ForkResult(r) ==
  /\ pid_var' = [pid_var EXCEPT ![Cur] = r]
  /\ upc' = [upc EXCEPT ![Cur] = AfterFork(r)]
  /\ UNCHANGED <<entry, sibcall>>

\* sys_fork links the child and returns its pid.
ForkReturnsChild ==
  /\ Cur # NULL
  /\ upc[Cur] = "fork"
  /\ ForkLink
  /\ ForkResult(UserEax(SYS_FORK, fork_return(child)))

\* sys_fork returns -1: no PCB, no directory, or no frame in the copy loop.
ForkReturnsError ==
  /\ Cur # NULL
  /\ upc[Cur] = "fork"
  /\ StackMapped
  /\ ForkNoPcb \/ SysForkNoDirectory \/ ForkCopyFail
  /\ ForkResult(UserEax(SYS_FORK, -1))

\* wait(&status): sys_wait looks for a zombie child and returns.
Wait ==
  /\ Cur # NULL
  /\ upc[Cur] = "wait"
  /\ StackMapped
  /\ SysWait
  /\ LET z == get_zombie_process_for_parent(process_table[Cur].pid)
     IN  upc' = [upc EXCEPT ![Cur] = AfterWait(UserEax(SYS_WAIT, wait_return(z)))]
  /\ UNCHANGED <<entry, pid_var, sibcall>>

(***************************************************************************)
(* Scheduling.  kmain's schedule() always finds module 0 queued, and no    *)
(* process reaches exit(), so ScheduleEmpty never happens here.           *)
(***************************************************************************)
Dispatch ==
  /\ SchedulePick
  /\ UNCHANGED uvars

Switch ==
  /\ SwitchTo
  /\ upc' = [upc EXCEPT ![Cur] = Resume(Cur)]
  /\ UNCHANGED <<entry, pid_var, sibcall>>

TimerTick ==
  /\ Tick
  /\ upc' = [upc EXCEPT ![Head(ready_queue)] = Resume(Head(ready_queue))]
  /\ UNCHANGED <<entry, pid_var, sibcall>>

ProgNext ==
  \/ StackFault \/ Printf
  \/ ForkEnter \/ ForkBody \/ ForkReturnsChild \/ ForkReturnsError
  \/ Wait
  \/ Dispatch \/ Switch \/ TimerTick

ProgSpec == ProgInit /\ [][ProgNext]_allvars

(***************************************************************************)
(* Properties                                                              *)
(***************************************************************************)

(***************************************************************************)
(* spec.md 4.F: the parent sees the child's pid.  When main's pid is      *)
(* positive, a PCB in use has that pid and the caller as parent.  It      *)
(* rests on sys_fork's return value reaching EAX through the by-value     *)
(* cpu_state_t of syscall_interrupt_handler, and on pids not being reused.*)
(***************************************************************************)
ForkResultNamesChild ==
  \A s \in Slots :
    /\ process_table[s].state # "FREE"
    /\ upc[s] \notin {"start", "fork"}
    /\ pid_var[s] > 0
    => \E t \in Slots : /\ process_table[t].state # "FREE"
                        /\ process_table[t].pid = pid_var[s]
                        /\ process_table[t].parent_pid = process_table[s].pid

(***************************************************************************)
(* In a build whose syscall_interrupt_handler store reaches the saved     *)
(* frame, fork() hands the parent its child's pid: sys_fork's return at   *)
(* line 162, after the copy loop and the link, interleaved with the tick, *)
(* names the PCB it built.                                                *)
(***************************************************************************)
SibcallForkResultNamesChild ==
  sibcall => ForkResultNamesChild

(***************************************************************************)
(* No process takes main's child branch (lines 11-13): a forked process    *)
(* resumes at the module entry, from the frame sys_fork copied, and never *)
(* returns from fork(); its parent sees a pid, -1, or (when EAX is not    *)
(* written back) the call number 2.  This is why the model has no step   *)
(* for the child's printf and exit(42).                                   *)
(***************************************************************************)
ChildBranchDead ==
  \A s \in Slots : upc[s] # "child"
============================================================================
