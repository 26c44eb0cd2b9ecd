\* Seventeen frames, frame 0 reserved: module 0 of two pages, its page
\* directory, tables and the faulted-in stack page leave enough for the
\* first fork to copy the whole address space, and the second fork runs
\* out in its copy loop (ForkReturnsError).  With eighteen the second
\* fork completes with map_page dropping a page, and no fork fails.
\* Three PCBs and two forks at most keep pids within MaxPid.
CONSTANTS
  NFrames = 17
  KernelEndFrame = 1
  MaxProcesses = 3
  ModulePages = 2
  MaxPid = 4
  ExitStatuses <- MCExitStatuses
SPECIFICATION ProgSpec
\* Every process ends in main's while(1) loop or preempted: the system stops.
CHECK_DEADLOCK FALSE
INVARIANT ProgTypeOK
INVARIANT SibcallForkResultNamesChild
INVARIANT ChildBranchDead
