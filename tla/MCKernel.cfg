\* kmain from its entry (magic right or wrong, zero or one module, the
\* module flag set or not), then the kernel.  Three PCBs, a one-page module, ten frames of which frame 0 is reserved,
\* so forks and page faults run out of memory; at most three forks.
CONSTANTS
  NFrames = 10
  KernelEndFrame = 1
  MaxProcesses = 3
  ModulePages = 1
  MaxPid = 4
  ExitStatuses <- MCExitStatuses
  ModuleCounts <- MCFsModuleCounts
  Modules <- MCModules
SPECIFICATION BootSpec
\* Fatal handlers and kmain's idle loop halt for good.
CHECK_DEADLOCK FALSE
INVARIANT BootTypeOK
INVARIANT FrameOwnership
INVARIANT ReadyQueueSound
INVARIANT PidsUnique
INVARIANT NoReapableZombie
INVARIANT TrapsRouted
INVARIANT SelfTestsSeeImage
INVARIANT UnhandledIrqsAreKeyboardAndCom1
INVARIANT SegmentsResolve
