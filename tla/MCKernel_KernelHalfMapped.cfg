\* kmain from its entry (magic right or wrong, zero or one module, the
\* module flag set or not), then the kernel, as in MCKernel.cfg.
CONSTANTS
  NFrames = 10
  KernelEndFrame = 1
  MaxProcesses = 3
  ModulePages = 1
  MaxPid = 4
  ExitStatuses <- MCExitStatuses
  ModuleCounts <- MCModuleCounts
  Modules <- MCModules
SPECIFICATION BootSpec
\* Fatal handlers and kmain's idle loop halt for good.
CHECK_DEADLOCK FALSE
INVARIANT KernelHalfMapped
