CONSTANTS
  NFrames = 10
  KernelEndFrame = 1
  MaxProcesses = 3
  ModulePages = 1
  MaxPid = 4
  ExitStatuses <- MCExitStatuses
  ModuleCounts <- MCModuleCounts
  Modules <- MCModules
SPECIFICATION BootFairSpec
CHECK_DEADLOCK FALSE
PROPERTY QueuedEventuallyRuns
