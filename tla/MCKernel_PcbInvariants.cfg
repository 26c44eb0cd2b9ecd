CONSTANTS
  NFrames = 10
  KernelEndFrame = 1
  MaxProcesses = 3
  ModulePages = 1
  MaxPid = 4
  ExitStatuses <- MCExitStatuses
  ModuleCounts <- MCModuleCounts
  Modules <- MCModules
SPECIFICATION BootSpec
CHECK_DEADLOCK FALSE
INVARIANT PcbInvariants
