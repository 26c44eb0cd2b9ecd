\* kmain with module 0 and one module i > 0 that is not an initrd image
\* but passes init_initrd: a stray word 0xBF at offset 4 followed by 70,
\* or the signature with a bad magic.  Kernel bounds as in MCKernel.cfg.
CONSTANTS
  NFrames = 10
  KernelEndFrame = 1
  MaxProcesses = 3
  ModulePages = 1
  MaxPid = 4
  ExitStatuses <- MCExitStatuses
  ModuleCounts <- MCBadModuleCounts
  Modules <- MCBadModules
SPECIFICATION BootSpec
\* Fatal handlers and kmain's idle loop halt for good.
CHECK_DEADLOCK FALSE
INVARIANT InitrdHeaderValid
