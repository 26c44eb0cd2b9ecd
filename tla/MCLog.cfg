\* Kernel-shaped log calls, at most one FIFO timeout per line, wait loops
\* scaled from 1000 polls to 2: only reaching the limit matters.
CONSTANTS
  Calls <- MCCalls
  MAX_STALLS = 1
  SERIAL_MAX_WAIT_ATTEMPTS = 2
SPECIFICATION LogFairSpec
 
PROPERTY LogWriteReturns
