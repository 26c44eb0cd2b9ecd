CONSTANTS
  NFrames = 6
  KernelEndFrame = 1
  Clients <- MCClients
SPECIFICATION MCSpec
INVARIANT TypeOK
INVARIANT FirstFitIsLowestFree
INVARIANT BitmapCoversQuarterOfFrames
PROPERTY AbstractAllocator
