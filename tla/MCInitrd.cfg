CONSTANTS
  FileSizes <- MCFileSizes
  Fds = {d1, d2}
  ReadSizes <- MCReadSizes
SPECIFICATION Spec
INVARIANT TypeOK
INVARIANT PositionWithinFile
SYMMETRY FdSymmetry
