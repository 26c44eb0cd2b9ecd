\* Three entries: enough for a shift that moves two structs.
CONSTANTS
  MAX_MOUNT_POINTS = 3
  MountPaths <- MCMountPaths
  LookupPaths <- MCLookupPaths
SPECIFICATION Spec
INVARIANT TypeOK
INVARIANT LookupIsLongestPrefix
