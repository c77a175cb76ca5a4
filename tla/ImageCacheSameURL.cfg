SPECIFICATION Spec
CONSTANTS
  c1 = c1
  c2 = c2
  c3 = c3
  i1 = i1
  i2 = i2
  f1 = f1
  f2 = f2
  None = None
  Junk = Junk
  Creates <- MCCreates
  Files <- MCFiles
  Images <- OneImage
  Remote <- OneImage
  Source <- SameImage
  FileOf <- OneFile
  DiskMembers <- BothMembers
  Faults <- NoFaults
  N = 2
  Tries = 4
  MaxRestarts = 0
INVARIANT UnpackedIsWhole
