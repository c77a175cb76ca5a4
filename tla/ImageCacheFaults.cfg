SPECIFICATION Spec
CONSTANTS
  c1 = c1
  c2 = c2
  c3 = c3
  i1 = i1
  i2 = i2
  f1 = f1
  f2 = f2
  None = None
  Junk = Junk
  Creates <- ThreeCreates
  Files <- MCFiles
  Images <- TwoImages
  Remote <- TwoImages
  Source <- TwoAndOne
  FileOf <- OwnFiles
  DiskMembers <- SecondMember
  Faults <- AllFaults
  N = 2
  Tries = 2
  MaxRestarts = 1
INVARIANT TypeOK
INVARIANT MutualExclusion
PROPERTY GoldFrozenInUse
SYMMETRY Alike
