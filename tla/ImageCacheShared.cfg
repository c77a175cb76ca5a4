SPECIFICATION FairSpec
CONSTANTS
  c1 = c1
  c2 = c2
  c3 = c3
  i1 = i1
  i2 = i2
  f1 = f1
  f2 = f2
  None = None
  Junk = Junk
  Creates <- ThreeCreates
  Files <- MCFiles
  Images <- TwoImages
  Remote <- JustSecond
  Source <- TwoAndOne
  FileOf <- OwnFiles
  DiskMembers <- BothMembers
  Faults <- FetchAndVBox
  N = 2
  Tries = 4
  MaxRestarts = 1
INVARIANT UnpackedIsWhole
INVARIANT BuiltFromItsImage
PROPERTY EveryCreateEnds
