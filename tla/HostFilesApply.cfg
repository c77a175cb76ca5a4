SPECIFICATION FairSpec
CONSTANTS
  None = None
  root = root
  data = data
  VM = VM
  Export = Export
  Disks <- TwoDisks
  Sizes <- TwoSizes
  Prefixed <- DataOnly
  Faults <- AnyFaults
  MaxTrouble = 3
INVARIANT TypeOK
INVARIANT OkMeansConfigured
PROPERTY KeepsContract
PROPERTY Converges
