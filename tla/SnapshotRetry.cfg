SPECIFICATION FairSpec
CONSTANTS
  r1 = r1
  r2 = r2
  n1 = n1
  n2 = n2
  n3 = n3
  User = User
  Resources <- TwoResources
  Names <- ThreeNames
  NameOf <- OwnName
  UserNames <- Others
  Descriptions <- TwoDescriptions
  Faults <- AnyFaults
  MaxTrouble = 3
INVARIANT TypeOK
INVARIANT HoldsItsOwn
INVARIANT SurplusHasACause
PROPERTY KeepsContract
PROPERTY Converges
CHECK_DEADLOCK FALSE
