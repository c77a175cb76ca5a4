SPECIFICATION Spec
CONSTANTS
  r1 = r1
  r2 = r2
  u1 = u1
  u2 = u2
  u3 = u3
  n1 = n1
  n2 = n2
  None = None
  Resources <- TwoResources
  Names <- TwoNames
  NameOf <- OwnName
  Kind <- ImageAndClone
  Unstable <- FirstOnly
  Forwarding <- FirstOnly
  Uuids <- ThreeUuids
  Faults <- AnyFaults
  MaxTrouble = 4
INVARIANT TypeOK
INVARIANT NoSilentLeak
INVARIANT OkMeansSetUp
PROPERTY KeepsContract
PROPERTY ForgottenOnlyWhenGone
SYMMETRY UuidsAlike
