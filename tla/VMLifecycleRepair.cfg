SPECIFICATION FairSpec
CONSTANTS
  r1 = r1
  r2 = r2
  u1 = u1
  u2 = u2
  u3 = u3
  n1 = n1
  n2 = n2
  None = None
  Resources <- TwoResources
  Names <- OneName
  NameOf <- SameName
  Kind <- ImageAndClone
  Unstable <- FirstOnly
  Forwarding <- Nobody
  Uuids <- ThreeUuids
  Faults <- CommandFaults
  MaxTrouble = 4
INVARIANT NoSharedVM
PROPERTY UpdatesAreCompleted
